----------------------------- MODULE ByteChannel -----------------------------
(***************************************************************************)
(* What one direction of the serial port promises: bytes, numbered in the  *)
(* order in which they are put in, may be lost on the way, but come out in *)
(* that order and none of them twice.                                      *)
(***************************************************************************)
EXTENDS Naturals, Sequences

VARIABLES
    put,        \* how many bytes have been put in
    queue,      \* the bytes on the way
    got         \* the number of the byte that came out last, or 0

channelVars == <<put, queue, got>>

ChannelInit == put = 0 /\ queue = <<>> /\ got = 0

(* One or more bytes are put in; they may be lost at once.                 *)
Put ==
    /\ put' \in Nat /\ put' > put
    /\ queue' \in {queue, queue \o [n \in 1 .. put' - put |-> put + n]}
    /\ got' = got

(* Bytes are lost at either end of the queue.                              *)
Lose ==
    /\ \E m \in 1 .. Len(queue) + 1, n \in 0 .. Len(queue) :
           queue' = SubSeq(queue, m, n)
    /\ UNCHANGED <<put, got>>

(* One or more bytes come out.                                             *)
Deliver ==
    /\ \E n \in 1 .. Len(queue) :
           got' = queue[n] /\ queue' = SubSeq(queue, n + 1, Len(queue))
    /\ put' = put

ChannelNext == Put \/ Lose \/ Deliver

ChannelSpec == ChannelInit /\ [][ChannelNext]_channelVars

(* What the specification means for the receiver: all bytes on the way     *)
(* were put in later than the last one that came out, and in their order.  *)
ChannelInv ==
    /\ put \in Nat /\ got \in Nat /\ queue \in Seq(Nat)
    /\ \A n \in 1 .. Len(queue) : got < queue[n] /\ queue[n] <= put
    /\ \A n \in 1 .. Len(queue), m \in 1 .. Len(queue) :
           n < m => queue[n] < queue[m]
    /\ got <= put

(* So the bytes that come out are numbered upwards.                        *)
NeverTwice == [][got' # got => got' > got]_channelVars
=============================================================================
