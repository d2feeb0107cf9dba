------------------------- MODULE ByteChannel_proofs -------------------------
(***************************************************************************)
(* What the abstract channel promises: no byte twice, none out of order.   *)
(***************************************************************************)
EXTENDS ByteChannel, SequenceTheorems, TLAPS

(* A part of a sequence of increasing numbers is one.                      *)
LEMMA PartOfQueue ==
    ASSUME ChannelInv, NEW m \in 1 .. Len(queue) + 1, NEW n \in 0 .. Len(queue)
    PROVE  LET part == SubSeq(queue, m, n)
           IN  /\ part \in Seq(Nat)
               /\ \A i \in 1 .. Len(part) :
                      i + m - 1 \in 1 .. Len(queue) /\ part[i] = queue[i + m - 1]
  <1>1. Len(queue) \in Nat
    BY LenProperties DEF ChannelInv
  <1>2. \A i \in m .. n : queue[i] \in Nat
    BY <1>1, ElementOfSeq DEF ChannelInv
  <1>3. /\ SubSeq(queue, m, n) \in Seq(Nat)
        /\ Len(SubSeq(queue, m, n)) = IF m <= n THEN n - m + 1 ELSE 0
        /\ \A i \in 1 .. n - m + 1 : SubSeq(queue, m, n)[i] = queue[m + i - 1]
    BY <1>1, <1>2, SubSeqProperties
  <1> QED BY <1>1, <1>3

(* The numbers of the bytes put in by one step.                            *)
LEMMA NewNumbers ==
    ASSUME NEW k \in Nat, NEW l \in Nat, l > k
    PROVE  LET more == [n \in 1 .. l - k |-> k + n]
           IN  /\ l - k \in Nat
               /\ more \in Seq(Nat) /\ Len(more) = l - k
               /\ \A i \in 1 .. l - k :
                      more[i] = k + i /\ more[i] > k /\ more[i] <= l
  <1> DEFINE d == l - k
             more == [n \in 1 .. d |-> k + n]
  <1>1. d \in Nat
    OBVIOUS
  <1>2. \A n \in 1 .. d : k + n \in Nat /\ k + n > k /\ k + n <= l
    OBVIOUS
  <1> HIDE DEF d
  <1>3. more \in [1 .. d -> Nat]
    BY <1>2
  <1>4. more \in Seq(Nat) /\ DOMAIN more = 1 .. d
    BY <1>1, <1>3, SeqDef
  <1>5. Len(more) = d
    BY <1>1, <1>4, LenProperties
  <1> QED BY <1>1, <1>2, <1>4, <1>5 DEF d

(* The invariant holds throughout, and bytes come out in their order.      *)
LEMMA ChannelStep ==
    ChannelInv /\ [ChannelNext]_channelVars =>
        ChannelInv' /\ (got' # got => got' > got)
  <1> SUFFICES ASSUME ChannelInv, [ChannelNext]_channelVars
               PROVE  ChannelInv' /\ (got' # got => got' > got)
    OBVIOUS
  <1>0. Len(queue) \in Nat /\ \A i \in 1 .. Len(queue) : queue[i] \in Nat
    BY LenProperties, ElementOfSeq DEF ChannelInv
  <1>1. CASE Put
    <2> DEFINE more == [n \in 1 .. put' - put |-> put + n]
    <2>1. put' - put \in Nat /\ put' \in Nat /\ put \in Nat
      <3>1. put' \in Nat /\ put' > put
        BY <1>1, Zenon DEF Put
      <3>2. put \in Nat
        BY Zenon DEF ChannelInv
      <3>3. put' - put \in Nat
        BY <3>1, <3>2, NewNumbers, Zenon
      <3> QED BY <3>1, <3>2, <3>3, Zenon
    <2>6. put' > put
      BY <1>1, Zenon DEF Put
    <2>2. /\ more \in Seq(Nat) /\ Len(more) = put' - put
          /\ \A i \in 1 .. Len(more) :
                 more[i] = put + i /\ more[i] > put /\ more[i] <= put'
      BY <2>1, <2>6, NewNumbers
    <2> HIDE DEF more
    <2>3. /\ queue \o more \in Seq(Nat)
          /\ Len(queue \o more) = Len(queue) + Len(more)
          /\ \A i \in 1 .. Len(queue) + Len(more) :
                 (queue \o more)[i] = IF i <= Len(queue) THEN queue[i]
                                      ELSE more[i - Len(queue)]
      BY <2>2, ConcatProperties DEF ChannelInv
    <2>4. CASE queue' = queue \o more
      <3>1. \A i \in 1 .. Len(queue) : queue[i] <= put /\ got < queue[i]
        BY DEF ChannelInv
      <3>2. ASSUME NEW i \in 1 .. Len(queue')
            PROVE  /\ got < queue'[i] /\ queue'[i] <= put' /\ queue'[i] \in Nat
                   /\ i \in 1 .. Len(queue) => queue'[i] = queue[i]
                   /\ i \notin 1 .. Len(queue) =>
                          queue'[i] = put + (i - Len(queue))
        <4>1. CASE i <= Len(queue)
          <5>1. i \in 1 .. Len(queue) /\ queue'[i] = queue[i]
            BY <1>0, <2>1, <2>2, <2>3, <2>4, <4>1
          <5> QED BY <5>1, <3>1, <1>0, <2>1, <2>6 DEF ChannelInv
        <4>2. CASE ~(i <= Len(queue))
          <5>1. i - Len(queue) \in 1 .. Len(more) /\ i \notin 1 .. Len(queue)
            BY <1>0, <2>1, <2>2, <2>3, <2>4, <4>2
          <5>2. queue'[i] = more[i - Len(queue)]
            BY <1>0, <2>1, <2>2, <2>3, <2>4, <4>2
          <5>3. got \in Nat /\ got <= put
            BY Zenon DEF ChannelInv
          <5>4. LET e == more[i - Len(queue)]
                IN  e = put + (i - Len(queue)) /\ e > put /\ e <= put'
            BY <2>2, <5>1
          <5>5. i - Len(queue) \in Nat
            BY <5>1, <2>1, <2>2
          <5> QED BY <5>1, <5>2, <5>3, <5>4, <5>5, <2>1, SMTT(30)
        <4> QED BY <4>1, <4>2
      <3>3. \A i, j \in 1 .. Len(queue') : i < j => queue'[i] < queue'[j]
        <4> TAKE i, j \in 1 .. Len(queue')
        <4> HAVE i < j
        <4>1. Len(queue') \in Nat
          BY <1>0, <2>1, <2>2, <2>3, <2>4
        <4>2. CASE j \in 1 .. Len(queue)
          <5>1. i \in 1 .. Len(queue)
            BY <4>1, <4>2
          <5>2. queue[i] < queue[j]
            BY <4>2, <5>1 DEF ChannelInv
          <5> QED BY <3>2, <4>2, <5>1, <5>2
        <4>3. CASE j \notin 1 .. Len(queue)
          <5>1. queue'[j] = put + (j - Len(queue)) /\ j - Len(queue) > 0
            BY <1>0, <3>2, <4>1, <4>3
          <5>2. CASE i \in 1 .. Len(queue)
            <6>1. queue'[i] <= put /\ queue'[i] \in Nat
              BY <3>1, <3>2, <5>2
            <6> QED BY <1>0, <2>1, <4>1, <5>1, <6>1
          <5>3. CASE i \notin 1 .. Len(queue)
            <6>1. queue'[i] = put + (i - Len(queue))
              BY <3>2, <5>3
            <6> QED BY <1>0, <2>1, <4>1, <5>1, <6>1
          <5> QED BY <5>2, <5>3
        <4> QED BY <4>2, <4>3
      <3>4. queue' \in Seq(Nat) /\ got' = got /\ got <= put /\ put < put'
        BY <1>1, <2>3, <2>4 DEF Put, ChannelInv
      <3> QED BY <2>1, <3>2, <3>3, <3>4 DEF ChannelInv
    <2>5. CASE queue' = queue
      BY <1>0, <1>1, <2>1, <2>5 DEF Put, ChannelInv
    <2> QED BY <1>1, <2>4, <2>5 DEF Put, more
  <1>2. CASE Lose
    <2>1. PICK m \in 1 .. Len(queue) + 1, n \in 0 .. Len(queue) :
              queue' = SubSeq(queue, m, n)
      BY <1>2 DEF Lose
    <2>2. /\ queue' \in Seq(Nat)
          /\ \A i \in 1 .. Len(queue') :
                 i + m - 1 \in 1 .. Len(queue) /\ queue'[i] = queue[i + m - 1]
      BY <2>1, PartOfQueue
    <2>3. Len(queue') \in Nat
      BY <2>2, LenProperties
    <2>4. \A i \in 1 .. Len(queue') : got < queue'[i] /\ queue'[i] <= put
      BY <2>2 DEF ChannelInv
    <2>5. \A i, j \in 1 .. Len(queue') : i < j => queue'[i] < queue'[j]
      <3> TAKE i, j \in 1 .. Len(queue')
      <3> HAVE i < j
      <3>1. i + m - 1 \in 1 .. Len(queue) /\ j + m - 1 \in 1 .. Len(queue)
        BY <2>2
      <3>2. i + m - 1 < j + m - 1
        BY <2>3
      <3>3. queue[i + m - 1] < queue[j + m - 1]
        BY <3>1, <3>2 DEF ChannelInv
      <3> QED BY <2>2, <3>3
    <2> QED BY <1>2, <2>2, <2>4, <2>5 DEF Lose, ChannelInv
  <1>3. CASE Deliver
    <2>1. PICK k \in 1 .. Len(queue) :
              got' = queue[k] /\ queue' = SubSeq(queue, k + 1, Len(queue))
      BY <1>3 DEF Deliver
    <2>2. /\ queue' \in Seq(Nat)
          /\ \A i \in 1 .. Len(queue') :
                 i + k \in 1 .. Len(queue) /\ queue'[i] = queue[i + k]
      <3>1. k + 1 \in 1 .. Len(queue) + 1 /\ Len(queue) \in 0 .. Len(queue)
        BY <1>0
      <3>2. /\ queue' \in Seq(Nat)
            /\ \A i \in 1 .. Len(queue') :
                   /\ i + (k + 1) - 1 \in 1 .. Len(queue)
                   /\ queue'[i] = queue[i + (k + 1) - 1]
        BY <2>1, <3>1, PartOfQueue
      <3>3. Len(queue') \in Nat
        BY <3>2, LenProperties
      <3> QED BY <1>0, <3>2, <3>3
    <2>3. Len(queue') \in Nat
      BY <2>2, LenProperties
    <2>4. \A i \in 1 .. Len(queue') : got' < queue'[i] /\ queue'[i] <= put
      <3> TAKE i \in 1 .. Len(queue')
      <3>1. k \in 1 .. Len(queue) /\ i + k \in 1 .. Len(queue) /\ k < i + k
        BY <2>2, <2>3
      <3>2. queue[k] < queue[i + k] /\ queue[i + k] <= put
        BY <3>1 DEF ChannelInv
      <3> QED BY <2>1, <2>2, <3>2
    <2>5. \A i, j \in 1 .. Len(queue') : i < j => queue'[i] < queue'[j]
      <3> TAKE i, j \in 1 .. Len(queue')
      <3> HAVE i < j
      <3>1. i + k \in 1 .. Len(queue) /\ j + k \in 1 .. Len(queue)
        BY <2>2
      <3>2. i + k < j + k
        BY <2>3
      <3>3. queue[i + k] < queue[j + k]
        BY <3>1, <3>2 DEF ChannelInv
      <3> QED BY <2>2, <3>3
    <2>6. got' \in Nat /\ got' > got /\ got' <= put /\ put' = put
      BY <1>0, <1>3, <2>1 DEF Deliver, ChannelInv
    <2> QED BY <2>2, <2>4, <2>5, <2>6 DEF ChannelInv
  <1>4. CASE UNCHANGED channelVars
    BY <1>4 DEF channelVars, ChannelInv
  <1> QED BY <1>1, <1>2, <1>3, <1>4 DEF ChannelNext

(* The bytes of a channel come out in the order in which they were put in, *)
(* and none of them comes out twice.                                       *)
THEOREM ChannelKeepsOrder == ChannelSpec => []ChannelInv /\ NeverTwice
  <1>1. ChannelInit => ChannelInv
    BY EmptySeq DEF ChannelInit, ChannelInv
  <1>2. ChannelInv /\ [ChannelNext]_channelVars =>
            [got' # got => got' > got]_channelVars
    BY ChannelStep
  <1> QED BY <1>1, <1>2, ChannelStep, PTL DEF ChannelSpec, NeverTwice
=============================================================================
