------------------------------ MODULE Telegram ------------------------------
(***************************************************************************)
(* sendCylinderTelegram of locc.c: the bytes of a telegram go out on the   *)
(* data line most significant bit first, each bit as two half-bit times of *)
(* opposite level.  External: a receiver that decodes them.                *)
(***************************************************************************)
EXTENDS Integers, Sequences, SequencesExt

CONSTANTS
    Telegrams,      \* the arrays sent: sequences of bytes
    Beyond          \* values the memory behind such an array may hold

ASSUME TelegramAssumption ==
    /\ Telegrams \subseteq Seq(0 .. 255) \ {<<>>}
    /\ Beyond \subseteq 0 .. 255 /\ Beyond # {}

VARIABLES
    telegram, length,   \* the arguments
    j, i,               \* byte and bit being sent
    next,               \* the value behind the array
    io,                 \* level of the data line
    half,               \* half-bit times of the current bit already sent
    bits,               \* external: the bits received
    held                \* external: half-bit times io has kept its level

args == <<telegram, length, next>>
telegramVars == <<args, j, i, io, half, bits, held>>

TelegramTypeOK ==
    /\ telegram \in Telegrams /\ length = Len(telegram) /\ next \in Beyond
    /\ j \in 0 .. length + 1
    /\ i \in 0 .. 7
    /\ io \in {"HIGH", "LOW"}
    /\ half \in {0, 1, 2}
    /\ bits \in Seq(0 .. 1)
    /\ held \in Nat

TelegramInit ==
    /\ telegram \in Telegrams
    /\ length = Len(telegram)
    /\ next \in Beyond
    /\ j = 0 /\ i = 7
    /\ io = "HIGH"
    /\ half = 0
    /\ bits = <<>>
    /\ held = 0

-----------------------------------------------------------------------------
(* Seeded bug: the pointer never moves.                                     *)
Current_First == telegram[1]

(* The value *telegram points to.                                          *)
Current == IF j < length THEN telegram[j + 1] ELSE next

Bit(byte, n) == (byte \div 2^n) % 2

(* Seeded bug: the loop stops a byte short.                                 *)
MoreBytes_Short == j < length - 1

(* Seeded bug: the loop does not stop.                                      *)
MoreBytes_Endless == TRUE

(* The condition under which the loop over the bytes goes on.              *)
MoreBytes == j <= length

Drive(level) ==
    /\ io' = level
    /\ held' = IF level = io THEN held + 1 ELSE 1

FirstHalf ==
    /\ half = 0 /\ MoreBytes
    /\ Drive(IF Bit(Current, i) = 1 THEN "HIGH" ELSE "LOW")
    /\ half' = 1
    /\ UNCHANGED <<args, j, i, bits>>

(* Seeded bug: the level does not change in the middle of a bit.            *)
SecondHalf_Flat ==
    /\ half = 1
    /\ Drive(io)
    /\ bits' = Append(bits, IF io = "HIGH" THEN 1 ELSE 0)
    /\ half' = 0
    /\ IF i > 0 THEN i' = i - 1 /\ j' = j
                ELSE i' = 7 /\ j' = j + 1
    /\ UNCHANGED args

(* The receiver takes the falling half-bit for 1 and the rising one for 0. *)
SecondHalf ==
    /\ half = 1
    /\ Drive(IF Bit(Current, i) = 1 THEN "LOW" ELSE "HIGH")
    /\ bits' = Append(bits, IF io = "HIGH" /\ io' = "LOW" THEN 1 ELSE 0)
    /\ half' = 0
    /\ IF i > 0 THEN i' = i - 1 /\ j' = j
                ELSE i' = 7 /\ j' = j + 1
    /\ UNCHANGED args

(* After the last byte the line is released.                               *)
Finish ==
    /\ half = 0 /\ ~MoreBytes
    /\ Drive("HIGH")
    /\ half' = 2
    /\ UNCHANGED <<args, j, i, bits>>

TelegramNext == FirstHalf \/ SecondHalf \/ Finish

TelegramSpec == TelegramInit /\ [][TelegramNext]_telegramVars
                             /\ WF_telegramVars(TelegramNext)

-----------------------------------------------------------------------------
(* The bits of the bytes ss, most significant first: what a receiver is    *)
(* meant to get.                                                           *)
BitsOf(ss) == [n \in 1 .. 8 * Len(ss) |->
                  Bit(ss[((n - 1) \div 8) + 1], 7 - ((n - 1) % 8))]

(* The values the loop comes by: the array and what is behind it.          *)
Sent == Append(telegram, next)

(* What has been received is always a beginning of the telegram's bits     *)
(* followed by those of the one value behind it, and in the end all of     *)
(* them.                                                                   *)
ReceivedInOrder ==
    /\ IsPrefix(bits, BitsOf(Sent))
    /\ half = 2 => bits = BitsOf(Sent)

(* The code is self-clocking: once the telegram has begun the line changes *)
(* at least every second half-bit time, so a receiver never loses the bit  *)
(* boundaries.                                                             *)
SelfClocking == half # 2 => held <= 2

(* sendCylinderTelegram ends, with the whole telegram received and the     *)
(* line released.                                                          *)
TelegramDelivered ==
    <>(half = 2 /\ io = "HIGH" /\ IsPrefix(BitsOf(telegram), bits))

(* The inductive invariant behind the first two: i and j count the bits    *)
(* received, each of which was the one to be sent, in the middle of a bit  *)
(* the line has the level of its first half, and at its end it has just    *)
(* changed.                                                                *)
TelegramInv ==
    /\ TelegramTypeOK
    /\ Len(bits) = 8 * j + 7 - i
    /\ \A n \in 1 .. Len(bits) : bits[n] = BitsOf(Sent)[n]
    /\ j > length => half # 1 /\ i = 7
    /\ half = 1 => io = IF Bit(Current, i) = 1 THEN "HIGH" ELSE "LOW"
    /\ half = 2 => j > length
    /\ half # 2 => held <= half + 1

(* openTelegram is the "Opening datagram": its 8 bytes, the length that is *)
(* passed, are what the cylinder gets.                                     *)
OnlyTheTelegram == half = 2 => bits = BitsOf(telegram)
=============================================================================
