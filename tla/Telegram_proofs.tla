--------------------------- MODULE Telegram_proofs ---------------------------
(***************************************************************************)
(* Proofs about sendCylinderTelegram: for every telegram and whatever is   *)
(* behind it in memory, the receiver gets the bits of the telegram and of  *)
(* that one value, in order, over a self-clocking line.                    *)
(***************************************************************************)
EXTENDS Telegram, SequenceTheorems, TLAPS

(* A bit is 0 or 1.                                                        *)
LEMMA BitRange ==
    ASSUME NEW byte \in 0 .. 255, NEW n \in 0 .. 7
    PROVE  Bit(byte, n) \in {0, 1}
  <1>1. 2^n \in Nat \ {0}
    <2>1. n = 0 => 2^n = 1
      OBVIOUS
    <2>2. n = 1 => 2^n = 2
      OBVIOUS
    <2>3. n = 2 => 2^n = 4
      OBVIOUS
    <2>4. n = 3 => 2^n = 8
      OBVIOUS
    <2>5. n = 4 => 2^n = 16
      OBVIOUS
    <2>6. n = 5 => 2^n = 32
      OBVIOUS
    <2>7. n = 6 => 2^n = 64
      OBVIOUS
    <2>8. n = 7 => 2^n = 128
      OBVIOUS
    <2> QED BY <2>1, <2>2, <2>3, <2>4, <2>5, <2>6, <2>7, <2>8, SMTT(30)
  <1>2. byte \div 2^n \in Nat
    BY <1>1
  <1> QED BY <1>2 DEF Bit

(* Eight bits to a byte: where the bit after k whole bytes and m bits is.   *)
LEMMA BitPlace ==
    ASSUME NEW k \in Nat, NEW m \in 0 .. 7
    PROVE  (8 * k + m) \div 8 = k /\ (8 * k + m) % 8 = m
  OBVIOUS

(* That bit lies within the bits of len bytes.                             *)
LEMMA BitInside ==
    ASSUME NEW len \in Nat, NEW k \in 0 .. len - 1, NEW m \in 0 .. 7
    PROVE  8 * k + m + 1 \in 1 .. 8 * len /\ (8 * k + m + 1) - 1 = 8 * k + m
  OBVIOUS

(* What is sent, and that Current is the value j points to.                *)
LEMMA SentBytes ==
    ASSUME TelegramTypeOK
    PROVE  /\ telegram \in Seq(0 .. 255) /\ length \in Nat /\ next \in 0 .. 255
           /\ Sent \in Seq(0 .. 255) /\ Len(Sent) = length + 1
           /\ j <= length => Sent[j + 1] = Current /\ Current \in 0 .. 255
  <1>1. telegram \in Seq(0 .. 255) /\ length = Len(telegram)
        /\ next \in 0 .. 255 /\ j \in Nat
    BY TelegramAssumption DEF TelegramTypeOK
  <1>2. length \in Nat
    BY <1>1, LenProperties
  <1>3. /\ Sent \in Seq(0 .. 255) /\ Len(Sent) = length + 1
        /\ \A n \in 1 .. length : Sent[n] = telegram[n]
        /\ Sent[length + 1] = next
    BY <1>1, AppendProperties DEF Sent
  <1>4. ASSUME j <= length
        PROVE  Sent[j + 1] = Current
    BY <1>1, <1>2, <1>3, <1>4 DEF Current
  <1>5. ASSUME j <= length
        PROVE  Sent[j + 1] \in 0 .. 255
    <2>1. j + 1 \in 1 .. Len(Sent)
      BY <1>1, <1>2, <1>3, <1>5
    <2> QED BY <1>3, <2>1, ElementOfSeq, Zenon
  <1> QED BY <1>1, <1>2, <1>3, <1>4, <1>5

(* The bits of any bytes: eight for each of them.                          *)
LEMMA BitsOfBytes ==
    ASSUME NEW ss \in Seq(0 .. 255)
    PROVE  /\ Len(ss) \in Nat
           /\ BitsOf(ss) \in Seq(0 .. 1) /\ Len(BitsOf(ss)) = 8 * Len(ss)
           /\ \A k \in 0 .. Len(ss) - 1, m \in 0 .. 7 :
                  BitsOf(ss)[8 * k + m + 1] = Bit(ss[k + 1], 7 - m)
  <1> DEFINE last == 8 * Len(ss)
  <1>1. Len(ss) \in Nat
    BY LenProperties
  <1>2. last \in Nat
    BY <1>1
  <1>3. BitsOf(ss) = [n \in 1 .. last |->
            Bit(ss[((n - 1) \div 8) + 1], 7 - ((n - 1) % 8))]
    BY DEF BitsOf
  <1>4. ASSUME NEW n \in 1 .. last
        PROVE  BitsOf(ss)[n] \in 0 .. 1
    <2>1. /\ ((n - 1) \div 8) + 1 \in 1 .. Len(ss)
          /\ 7 - ((n - 1) % 8) \in 0 .. 7
      BY <1>1, <1>4
    <2>2. ss[((n - 1) \div 8) + 1] \in 0 .. 255
      BY <2>1, ElementOfSeq, Zenon
    <2>3. Bit(ss[((n - 1) \div 8) + 1], 7 - ((n - 1) % 8)) \in {0, 1}
      BY <2>1, <2>2, BitRange, Zenon
    <2> QED BY <1>3, <1>4, <2>3
  <1>5. ASSUME NEW k \in 0 .. Len(ss) - 1, NEW m \in 0 .. 7
        PROVE  BitsOf(ss)[8 * k + m + 1] = Bit(ss[k + 1], 7 - m)
    <2>1. 8 * k + m + 1 \in 1 .. last /\ (8 * k + m + 1) - 1 = 8 * k + m
      BY <1>1, <1>5, BitInside, Zenon
    <2>2. k \in Nat
      BY <1>1
    <2>3. (8 * k + m) \div 8 = k /\ (8 * k + m) % 8 = m
      BY <2>2, BitPlace, Zenon
    <2> QED BY <1>3, <2>1, <2>3
  <1>6. BitsOf(ss) \in [1 .. last -> 0 .. 1]
    <2> HIDE DEF last
    <2>1. DOMAIN BitsOf(ss) = 1 .. last
      BY <1>3
    <2> QED BY <1>3, <1>4, <2>1
  <1> HIDE DEF last
  <1>7. BitsOf(ss) \in Seq(0 .. 1) /\ Len(BitsOf(ss)) = last
    BY <1>2, <1>6
  <1> QED BY <1>1, <1>5, <1>7 DEF last

(* The bits to be received: eight for every value sent.                    *)
LEMMA BitsOfSent ==
    ASSUME TelegramTypeOK
    PROVE  /\ BitsOf(Sent) \in Seq(0 .. 1)
           /\ Len(BitsOf(Sent)) = 8 * (length + 1)
           /\ \A k \in 0 .. length, m \in 0 .. 7 :
                  BitsOf(Sent)[8 * k + m + 1] = Bit(Sent[k + 1], 7 - m)
  <1>1. Sent \in Seq(0 .. 255) /\ Len(Sent) = length + 1 /\ length \in Nat
    BY SentBytes
  <1>2. 0 .. Len(Sent) - 1 = 0 .. length
    BY <1>1
  <1> QED BY <1>1, <1>2, BitsOfBytes, ZenonT(30)

(* The first half of a bit.                                                *)
LEMMA FirstHalfInv ==
    ASSUME TelegramInv, FirstHalf
    PROVE  TelegramInv'
  <1> USE DEF FirstHalf, Drive, MoreBytes, args
  <1>1. /\ TelegramTypeOK /\ length \in Nat /\ j \in Nat /\ held \in Nat
    BY SentBytes DEF TelegramInv, TelegramTypeOK
  <1>2. TelegramTypeOK'
    BY <1>1 DEF TelegramTypeOK
  <1>3. BitsOf(Sent)' = BitsOf(Sent) /\ Bit(Current, i)' = Bit(Current, i)
    BY DEF Sent, BitsOf, Bit, Current
  <1> QED BY <1>1, <1>2, <1>3 DEF TelegramInv

(* The second half: the receiver takes the bit.                            *)
LEMMA SecondHalfInv ==
    ASSUME TelegramInv, SecondHalf
    PROVE  TelegramInv'
  <1> USE DEF SecondHalf, args
  <1>1. /\ TelegramTypeOK /\ length \in Nat /\ j \in 0 .. length
        /\ i \in 0 .. 7 /\ half = 1 /\ bits \in Seq(0 .. 1)
        /\ Len(bits) = 8 * j + 7 - i
    BY SentBytes DEF TelegramInv, TelegramTypeOK
  <1>2. Bit(Current, i) \in {0, 1} /\ Sent[j + 1] = Current
    <2>1. j <= length
      BY <1>1
    <2>2. Sent[j + 1] = Current /\ Current \in 0 .. 255
      BY <1>1, <2>1, SentBytes, Zenon
    <2> QED BY <1>1, <2>2, BitRange, Zenon
  <1>3. io = IF Bit(Current, i) = 1 THEN "HIGH" ELSE "LOW"
    BY DEF TelegramInv
  <1>4. /\ bits' = Append(bits, Bit(Current, i))
        /\ io' # io /\ held' = 1 /\ io' \in {"HIGH", "LOW"}
    BY <1>2, <1>3 DEF Drive
  <1>5. /\ bits' \in Seq(0 .. 1) /\ Len(bits') = Len(bits) + 1
        /\ Len(bits) \in Nat
        /\ \A n \in 1 .. Len(bits) : bits'[n] = bits[n]
        /\ bits'[Len(bits) + 1] = Bit(Current, i)
    <2>1. Bit(Current, i) \in 0 .. 1
      BY <1>2
    <2> HIDE DEF SecondHalf
    <2>2. Len(bits) \in Nat
      BY <1>1, LenProperties, Zenon
    <2> QED BY <1>1, <1>4, <2>1, <2>2, AppendProperties, SMTT(30)
  <1>6. BitsOf(Sent)' = BitsOf(Sent)
    BY DEF Sent, BitsOf, Bit
  <1>7. BitsOf(Sent)[Len(bits) + 1] = Bit(Current, i)
    <2>1. j \in 0 .. length /\ 7 - i \in 0 .. 7
      BY <1>1
    <2>2. BitsOf(Sent)[8 * j + (7 - i) + 1] = Bit(Sent[j + 1], 7 - (7 - i))
      BY <1>1, <2>1, BitsOfSent, Zenon
    <2>3. 7 - (7 - i) = i /\ 8 * j + (7 - i) + 1 = Len(bits) + 1
      BY <1>1
    <2> QED BY <1>2, <2>2, <2>3
  <1>8. \A n \in 1 .. Len(bits') : bits'[n] = BitsOf(Sent)[n]
    <2> HIDE DEF SecondHalf
    <2> SUFFICES ASSUME NEW n \in 1 .. Len(bits')
                 PROVE  bits'[n] = BitsOf(Sent)[n]
      OBVIOUS
    <2>1. n \in 1 .. Len(bits) \/ n = Len(bits) + 1
      BY <1>5
    <2> QED BY <1>5, <1>7, <2>1 DEF TelegramInv
  <1>9. /\ j' \in 0 .. length + 1 /\ i' \in 0 .. 7
        /\ Len(bits') = 8 * j' + 7 - i'
        /\ j' > length => i' = 7
        /\ half' = 0
    <2>1. CASE i > 0
      BY <1>1, <1>5, <2>1
    <2>2. CASE i = 0
      BY <1>1, <1>5, <2>2
    <2> QED BY <1>1, <2>1, <2>2
  <1>10. TelegramTypeOK'
    BY <1>1, <1>4, <1>5, <1>9 DEF TelegramTypeOK
  <1> QED BY <1>4, <1>6, <1>8, <1>9, <1>10, SMTT(30) DEF TelegramInv

(* The invariant is inductive.                                             *)
LEMMA TelegramNextInv ==
    TelegramInv /\ [TelegramNext]_telegramVars => TelegramInv'
  <1> SUFFICES ASSUME TelegramInv, [TelegramNext]_telegramVars
               PROVE  TelegramInv'
    OBVIOUS
  <1>1. CASE FirstHalf
    BY <1>1, FirstHalfInv
  <1>2. CASE SecondHalf
    BY <1>2, SecondHalfInv
  <1>3. CASE Finish
    <2>1. BitsOf(Sent)' = BitsOf(Sent)
      BY <1>3 DEF Finish, args, Sent, BitsOf, Bit
    <2>2. TelegramTypeOK' /\ j > length
      BY <1>3, SentBytes
      DEF Finish, Drive, MoreBytes, args, TelegramInv, TelegramTypeOK
    <2> QED BY <1>3, <2>1, <2>2 DEF Finish, args, TelegramInv
  <1>4. CASE UNCHANGED telegramVars
    <2>1. BitsOf(Sent)' = BitsOf(Sent) /\ Bit(Current, i)' = Bit(Current, i)
      BY <1>4 DEF telegramVars, args, Sent, BitsOf, Bit, Current
    <2> QED BY <1>4, <2>1 DEF telegramVars, args, TelegramInv, TelegramTypeOK
  <1> QED BY <1>1, <1>2, <1>3, <1>4, SMTT(30) DEF TelegramNext

(* Sequences that agree where the first is defined.                        *)
LEMMA PrefixOf ==
    ASSUME NEW S, NEW s \in Seq(S), NEW t \in Seq(S), Len(s) <= Len(t),
           \A n \in 1 .. Len(s) : s[n] = t[n]
    PROVE  IsPrefix(s, t) /\ (Len(s) = Len(t) => s = t)
  <1>1. Len(s) \in Nat /\ Len(t) \in Nat
    BY LenProperties
  <1>2. SubSeq(s, 1, Len(s)) = s
    BY SubSeqFull, Zenon
  <1>3. \A n \in 1 .. Len(s) : t[n] \in S
    BY <1>1, ElementOfSeq
  <1>4. /\ SubSeq(t, 1, Len(s)) \in Seq(S)
        /\ Len(SubSeq(t, 1, Len(s))) = Len(s)
        /\ \A n \in 1 .. Len(s) : SubSeq(t, 1, Len(s))[n] = t[n]
    BY <1>1, <1>3, SubSeqProperties
  <1>5. SubSeq(t, 1, Len(s)) = s
    BY <1>4, SeqEqual
  <1>6. Len(s) = Len(t) => s = t
    BY SeqEqual
  <1> QED BY <1>2, <1>5, <1>6 DEF IsPrefix

(* For every telegram and whatever is behind it in memory, what the        *)
(* receiver has decoded is what the loops of sendCylinderTelegram have     *)
(* sent so far.                                                            *)
THEOREM TelegramInvariant == TelegramSpec => []TelegramInv
  <1>1. TelegramInit => TelegramInv
    <2> SUFFICES ASSUME TelegramInit PROVE TelegramInv
      OBVIOUS
    <2>1. telegram \in Seq(0 .. 255) /\ length \in Nat
      BY TelegramAssumption, LenProperties DEF TelegramInit
    <2>2. TelegramTypeOK
      BY <2>1 DEF TelegramInit, TelegramTypeOK
    <2> QED BY <2>1, <2>2 DEF TelegramInit, TelegramInv
  <1> QED BY <1>1, TelegramNextInv, PTL DEF TelegramSpec

(* The receiver gets the bits of the telegram and of one more value, most  *)
(* significant first, and none of them is lost.                            *)
THEOREM TelegramReceived == TelegramSpec => []ReceivedInOrder
  <1>1. TelegramInv => ReceivedInOrder
    <2> SUFFICES ASSUME TelegramInv PROVE ReceivedInOrder
      OBVIOUS
    <2>1. /\ TelegramTypeOK /\ bits \in Seq(0 .. 1) /\ length \in Nat
          /\ BitsOf(Sent) \in Seq(0 .. 1)
          /\ Len(BitsOf(Sent)) = 8 * (length + 1)
      <3>1. TelegramTypeOK /\ bits \in Seq(0 .. 1)
        BY DEF TelegramInv, TelegramTypeOK
      <3>2. length \in Nat
        BY <3>1, SentBytes, Zenon
      <3> QED BY <3>1, <3>2, BitsOfSent, Zenon
    <2>2. /\ Len(bits) <= Len(BitsOf(Sent))
          /\ half = 2 => Len(bits) = Len(BitsOf(Sent))
      <3>1. /\ Len(bits) = 8 * j + 7 - i /\ j \in 0 .. length + 1 /\ i \in 0 .. 7
            /\ j > length => i = 7
            /\ half = 2 => j > length
        BY <2>1, SMTT(30) DEF TelegramInv, TelegramTypeOK
      <3>2. /\ 8 * j + 7 - i <= 8 * (length + 1)
            /\ j > length => 8 * j + 7 - i = 8 * (length + 1)
        BY <2>1, <3>1, SMTT(30)
      <3> QED BY <2>1, <3>1, <3>2, Zenon
    <2>3. \A n \in 1 .. Len(bits) : bits[n] = BitsOf(Sent)[n]
      BY DEF TelegramInv
    <2> QED BY <2>1, <2>2, <2>3, PrefixOf, Zenon DEF ReceivedInOrder
  <1> QED BY <1>1, TelegramInvariant, PTL

(* The line changes at least every second half-bit time.                   *)
THEOREM TelegramClocks == TelegramSpec => []SelfClocking
  <1>1. TelegramInv => SelfClocking
    BY DEF TelegramInv, TelegramTypeOK, SelfClocking
  <1> QED BY <1>1, TelegramInvariant, PTL
=============================================================================
