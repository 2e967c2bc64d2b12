--------------------------- MODULE NackRing_proofs ---------------------------
(***************************************************************************)
(* The packet ring, proved for every size of the ring, every range of the  *)
(* sequence numbers that is a multiple of it, every number of producers    *)
(* and of packets: across every wrap of the ring and of the sequence       *)
(* numbers, and with a producer, the send thread and the receive thread in *)
(* the ring at once.                                                       *)
(***************************************************************************)
EXTENDS NackRing, TLAPS

(* Remainders *)

\* Division with a remainder.
LEMMA DivMod ==
    ASSUME NEW n \in Int, NEW m \in Nat \ {0}
    PROVE  /\ n \div m \in Int /\ n % m \in 0..(m - 1) /\ m * (n \div m) \in Int
           /\ n = m * (n \div m) + (n % m)
<1>1. n % m = n - m * (n \div m)
  BY SMTT(30)
<1>2. n \div m \in Int /\ n % m \in 0..(m - 1)
  BY Z3T(30)
<1>3. m * (n \div m) \in Int
  BY <1>2, Z3T(30)
<1> QED
  BY <1>1, <1>2, <1>3

\* Two products of the same factor that lie less than the factor apart are equal.
LEMMA CloseMultiples ==
    ASSUME NEW m \in Nat \ {0}, NEW p \in Int, NEW q \in Int,
           m * p - m * q < m, m * q - m * p < m
    PROVE  p = q
<1>1. m * (p - q) = m * p - m * q
  BY Z3T(30)
<1>2. CASE p - q >= 1
  <2>1. m * (p - q) >= m
    BY <1>2, Z3T(30)
  <2> QED
    BY <1>1, <2>1
<1>3. CASE q - p >= 1
  <2>1. m * (p - q) <= -m
    BY <1>3, Z3T(30)
  <2> QED
    BY <1>1, <2>1
<1> QED
  BY <1>2, <1>3

\* The remainder is the only one.
LEMMA ModUnique ==
    ASSUME NEW m \in Nat \ {0}, NEW q \in Int, NEW r \in 0..(m - 1), NEW n \in Int, n = m * q + r
    PROVE  n % m = r
<1>1. n \div m \in Int /\ n % m \in 0..(m - 1) /\ n = m * (n \div m) + (n % m)
  BY DivMod
<1> DEFINE p == n \div m
           s == n % m
           a == m * p
           b == m * q
<1>2. a \in Int /\ b \in Int /\ s \in 0..(m - 1) /\ n = a + s /\ n = b + r
  BY <1>1, Z3T(30)
<1>3. a - b < m /\ b - a < m
  <2> HIDE DEF a, b, s
  <2> QED
    BY <1>2
<1>4. p = q
  BY <1>1, <1>3, CloseMultiples
<1>5. a = b
  BY <1>4
<1>6. s = r
  <2> HIDE DEF a, b, s
  <2> QED
    BY <1>2, <1>5
<1> QED
  BY <1>6

\* Numbers with the same remainder that lie less than m apart are equal.
LEMMA ModClose ==
    ASSUME NEW m \in Nat \ {0}, NEW a \in Int, NEW b \in Int, a % m = b % m,
           a - b < m, b - a < m
    PROVE  a = b
<1> DEFINE x == a \div m
           y == b \div m
           p == m * x
           q == m * y
           r == a % m
<1>1. /\ x \in Int /\ y \in Int /\ p \in Int /\ q \in Int /\ r \in Int
      /\ a = p + r /\ b = q + r
  BY DivMod
<1>2. p - q < m /\ q - p < m
  <2> HIDE DEF p, q, r
  <2> QED
    BY <1>1
<1>3. x = y
  BY <1>1, <1>2, CloseMultiples
<1>4. p = q
  BY <1>3
<1> HIDE DEF p, q, r
<1> QED
  BY <1>1, <1>4

\* Counting and wrapping is wrapping and counting.
LEMMA ModSucc ==
    ASSUME NEW m \in Nat \ {0}, NEW n \in Int
    PROVE  ((n % m) + 1) % m = (n + 1) % m
<1> DEFINE q == n \div m
           r == n % m
<1>1. q \in Int /\ r \in 0..(m - 1) /\ n = m * q + r
  BY DivMod
<1>2. m * q \in Int /\ m * (q + 1) = m * q + m
  BY <1>1, Z3T(30)
<1> HIDE DEF q, r
<1>3. CASE r + 1 < m
  <2>1. n + 1 = m * q + (r + 1) /\ r + 1 \in 0..(m - 1)
    BY <1>1, <1>2, <1>3
  <2>2. (n + 1) % m = r + 1
    BY <1>1, <2>1, ModUnique
  <2>3. (r + 1) % m = r + 1
    BY <2>1, ModUnique, r + 1 = m * 0 + (r + 1), Z3T(30)
  <2> QED
    BY <2>2, <2>3, Zenon DEF r
<1>4. CASE r + 1 = m
  <2>1. n + 1 = m * (q + 1) + 0
    BY <1>1, <1>2, <1>4
  <2>2. (n + 1) % m = 0
    BY <1>1, <2>1, ModUnique
  <2>3. (r + 1) % m = 0
    BY <1>4, ModUnique, m = m * 1 + 0
  <2> QED
    BY <2>2, <2>3, Zenon DEF r
<1> QED
  BY <1>1, <1>3, <1>4

\* Slots are found from the sequence numbers as they would be from the packets' numbers.
LEMMA SlotOfSeq ==
    ASSUME NEW n \in Int
    PROVE  (n % SeqMod) % RingSize = n % RingSize
<1>1. PICK k \in 1..SeqMod : SeqMod = k * RingSize
  BY RingAssumption
<1>2. RingSize \in Nat \ {0} /\ SeqMod \in Nat \ {0} /\ k \in Int
  BY <1>1, RingAssumption
<1> DEFINE q == n \div SeqMod
           s == n % SeqMod
           p == s \div RingSize
           r == s % RingSize
<1>3. q \in Int /\ s \in 0..(SeqMod - 1) /\ n = SeqMod * q + s
  BY <1>2, DivMod
<1>4. p \in Int /\ r \in 0..(RingSize - 1) /\ s = RingSize * p + r
  <2> HIDE DEF s
  <2>1. s \in Int
    BY <1>2, <1>3
  <2> QED
    BY <1>2, <2>1, DivMod
<1> HIDE DEF q, s, p, r
<1>5. SeqMod * q = RingSize * (k * q)
  BY <1>1, <1>2, <1>3, Z3T(30)
<1>6. k * q \in Int /\ RingSize * (k * q + p) = RingSize * (k * q) + RingSize * p
  BY <1>2, <1>3, <1>4, Z3T(30)
<1>7. RingSize * (k * q) \in Int /\ RingSize * p \in Int
  BY <1>2, <1>4, <1>6, Z3T(30)
<1>8. n = RingSize * (k * q + p) + r /\ k * q + p \in Int
  <2> DEFINE a == k * q
             b == SeqMod * q
             c == RingSize * a
             d == RingSize * p
             e == RingSize * (a + p)
  <2>1. a \in Int /\ c \in Int /\ d \in Int /\ p \in Int /\ r \in Int /\ s \in Int
    BY <1>3, <1>4, <1>6, <1>7
  <2>2. n = b + s /\ s = d + r /\ b = c /\ e = c + d
    BY <1>3, <1>4, <1>5, <1>6
  <2>3. n = e + r /\ a + p \in Int
    <3> HIDE DEF a, b, c, d, e
    <3> QED
      BY <2>1, <2>2
  <2> QED
    BY <2>3
<1>9. n % RingSize = r
  <2> DEFINE t == k * q + p
  <2>1. t \in Int /\ n = RingSize * t + r
    BY <1>8
  <2>2. RingSize \in Nat \ {0} /\ r \in 0..(RingSize - 1)
    BY <1>2, <1>4
  <2> HIDE DEF t
  <2> QED
    BY <2>1, <2>2, ModUnique, SMTT(30)
<1> QED
  BY <1>9, Zenon DEF r, s

\* Going round the ring comes back to the same slot.
LEMMA ModPlus ==
    ASSUME NEW m \in Nat \ {0}, NEW n \in Int, NEW q \in Int
    PROVE  (n + m * q) % m = n % m
<1> DEFINE p == n \div m
           r == n % m
<1>1. p \in Int /\ r \in 0..(m - 1) /\ n = m * p + r
  BY DivMod
<1>2. m * (p + q) = m * p + m * q /\ m * p \in Int /\ m * q \in Int
  <2>1. p \in Int
    BY <1>1
  <2> HIDE DEF p, r
  <2>2. m * p \in Int /\ m * q \in Int
    BY <2>1, SMTT(30)
  <2>3. m * (p + q) = m * p + m * q
    BY <2>1, SMTT(30)
  <2> QED
    BY <2>2, <2>3
<1> HIDE DEF p, r
<1>3. n + m * q = m * (p + q) + r /\ p + q \in Int /\ n + m * q \in Int
  BY <1>1, <1>2
<1>4. (n + m * q) % m = r
  <2> DEFINE t == p + q
             l == n + m * q
  <2>1. t \in Int /\ l \in Int /\ l = m * t + r
    BY <1>3
  <2> HIDE DEF t
  <2>2. l % m = r
    <3> HIDE DEF l
    <3>1. r \in 0..(m - 1)
      BY <1>1
    <3> QED
      BY <2>1, <3>1, ModUnique, SMTT(30)
  <2> QED
    BY <2>2
<1> QED
  BY <1>4, Zenon DEF r

\* Of the m numbers before n one has the remainder of k.
LEMMA ModPick ==
    ASSUME NEW m \in Nat \ {0}, NEW n \in Int, NEW k \in Int, k < n
    PROVE  \E j \in k..(n - 1) : n - j <= m /\ j % m = k % m
<1> DEFINE d == n - 1 - k
           q == d \div m
           r == d % m
           j == n - 1 - r
<1>1. d \in Int /\ d >= 0
  OBVIOUS
<1>2. q \in Int /\ r \in 0..(m - 1) /\ m * q \in Int /\ d = m * q + r
  <2> HIDE DEF d
  <2> QED
    BY <1>1, DivMod
<1>3. j = k + m * q
  <2> HIDE DEF q, r
  <2> QED
    BY <1>2
<1>4. m * q >= 0
  <2>1. CASE q >= 0
    BY <1>2, <2>1, Z3T(30)
  <2>2. CASE q <= -1
    <3>1. m * q <= -m
      BY <1>2, <2>2, Z3T(30)
    <3> HIDE DEF q, r, d
    <3> QED
      BY <1>1, <1>2, <3>1
  <2> QED
    BY <1>2, <2>1, <2>2
<1>5. j % m = k % m
  BY <1>2, <1>3, ModPlus
<1>6. j \in k..(n - 1) /\ n - j <= m
  <2> HIDE DEF q, r
  <2> QED
    BY <1>2, <1>3, <1>4
<1> QED
  BY <1>5, <1>6

\* The constants, in the form the proofs use.
LEMMA Sizes ==
    /\ RingSize \in Nat \ {0} /\ RingSize >= 2 /\ SeqMod \in Nat \ {0} /\ RingSize <= SeqMod
    /\ \A n \in Int : n % RingSize \in Slots /\ n % SeqMod \in SeqNums
<1>1. RingSize \in Nat \ {0} /\ RingSize >= 2 /\ SeqMod \in Nat
  BY RingAssumption
<1>2. PICK k \in 1..SeqMod : SeqMod = k * RingSize
  BY RingAssumption
<1>3. SeqMod \in Nat \ {0} /\ RingSize <= SeqMod
  BY <1>1, <1>2, Z3T(30)
<1>4. \A n \in Int : n % RingSize \in Slots /\ n % SeqMod \in SeqNums
  BY <1>1, <1>3, DivMod DEF Slots, SeqNums
<1> QED
  BY <1>1, <1>3, <1>4

\* The lemmas about remainders, for the ring and for the sequence numbers.
LEMMA Slot ==
    /\ \A a, b \in Int : a % RingSize = b % RingSize /\ a - b < RingSize /\ b - a < RingSize
                          => a = b
    /\ \A a \in Int : (a + RingSize) % RingSize = a % RingSize
<1>1. RingSize \in Nat \ {0} /\ RingSize \in Int
  BY Sizes
<1>2. ASSUME NEW a \in Int, NEW b \in Int, a % RingSize = b % RingSize,
             a - b < RingSize, b - a < RingSize
      PROVE  a = b
  BY <1>1, <1>2, ModClose, Zenon
<1>3. ASSUME NEW a \in Int
      PROVE  (a + RingSize) % RingSize = a % RingSize
  <2>1. (a + RingSize * 1) % RingSize = a % RingSize
    BY <1>1, ModPlus, 1 \in Int, Zenon
  <2>2. a + RingSize * 1 = a + RingSize
    BY <1>1
  <2> QED
    BY <2>1, <2>2, Zenon
<1> QED
  BY <1>2, <1>3, Zenon

LEMMA Number ==
    /\ \A a, b \in Int : a % SeqMod = b % SeqMod /\ a - b < SeqMod /\ b - a < SeqMod => a = b
    /\ \A a \in Int : ((a % SeqMod) + 1) % SeqMod = (a + 1) % SeqMod
    /\ \A a, q \in Int : (a + SeqMod * q) % SeqMod = a % SeqMod
<1>1. SeqMod \in Nat \ {0}
  BY Sizes
<1>2. ASSUME NEW a \in Int, NEW b \in Int, a % SeqMod = b % SeqMod,
             a - b < SeqMod, b - a < SeqMod
      PROVE  a = b
  BY <1>1, <1>2, ModClose, Zenon
<1>3. ASSUME NEW a \in Int
      PROVE  ((a % SeqMod) + 1) % SeqMod = (a + 1) % SeqMod
  BY <1>1, ModSucc, Zenon
<1>4. ASSUME NEW a \in Int, NEW q \in Int
      PROVE  (a + SeqMod * q) % SeqMod = a % SeqMod
  BY <1>1, ModPlus, Zenon
<1> QED
  BY <1>2, <1>3, <1>4, Zenon

-----------------------------------------------------------------------------
(* The inductive invariant *)

\* The packet that xmit_seq_num stands for, and how many wait for the send thread.
Fetched == lastSent + (IF spc = "fetched" THEN 2 ELSE 1)
Waiting == written - Fetched

\* The 16-bit numbers are the packets' numbers wrapped; every waiting packet has a token.
CountersInv ==
    /\ seqNum = written % SeqMod
    /\ xmitSeqNum = Fetched % SeqMod
    /\ pktReady + (IF spc = "ready" THEN 1 ELSE 0) + (IF ppc = "filled" THEN 1 ELSE 0) = Waiting
    /\ Waiting <= RingSize - 1

\* What the producer and the send thread carry from one critical section to the next.
CarriedInv ==
    /\ ppc = "claimed" => /\ claimedSn = seqNum
                          /\ slotSn[seqNum % RingSize] = seqNum
                          /\ remaining > 0
                          /\ Waiting <= RingSize - 2
    /\ spc = "fetched" => sendSlot = (lastSent + 1) % RingSize

\* The packets in the ring: RingSize of them, less the one whose slot is claimed.
InRing(k) ==
    /\ k \in 0..(written - 1)
    /\ written - k < RingSize \/ (written - k = RingSize /\ ppc # "claimed")

WindowInv ==
    \A k \in 0..(written - 1) : InRing(k) =>
        slotPkt[k % RingSize] = k /\ slotSn[k % RingSize] = k % SeqMod

Inv == TypeOK /\ CountersInv /\ CarriedInv /\ WindowInv /\ ResendIsExact

\* The facts about the numbers that the steps below keep needing.
LEMMA Numbers ==
    ASSUME TypeOK, CountersInv
    PROVE  /\ Fetched \in Nat /\ Waiting \in 0..(RingSize - 1) /\ written \in Nat
           /\ Waiting = written - Fetched
           /\ lastSent + 1 <= Fetched /\ Fetched <= lastSent + 2
           /\ spc = "fetched" => Fetched = lastSent + 2
           /\ spc # "fetched" => Fetched = lastSent + 1
<1>1. written \in Nat /\ lastSent \in Nat \cup {-1} /\ pktReady \in Nat
  BY DEF TypeOK
<1>2. Waiting = written - Fetched
  BY DEF Waiting
<1>3. /\ Fetched \in Nat
      /\ lastSent + 1 <= Fetched /\ Fetched <= lastSent + 2
      /\ spc = "fetched" => Fetched = lastSent + 2
      /\ spc # "fetched" => Fetched = lastSent + 1
  BY <1>1 DEF Fetched
<1>4. pktReady + (IF spc = "ready" THEN 1 ELSE 0) + (IF ppc = "filled" THEN 1 ELSE 0) >= 0
  BY <1>1
<1>5. Waiting >= 0 /\ Waiting <= RingSize - 1
  BY <1>4 DEF CountersInv
<1> QED
  BY <1>1, <1>2, <1>3, <1>5, Sizes

\* _media_get_empty_slot finds the ring full when RingSize - 1 packets wait, and only then
\* can it go on: the test on wrapped numbers is exact.
LEMMA FullIsExact ==
    ASSUME TypeOK, CountersInv
    PROVE  RingFull <=> Waiting = RingSize - 1
<1>1. /\ Fetched \in Nat /\ Waiting \in 0..(RingSize - 1) /\ written \in Nat
      /\ Waiting = written - Fetched
  BY Numbers
<1>2. RingSize \in Nat \ {0} /\ SeqMod \in Nat \ {0}
  BY Sizes
<1>3. (seqNum + 1) % SeqMod = (written + 1) % SeqMod
  <2>1. written \in Int /\ seqNum = written % SeqMod
    BY <1>1 DEF CountersInv
  <2> QED
    BY <2>1, Number, Zenon
<1>4. ((seqNum + 1) % SeqMod) % RingSize = (written + 1) % RingSize
  BY <1>1, <1>3, SlotOfSeq
<1>5. xmitSeqNum % RingSize = Fetched % RingSize
  BY <1>1, SlotOfSeq DEF CountersInv
<1>6. RingFull <=> (written + 1) % RingSize = Fetched % RingSize
  BY <1>4, <1>5 DEF RingFull
<1>7. (Fetched + RingSize) % RingSize = Fetched % RingSize
  BY <1>1, Slot
<1>8. ASSUME Waiting = RingSize - 1
      PROVE  (written + 1) % RingSize = Fetched % RingSize
  <2>1. written + 1 = Fetched + RingSize
    BY <1>1, <1>2, <1>8
  <2> QED
    BY <1>7, <2>1
<1>9. ASSUME (written + 1) % RingSize = Fetched % RingSize, Waiting # RingSize - 1
      PROVE  FALSE
  <2>1. written + 1 - Fetched < RingSize /\ Fetched - (written + 1) < RingSize
    BY <1>1, <1>2, <1>9
  <2>2. written + 1 = Fetched
    BY <1>1, <1>9, <2>1, Slot
  <2> QED
    BY <1>1, <2>2
<1> QED
  BY <1>6, <1>8, <1>9

\* _media_get_queue_fullness counts the waiting packets exactly, wrapped or not.
LEMMA QueuedIsExact ==
    ASSUME TypeOK, CountersInv
    PROVE  Queued = Waiting
<1>1. /\ Fetched \in Nat /\ Waiting \in 0..(RingSize - 1) /\ written \in Nat
      /\ Waiting = written - Fetched
  BY Numbers
<1>2. SeqMod \in Nat \ {0} /\ RingSize <= SeqMod /\ RingSize \in Nat
  BY Sizes
<1>3. /\ seqNum \in 0..(SeqMod - 1) /\ xmitSeqNum \in 0..(SeqMod - 1)
      /\ seqNum = written % SeqMod /\ xmitSeqNum = Fetched % SeqMod
  BY DEF TypeOK, SeqNums, CountersInv
<1>4. PICK q \in Int : written = seqNum + SeqMod * q /\ SeqMod * q \in Int
  <2>1. written = SeqMod * (written \div SeqMod) + (written % SeqMod)
        /\ written \div SeqMod \in Int /\ SeqMod * (written \div SeqMod) \in Int
    BY <1>1, <1>2, DivMod
  <2> DEFINE p == written \div SeqMod
             a == SeqMod * p
  <2>2. p \in Int /\ a \in Int /\ written = a + seqNum
    BY <1>3, <2>1
  <2>3. written = seqNum + a
    <3> HIDE DEF a
    <3> QED
      BY <1>3, <2>2
  <2> QED
    BY <2>2, <2>3
<1>5. Queued \in 0..(SeqMod - 1) /\ (Queued = seqNum - xmitSeqNum
                                     \/ Queued = SeqMod + (seqNum - xmitSeqNum))
  BY <1>2, <1>3 DEF Queued
\* Going on from Fetched by Queued reaches the sequence number of written.
<1>6. (Fetched + Queued) % SeqMod = written % SeqMod
  <2>1. PICK p \in Int : Fetched = xmitSeqNum + SeqMod * p /\ SeqMod * p \in Int
    <3>1. Fetched = SeqMod * (Fetched \div SeqMod) + (Fetched % SeqMod)
          /\ Fetched \div SeqMod \in Int /\ SeqMod * (Fetched \div SeqMod) \in Int
      BY <1>1, <1>2, DivMod
    <3> DEFINE x == Fetched \div SeqMod
               a == SeqMod * x
    <3>2. x \in Int /\ a \in Int /\ Fetched = a + xmitSeqNum
      BY <1>3, <3>1
    <3>3. Fetched = xmitSeqNum + a
      <4> HIDE DEF a
      <4> QED
        BY <1>3, <3>2
    <3> QED
      BY <3>2, <3>3
  <2>2. (seqNum + SeqMod * p) % SeqMod = seqNum % SeqMod
    BY <1>3, <2>1, Number
  <2>3. (seqNum + SeqMod * (p + 1)) % SeqMod = seqNum % SeqMod
    BY <1>3, <2>1, Number
  <2>4. SeqMod * (p + 1) = SeqMod * p + SeqMod
    BY <1>2, <2>1, Z3T(30)
  <2>5. Fetched + Queued = seqNum + SeqMod * p \/ Fetched + Queued = seqNum + SeqMod * (p + 1)
    BY <1>2, <1>3, <1>5, <2>1, <2>4
  <2>6. (seqNum + SeqMod * q) % SeqMod = seqNum % SeqMod
    BY <1>3, <1>4, Number
  <2> QED
    BY <1>4, <2>2, <2>3, <2>5, <2>6
<1>7. Fetched + Queued = written
  <2> DEFINE n == Fetched + Queued
  <2>1. n \in Int /\ written \in Int /\ n - written < SeqMod /\ written - n < SeqMod
    BY <1>1, <1>2, <1>5
  <2>2. n % SeqMod = written % SeqMod
    BY <1>6
  <2> HIDE DEF n
  <2>3. n = written
    BY <2>1, <2>2, Number
  <2> QED
    BY <2>3 DEF n
<1> QED
  BY <1>1, <1>2, <1>5, <1>7

\* A slot that is labelled with a packet that was sent holds that packet, and the packet is
\* still among those in the ring.
LEMMA LabelIsTrue ==
    ASSUME Inv, NEW k \in 0..lastSent, written - k < SeqMod,
           slotSn[k % RingSize] = k % SeqMod
    PROVE  InRing(k) /\ slotPkt[k % RingSize] = k
<1>1. /\ Fetched \in Nat /\ Waiting \in 0..(RingSize - 1) /\ written \in Nat
      /\ Waiting = written - Fetched /\ lastSent + 1 <= Fetched
  BY Numbers DEF Inv
<1>2. RingSize \in Nat \ {0} /\ SeqMod \in Nat \ {0} /\ RingSize <= SeqMod
  BY Sizes
<1>3. lastSent \in Int /\ k \in Int /\ k < written /\ k \in 0..(written - 1)
  BY <1>1, <1>2 DEF Inv, TypeOK
<1>4. PICK j \in k..(written - 1) : written - j <= RingSize /\ j % RingSize = k % RingSize
  BY <1>1, <1>2, <1>3, ModPick, written \in Int, Zenon
<1>5. j \in 0..(written - 1) /\ j \in Int
  BY <1>3, <1>4
<1>6. CASE InRing(j)
  <2>1. slotPkt[k % RingSize] = j /\ j % SeqMod = k % SeqMod
    BY <1>4, <1>5, <1>6 DEF Inv, WindowInv
  <2>2. j - k < SeqMod /\ k - j < SeqMod
    BY <1>1, <1>2, <1>3, <1>4
  <2>3. j = k
    BY <1>3, <1>5, <2>1, <2>2, Number
  <2> QED
    BY <1>6, <2>1, <2>3
<1>7. CASE ~InRing(j)
  <2>1. ppc = "claimed" /\ written - j = RingSize
    BY <1>1, <1>2, <1>4, <1>5, <1>7 DEF InRing
  <2>2. (j + RingSize) % RingSize = j % RingSize
    BY <1>5, Slot
  <2>3. written = j + RingSize
    BY <1>1, <1>2, <1>5, <2>1
  <2>4. written % RingSize = k % RingSize
    BY <1>4, <2>2, <2>3
  <2>5. seqNum = written % SeqMod /\ slotSn[seqNum % RingSize] = seqNum
    BY <2>1 DEF Inv, CountersInv, CarriedInv
  <2>6. seqNum % RingSize = written % RingSize
    BY <1>1, <2>5, SlotOfSeq
  <2>7. written % SeqMod = k % SeqMod
    BY <2>4, <2>5, <2>6
  <2>8. written - k < SeqMod /\ k - written < SeqMod
    BY <1>1, <1>2, <1>3
  <2>9. written = k
    BY <1>1, <1>3, <2>7, <2>8, Number
  <2> QED
    BY <1>1, <1>3, <2>9
<1> QED
  BY <1>6, <1>7

-----------------------------------------------------------------------------
(* The steps *)

LEMMA InitInv == Init => Inv
<1> SUFFICES ASSUME Init PROVE Inv
  OBVIOUS
<1> USE Sizes DEF Init
<1>1. 0 % SeqMod = 0
  <2>1. 0 = SeqMod * 0 + 0 /\ 0 \in 0..(SeqMod - 1)
    BY Z3T(30)
  <2> QED
    BY <2>1, ModUnique
<1>2. Fetched = 0 /\ Waiting = 0
  BY DEF Fetched, Waiting
<1>3. TypeOK
  <2>1. leaked \in BOOLEAN /\ nackEnabled \in BOOLEAN
    BY Zenon
  <2>2. 0 \in SeqNums /\ 0 \in Slots
    BY DEF SeqNums, Slots
  <2> QED
    BY <2>1, <2>2 DEF TypeOK, NoResend
<1>4. CountersInv
  BY <1>1, <1>2 DEF CountersInv
<1>5. CarriedInv /\ WindowInv /\ ResendIsExact
  BY DEF CarriedInv, WindowInv, ResendIsExact, NoResend
<1> QED
  BY <1>3, <1>4, <1>5 DEF Inv

\* media_send_audio or media_send_video begins, ends or gives up its call.
LEMMA CallInv ==
    ASSUME Inv, (\E p \in Producers, n \in 1..MaxFrame : Begin(p, n)) \/ ClaimFull \/ Finish
    PROVE  Inv'
<1>1. /\ UNCHANGED <<kind, seqNum, xmitSeqNum, pktReady, slotSn, slotPkt, nackEnabled,
                     claimedSn, spc, sendSlot, lastSent, written, resent>>
      /\ ppc \in {"idle", "loop"} /\ ppc' \in {"idle", "loop"}
      /\ remaining' \in Nat
  BY RingAssumption DEF Begin, ClaimFull, Finish, Inv, TypeOK, producerVars, senderVars
<1>2. leaked' \in BOOLEAN /\ owner' \in Producers \cup {NoThread}
  BY Zenon DEF Begin, ClaimFull, Finish, Inv, TypeOK
<1>3. TypeOK'
  BY <1>1, <1>2 DEF Inv, TypeOK
<1>4. Fetched' = Fetched /\ Waiting' = Waiting
  BY <1>1 DEF Fetched, Waiting
<1>5. CountersInv' /\ CarriedInv'
  BY <1>1, <1>4 DEF Inv, CountersInv, CarriedInv
<1>6. WindowInv' /\ ResendIsExact'
  BY <1>1 DEF Inv, WindowInv, InRing, ResendIsExact
<1> QED
  BY <1>3, <1>5, <1>6 DEF Inv

\* Claim labels a slot that only a packet sent long ago still occupies.
LEMMA ClaimInv == ASSUME Inv, Claim PROVE Inv'
<1>1. /\ UNCHANGED <<kind, seqNum, xmitSeqNum, pktReady, slotPkt, nackEnabled, owner, leaked,
                     remaining, spc, sendSlot, lastSent, written, resent>>
      /\ ppc = "loop" /\ ppc' = "claimed" /\ remaining > 0 /\ ~RingFull
      /\ claimedSn' = seqNum /\ slotSn' = [slotSn EXCEPT ![seqNum % RingSize] = seqNum]
  BY DEF Claim, senderVars
<1>2. TypeOK
  BY DEF Inv
<1>3. seqNum \in SeqNums /\ seqNum % RingSize \in Slots
  <2>1. seqNum \in SeqNums
    BY DEF Inv, TypeOK
  <2>2. seqNum \in Int
    BY <2>1 DEF SeqNums
  <2> QED
    BY <2>1, <2>2, Sizes
<1>4. TypeOK'
  <2>1. slotSn' \in [Slots -> SeqNums \cup {-1}]
    BY <1>1, <1>2, <1>3 DEF TypeOK
  <2>2. leaked' \in BOOLEAN /\ nackEnabled' \in BOOLEAN
    BY <1>1, <1>2, Zenon DEF TypeOK
  <2> QED
    BY <1>1, <1>2, <1>3, <2>1, <2>2 DEF TypeOK
<1>5. Fetched' = Fetched /\ Waiting' = Waiting
  BY <1>1 DEF Fetched, Waiting
<1>6. CountersInv'
  BY <1>1, <1>5 DEF Inv, CountersInv
<1>7. Waiting <= RingSize - 2
  <2>1. Waiting # RingSize - 1 /\ Waiting \in 0..(RingSize - 1)
    BY <1>1, FullIsExact, Numbers DEF Inv
  <2> QED
    BY <2>1, Sizes
<1>8. CarriedInv'
  <2>1. slotSn'[seqNum % RingSize] = seqNum
    BY <1>1, <1>2, <1>3 DEF TypeOK
  <2> QED
    BY <1>1, <1>5, <1>7, <2>1 DEF Inv, CarriedInv
<1>9. WindowInv'
  <2> SUFFICES ASSUME NEW k \in 0..(written - 1), written - k < RingSize
               PROVE  slotPkt[k % RingSize] = k /\ slotSn'[k % RingSize] = k % SeqMod
    BY <1>1 DEF WindowInv, InRing
  <2>1. slotPkt[k % RingSize] = k /\ slotSn[k % RingSize] = k % SeqMod
    BY DEF Inv, WindowInv, InRing
  <2>2. written \in Nat /\ k \in Int /\ written \in Int /\ RingSize \in Nat
    BY <1>2, Sizes DEF TypeOK
  <2>3. k % RingSize # seqNum % RingSize
    <3>1. seqNum % RingSize = written % RingSize
      BY <2>2, SlotOfSeq DEF Inv, CountersInv
    <3>2. k # written /\ k - written < RingSize
      BY <2>2
    <3> QED
      BY <2>2, <3>1, <3>2, Slot
  <2>4. k % RingSize \in Slots
    BY <2>2, Sizes
  <2> QED
    BY <1>1, <1>2, <2>1, <2>3, <2>4 DEF TypeOK
<1>10. ResendIsExact'
  BY <1>1 DEF Inv, ResendIsExact
<1> QED
  BY <1>4, <1>6, <1>8, <1>9, <1>10 DEF Inv

\* Fill puts the next packet into the claimed slot and keeps all others.
LEMMA FillInv == ASSUME Inv, Fill PROVE Inv'
<1>1. /\ UNCHANGED <<kind, xmitSeqNum, pktReady, nackEnabled, owner, leaked, claimedSn, spc,
                     sendSlot, lastSent, resent>>
      /\ ppc = "claimed" /\ ppc' = "filled"
      /\ slotPkt' = [slotPkt EXCEPT ![claimedSn % RingSize] = written]
      /\ slotSn' = [slotSn EXCEPT ![claimedSn % RingSize] = claimedSn]
      /\ seqNum' = (seqNum + 1) % SeqMod /\ written' = written + 1 /\ remaining' = remaining - 1
  BY DEF Fill, senderVars
<1>2. TypeOK
  BY DEF Inv
<1>3. /\ claimedSn = seqNum /\ claimedSn = written % SeqMod /\ remaining > 0
      /\ Waiting <= RingSize - 2 /\ written \in Nat /\ written \in Int /\ remaining \in Nat
  BY <1>1, <1>2 DEF Inv, CarriedInv, CountersInv, TypeOK
<1>4. claimedSn % RingSize = written % RingSize /\ written % RingSize \in Slots
  BY <1>3, SlotOfSeq, Sizes
<1>5. seqNum' = written' % SeqMod /\ seqNum' \in SeqNums
  <2>1. seqNum' = (written + 1) % SeqMod
    BY <1>1, <1>3, Number, Zenon
  <2>2. written + 1 \in Int
    BY <1>3
  <2> QED
    BY <1>1, <2>1, <2>2, Sizes
<1>6. TypeOK'
  <2>1. slotSn' \in [Slots -> SeqNums \cup {-1}] /\ slotPkt' \in [Slots -> Nat \cup {-1}]
    BY <1>1, <1>2, <1>3, <1>4 DEF TypeOK
  <2>2. leaked' \in BOOLEAN /\ nackEnabled' \in BOOLEAN
    BY <1>1, <1>2, Zenon DEF TypeOK
  <2>3. written' \in Nat /\ remaining' \in Nat
    BY <1>1, <1>3
  <2> QED
    BY <1>1, <1>2, <1>5, <2>1, <2>2, <2>3 DEF TypeOK
<1>7. Fetched' = Fetched /\ Waiting' = Waiting + 1
  <2>1. Fetched' = Fetched
    BY <1>1 DEF Fetched
  <2>2. Fetched \in Nat
    BY Numbers DEF Inv
  <2> QED
    BY <1>1, <1>3, <2>1, <2>2 DEF Waiting
<1>8. CountersInv'
  <2>1. Waiting \in 0..(RingSize - 1) /\ pktReady \in Nat /\ RingSize \in Nat
    BY <1>2, Numbers, Sizes DEF Inv, TypeOK
  <2>2. pktReady + (IF spc = "ready" THEN 1 ELSE 0) = Waiting
    BY <1>1, <2>1 DEF Inv, CountersInv
  <2>3. pktReady' + (IF spc' = "ready" THEN 1 ELSE 0) + (IF ppc' = "filled" THEN 1 ELSE 0)
          = Waiting'
    BY <1>1, <1>7, <2>1, <2>2
  <2>4. Waiting' <= RingSize - 1
    BY <1>3, <1>7, <2>1
  <2>5. xmitSeqNum' = Fetched' % SeqMod
    BY <1>1, <1>7 DEF Inv, CountersInv
  <2> QED
    BY <1>5, <2>3, <2>4, <2>5 DEF CountersInv
<1>9. CarriedInv'
  BY <1>1 DEF Inv, CarriedInv
<1>10. WindowInv'
  <2> SUFFICES ASSUME NEW k \in 0..written, written + 1 - k <= RingSize
               PROVE  slotPkt'[k % RingSize] = k /\ slotSn'[k % RingSize] = k % SeqMod
    <3>1. RingSize \in Int
      BY Sizes
    <3>2. \A k \in 0..(written' - 1) : InRing(k)' => k \in 0..written /\ written + 1 - k <= RingSize
      BY <1>1, <1>3, <3>1 DEF InRing
    <3> QED
      BY <1>1, <1>3, <3>2, Zenon DEF WindowInv
  <2>1. k \in Int /\ k % RingSize \in Slots /\ RingSize \in Nat
    BY Sizes
  <2>2. CASE k = written
    BY <1>1, <1>2, <1>3, <1>4, <2>2 DEF TypeOK
  <2>3. CASE k # written
    <3>1. k \in 0..(written - 1) /\ written - k < RingSize /\ k - written < RingSize
      BY <1>3, <2>1, <2>3
    <3>2. slotPkt[k % RingSize] = k /\ slotSn[k % RingSize] = k % SeqMod
      BY <3>1 DEF Inv, WindowInv, InRing
    <3>3. k % RingSize # written % RingSize
      BY <1>3, <2>1, <2>3, <3>1, Slot
    <3> QED
      BY <1>1, <1>2, <1>4, <2>1, <3>2, <3>3 DEF TypeOK
  <2> QED
    BY <2>2, <2>3
<1>11. ResendIsExact'
  BY <1>1 DEF Inv, ResendIsExact
<1> QED
  BY <1>6, <1>8, <1>9, <1>10, <1>11 DEF Inv

\* A token goes from the producer to the semaphore, or from there to the send thread.
LEMMA TokenInv == ASSUME Inv, Post \/ Pend PROVE Inv'
<1>1. /\ UNCHANGED <<kind, seqNum, xmitSeqNum, slotSn, slotPkt, nackEnabled, owner, leaked,
                     claimedSn, remaining, sendSlot, lastSent, written, resent>>
      /\ \/ /\ ppc = "filled" /\ ppc' = "loop" /\ pktReady' = pktReady + 1 /\ spc' = spc
         \/ /\ spc = "pend" /\ spc' = "ready" /\ pktReady > 0 /\ pktReady' = pktReady - 1
            /\ ppc' = ppc
  BY DEF Post, Pend, senderVars, producerVars
<1>2. TypeOK
  BY DEF Inv
<1>3. pktReady \in Nat /\ pktReady' \in Nat
  BY <1>1, <1>2 DEF TypeOK
<1>4. TypeOK'
  <2>1. leaked' \in BOOLEAN /\ nackEnabled' \in BOOLEAN
    BY <1>1, <1>2, Zenon DEF TypeOK
  <2> QED
    BY <1>1, <1>2, <1>3, <2>1 DEF TypeOK
<1>5. Fetched' = Fetched /\ Waiting' = Waiting
  BY <1>1 DEF Fetched, Waiting
<1>6. pktReady' + (IF spc' = "ready" THEN 1 ELSE 0) + (IF ppc' = "filled" THEN 1 ELSE 0)
        = pktReady + (IF spc = "ready" THEN 1 ELSE 0) + (IF ppc = "filled" THEN 1 ELSE 0)
  <2> DEFINE r == IF spc = "ready" THEN 1 ELSE 0
             f == IF ppc = "filled" THEN 1 ELSE 0
  <2>1. \/ pktReady' = pktReady + 1 /\ r' = r /\ f = 1 /\ f' = 0
        \/ pktReady' = pktReady - 1 /\ f' = f /\ r = 0 /\ r' = 1
    BY <1>1
  <2>2. r \in Int /\ f \in Int
    OBVIOUS
  <2> HIDE DEF r, f
  <2>3. pktReady' + r' + f' = pktReady + r + f
    BY <1>3, <2>1, <2>2
  <2> QED
    BY <2>3 DEF r, f
<1>7. CountersInv'
  BY <1>1, <1>5, <1>6 DEF Inv, CountersInv
<1>8. CarriedInv'
  BY <1>1, <1>5 DEF Inv, CarriedInv
<1>9. WindowInv' /\ ResendIsExact'
  BY <1>1 DEF Inv, WindowInv, InRing, ResendIsExact
<1> QED
  BY <1>4, <1>7, <1>8, <1>9 DEF Inv

\* The send thread counts xmit_seq_num before it has the slot.
LEMMA FetchInv == ASSUME Inv, Fetch PROVE Inv'
<1>1. /\ UNCHANGED <<kind, seqNum, pktReady, slotSn, slotPkt, nackEnabled, owner, leaked, ppc,
                     claimedSn, remaining, lastSent, written, resent>>
      /\ spc = "ready" /\ spc' = "fetched"
      /\ sendSlot' = xmitSeqNum % RingSize /\ xmitSeqNum' = (xmitSeqNum + 1) % SeqMod
  BY DEF Fetch, producerVars
<1>2. TypeOK
  BY DEF Inv
<1>3. /\ Fetched = lastSent + 1 /\ Fetched \in Nat /\ Fetched \in Int
      /\ xmitSeqNum = Fetched % SeqMod /\ written \in Nat /\ lastSent \in Int
      /\ Waiting \in 0..(RingSize - 1) /\ Waiting = written - Fetched /\ RingSize \in Nat
  <2>1. xmitSeqNum = Fetched % SeqMod
    BY DEF Inv, CountersInv
  <2>2. lastSent \in Nat \cup {-1} /\ RingSize \in Nat
    BY <1>2, Sizes DEF TypeOK
  <2>3. /\ Fetched = lastSent + 1 /\ Fetched \in Nat /\ written \in Nat
        /\ Waiting \in 0..(RingSize - 1) /\ Waiting = written - Fetched
    BY <1>1, Numbers DEF Inv
  <2> QED
    BY <2>1, <2>2, <2>3
<1>4. Fetched' = Fetched + 1 /\ Waiting' = Waiting - 1
  <2>1. Fetched' = Fetched + 1
    BY <1>1, <1>3 DEF Fetched
  <2> QED
    BY <1>1, <1>3, <2>1 DEF Waiting
<1>5. sendSlot' = (lastSent + 1) % RingSize /\ sendSlot' \in Slots
  BY <1>1, <1>3, SlotOfSeq, Sizes
<1>6. xmitSeqNum' = Fetched' % SeqMod /\ xmitSeqNum' \in SeqNums
  <2>1. xmitSeqNum' = (Fetched + 1) % SeqMod
    BY <1>1, <1>3, Number, Zenon
  <2>2. Fetched + 1 \in Int
    BY <1>3
  <2> QED
    BY <1>4, <2>1, <2>2, Sizes
<1>7. TypeOK'
  <2>1. leaked' \in BOOLEAN /\ nackEnabled' \in BOOLEAN
    BY <1>1, <1>2, Zenon DEF TypeOK
  <2> QED
    BY <1>1, <1>2, <1>5, <1>6, <2>1 DEF TypeOK
<1>8. CountersInv'
  <2>1. pktReady' + (IF spc' = "ready" THEN 1 ELSE 0) + (IF ppc' = "filled" THEN 1 ELSE 0)
          = Waiting'
    BY <1>1, <1>2, <1>3, <1>4 DEF Inv, CountersInv, TypeOK
  <2>2. Waiting' <= RingSize - 1
    BY <1>3, <1>4
  <2>3. seqNum' = written' % SeqMod
    BY <1>1 DEF Inv, CountersInv
  <2> QED
    BY <1>6, <2>1, <2>2, <2>3 DEF CountersInv
<1>9. CarriedInv'
  BY <1>1, <1>3, <1>4, <1>5 DEF Inv, CarriedInv
<1>10. WindowInv' /\ ResendIsExact'
  BY <1>1 DEF Inv, WindowInv, InRing, ResendIsExact
<1> QED
  BY <1>7, <1>8, <1>9, <1>10 DEF Inv

\* What the send thread finds in the slot is the packet that is next: no producer claimed the
\* slot in the meantime.
LEMMA NextIsThere ==
    ASSUME Inv, spc = "fetched"
    PROVE  slotPkt[sendSlot] = lastSent + 1 /\ lastSent + 1 < written
<1>1. /\ Fetched = lastSent + 2 /\ Fetched \in Nat /\ lastSent \in Nat \cup {-1}
      /\ Waiting \in 0..(RingSize - 1) /\ Waiting = written - Fetched /\ RingSize \in Nat
      /\ written \in Nat /\ sendSlot = (lastSent + 1) % RingSize
  BY Numbers, Sizes DEF Inv, CarriedInv, TypeOK
<1>2. lastSent + 1 \in 0..(written - 1) /\ written - (lastSent + 1) = Waiting + 1
  BY <1>1
<1>3. InRing(lastSent + 1)
  <2>1. CASE ppc = "claimed"
    <3>1. Waiting <= RingSize - 2
      BY <2>1 DEF Inv, CarriedInv
    <3> QED
      BY <1>1, <1>2, <3>1 DEF InRing
  <2>2. CASE ppc # "claimed"
    BY <1>1, <1>2, <2>2 DEF InRing
  <2> QED
    BY <2>1, <2>2
<1> QED
  BY <1>1, <1>2, <1>3 DEF Inv, WindowInv

LEMMA TransmitInv == ASSUME Inv, Transmit PROVE Inv'
<1>1. /\ UNCHANGED <<kind, seqNum, xmitSeqNum, pktReady, slotSn, slotPkt, nackEnabled, owner,
                     leaked, ppc, claimedSn, remaining, sendSlot, written, resent>>
      /\ spc = "fetched" /\ spc' = "pend" /\ lastSent' = slotPkt[sendSlot]
  BY DEF Transmit, producerVars
<1>2. TypeOK
  BY DEF Inv
<1>3. lastSent' = lastSent + 1 /\ lastSent \in Nat \cup {-1}
  BY <1>1, <1>2, NextIsThere DEF TypeOK
<1>4. TypeOK'
  <2>1. leaked' \in BOOLEAN /\ nackEnabled' \in BOOLEAN
    BY <1>1, <1>2, Zenon DEF TypeOK
  <2>2. lastSent' \in Nat \cup {-1}
    BY <1>3
  <2> QED
    BY <1>1, <1>2, <2>1, <2>2 DEF TypeOK
<1>5. Fetched' = Fetched /\ Waiting' = Waiting
  <2>1. Fetched' = Fetched
    BY <1>1, <1>3 DEF Fetched
  <2> QED
    BY <1>1, <2>1 DEF Waiting
<1>6. CountersInv'
  BY <1>1, <1>5 DEF Inv, CountersInv
<1>7. CarriedInv'
  BY <1>1, <1>5 DEF Inv, CarriedInv
<1>8. WindowInv' /\ ResendIsExact'
  BY <1>1 DEF Inv, WindowInv, InRing, ResendIsExact
<1> QED
  BY <1>4, <1>6, <1>7, <1>8 DEF Inv

\* _nack_resend_packet compares the label of the slot with the number it was asked for.
LEMMA ResendInv == ASSUME Inv, NEW k \in 0..lastSent, Resend(k) PROVE Inv'
<1>1. /\ UNCHANGED <<kind, seqNum, xmitSeqNum, pktReady, slotSn, slotPkt, nackEnabled,
                     producerVars, senderVars, written>>
      /\ written - k < SeqMod /\ slotSn[SeqOf(k) % RingSize] = SeqOf(k)
      /\ resent' = [asked |-> k, got |-> slotPkt[SeqOf(k) % RingSize]]
  BY DEF Resend
<1>2. TypeOK /\ k \in Nat
  BY DEF Inv, TypeOK
<1>3. SeqOf(k) = k % SeqMod /\ SeqOf(k) % RingSize = k % RingSize
  BY <1>2, SlotOfSeq DEF SeqOf
<1>4. slotPkt[k % RingSize] = k
  BY <1>1, <1>3, LabelIsTrue
<1>5. resent' = [asked |-> k, got |-> k]
  BY <1>1, <1>3, <1>4
<1>6. TypeOK'
  <2>1. leaked' \in BOOLEAN /\ nackEnabled' \in BOOLEAN
    BY <1>1, <1>2, Zenon DEF TypeOK, producerVars
  <2>2. resent' \in [asked : Nat \cup {-1}, got : Nat \cup {-1}]
    BY <1>2, <1>5
  <2> QED
    BY <1>1, <1>2, <2>1, <2>2 DEF TypeOK, producerVars, senderVars
<1>7. ResendIsExact'
  BY <1>5 DEF ResendIsExact
<1>8. Fetched' = Fetched /\ Waiting' = Waiting
  BY <1>1 DEF Fetched, Waiting, senderVars
<1>9. CountersInv' /\ CarriedInv' /\ WindowInv'
  BY <1>1, <1>8 DEF Inv, CountersInv, CarriedInv, WindowInv, InRing, producerVars, senderVars
<1> QED
  BY <1>6, <1>7, <1>9 DEF Inv

LEMMA NextInv == Inv /\ [Next]_vars => Inv'
<1> SUFFICES ASSUME Inv, [Next]_vars PROVE Inv'
  OBVIOUS
<1>1. CASE UNCHANGED vars
  <2>1. TypeOK'
    BY <1>1, Zenon DEF Inv, TypeOK, vars, producerVars, senderVars
  <2>2. Fetched' = Fetched /\ Waiting' = Waiting
    BY <1>1 DEF Fetched, Waiting, vars, senderVars
  <2>3. CountersInv' /\ CarriedInv' /\ WindowInv' /\ ResendIsExact'
    BY <1>1, <2>2 DEF Inv, CountersInv, CarriedInv, WindowInv, InRing, ResendIsExact, vars,
                      producerVars, senderVars
  <2> QED
    BY <2>1, <2>3 DEF Inv
<1>2. CASE EnableNack
  <2>1. UNCHANGED <<kind, seqNum, xmitSeqNum, pktReady, slotSn, slotPkt, owner, leaked, ppc,
                    claimedSn, remaining, spc, sendSlot, lastSent, written, resent>>
    BY <1>2 DEF EnableNack, producerVars, senderVars
  <2>2. nackEnabled' \in BOOLEAN
    BY <1>2, Zenon DEF EnableNack
  <2>3. TypeOK'
    BY <2>1, <2>2, Zenon DEF Inv, TypeOK
  <2>4. Fetched' = Fetched /\ Waiting' = Waiting
    BY <2>1 DEF Fetched, Waiting
  <2>5. CountersInv' /\ CarriedInv' /\ WindowInv' /\ ResendIsExact'
    BY <2>1, <2>4 DEF Inv, CountersInv, CarriedInv, WindowInv, InRing, ResendIsExact
  <2> QED
    BY <2>3, <2>5 DEF Inv
<1>3. ASSUME Produce
      PROVE  Inv'
  BY <1>3, CallInv, ClaimInv, FillInv, TokenInv, Zenon DEF Produce
<1>4. ASSUME SendThread
      PROVE  Inv'
  BY <1>4, TokenInv, FetchInv, TransmitInv, Zenon DEF SendThread
<1>5. ASSUME Receive
      PROVE  Inv'
  BY <1>5, ResendInv, Zenon DEF Receive
<1> QED
  BY <1>1, <1>2, <1>3, <1>4, <1>5, Zenon DEF Next

LEMMA InvAlways == Spec => []Inv
  BY InitInv, NextInv, PTL DEF Spec

-----------------------------------------------------------------------------
(* The theorems *)

\* The variables keep their types: above all the two sequence numbers stay 16 bits wide and
\* the semaphore pkt_ready never falls below zero.
THEOREM Typing == Spec => []TypeOK
<1>1. Inv => TypeOK
  BY DEF Inv
<1> QED
  BY <1>1, InvAlways, PTL

\* seq_num, xmit_seq_num and pkt_ready, which no lock of media.c ties together, agree on how
\* many packets wait, however the threads interleave and however often the numbers wrap.
THEOREM Accounting == Spec => []PacketAccounting
<1>1. Inv => PacketAccounting
  BY QueuedIsExact DEF Inv, CountersInv, PacketAccounting
<1> QED
  BY <1>1, InvAlways, PTL

\* The newest RingSize - 1 packets are in their slots: a slot is only ever claimed by
\* _media_get_empty_slot when its packet was sent and is past that window.
THEOREM Window == Spec => []RecentIntact
<1>1. Inv => RecentIntact
  BY DEF Inv, WindowInv, InRing, RecentIntact, SeqOf
<1> QED
  BY <1>1, InvAlways, PTL

\* A retransmission by _nack_resend_packet carries the packet that was asked for, although
\* slot->sn is written under nack_slots_lock and read under the slot's mutex.
THEOREM Retransmission == Spec => []ResendIsExact
<1>1. Inv => ResendIsExact
  BY DEF Inv
<1> QED
  BY <1>1, InvAlways, PTL

\* The ring implements the packet stream: every packet that media_send_audio or
\* media_send_video accepts leaves exactly once, in order and unchanged, and may leave again
\* only as itself while it is among the RingSize newest.
THEOREM Implements == Spec => IsPacketStream
<1>1. Init => Promise!Init
  BY DEF Init, Promise!Init, NoResend
<1>2. Inv /\ [Next]_vars => [Promise!Next]_(Promise!psVars)
  <2> SUFFICES ASSUME Inv, [Next]_vars
               PROVE  Promise!Next \/ UNCHANGED <<written, lastSent, resent.got>>
    BY DEF Promise!psVars
  <2>1. /\ Waiting \in 0..(RingSize - 1) /\ Waiting = written - Fetched /\ Fetched \in Nat
        /\ Fetched <= lastSent + 2 /\ written \in Nat /\ lastSent \in Int /\ RingSize \in Nat
    BY Numbers, Sizes DEF Inv, TypeOK
  <2>2. CASE Fill
    <3>1. Waiting <= RingSize - 2
      BY <2>2 DEF Fill, Inv, CarriedInv
    <3>2. written - (lastSent + 1) <= RingSize - 1
      BY <2>1, <3>1
    <3> QED
      BY <2>2, <3>2 DEF Fill, senderVars, Promise!Next, Promise!Accept
  <2>3. CASE Transmit
    BY <2>3, NextIsThere DEF Transmit, Promise!Next, Promise!Send
  <2>4. ASSUME NEW k \in 0..lastSent, Resend(k)
        PROVE  Promise!SendAgain
    <3>1. k \in Int /\ SeqOf(k) = k % SeqMod /\ SeqOf(k) % RingSize = k % RingSize
      BY <2>1, SlotOfSeq DEF SeqOf
    <3>2. InRing(k) /\ resent'.got = k
      BY <2>4, <3>1, LabelIsTrue DEF Resend
    <3>3. written - k <= RingSize
      BY <2>1, <3>1, <3>2 DEF InRing
    <3> QED
      BY <2>4, <3>2, <3>3 DEF Resend, senderVars, Promise!SendAgain
  <2>5. CASE \/ (\E p \in Producers, n \in 1..MaxFrame : Begin(p, n)) \/ Claim \/ ClaimFull
             \/ Post \/ Finish \/ Pend \/ Fetch \/ EnableNack \/ UNCHANGED vars
    BY <2>5 DEF Begin, Claim, ClaimFull, Post, Finish, Pend, Fetch, EnableNack, vars,
                producerVars, senderVars
  <2> QED
    BY <2>2, <2>3, <2>4, <2>5 DEF Next, Produce, SendThread, Receive, Promise!Next
<1> QED
  BY <1>1, <1>2, InvAlways, PTL DEF Spec, IsPacketStream, Promise!Spec
=============================================================================
