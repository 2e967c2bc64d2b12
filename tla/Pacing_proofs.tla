--------------------------- MODULE Pacing_proofs ---------------------------
(***************************************************************************)
(* The flow control of the video send thread, proved for every packet      *)
(* size, every set of rates and every granularity of time.                 *)
(***************************************************************************)
EXTENDS Pacing, TLAPS

\* The quotient of two integers, as C computes bytes_per_ms and the sleep.
LEMMA Div ==
    ASSUME NEW s \in Nat, NEW t \in Nat \ {0}
    PROVE  s \div t \in Nat /\ t * (s \div t) <= s /\ s < t * (s \div t) + t
  BY Z3

\* A time of n milliseconds is counted as n at least.
LEMMA DivAtLeast ==
    ASSUME NEW s \in Nat, NEW t \in Nat \ {0}, NEW n \in Nat, s >= n * t
    PROVE  s \div t >= n
<1> DEFINE q == s \div t
<1>1. q \in Nat /\ s < t * q + t
  BY Div
<1>2. ASSUME q + 1 <= n
      PROVE  FALSE
  <2>1. t * (q + 1) <= t * n
    BY <1>1, <1>2, Z3
  <2> QED
    BY <1>1, <2>1, Z3
<1> QED
  BY <1>1, <1>2

\* Multiplying preserves the order.
LEMMA MulMono ==
    ASSUME NEW a \in Nat, NEW b \in Int, NEW c \in Int, b <= c
    PROVE  a * b <= a * c
  BY Z3

\* A rate of the thread that is not a bypass.
LEMMA RateFacts ==
    ASSUME NEW k \in Rates
    PROVE  /\ BytesPerMs(k) \in Int /\ BytesPerMs(k) <= MaxRate
           /\ k # 0 => BytesPerMs(k) >= 1
           /\ k = 0 => BytesPerMs(k) = 0
<1>1. k \in Nat /\ BytesPerMs(k) <= MaxRate /\ (k # 0 => BytesPerMs(k) >= 1)
  BY PacingAssumption
<1>2. BytesPerMs(k) \in Int
  BY <1>1, Z3 DEF BytesPerMs
<1>3. k = 0 => BytesPerMs(k) = 0
  BY <1>1, Z3 DEF BytesPerMs
<1> QED
  BY <1>1, <1>2, <1>3

\* The sleep of video_send_thread lasts long enough for more than Mtu bytes.
LEMMA SleepFacts ==
    ASSUME NEW r \in Nat \ {0}
    PROVE  /\ Mtu \div r + 1 \in Nat
           /\ r * (Mtu \div r + 1) > Mtu
<1>1. Mtu \in Nat
  BY PacingAssumption
<1>2. Mtu \div r \in Nat /\ Mtu < r * (Mtu \div r) + r
  BY <1>1, Div
<1> QED
  BY <1>2, <1>1, Z3

\* What the level gains in s ticks, counted in whole milliseconds at the rate r, is no more
\* than what the greatest rate allows in that time.
LEMMA GainFacts ==
    ASSUME NEW s \in Nat, NEW r \in Nat, r <= MaxRate
    PROVE  /\ (s \div TicksPerMs) * r \in Nat
           /\ TicksPerMs * ((s \div TicksPerMs) * r) <= s * MaxRate
<1> DEFINE q == s \div TicksPerMs
<1>1. TicksPerMs \in Nat \ {0} /\ MaxRate \in Nat
  BY PacingAssumption
<1>2. q \in Nat /\ TicksPerMs * q <= s
  BY <1>1, Div
<1> HIDE DEF q
<1>3. q * r \in Nat /\ TicksPerMs * q \in Nat
  BY <1>1, <1>2, Z3
<1>4. r * (TicksPerMs * q) <= r * s
  BY <1>2, <1>3, MulMono
<1>5. s * r <= s * MaxRate
  BY <1>1, MulMono
<1>6. TicksPerMs * (q * r) = r * (TicksPerMs * q) /\ r * s = s * r
  BY <1>1, <1>2, Z3
<1>7. q * r \in Nat /\ TicksPerMs * (q * r) <= s * MaxRate
  BY <1>3, <1>4, <1>5, <1>6, <1>1, Z3
<1> QED
  BY <1>7 DEF q

\* What the level gains by an update, its time pays for; and a level within its limit leaves
\* room for a packet.
LEMMA UpdateCovers ==
    ASSUME NEW t \in Nat \ {0}, NEW cap \in Nat, NEW mtu \in Nat, NEW old \in Int,
           NEW new \in Int, NEW gain \in Nat, NEW time \in Nat,
           t * gain <= time, new <= old + gain, new <= cap
    PROVE  /\ t * mtu <= t * (cap + mtu - new)
           /\ t * (cap + mtu - old) - time <= t * (cap + mtu - new)
<1>1. t * mtu <= t * (cap + mtu - new)
  BY MulMono
<1>2. t * (new - old) <= t * gain
  BY MulMono
<1>3. t * (cap + mtu - old) - t * (new - old) = t * (cap + mtu - new)
  BY Z3
<1>4. t * (cap + mtu - old) \in Int /\ t * (new - old) \in Int /\ t * gain \in Int
  BY Z3
<1> QED
  BY <1>1, <1>2, <1>3, <1>4

\* What a packet takes from the level it adds to what the level lacks.
LEMMA SendCovers ==
    ASSUME NEW t \in Nat \ {0}, NEW cap \in Nat, NEW mtu \in Nat, NEW old \in Int,
           NEW bytes \in Int, bytes <= mtu, NEW time \in Nat
    PROVE  /\ bytes * t \in Int /\ bytes * t <= t * mtu
           /\ (t * (cap + mtu - old) - time) + bytes * t
                = t * (cap + mtu - (old - bytes)) - time
<1>1. t * bytes <= t * mtu
  BY MulMono
<1>2. t * (cap + mtu - (old - bytes)) = t * (cap + mtu - old) + t * bytes
  BY Z3
<1>3. t * (cap + mtu - old) \in Int /\ t * bytes \in Int /\ bytes * t = t * bytes
  BY Z3
<1> QED
  BY <1>1, <1>2, <1>3

-----------------------------------------------------------------------------
(* The inductive invariant *)

Pending == spc \in {"update", "check", "asleep"}

\* How long the thread sleeps, and what it has when it looks at the level again.
SleepInv ==
    /\ Pending => kbps # 0
    /\ spc = "asleep" => level <= 0 /\ sleeps = 1 /\ wake >= SleepMs * TicksPerMs
    /\ spc = "update" => sleeps = 0 \/ (sleeps = 1 /\ since >= SleepMs * TicksPerMs)
    /\ spc = "check" => sleeps = 0 \/ (sleeps = 1 /\ level > 0)
    /\ sleeps <= 1

\* The excess is covered by what the level lacks to its limit, less what the ticks since the
\* level was last computed will add to it.  Only the packet sent after a long pause, when the
\* level of that computation counts, is not.
Uncovered == IF spc = "check" THEN 0 ELSE TicksPerMs * Mtu
Lacking   == TicksPerMs * (MaxLevelMs * MaxRate + Mtu - level) - since * MaxRate
DebtInv   == debt <= Uncovered \/ debt <= Lacking

Inv == TypeOK /\ SleepInv /\ DebtInv

\* The thread starts with the invariant: 5 ms of credit, nothing sent.
LEMMA InitInv == Init => Inv
<1> SUFFICES ASSUME Init PROVE Inv
  OBVIOUS
<1> USE PacingAssumption DEF Init
<1>1. level \in Nat
  <2>1. peak \in Nat
    OBVIOUS
  <2> QED
    BY <2>1, Z3
<1>2. TypeOK
  BY <1>1 DEF TypeOK
<1>3. SleepInv
  BY DEF SleepInv, Pending
<1>4. DebtInv
  BY Z3 DEF DebtInv, Uncovered
<1> QED
  BY <1>2, <1>3, <1>4 DEF Inv

\* Each step of the thread, of its rate, of media_destroy and of time preserves it.
LEMMA NextInv == Inv /\ [Next]_vars => Inv'
<1> SUFFICES ASSUME Inv, [Next]_vars PROVE Inv'
  OBVIOUS
<1> DEFINE T    == TicksPerMs
           Cap  == MaxLevelMs * MaxRate
           rate == BytesPerMs(kbps)
<1>1. /\ Mtu \in Nat \ {0} /\ MaxLevelMs \in Nat \ {0} /\ T \in Nat \ {0} /\ MaxRate \in Nat
      /\ Cap \in Nat
  BY PacingAssumption, Z3
<1>2. TypeOK /\ SleepInv /\ DebtInv
  BY DEF Inv
<1>3. rate \in Nat /\ rate <= MaxRate /\ (kbps # 0 => rate >= 1)
  BY <1>2, RateFacts DEF TypeOK
<1>4. since * MaxRate \in Nat /\ Lacking \in Int /\ Uncovered \in Nat
  <2>1. since \in Nat /\ level \in Int
    BY <1>2 DEF TypeOK
  <2>2. since * MaxRate \in Nat /\ T * Mtu \in Nat /\ T * (Cap + Mtu - level) \in Int
    BY <1>1, <2>1, Z3
  <2> QED
    BY <2>2 DEF Lacking, Uncovered
<1>5. CASE UNCHANGED vars
  <2>1. TypeOK' /\ SleepInv'
    BY <1>2, <1>5 DEF vars, TypeOK, SleepInv, SleepMs, BytesPerMs, Pending
  <2>2. DebtInv'
    BY <1>2, <1>5 DEF vars, DebtInv, Lacking, Uncovered
  <2> QED
    BY <2>1, <2>2 DEF Inv
<1>6. ASSUME FollowPeak \/ SendUnpaced \/ (\E k \in Rates : SetPeak(k)) \/ Stop
      PROVE  Inv'
  <2>1. TypeOK'
    BY <1>2, <1>6 DEF TypeOK, FollowPeak, SendUnpaced, SetPeak, Stop
  <2>2. SleepInv'
    BY <1>2, <1>6 DEF SleepInv, SleepMs, BytesPerMs, Pending, FollowPeak, SendUnpaced,
                      SetPeak, Stop
  <2>3. DebtInv'
    BY <1>2, <1>6 DEF DebtInv, Lacking, Uncovered, FollowPeak, SendUnpaced, SetPeak, Stop
  <2> QED
    BY <2>1, <2>2, <2>3 DEF Inv
<1>7. CASE Pend
  <2>1. TypeOK'
    <3>1. first' \in BOOLEAN
      BY <1>2, <1>7, Zenon DEF TypeOK, Pend
    <3>2. spc' \in {"exited", "unpaced", "update"} /\ since' \in Nat /\ sleeps' = 0
      BY <1>2, <1>7 DEF TypeOK, Pend
    <3>3. UNCHANGED <<tx, peak, kbps, level, wake, debt>>
      BY <1>7 DEF Pend
    <3> QED
      BY <1>2, <3>1, <3>2, <3>3 DEF TypeOK
  <2>2. SleepInv'
    BY <1>2, <1>7 DEF SleepInv, Pending, Pend
  <2>3. DebtInv'
    <3>1. Uncovered' = Uncovered
      BY <1>7 DEF Uncovered, Pend
    <3>2. debt' = debt /\ level' = level /\ (since' = since \/ since' = 0)
      BY <1>7 DEF Pend
    <3>3. CASE since' = since
      BY <1>2, <3>1, <3>2, <3>3 DEF DebtInv, Lacking
    <3>4. CASE since' = 0
      <4> DEFINE lacks == T * (Cap + Mtu - level)
      <4>1. lacks \in Int
        BY <1>1, <1>2, Z3 DEF TypeOK
      <4>2. Lacking = lacks - since * MaxRate /\ Lacking' = lacks - 0 * MaxRate
        BY <3>2, <3>4 DEF Lacking
      <4>3. Lacking' \in Int /\ Lacking <= Lacking'
        BY <1>1, <1>4, <4>1, <4>2, Z3
      <4>4. debt \in Nat
        BY <1>2 DEF TypeOK
      <4> QED
        BY <1>2, <1>4, <3>1, <3>2, <4>3, <4>4 DEF DebtInv
    <3> QED
      BY <3>2, <3>3, <3>4
  <2> QED
    BY <2>1, <2>2, <2>3 DEF Inv
<1>8. CASE UpdateXmitLevel
  <2> DEFINE gain == (since \div T) * rate
             top  == MaxLevelMs * rate
  <2>1. /\ spc = "update" /\ spc' = "check" /\ since' = 0 /\ kbps # 0
        /\ UNCHANGED <<tx, peak, kbps, first, wake, sleeps, debt>>
    BY <1>2, <1>8 DEF UpdateXmitLevel, SleepInv, Pending
  <2>2. level' = Min2(level + gain, top)
    BY <1>8 DEF UpdateXmitLevel, NewLevel
  <2>3. level \in Int /\ level > -Mtu /\ since \in Nat /\ debt \in Nat
    BY <1>2 DEF TypeOK
  <2>4. gain \in Nat /\ T * gain <= since * MaxRate
    BY <1>3, <2>3, GainFacts
  <2>5. top \in Nat /\ top >= 1 /\ top <= Cap
    <3>1. top <= Cap
      BY <1>1, <1>3, MulMono
    <3> QED
      BY <1>1, <1>3, <2>1, <3>1, Z3
  <2> HIDE DEF gain, top, rate, Cap
  <2>6. level' \in Int /\ level' <= level + gain /\ level' <= Cap
        /\ (level' = level + gain \/ level' >= 1)
    BY <1>1, <2>2, <2>3, <2>4, <2>5, Z3 DEF Min2
  <2>7. TypeOK'
    BY <1>1, <1>2, <2>1, <2>3, <2>4, <2>6 DEF TypeOK
  <2>8. SleepInv'
    <3>1. ASSUME sleeps = 1
          PROVE  level' > 0
      <4>1. since >= SleepMs * T
        BY <1>2, <2>1, <3>1 DEF SleepInv
      <4>2. rate \in Nat \ {0} /\ SleepMs = Mtu \div rate + 1
        BY <1>3, <2>1 DEF SleepMs, rate
      <4>3. SleepMs \in Nat /\ rate * SleepMs > Mtu
        BY <4>2, SleepFacts
      <4>4. since \div T >= SleepMs /\ since \div T \in Nat
        BY <1>1, <2>3, <4>1, <4>3, DivAtLeast, Div
      <4>5. rate * SleepMs <= rate * (since \div T)
        BY <4>2, <4>3, <4>4, MulMono
      <4>6. gain = rate * (since \div T)
        BY <4>2, <4>4, Z3 DEF gain
      <4>7. gain > Mtu
        <5>1. rate * SleepMs \in Int
          BY <4>2, <4>3, Z3
        <5> QED
          BY <1>1, <2>4, <4>3, <4>5, <4>6, <5>1
      <4> QED
        BY <1>1, <2>3, <2>4, <2>6, <4>7
    <3> QED
      BY <1>2, <2>1, <3>1 DEF SleepInv, Pending
  <2>9. DebtInv'
    <3>1. Uncovered' = 0 /\ Lacking' = T * (Cap + Mtu - level')
      BY <1>1, <2>1, <2>6, Z3 DEF Uncovered, Lacking, Cap
    <3>2. /\ T * Mtu <= T * (Cap + Mtu - level')
          /\ T * (Cap + Mtu - level) - since * MaxRate <= T * (Cap + Mtu - level')
      BY <1>1, <1>4, <2>3, <2>4, <2>6, UpdateCovers
    <3>4. Uncovered = T * Mtu /\ Lacking = T * (Cap + Mtu - level) - since * MaxRate
      BY <2>1 DEF Uncovered, Lacking, Cap
    <3>5. T * (Cap + Mtu - level') \in Int
      BY <1>1, <2>6, Z3
    <3> QED
      BY <1>2, <1>4, <2>1, <2>3, <3>1, <3>2, <3>4, <3>5 DEF DebtInv
  <2> QED
    BY <2>7, <2>8, <2>9 DEF Inv
<1>9. CASE Throttle
  <2>1. /\ spc = "check" /\ spc' = "asleep" /\ level <= 0 /\ sleeps' = Min2(sleeps + 1, 2)
        /\ wake' = since + SleepMs * T
        /\ UNCHANGED <<tx, peak, kbps, level, first, since, debt>>
    BY <1>9 DEF Throttle
  <2>2. sleeps = 0 /\ kbps # 0 /\ since \in Nat /\ level \in Int
    BY <1>2, <2>1 DEF SleepInv, Pending, TypeOK
  <2>3. SleepMs \in Nat
    BY <1>3, <2>2, SleepFacts DEF SleepMs
  <2>4. SleepMs * T \in Nat
    BY <1>1, <2>3, Z3
  <2>5. wake' \in Nat /\ wake' >= SleepMs * T
    BY <2>1, <2>2, <2>4
  <2>6. sleeps' = 1
    BY <2>1, <2>2 DEF Min2
  <2>7. TypeOK'
    BY <1>2, <2>1, <2>5, <2>6 DEF TypeOK
  <2>8. SleepInv'
    BY <2>1, <2>2, <2>5, <2>6 DEF SleepInv, Pending, SleepMs, BytesPerMs
  <2>9. DebtInv'
    <3>1. Lacking' = Lacking /\ Uncovered' = T * Mtu /\ Uncovered = 0
      BY <2>1 DEF Lacking, Uncovered
    <3>2. T * Mtu \in Nat
      BY <1>1, Z3
    <3>3. debt \in Nat
      BY <1>2 DEF TypeOK
    <3> QED
      BY <1>2, <1>4, <2>1, <3>1, <3>2, <3>3 DEF DebtInv
  <2> QED
    BY <2>7, <2>8, <2>9 DEF Inv
<1>10. CASE WakeUp
  <2>1. /\ spc = "asleep" /\ spc' = "update" /\ since >= wake
        /\ UNCHANGED <<tx, peak, kbps, level, first, since, wake, sleeps, debt>>
    BY <1>10 DEF WakeUp
  <2>2. TypeOK'
    BY <1>2, <2>1 DEF TypeOK
  <2>3. SleepInv'
    <3>1. since \in Nat /\ wake \in Nat /\ wake >= SleepMs * T /\ kbps # 0 /\ sleeps = 1
      BY <1>2, <2>1 DEF SleepInv, Pending, TypeOK
    <3>2. SleepMs \in Nat
      BY <1>3, <3>1, SleepFacts DEF SleepMs
    <3>3. SleepMs * T \in Nat
      BY <1>1, <3>2, Z3
    <3>4. since >= SleepMs * T
      BY <2>1, <3>1, <3>3
    <3> QED
      BY <2>1, <3>1, <3>4 DEF SleepInv, Pending, SleepMs, BytesPerMs
  <2>4. DebtInv'
    BY <1>2, <2>1 DEF DebtInv, Lacking, Uncovered
  <2> QED
    BY <2>2, <2>3, <2>4 DEF Inv
<1>11. CASE Send
  <2>1. /\ spc = "check" /\ spc' = "top" /\ level > 0
        /\ UNCHANGED <<tx, peak, kbps, first, since, wake, sleeps>>
    BY <1>11 DEF Send, MaySend
  <2>2. level \in Int /\ debt \in Nat
    BY <1>2 DEF TypeOK
  <2>3. Uncovered = 0 /\ Uncovered' = T * Mtu /\ Lacking \in Int
        /\ Lacking = T * (Cap + Mtu - level) - since * MaxRate
        /\ Lacking' = T * (Cap + Mtu - level') - since * MaxRate
    BY <1>4, <2>1 DEF Uncovered, Lacking
  <2>4. level' \in Int /\ level' > -Mtu /\ debt' \in Nat /\ DebtInv'
    <3>1. ASSUME NEW bytes \in 1..Mtu, level' = level - bytes, debt' = debt + bytes * T
          PROVE  level' \in Int /\ level' > -Mtu /\ debt' \in Nat /\ DebtInv'
      <4>1. bytes \in Int /\ bytes <= Mtu /\ bytes >= 1
        BY <1>1
      <4>2. bytes * T \in Nat
        BY <1>1, <4>1, Z3
      <4>3. level' \in Int /\ level' > -Mtu /\ debt' \in Nat
        BY <1>1, <2>1, <2>2, <3>1, <4>1, <4>2
      <4>4. bytes * T <= T * Mtu /\ Lacking + bytes * T = Lacking'
        BY <1>1, <1>4, <2>2, <2>3, <3>1, <4>1, SendCovers
      <4>5. debt <= 0 \/ debt <= Lacking
        BY <1>2, <2>3 DEF DebtInv
      <4>6. debt' <= T * Mtu \/ debt' <= Lacking'
        <5>1. T * Mtu \in Int
          BY <1>1, Z3
        <5> QED
          BY <2>2, <2>3, <3>1, <4>2, <4>4, <4>5, <5>1
      <4> QED
        BY <2>3, <4>3, <4>6 DEF DebtInv
    <3>2. ASSUME level' = level + 1, debt' = Max2(0, debt - T)
          PROVE  level' \in Int /\ level' > -Mtu /\ debt' \in Nat /\ DebtInv'
      <4>1. level' \in Int /\ level' > -Mtu /\ level' = level - (-1)
        BY <1>1, <2>1, <2>2, <3>2
      <4>2. debt' \in Nat /\ (debt' = 0 \/ debt' = debt - T)
        BY <1>1, <2>2, <3>2 DEF Max2
      <4>3. -1 \in Int /\ -1 <= Mtu
        BY <1>1
      <4>4. Lacking + (-1) * T = Lacking'
        BY <1>1, <1>4, <2>2, <2>3, <4>1, <4>3, SendCovers
      <4>5. Lacking' = Lacking - T
        BY <1>1, <2>3, <4>4, Z3
      <4>6. debt <= 0 \/ debt <= Lacking
        BY <1>2, <2>3 DEF DebtInv
      <4>7. T * Mtu \in Nat
        BY <1>1, Z3
      <4>8. debt' <= T * Mtu \/ debt' <= Lacking'
        BY <1>1, <2>2, <2>3, <4>2, <4>5, <4>6, <4>7
      <4> QED
        BY <2>3, <4>1, <4>2, <4>8 DEF DebtInv
    <3> QED
      BY <1>11, <3>1, <3>2 DEF Send
  <2>5. TypeOK'
    BY <1>2, <2>1, <2>4 DEF TypeOK
  <2>6. SleepInv'
    BY <1>2, <2>1 DEF SleepInv, Pending
  <2> QED
    BY <2>4, <2>5, <2>6 DEF Inv
<1>12. CASE LeaveLoop
  <2>1. /\ spc = "check" /\ spc' = "top"
        /\ UNCHANGED <<tx, peak, kbps, level, first, since, wake, sleeps, debt>>
    BY <1>12 DEF LeaveLoop
  <2>2. TypeOK' /\ SleepInv'
    BY <1>2, <2>1 DEF TypeOK, SleepInv, Pending
  <2>3. DebtInv'
    <3>1. Lacking' = Lacking /\ Uncovered' = T * Mtu /\ Uncovered = 0
      BY <2>1 DEF Lacking, Uncovered
    <3>2. T * Mtu \in Nat /\ debt \in Nat
      BY <1>1, <1>2, Z3 DEF TypeOK
    <3> QED
      BY <1>2, <1>4, <2>1, <3>1, <3>2 DEF DebtInv
  <2> QED
    BY <2>2, <2>3 DEF Inv
<1>13. CASE Tick
  <2>1. /\ since' = since + 1 /\ debt' = Max2(0, debt - MaxRate)
        /\ UNCHANGED <<tx, peak, kbps, level, first, spc, wake, sleeps>>
    BY <1>13 DEF Tick
  <2>2. since \in Nat /\ debt \in Nat /\ level \in Int
    BY <1>2 DEF TypeOK
  <2>3. since' \in Nat /\ since' >= since /\ debt' \in Nat
        /\ (debt' = 0 \/ debt' = debt - MaxRate)
    BY <1>1, <2>1, <2>2 DEF Max2
  <2>4. TypeOK'
    BY <1>2, <2>1, <2>3 DEF TypeOK
  <2>5. SleepInv'
    <3>1. kbps # 0 => SleepMs * T \in Nat
      <4>1. kbps # 0 => SleepMs \in Nat
        BY <1>3, SleepFacts DEF SleepMs
      <4> QED
        BY <1>1, <4>1, Z3
    <3>2. SleepMs' = SleepMs
      BY <2>1 DEF SleepMs, BytesPerMs
    <3> QED
      BY <1>2, <2>1, <2>2, <2>3, <3>1, <3>2 DEF SleepInv, Pending
  <2>6. DebtInv'
    <3>1. since' * MaxRate = since * MaxRate + MaxRate
      BY <1>1, <2>1, <2>2, Z3
    <3>2. Uncovered' = Uncovered
      BY <2>1 DEF Uncovered
    <3>3. T * (Cap + Mtu - level) \in Int
      BY <1>1, <2>2, Z3
    <3>4. Lacking' = Lacking - MaxRate
      BY <1>1, <1>4, <2>1, <3>1, <3>3 DEF Lacking
    <3> QED
      BY <1>1, <1>2, <1>4, <2>2, <2>3, <3>2, <3>4 DEF DebtInv
  <2> QED
    BY <2>4, <2>5, <2>6 DEF Inv
<1> QED
  BY <1>5, <1>6, <1>7, <1>8, <1>9, <1>10, <1>11, <1>12, <1>13 DEF Next, Thread

-----------------------------------------------------------------------------
\* The variables keep their types, and the packet that overdraws the level leaves more than
\* -Mtu of it: transmit_level of video_send_thread.
THEOREM Typing == Spec => []TypeOK
<1>1. Inv => TypeOK
  BY DEF Inv
<1> QED
  BY <1>1, InitInv, NextInv, PTL DEF Spec

\* For every packet size and all rates of at least 8 kbps the sleep of video_send_thread is long
\* enough, whatever the rounding of the clock and of the division loses.
THEOREM SleepsOnce == Spec => []OneSleepIsEnough
<1>1. Inv => OneSleepIsEnough
  BY DEF Inv, TypeOK, SleepInv, OneSleepIsEnough
<1> QED
  BY <1>1, InitInv, NextInv, PTL DEF Spec

\* The burst that MAX_XMIT_LEVEL_IN_MS allows, for every limit, packet size and set of rates
\* and however they change.
THEOREM BurstIsBounded == Spec => []RateBound
<1>1. Inv => RateBound
  <2> SUFFICES ASSUME Inv PROVE RateBound
    OBVIOUS
  <2> DEFINE cap == MaxLevelMs * MaxRate
  <2>1. Mtu \in Nat \ {0} /\ TicksPerMs \in Nat /\ MaxRate \in Nat /\ cap \in Nat
    BY PacingAssumption, Z3
  <2>2. level \in Int /\ -level <= Mtu - 1 /\ since \in Nat /\ debt \in Nat
    BY <2>1 DEF Inv, TypeOK
  <2>3. since * MaxRate \in Nat /\ TicksPerMs * (cap + Mtu - level) \in Int
        /\ TicksPerMs * Mtu \in Int /\ TicksPerMs * (cap + 2 * Mtu - 1) \in Int
    BY <2>1, <2>2, Z3
  <2>4. TicksPerMs * Mtu <= TicksPerMs * (cap + 2 * Mtu - 1)
    BY <2>1, MulMono
  <2>5. TicksPerMs * (cap + Mtu - level) <= TicksPerMs * (cap + 2 * Mtu - 1)
    BY <2>1, <2>2, MulMono
  <2>6. 0 <= TicksPerMs * (cap + 2 * Mtu - 1)
    BY <2>1, Z3
  <2> QED
    BY <2>2, <2>3, <2>4, <2>5, <2>6
       DEF Inv, DebtInv, Uncovered, Lacking, RateBound
<1> QED
  BY <1>1, InitInv, NextInv, PTL DEF Spec
=============================================================================
