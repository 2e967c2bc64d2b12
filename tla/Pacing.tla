------------------------------- MODULE Pacing -------------------------------
(***************************************************************************)
(* The flow control of the video send thread: a leaky bucket that lets     *)
(* packets out at peak_kbps, which the application and the adaptive        *)
(* bitrate thread may change at any time.                                  *)
(*                                                                         *)
(* Time passes in ticks, TicksPerMs to a millisecond, while the thread     *)
(* waits, sleeps, is blocked in sendto or does not run: the clock is read  *)
(* exactly, but the thread only counts whole milliseconds and forgets the  *)
(* rest.  The clock is taken to be monotonic.  What a packet is and where  *)
(* it comes from is the subject of NackRing and VideoPath; here it is its  *)
(* size.                                                                   *)
(***************************************************************************)
EXTENDS Integers

CONSTANTS
    Mtu,            \* MAX_MTU
    MaxLevelMs,     \* MAX_XMIT_LEVEL_IN_MS
    Rates,          \* the values of peak_kbps
    MaxRate,        \* the bytes per millisecond of the largest of them
    TicksPerMs,
    MaxIdle         \* bound of the model: ticks the thread does nothing

\* bytes_per_ms, in integers as the code computes it
BytesPerMs(kbps) == ((kbps * 1000) \div 8) \div 1000

\* A rate of 1 to 7 kbps would be 0 bytes per millisecond, by which the thread divides.
ASSUME PacingAssumption ==
    /\ Mtu \in Nat \ {0} /\ MaxLevelMs \in Nat \ {0} /\ TicksPerMs \in Nat \ {0}
    /\ MaxRate \in Nat /\ MaxIdle \in Nat
    /\ Rates \subseteq Nat
    /\ \A k \in Rates : BytesPerMs(k) <= MaxRate /\ (k # 0 => BytesPerMs(k) >= 1)

VARIABLES
    tx,             \* FTL_TX_THRD
    peak,           \* video->peak_kbps
    kbps,           \* video->kbps, which the thread follows it with
    level,          \* transmit_level
    first,          \* first_packet
    spc,            \* where the thread is
    since,          \* ticks since start_tv
    wake,           \* the tick of its sleep's end
    sleeps,         \* how often it slept for this packet, 2: at least twice
    debt            \* history: see RateBound

vars == <<tx, peak, kbps, level, first, spc, since, wake, sleeps, debt>>

Max2(a, b) == IF a > b THEN a ELSE b
Min2(a, b) == IF a < b THEN a ELSE b

Init ==
    /\ tx = TRUE
    /\ peak \in Rates /\ kbps = peak
    /\ level = ((5 * peak * 1000) \div 8) \div 1000
    /\ first = TRUE /\ spc = "top"
    /\ since = 0 /\ wake = 0 /\ sleeps = 0
    /\ debt = 0

-----------------------------------------------------------------------------
(* video_send_thread *)

\* The rate of the next packet.
FollowPeak ==
    /\ spc = "top"
    /\ kbps' = peak
    /\ spc' = "pend"
    /\ UNCHANGED <<tx, peak, level, first, since, wake, sleeps, debt>>

\* Mutant: the thread that wakes does not look whether it is to stop.
Pend_SendsOn ==
    /\ spc = "pend"
    /\ spc' = IF kbps = 0 THEN "unpaced" ELSE "update"
    /\ IF kbps # 0 /\ first
         THEN first' = FALSE /\ since' = 0
         ELSE UNCHANGED <<first, since>>
    /\ sleeps' = 0
    /\ UNCHANGED <<tx, peak, kbps, level, wake, debt>>

\* A packet is ready, or media_destroy has posted the semaphore.
Pend ==
    /\ spc = "pend"
    /\ spc' = IF ~tx THEN "exited" ELSE IF kbps = 0 THEN "unpaced" ELSE "update"
    /\ IF tx /\ kbps # 0 /\ first
         THEN first' = FALSE /\ since' = 0
         ELSE UNCHANGED <<first, since>>
    /\ sleeps' = 0
    /\ UNCHANGED <<tx, peak, kbps, level, wake, debt>>

\* A rate of 0 bypasses the bucket.
SendUnpaced ==
    /\ spc = "unpaced"
    /\ spc' = "top"
    /\ UNCHANGED <<tx, peak, kbps, level, first, since, wake, sleeps, debt>>

\* Mutant: the level is not limited.
NewLevel_NoCap == level + (since \div TicksPerMs) * BytesPerMs(kbps)

NewLevel ==
    Min2(level + (since \div TicksPerMs) * BytesPerMs(kbps), MaxLevelMs * BytesPerMs(kbps))

\* _update_xmit_level
UpdateXmitLevel ==
    /\ spc = "update"
    /\ level' = NewLevel
    /\ since' = 0
    /\ spc' = "check"
    /\ UNCHANGED <<tx, peak, kbps, first, wake, sleeps, debt>>

\* Mutant: the sleep is rounded down.
SleepMs_NoPlusOne == Mtu \div BytesPerMs(kbps)

SleepMs == Mtu \div BytesPerMs(kbps) + 1

\* The flag is looked at before each turn of the loop, but not between a sleep and the packet.
MaySend == level > 0 /\ (tx \/ sleeps > 0)

Throttle ==
    /\ spc = "check" /\ tx /\ level <= 0
    /\ wake' = since + SleepMs * TicksPerMs
    /\ sleeps' = Min2(sleeps + 1, 2)
    /\ spc' = "asleep"
    /\ UNCHANGED <<tx, peak, kbps, level, first, since, debt>>

WakeUp ==
    /\ spc = "asleep" /\ since >= wake
    /\ spc' = "update"
    /\ UNCHANGED <<tx, peak, kbps, level, first, since, wake, sleeps, debt>>

\* Mutant: the level is charged twice.
Send_Twice ==
    /\ spc = "check" /\ MaySend
    /\ \E bytes \in 1..Mtu : /\ level' = level - 2 * bytes
                             /\ debt' = debt + bytes * TicksPerMs
    /\ spc' = "top"
    /\ UNCHANGED <<tx, peak, kbps, first, since, wake, sleeps>>

\* _media_send_packet returns the bytes of the packet, or -1, of which the level takes no
\* notice: a packet that sendto refuses raises it by one.
Send ==
    /\ spc = "check" /\ MaySend
    /\ \/ \E bytes \in 1..Mtu : /\ level' = level - bytes
                                /\ debt' = debt + bytes * TicksPerMs
       \/ /\ level' = level + 1
          /\ debt' = Max2(0, debt - TicksPerMs)
    /\ spc' = "top"
    /\ UNCHANGED <<tx, peak, kbps, first, since, wake, sleeps>>

\* The thread that is told to stop does not send the packet it holds, unless it slept for it.
LeaveLoop ==
    /\ spc = "check" /\ ~tx /\ ~MaySend
    /\ spc' = "top"
    /\ UNCHANGED <<tx, peak, kbps, level, first, since, wake, sleeps, debt>>

Thread ==
    \/ FollowPeak \/ SendUnpaced \/ UpdateXmitLevel
    \/ Throttle \/ WakeUp \/ Send \/ LeaveLoop

-----------------------------------------------------------------------------
\* ftl_ingest_update_params, and the adaptive bitrate thread.
SetPeak(k) ==
    /\ peak' = k
    /\ UNCHANGED <<tx, kbps, level, first, spc, since, wake, sleeps, debt>>

\* media_destroy
Stop ==
    /\ tx
    /\ tx' = FALSE
    /\ UNCHANGED <<peak, kbps, level, first, spc, since, wake, sleeps, debt>>

Tick ==
    /\ spc # "exited"
    /\ since < MaxIdle \/ (spc = "asleep" /\ since < wake)
    /\ since' = since + 1
    /\ debt' = Max2(0, debt - MaxRate)
    /\ UNCHANGED <<tx, peak, kbps, level, first, spc, wake, sleeps>>

Next == Thread \/ Pend \/ (\E k \in Rates : SetPeak(k)) \/ Stop \/ Tick

Spec == Init /\ [][Next]_vars

\* The thread runs, time passes, and the semaphore a stopped thread waits for was posted.
FairSpec == Spec /\ WF_vars(Thread) /\ WF_vars(Tick) /\ WF_vars(Pend /\ ~tx)

-----------------------------------------------------------------------------
(* Properties *)

TypeOK ==
    /\ tx \in BOOLEAN
    /\ peak \in Rates /\ kbps \in Rates
    /\ level \in Int /\ level > -Mtu
    /\ first \in BOOLEAN
    /\ spc \in {"top", "pend", "unpaced", "update", "check", "asleep", "exited"}
    /\ since \in Nat /\ wake \in Nat /\ sleeps \in 0..2 /\ debt \in Nat

\* One sleep is enough for every packet, although the thread forgets parts of milliseconds,
\* the last packet may have overdrawn the level by almost its whole size and the rate may have
\* changed: no packet waits twice.
OneSleepIsEnough == sleeps <= 1

\* "allows a maximum burst size of 100ms at the target bitrate" (ftl_private.h:72).  debt is
\* the greatest excess, over all the intervals that end now, of the bytes sent in the interval
\* above those the rate allows for its length (in bytes times TicksPerMs; a refused packet
\* counts -1, one sent at a rate of 0, which bypasses the bucket, counts nothing): in no interval does the thread send more than the rate allows, a burst of
\* MAX_XMIT_LEVEL_IN_MS and two packets more.
RateBound == debt <= TicksPerMs * (MaxLevelMs * MaxRate + 2 * Mtu - 1)

\* media_destroy, which joins the thread, does not wait for ever.
ThreadExits == ~tx ~> (spc = "exited")
=============================================================================
