--------------------------- MODULE BitrateControl ---------------------------
(***************************************************************************)
(* adaptive_bitrate_thread: once in STREAM_STATS_CAPTURE_MS it records a   *)
(* sample of the stream's statistics; when it has a full window of them it *)
(* lowers or raises the encoder's bitrate through the application's        *)
(* callback, or reports that the bitrate is stable.                        *)
(*                                                                         *)
(* The statistics are abstracted to the verdict the thread reaches on the  *)
(* window: is_bitrate_reduction_required ("constrained"), is_bw_stable     *)
(* ("stable"), or neither.  Time passes in its sleeps, in units of         *)
(* STREAM_STATS_CAPTURE_MS.  An age that only matters up to a limit stops  *)
(* there.  Where the program names a freeze of BITRATE_UPGRADE_FREEZE_TIME_MS   *)
(* it uses 180000 ms: Freeze is that number.                              *)
(***************************************************************************)
EXTENDS Integers

CONSTANTS
    MinRate, MaxRate, InitialRate,  \* as passed to ftl_adaptive_bitrate_thread
    UpgradeStep,    \* BW_IDEAL_BITRATE_UPGRADE_BPS
    StatSize,       \* MAX_STAT_SIZE
    Cooldown,       \* BITRATE_CHANGED_COOLDOWN_INTERVAL_MS
    Excessive,      \* MAX_MS_TO_DEEM_UPGRADE_EXCESSIVE
    Freeze,         \* 180000
    MayRefuse       \* whether the application's callback may return 0

ASSUME BitrateAssumption ==
    /\ MinRate \in Nat \ {0} /\ MaxRate \in Nat /\ InitialRate \in MinRate..MaxRate
    /\ UpgradeStep \in Nat \ {0} /\ StatSize \in Nat \ {0}
    /\ Cooldown \in Nat /\ Excessive \in Nat /\ Freeze \in Nat
    /\ MayRefuse \in BOOLEAN

Verdicts == {"constrained", "stable", "neither"}
Reports  == {"none", "decreased", "reverted", "increased", "stabilized"}

VARIABLES
    flag,           \* FTL_BITRATE_THRD
    pc,
    rate,           \* current_encoding_bitrate
    pos, full,      \* current_position_of_circular_buffer, circular_buffer_is_full
    revertFirst,    \* attempt_to_revert_to_stable_bandwidth_first
    checkStable,    \* check_bitrate_for_stability
    upgradeAge,     \* time since last_bitrate_upgrade_time
    freezeAge,      \* time since bw_upgrade_freeze_start_time
    verdict,        \* on the window that ends with the latest sample
    accepts,        \* what the callback answers next
    report,         \* the message the latest decision enqueued
    samples,        \* samples recorded since the bitrate last changed
    revertAge       \* time since the latest revert

bufferVars == <<pos, full>>
ageVars    == <<upgradeAge, freezeAge, revertAge>>
envVars    == <<verdict, accepts>>
vars == <<flag, pc, rate, bufferVars, revertFirst, checkStable, ageVars, envVars, report,
          samples>>

\* The last upgrade is initially now, the last freeze in 1970.
Init ==
    /\ flag = TRUE
    /\ pc = "record"
    /\ rate = InitialRate
    /\ pos = 0 /\ full = FALSE
    /\ revertFirst = FALSE /\ checkStable = FALSE
    /\ upgradeAge = 0 /\ freezeAge = Freeze + 1
    /\ verdict = "neither" /\ accepts = TRUE
    /\ report = "none"
    /\ samples = 0 /\ revertAge = Freeze + 1

Smaller(a, b) == IF a < b THEN a ELSE b

Clamp(r) == IF r > MaxRate THEN MaxRate ELSE IF r < MinRate THEN MinRate ELSE r

\* Mutant: the lower limit is forgotten.
Recommended_NoMinimum(reason) ==
    Smaller(MaxRate, CASE reason = "constrained" -> (50 * rate) \div 100
                       [] reason = "available" -> rate + UpgradeStep
                       [] reason = "excessive" -> (80 * rate) \div 100)

\* Mutant: a constrained bitrate is raised.
Recommended_Upside(reason) ==
    Clamp(CASE reason = "constrained" -> rate + UpgradeStep
            [] reason = "available" -> (50 * rate) \div 100
            [] reason = "excessive" -> (80 * rate) \div 100)

\* compute_recommended_bitrate.
Recommended(reason) ==
    Clamp(CASE reason = "constrained" -> (50 * rate) \div 100
            [] reason = "available" -> rate + UpgradeStep
            [] reason = "excessive" -> (80 * rate) \div 100)

-----------------------------------------------------------------------------
\* One sample.  What the network is like, and what the application will say, is open.
Record ==
    /\ pc = "record" /\ flag
    /\ pos' = (pos + 1) % StatSize
    /\ full' = (full \/ pos + 1 >= StatSize)
    /\ samples' = Smaller(samples + 1, StatSize)
    /\ pc' = IF full' THEN "decide" ELSE "sleep"
    /\ verdict' \in Verdicts
    /\ accepts' \in (IF MayRefuse THEN BOOLEAN ELSE {TRUE})
    /\ report' = "none"
    /\ UNCHANGED <<flag, rate, revertFirst, checkStable, ageVars>>

\* The callback accepted rate r: it is reported and the window starts again.
Change(r, what) ==
    /\ rate' = r
    /\ report' = what
    /\ samples' = 0
    /\ pc' = "cooldown"

\* The bitrate stays; if it was to be watched for stability, it is now reported stable.
Stay ==
    /\ report' = IF checkStable THEN "stabilized" ELSE "none"
    /\ checkStable' = FALSE
    /\ pc' = "sleep"
    /\ UNCHANGED <<rate, samples>>

\* "our bitrate upgrade was excessive".
WasExcessive == revertFirst /\ upgradeAge < Excessive

\* Mutant: the start of the freeze is not recorded.
Revert_NoFreeze ==
    /\ pc = "decide" /\ verdict = "constrained" /\ WasExcessive
    /\ IF accepts
         THEN /\ Change(Recommended("excessive"), "reverted")
              /\ checkStable' = TRUE
              /\ revertFirst' = FALSE
              /\ revertAge' = 0
         ELSE Stay /\ UNCHANGED <<revertFirst, revertAge>>
    /\ UNCHANGED <<flag, bufferVars, upgradeAge, freezeAge, envVars>>

Revert ==
    /\ pc = "decide" /\ verdict = "constrained" /\ WasExcessive
    /\ IF accepts
         THEN /\ Change(Recommended("excessive"), "reverted")
              /\ checkStable' = TRUE
              /\ revertFirst' = FALSE
              /\ freezeAge' = 0 /\ revertAge' = 0
         ELSE Stay /\ UNCHANGED <<revertFirst, freezeAge, revertAge>>
    /\ UNCHANGED <<flag, bufferVars, upgradeAge, envVars>>

\* A bitrate that has to be lowered is not stable, even if the callback refuses.
Downgrade ==
    /\ pc = "decide" /\ verdict = "constrained" /\ ~WasExcessive
    /\ checkStable' = FALSE
    /\ IF accepts
         THEN Change(Recommended("constrained"), "decreased")
         ELSE report' = "none" /\ pc' = "sleep" /\ UNCHANGED <<rate, samples>>
    /\ UNCHANGED <<flag, bufferVars, revertFirst, ageVars, envVars>>

CanUpgrade ==
    verdict = "stable" /\ freezeAge > Freeze /\ Recommended("available") # rate

\* Mutant: a bitrate that is back at its maximum is not watched.
Upgrade_NotWatched ==
    /\ pc = "decide" /\ CanUpgrade
    /\ revertFirst' = TRUE
    /\ IF accepts
         THEN /\ Change(Recommended("available"), "increased")
              /\ UNCHANGED checkStable
              /\ upgradeAge' = 0
         ELSE Stay /\ UNCHANGED upgradeAge
    /\ UNCHANGED <<flag, bufferVars, freezeAge, revertAge, envVars>>

\* The flag for a revert is set before the application is asked.
Upgrade ==
    /\ pc = "decide" /\ CanUpgrade
    /\ revertFirst' = TRUE
    /\ IF accepts
         THEN /\ Change(Recommended("available"), "increased")
              /\ checkStable' = (checkStable \/ rate' = MaxRate)
              /\ upgradeAge' = 0
         ELSE Stay /\ UNCHANGED upgradeAge
    /\ UNCHANGED <<flag, bufferVars, freezeAge, revertAge, envVars>>

Hold ==
    /\ pc = "decide" /\ verdict # "constrained" /\ ~CanUpgrade
    /\ Stay
    /\ UNCHANGED <<flag, bufferVars, revertFirst, ageVars, envVars>>

Elapse(n) ==
    /\ upgradeAge' = Smaller(upgradeAge + n, Excessive)
    /\ freezeAge' = Smaller(freezeAge + n, Freeze + 1)
    /\ revertAge' = Smaller(revertAge + n, Freeze + 1)

\* Mutant: the window is not started again after a change.
CoolDown_KeepsWindow ==
    /\ pc = "cooldown"
    /\ UNCHANGED bufferVars
    /\ Elapse(Cooldown)
    /\ pc' = IF flag THEN "sleep" ELSE "ended"
    /\ UNCHANGED <<flag, rate, revertFirst, checkStable, envVars, report, samples>>

CoolDown ==
    /\ pc = "cooldown"
    /\ pos' = 0 /\ full' = FALSE
    /\ Elapse(Cooldown)
    /\ pc' = IF flag THEN "sleep" ELSE "ended"
    /\ UNCHANGED <<flag, rate, revertFirst, checkStable, envVars, report, samples>>

Sleep ==
    /\ pc = "sleep"
    /\ Elapse(1)
    /\ pc' = IF flag THEN "record" ELSE "ended"
    /\ UNCHANGED <<flag, rate, bufferVars, revertFirst, checkStable, envVars, report, samples>>

\* The loop begins with a look at the flag.
Leave ==
    /\ pc = "record" /\ ~flag
    /\ pc' = "ended"
    /\ UNCHANGED <<flag, rate, bufferVars, revertFirst, checkStable, ageVars, envVars, report,
                   samples>>

\* _ingest_disconnect.
Stop ==
    /\ flag' = FALSE
    /\ UNCHANGED <<pc, rate, bufferVars, revertFirst, checkStable, ageVars, envVars, report,
                   samples>>

Thread == Record \/ Revert \/ Downgrade \/ Upgrade \/ Hold \/ CoolDown \/ Sleep \/ Leave

Next == Thread \/ Stop

Spec == Init /\ [][Next]_vars

FairSpec == Spec /\ WF_vars(Thread)

-----------------------------------------------------------------------------
(* Properties *)

TypeOK ==
    /\ flag \in BOOLEAN
    /\ pc \in {"record", "decide", "cooldown", "sleep", "ended"}
    /\ rate \in MinRate..MaxRate
    /\ pos \in 0..(StatSize - 1) /\ full \in BOOLEAN
    /\ revertFirst \in BOOLEAN /\ checkStable \in BOOLEAN
    /\ upgradeAge \in 0..Excessive
    /\ freezeAge \in 0..(Freeze + 1) /\ revertAge \in 0..(Freeze + 1)
    /\ verdict \in Verdicts /\ accepts \in BOOLEAN
    /\ report \in Reports
    /\ samples \in 0..StatSize

\* A bitrate is never judged on samples taken under another bitrate: each change comes
\* after a whole window under the present one.
FullWindow == [][rate' # rate => samples = StatSize]_rate

\* After a revert the bitrate is not raised until the freeze is over, however often it is
\* lowered and changed in between.
FrozenAfterRevert ==
    [][report' = "increased" /\ report # "increased" => revertAge > Freeze]_vars

\* When the network settles and the application agrees, the bitrate does, too, after whatever
\* reverts, refusals and freezes came before: on a stable network it comes back to the maximum,
\* on a constrained one it goes down to the minimum and stays.
Converges ==
    /\ <>[](flag /\ verdict = "stable" /\ accepts) => <>(rate = MaxRate)
    /\ <>[](flag /\ verdict = "constrained" /\ accepts) => <>[](rate = MinRate)

\* A bitrate raised to the maximum is reported stable, unless the network becomes
\* constrained or the thread is stopped first.
StableIsReported ==
    (report = "increased" /\ rate = MaxRate)
        ~> (report = "stabilized" \/ verdict = "constrained" \/ ~flag)

=============================================================================
