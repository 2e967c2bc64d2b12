----------------------- MODULE BitrateControl_proofs -----------------------
(***************************************************************************)
(* The adaptive bitrate thread, proved for every range of bitrates, every  *)
(* length of the window and every cooldown and freeze.                     *)
(***************************************************************************)
EXTENDS BitrateControl, TLAPS

\* compute_recommended_bitrate stays within the limits it was given.
LEMMA ClampFacts ==
    ASSUME NEW r \in Int
    PROVE  Clamp(r) \in MinRate..MaxRate
  BY BitrateAssumption DEF Clamp

LEMMA RecommendedFacts ==
    ASSUME rate \in MinRate..MaxRate, NEW reason \in {"constrained", "available", "excessive"}
    PROVE  Recommended(reason) \in MinRate..MaxRate
<1>1. rate \in Int /\ UpgradeStep \in Int
  BY BitrateAssumption
<1>2. (50 * rate) \div 100 \in Int /\ rate + UpgradeStep \in Int /\ (80 * rate) \div 100 \in Int
  BY <1>1, Z3
<1>3. CASE reason = "constrained"
  BY <1>2, <1>3, ClampFacts DEF Recommended
<1>4. CASE reason = "available"
  BY <1>2, <1>4, ClampFacts DEF Recommended
<1>5. CASE reason = "excessive"
  BY <1>2, <1>5, ClampFacts DEF Recommended
<1> QED
  BY <1>3, <1>4, <1>5

\* The position in the circular buffer.
LEMMA ModFacts ==
    ASSUME NEW p \in 0..(StatSize - 1)
    PROVE  /\ (p + 1) % StatSize \in 0..(StatSize - 1)
           /\ p + 1 < StatSize => (p + 1) % StatSize = p + 1
  BY BitrateAssumption, Z3

-----------------------------------------------------------------------------
(* The inductive invariant *)

\* The window holds the samples of the present bitrate: all of them until it is full, and it
\* is looked at only then.  Between a change and the end of its cooldown it is out of date.
WindowInv ==
    /\ pc = "cooldown" => samples = 0
    /\ pc = "decide" => full
    /\ pc # "cooldown" => samples = IF full THEN StatSize ELSE pos

\* The freeze is measured from the latest revert.
FreezeInv == freezeAge = revertAge

Inv == TypeOK /\ WindowInv /\ FreezeInv

\* The thread starts with an empty window.
LEMMA InitInv == Init => Inv
<1> SUFFICES ASSUME Init PROVE Inv
  OBVIOUS
<1>5. /\ flag \in BOOLEAN /\ full \in BOOLEAN /\ revertFirst \in BOOLEAN
      /\ checkStable \in BOOLEAN /\ accepts \in BOOLEAN
  BY Zenon DEF Init
<1>6. /\ pc = "record" /\ rate = InitialRate /\ pos = 0 /\ samples = 0 /\ upgradeAge = 0
      /\ freezeAge = Freeze + 1 /\ revertAge = Freeze + 1
      /\ verdict \in Verdicts /\ report \in Reports
  BY DEF Init, Verdicts, Reports
<1>1. TypeOK
  BY <1>5, <1>6, BitrateAssumption DEF TypeOK
<1>2. full = FALSE /\ pos = 0 /\ samples = 0 /\ pc = "record"
  BY DEF Init
<1>3. WindowInv
  BY <1>2 DEF WindowInv
<1>4. FreezeInv
  BY DEF Init, FreezeInv
<1> QED
  BY <1>1, <1>3, <1>4 DEF Inv

\* Each step of the thread, and its stop, preserves it.
LEMMA NextInv == Inv /\ [Next]_vars => Inv'
<1> SUFFICES ASSUME Inv, [Next]_vars PROVE Inv'
  OBVIOUS
<1>1. TypeOK /\ WindowInv /\ FreezeInv
  BY DEF Inv
<1>2. /\ StatSize \in Nat \ {0} /\ Cooldown \in Nat /\ Excessive \in Nat /\ Freeze \in Nat
  BY BitrateAssumption
<1>3. ASSUME NEW n \in Nat, Elapse(n)
      PROVE  /\ upgradeAge' \in 0..Excessive
             /\ freezeAge' \in 0..(Freeze + 1) /\ revertAge' \in 0..(Freeze + 1)
             /\ FreezeInv'
  BY <1>1, <1>2, <1>3 DEF Elapse, Smaller, TypeOK, FreezeInv
<1>4. CASE UNCHANGED vars
  BY <1>1, <1>4 DEF vars, bufferVars, ageVars, envVars, Inv, TypeOK, WindowInv, FreezeInv
<1>5. CASE Record
  <2>1. /\ pc = "record"
        /\ UNCHANGED <<flag, rate, revertFirst, checkStable, upgradeAge, freezeAge, revertAge>>
    BY <1>5 DEF Record, ageVars
  <2>2. pos \in 0..(StatSize - 1) /\ full \in BOOLEAN /\ samples \in 0..StatSize
        /\ samples = IF full THEN StatSize ELSE pos
    BY <1>1, <2>1 DEF TypeOK, WindowInv
  <2>3. /\ pos' \in 0..(StatSize - 1)
        /\ pos + 1 < StatSize => pos' = pos + 1
    BY <1>5, <2>2, ModFacts DEF Record
  <2>4. full' \in BOOLEAN /\ (full' <=> full \/ pos + 1 >= StatSize)
    BY <1>5, Zenon DEF Record
  <2>5. samples' \in 0..StatSize /\ samples' = Smaller(samples + 1, StatSize)
    BY <1>2, <1>5, <2>2 DEF Record, Smaller
  <2>6. /\ pc' = IF full' THEN "decide" ELSE "sleep"
        /\ verdict' \in Verdicts /\ accepts' \in BOOLEAN /\ report' = "none"
    <3>1. pc' = IF full' THEN "decide" ELSE "sleep"
      BY <1>5 DEF Record
    <3>2. verdict' \in Verdicts /\ report' = "none"
      BY <1>5 DEF Record
    <3>3. accepts' \in BOOLEAN
      BY <1>5, Zenon DEF Record
    <3> QED
      BY <3>1, <3>2, <3>3
  <2>7. pc' \in {"decide", "sleep"} /\ (pc' = "decide" => full')
    BY <2>6
  <2>8. TypeOK'
    BY <1>1, <2>1, <2>3, <2>4, <2>5, <2>6, <2>7 DEF TypeOK, Reports
  <2>9. samples' = IF full' THEN StatSize ELSE pos'
    BY <1>2, <2>2, <2>3, <2>4, <2>5 DEF Smaller
  <2>10. WindowInv' /\ FreezeInv'
    BY <1>1, <2>1, <2>7, <2>9 DEF WindowInv, FreezeInv
  <2> QED
    BY <2>8, <2>10 DEF Inv
<1>6. ASSUME NEW reason \in {"constrained", "available", "excessive"}, NEW what \in Reports,
             pc = "decide", Change(Recommended(reason), what)
      PROVE  /\ rate' \in MinRate..MaxRate /\ report' \in Reports /\ samples' = 0
             /\ pc' = "cooldown"
  BY <1>1, <1>6, RecommendedFacts DEF Change, TypeOK
<1>7. ASSUME pc = "decide", Stay
      PROVE  /\ UNCHANGED <<rate, samples>> /\ report' \in Reports
             /\ checkStable' \in BOOLEAN /\ pc' = "sleep"
  BY <1>7 DEF Stay, Reports
<1>8. CASE Revert
  <2>1. pc = "decide" /\ UNCHANGED <<flag, pos, full, upgradeAge, verdict, accepts>>
    BY <1>8 DEF Revert, bufferVars, envVars
  <2>2. CASE accepts
    <3>1. /\ Change(Recommended("excessive"), "reverted")
          /\ checkStable' = TRUE /\ revertFirst' = FALSE /\ freezeAge' = 0 /\ revertAge' = 0
      BY <1>8, <2>2 DEF Revert
    <3>2. rate' \in MinRate..MaxRate /\ report' \in Reports /\ samples' = 0 /\ pc' = "cooldown"
      BY <1>6, <2>1, <3>1 DEF Reports
    <3>3. checkStable' \in BOOLEAN /\ revertFirst' \in BOOLEAN
      BY <3>1, Zenon
    <3>4. freezeAge' = 0 /\ revertAge' = 0
      BY <3>1
    <3>5. TypeOK'
      BY <1>1, <1>2, <2>1, <3>2, <3>3, <3>4 DEF TypeOK
    <3>6. WindowInv' /\ FreezeInv'
      BY <3>2, <3>4 DEF WindowInv, FreezeInv
    <3> QED
      BY <3>5, <3>6 DEF Inv
  <2>3. CASE ~accepts
    <3>1. Stay /\ UNCHANGED <<revertFirst, freezeAge, revertAge>>
      BY <1>8, <2>3 DEF Revert
    <3> QED
      BY <1>1, <1>7, <2>1, <3>1 DEF Inv, TypeOK, WindowInv, FreezeInv
  <2> QED
    BY <2>2, <2>3
<1>9. CASE Downgrade
  <2>0. checkStable' \in BOOLEAN
    BY <1>9, Zenon DEF Downgrade
  <2>1. /\ pc = "decide"
        /\ UNCHANGED <<flag, pos, full, revertFirst, upgradeAge, freezeAge, revertAge, verdict,
                       accepts>>
    BY <1>9 DEF Downgrade, bufferVars, ageVars, envVars
  <2>2. CASE accepts
    <3>1. Change(Recommended("constrained"), "decreased")
      BY <1>9, <2>2 DEF Downgrade
    <3>2. rate' \in MinRate..MaxRate /\ report' \in Reports /\ samples' = 0 /\ pc' = "cooldown"
      BY <1>6, <2>1, <3>1 DEF Reports
    <3>3. TypeOK'
      BY <1>1, <1>2, <2>0, <2>1, <3>2, SMTT(30) DEF TypeOK
    <3>4. WindowInv' /\ FreezeInv'
      BY <1>1, <2>1, <3>2 DEF WindowInv, FreezeInv
    <3> QED
      BY <3>3, <3>4 DEF Inv
  <2>3. CASE ~accepts
    <3>1. report' = "none" /\ pc' = "sleep" /\ UNCHANGED <<rate, samples>>
      BY <1>9, <2>3 DEF Downgrade
    <3> QED
      BY <1>1, <2>0, <2>1, <3>1 DEF Inv, TypeOK, WindowInv, FreezeInv, Reports
  <2> QED
    BY <2>2, <2>3
<1>10. CASE Upgrade
  <2>1. /\ pc = "decide" /\ revertFirst' = TRUE
        /\ UNCHANGED <<flag, pos, full, freezeAge, revertAge, verdict, accepts>>
    BY <1>10 DEF Upgrade, bufferVars, envVars
  <2>2. CASE accepts
    <3>1. Change(Recommended("available"), "increased") /\ upgradeAge' = 0
      BY <1>10, <2>2 DEF Upgrade
    <3>2. checkStable' \in BOOLEAN
      BY <1>1, <1>10, <2>2, Zenon DEF Upgrade, TypeOK
    <3>3. rate' \in MinRate..MaxRate /\ report' \in Reports /\ samples' = 0 /\ pc' = "cooldown"
      BY <1>6, <2>1, <3>1 DEF Reports
    <3> QED
      BY <1>1, <1>2, <2>1, <3>1, <3>2, <3>3 DEF Inv, TypeOK, WindowInv, FreezeInv
  <2>3. CASE ~accepts
    <3>1. Stay /\ UNCHANGED upgradeAge
      BY <1>10, <2>3 DEF Upgrade
    <3> QED
      BY <1>1, <1>7, <2>1, <3>1 DEF Inv, TypeOK, WindowInv, FreezeInv
  <2> QED
    BY <2>2, <2>3
<1>11. CASE Hold
  <2>1. /\ pc = "decide" /\ Stay
        /\ UNCHANGED <<flag, pos, full, revertFirst, upgradeAge, freezeAge, revertAge, verdict,
                       accepts>>
    BY <1>11 DEF Hold, bufferVars, ageVars, envVars
  <2> QED
    BY <1>1, <1>7, <2>1 DEF Inv, TypeOK, WindowInv, FreezeInv
<1>12. CASE CoolDown
  <2>1. /\ pc = "cooldown" /\ pos' = 0 /\ full' = FALSE /\ Elapse(Cooldown)
        /\ pc' \in {"sleep", "ended"}
        /\ UNCHANGED <<flag, rate, revertFirst, checkStable, verdict, accepts, report, samples>>
    BY <1>12 DEF CoolDown, envVars
  <2>2. /\ upgradeAge' \in 0..Excessive
        /\ freezeAge' \in 0..(Freeze + 1) /\ revertAge' \in 0..(Freeze + 1)
        /\ FreezeInv'
    BY <1>2, <1>3, <2>1
  <2>3. pos' \in 0..(StatSize - 1) /\ samples' = 0
    BY <1>1, <1>2, <2>1 DEF WindowInv
  <2>4. TypeOK'
    BY <1>1, <2>1, <2>2, <2>3 DEF TypeOK
  <2>5. WindowInv'
    BY <2>1, <2>3 DEF WindowInv
  <2> QED
    BY <2>2, <2>4, <2>5 DEF Inv
<1>13. CASE Sleep
  <2>1. /\ pc = "sleep" /\ Elapse(1) /\ pc' \in {"record", "ended"}
        /\ UNCHANGED <<flag, rate, pos, full, revertFirst, checkStable, verdict, accepts, report,
                       samples>>
    BY <1>13 DEF Sleep, bufferVars, envVars
  <2>2. /\ upgradeAge' \in 0..Excessive
        /\ freezeAge' \in 0..(Freeze + 1) /\ revertAge' \in 0..(Freeze + 1)
        /\ FreezeInv'
    BY <1>3, <2>1
  <2>3. TypeOK'
    BY <1>1, <2>1, <2>2 DEF TypeOK
  <2>4. WindowInv'
    BY <1>1, <2>1 DEF WindowInv
  <2> QED
    BY <2>2, <2>3, <2>4 DEF Inv
<1>14. ASSUME flag' \in BOOLEAN, pc' = pc \/ (pc = "record" /\ pc' = "ended"),
              UNCHANGED <<rate, pos, full, revertFirst, checkStable, upgradeAge, freezeAge,
                          revertAge, verdict, accepts, report, samples>>
       PROVE  Inv'
  <2>1. TypeOK'
    BY <1>1, <1>14 DEF TypeOK
  <2>2. WindowInv'
    BY <1>1, <1>14 DEF WindowInv
  <2>3. FreezeInv'
    BY <1>1, <1>14 DEF FreezeInv
  <2> QED
    BY <2>1, <2>2, <2>3 DEF Inv
<1>15. CASE Leave
  BY <1>1, <1>14, <1>15, Zenon DEF Leave, bufferVars, ageVars, envVars, TypeOK
<1>16. CASE Stop
  BY <1>14, <1>16, Zenon DEF Stop, bufferVars, ageVars, envVars
<1> QED
  BY <1>4, <1>5, <1>8, <1>9, <1>10, <1>11, <1>12, <1>13, <1>15, <1>16 DEF Next, Thread

-----------------------------------------------------------------------------
\* The bitrate the thread asks for is within the limits it was started with
\* (compute_recommended_bitrate), and its position within the window.
THEOREM Typing == Spec => []TypeOK
<1>1. Inv => TypeOK
  BY DEF Inv
<1> QED
  BY <1>1, InitInv, NextInv, PTL DEF Spec

\* Every change of the bitrate by adaptive_bitrate_thread is judged on a whole window of
\* samples taken since the last.
THEOREM JudgedByItsOwn == Spec => FullWindow
<1>1. Inv /\ [Next]_vars => [rate' # rate => samples = StatSize]_rate
  <2> SUFFICES ASSUME Inv, Next, rate' # rate PROVE samples = StatSize
    BY DEF vars
  <2>1. pc = "decide"
    BY DEF Next, Thread, Record, Revert, Downgrade, Upgrade, Hold, CoolDown, Sleep, Leave, Stop
  <2> QED
    BY <2>1 DEF Inv, WindowInv
<1> QED
  BY <1>1, InitInv, NextInv, PTL DEF Spec, FullWindow

\* The freeze of adaptive_bitrate_thread after a revert holds through downgrades, cooldowns
\* and refusals, for every length of it.
THEOREM FreezeHolds == Spec => FrozenAfterRevert
<1>1. Inv /\ [Next]_vars
        => [report' = "increased" /\ report # "increased" => revertAge > Freeze]_vars
  <2> SUFFICES ASSUME Inv, Next, report' = "increased", report # "increased"
               PROVE  revertAge > Freeze
    OBVIOUS
  <2>1. CanUpgrade
    BY DEF Next, Thread, Record, Revert, Downgrade, Upgrade, Hold, CoolDown, Sleep, Leave, Stop,
           Stay, Change
  <2> QED
    BY <2>1 DEF CanUpgrade, Inv, FreezeInv
<1> QED
  BY <1>1, InitInv, NextInv, PTL DEF Spec, FrozenAfterRevert
=============================================================================
