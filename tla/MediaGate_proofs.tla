-------------------------- MODULE MediaGate_proofs --------------------------
(***************************************************************************)
(* The media of a session, proved for any number of threads that send,     *)
(* connect and disconnect in any order: nobody uses what media_destroy has *)
(* freed.                                                                  *)
(***************************************************************************)
EXTENDS MediaGate, TLAPS

-----------------------------------------------------------------------------
(* The inductive invariant *)

Managing(t) == pc[t] \in InitLabels \cup DestroyLabels

\* media_destroy has cleared FTL_MEDIA_READY.
Draining == {"m_unvideo", "m_unaudio", "m_test"}

AudioHeld == {"a_check", "a_loop", "a_unlock", "m_video", "m_clear", "m_unvideo", "m_unaudio"}
VideoHeld == {"v_check", "v_idr", "v_loop", "v_unlock", "m_clear", "m_unvideo"}
Looping   == {"a_loop", "v_idr", "v_loop"}

\* The media are not initialised and destroyed at the same time.
OneManager == \A t, u \in Threads : Managing(t) /\ Managing(u) => t = u

\* Where a thread has which mutex.
MutexInv ==
    \A t \in Threads :
        /\ pc[t] \in AudioHeld => owner["audio"] = t
        /\ pc[t] \in VideoHeld => owner["video"] = t

\* While FTL_MEDIA_READY is set nothing is freed; it is not cleared while a ring is written.
ReadyInv ==
    /\ mediaReady => allocated
    /\ \A t \in Threads : Managing(t) => allocated
    /\ \A t \in Threads : pc[t] \in Draining \cup {"m_free"} => ~mediaReady
    /\ \A t \in Threads : pc[t] \in Looping => mediaReady

TestLabels == {"t_check", "t_begin", "t_loop", "t_sent", "t_reset", "t_done"}

\* A speed test found FTL_MEDIA_READY set and holds FTL_SPEED_TEST: whoever has cleared the
\* former since has not seen the latter cleared yet.
TestInv ==
    \A t \in Threads :
        /\ pc[t] \in TestLabels \/ back[t] = "t_sent" => "test" \in Calls[t]
        /\ pc[t] \in InitLabels => "init" \in Calls[t]
        /\ InTest(t) => mediaReady \/ \E u \in Threads : pc[u] \in Draining
        /\ InTest(t) \/ pc[t] = "t_check" => speedTest

\* One thread runs the speed test, and if a thread connects it is that one: two tests would
\* clear each other's FTL_SPEED_TEST, and so does media_init.
OneTester ==
    \A t, u \in Threads : "test" \in Calls[t] /\ Calls[u] \cap {"test", "init"} # {} => t = u

-----------------------------------------------------------------------------
(* Types *)

LEMMA Moves ==
    ASSUME NEW t \in Threads, pc \in [Threads -> Labels], NEW from, NEW to \in Labels,
           Goto(t, from, to)
    PROVE  /\ pc[t] = from /\ pc'[t] = to /\ pc' \in [Threads -> Labels]
           /\ \A u \in Threads : u # t => pc'[u] = pc[u]
  BY DEF Goto

LEMMA LockTypes ==
    ASSUME TypeOK, NEW t \in Threads, NEW m \in Comps, Lock(t, m)
    PROVE  /\ owner' \in [Comps -> Threads \cup {NoOne}] /\ depth' \in [Comps -> Nat]
           /\ \A c \in Comps : owner'[c] = NoOne <=> depth'[c] = 0
           /\ owner'[m] = t /\ \A c \in Comps : c # m => owner'[c] = owner[c]
           /\ owner[m] \in {NoOne, t}
<1>1. t # NoOne
  BY GateAssumption
<1> QED
  BY <1>1 DEF TypeOK, Lock, MayLock

LEMMA UnlockTypes ==
    ASSUME TypeOK, NEW t \in Threads, NEW m \in Comps, Unlock(t, m)
    PROVE  /\ owner' \in [Comps -> Threads \cup {NoOne}] /\ depth' \in [Comps -> Nat]
           /\ \A c \in Comps : owner'[c] = NoOne <=> depth'[c] = 0
           /\ \A c \in Comps : c # m => owner'[c] = owner[c]
           /\ owner[m] # t => owner'[m] = owner[m]
<1>1. t # NoOne
  BY GateAssumption
<1> QED
  BY <1>1 DEF TypeOK, Unlock, mutexVars

LEMMA TypeStep == TypeOK /\ [Next]_vars => TypeOK'
<1> SUFFICES ASSUME TypeOK, [Next]_vars PROVE TypeOK'
  OBVIOUS
<1> USE DEF flagVars, mutexVars, holdVars, callVars
<1>1. CASE UNCHANGED vars
  BY <1>1 DEF vars, TypeOK
<1>2. ASSUME NEW t \in Threads, Start(t)
      PROVE  TypeOK'
  <2>1. CASE SendAudio(t)
    BY <2>1 DEF SendAudio, EnterAudio, Begin, Goto, TypeOK, Labels
  <2>2. CASE SendVideo(t)
    BY <2>2 DEF SendVideo, Begin, Goto, TypeOK, Labels
  <2>3. CASE StartTest(t)
    BY <2>3 DEF StartTest, Begin, Goto, TypeOK, Labels
  <2>4. CASE InitMedia(t)
    <3>1. inits' \in 0..MaxInits
      BY <2>4, GateAssumption DEF InitMedia, TypeOK
    <3>2. /\ owner' \in [Comps -> Threads \cup {NoOne}] /\ depth' \in [Comps -> Nat]
          /\ \A m \in Comps : owner'[m] = NoOne <=> depth'[m] = 0
      BY <2>4 DEF InitMedia
    <3> QED
      BY <2>4, <3>1, <3>2, Zenon DEF InitMedia, Begin, Goto, TypeOK, Labels, InitLabels
  <2>5. CASE DestroyMedia(t)
    BY <2>5 DEF DestroyMedia, Begin, Goto, TypeOK, Labels, DestroyLabels
  <2> QED
    BY <1>2, <2>1, <2>2, <2>3, <2>4, <2>5 DEF Start
<1>3. ASSUME NEW t \in Threads, Audio(t)
      PROVE  TypeOK'
  <2>1. CASE AudioTry(t)
    <3>1. "audio" \in Comps
      BY DEF Comps
    <3> QED
      BY <2>1, <3>1, LockTypes DEF AudioTry, Goto, TypeOK, Labels
  <2>2. CASE AudioUnlock(t)
    <3>1. "audio" \in Comps
      BY DEF Comps
    <3> QED
      BY <2>2, <3>1, UnlockTypes DEF AudioUnlock, Goto, TypeOK, Labels
  <2>3. CASE AudioGate(t) \/ AudioCheck(t) \/ AudioQueue(t) \/ AudioFull(t)
    <3>1. CASE AudioGate(t) \/ AudioCheck(t)
      BY <3>1 DEF AudioGate, AudioCheck, Goto, TypeOK, Labels
    <3>2. CASE AudioQueue(t) \/ AudioFull(t)
      BY <3>2 DEF AudioQueue, AudioFull, Goto, TypeOK, Labels
    <3> QED
      BY <2>3, <3>1, <3>2
  <2> QED
    BY <1>3, <2>1, <2>2, <2>3 DEF Audio
<1>4. ASSUME NEW t \in Threads, Video(t)
      PROVE  TypeOK'
  <2>1. CASE VideoTry(t)
    <3>1. "video" \in Comps
      BY DEF Comps
    <3> QED
      BY <2>1, <3>1, LockTypes DEF VideoTry, Goto, TypeOK, Labels
  <2>2. CASE VideoUnlock(t)
    <3>1. "video" \in Comps
      BY DEF Comps
    <3> QED
      BY <2>2, <3>1, UnlockTypes DEF VideoUnlock, Goto, TypeOK, Labels
  <2>3. CASE VideoGate(t) \/ VideoCheck(t) \/ VideoQueue(t)
    BY <2>3 DEF VideoGate, VideoCheck, VideoQueue, Goto, TypeOK, Labels
  <2>4. ASSUME NEW b \in BOOLEAN, VideoIdr(t, b) \/ VideoFull(t, b)
        PROVE  TypeOK'
    BY <2>4 DEF VideoIdr, VideoFull, Goto, TypeOK, Labels
  <2> QED
    BY <1>4, <2>1, <2>2, <2>3, <2>4 DEF Video
<1>5. ASSUME NEW t \in Threads, Test(t)
      PROVE  TypeOK'
  <2>1. CASE TestCheck(t) \/ TestSent(t) \/ TestTimeOver(t) \/ TestReset(t) \/ TestDone(t)
    <3>1. CASE TestCheck(t) \/ TestSent(t)
      BY <3>1 DEF TestCheck, TestSent, Goto, TypeOK, Labels
    <3>2. CASE TestTimeOver(t) \/ TestReset(t) \/ TestDone(t)
      BY <3>2 DEF TestTimeOver, TestReset, TestDone, Goto, TypeOK, Labels
    <3> QED
      BY <2>1, <3>1, <3>2
  <2>2. CASE TestBegin(t) \/ TestSend(t)
    <3>1. testPkts' \in 0..MaxTestPkts
      BY <2>2, GateAssumption DEF TestBegin, TestSend, TypeOK
    <3> QED
      BY <2>2, <3>1 DEF TestBegin, TestSend, EnterAudio, Goto, TypeOK, Labels
  <2> QED
    BY <1>5, <2>1, <2>2 DEF Test
<1>6. ASSUME NEW t \in Threads, Manage(t)
      PROVE  TypeOK'
  <2>1. CASE InitClearsTest(t) \/ InitReady(t) \/ DestroyClear(t) \/ DestroyAwaitsTest(t)
             \/ DestroyFree(t)
    BY <2>1 DEF InitClearsTest, InitReady, DestroyClear, DestroyAwaitsTest, DestroyFree, Goto,
                TypeOK, Labels, InitLabels, DestroyLabels
  <2>2. ASSUME NEW m \in Comps, NEW from, NEW to \in DestroyLabels, DestroyLock(t, m, from, to)
        PROVE  TypeOK'
    BY <2>2, LockTypes DEF DestroyLock, Goto, TypeOK, Labels
  <2>3. ASSUME NEW m \in Comps, NEW from, NEW to \in DestroyLabels, DestroyUnlock(t, m, from, to)
        PROVE  TypeOK'
    BY <2>3, UnlockTypes DEF DestroyUnlock, Goto, TypeOK, Labels
  <2> QED
    BY <1>6, <2>1, <2>2, <2>3 DEF Manage, Comps, DestroyLabels
<1> QED
  BY <1>1, <1>2, <1>3, <1>4, <1>5, <1>6, Zenon DEF Next, Step

-----------------------------------------------------------------------------
(* Every conjunct, step by step *)

\* A step of a thread moves that thread, and leaves the mutexes of the others alone.
LEMMA OthersStay ==
    ASSUME TypeOK, NEW t \in Threads, Start(t) \/ Step(t)
    PROVE  /\ \A u \in Threads : u # t => pc'[u] = pc[u]
           /\ InitMedia(t) \/ \A u \in Threads : u # t =>
                 \A m \in Comps : owner[m] = u => owner'[m] = u
<1> USE DEF flagVars, mutexVars, holdVars, callVars
<1>1. \A u \in Threads : u # t => pc'[u] = pc[u]
  BY DEF Start, Step, SendAudio, SendVideo, StartTest, InitMedia, DestroyMedia, Begin, Goto,
         Audio, AudioGate, AudioTry, AudioCheck, AudioQueue, AudioFull, AudioUnlock,
         Video, VideoGate, VideoTry, VideoCheck, VideoIdr, VideoFull, VideoQueue, VideoUnlock,
         Test, TestCheck, TestBegin, TestSend, TestSent, TestTimeOver, TestReset, TestDone,
         Manage, InitClearsTest, InitReady, DestroyLock, DestroyClear, DestroyUnlock,
         DestroyAwaitsTest, DestroyFree, TypeOK
<1>2. \/ InitMedia(t) \/ UNCHANGED owner
      \/ \E m \in Comps : Lock(t, m) \/ Unlock(t, m)
  BY DEF Start, Step, SendAudio, SendVideo, StartTest, DestroyMedia,
         Audio, AudioGate, AudioTry, AudioCheck, AudioQueue, AudioFull, AudioUnlock,
         Video, VideoGate, VideoTry, VideoCheck, VideoIdr, VideoFull, VideoQueue, VideoUnlock,
         Test, TestCheck, TestBegin, TestSend, TestSent, TestTimeOver, TestReset, TestDone,
         Manage, InitClearsTest, InitReady, DestroyLock, DestroyClear, DestroyUnlock,
         DestroyAwaitsTest, DestroyFree, Comps
<1>3. ASSUME NEW m \in Comps, Lock(t, m) \/ Unlock(t, m), NEW u \in Threads, u # t,
             NEW c \in Comps, owner[c] = u
      PROVE  owner'[c] = u
  <2>1. u # NoOne
    BY GateAssumption
  <2> QED
    BY <1>3, <2>1, LockTypes, UnlockTypes
<1> QED
  BY <1>1, <1>2, <1>3

\* A thread becomes the manager only while there is none.
LEMMA ManagerStep ==
    ASSUME TypeOK, OneManager, NEW t \in Threads, Start(t) \/ Step(t)
    PROVE  OneManager'
<1>1. Managing(t)' => Managing(t) \/ NobodyManages
  BY DEF Start, Step, SendAudio, SendVideo, StartTest, InitMedia, DestroyMedia, Begin, Goto,
         Audio, AudioGate, AudioTry, AudioCheck, AudioQueue, AudioFull, AudioUnlock,
         Video, VideoGate, VideoTry, VideoCheck, VideoIdr, VideoFull, VideoQueue, VideoUnlock,
         Test, TestCheck, TestBegin, TestSend, TestSent, TestTimeOver, TestReset, TestDone,
         Manage, InitClearsTest, InitReady, DestroyLock, DestroyClear, DestroyUnlock,
         DestroyAwaitsTest, DestroyFree, TypeOK, Managing, InitLabels, DestroyLabels
<1>2. \A u \in Threads : u # t => (Managing(u)' <=> Managing(u))
  BY OthersStay DEF Managing
<1> QED
  BY <1>1, <1>2 DEF OneManager, NobodyManages, Managing

\* A thread enters a section with the mutex and leaves it when it unlocks it.
LEMMA MutexStep ==
    ASSUME TypeOK, MutexInv, NEW t \in Threads, Start(t) \/ Step(t)
    PROVE  MutexInv'
<1> USE DEF flagVars, mutexVars, holdVars, callVars
<1>1. /\ pc'[t] \in AudioHeld => owner'["audio"] = t
      /\ pc'[t] \in VideoHeld => owner'["video"] = t
  <2>1. CASE Start(t)
    BY <2>1 DEF Start, SendAudio, SendVideo, StartTest, InitMedia, DestroyMedia, Begin, Goto,
                TypeOK, AudioHeld, VideoHeld
  <2>2. CASE Audio(t)
    BY <2>2 DEF Audio, AudioGate, AudioTry, AudioCheck, AudioQueue, AudioFull, AudioUnlock,
                Goto, Lock, TypeOK, MutexInv, AudioHeld, VideoHeld, Comps
  <2>3. CASE Video(t)
    BY <2>3 DEF Video, VideoGate, VideoTry, VideoCheck, VideoIdr, VideoFull, VideoQueue,
                VideoUnlock, Goto, Lock, TypeOK, MutexInv, AudioHeld, VideoHeld, Comps
  <2>4. CASE Test(t)
    BY <2>4 DEF Test, TestCheck, TestBegin, TestSend, TestSent, TestTimeOver, TestReset,
                TestDone, Goto, TypeOK, AudioHeld, VideoHeld
  <2>5. CASE Manage(t)
    BY <2>5, GateAssumption
       DEF Manage, InitClearsTest, InitReady, DestroyLock, DestroyClear, DestroyUnlock,
           DestroyAwaitsTest, DestroyFree, Goto, Lock, Unlock, TypeOK, MutexInv, AudioHeld,
           VideoHeld, Comps
  <2> QED
    BY <2>1, <2>2, <2>3, <2>4, <2>5 DEF Step
<1>2. ASSUME NEW u \in Threads, u # t
      PROVE  /\ pc'[u] \in AudioHeld => owner'["audio"] = u
             /\ pc'[u] \in VideoHeld => owner'["video"] = u
  <2>1. pc'[u] = pc[u]
    BY <1>2, OthersStay
  <2>2. CASE InitMedia(t)
    BY <2>1, <2>2 DEF InitMedia, NobodyManages, InSend, DestroyLabels, AudioHeld, VideoHeld
  <2>3. CASE ~InitMedia(t)
    BY <1>2, <2>1, <2>3, OthersStay DEF MutexInv, Comps
  <2> QED
    BY <2>2, <2>3
<1> QED
  BY <1>1, <1>2 DEF MutexInv

\* FTL_MEDIA_READY is cleared by the thread that has both mutexes, so that no ring is being
\* written.
LEMMA ReadyStep ==
    ASSUME TypeOK, OneManager, MutexInv, ReadyInv, NEW t \in Threads, Start(t) \/ Step(t)
    PROVE  ReadyInv'
<1> USE DEF flagVars, mutexVars, holdVars, callVars
<1>1. \A u \in Threads : u # t => pc'[u] = pc[u]
  BY OthersStay
<1>2. CASE UNCHANGED <<mediaReady, allocated>>
  <2>1. /\ Managing(t)' => Managing(t) \/ allocated
        /\ pc'[t] \in Draining \cup {"m_free"} => ~mediaReady
        /\ pc'[t] \in Looping => mediaReady
    <3>1. CASE Start(t)
      BY <1>2, <3>1 DEF Start, SendAudio, SendVideo, StartTest, InitMedia, DestroyMedia, Begin,
                Goto, TypeOK, ReadyInv, Managing, InitLabels, DestroyLabels, Draining, Looping
    <3>2. CASE Audio(t)
      BY <3>2 DEF Audio, AudioGate, AudioTry, AudioCheck, AudioQueue, AudioFull, AudioUnlock,
                Goto, TypeOK, ReadyInv, Managing, InitLabels, DestroyLabels, Draining, Looping
    <3>3. CASE Video(t)
      BY <3>3 DEF Video, VideoGate, VideoTry, VideoCheck, VideoIdr, VideoFull, VideoQueue,
                VideoUnlock, Goto, TypeOK, ReadyInv, Managing, InitLabels, DestroyLabels,
                Draining, Looping
    <3>4. CASE Test(t)
      BY <3>4 DEF Test, TestCheck, TestBegin, TestSend, TestSent, TestTimeOver, TestReset,
                TestDone, Goto, TypeOK, Managing, InitLabels, DestroyLabels, Draining, Looping
    <3>5. CASE Manage(t)
      BY <1>2, <3>5 DEF Manage, InitClearsTest, InitReady, DestroyLock, DestroyClear,
                DestroyUnlock, DestroyAwaitsTest, DestroyFree, Goto, TypeOK, ReadyInv, Managing,
                InitLabels, DestroyLabels, Draining, Looping
    <3> QED
      BY <3>1, <3>2, <3>3, <3>4, <3>5 DEF Step
  <2>2. ASSUME NEW u \in Threads
        PROVE  /\ Managing(u)' => allocated'
               /\ pc'[u] \in Draining \cup {"m_free"} => ~mediaReady'
               /\ pc'[u] \in Looping => mediaReady'
    BY <1>1, <1>2, <2>1 DEF ReadyInv, Managing
  <2> QED
    BY <1>2, <2>2 DEF ReadyInv
<1>3. CASE InitMedia(t)
  <2>1. pc'[t] = "i_speed" /\ allocated' /\ mediaReady' = mediaReady
    BY <1>3 DEF InitMedia, Begin, Goto, TypeOK
  <2> QED
    BY <1>1, <2>1 DEF ReadyInv, Draining, Looping
<1>4. CASE InitReady(t)
  <2>1. pc[t] = "i_ready" /\ pc'[t] = "idle" /\ mediaReady' /\ allocated' = allocated
    BY <1>4 DEF InitReady, Goto, TypeOK
  <2>2. allocated /\ \A u \in Threads : u # t => ~Managing(u)
    BY <2>1 DEF OneManager, ReadyInv, Managing, InitLabels
  <2> QED
    BY <1>1, <2>1, <2>2 DEF ReadyInv, Managing, InitLabels, DestroyLabels, Draining, Looping
<1>5. CASE DestroyClear(t)
  <2>1. pc[t] = "m_clear" /\ pc'[t] = "m_unvideo" /\ ~mediaReady' /\ allocated' = allocated
    BY <1>5 DEF DestroyClear, Goto, TypeOK
  <2>2. owner["audio"] = t /\ owner["video"] = t
    BY <2>1 DEF MutexInv, AudioHeld, VideoHeld
  <2>3. \A u \in Threads : pc'[u] \notin Looping
    BY <1>1, <2>1, <2>2 DEF MutexInv, AudioHeld, VideoHeld, Looping
  <2> QED
    BY <1>1, <2>1, <2>3 DEF ReadyInv, Managing, InitLabels, DestroyLabels, Draining
<1>6. CASE DestroyFree(t)
  <2>1. pc[t] = "m_free" /\ pc'[t] = "idle" /\ mediaReady' = mediaReady /\ ~mediaReady
    BY <1>6 DEF DestroyFree, Goto, TypeOK, ReadyInv
  <2>2. \A u \in Threads : ~Managing(u)'
    BY <1>1, <2>1 DEF OneManager, Managing, InitLabels, DestroyLabels
  <2> QED
    BY <1>1, <2>1, <2>2 DEF ReadyInv, Looping, Managing, InitLabels, DestroyLabels, Draining
<1>7. \/ UNCHANGED <<mediaReady, allocated>> \/ InitMedia(t) \/ InitReady(t)
      \/ DestroyClear(t) \/ DestroyFree(t)
  BY DEF Start, Step, SendAudio, SendVideo, StartTest, DestroyMedia,
         Audio, AudioGate, AudioTry, AudioCheck, AudioQueue, AudioFull, AudioUnlock,
         Video, VideoGate, VideoTry, VideoCheck, VideoIdr, VideoFull, VideoQueue, VideoUnlock,
         Test, TestCheck, TestBegin, TestSend, TestSent, TestTimeOver, TestReset, TestDone,
         Manage, InitClearsTest, DestroyLock, DestroyUnlock, DestroyAwaitsTest
<1> QED
  BY <1>2, <1>3, <1>4, <1>5, <1>6, <1>7

\* A speed test keeps FTL_SPEED_TEST set from before it looks at FTL_MEDIA_READY until it is
\* over, and whoever clears FTL_MEDIA_READY waits for that before it frees anything.
LEMMA TestStep ==
    ASSUME OneTester, TypeOK, OneManager, ReadyInv, TestInv,
           NEW t \in Threads, Start(t) \/ Step(t)
    PROVE  TestInv'
<1> USE DEF flagVars, mutexVars, holdVars, callVars
<1>1. \A u \in Threads : u # t => pc'[u] = pc[u] /\ back'[u] = back[u]
  <2>1. UNCHANGED back \/ \E b : back' = [back EXCEPT ![t] = b]
    BY DEF Start, Step, SendAudio, SendVideo, StartTest, InitMedia, DestroyMedia,
         Audio, AudioGate, AudioTry, AudioCheck, AudioQueue, AudioFull, AudioUnlock,
         Video, VideoGate, VideoTry, VideoCheck, VideoIdr, VideoFull, VideoQueue, VideoUnlock,
         Test, TestCheck, TestBegin, TestSend, TestSent, TestTimeOver, TestReset, TestDone,
         Manage, InitClearsTest, InitReady, DestroyLock, DestroyClear, DestroyUnlock,
         DestroyAwaitsTest, DestroyFree
  <2> QED
    BY <2>1, OthersStay DEF TypeOK
<1>2. /\ pc'[t] \in TestLabels \/ back'[t] = "t_sent" => "test" \in Calls[t]
      /\ pc'[t] \in InitLabels => "init" \in Calls[t]
  <2>1. CASE Start(t)
    BY <2>1 DEF Start, SendAudio, SendVideo, StartTest, InitMedia, DestroyMedia, Begin, Goto,
                TypeOK, TestInv, TestLabels, InitLabels
  <2>2. CASE Audio(t)
    BY <2>2 DEF Audio, AudioGate, AudioTry, AudioCheck, AudioQueue, AudioFull, AudioUnlock,
                Goto, TypeOK, TestInv, TestLabels, InitLabels
  <2>3. CASE Video(t)
    BY <2>3 DEF Video, VideoGate, VideoTry, VideoCheck, VideoIdr, VideoFull, VideoQueue,
                VideoUnlock, Goto, TypeOK, TestInv, TestLabels, InitLabels
  <2>4. CASE Test(t)
    BY <2>4 DEF Test, TestCheck, TestBegin, TestSend, TestSent, TestTimeOver, TestReset,
                TestDone, Goto, TypeOK, TestInv, TestLabels, InitLabels
  <2>5. CASE Manage(t)
    BY <2>5 DEF Manage, InitClearsTest, InitReady, DestroyLock, DestroyClear, DestroyUnlock,
                DestroyAwaitsTest, DestroyFree, Goto, TypeOK, TestInv, TestLabels, InitLabels
  <2> QED
    BY <2>1, <2>2, <2>3, <2>4, <2>5 DEF Step
<1>3. ASSUME NEW u \in Threads, InTest(u)' \/ pc'[u] = "t_check"
      PROVE  speedTest'
  <2>1. "test" \in Calls[u]
    BY <1>1, <1>2, <1>3 DEF TestInv, TestLabels, InTest
  <2>2. CASE u # t
    <3>1. speedTest
      BY <1>1, <1>3, <2>2 DEF TestInv, InTest
    <3>2. ~TestDone(t) /\ ~InitClearsTest(t)
      BY <2>1, <2>2, GateAssumption
         DEF OneTester, TestInv, TestDone, InitClearsTest, Goto, TestLabels, InitLabels
    <3>3. speedTest' = speedTest \/ speedTest' \/ TestDone(t) \/ InitClearsTest(t)
      BY DEF Start, Step, SendAudio, SendVideo, StartTest, InitMedia, DestroyMedia,
         Audio, AudioGate, AudioTry, AudioCheck, AudioQueue, AudioFull, AudioUnlock,
         Video, VideoGate, VideoTry, VideoCheck, VideoIdr, VideoFull, VideoQueue, VideoUnlock,
         Test, TestCheck, TestBegin, TestSend, TestSent, TestTimeOver, TestReset,
         Manage, InitReady, DestroyLock, DestroyClear, DestroyUnlock, DestroyAwaitsTest,
         DestroyFree
    <3> QED
      BY <3>1, <3>2, <3>3
  <2>3. CASE u = t
    <3>1. CASE Start(t)
      BY <1>3, <2>3, <3>1 DEF Start, SendAudio, SendVideo, StartTest, InitMedia, DestroyMedia,
                Begin, Goto, TypeOK, InTest
    <3>2. CASE Audio(t)
      BY <1>3, <2>3, <3>2 DEF Audio, AudioGate, AudioTry, AudioCheck, AudioQueue, AudioFull,
                AudioUnlock, Goto, TypeOK, TestInv, InTest
    <3>3. CASE Video(t)
      BY <1>3, <2>3, <3>3 DEF Video, VideoGate, VideoTry, VideoCheck, VideoIdr, VideoFull,
                VideoQueue, VideoUnlock, Goto, TypeOK, InTest
    <3>4. CASE Test(t)
      BY <1>3, <2>3, <3>4 DEF Test, TestCheck, TestBegin, TestSend, TestSent, TestTimeOver,
                TestReset, TestDone, Goto, TypeOK, TestInv, InTest
    <3>5. CASE Manage(t)
      BY <1>3, <2>3, <3>5 DEF Manage, InitClearsTest, InitReady, DestroyLock, DestroyClear,
                DestroyUnlock, DestroyAwaitsTest, DestroyFree, Goto, TypeOK, InTest,
                DestroyLabels
    <3> QED
      BY <3>1, <3>2, <3>3, <3>4, <3>5 DEF Step
  <2> QED
    BY <2>2, <2>3
<1>4. ASSUME NEW u \in Threads, InTest(u)'
      PROVE  mediaReady' \/ \E v \in Threads : pc'[v] \in Draining
  <2>1. CASE InTest(u)
    <3>1. speedTest /\ (mediaReady \/ \E v \in Threads : pc[v] \in Draining)
      BY <2>1 DEF TestInv
    <3>2. CASE mediaReady
      <4>1. mediaReady' \/ DestroyClear(t)
        BY <3>2 DEF Start, Step, SendAudio, SendVideo, StartTest, InitMedia, DestroyMedia,
             Audio, AudioGate, AudioTry, AudioCheck, AudioQueue, AudioFull, AudioUnlock,
             Video, VideoGate, VideoTry, VideoCheck, VideoIdr, VideoFull, VideoQueue,
             VideoUnlock, Test, TestCheck, TestBegin, TestSend, TestSent, TestTimeOver,
             TestReset, TestDone, Manage, InitClearsTest, InitReady, DestroyLock,
             DestroyUnlock, DestroyAwaitsTest, DestroyFree
      <4>2. DestroyClear(t) => pc'[t] \in Draining
        BY DEF DestroyClear, Goto, TypeOK, Draining
      <4> QED
        BY <4>1, <4>2
    <3>3. ASSUME NEW v \in Threads, pc[v] \in Draining
          PROVE  pc'[v] \in Draining
      <4>1. CASE v # t
        BY <1>1, <3>3, <4>1
      <4>2. CASE v = t
        BY <3>1, <3>3, <4>2 DEF Start, SendAudio, SendVideo, StartTest, InitMedia, DestroyMedia,
             Begin, Step, Audio, AudioGate, AudioTry, AudioCheck, AudioQueue, AudioFull,
             AudioUnlock, Video, VideoGate, VideoTry, VideoCheck, VideoIdr, VideoFull,
             VideoQueue, VideoUnlock, Test, TestCheck, TestBegin, TestSend, TestSent,
             TestTimeOver, TestReset, TestDone, Manage, InitClearsTest, InitReady, DestroyLock,
             DestroyClear, DestroyUnlock, DestroyAwaitsTest, DestroyFree, Goto, TypeOK, Draining
      <4> QED
        BY <4>1, <4>2
    <3> QED
      BY <3>1, <3>2, <3>3
  <2>2. CASE ~InTest(u)
    <3>1. u = t
      BY <1>1, <1>4, <2>2 DEF InTest
    <3>2. TestCheck(t) /\ mediaReady
      <4>1. CASE Start(t)
        BY <1>4, <3>1, <4>1 DEF Start, SendAudio, SendVideo, StartTest, InitMedia, DestroyMedia,
                  Begin, Goto, TypeOK, InTest
      <4>2. CASE Audio(t)
        BY <1>4, <2>2, <3>1, <4>2 DEF Audio, AudioGate, AudioTry, AudioCheck, AudioQueue,
                  AudioFull, AudioUnlock, Goto, TypeOK, InTest
      <4>3. CASE Video(t)
        BY <1>4, <3>1, <4>3 DEF Video, VideoGate, VideoTry, VideoCheck, VideoIdr, VideoFull,
                  VideoQueue, VideoUnlock, Goto, TypeOK, InTest
      <4>4. CASE Test(t)
        BY <1>4, <2>2, <3>1, <4>4 DEF Test, TestCheck, TestBegin, TestSend, TestSent,
                  TestTimeOver, TestReset, TestDone, Goto, TypeOK, InTest
      <4>5. CASE Manage(t)
        BY <1>4, <3>1, <4>5 DEF Manage, InitClearsTest, InitReady, DestroyLock, DestroyClear,
                  DestroyUnlock, DestroyAwaitsTest, DestroyFree, Goto, TypeOK, InTest
      <4> QED
        BY <4>1, <4>2, <4>3, <4>4, <4>5 DEF Step
    <3> QED
      BY <3>2 DEF TestCheck
  <2> QED
    BY <2>1, <2>2
<1>5. ASSUME NEW u \in Threads
      PROVE  /\ pc'[u] \in TestLabels \/ back'[u] = "t_sent" => "test" \in Calls[u]
             /\ pc'[u] \in InitLabels => "init" \in Calls[u]
  BY <1>1, <1>2 DEF TestInv
<1> QED
  BY <1>3, <1>4, <1>5 DEF TestInv

-----------------------------------------------------------------------------
(* The theorems *)

SendersInv == TypeOK /\ OneManager /\ MutexInv /\ ReadyInv

LEMMA StutterInv ==
    ASSUME UNCHANGED vars
    PROVE  /\ SendersInv => SendersInv'
           /\ TestInv => TestInv'
           /\ AudioWaitsForVideo => AudioWaitsForVideo'
<1>1. UNCHANGED <<mediaReady, speedTest, allocated, owner, depth, readyToSend, sentFirstFrame,
                  waitForIdr, started, pc, back, sentAll, testPkts, inits>>
  BY DEF vars, flagVars, mutexVars, holdVars, callVars
<1>2. SendersInv => SendersInv'
  BY <1>1, Zenon DEF SendersInv, TypeOK, OneManager, MutexInv, ReadyInv, Managing
<1>3. TestInv => TestInv'
  BY <1>1, Zenon DEF TestInv, InTest
<1>4. AudioWaitsForVideo => AudioWaitsForVideo'
  BY <1>1, Zenon DEF AudioWaitsForVideo, InTest
<1> QED
  BY <1>2, <1>3, <1>4

LEMMA SendersStep == SendersInv /\ [Next]_vars => SendersInv'
<1> SUFFICES ASSUME SendersInv, [Next]_vars PROVE SendersInv'
  OBVIOUS
<1>1. CASE UNCHANGED vars
  BY <1>1, StutterInv
<1>2. ASSUME NEW t \in Threads, Start(t) \/ Step(t)
      PROVE  SendersInv'
  BY <1>2, TypeStep, ManagerStep, MutexStep, ReadyStep, Zenon DEF SendersInv, Next
<1> QED
  BY <1>1, <1>2, Zenon DEF Next

LEMMA InitInv == Init => SendersInv /\ TestInv /\ AudioWaitsForVideo
<1> SUFFICES ASSUME Init PROVE SendersInv /\ TestInv /\ AudioWaitsForVideo
  OBVIOUS
<1>1. TypeOK
  <2>1. testPkts \in 0..MaxTestPkts /\ inits \in 0..MaxInits
    BY GateAssumption DEF Init
  <2>2. /\ depth \in [Comps -> Nat] /\ owner \in [Comps -> Threads \cup {NoOne}]
        /\ \A m \in Comps : owner[m] = NoOne <=> depth[m] = 0
    BY DEF Init
  <2>3. /\ pc \in [Threads -> Labels] /\ back \in [Threads -> {"idle", "t_sent"}]
        /\ sentAll \in [Threads -> BOOLEAN]
    BY DEF Init, Labels
  <2> QED
    BY <2>1, <2>2, <2>3, Zenon DEF Init, TypeOK
<1>2. OneManager /\ MutexInv /\ ReadyInv
  BY DEF Init, OneManager, MutexInv, ReadyInv, Managing, InitLabels, DestroyLabels, AudioHeld,
         VideoHeld, Draining, Looping
<1>3. TestInv /\ AudioWaitsForVideo
  BY DEF Init, TestInv, InTest, TestLabels, InitLabels, AudioWaitsForVideo
<1> QED
  BY <1>1, <1>2, <1>3 DEF SendersInv

\* The variables keep their types; a mutex has an owner exactly while it is locked, however
\* often one thread locked it and whoever was refused (media_send_audio, media_destroy).
THEOREM Typing == Spec => []TypeOK
<1>1. SendersInv => TypeOK
  BY DEF SendersInv
<1> QED
  BY <1>1, InitInv, SendersStep, PTL DEF Spec

\* A packet ring is written, and a speed test runs, only while the rings and the socket exist
\* (media_destroy), if one thread runs the speed test and that thread also connects.
THEOREM NoUseAfterFree == ASSUME OneTester PROVE Spec => []UsedWhileAllocated
<1>1. SendersInv /\ TestInv /\ [Next]_vars => TestInv'
  <2> SUFFICES ASSUME SendersInv, TestInv, [Next]_vars PROVE TestInv'
    OBVIOUS
  <2>1. CASE UNCHANGED vars
    BY <2>1, StutterInv
  <2>2. ASSUME NEW t \in Threads, Start(t) \/ Step(t)
        PROVE  TestInv'
    BY <2>2, TestStep, Zenon DEF SendersInv
  <2> QED
    BY <2>1, <2>2, Zenon DEF Next
<1>2. SendersInv /\ TestInv => UsedWhileAllocated
  BY DEF SendersInv, ReadyInv, TestInv, UsedWhileAllocated, Looping, Draining, Managing,
         DestroyLabels
<1> QED
  BY <1>1, <1>2, InitInv, SendersStep, PTL DEF Spec

\* Outside of a speed test the audio gate is open only if an SPS has opened the stream
\* (media_send_audio, media_speed_test), whichever threads do what.
THEOREM AudioWaits == Spec => []AudioWaitsForVideo
<1>1. SendersInv /\ AudioWaitsForVideo /\ [Next]_vars => AudioWaitsForVideo'
  <2> SUFFICES ASSUME TypeOK, AudioWaitsForVideo, [Next]_vars PROVE AudioWaitsForVideo'
    BY DEF SendersInv
  <2>1. CASE UNCHANGED vars
    BY <2>1, StutterInv
  <2>2. ASSUME NEW t \in Threads, Start(t) \/ Step(t)
        PROVE  AudioWaitsForVideo'
    <3> USE DEF flagVars, mutexVars, holdVars, callVars
    <3>1. CASE Start(t) \/ Manage(t) \/ Video(t)
      <4>1. ~sentFirstFrame' \/ started' \/ (UNCHANGED <<sentFirstFrame, started>> /\ ~InTest(t))
        BY <3>1 DEF Start, SendAudio, SendVideo, StartTest, InitMedia, DestroyMedia, Begin, Goto,
             Video, VideoGate, VideoTry, VideoCheck, VideoIdr, VideoFull, VideoQueue,
             VideoUnlock, Manage, InitClearsTest, InitReady, DestroyLock, DestroyClear,
             DestroyUnlock, DestroyAwaitsTest, DestroyFree, InTest
      <4>2. \A u \in Threads : InTest(u) /\ u # t => InTest(u)'
        <5>1. \A u \in Threads : u # t => pc'[u] = pc[u] /\ back'[u] = back[u]
          BY <2>2, <3>1, OthersStay DEF Start, SendAudio, SendVideo, StartTest, InitMedia,
               DestroyMedia, Video, VideoGate, VideoTry, VideoCheck, VideoIdr, VideoFull,
               VideoQueue, VideoUnlock, Manage, InitClearsTest, InitReady, DestroyLock,
               DestroyClear, DestroyUnlock, DestroyAwaitsTest, DestroyFree, TypeOK
        <5> QED
          BY <5>1 DEF InTest
      <4> QED
        BY <4>1, <4>2 DEF AudioWaitsForVideo
    <3>2. CASE Audio(t)
      <4>1. /\ UNCHANGED <<sentFirstFrame, started, back>> /\ (InTest(t) => InTest(t)')
        BY <3>2 DEF Audio, AudioGate, AudioTry, AudioCheck, AudioQueue, AudioFull, AudioUnlock,
             Goto, TypeOK, InTest
      <4>2. \A u \in Threads : InTest(u) => InTest(u)'
        BY <2>2, <4>1, OthersStay DEF InTest
      <4> QED
        BY <4>1, <4>2 DEF AudioWaitsForVideo
    <3>3. CASE Test(t)
      <4>1. \/ ~sentFirstFrame' \/ InTest(t)'
            \/ UNCHANGED <<sentFirstFrame, started, back>> /\ ~InTest(t)
        BY <3>3 DEF Test, TestCheck, TestBegin, TestSend, EnterAudio, TestSent, TestTimeOver,
             TestReset, TestDone, Goto, TypeOK, InTest
      <4>2. UNCHANGED back => \A u \in Threads : InTest(u) /\ u # t => InTest(u)'
        BY <2>2, OthersStay DEF InTest
      <4> QED
        BY <4>1, <4>2 DEF AudioWaitsForVideo
    <3> QED
      BY <2>2, <3>1, <3>2, <3>3 DEF Step
  <2> QED
    BY <2>1, <2>2, Zenon DEF Next
<1> QED
  BY <1>1, InitInv, SendersStep, PTL DEF Spec
=============================================================================
