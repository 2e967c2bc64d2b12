----------------------------- MODULE MediaGate -----------------------------
(***************************************************************************)
(* Who may touch the media of a session, and when: media_init and          *)
(* media_destroy create and free the packet rings and the media socket,    *)
(* while application threads send audio and video and measure the          *)
(* connection (media_speed_test, which sends through media_send_audio).    *)
(*                                                                         *)
(* They meet in flags of ftl->state (each read or written under            *)
(* state_mutex, one step), in the recursive mutexes of audio and video,    *)
(* and in three unprotected fields that hold media back until the stream   *)
(* can start with a key frame and sound.  What is queued is a step of no   *)
(* further content: NackRing models the ring itself.  os_delete_mutex does *)
(* nothing (posix/threads.c), so that a mutex outlives media_destroy.      *)
(***************************************************************************)
EXTENDS Integers

CONSTANTS
    Threads,
    Calls,          \* the API calls each thread makes, out of CallNames
    NoOne,          \* owner of a free mutex
    MaxLeaks,       \* bound of the model: how often the audio mutex is left locked at once
    MayFill,        \* the components whose ring may be found full
    MaxInits,       \* bound of the model: calls of media_init
    MaxTestPkts     \* bound of the model: packets of one speed test

CallNames == {"audio", "video", "test", "init", "destroy"}
Comps     == {"audio", "video"}

ASSUME GateAssumption ==
    /\ Calls \in [Threads -> SUBSET CallNames]
    /\ NoOne \notin Threads
    /\ MayFill \subseteq Comps
    /\ MaxInits \in Nat /\ MaxLeaks \in Nat /\ MaxTestPkts \in Nat

VARIABLES
    mediaReady,     \* FTL_MEDIA_READY
    speedTest,      \* FTL_SPEED_TEST
    allocated,      \* the rings, their slots and the media socket exist
    owner, depth,   \* audio.mutex and video.mutex: owner, how often it locked it
    readyToSend,    \* audio.is_ready_to_send
    sentFirstFrame, \* video.has_sent_first_frame
    waitForIdr,     \* video.wait_for_idr_frame
    pc,
    back,           \* where media_send_audio returns to
    sentAll,        \* whether its last call took all the data
    testPkts,       \* packets the running speed test may still send
    inits,          \* calls of media_init so far
    started         \* an SPS has opened the stream since the last media_init

flagVars  == <<mediaReady, speedTest>>
mutexVars == <<owner, depth>>
holdVars  == <<readyToSend, sentFirstFrame, waitForIdr, started>>
callVars  == <<back, sentAll, testPkts>>
vars == <<flagVars, allocated, mutexVars, holdVars, pc, callVars, inits>>

Init ==
    /\ mediaReady = FALSE /\ speedTest = FALSE
    /\ allocated = FALSE
    /\ owner = [m \in Comps |-> NoOne]
    /\ depth = [m \in Comps |-> 0]
    /\ readyToSend = FALSE /\ sentFirstFrame = FALSE /\ waitForIdr = FALSE
    /\ pc = [t \in Threads |-> "idle"]
    /\ back = [t \in Threads |-> "idle"]
    /\ sentAll = [t \in Threads |-> FALSE]
    /\ testPkts = 0
    /\ inits = 0
    /\ started = FALSE

Goto(t, from, to) == pc[t] = from /\ pc' = [pc EXCEPT ![t] = to]

Begin(t, call, to) == call \in Calls[t] /\ Goto(t, "idle", to)

MayLock(t, m) == owner[m] \in {NoOne, t}

Lock(t, m) ==
    /\ MayLock(t, m)
    /\ owner' = [owner EXCEPT ![m] = t]
    /\ depth' = [depth EXCEPT ![m] = @ + 1]

\* Mutant: the recursion count is not counted down.
Unlock_KeepsDepth(t, m) ==
    IF owner[m] = t
      THEN owner' = [owner EXCEPT ![m] = NoOne] /\ UNCHANGED depth
      ELSE UNCHANGED mutexVars

\* pthread_mutex_unlock refuses a thread that is not the owner.
Unlock(t, m) ==
    IF owner[m] = t
      THEN /\ depth' = [depth EXCEPT ![m] = @ - 1]
           /\ owner' = [owner EXCEPT ![m] = IF depth[m] = 1 THEN NoOne ELSE t]
      ELSE UNCHANGED mutexVars

-----------------------------------------------------------------------------
(* media_send_audio *)

\* The first audio packet says that audio is ready, even if it is then dropped.
EnterAudio(t) ==
    /\ readyToSend' = TRUE
    /\ sentAll' = [sentAll EXCEPT ![t] = FALSE]

SendAudio(t) ==
    /\ Begin(t, "audio", "a_gate")
    /\ EnterAudio(t)
    /\ back' = [back EXCEPT ![t] = "idle"]
    /\ UNCHANGED <<flagVars, allocated, mutexVars, sentFirstFrame, waitForIdr, started,
                   testPkts, inits>>

\* "don't send audio data until the video is also sending".
AudioGate(t) ==
    /\ Goto(t, "a_gate", IF sentFirstFrame THEN "a_try" ELSE back[t])
    /\ UNCHANGED <<flagVars, allocated, mutexVars, holdVars, callVars, inits>>

AudioTry(t) ==
    /\ IF MayLock(t, "audio")
         THEN Lock(t, "audio") /\ Goto(t, "a_try", "a_check")
         ELSE UNCHANGED mutexVars /\ Goto(t, "a_try", back[t])
    /\ UNCHANGED <<flagVars, allocated, holdVars, callVars, inits>>

AudioCheck(t) ==
    /\ Goto(t, "a_check", IF mediaReady THEN "a_loop" ELSE "a_unlock")
    /\ UNCHANGED <<flagVars, allocated, mutexVars, holdVars, callVars, inits>>

AudioQueue(t) ==
    /\ Goto(t, "a_loop", "a_unlock")
    /\ sentAll' = [sentAll EXCEPT ![t] = TRUE]
    /\ UNCHANGED <<flagVars, allocated, mutexVars, holdVars, back, testPkts, inits>>

\* No free slot: the call returns with the mutex locked.
AudioFull(t) ==
    /\ "audio" \in MayFill /\ depth["audio"] <= MaxLeaks
    /\ Goto(t, "a_loop", back[t])
    /\ UNCHANGED <<flagVars, allocated, mutexVars, holdVars, callVars, inits>>

AudioUnlock(t) ==
    /\ Goto(t, "a_unlock", back[t])
    /\ Unlock(t, "audio")
    /\ UNCHANGED <<flagVars, allocated, holdVars, callVars, inits>>

Audio(t) ==
    AudioGate(t) \/ AudioTry(t) \/ AudioCheck(t) \/ AudioQueue(t) \/ AudioFull(t) \/ AudioUnlock(t)

-----------------------------------------------------------------------------
(* media_send_video *)

SendVideo(t) ==
    /\ Begin(t, "video", "v_gate")
    /\ UNCHANGED <<flagVars, allocated, mutexVars, holdVars, callVars, inits>>

VideoGate(t) ==
    /\ Goto(t, "v_gate", IF readyToSend THEN "v_try" ELSE "idle")
    /\ UNCHANGED <<flagVars, allocated, mutexVars, holdVars, callVars, inits>>

VideoTry(t) ==
    /\ IF MayLock(t, "video")
         THEN Lock(t, "video") /\ Goto(t, "v_try", "v_check")
         ELSE UNCHANGED mutexVars /\ Goto(t, "v_try", "idle")
    /\ UNCHANGED <<flagVars, allocated, holdVars, callVars, inits>>

VideoCheck(t) ==
    /\ Goto(t, "v_check", IF mediaReady THEN "v_idr" ELSE "v_unlock")
    /\ UNCHANGED <<flagVars, allocated, mutexVars, holdVars, callVars, inits>>

\* While a key frame is awaited only an SPS (sps) gets through, and ends the wait.
VideoIdr(t, sps) ==
    /\ IF ~waitForIdr
         THEN Goto(t, "v_idr", "v_loop") /\ UNCHANGED holdVars
         ELSE IF sps
           THEN /\ Goto(t, "v_idr", "v_loop")
                /\ waitForIdr' = FALSE /\ sentFirstFrame' = TRUE /\ started' = TRUE
                /\ UNCHANGED readyToSend
           ELSE Goto(t, "v_idr", "v_unlock") /\ UNCHANGED holdVars
    /\ UNCHANGED <<flagVars, allocated, mutexVars, callVars, inits>>

VideoQueue(t) ==
    /\ Goto(t, "v_loop", "v_unlock")
    /\ UNCHANGED <<flagVars, allocated, mutexVars, holdVars, callVars, inits>>

\* No free slot: if the data was needed by others (nri), wait for the next key frame.
VideoFull(t, nri) ==
    /\ "video" \in MayFill
    /\ Goto(t, "v_loop", "v_unlock")
    /\ waitForIdr' = (waitForIdr \/ nri)
    /\ UNCHANGED <<flagVars, allocated, mutexVars, readyToSend, sentFirstFrame, started,
                   callVars, inits>>

\* Mutant: video, like audio, returns with its mutex locked.
VideoUnlock_Leaks(t) ==
    /\ depth["video"] = 1
    /\ Goto(t, "v_unlock", "idle")
    /\ UNCHANGED <<flagVars, allocated, mutexVars, holdVars, callVars, inits>>

VideoUnlock(t) ==
    /\ Goto(t, "v_unlock", "idle")
    /\ Unlock(t, "video")
    /\ UNCHANGED <<flagVars, allocated, holdVars, callVars, inits>>

Video(t) ==
    \/ VideoGate(t) \/ VideoTry(t) \/ VideoCheck(t)
    \/ \E b \in BOOLEAN : VideoIdr(t, b) \/ VideoFull(t, b)
    \/ VideoQueue(t) \/ VideoUnlock(t)

-----------------------------------------------------------------------------
(* media_speed_test *)

StartTest(t) ==
    /\ Begin(t, "test", "t_check")
    /\ speedTest' = TRUE
    /\ UNCHANGED <<mediaReady, allocated, mutexVars, holdVars, callVars, inits>>

TestCheck(t) ==
    /\ Goto(t, "t_check", IF mediaReady THEN "t_begin" ELSE "t_done")
    /\ UNCHANGED <<flagVars, allocated, mutexVars, holdVars, callVars, inits>>

\* The test pretends that video has started, so that its audio packets get through.
TestBegin(t) ==
    /\ Goto(t, "t_begin", "t_loop")
    /\ sentFirstFrame' = TRUE
    /\ testPkts' = MaxTestPkts
    /\ UNCHANGED <<flagVars, allocated, mutexVars, readyToSend, waitForIdr, started, back,
                   sentAll, inits>>

TestSend(t) ==
    /\ Goto(t, "t_loop", "a_gate")
    /\ testPkts > 0
    /\ testPkts' = testPkts - 1
    /\ EnterAudio(t)
    /\ back' = [back EXCEPT ![t] = "t_sent"]
    /\ UNCHANGED <<flagVars, allocated, mutexVars, sentFirstFrame, waitForIdr, started, inits>>

\* A packet that did not get through whole ends the test.
TestSent(t) ==
    /\ Goto(t, "t_sent", IF sentAll[t] THEN "t_loop" ELSE "t_reset")
    /\ UNCHANGED <<flagVars, allocated, mutexVars, holdVars, callVars, inits>>

TestTimeOver(t) ==
    /\ Goto(t, "t_loop", "t_reset")
    /\ UNCHANGED <<flagVars, allocated, mutexVars, holdVars, callVars, inits>>

\* Mutant: the gate stays open after the test.
TestReset_KeepsGate(t) ==
    /\ Goto(t, "t_reset", "t_done")
    /\ UNCHANGED <<flagVars, allocated, mutexVars, holdVars, callVars, inits>>

TestReset(t) ==
    /\ Goto(t, "t_reset", "t_done")
    /\ sentFirstFrame' = FALSE
    /\ UNCHANGED <<flagVars, allocated, mutexVars, readyToSend, waitForIdr, started, callVars,
                   inits>>

TestDone(t) ==
    /\ Goto(t, "t_done", "idle")
    /\ speedTest' = FALSE
    /\ UNCHANGED <<mediaReady, allocated, mutexVars, holdVars, callVars, inits>>

Test(t) ==
    \/ TestCheck(t) \/ TestBegin(t) \/ TestSend(t) \/ TestSent(t) \/ TestTimeOver(t)
    \/ TestReset(t) \/ TestDone(t)

-----------------------------------------------------------------------------
(* media_init and media_destroy *)

InitLabels    == {"i_speed", "i_ready"}
DestroyLabels == {"m_audio", "m_video", "m_clear", "m_unvideo", "m_unaudio", "m_test", "m_free"}

\* The session (Session) never initialises and destroys the media at the same time.
NobodyManages == \A t \in Threads : pc[t] \notin InitLabels \cup DestroyLabels

InSend(t) == pc[t] \in {"a_check", "a_loop", "a_unlock", "v_check", "v_idr", "v_loop", "v_unlock"}

\* The mutexes are initialised again, whoever has them.  An application does not reconnect
\* while one of its threads is still inside a send.
InitMedia(t) ==
    /\ NobodyManages
    /\ ~mediaReady /\ inits < MaxInits
    /\ \A u \in Threads : ~InSend(u)
    /\ Begin(t, "init", "i_speed")
    /\ inits' = inits + 1
    /\ allocated' = TRUE
    /\ owner' = [m \in Comps |-> NoOne]
    /\ depth' = [m \in Comps |-> 0]
    /\ readyToSend' = FALSE /\ sentFirstFrame' = FALSE /\ waitForIdr' = TRUE
    /\ started' = FALSE
    /\ UNCHANGED <<flagVars, callVars>>

InitClearsTest(t) ==
    /\ Goto(t, "i_speed", "i_ready")
    /\ speedTest' = FALSE
    /\ UNCHANGED <<mediaReady, allocated, mutexVars, holdVars, callVars, inits>>

InitReady(t) ==
    /\ Goto(t, "i_ready", "idle")
    /\ mediaReady' = TRUE
    /\ UNCHANGED <<speedTest, allocated, mutexVars, holdVars, callVars, inits>>

DestroyMedia(t) ==
    /\ NobodyManages
    /\ mediaReady
    /\ Begin(t, "destroy", "m_audio")
    /\ UNCHANGED <<flagVars, allocated, mutexVars, holdVars, callVars, inits>>

DestroyLock(t, m, from, to) ==
    /\ Goto(t, from, to)
    /\ Lock(t, m)
    /\ UNCHANGED <<flagVars, allocated, holdVars, callVars, inits>>

DestroyClear(t) ==
    /\ Goto(t, "m_clear", "m_unvideo")
    /\ mediaReady' = FALSE
    /\ UNCHANGED <<speedTest, allocated, mutexVars, holdVars, callVars, inits>>

DestroyUnlock(t, m, from, to) ==
    /\ Goto(t, from, to)
    /\ Unlock(t, m)
    /\ UNCHANGED <<flagVars, allocated, holdVars, callVars, inits>>

\* Mutant: a running speed test is not waited for.
DestroyAwaitsTest_NoWait(t) ==
    /\ Goto(t, "m_test", "m_free")
    /\ UNCHANGED <<flagVars, allocated, mutexVars, holdVars, callVars, inits>>

\* It polls until no speed test is running.
DestroyAwaitsTest(t) ==
    /\ ~speedTest
    /\ Goto(t, "m_test", "m_free")
    /\ UNCHANGED <<flagVars, allocated, mutexVars, holdVars, callVars, inits>>

\* _internal_media_destroy.
DestroyFree(t) ==
    /\ Goto(t, "m_free", "idle")
    /\ allocated' = FALSE
    /\ UNCHANGED <<flagVars, mutexVars, holdVars, callVars, inits>>

Manage(t) ==
    \/ InitClearsTest(t) \/ InitReady(t)
    \/ DestroyLock(t, "audio", "m_audio", "m_video")
    \/ DestroyLock(t, "video", "m_video", "m_clear")
    \/ DestroyClear(t)
    \/ DestroyUnlock(t, "video", "m_unvideo", "m_unaudio")
    \/ DestroyUnlock(t, "audio", "m_unaudio", "m_test")
    \/ DestroyAwaitsTest(t) \/ DestroyFree(t)

-----------------------------------------------------------------------------
Start(t) == SendAudio(t) \/ SendVideo(t) \/ StartTest(t) \/ InitMedia(t) \/ DestroyMedia(t)

Step(t) == Audio(t) \/ Video(t) \/ Test(t) \/ Manage(t)

Next == \E t \in Threads : Start(t) \/ Step(t)

Spec == Init /\ [][Next]_vars

\* A thread inside a call goes on.  The mutexes are fair: a thread that waits in
\* os_lock_mutex gets a mutex that is released again and again.
FairSpec == Spec /\ \A t \in Threads : SF_vars(Step(t))

-----------------------------------------------------------------------------
(* Properties *)

Labels ==
    {"idle", "a_gate", "a_try", "a_check", "a_loop", "a_unlock", "v_gate", "v_try", "v_check",
     "v_idr", "v_loop", "v_unlock", "t_check", "t_begin", "t_loop", "t_sent", "t_reset",
     "t_done"} \cup InitLabels \cup DestroyLabels

TypeOK ==
    /\ mediaReady \in BOOLEAN /\ speedTest \in BOOLEAN /\ allocated \in BOOLEAN
    /\ owner \in [Comps -> Threads \cup {NoOne}]
    /\ depth \in [Comps -> Nat] /\ \A m \in Comps : owner[m] = NoOne <=> depth[m] = 0
    /\ readyToSend \in BOOLEAN /\ sentFirstFrame \in BOOLEAN /\ waitForIdr \in BOOLEAN
    /\ started \in BOOLEAN
    /\ pc \in [Threads -> Labels]
    /\ back \in [Threads -> {"idle", "t_sent"}]
    /\ sentAll \in [Threads -> BOOLEAN]
    /\ testPkts \in 0..MaxTestPkts /\ inits \in 0..MaxInits

\* Inside media_speed_test, or inside a media_send_audio that it called.
InTest(t) ==
    \/ pc[t] \in {"t_begin", "t_loop", "t_sent", "t_reset"}
    \/ back[t] = "t_sent" /\ pc[t] \in {"a_gate", "a_try", "a_check", "a_loop", "a_unlock"}

\* No thread writes into a packet ring, or sends a test packet through the media socket,
\* that media_destroy has freed: a sender has looked at FTL_MEDIA_READY under the mutex that
\* media_destroy takes to clear it, a speed test has raised FTL_SPEED_TEST before it looked.
UsedWhileAllocated ==
    \A t \in Threads : pc[t] \in {"a_loop", "v_idr", "v_loop"} \/ InTest(t) => allocated

\* "don't send audio data until the video is also sending": outside of a speed test the
\* audio gate opens only when an SPS has opened the stream of this session.
AudioWaitsForVideo ==
    sentFirstFrame => started \/ \E t \in Threads : InTest(t)

\* media_send_audio has left its mutex locked.
Leaked == owner["audio"] # NoOne /\ ~InSend(owner["audio"]) /\ pc[owner["audio"]] \notin DestroyLabels

\* A call that is in progress ends: media_destroy does not wait for ever for a mutex or a
\* speed test, although it is called by the very threads that send.  Only an audio mutex
\* that was left locked can hold it.
CallsEnd == \A t \in Threads : pc[t] # "idle" ~> (pc[t] = "idle" \/ Leaked)

\* "Take the locks and then clear the flag.  This will ensure we aren't in the middle of a
\* send": media_destroy gets the locks.
DestroyEnds == \A t \in Threads : pc[t] = "m_audio" ~> pc[t] = "idle"

=============================================================================
