------------------------------ MODULE Session ------------------------------
(***************************************************************************)
(* One handle of the SDK from connection to destruction: the application's *)
(* calls of ftl_ingest_connect, ftl_adaptive_bitrate_thread,               *)
(* ftl_ingest_disconnect and ftl_ingest_destroy, the connection status     *)
(* thread that tears the session down when the ingest drops it, and the    *)
(* threads they start and stop.                                            *)
(*                                                                         *)
(* Every attempt to connect has a number; the n-th attempt starts the n-th *)
(* instance of each thread.  A flag of ftl->state and a thread handle      *)
(* exist once: a thread cannot tell whether the flag it reads was set for  *)
(* it.  Each flag is read or written under state_mutex, in one step.  The  *)
(* shutdown semaphores only shorten waits that also time out; they are     *)
(* left out.  The media threads (receive, send, ping) are started and      *)
(* stopped together and are one worker here.                               *)
(***************************************************************************)
EXTENDS Integers, FiniteSets

CONSTANTS
    App,            \* the application thread that calls the API
    NoOne,          \* owner of a free mutex
    MaxConnects,    \* bound of the model: calls of ftl_ingest_connect
    ConnectWhen,    \* when the application connects, besides the first time and after a
                    \* failure: once it is "told" of a drop (as ftl_app does), after it
                    \* "disconnected", while it is still "connected"
    EarlyDrop,      \* whether the ingest may drop a session that the application is still
                    \* setting up: connecting, or starting the bitrate thread
    CreateMayFail   \* whether os_create_thread can fail

ASSUME SessionAssumption ==
    /\ MaxConnects \in Nat
    /\ App \notin 1..MaxConnects /\ NoOne \notin 1..MaxConnects \cup {App}
    /\ ConnectWhen \subseteq {"told", "disconnected", "connected"}
    /\ EarlyDrop \in BOOLEAN /\ CreateMayFail \in BOOLEAN

Instances == 1..MaxConnects
Callers   == {App} \cup Instances       \* n: the n-th connection status thread
Workers   == {"media", "keepalive", "bitrate"}

VARIABLES
    connected,      \* FTL_CONNECTED
    mediaReady,     \* FTL_MEDIA_READY
    flag,           \* FTL_RX/TX/PING_THRD (together), FTL_KEEPALIVE_THRD,
                    \* FTL_BITRATE_THRD, FTL_CXN_STATUS_THRD
    thread,         \* what each instance of each worker does
    handle,         \* the instance in the worker's thread handle (0: none yet)
    joining,        \* the instance a caller is waiting for in os_wait_thread, 0: none
    socket,         \* the attempt whose control socket is ingest_socket, 0: none
    disconnectMutex,\* owner of disconnect_mutex
    pc, ret,        \* where a caller is, and where a teardown returns to
    attempt,        \* calls of ftl_ingest_connect so far
    dropped,        \* attempts whose session the ingest has dropped
    result,         \* what the application's last call returned
    events,         \* DISCONNECTED events queued for each attempt
    freed           \* the handle was destroyed

flagVars   == <<connected, mediaReady, flag>>
threadVars == <<thread, handle, joining>>
envVars    == <<attempt, dropped>>
vars == <<flagVars, threadVars, socket, disconnectMutex, pc, ret, envVars, result,
          events, freed>>

Init ==
    /\ connected = FALSE
    /\ mediaReady = FALSE
    /\ flag = [w \in Workers \cup {"cxn"} |-> FALSE]
    /\ thread = [w \in Workers |-> [i \in Instances |-> "none"]]
    /\ handle = [w \in Workers \cup {"cxn"} |-> 0]
    /\ joining = [t \in Callers |-> 0]
    /\ socket = 0
    /\ disconnectMutex = NoOne
    /\ pc = [t \in Callers |-> IF t = App THEN "idle" ELSE "none"]
    /\ ret = [t \in Callers |-> "none"]
    /\ attempt = 0
    /\ dropped = {}
    /\ result = "none"
    /\ events = [i \in Instances |-> 0]
    /\ freed = FALSE

Goto(t, from, to) == pc[t] = from /\ pc' = [pc EXCEPT ![t] = to]

\* A call of the subroutine at label sub, to return to label back.
Call(t, from, sub, back) ==
    /\ Goto(t, from, sub)
    /\ ret' = [ret EXCEPT ![t] = back]

-----------------------------------------------------------------------------
(* internal_ingest_disconnect and _ingest_disconnect, run by thread t: each part is *)
(* stopped if its flag is set: the flag is cleared and the thread joined.           *)

Test(t, set, from, then, else) ==
    /\ IF set THEN Goto(t, from, then) ELSE Goto(t, from, else)
    /\ UNCHANGED <<flagVars, threadVars, socket, disconnectMutex, ret, envVars, result,
                   events, freed>>

Clear(t, w, from, to) ==
    /\ Goto(t, from, to)
    /\ flag' = [flag EXCEPT ![w] = FALSE]
    /\ UNCHANGED <<connected, mediaReady, threadVars, socket, disconnectMutex, ret, envVars,
                   result, events, freed>>

\* os_wait_thread takes the thread that the handle names when it is called, and returns when
\* that thread has ended.
WaitFor(t, w, at) ==
    /\ pc[t] = at /\ joining[t] = 0 /\ handle[w] # 0
    /\ joining' = [joining EXCEPT ![t] = handle[w]]
    /\ UNCHANGED <<flagVars, thread, handle, socket, disconnectMutex, pc, ret, envVars, result,
                   events, freed>>

Join(t, w, from, to) ==
    /\ joining[t] # 0 /\ thread[w][joining[t]] # "running"
    /\ thread' = [thread EXCEPT ![w][joining[t]] = "joined"]
    /\ joining' = [joining EXCEPT ![t] = 0]
    /\ Goto(t, from, to)
    /\ UNCHANGED <<flagVars, handle, socket, disconnectMutex, ret, envVars, result,
                   events, freed>>

StopWorker(t, w, test, clear, join, next) ==
    \/ Test(t, flag[w], test, clear, next)
    \/ Clear(t, w, clear, join)
    \/ WaitFor(t, w, join)
    \/ Join(t, w, join, next)

\* media_destroy does nothing unless the media are ready.
MediaNotReady(t) ==
    /\ Goto(t, "d_mclear", "d_mtest")
    /\ mediaReady' = FALSE
    /\ UNCHANGED <<connected, flag, threadVars, socket, disconnectMutex, ret, envVars, result,
                   events, freed>>

DestroyMedia(t) ==
    \/ Test(t, mediaReady, "d_media", "d_mclear", "d_keepalive")
    \/ MediaNotReady(t)
    \/ StopWorker(t, "media", "d_mtest", "k_media", "j_media", "d_keepalive")

JoinStatusThread(t) ==
    /\ joining[t] # 0 /\ pc[joining[t]] = "exited"
    /\ pc[t] = "j_cxn"
    /\ pc' = [pc EXCEPT ![t] = "d_bitrate", ![joining[t]] = "joined"]
    /\ joining' = [joining EXCEPT ![t] = 0]
    /\ UNCHANGED <<flagVars, thread, handle, socket, disconnectMutex, ret, envVars, result,
                   events, freed>>

ClearConnected(t) ==
    /\ Goto(t, "d_conn", "d_close")
    /\ connected' = FALSE
    /\ UNCHANGED <<mediaReady, flag, threadVars, socket, disconnectMutex, ret, envVars,
                   result, events, freed>>

\* Mutant: the teardown leaves the control socket open.
CloseSocket_KeepsIt(t) ==
    /\ Goto(t, "d_close", ret[t])
    /\ UNCHANGED <<flagVars, threadVars, socket, disconnectMutex, ret, envVars, result, events,
                   freed>>

\* Mutant: the closed socket is INVALID_SOCKET, which the handle never has.
CloseSocket_Invalid(t) ==
    /\ Goto(t, "d_close", ret[t])
    /\ socket' = -1
    /\ UNCHANGED <<flagVars, threadVars, disconnectMutex, ret, envVars, result, events,
                   freed>>

CloseSocket(t) ==
    /\ Goto(t, "d_close", ret[t])
    /\ socket' = 0
    /\ UNCHANGED <<flagVars, threadVars, disconnectMutex, ret, envVars, result, events,
                   freed>>

StopStatusThread(t) ==
    \/ Test(t, flag["cxn"], "d_cxn", "k_cxn", "d_bitrate")
    \/ Clear(t, "cxn", "k_cxn", "j_cxn")
    \/ WaitFor(t, "cxn", "j_cxn")
    \/ JoinStatusThread(t)

Teardown(t) ==
    \/ DestroyMedia(t)
    \/ StopWorker(t, "keepalive", "d_keepalive", "k_keepalive", "j_keepalive", "d_cxn")
    \/ StopStatusThread(t)
    \/ StopWorker(t, "bitrate", "d_bitrate", "k_bitrate", "j_bitrate", "d_conn")
    \/ ClearConnected(t)
    \/ CloseSocket(t)

LockDisconnect(t) == disconnectMutex = NoOne /\ disconnectMutex' = t
UnlockDisconnect(t) == disconnectMutex = t /\ disconnectMutex' = NoOne

\* DISCONNECTED event for the session of attempt i.
QueueEvent(i) == events' = [events EXCEPT ![i] = @ + 1]

-----------------------------------------------------------------------------
(* ftl_ingest_connect *)

\* When this application calls it: its usage of the API, not a condition of the code.
MayConnect ==
    \/ attempt = 0
    \/ result \in {"CONNECT_ERROR", "REFUSED", "MALLOC_FAILURE", "SOCKET_NOT_CONNECTED"}
    \/ "told" \in ConnectWhen /\ result = "SUCCESS" /\ events[attempt] > 0
    \/ "disconnected" \in ConnectWhen /\ result = "DISCONNECTED"
    \/ "connected" \in ConnectWhen /\ result = "SUCCESS"

\* _init_control_connection refuses a handle that is connected.
Connect ==
    /\ ~freed /\ MayConnect
    /\ attempt < MaxConnects
    /\ attempt' = attempt + 1
    /\ IF connected
         THEN result' = "ALREADY_CONNECTED" /\ Goto(App, "idle", "c_fail")
         ELSE result' = "pending" /\ Goto(App, "idle", "c_open")
    /\ UNCHANGED <<flagVars, threadVars, socket, disconnectMutex, ret, dropped, events,
                   freed>>

OpenSocket ==
    /\ \/ Goto(App, "c_open", "c_handshake") /\ socket' = attempt /\ UNCHANGED result
       \/ Goto(App, "c_open", "c_fail") /\ result' = "CONNECT_ERROR" /\ UNCHANGED socket
    /\ UNCHANGED <<flagVars, threadVars, disconnectMutex, ret, envVars, events, freed>>

\* _ingest_connect checks for the socket first.  It sets FTL_CONNECTED before it starts its
\* two threads; if it fails it tears down what it has, without disconnect_mutex.
Handshake ==
    /\ \/ /\ socket = 0
          /\ Goto(App, "c_handshake", "c_fail")
          /\ result' = "SOCKET_NOT_CONNECTED"
          /\ UNCHANGED <<connected, ret>>
       \/ /\ socket # 0
          /\ Goto(App, "c_handshake", "c_cxn")
          /\ connected' = TRUE
          /\ UNCHANGED <<ret, result>>
       \/ /\ socket # 0
          /\ Call(App, "c_handshake", "d_keepalive", "c_fail")
          /\ result' = "REFUSED"
          /\ UNCHANGED connected
    /\ UNCHANGED <<mediaReady, flag, threadVars, socket, disconnectMutex, envVars, events,
                   freed>>

SetFlag(w, from, to) ==
    /\ Goto(App, from, to)
    /\ flag' = [flag EXCEPT ![w] = TRUE]
    /\ UNCHANGED <<connected, mediaReady, threadVars, socket, disconnectMutex, ret, envVars,
                   result, events, freed>>

CreateStatusThread ==
    /\ pc[App] = "c_cxnthread"
    /\ pc' = [pc EXCEPT ![App] = "c_keepalive", ![attempt] = "s_loop"]
    /\ handle' = [handle EXCEPT !["cxn"] = attempt]
    /\ UNCHANGED <<flagVars, thread, joining, socket, disconnectMutex, ret, envVars, result, events,
                   freed>>

CreateThread(w, from, to) ==
    /\ Goto(App, from, to)
    /\ thread' = [thread EXCEPT ![w][attempt] = "running"]
    /\ handle' = [handle EXCEPT ![w] = attempt]
    /\ UNCHANGED <<flagVars, joining, socket, disconnectMutex, ret, envVars, result, events, freed>>

\* The thread cannot be created: its flag is cleared and the connection is torn down.
CreateFails(w, from) ==
    /\ CreateMayFail
    /\ Call(App, from, "d_keepalive", "c_fail")
    /\ flag' = [flag EXCEPT ![w] = FALSE]
    /\ result' = "MALLOC_FAILURE"
    /\ UNCHANGED <<connected, mediaReady, threadVars, socket, disconnectMutex, envVars,
                   events, freed>>

\* media_init does nothing if the media are ready.
InitMedia ==
    /\ IF mediaReady
         THEN Goto(App, "c_media", "idle") /\ result' = "SUCCESS"
         ELSE Goto(App, "c_media", "c_mflag") /\ UNCHANGED result
    /\ UNCHANGED <<flagVars, threadVars, socket, disconnectMutex, ret, envVars, events,
                   freed>>

\* One of the media threads cannot be created: media_init takes the others down itself.
\* Outside the model: if it is the audio send thread, the flag it shares with the video send
\* thread is cleared and that thread, waiting for a packet, is not joined (media.c:187-190).
InitMediaFails ==
    /\ CreateMayFail
    /\ Goto(App, "c_mthread", "c_fail")
    /\ flag' = [flag EXCEPT !["media"] = FALSE]
    /\ result' = "MALLOC_FAILURE"
    /\ UNCHANGED <<connected, mediaReady, threadVars, socket, disconnectMutex, ret, envVars,
                   events, freed>>

MediaIsReady ==
    /\ Goto(App, "c_mready", "idle")
    /\ mediaReady' = TRUE
    /\ result' = "SUCCESS"
    /\ UNCHANGED <<connected, flag, threadVars, socket, disconnectMutex, ret, envVars,
                   events, freed>>

\* A connect that failed, for whatever reason, tears the handle's session down if it gets
\* disconnect_mutex at once.
ConnectFailed ==
    /\ IF disconnectMutex = NoOne
         THEN LockDisconnect(App) /\ Call(App, "c_fail", "d_media", "c_unlock")
         ELSE Goto(App, "c_fail", "idle") /\ UNCHANGED <<disconnectMutex, ret>>
    /\ UNCHANGED <<flagVars, threadVars, socket, envVars, result, events, freed>>

ConnectUnlock ==
    /\ Goto(App, "c_unlock", "idle")
    /\ UnlockDisconnect(App)
    /\ UNCHANGED <<flagVars, threadVars, socket, ret, envVars, result, events, freed>>

Connecting ==
    \/ OpenSocket \/ Handshake
    \/ SetFlag("cxn", "c_cxn", "c_cxnthread")
    \/ CreateStatusThread \/ CreateFails("cxn", "c_cxnthread")
    \/ SetFlag("keepalive", "c_keepalive", "c_kathread")
    \/ CreateThread("keepalive", "c_kathread", "c_media") \/ CreateFails("keepalive", "c_kathread")
    \/ InitMedia
    \/ SetFlag("media", "c_mflag", "c_mthread")
    \/ CreateThread("media", "c_mthread", "c_mready") \/ InitMediaFails
    \/ MediaIsReady
    \/ ConnectFailed \/ ConnectUnlock

-----------------------------------------------------------------------------
(* The threads of a session *)

\* control_keepalive_thread, the media threads and adaptive_bitrate_thread run until they
\* find their flag cleared.
WorkerExits(w, i) ==
    /\ thread[w][i] = "running" /\ ~flag[w]
    /\ thread' = [thread EXCEPT ![w][i] = "exited"]
    /\ UNCHANGED <<flagVars, handle, joining, socket, disconnectMutex, pc, ret, envVars, result, events,
                   freed>>

\* The ingest closes the connection, sends an error or stops answering pings; unless
\* EarlyDrop, not while the session is set up.
IngestDrops(i) ==
    /\ pc[i] = "s_loop" /\ socket = i /\ i \notin dropped
    /\ EarlyDrop \/ (result = "SUCCESS" /\ pc[App] # "b_flag")
    /\ dropped' = dropped \cup {i}
    /\ UNCHANGED <<flagVars, threadVars, socket, disconnectMutex, pc, ret, attempt, result,
                   events, freed>>

StatusMove(i, from, to) ==
    /\ Goto(i, from, to)
    /\ UNCHANGED <<flagVars, threadVars, socket, disconnectMutex, ret, envVars, result, events,
                   freed>>

\* Mutant: the status thread ends at the error instead of handling it.
StatusLoop_GivesUp(i) ==
    \/ (~flag["cxn"] \/ i \in dropped) /\ StatusMove(i, "s_loop", "exited")
    \/ StatusMove(i, "s_check", IF flag["cxn"] THEN "s_clear" ELSE "exited")

\* connection_status_thread: it leaves its loop when its flag is cleared, and looks at the
\* flag once more when it has found the connection dropped.
StatusLoop(i) ==
    \/ ~flag["cxn"] /\ StatusMove(i, "s_loop", "exited")
    \/ i \in dropped /\ StatusMove(i, "s_loop", "s_check")
    \/ StatusMove(i, "s_check", IF flag["cxn"] THEN "s_clear" ELSE "exited")

\* Mutant: the status thread does not clear its own flag.
StatusClearsFlag_Never(i) == StatusMove(i, "s_clear", "s_try")

\* It clears its own flag, so that the teardown does not join it.
StatusClearsFlag(i) == Clear(i, "cxn", "s_clear", "s_try")

\* Mutant: the answer of the trylock is ignored.
StatusTriesLock_Ignored(i) ==
    /\ Call(i, "s_try", "d_media", "s_unlock")
    /\ disconnectMutex' = i
    /\ UNCHANGED <<flagVars, threadVars, socket, envVars, result, events, freed>>

StatusTriesLock(i) ==
    /\ IF disconnectMutex = NoOne
         THEN LockDisconnect(i) /\ Call(i, "s_try", "d_media", "s_unlock")
         ELSE Goto(i, "s_try", "s_event") /\ UNCHANGED <<disconnectMutex, ret>>
    /\ UNCHANGED <<flagVars, threadVars, socket, envVars, result, events, freed>>

StatusUnlocks(i) ==
    /\ Goto(i, "s_unlock", "s_event")
    /\ UnlockDisconnect(i)
    /\ UNCHANGED <<flagVars, threadVars, socket, ret, envVars, result, events, freed>>

StatusReports(i) ==
    /\ Goto(i, "s_event", "exited")
    /\ QueueEvent(i)
    /\ UNCHANGED <<flagVars, threadVars, socket, disconnectMutex, ret, envVars, result, freed>>

StatusThread(i) ==
    \/ StatusLoop(i) \/ StatusClearsFlag(i)
    \/ StatusTriesLock(i) \/ StatusUnlocks(i) \/ StatusReports(i)

-----------------------------------------------------------------------------
(* ftl_adaptive_bitrate_thread, ftl_ingest_disconnect, ftl_ingest_destroy *)

\* The flag is set only after the thread has been created, once for a session.
StartBitrate ==
    /\ result = "SUCCESS" /\ handle["bitrate"] # attempt
    /\ EarlyDrop \/ attempt \notin dropped
    /\ CreateThread("bitrate", "idle", "b_flag")

Disconnect ==
    /\ ~freed
    /\ result # "none"
    /\ Goto(App, "idle", "x_lock")
    /\ UNCHANGED <<flagVars, threadVars, socket, disconnectMutex, ret, envVars, result, events,
                   freed>>

DisconnectLocks ==
    /\ Goto(App, "x_lock", "x_check")
    /\ LockDisconnect(App)
    /\ UNCHANGED <<flagVars, threadVars, socket, ret, envVars, result, events, freed>>

DisconnectChecks ==
    /\ IF connected
         THEN Call(App, "x_check", "d_media", "x_event")
         ELSE Goto(App, "x_check", "x_unlock") /\ UNCHANGED ret
    /\ UNCHANGED <<flagVars, threadVars, socket, disconnectMutex, envVars, result, events,
                   freed>>

DisconnectReports ==
    /\ Goto(App, "x_event", "x_unlock")
    /\ QueueEvent(attempt)
    /\ UNCHANGED <<flagVars, threadVars, socket, disconnectMutex, ret, envVars, result, freed>>

DisconnectUnlocks ==
    /\ Goto(App, "x_unlock", "idle")
    /\ UnlockDisconnect(App)
    /\ result' = "DISCONNECTED"
    /\ UNCHANGED <<flagVars, threadVars, socket, ret, envVars, events, freed>>

\* ftl_ingest_destroy stops no thread: an application calls it after a disconnect.
Destroy ==
    /\ ~freed
    /\ pc[App] = "idle" /\ result = "DISCONNECTED"
    /\ freed' = TRUE
    /\ UNCHANGED <<flagVars, threadVars, socket, disconnectMutex, pc, ret, envVars, result,
                   events>>

Disconnecting ==
    DisconnectLocks \/ DisconnectChecks \/ DisconnectReports \/ DisconnectUnlocks

\* What a thread does once it is inside a call.
Step(t) ==
    \/ Teardown(t)
    \/ t = App /\ (Connecting \/ Disconnecting \/ SetFlag("bitrate", "b_flag", "idle"))
    \/ t # App /\ StatusThread(t)

Next ==
    \/ Connect \/ StartBitrate \/ Disconnect \/ Destroy
    \/ \E t \in Callers : Step(t)
    \/ \E w \in Workers, i \in Instances : WorkerExits(w, i)
    \/ \E i \in Instances : IngestDrops(i)

Spec == Init /\ [][Next]_vars

\* Threads are scheduled: a thread that can go on does.  Which calls the application makes
\* and whether the ingest drops the session is not promised.
FairSpec ==
    /\ Spec
    /\ \A t \in Callers : WF_vars(Step(t))
    /\ \A w \in Workers, i \in Instances : WF_vars(WorkerExits(w, i))

-----------------------------------------------------------------------------
(* Properties *)

TeardownLabels ==
    {"d_media", "d_mclear", "d_mtest", "k_media", "j_media", "d_keepalive", "k_keepalive",
     "j_keepalive", "d_cxn", "k_cxn", "j_cxn", "d_bitrate", "k_bitrate", "j_bitrate",
     "d_conn", "d_close"}

JoinLabel == [media |-> "j_media", keepalive |-> "j_keepalive", bitrate |-> "j_bitrate"]

ConnectLabels ==
    {"c_open", "c_handshake", "c_cxn", "c_cxnthread", "c_keepalive", "c_kathread", "c_media",
     "c_mflag", "c_mthread", "c_mready", "c_fail", "c_unlock"}

AppLabels == {"idle", "b_flag", "x_lock", "x_check", "x_event", "x_unlock"}
StatusLabels ==
    {"none", "s_loop", "s_check", "s_clear", "s_try", "s_unlock", "s_event", "exited", "joined"}

TypeOK ==
    /\ connected \in BOOLEAN /\ mediaReady \in BOOLEAN /\ freed \in BOOLEAN
    /\ flag \in [Workers \cup {"cxn"} -> BOOLEAN]
    /\ thread \in [Workers -> [Instances -> {"none", "running", "exited", "joined"}]]
    /\ handle \in [Workers \cup {"cxn"} -> 0..MaxConnects]
    /\ joining \in [Callers -> 0..MaxConnects]
    /\ socket \in 0..MaxConnects /\ attempt \in 0..MaxConnects
    /\ disconnectMutex \in Callers \cup {NoOne}
    /\ pc \in [Callers -> TeardownLabels \cup ConnectLabels \cup AppLabels \cup StatusLabels]
    /\ ret \in [Callers -> {"none", "c_fail", "c_unlock", "x_event", "s_unlock"}]
    /\ dropped \subseteq Instances
    /\ result \in {"none", "pending", "SUCCESS", "ALREADY_CONNECTED", "CONNECT_ERROR", "REFUSED",
                   "SOCKET_NOT_CONNECTED", "MALLOC_FAILURE", "DISCONNECTED"}
    /\ events \in [Instances -> Nat]

\* A teardown joins only a thread that was created and that nobody has joined, never the
\* thread it runs on (handshake.c: a status thread that left its flag set would wait for
\* itself), and no two teardowns join the same thread.
NoBadJoin ==
    /\ \A t \in Callers : pc[t] = "j_cxn" =>
         /\ handle["cxn"] \notin {0, t}
         /\ joining[t] # 0 => joining[t] # t /\ pc[joining[t]] # "joined"
    /\ \A t \in Callers, w \in Workers : pc[t] = JoinLabel[w] =>
         /\ handle[w] # 0
         /\ joining[t] # 0 => thread[w][joining[t]] \in {"running", "exited"}
    /\ \A t, u \in Callers : pc[t] = pc[u] /\ t # u =>
         pc[t] \notin {"j_media", "j_keepalive", "j_cxn", "j_bitrate"}

\* The application and the status threads never tear the session down at the same time,
\* although _ingest_connect does it without disconnect_mutex.
TeardownExclusive ==
    \A t, u \in Callers : t # u => ~(pc[t] \in TeardownLabels /\ pc[u] \in TeardownLabels)

AtRest == pc[App] = "idle" /\ disconnectMutex = NoOne

Running(w) == \E i \in Instances : thread[w][i] = "running"

\* When no call is in progress and the handle is not connected, no thread of any
\* session is left running, no control socket is open, and the next connect will not find
\* the media of an old session ready (media_init would then skip its work).
QuietWhenDown ==
    AtRest /\ ~connected =>
        (\A w \in Workers : ~Running(w)) /\ socket = 0 /\ ~mediaReady

\* When no call is in progress and the handle is connected, all that makes the session work
\* belongs to the last attempt and is up: its socket, its media and keepalive threads, and
\* the thread that watches it, unless that has found the session dropped.
WholeWhenUp ==
    AtRest /\ connected =>
        /\ socket = attempt /\ mediaReady
        /\ \A w \in {"media", "keepalive"} : flag[w] /\ thread[w][attempt] = "running"
        /\ attempt \in dropped \/ (flag["cxn"] /\ pc[attempt] = "s_loop")

\* Of the threads that use the handle, ftl_ingest_destroy can find only one still at work: a
\* status thread that has found its session dropped while the application disconnected.
FewOutliveTheHandle ==
    freed => /\ \A w \in Workers : ~Running(w)
             /\ \A i \in Instances \ dropped : pc[i] \in {"none", "exited", "joined"}

\* A teardown, by whichever thread and after whichever failure, takes everything down with it
\* and nothing more: what is left is a whole session or none.
NothingLeftBehind == QuietWhenDown /\ WholeWhenUp /\ FewOutliveTheHandle

\* An application that polls its status learns of every session the ingest has dropped.
DropReported ==
    \A i \in Instances : i \in dropped ~> events[i] > 0

\* Every call returns: no join waits for a thread that is not told to end, and no thread
\* waits for the one that waits for it.
CallsReturn == pc[App] # "idle" ~> pc[App] = "idle"

\* "At this point something is wrong, and we are going to shutdown the connection": the
\* connection that a status thread shuts down is the one it has found to be wrong.
ShutsDownItsOwn ==
    \A i \in Instances : pc[i] = "d_conn" /\ connected => socket = i

=============================================================================
