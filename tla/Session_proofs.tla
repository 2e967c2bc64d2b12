--------------------------- MODULE Session_proofs ---------------------------
(***************************************************************************)
(* The lifecycle of a handle, proved for any number of calls of            *)
(* ftl_ingest_connect: teardowns exclude each other, join what they        *)
(* started, and leave nothing behind, if the application connects only     *)
(* when it has been told that the session is over, and no session is       *)
(* dropped while it is being set up.                                       *)
(***************************************************************************)
EXTENDS Session, TLAPS

-----------------------------------------------------------------------------
(* The inductive invariant *)

Idle(w) == \A i \in Instances : thread[w][i] # "running"

\* The thread of the present attempt was created and not joined, and no other runs.
Only(w) ==
    /\ attempt \in Instances /\ handle[w] = attempt
    /\ thread[w][attempt] \in {"running", "exited"}
    /\ \A i \in Instances \ {attempt} : thread[w][i] # "running"

Up(w)       == flag[w] /\ Only(w) /\ (w # "bitrate" => thread[w][attempt] = "running")
Down(w)     == ~flag[w] /\ Idle(w)
Stopping(w) == ~flag[w] /\ Only(w)

\* Nothing of any session is left.
AllDown ==
    /\ ~connected /\ ~mediaReady /\ socket = 0
    /\ ~flag["cxn"] /\ \A w \in Workers : Down(w)

Ended == {"none", "exited", "joined"}
Acting == {"s_check", "s_clear", "s_try", "s_unlock", "s_event"} \cup TeardownLabels

PastMedia     == TeardownLabels \ {"d_media", "d_mclear", "d_mtest", "k_media", "j_media"}
PastKeepalive == PastMedia \ {"d_keepalive", "k_keepalive", "j_keepalive"}
PastStatus    == PastKeepalive \ {"d_cxn", "k_cxn", "j_cxn"}
PastBitrate   == {"d_conn", "d_close"}
JoinLabels    == {"j_media", "j_keepalive", "j_cxn", "j_bitrate"}

\* ftl_ingest_connect is in progress.
InConnect == pc[App] \in ConnectLabels \/ (pc[App] \in TeardownLabels /\ ret[App] # "x_event")

\* Who has disconnect_mutex.
Holding(t) ==
    IF t = App THEN \/ pc[App] \in {"c_unlock", "x_check", "x_event", "x_unlock"}
                    \/ pc[App] \in TeardownLabels /\ ret[App] # "c_fail"
               ELSE pc[t] \in TeardownLabels \cup {"s_unlock"}

LockInv == \A t \in Callers : disconnectMutex = t <=> Holding(t)

LabelInv ==
    /\ pc[App] \in TeardownLabels \cup ConnectLabels \cup AppLabels
    /\ \A i \in Instances : pc[i] \in (TeardownLabels \ {"k_cxn", "j_cxn"}) \cup StatusLabels
    /\ pc[App] \in TeardownLabels => ret[App] \in {"c_fail", "c_unlock", "x_event"}
    /\ \A i \in Instances : pc[i] \in TeardownLabels => ret[i] = "s_unlock"
    /\ \A t \in Callers : joining[t] # 0 => joining[t] = attempt /\ pc[t] \in JoinLabels

\* Where a call of the application leaves it.
ResultInv ==
    /\ result = "none" => attempt = 0
    /\ attempt = 0 => pc[App] = "idle" /\ result = "none"
    /\ InConnect => result \notin {"SUCCESS", "DISCONNECTED"} /\ events[attempt] = 0
    /\ result \notin {"SUCCESS", "DISCONNECTED"} => attempt \notin dropped
    /\ pc[App] = "b_flag" => 
         connected /\ result = "SUCCESS" /\ attempt \notin dropped /\ events[attempt] = 0
    /\ pc[App] = "idle" /\ result # "SUCCESS" => ~connected
    /\ pc[App] = "idle" /\ result = "SUCCESS" =>
         /\ attempt \notin dropped => connected
         /\ events[attempt] > 0 => ~connected /\ pc[attempt] \in Ended
    /\ freed => pc[App] = "idle" /\ result = "DISCONNECTED"

\* The status threads: only that of the last attempt is at work, and it leaves its loop on its
\* own only if its session was dropped.
StatusInv ==
    /\ \A i \in Instances : i < attempt => pc[i] \in Ended
    /\ \A i \in Instances : i > attempt => pc[i] = "none" /\ i \notin dropped /\ events[i] = 0
    /\ \A i \in Instances : pc[i] \in Acting => i \in dropped
    /\ flag["cxn"] /\ pc[App] # "c_cxnthread" =>
         /\ attempt \in Instances /\ handle["cxn"] = attempt
         /\ pc[attempt] \in {"s_loop", "s_check", "s_clear"}
    /\ pc[App] \in {"k_cxn", "j_cxn"} =>
         /\ attempt \in Instances /\ handle["cxn"] = attempt
         /\ pc[attempt] \notin {"none", "joined"}
    /\ pc[App] \in PastStatus \cup {"j_cxn"} => ~flag["cxn"]
    /\ \A i \in Instances :
         /\ pc[i] = "s_loop" /\ ~flag["cxn"] => pc[App] = "j_cxn"
         /\ pc[i] \in Acting \ {"s_check", "s_clear"} => ~flag["cxn"]
         /\ pc[i] \in TeardownLabels /\ ~connected => \A w \in Workers : Idle(w)
         /\ pc[i] = "s_unlock" => AllDown
         /\ pc[i] = "s_event" => ~connected \/ pc[App] \in TeardownLabels \cup {"x_check"}

\* How far a teardown is.
TeardownAt(t) ==
    /\ pc[t] = "d_media" => mediaReady \/ Down("media")
    /\ pc[t] = "d_mclear" => mediaReady
    /\ pc[t] \in {"d_mtest", "k_media"} => ~mediaReady /\ Up("media")
    /\ pc[t] = "j_media" => ~mediaReady /\ Stopping("media")
    /\ pc[t] \in PastMedia => ~mediaReady /\ Down("media")
    /\ pc[t] \in TeardownLabels \ (PastKeepalive \cup {"k_keepalive", "j_keepalive"}) =>
         Up("keepalive") \/ Down("keepalive")
    /\ pc[t] = "k_keepalive" => Up("keepalive")
    /\ pc[t] = "j_keepalive" => Stopping("keepalive")
    /\ pc[t] \in PastKeepalive => Down("keepalive")
    /\ pc[t] \in TeardownLabels \ (PastBitrate \cup {"k_bitrate", "j_bitrate"}) =>
         Up("bitrate") \/ Down("bitrate")
    /\ pc[t] = "k_bitrate" => Up("bitrate")
    /\ pc[t] = "j_bitrate" => Stopping("bitrate")
    /\ pc[t] \in PastBitrate => Down("bitrate")
    /\ pc[t] = "d_close" => ~connected

TeardownInv == \A t \in Callers : TeardownAt(t)

\* How far ftl_ingest_connect is.
Building == ConnectLabels \ {"c_open", "c_fail", "c_unlock"}
ConnectInv ==
    /\ pc[App] = "c_open" => pc[attempt] = "none"
    /\ pc[App] \in {"c_open", "c_unlock", "x_event", "x_unlock"} => AllDown
    /\ pc[App] \in ConnectLabels => ~mediaReady /\ Down("bitrate")
    /\ pc[App] \in Building =>
         /\ socket = attempt
         /\ connected <=> pc[App] # "c_handshake"
         /\ flag["cxn"] <=> pc[App] \notin {"c_handshake", "c_cxn"}
         /\ pc[attempt] = IF pc[App] \in {"c_handshake", "c_cxn", "c_cxnthread"} THEN "none"
                                                                             ELSE "s_loop"
    /\ pc[App] \in {"c_handshake", "c_cxn", "c_cxnthread", "c_keepalive"} => Down("keepalive")
    /\ pc[App] = "c_kathread" => flag["keepalive"] /\ Idle("keepalive")
    /\ pc[App] \in {"c_media", "c_mflag", "c_mthread", "c_mready"} => Up("keepalive")
    /\ pc[App] = "c_fail" => Up("keepalive") \/ Down("keepalive")
    /\ pc[App] \in ConnectLabels \ {"c_mthread", "c_mready"} => Down("media")
    /\ pc[App] = "c_mthread" => flag["media"] /\ Idle("media")
    /\ pc[App] = "c_mready" => Up("media")

\* Between the calls the session is whole or there is none.
RestInv ==
    /\ mediaReady => Up("media")
    /\ pc[App] \notin ConnectLabels /\ (\A t \in Callers : pc[t] \notin TeardownLabels) =>
         IF connected
           THEN /\ socket = attempt /\ mediaReady /\ Up("keepalive")
                /\ attempt \in dropped \/ flag["cxn"]
                /\ IF pc[App] = "b_flag" THEN Stopping("bitrate")
                                         ELSE Up("bitrate") \/ Down("bitrate")
           ELSE AllDown

Inv == LockInv /\ LabelInv /\ ResultInv /\ StatusInv /\ TeardownInv /\ ConnectInv /\ RestInv

-----------------------------------------------------------------------------
(* Types *)

LEMMA StopTypes ==
    ASSUME TypeOK, NEW t \in Callers, NEW w \in Workers, NEW test \in TeardownLabels,
           NEW clear \in TeardownLabels, NEW join \in TeardownLabels,
           NEW next \in TeardownLabels, StopWorker(t, w, test, clear, join, next)
    PROVE  TypeOK'
<1> USE DEF flagVars, threadVars, envVars, TeardownLabels
<1>1. CASE Test(t, flag[w], test, clear, next)
  BY <1>1 DEF Test, Goto, TypeOK
<1>2. CASE Clear(t, w, clear, join)
  BY <1>2 DEF Clear, Goto, TypeOK
<1>3. CASE WaitFor(t, w, join)
  BY <1>3 DEF WaitFor, Goto, TypeOK
<1>4. CASE Join(t, w, join, next)
  <2>1. joining' \in [Callers -> 0..MaxConnects]
    BY <1>4, SessionAssumption DEF Join, TypeOK
  <2>2. thread' \in [Workers -> [Instances -> {"none", "running", "exited", "joined"}]]
    BY <1>4 DEF Join, TypeOK
  <2> QED
    BY <1>4, <2>1, <2>2 DEF Join, Goto, TypeOK
<1> QED
  BY <1>1, <1>2, <1>3, <1>4 DEF StopWorker

LEMMA TeardownTypes ==
    ASSUME TypeOK, NEW t \in Callers, Teardown(t)
    PROVE  TypeOK'
<1> USE DEF flagVars, threadVars, envVars
<1>1. CASE DestroyMedia(t)
  <2>1. CASE Test(t, mediaReady, "d_media", "d_mclear", "d_keepalive")
    BY <2>1 DEF Test, Goto, TypeOK, TeardownLabels
  <2>2. CASE MediaNotReady(t)
    BY <2>2 DEF MediaNotReady, Goto, TypeOK, TeardownLabels
  <2> QED
    <3>1. CASE StopWorker(t, "media", "d_mtest", "k_media", "j_media", "d_keepalive")
      <4>1. /\ "media" \in Workers
           /\ "d_mtest" \in TeardownLabels /\ "k_media" \in TeardownLabels
           /\ "j_media" \in TeardownLabels /\ "d_keepalive" \in TeardownLabels
        BY DEF Workers, TeardownLabels
      <4> QED
        BY <3>1, <4>1, StopTypes, Zenon
    <3> QED
      BY <1>1, <2>1, <2>2, <3>1, Zenon DEF DestroyMedia
<1>2. CASE StopStatusThread(t)
  <2>1. CASE Test(t, flag["cxn"], "d_cxn", "k_cxn", "d_bitrate")
    BY <2>1 DEF Test, Goto, TypeOK, TeardownLabels
  <2>2. CASE Clear(t, "cxn", "k_cxn", "j_cxn")
    BY <2>2 DEF Clear, Goto, TypeOK, TeardownLabels
  <2>3. CASE WaitFor(t, "cxn", "j_cxn")
    BY <2>3 DEF WaitFor, Goto, TypeOK, TeardownLabels
  <2>4. CASE JoinStatusThread(t)
    <3>1. joining' \in [Callers -> 0..MaxConnects]
      BY <2>4, SessionAssumption DEF JoinStatusThread, TypeOK, TeardownLabels
    <3> QED
      BY <2>4, <3>1 DEF JoinStatusThread, TypeOK, TeardownLabels, StatusLabels
  <2> QED
    BY <1>2, <2>1, <2>2, <2>3, <2>4 DEF StopStatusThread
<1>3. CASE ClearConnected(t)
  BY <1>3 DEF ClearConnected, Goto, TypeOK, TeardownLabels
<1>4. CASE CloseSocket(t)
  <2>1. socket' \in 0..MaxConnects
    BY <1>4, SessionAssumption DEF CloseSocket
  <2>2. ret[t] \in ConnectLabels \cup AppLabels \cup StatusLabels
    BY DEF TypeOK, StatusLabels, ConnectLabels, AppLabels
  <2> QED
    BY <1>4, <2>1, <2>2 DEF CloseSocket, Goto, TypeOK, TeardownLabels
<1> QED
  <2>1. CASE StopWorker(t, "keepalive", "d_keepalive", "k_keepalive", "j_keepalive", "d_cxn")
    <3>1. /\ "keepalive" \in Workers
         /\ "d_keepalive" \in TeardownLabels /\ "k_keepalive" \in TeardownLabels
         /\ "j_keepalive" \in TeardownLabels /\ "d_cxn" \in TeardownLabels
      BY DEF Workers, TeardownLabels
    <3> QED
      BY <2>1, <3>1, StopTypes, Zenon
  <2>2. CASE StopWorker(t, "bitrate", "d_bitrate", "k_bitrate", "j_bitrate", "d_conn")
    <3>1. /\ "bitrate" \in Workers
         /\ "d_bitrate" \in TeardownLabels /\ "k_bitrate" \in TeardownLabels
         /\ "j_bitrate" \in TeardownLabels /\ "d_conn" \in TeardownLabels
      BY DEF Workers, TeardownLabels
    <3> QED
      BY <2>2, <3>1, StopTypes, Zenon
  <2> QED
    BY <1>1, <1>2, <1>3, <1>4, <2>1, <2>2, Zenon DEF Teardown

LEMMA ConnectTypes ==
    ASSUME TypeOK, Connect \/ Connecting
    PROVE  TypeOK'
<1> USE DEF flagVars, threadVars, envVars, TeardownLabels, ConnectLabels, AppLabels, TypeOK, Goto
<1>1. App \in Callers
  BY DEF Callers
<1>2. CASE Connect \/ OpenSocket
  BY <1>1, <1>2, SessionAssumption DEF Connect, OpenSocket
<1>3. CASE Handshake \/ CreateFails("cxn", "c_cxnthread") \/ CreateFails("keepalive", "c_kathread")
  BY <1>1, <1>3 DEF Handshake, Call, CreateFails
<1>4. CASE SetFlag("cxn", "c_cxn", "c_cxnthread")
        \/ SetFlag("keepalive", "c_keepalive", "c_kathread")
           \/ SetFlag("media", "c_mflag", "c_mthread")
  <2>1. CASE SetFlag("cxn", "c_cxn", "c_cxnthread")
    BY <1>1, <2>1 DEF SetFlag
  <2>2. CASE SetFlag("keepalive", "c_keepalive", "c_kathread")
    BY <1>1, <2>2 DEF SetFlag
  <2>3. CASE SetFlag("media", "c_mflag", "c_mthread")
    BY <1>1, <2>3 DEF SetFlag
  <2> QED
    BY <1>4, <2>1, <2>2, <2>3
<1>5. CASE CreateStatusThread
  BY <1>1, <1>5 DEF CreateStatusThread, StatusLabels
<1>6. CASE CreateThread("keepalive", "c_kathread", "c_media")
           \/ CreateThread("media", "c_mthread", "c_mready")
  BY <1>1, <1>6 DEF CreateThread
<1>7. CASE InitMedia \/ InitMediaFails \/ MediaIsReady \/ ConnectFailed \/ ConnectUnlock
  <2>1. CASE InitMedia \/ MediaIsReady
    BY <1>1, <2>1 DEF InitMedia, MediaIsReady
  <2>2. CASE InitMediaFails
    BY <1>1, <2>2 DEF InitMediaFails
  <2>3. CASE ConnectFailed
    BY <1>1, <2>3 DEF ConnectFailed, Call, LockDisconnect
  <2>4. CASE ConnectUnlock
    BY <1>1, <2>4 DEF ConnectUnlock, UnlockDisconnect
  <2> QED
    BY <1>7, <2>1, <2>2, <2>3, <2>4
<1> QED
  BY <1>2, <1>3, <1>4, <1>5, <1>6, <1>7 DEF Connecting

LEMMA TypeStep == TypeOK /\ [Next]_vars => TypeOK'
<1> SUFFICES ASSUME TypeOK, [Next]_vars PROVE TypeOK'
  OBVIOUS
<1> USE DEF flagVars, threadVars, envVars, TeardownLabels, ConnectLabels, AppLabels, StatusLabels
<1>1. App \in Callers /\ Instances \subseteq Callers
  BY DEF Callers
<1>2. CASE UNCHANGED vars
  BY <1>2 DEF vars, TypeOK
<1>3. CASE Connect
  BY <1>3, ConnectTypes
<1>4. CASE StartBitrate
  BY <1>1, <1>4 DEF StartBitrate, CreateThread, Goto, TypeOK, Workers
<1>5. CASE SetFlag("bitrate", "b_flag", "idle")
  BY <1>1, <1>5 DEF SetFlag, Goto, TypeOK
<1>6. CASE Disconnect \/ Destroy
  BY <1>1, <1>6 DEF Disconnect, Destroy, Goto, TypeOK
<1>7. CASE Disconnecting
  BY <1>1, <1>7 DEF Disconnecting, DisconnectLocks, DisconnectChecks, DisconnectReports,
     DisconnectUnlocks, LockDisconnect, UnlockDisconnect, QueueEvent, Call, Goto, TypeOK
<1>8. ASSUME NEW i \in Instances, StatusThread(i)
      PROVE  TypeOK'
  <2>1. CASE StatusLoop(i)
    BY <1>1, <2>1 DEF StatusLoop, StatusMove, Goto, TypeOK
  <2>2. CASE StatusClearsFlag(i)
    BY <1>1, <2>2 DEF StatusClearsFlag, Clear, Goto, TypeOK
  <2>3. CASE StatusTriesLock(i)
    BY <1>1, <2>3 DEF StatusTriesLock, LockDisconnect, Call, Goto, TypeOK
  <2>4. CASE StatusUnlocks(i) \/ StatusReports(i)
    BY <1>1, <2>4 DEF StatusUnlocks, StatusReports, UnlockDisconnect, QueueEvent, Goto, TypeOK
  <2> QED
    BY <1>8, <2>1, <2>2, <2>3, <2>4 DEF StatusThread
<1>9. ASSUME NEW w \in Workers, NEW i \in Instances, WorkerExits(w, i)
      PROVE  TypeOK'
  BY <1>9 DEF WorkerExits, TypeOK
<1>10. ASSUME NEW i \in Instances, IngestDrops(i)
      PROVE  TypeOK'
  BY <1>10 DEF IngestDrops, TypeOK
<1>11. ASSUME NEW t \in Callers, Step(t)
      PROVE  TypeOK'
  BY <1>7, <1>8, <1>11, <1>5, TeardownTypes, ConnectTypes DEF Step, Callers
<1> QED
  BY <1>2, <1>3, <1>4, <1>6, <1>9, <1>10, <1>11 DEF Next

LEMMA InitTypes == Init => TypeOK
<1> SUFFICES ASSUME Init PROVE TypeOK
  OBVIOUS
<1>1. socket \in 0..MaxConnects /\ attempt \in 0..MaxConnects
  BY SessionAssumption DEF Init
<1>2. handle \in [Workers \cup {"cxn"} -> 0..MaxConnects]
        /\ joining \in [Callers -> 0..MaxConnects]
  BY SessionAssumption DEF Init
<1>3. thread \in [Workers -> [Instances -> {"none", "running", "exited", "joined"}]]
  BY DEF Init
<1>4. pc \in [Callers -> TeardownLabels \cup ConnectLabels \cup AppLabels \cup StatusLabels]
  BY DEF Init, AppLabels, StatusLabels
<1> QED
  BY <1>1, <1>2, <1>3, <1>4 DEF Init, TypeOK

\* Every variable keeps its type, whatever the application and the ingest do.
THEOREM Typing == Spec => []TypeOK
  BY InitTypes, TypeStep, PTL DEF Spec

-----------------------------------------------------------------------------
(* What the invariant says of the callers *)

\* The application connects when it has been told of a drop or has failed, and the ingest
\* drops no session that is being set up.
Told == ConnectWhen \subseteq {"told"} /\ ~EarlyDrop

LEMMA Constants ==
    /\ App \in Callers /\ App \notin Instances /\ NoOne \notin Callers
    /\ Instances \subseteq Nat \ {0} /\ Callers = {App} \cup Instances
  BY SessionAssumption DEF Callers, Instances

\* Only the status thread of the last attempt is at work, and only if its session was
\* dropped; none is while the application connects.
LEMMA OneAtWork ==
    ASSUME TypeOK, Inv
    PROVE  /\ \A i \in Instances : pc[i] \in Acting => i = attempt /\ attempt \in dropped
           /\ InConnect => \A i \in Instances : pc[i] \notin Acting
           /\ \A i \in Instances : i # attempt => pc[i] \in Ended
<1>1. ASSUME NEW i \in Instances, pc[i] \in Acting
      PROVE  i = attempt /\ attempt \in dropped
  <2>1. i \in Nat /\ attempt \in Nat
    BY SessionAssumption DEF Instances, TypeOK
  <2>2. pc[i] \notin Ended
    BY <1>1 DEF Acting, Ended, TeardownLabels
  <2> QED
    BY <1>1, <2>1, <2>2 DEF Inv, StatusInv, Ended
<1>2. ASSUME NEW i \in Instances, i # attempt
      PROVE  pc[i] \in Ended
  <2>1. i \in Nat /\ attempt \in Nat
    BY SessionAssumption DEF Instances, TypeOK
  <2> QED
    BY <1>2, <2>1 DEF Inv, StatusInv, Ended
<1> QED
  BY <1>1, <1>2 DEF Inv, ResultInv

\* Teardowns exclude each other, by disconnect_mutex or because nobody else can be at one.
LEMMA Exclusive == TypeOK /\ Inv => TeardownExclusive
<1> SUFFICES ASSUME TypeOK, Inv, NEW t \in Callers, NEW u \in Callers, t # u,
                    pc[t] \in TeardownLabels, pc[u] \in TeardownLabels
             PROVE  FALSE
  BY DEF TeardownExclusive
<1>1. \A i \in Instances : pc[i] \in TeardownLabels =>
        i = attempt /\ disconnectMutex = i /\ ~InConnect
  BY OneAtWork, Constants DEF Acting, Inv, LockInv, Holding
<1>2. pc[App] \in TeardownLabels => InConnect \/ disconnectMutex = App
  BY Constants DEF InConnect, Inv, LockInv, Holding
<1>3. CASE t \in Instances /\ u \in Instances
  BY <1>1, <1>3
<1>4. CASE t = App \/ u = App
  <2>1. pc[App] \in TeardownLabels /\ \E i \in Instances : pc[i] \in TeardownLabels
    BY <1>4, Constants
  <2>2. PICK i \in Instances : pc[i] \in TeardownLabels
    BY <2>1
  <2>3. disconnectMutex = App /\ disconnectMutex = i
    BY <1>1, <1>2, <2>1, <2>2
  <2> QED
    BY <2>3, Constants
<1> QED
  BY <1>3, <1>4, Constants

\* A caller that tears nothing down says nothing of how far a teardown is.
LEMMA NotAtTeardown == ASSUME NEW t, pc[t] \notin TeardownLabels PROVE TeardownAt(t)
  BY DEF TeardownAt, PastBitrate, PastKeepalive, PastMedia, TeardownLabels

LEMMA NotAtTeardownNext == ASSUME NEW t, pc'[t] \notin TeardownLabels PROVE TeardownAt(t)'
  BY DEF TeardownAt, PastBitrate, PastKeepalive, PastMedia, TeardownLabels

-----------------------------------------------------------------------------
(* Steps *)

LEMMA ConnectStep ==
    ASSUME TypeOK, TypeOK', Inv, Told, Connect
    PROVE  Inv'
<1> USE DEF flagVars, threadVars, envVars
<1>1. pc[App] = "idle" /\ ~freed /\ MayConnect /\ attempt \in Nat /\ attempt' = attempt + 1
  BY DEF Connect, Goto, TypeOK
<1>2. ~connected /\ (result = "SUCCESS" => pc[attempt] \in Ended) /\ result # "DISCONNECTED"
  BY <1>1 DEF MayConnect, Told, Inv, ResultInv
<1>3. \A i \in Instances : pc[i] \notin Acting
  <2> SUFFICES ASSUME NEW i \in Instances, pc[i] \in Acting PROVE FALSE
    OBVIOUS
  <2>1. i = attempt /\ attempt \in dropped
    BY OneAtWork
  <2> QED
    BY <1>1, <1>2, <2>1 DEF Inv, ResultInv, Ended, Acting, TeardownLabels
<1>4. AllDown
  <2>1. \A t \in Callers : pc[t] \notin TeardownLabels
    BY <1>1, <1>3, Constants DEF Acting, TeardownLabels
  <2> QED
    BY <1>1, <1>2, <2>1 DEF Inv, RestInv, ConnectLabels
<1>5. \A i \in Instances : pc[i] \in Ended
  BY <1>1, <1>3, <1>4 DEF Inv, LabelInv, StatusInv, AllDown, Acting, Ended, StatusLabels
<1>6. pc'[App] = "c_open" /\ result' = "pending" /\ \A i \in Instances : pc'[i] = pc[i]
  BY <1>2, Constants DEF Connect, Goto, TypeOK
<1>7. LockInv' /\ LabelInv'
  BY <1>1, <1>5, <1>6, Constants DEF Connect, Inv, LockInv, Holding, LabelInv, Ended,
     TeardownLabels, ConnectLabels, AppLabels, StatusLabels, JoinLabels
<1>8. AllDown'
  BY <1>4 DEF Connect, AllDown, Down, Idle
<1>9. ResultInv'
  BY <1>1, <1>6 DEF Connect, Inv, ResultInv, StatusInv, InConnect, ConnectLabels, TypeOK, Instances
<1>10. StatusInv'
  BY <1>1, <1>4, <1>5, <1>6, <1>8, Constants DEF Connect, Inv, StatusInv, AllDown, Ended, Acting,
     TeardownLabels, PastStatus, PastKeepalive, PastMedia
<1>11. pc'[attempt'] = "none"
  BY <1>1, <1>6 DEF TypeOK, Instances, Inv, StatusInv
<1>12. TeardownInv'
  BY <1>5, <1>6, NotAtTeardownNext, Constants DEF TeardownInv, TeardownLabels, Ended
<1>13. ConnectInv' /\ RestInv'
  BY <1>11, <1>4, <1>5, <1>6, <1>8, Constants DEF ConnectInv, RestInv, AllDown, Ended,
     TeardownLabels, ConnectLabels, Building, Workers
<1> QED
  BY <1>7, <1>9, <1>10, <1>12, <1>13 DEF Inv

LEMMA BuildStep ==
    ASSUME TypeOK, TypeOK', Inv, Connecting, pc[App] \in ConnectLabels
    PROVE  Inv'
<1> USE DEF flagVars, threadVars, envVars
<1>1. attempt \in Instances /\ attempt \notin dropped
  BY Constants DEF Inv, ResultInv, InConnect, TypeOK, Instances, ConnectLabels
<1>2. \A i \in Instances : pc[i] \notin Acting
  BY OneAtWork DEF InConnect
<1>3. pc[App] = "c_fail" => disconnectMutex = NoOne
  BY <1>2, Constants DEF Inv, LockInv, Holding, Acting, TypeOK, TeardownLabels
<1>4. CASE OpenSocket \/ Handshake
  <2>1. LockInv'
    BY <1>1, <1>2, <1>4, Constants DEF OpenSocket, Handshake, Call, Goto, TypeOK, Inv, LockInv,
       Holding, LabelInv, TeardownLabels, ConnectLabels, Acting
  <2>2. LabelInv'
    BY <1>1, <1>2, <1>4, Constants DEF OpenSocket, Handshake, Call, Goto, TypeOK, Inv, LabelInv,
       JoinLabels, TeardownLabels, ConnectLabels, AppLabels, StatusLabels
  <2>3. ResultInv'
    BY <1>1, <1>2, <1>3, <1>4, Constants DEF OpenSocket, Handshake, Call, Goto, TypeOK, Inv,
       ResultInv, ConnectInv, Building, AllDown, InConnect, TeardownLabels, ConnectLabels,
       AppLabels
  <2>4. StatusInv'
    BY <1>1, <1>2, <1>3, <1>4, Constants DEF OpenSocket, Handshake, Call, Goto, TypeOK, Inv,
       ConnectInv, Building, StatusInv, AllDown, ConnectLabels, TeardownLabels, PastStatus,
       PastKeepalive, PastMedia, Acting, Ended
  <2>5. TeardownInv'
    <3>1. \A i \in Instances : pc'[i] \notin TeardownLabels
      BY <1>1, <1>2, <1>4, Constants DEF OpenSocket, Handshake, Call, Goto, TypeOK, Acting,
         TeardownLabels
    <3>2. TeardownAt(App)'
      BY <1>3, <1>4, Constants DEF OpenSocket, Handshake, Call, Goto, TypeOK, Inv, ConnectInv,
         ConnectLabels, TeardownAt, TeardownLabels, AllDown, Up, Down, Idle, Only, PastMedia,
         PastKeepalive, PastBitrate, Workers
    <3> QED
      BY <3>1, <3>2, NotAtTeardownNext, Constants DEF TeardownInv
  <2>6. ConnectInv'
    BY <1>1, <1>2, <1>4, Constants DEF OpenSocket, Handshake, Call, Goto, TypeOK, Inv, ConnectInv,
       ConnectLabels, Building, AllDown, Up, Down, Idle, Only, Workers
  <2>7. RestInv'
    BY <1>1, <1>2, <1>3, <1>4, Constants DEF OpenSocket, Handshake, Call, Goto, TypeOK, Inv,
       ConnectInv, RestInv, Building, ConnectLabels, TeardownLabels, AllDown, Up, Down, Idle, Only
  <2> QED
    BY <2>1, <2>2, <2>3, <2>4, <2>5, <2>6, <2>7 DEF Inv
<1>5. CASE SetFlag("cxn", "c_cxn", "c_cxnthread")
  <2>1. LockInv'
    BY <1>1, <1>2, <1>5, Constants DEF SetFlag, Goto, TypeOK, Inv, LockInv, Holding, LabelInv,
       TeardownLabels, ConnectLabels, Acting
  <2>2. LabelInv'
    BY <1>1, <1>2, <1>5, Constants DEF SetFlag, Goto, TypeOK, Inv, LabelInv, JoinLabels,
       TeardownLabels, ConnectLabels, AppLabels, StatusLabels
  <2>3. ResultInv'
    BY <1>1, <1>2, <1>3, <1>5, Constants DEF SetFlag, Goto, TypeOK, Inv, ResultInv, ConnectInv,
       Building, AllDown, InConnect, TeardownLabels, ConnectLabels, AppLabels
  <2>4. StatusInv'
    BY <1>1, <1>2, <1>3, <1>5, Constants DEF SetFlag, Goto, TypeOK, Inv, ConnectInv, Building,
       StatusInv, AllDown, ConnectLabels, TeardownLabels, PastStatus, PastKeepalive, PastMedia,
       Acting, Ended
  <2>5. TeardownInv'
    <3>1. \A i \in Instances : pc'[i] \notin TeardownLabels
      BY <1>1, <1>2, <1>5, Constants DEF SetFlag, Goto, TypeOK, Acting, TeardownLabels
    <3>2. TeardownAt(App)'
      <4>1. pc'[App] \notin TeardownLabels
        BY <1>5, Constants DEF SetFlag, Goto, TypeOK, TeardownLabels
      <4> QED
        BY <4>1, NotAtTeardownNext
    <3> QED
      BY <3>1, <3>2, NotAtTeardownNext, Constants DEF TeardownInv
  <2>6. ConnectInv'
    BY <1>1, <1>2, <1>5, Constants DEF SetFlag, Goto, TypeOK, Inv, ConnectInv, ConnectLabels,
       Building, AllDown, Up, Down, Idle, Only, Workers
  <2>7. RestInv'
    BY <1>1, <1>2, <1>3, <1>5, Constants DEF SetFlag, Goto, TypeOK, Inv, ConnectInv, RestInv,
       Building, ConnectLabels, TeardownLabels, AllDown, Up, Down, Idle, Only
  <2> QED
    BY <2>1, <2>2, <2>3, <2>4, <2>5, <2>6, <2>7 DEF Inv
<1>6. CASE CreateStatusThread
  <2>1. LockInv'
    BY <1>1, <1>2, <1>6, Constants DEF CreateStatusThread, Goto, TypeOK, Inv, LockInv, Holding,
       LabelInv, TeardownLabels, ConnectLabels, Acting
  <2>2. LabelInv'
    <3>1. /\ pc'[App] = "c_keepalive" /\ pc'[attempt] = "s_loop"
          /\ \A i \in Instances : i # attempt => pc'[i] = pc[i]
      BY <1>1, <1>6, Constants DEF CreateStatusThread, TypeOK
    <3> QED
      BY <1>1, <1>2, <1>6, <3>1, Constants DEF CreateStatusThread, TypeOK, Inv, LabelInv,
         JoinLabels, Acting, TeardownLabels, ConnectLabels, StatusLabels
  <2>3. ResultInv'
    BY <1>1, <1>2, <1>3, <1>6, Constants DEF CreateStatusThread, Goto, TypeOK, Inv, ResultInv,
       ConnectInv, Building, AllDown, InConnect, TeardownLabels, ConnectLabels, AppLabels
  <2>4. StatusInv'
    BY <1>1, <1>2, <1>3, <1>6, Constants DEF CreateStatusThread, Goto, TypeOK, Inv, ConnectInv,
       Building, StatusInv, AllDown, ConnectLabels, TeardownLabels, PastStatus, PastKeepalive,
       PastMedia, Acting, Ended
  <2>5. TeardownInv'
    <3>1. \A i \in Instances : pc'[i] \notin TeardownLabels
      BY <1>1, <1>2, <1>6, Constants DEF CreateStatusThread, Goto, TypeOK, Acting, TeardownLabels
    <3>2. TeardownAt(App)'
      <4>1. pc'[App] \notin TeardownLabels
        BY <1>6, Constants DEF CreateStatusThread, Goto, TypeOK, TeardownLabels
      <4> QED
        BY <4>1, NotAtTeardownNext
    <3> QED
      BY <3>1, <3>2, NotAtTeardownNext, Constants DEF TeardownInv
  <2>6. ConnectInv'
    BY <1>1, <1>2, <1>6, Constants DEF CreateStatusThread, Goto, TypeOK, Inv, ConnectInv,
       ConnectLabels, Building, AllDown, Up, Down, Idle, Only, Workers
  <2>7. RestInv'
    BY <1>1, <1>2, <1>3, <1>6, Constants DEF CreateStatusThread, Goto, TypeOK, Inv, ConnectInv,
       RestInv, Building, ConnectLabels, TeardownLabels, AllDown, Up, Down, Idle, Only
  <2> QED
    BY <2>1, <2>2, <2>3, <2>4, <2>5, <2>6, <2>7 DEF Inv
<1>7. CASE CreateFails("cxn", "c_cxnthread")
  <2>1. LockInv'
    BY <1>1, <1>2, <1>7, Constants DEF CreateFails, Call, Goto, TypeOK, Inv, LockInv, Holding,
       LabelInv, TeardownLabels, ConnectLabels, Acting
  <2>2. LabelInv'
    BY <1>1, <1>2, <1>7, Constants DEF CreateFails, Call, Goto, TypeOK, Inv, LabelInv, JoinLabels,
       TeardownLabels, ConnectLabels, AppLabels, StatusLabels
  <2>3. ResultInv'
    BY <1>1, <1>2, <1>3, <1>7, Constants DEF CreateFails, Call, Goto, TypeOK, Inv, ResultInv,
       ConnectInv, Building, AllDown, InConnect, TeardownLabels, ConnectLabels, AppLabels
  <2>4. StatusInv'
    <3>1. pc[attempt] = "none" /\ pc[App] = "c_cxnthread" /\ ~flag'["cxn"]
      BY <1>7, Constants DEF CreateFails, Call, Goto, Inv, ConnectInv, Building, ConnectLabels,
         TypeOK
    <3>2. pc'[App] = "d_keepalive" /\ \A i \in Instances : pc'[i] = pc[i]
      BY <1>7, Constants DEF CreateFails, Call, Goto, TypeOK
    <3>3. \A i \in Instances : pc'[i] \in Ended
      BY <3>1, <3>2, OneAtWork DEF Ended
    <3> QED
      BY <1>1, <1>7, <3>1, <3>2, <3>3, Constants DEF CreateFails, Inv, StatusInv, PastStatus,
         PastKeepalive, PastMedia, TeardownLabels, Acting, Ended
  <2>5. TeardownInv'
    <3>1. \A i \in Instances : pc'[i] \notin TeardownLabels
      BY <1>1, <1>2, <1>7, Constants DEF CreateFails, Call, Goto, TypeOK, Acting, TeardownLabels
    <3>2. TeardownAt(App)'
      BY <1>3, <1>7, Constants DEF CreateFails, Call, Goto, TypeOK, Inv, ConnectInv,
         ConnectLabels, TeardownAt, TeardownLabels, AllDown, Up, Down, Idle, Only, PastMedia,
         PastKeepalive, PastBitrate, Workers
    <3> QED
      BY <3>1, <3>2, NotAtTeardownNext, Constants DEF TeardownInv
  <2>6. ConnectInv'
    BY <1>1, <1>2, <1>7, Constants DEF CreateFails, Call, Goto, TypeOK, Inv, ConnectInv,
       ConnectLabels, Building, AllDown, Up, Down, Idle, Only, Workers
  <2>7. RestInv'
    BY <1>1, <1>2, <1>3, <1>7, Constants DEF CreateFails, Call, Goto, TypeOK, Inv, ConnectInv,
       RestInv, Building, ConnectLabels, TeardownLabels, AllDown, Up, Down, Idle, Only
  <2> QED
    BY <2>1, <2>2, <2>3, <2>4, <2>5, <2>6, <2>7 DEF Inv
<1>8. CASE CreateFails("keepalive", "c_kathread")
  <2>1. LockInv'
    BY <1>1, <1>2, <1>8, Constants DEF CreateFails, Call, Goto, TypeOK, Inv, LockInv, Holding,
       LabelInv, TeardownLabels, ConnectLabels, Acting
  <2>2. LabelInv'
    BY <1>1, <1>2, <1>8, Constants DEF CreateFails, Call, Goto, TypeOK, Inv, LabelInv, JoinLabels,
       TeardownLabels, ConnectLabels, AppLabels, StatusLabels
  <2>3. ResultInv'
    BY <1>1, <1>2, <1>3, <1>8, Constants DEF CreateFails, Call, Goto, TypeOK, Inv, ResultInv,
       ConnectInv, Building, AllDown, InConnect, TeardownLabels, ConnectLabels, AppLabels
  <2>4. StatusInv'
    BY <1>1, <1>2, <1>3, <1>8, Constants DEF CreateFails, Call, Goto, TypeOK, Inv, ConnectInv,
       Building, StatusInv, AllDown, ConnectLabels, TeardownLabels, PastStatus, PastKeepalive,
       PastMedia, Acting, Ended
  <2>5. TeardownInv'
    <3>1. \A i \in Instances : pc'[i] \notin TeardownLabels
      BY <1>1, <1>2, <1>8, Constants DEF CreateFails, Call, Goto, TypeOK, Acting, TeardownLabels
    <3>2. TeardownAt(App)'
      BY <1>3, <1>8, Constants DEF CreateFails, Call, Goto, TypeOK, Inv, ConnectInv,
         ConnectLabels, TeardownAt, TeardownLabels, AllDown, Up, Down, Idle, Only, PastMedia,
         PastKeepalive, PastBitrate, Workers
    <3> QED
      BY <3>1, <3>2, NotAtTeardownNext, Constants DEF TeardownInv
  <2>6. ConnectInv'
    BY <1>1, <1>2, <1>8, Constants DEF CreateFails, Call, Goto, TypeOK, Inv, ConnectInv,
       ConnectLabels, Building, AllDown, Up, Down, Idle, Only, Workers
  <2>7. RestInv'
    BY <1>1, <1>2, <1>3, <1>8, Constants DEF CreateFails, Call, Goto, TypeOK, Inv, ConnectInv,
       RestInv, Building, ConnectLabels, TeardownLabels, AllDown, Up, Down, Idle, Only
  <2> QED
    BY <2>1, <2>2, <2>3, <2>4, <2>5, <2>6, <2>7 DEF Inv
<1>9. CASE \/ SetFlag("keepalive", "c_keepalive", "c_kathread")
           \/ CreateThread("keepalive", "c_kathread", "c_media")
  <2>1. LockInv'
    BY <1>1, <1>2, <1>9, Constants DEF SetFlag, CreateThread, Goto, TypeOK, Inv, LockInv, Holding,
       LabelInv, TeardownLabels, ConnectLabels, Acting
  <2>2. LabelInv'
    BY <1>1, <1>2, <1>9, Constants DEF SetFlag, CreateThread, Goto, TypeOK, Inv, LabelInv,
       JoinLabels, TeardownLabels, ConnectLabels, AppLabels, StatusLabels
  <2>3. ResultInv'
    BY <1>1, <1>2, <1>3, <1>9, Constants DEF SetFlag, CreateThread, Goto, TypeOK, Inv, ResultInv,
       ConnectInv, Building, AllDown, InConnect, TeardownLabels, ConnectLabels, AppLabels
  <2>4. StatusInv'
    BY <1>1, <1>2, <1>3, <1>9, Constants DEF SetFlag, CreateThread, Goto, TypeOK, Inv, ConnectInv,
       Building, StatusInv, AllDown, ConnectLabels, TeardownLabels, PastStatus, PastKeepalive,
       PastMedia, Acting, Ended
  <2>5. TeardownInv'
    <3>1. \A i \in Instances : pc'[i] \notin TeardownLabels
      BY <1>1, <1>2, <1>9, Constants DEF SetFlag, CreateThread, Goto, TypeOK, Acting,
         TeardownLabels
    <3>2. TeardownAt(App)'
      <4>1. pc'[App] \notin TeardownLabels
        BY <1>9, Constants DEF SetFlag, CreateThread, Goto, TypeOK, TeardownLabels
      <4> QED
        BY <4>1, NotAtTeardownNext
    <3> QED
      BY <3>1, <3>2, NotAtTeardownNext, Constants DEF TeardownInv
  <2>6. ConnectInv'
    BY <1>1, <1>2, <1>9, Constants DEF SetFlag, CreateThread, Goto, TypeOK, Inv, ConnectInv,
       ConnectLabels, Building, AllDown, Up, Down, Idle, Only, Workers
  <2>7. RestInv'
    BY <1>1, <1>2, <1>3, <1>9, Constants DEF SetFlag, CreateThread, Goto, TypeOK, Inv, ConnectInv,
       RestInv, Building, ConnectLabels, TeardownLabels, AllDown, Up, Down, Idle, Only
  <2> QED
    BY <2>1, <2>2, <2>3, <2>4, <2>5, <2>6, <2>7 DEF Inv
<1>10. CASE InitMedia \/ InitMediaFails \/ MediaIsReady
  <2>1. LockInv'
    BY <1>1, <1>2, <1>10, Constants DEF InitMedia, InitMediaFails, MediaIsReady, Goto, TypeOK,
       Inv, LockInv, Holding, LabelInv, TeardownLabels, ConnectLabels, Acting
  <2>2. LabelInv'
    BY <1>1, <1>2, <1>10, Constants DEF InitMedia, InitMediaFails, MediaIsReady, Goto, TypeOK,
       Inv, LabelInv, JoinLabels, TeardownLabels, ConnectLabels, AppLabels, StatusLabels
  <2>3. ResultInv'
    BY <1>1, <1>2, <1>3, <1>10, Constants DEF InitMedia, InitMediaFails, MediaIsReady, Goto,
       TypeOK, Inv, ResultInv, ConnectInv, Building, AllDown, InConnect, TeardownLabels,
       ConnectLabels, AppLabels
  <2>4. StatusInv'
    BY <1>1, <1>2, <1>3, <1>10, Constants DEF InitMedia, InitMediaFails, MediaIsReady, Goto,
       TypeOK, Inv, ConnectInv, Building, StatusInv, AllDown, ConnectLabels, TeardownLabels,
       PastStatus, PastKeepalive, PastMedia, Acting, Ended
  <2>5. TeardownInv'
    <3>1. \A i \in Instances : pc'[i] \notin TeardownLabels
      BY <1>1, <1>2, <1>10, Constants DEF InitMedia, InitMediaFails, MediaIsReady, Goto, TypeOK,
         Acting, TeardownLabels
    <3>2. TeardownAt(App)'
      <4>1. pc'[App] \notin TeardownLabels
        BY <1>10, Constants DEF InitMedia, InitMediaFails, MediaIsReady, Goto, TypeOK,
           TeardownLabels
      <4> QED
        BY <4>1, NotAtTeardownNext
    <3> QED
      BY <3>1, <3>2, NotAtTeardownNext, Constants DEF TeardownInv
  <2>6. ConnectInv'
    BY <1>1, <1>2, <1>10, Constants DEF InitMedia, InitMediaFails, MediaIsReady, Goto, TypeOK,
       Inv, ConnectInv, ConnectLabels, Building, AllDown, Up, Down, Idle, Only, Workers
  <2>7. RestInv'
    BY <1>1, <1>2, <1>3, <1>10, Constants DEF InitMedia, InitMediaFails, MediaIsReady, Goto,
       TypeOK, Inv, ConnectInv, RestInv, Building, ConnectLabels, TeardownLabels, AllDown, Up,
       Down, Idle, Only
  <2> QED
    BY <2>1, <2>2, <2>3, <2>4, <2>5, <2>6, <2>7 DEF Inv
<1>11. CASE \/ SetFlag("media", "c_mflag", "c_mthread")
           \/ CreateThread("media", "c_mthread", "c_mready")
  <2>1. LockInv'
    BY <1>1, <1>2, <1>11, Constants DEF SetFlag, CreateThread, Goto, TypeOK, Inv, LockInv,
       Holding, LabelInv, TeardownLabels, ConnectLabels, Acting
  <2>2. LabelInv'
    BY <1>1, <1>2, <1>11, Constants DEF SetFlag, CreateThread, Goto, TypeOK, Inv, LabelInv,
       JoinLabels, TeardownLabels, ConnectLabels, AppLabels, StatusLabels
  <2>3. ResultInv'
    BY <1>1, <1>2, <1>3, <1>11, Constants DEF SetFlag, CreateThread, Goto, TypeOK, Inv, ResultInv,
       ConnectInv, Building, AllDown, InConnect, TeardownLabels, ConnectLabels, AppLabels
  <2>4. StatusInv'
    BY <1>1, <1>2, <1>3, <1>11, Constants DEF SetFlag, CreateThread, Goto, TypeOK, Inv,
       ConnectInv, Building, StatusInv, AllDown, ConnectLabels, TeardownLabels, PastStatus,
       PastKeepalive, PastMedia, Acting, Ended
  <2>5. TeardownInv'
    <3>1. \A i \in Instances : pc'[i] \notin TeardownLabels
      BY <1>1, <1>2, <1>11, Constants DEF SetFlag, CreateThread, Goto, TypeOK, Acting,
         TeardownLabels
    <3>2. TeardownAt(App)'
      <4>1. pc'[App] \notin TeardownLabels
        BY <1>11, Constants DEF SetFlag, CreateThread, Goto, TypeOK, TeardownLabels
      <4> QED
        BY <4>1, NotAtTeardownNext
    <3> QED
      BY <3>1, <3>2, NotAtTeardownNext, Constants DEF TeardownInv
  <2>6. ConnectInv'
    BY <1>1, <1>2, <1>11, Constants DEF SetFlag, CreateThread, Goto, TypeOK, Inv, ConnectInv,
       ConnectLabels, Building, AllDown, Up, Down, Idle, Only, Workers
  <2>7. RestInv'
    BY <1>1, <1>2, <1>3, <1>11, Constants DEF SetFlag, CreateThread, Goto, TypeOK, Inv,
       ConnectInv, RestInv, Building, ConnectLabels, TeardownLabels, AllDown, Up, Down, Idle, Only
  <2> QED
    BY <2>1, <2>2, <2>3, <2>4, <2>5, <2>6, <2>7 DEF Inv
<1>12. CASE ConnectFailed \/ ConnectUnlock
  <2>1. LockInv'
    BY <1>1, <1>2, <1>12, Constants DEF ConnectFailed, ConnectUnlock, Call, LockDisconnect,
       UnlockDisconnect, Goto, TypeOK, Inv, LockInv, Holding, LabelInv, TeardownLabels,
       ConnectLabels, Acting
  <2>2. LabelInv'
    BY <1>1, <1>2, <1>12, Constants DEF ConnectFailed, ConnectUnlock, Call, LockDisconnect,
       UnlockDisconnect, Goto, TypeOK, Inv, LabelInv, JoinLabels, TeardownLabels, ConnectLabels,
       AppLabels, StatusLabels
  <2>3. ResultInv'
    BY <1>1, <1>2, <1>3, <1>12, Constants DEF ConnectFailed, ConnectUnlock, Call, LockDisconnect,
       UnlockDisconnect, Goto, TypeOK, Inv, ResultInv, ConnectInv, Building, AllDown, InConnect,
       TeardownLabels, ConnectLabels, AppLabels
  <2>4. StatusInv'
    BY <1>1, <1>2, <1>3, <1>12, Constants DEF ConnectFailed, ConnectUnlock, Call, LockDisconnect,
       UnlockDisconnect, Goto, TypeOK, Inv, ConnectInv, Building, StatusInv, AllDown,
       ConnectLabels, TeardownLabels, PastStatus, PastKeepalive, PastMedia, Acting, Ended
  <2>5. TeardownInv'
    <3>1. \A i \in Instances : pc'[i] \notin TeardownLabels
      BY <1>1, <1>2, <1>12, Constants DEF ConnectFailed, ConnectUnlock, Call, LockDisconnect,
         UnlockDisconnect, Goto, TypeOK, Acting, TeardownLabels
    <3>2. TeardownAt(App)'
      BY <1>3, <1>12, Constants DEF ConnectFailed, ConnectUnlock, Call, LockDisconnect,
         UnlockDisconnect, Goto, TypeOK, Inv, ConnectInv, ConnectLabels, TeardownAt,
         TeardownLabels, AllDown, Up, Down, Idle, Only, PastMedia, PastKeepalive, PastBitrate,
         Workers
    <3> QED
      BY <3>1, <3>2, NotAtTeardownNext, Constants DEF TeardownInv
  <2>6. ConnectInv'
    BY <1>1, <1>2, <1>12, Constants DEF ConnectFailed, ConnectUnlock, Call, LockDisconnect,
       UnlockDisconnect, Goto, TypeOK, Inv, ConnectInv, ConnectLabels, Building, AllDown, Up,
       Down, Idle, Only, Workers
  <2>7. RestInv'
    BY <1>1, <1>2, <1>3, <1>12, Constants DEF ConnectFailed, ConnectUnlock, Call, LockDisconnect,
       UnlockDisconnect, Goto, TypeOK, Inv, ConnectInv, RestInv, Building, ConnectLabels,
       TeardownLabels, AllDown, Up, Down, Idle, Only
  <2> QED
    BY <2>1, <2>2, <2>3, <2>4, <2>5, <2>6, <2>7 DEF Inv
<1> QED
  BY <1>4, <1>5, <1>6, <1>7, <1>8, <1>9, <1>10, <1>11, <1>12 DEF Connecting

LEMMA BitrateStep ==
    ASSUME TypeOK, TypeOK', Inv, Told, StartBitrate \/ SetFlag("bitrate", "b_flag", "idle")
    PROVE  Inv'
<1> USE DEF flagVars, threadVars, envVars
<1>1. attempt \notin dropped /\ result = "SUCCESS" /\ connected /\ pc[App] \in {"idle", "b_flag"}
  BY DEF StartBitrate, SetFlag, CreateThread, Goto, Told, Inv, ResultInv
<1>2. attempt \in Instances /\ events[attempt] = 0
  <2>1. attempt # 0
    BY <1>1 DEF Inv, ResultInv
  <2>2. attempt \in Instances
    BY <2>1, SessionAssumption DEF TypeOK, Instances
  <2>3. events[attempt] \in Nat
    BY <2>2 DEF TypeOK
  <2> QED
    BY <1>1, <2>2, <2>3 DEF Inv, ResultInv
<1>3. \A i \in Instances : pc[i] \notin Acting
  BY <1>1, OneAtWork
<1>4. pc[App] \notin ConnectLabels /\ \A t \in Callers : pc[t] \notin TeardownLabels
  BY <1>1, <1>3, Constants DEF Acting, TeardownLabels, ConnectLabels
<1>5. /\ pc'[App] \in {"idle", "b_flag"} /\ pc'[App] # pc[App]
           /\ \A i \in Instances : pc'[i] = pc[i]
      /\ \A t \in Callers : pc'[t] \notin TeardownLabels
  BY <1>3, <1>4, Constants DEF StartBitrate, SetFlag, CreateThread, Goto, TypeOK, TeardownLabels
<1>6. UNCHANGED <<connected, mediaReady, joining, socket, disconnectMutex, ret, attempt,
        dropped, result, events, freed>>
  BY DEF StartBitrate, SetFlag, CreateThread
<1>7. /\ \A w \in {"media", "keepalive"} : flag'[w] = flag[w] /\ thread'[w] = thread[w]
           /\ handle'[w] = handle[w]
      /\ flag'["cxn"] = flag["cxn"] /\ handle'["cxn"] = handle["cxn"]
  BY DEF StartBitrate, SetFlag, CreateThread, TypeOK, Workers
<1>8. /\ mediaReady /\ Up("media") /\ Up("keepalive") /\ socket = attempt /\ flag["cxn"]
      /\ IF pc[App] = "b_flag" THEN Stopping("bitrate") ELSE Up("bitrate") \/ Down("bitrate")
  <2>1. RestInv /\ App \in Callers
    BY Constants DEF Inv
  <2> QED
    BY <1>1, <1>4, <2>1, Zenon DEF RestInv
<1>9. Up("media")' /\ Up("keepalive")'
  BY <1>6, <1>7, <1>8 DEF Up, Only
<1>10. IF pc'[App] = "b_flag" THEN Stopping("bitrate")' ELSE Up("bitrate")'
  <2>1. CASE StartBitrate
    <3>1. Down("bitrate") /\ pc'[App] = "b_flag"
      BY <1>8, <2>1, Constants DEF StartBitrate, CreateThread, Goto, Up, Only, TypeOK
    <3> QED
      BY <1>2, <2>1, <3>1 DEF StartBitrate, CreateThread, Goto, Stopping, Only, Down, Idle,
         TypeOK, Workers
  <2>2. CASE SetFlag("bitrate", "b_flag", "idle")
    <3>1. Stopping("bitrate") /\ pc'[App] = "idle"
      BY <1>8, <2>2, Constants DEF SetFlag, Goto, TypeOK
    <3> QED
      BY <1>2, <2>2, <3>1 DEF SetFlag, Stopping, Only, Up, TypeOK, Workers
  <2> QED
    BY <2>1, <2>2
<1>11. LockInv' /\ LabelInv'
  BY <1>1, <1>3, <1>5, <1>6, Constants DEF Inv, LockInv, Holding, LabelInv, TeardownLabels,
     ConnectLabels, AppLabels, JoinLabels
<1>12. ResultInv'
  BY <1>1, <1>2, <1>5, <1>6, Constants DEF Inv, ResultInv, InConnect, TeardownLabels, ConnectLabels
<1>13. StatusInv'
  BY <1>1, <1>2, <1>3, <1>4, <1>5, <1>6, <1>7, Constants DEF Inv, StatusInv, PastStatus,
     PastKeepalive, PastMedia, TeardownLabels, Acting
<1>14. TeardownInv' /\ ConnectInv'
  BY <1>5, NotAtTeardownNext DEF TeardownInv, ConnectInv, Building, ConnectLabels
<1>15. RestInv'
  BY <1>1, <1>5, <1>6, <1>7, <1>8, <1>9, <1>10 DEF RestInv
<1> QED
  BY <1>11, <1>12, <1>13, <1>14, <1>15 DEF Inv

\* The steps of the application that change no more than where it is, what it returned and
\* who has disconnect_mutex.
LEMMA DisconnectStep ==
    ASSUME TypeOK, TypeOK', Inv, Disconnect \/ Disconnecting \/ Destroy
    PROVE  Inv'
<1> USE DEF flagVars, threadVars, envVars
<1>1. /\ UNCHANGED <<connected, mediaReady, flag, thread, handle, joining, socket, attempt,
           dropped>>
      /\ \A i \in Instances : pc'[i] = pc[i] /\ ret'[i] = ret[i] /\ events'[i] >= events[i]
      /\ pc[App] \in AppLabels \ {"b_flag"}
  BY Constants DEF Disconnect, Disconnecting, Destroy, DisconnectLocks, DisconnectChecks,
     DisconnectReports, DisconnectUnlocks, QueueEvent, Call, Goto, TypeOK, AppLabels
<1>2. attempt \in Instances
  BY <1>1, Constants DEF Disconnect, Disconnecting, Destroy, DisconnectLocks, DisconnectChecks,
     DisconnectReports, DisconnectUnlocks, Call, Goto, Inv, ResultInv, TypeOK, Instances
<1>3. LockInv'
  BY <1>1, Constants DEF Disconnect, Disconnecting, Destroy, DisconnectLocks, DisconnectChecks,
     DisconnectReports, DisconnectUnlocks, LockDisconnect, UnlockDisconnect, Call, Goto, TypeOK,
     Inv, LockInv, Holding, TeardownLabels
<1>4. LabelInv'
  BY <1>1, Constants DEF Disconnect, Disconnecting, Destroy, DisconnectLocks, DisconnectChecks,
     DisconnectReports, DisconnectUnlocks, Call, Goto, TypeOK, Inv, LabelInv, JoinLabels,
     TeardownLabels, AppLabels
<1>5. pc[App] \in {"x_check", "x_event", "x_unlock"} =>
        disconnectMutex = App /\ \A i \in Instances : pc[i] \notin TeardownLabels
  BY Constants DEF Inv, LockInv, Holding
<1>6. pc[App] = "x_check" =>
        IF connected
          THEN mediaReady /\ Up("media") /\ Up("keepalive") /\ (Up("bitrate") \/ Down("bitrate"))
          ELSE AllDown
  BY <1>5, Constants DEF Inv, RestInv, ConnectLabels, TeardownLabels
<1>7. ResultInv'
  BY <1>1, <1>2, <1>5, Constants DEF Disconnect, Disconnecting, Destroy, DisconnectLocks,
     DisconnectChecks, DisconnectReports, DisconnectUnlocks, Call, Goto, TypeOK, Inv, ResultInv,
     ConnectInv, AllDown, InConnect, TeardownLabels, ConnectLabels
<1>8. StatusInv'
  BY <1>1, <1>2, <1>5, <1>6, Constants DEF Disconnect, Disconnecting, Destroy, DisconnectLocks,
     DisconnectChecks, DisconnectReports, DisconnectUnlocks, QueueEvent, Call, Goto, TypeOK, Inv,
     StatusInv, ConnectInv, AllDown, Down, Idle, PastStatus, PastKeepalive, PastMedia,
     TeardownLabels, AppLabels, Acting
<1>9. TeardownInv'
  <2> SUFFICES ASSUME NEW t \in Callers, pc'[t] \in TeardownLabels PROVE TeardownAt(t)'
    BY NotAtTeardownNext DEF TeardownInv
  <2>1. CASE t \in Instances
    <3>1. TeardownAt(t) /\ pc'[t] = pc[t]
      BY <1>1, <2>1, Constants DEF Inv, TeardownInv
    <3> QED
      BY <1>1, <3>1 DEF TeardownAt, Up, Down, Idle, Only, Stopping
  <2>2. CASE t = App
    <3>1. pc'[App] = "d_media" /\ pc[App] = "x_check" /\ connected
      BY <2>2 DEF Disconnect, Disconnecting, Destroy, DisconnectLocks, DisconnectChecks,
         DisconnectReports, DisconnectUnlocks, Call, Goto, TypeOK, TeardownLabels
    <3> QED
      BY <1>1, <1>6, <2>2, <3>1 DEF TeardownAt, Up, Down, Idle, Only, Stopping, PastMedia,
         PastKeepalive, PastBitrate
  <2> QED
    BY <2>1, <2>2, Constants
<1>10. ConnectInv'
  BY <1>1, <1>2, <1>6 DEF Disconnect, Disconnecting, Destroy, DisconnectLocks, DisconnectChecks,
     DisconnectReports, DisconnectUnlocks, Call, Goto, TypeOK, Inv, ConnectInv, Building,
     ConnectLabels, AllDown, Down, Idle
<1>11. RestInv'
  <2>1. /\ Up("media")' = Up("media") /\ Up("keepalive")' = Up("keepalive")
        /\ Up("bitrate")' = Up("bitrate") /\ Down("bitrate")' = Down("bitrate")
        /\ AllDown' = AllDown
    BY <1>1 DEF Up, Only, Down, Idle, AllDown
  <2>2. /\ pc'[App] # "b_flag"
        /\ pc'[App] \notin ConnectLabels \cup TeardownLabels =>
             pc[App] \notin ConnectLabels \cup TeardownLabels
    BY <1>1 DEF Disconnect, Disconnecting, Destroy, DisconnectLocks, DisconnectChecks,
       DisconnectReports, DisconnectUnlocks, Call, Goto, TypeOK, AppLabels, ConnectLabels,
       TeardownLabels
  <2> QED
    BY <1>1, <2>1, <2>2, Constants DEF Inv, RestInv, AppLabels
<1> QED
  BY <1>3, <1>4, <1>7, <1>8, <1>9, <1>10, <1>11 DEF Inv

LEMMA ExitStep ==
    ASSUME TypeOK, TypeOK', Inv, NEW w \in Workers, NEW i \in Instances, WorkerExits(w, i)
    PROVE  Inv'
<1> USE DEF flagVars, envVars
<1>1. /\ UNCHANGED <<connected, mediaReady, flag, handle, joining, socket, disconnectMutex, pc,
           ret, attempt, dropped, result, events, freed>>
      /\ ~flag[w] /\ thread' = [thread EXCEPT ![w][i] = "exited"] /\ thread[w][i] = "running"
  BY DEF WorkerExits
<1>2. /\ \A v \in Workers : v # w => thread'[v] = thread[v]
      /\ \A j \in Instances : thread'[w][j] = IF j = i THEN "exited" ELSE thread[w][j]
  BY <1>1 DEF TypeOK
<1>3. ASSUME NEW v \in Workers
      PROVE  /\ Up(v) => Up(v)'
             /\ Idle(v) => Idle(v)'
             /\ Down(v) => Down(v)'
             /\ Stopping(v) => Stopping(v)'
  <2>1. CASE v = w
    BY <1>1, <1>2, <2>1 DEF Up, Idle, Down, Stopping, Only
  <2>2. CASE v # w
    BY <1>1, <1>2, <2>2 DEF Up, Idle, Down, Stopping, Only
  <2> QED
    BY <2>1, <2>2
<1>4. AllDown => AllDown'
  BY <1>1, <1>3 DEF AllDown
<1>5. LockInv' /\ LabelInv' /\ ResultInv'
  BY <1>1 DEF Inv, LockInv, Holding, LabelInv, ResultInv, InConnect
<1>6. StatusInv'
  BY <1>1, <1>3, <1>4 DEF Inv, StatusInv
<1>7. TeardownInv'
  BY <1>1, <1>3 DEF Inv, TeardownInv, TeardownAt, Workers
<1>8. ConnectInv'
  BY <1>1, <1>3, <1>4 DEF Inv, ConnectInv, Workers
<1>9. RestInv'
  BY <1>1, <1>3, <1>4 DEF Inv, RestInv, Workers
<1> QED
  BY <1>5, <1>6, <1>7, <1>8, <1>9 DEF Inv

LEMMA DropStep ==
    ASSUME TypeOK, TypeOK', Inv, Told, NEW i \in Instances, IngestDrops(i)
    PROVE  Inv'
<1> USE DEF flagVars, threadVars
<1>1. /\ UNCHANGED <<connected, mediaReady, flag, thread, handle, joining, socket,
           disconnectMutex, pc, ret, attempt, result, events, freed>>
      /\ dropped' = dropped \cup {i} /\ pc[i] = "s_loop" /\ result = "SUCCESS"
      /\ pc[App] # "b_flag"
  BY DEF IngestDrops, Told
<1>2. i = attempt
  BY <1>1, OneAtWork DEF Ended
<1>3. LockInv' /\ LabelInv' /\ ResultInv'
  BY <1>1, <1>2 DEF Inv, LockInv, Holding, LabelInv, ResultInv, InConnect
<1>4. StatusInv'
  BY <1>1, <1>2, Constants DEF Inv, StatusInv, AllDown, Down, Idle
<1>5. TeardownInv'
  BY <1>1 DEF Inv, TeardownInv, TeardownAt, Up, Down, Idle, Stopping, Only
<1>6. ConnectInv'
  BY <1>1 DEF Inv, ConnectInv, AllDown, Up, Down, Idle, Stopping, Only
<1>7. RestInv'
  BY <1>1 DEF Inv, RestInv, AllDown, Up, Down, Idle, Stopping, Only
<1> QED
  BY <1>3, <1>4, <1>5, <1>6, <1>7 DEF Inv

LEMMA StatusStep ==
    ASSUME TypeOK, TypeOK', Inv, NEW i \in Instances, StatusThread(i)
    PROVE  Inv'
<1> USE DEF flagVars, threadVars, envVars
<1>1. i = attempt /\ pc[i] \in {"s_loop", "s_check", "s_clear", "s_try", "s_unlock", "s_event"}
  <2>1. pc[i] \in {"s_loop", "s_check", "s_clear", "s_try", "s_unlock", "s_event"}
    BY DEF StatusThread, StatusLoop, StatusMove, StatusClearsFlag, Clear, StatusTriesLock,
       StatusUnlocks, StatusReports, Call, Goto
  <2> QED
    BY <2>1, OneAtWork DEF Ended
<1>2. /\ UNCHANGED <<connected, mediaReady, thread, handle, joining, socket, attempt, dropped,
           result, freed>>
      /\ \A w \in Workers : flag'[w] = flag[w]
      /\ \A t \in Callers : t # i => pc'[t] = pc[t] /\ ret'[t] = ret[t]
      /\ pc'[App] = pc[App] /\ ret'[App] = ret[App]
  BY Constants DEF StatusThread, StatusLoop, StatusMove, StatusClearsFlag, Clear, StatusTriesLock,
     StatusUnlocks, StatusReports, Call, Goto, TypeOK, Workers
<1>3. /\ \A w \in Workers : Up(w)' = Up(w) /\ Down(w)' = Down(w)
           /\ Stopping(w)' = Stopping(w) /\ Idle(w)' = Idle(w)
  BY <1>2 DEF Up, Down, Stopping, Only, Idle
<1>4. AllDown => AllDown'
  BY <1>2, <1>3 DEF AllDown, StatusThread, StatusLoop, StatusMove, StatusClearsFlag, Clear,
     StatusTriesLock, StatusUnlocks, StatusReports, TypeOK
<1>5. /\ pc[i] \in Acting \cup {"s_loop"} /\ pc[i] \notin TeardownLabels
      /\ pc[i] # "s_loop" => i \in dropped
  BY <1>1 DEF Inv, StatusInv, Acting, TeardownLabels
<1>6. pc[i] = "s_loop" =>
        \/ ~flag["cxn"] /\ pc[App] = "j_cxn" /\ pc'[i] = "exited"
        \/ i \in dropped /\ pc'[i] = "s_check"
  BY Constants DEF Inv, StatusInv, StatusThread, StatusLoop, StatusMove, StatusClearsFlag, Clear,
     StatusTriesLock, StatusUnlocks, StatusReports, LockDisconnect, UnlockDisconnect, QueueEvent,
     Call, Goto, TypeOK
<1>7. \/ /\ pc[i] \in {"s_loop", "s_check"} /\ pc'[i] \in {"s_check", "s_clear", "exited"}
         /\ events' = events
      \/ pc[i] = "s_clear" /\ pc'[i] = "s_try" /\ events' = events
      \/ pc[i] = "s_try" /\ disconnectMutex = NoOne /\ pc'[i] = "d_media" /\ events' = events
      \/ pc[i] = "s_try" /\ disconnectMutex # NoOne /\ pc'[i] = "s_event" /\ events' = events
      \/ pc[i] = "s_unlock" /\ pc'[i] = "s_event" /\ events' = events
      \/ pc[i] = "s_event" /\ pc'[i] = "exited"
  <2>1. CASE StatusLoop(i)
    BY <2>1, Constants DEF StatusLoop, StatusMove, Goto, TypeOK
  <2>2. CASE StatusClearsFlag(i) \/ StatusTriesLock(i) \/ StatusUnlocks(i) \/ StatusReports(i)
    BY <2>2, Constants DEF StatusClearsFlag, Clear, StatusTriesLock, StatusUnlocks, StatusReports,
       Call, Goto, TypeOK
  <2> QED
    BY <2>1, <2>2 DEF StatusThread
<1>8. pc[App] \notin ConnectLabels /\ (i \in dropped => ~InConnect)
  BY <1>1, <1>5, <1>6 DEF Inv, ResultInv, InConnect, ConnectLabels
<1>9. LockInv'
  BY <1>1, <1>2, Constants DEF Inv, LockInv, Holding, TeardownLabels, StatusThread, StatusLoop,
     StatusMove, StatusClearsFlag, Clear, StatusTriesLock, StatusUnlocks, StatusReports,
     LockDisconnect, UnlockDisconnect, QueueEvent, Call, Goto, TypeOK
<1>10. LabelInv'
  BY <1>1, <1>2, Constants DEF Inv, LabelInv, JoinLabels, TeardownLabels, StatusLabels,
     StatusThread, StatusLoop, StatusMove, StatusClearsFlag, Clear, StatusTriesLock,
     StatusUnlocks, StatusReports, LockDisconnect, UnlockDisconnect, QueueEvent, Call, Goto, TypeOK
<1>11. ResultInv'
  <2>1. InConnect' = InConnect
    BY <1>2 DEF InConnect
  <2>2. events' = events \/ (i \in dropped /\ pc[i] = "s_event" /\ pc'[i] = "exited")
    BY <1>5, <1>7
  <2>3. pc[App] = "idle" /\ pc[i] = "s_event" => ~connected
    BY DEF Inv, StatusInv, TeardownLabels
  <2>4. pc[i] \notin Ended
    BY <1>1 DEF Ended
  <2> QED
    BY <1>1, <1>2, <1>8, <2>1, <2>2, <2>3, <2>4 DEF Inv, ResultInv, Ended
<1>12. pc'[i] \in TeardownLabels =>
         /\ pc[i] = "s_try" /\ pc'[i] = "d_media" /\ disconnectMutex = NoOne
         /\ \A t \in Callers : pc[t] \notin TeardownLabels
  <2>1. pc'[i] \in TeardownLabels =>
          pc[i] = "s_try" /\ pc'[i] = "d_media" /\ disconnectMutex = NoOne
    BY <1>1 DEF TeardownLabels, StatusThread, StatusLoop, StatusMove, StatusClearsFlag, Clear,
       StatusTriesLock, StatusUnlocks, StatusReports, LockDisconnect, UnlockDisconnect,
       QueueEvent, Call, Goto, TypeOK
  <2>2. disconnectMutex = NoOne => \A j \in Instances : pc[j] \notin TeardownLabels
    BY Constants DEF Inv, LockInv, Holding
  <2>3. disconnectMutex = NoOne /\ ~InConnect => pc[App] \notin TeardownLabels
    BY Constants DEF Inv, LockInv, Holding, InConnect
  <2> QED
    BY <1>5, <1>8, <2>1, <2>2, <2>3, Constants
<1>13. StatusInv'
  <2>1. \A j \in Instances : j # i => pc'[j] = pc[j] /\ pc[j] \in Ended /\ events'[j] = events[j]
    BY <1>1, <1>2, OneAtWork, Constants DEF StatusThread, StatusLoop, StatusMove,
       StatusClearsFlag, Clear, StatusTriesLock, StatusUnlocks, StatusReports, LockDisconnect,
       UnlockDisconnect, QueueEvent, Call, Goto, TypeOK
  <2>2. pc'[i] \in Acting \cup {"exited"} /\ (pc'[i] \in Acting => i \in dropped)
    BY <1>1, <1>5, <1>6 DEF Acting, TeardownLabels, StatusThread, StatusLoop, StatusMove,
       StatusClearsFlag, Clear, StatusTriesLock, StatusUnlocks, StatusReports, LockDisconnect,
       UnlockDisconnect, QueueEvent, Call, Goto, TypeOK
  <2>3. /\ \A j \in Instances : j < attempt => pc'[j] \in Ended
        /\ \A j \in Instances : j > attempt =>
             pc'[j] = "none" /\ j \notin dropped /\ events'[j] = 0
        /\ \A j \in Instances : pc'[j] \in Acting => j \in dropped
    BY <1>1, <2>1, <2>2, Constants DEF Inv, StatusInv, Ended, Acting, TeardownLabels
  <2>4. flag'["cxn"] => flag["cxn"] /\ pc'[i] \in {"s_loop", "s_check", "s_clear"}
    BY <1>1, <1>8 DEF Inv, StatusInv, Acting, ConnectLabels, TeardownLabels, StatusThread,
       StatusLoop, StatusMove, StatusClearsFlag, Clear, StatusTriesLock, StatusUnlocks,
       StatusReports, LockDisconnect, UnlockDisconnect, QueueEvent, Call, Goto, TypeOK
  <2>5. pc'[i] \in Acting \ {"s_check", "s_clear"} => ~flag'["cxn"]
    BY <1>1, <1>5, <1>6 DEF Inv, StatusInv, Acting, TeardownLabels, StatusThread, StatusLoop,
       StatusMove, StatusClearsFlag, Clear, StatusTriesLock, StatusUnlocks, StatusReports,
       LockDisconnect, UnlockDisconnect, QueueEvent, Call, Goto, TypeOK
  <2>6. pc'[i] = "s_unlock" => FALSE
    BY <1>7
  <2>7. pc'[i] = "s_event" => ~connected \/ pc[App] \in TeardownLabels \cup {"x_check"}
    <3>1. CASE pc[i] = "s_unlock"
      BY <3>1 DEF Inv, StatusInv, AllDown
    <3>2. CASE pc[i] # "s_unlock" /\ pc'[i] = "s_event"
      <4>1. disconnectMutex # NoOne /\ i \in dropped
        BY <1>5, <1>7, <3>2
      <4>2. disconnectMutex = App
        BY <1>1, <3>2, <4>1, OneAtWork, Constants DEF Inv, LockInv, Holding, TypeOK, Ended,
           TeardownLabels, Acting
      <4>3. pc[App] \in {"x_event", "x_unlock"} => ~connected
        BY DEF Inv, ConnectInv, AllDown
      <4> QED
        BY <1>8, <4>2, <4>3, Constants DEF Inv, LockInv, Holding, ConnectLabels
    <3> QED
      BY <3>1, <3>2
  <2>8. pc[App] \in {"k_cxn", "j_cxn"} => pc'[i] \notin {"none", "joined"}
    BY <2>2 DEF Acting, TeardownLabels
  <2>9. pc[App] \in PastStatus \cup {"j_cxn"} => ~flag'["cxn"]
    BY <2>4 DEF Inv, StatusInv
  <2>10. pc'[i] \in TeardownLabels /\ ~connected => \A w \in Workers : Idle(w)
    BY <1>8, <1>12 DEF Inv, RestInv, AllDown, Down
  <2> QED
    BY <1>1, <1>2, <1>3, <1>8, <2>1, <2>2, <2>3, <2>4, <2>5, <2>6, <2>7, <2>8, <2>9,
       <2>10 DEF Inv, StatusInv, Ended, Acting, ConnectLabels, TeardownLabels
<1>14. TeardownAt(i)'
  <2>1. CASE pc'[i] \notin TeardownLabels
    BY <2>1, NotAtTeardownNext
  <2>2. CASE pc'[i] \in TeardownLabels
    <3>1. pc[App] # "b_flag"
      BY <1>1, <1>5, <1>12, <2>2 DEF Inv, ResultInv
    <3>2. IF connected THEN mediaReady /\ Up("keepalive") /\ (Up("bitrate") \/ Down("bitrate"))
                       ELSE AllDown
      BY <1>8, <1>12, <2>2, <3>1 DEF Inv, RestInv
    <3> QED
      BY <1>2, <1>3, <1>12, <2>2, <3>2 DEF TeardownAt, AllDown, Workers, PastMedia, PastKeepalive,
         PastBitrate
  <2> QED
    BY <2>1, <2>2
<1>15. TeardownInv'
  <2> SUFFICES ASSUME NEW t \in Callers, t # i PROVE TeardownAt(t)'
    BY <1>14 DEF TeardownInv
  <2> QED
    BY <1>2, <1>3 DEF Inv, TeardownInv, TeardownAt, Workers
<1>16. ConnectInv'
  BY <1>2, <1>3, <1>4, <1>8 DEF Inv, ConnectInv, ConnectLabels, Building
<1>17. RestInv'
  <2>1. (\A t \in Callers : pc'[t] \notin TeardownLabels) =>
          \A t \in Callers : pc[t] \notin TeardownLabels
    BY <1>2, <1>5
  <2>2. attempt \in dropped \/ flag["cxn"] => attempt \in dropped \/ flag'["cxn"]
    BY <1>1, <1>5 DEF StatusThread, StatusLoop, StatusMove, StatusClearsFlag, Clear,
       StatusTriesLock, StatusUnlocks, StatusReports, LockDisconnect, UnlockDisconnect,
       QueueEvent, Call, Goto, TypeOK
  <2> QED
    BY <1>2, <1>3, <1>4, <2>1, <2>2 DEF Inv, RestInv, Workers
<1> QED
  BY <1>9, <1>10, <1>11, <1>13, <1>15, <1>16, <1>17 DEF Inv

\* What every step of a teardown leaves alone.
LEMMA TeardownFrame ==
    ASSUME TypeOK, NEW t \in Callers, Teardown(t)
    PROVE  /\ UNCHANGED <<handle, disconnectMutex, ret, attempt, dropped, result, events, freed>>
           /\ pc[t] \in TeardownLabels
           /\ pc'[t] \in TeardownLabels \/ (pc[t] = "d_close" /\ pc'[t] = ret[t])
           /\ JoinStatusThread(t) \/ \A u \in Callers : u # t => pc'[u] = pc[u]
           /\ connected' = connected \/ pc[t] = "d_conn"
           /\ connected' => connected
           /\ flag'["cxn"] => flag["cxn"]
           /\ \A w \in Workers, i \in Instances : thread'[w][i] = "running" =>
                thread[w][i] = "running"
<1> USE DEF flagVars, threadVars, envVars
<1>1. CASE DestroyMedia(t)
  BY <1>1 DEF DestroyMedia, StopWorker, MediaNotReady, Test, Clear, WaitFor, Join, Goto, TypeOK,
     TeardownLabels
<1>2. CASE StopWorker(t, "keepalive", "d_keepalive", "k_keepalive", "j_keepalive", "d_cxn")
  BY <1>2 DEF StopWorker, Test, Clear, WaitFor, Join, Goto, TypeOK, TeardownLabels
<1>3. CASE StopStatusThread(t)
  BY <1>3 DEF StopStatusThread, JoinStatusThread, Test, Clear, WaitFor, Join, Goto, TypeOK,
     TeardownLabels
<1>4. CASE StopWorker(t, "bitrate", "d_bitrate", "k_bitrate", "j_bitrate", "d_conn")
  BY <1>4 DEF StopWorker, Test, Clear, WaitFor, Join, Goto, TypeOK, TeardownLabels
<1>5. CASE ClearConnected(t) \/ CloseSocket(t)
  BY <1>5 DEF ClearConnected, CloseSocket, Goto, TypeOK, TeardownLabels
<1> QED
  BY <1>1, <1>2, <1>3, <1>4, <1>5 DEF Teardown

\* Where the others are while t tears the session down.
LEMMA TeardownAlone ==
    ASSUME TypeOK, Inv, NEW t \in Callers, pc[t] \in TeardownLabels
    PROVE  /\ attempt \in Instances
           /\ t # App => t = attempt /\ attempt \in dropped /\ ~InConnect /\ ~flag["cxn"]
           /\ \A u \in Callers : u # t =>
                pc[u] \notin TeardownLabels \cup ConnectLabels
                               \cup {"s_unlock", "x_event", "x_unlock", "x_check"}
           /\ joining[t] \in {0, attempt}
           /\ \A u \in Callers : u # t => joining[u] = 0
<1>1. \A u \in Callers : u # t => pc[u] \notin TeardownLabels
  BY Exclusive DEF TeardownExclusive
<1>2. attempt \in Instances
  <2>1. attempt = 0 => pc[App] = "idle" /\ \A i \in Instances : i > attempt /\ pc[i] = "none"
    BY Constants DEF Inv, ResultInv, StatusInv
  <2>2. attempt # 0
    BY <2>1, Constants DEF TeardownLabels
  <2> QED
    BY <2>2, SessionAssumption DEF TypeOK, Instances
<1>3. t # App => t = attempt /\ attempt \in dropped /\ ~InConnect /\ ~flag["cxn"]
        /\ disconnectMutex = t
  BY OneAtWork, Constants DEF Acting, TeardownLabels, Inv, StatusInv, LockInv, Holding
<1>4. ASSUME t # App
      PROVE  pc[App] \notin ConnectLabels \cup {"x_event", "x_unlock", "x_check"}
  BY <1>3, <1>4, Constants DEF InConnect, Inv, LockInv, Holding
<1>5. ASSUME t = App, NEW u \in Instances
      PROVE  pc[u] # "s_unlock"
  <2>1. pc[u] = "s_unlock" => disconnectMutex = u /\ ~InConnect
    BY OneAtWork, Constants DEF Inv, LockInv, Holding, Acting
  <2>2. ~InConnect => disconnectMutex = App
    BY <1>5, Constants DEF InConnect, Inv, LockInv, Holding, LabelInv
  <2> QED
    BY <2>1, <2>2, Constants
<1>6. \A u \in Callers : u # t =>
        pc[u] \notin ConnectLabels \cup {"s_unlock", "x_event", "x_unlock", "x_check"}
  <2> SUFFICES ASSUME NEW u \in Callers, u # t
        PROVE pc[u] \notin ConnectLabels \cup {"s_unlock", "x_event", "x_unlock", "x_check"}
    OBVIOUS
  <2>1. CASE u = App
    BY <1>4, <2>1 DEF Inv, LabelInv, TeardownLabels, ConnectLabels, AppLabels
  <2>2. CASE u \in Instances /\ t = App
    BY <1>5, <2>2 DEF Inv, LabelInv, TeardownLabels, ConnectLabels, StatusLabels
  <2>3. CASE u \in Instances /\ t # App
    BY <1>3, <2>3, OneAtWork DEF Ended, ConnectLabels
  <2> QED
    BY <2>1, <2>2, <2>3, Constants
<1>7. joining[t] \in {0, attempt} /\ \A u \in Callers : u # t => joining[u] = 0
  BY <1>1 DEF Inv, LabelInv, JoinLabels, TeardownLabels
<1> QED
  BY <1>1, <1>2, <1>3, <1>6, <1>7

\* The step that ends a teardown leaves nothing of the session.
LEMMA TeardownEnds ==
    ASSUME TypeOK, Inv, NEW t \in Callers, CloseSocket(t)
    PROVE  AllDown'
<1>1. pc[t] = "d_close" /\ socket' = 0 /\ UNCHANGED <<connected, mediaReady, flag, thread>>
  BY DEF CloseSocket, Goto, flagVars, threadVars
<1>2. ~flag["cxn"]
  <2>1. CASE t = App
    BY <1>1, <2>1 DEF Inv, StatusInv, PastStatus, PastKeepalive, PastMedia, TeardownLabels
  <2>2. CASE t # App
    BY <1>1, <2>2, TeardownAlone DEF TeardownLabels
  <2> QED
    BY <2>1, <2>2
<1>3. /\ ~connected /\ ~mediaReady
      /\ Down("media") /\ Down("keepalive") /\ Down("bitrate")
  BY <1>1 DEF Inv, TeardownInv, TeardownAt, PastMedia, PastKeepalive, PastBitrate, TeardownLabels
<1> QED
  BY <1>1, <1>2, <1>3 DEF AllDown, Down, Idle, Workers

LEMMA TeardownStep ==
    ASSUME TypeOK, TypeOK', Inv, NEW t \in Callers, Teardown(t)
    PROVE  Inv'
<1> USE DEF flagVars, threadVars, envVars
<1>1. /\ UNCHANGED <<handle, disconnectMutex, ret, attempt, dropped, result, events, freed>>
      /\ pc[t] \in TeardownLabels
      /\ pc'[t] \in TeardownLabels \/ (pc[t] = "d_close" /\ pc'[t] = ret[t])
      /\ connected' => connected
      /\ flag'["cxn"] => flag["cxn"]
  BY TeardownFrame
<1>2. /\ attempt \in Instances
      /\ t # App => t = attempt /\ attempt \in dropped /\ ~InConnect /\ ~flag["cxn"]
      /\ \A u \in Callers : u # t =>
           pc[u] \notin TeardownLabels \cup ConnectLabels
                          \cup {"s_unlock", "x_event", "x_unlock", "x_check"}
      /\ joining[t] \in {0, attempt}
      /\ \A u \in Callers : u # t => joining[u] = 0
  BY <1>1, TeardownAlone
<1>3. \/ \A u \in Callers : u # t => pc'[u] = pc[u]
      \/ /\ t = App /\ pc[App] = "j_cxn" /\ pc'[App] = "d_bitrate"
         /\ pc[attempt] = "exited" /\ pc'[attempt] = "joined"
         /\ \A u \in Callers : u \notin {App, attempt} => pc'[u] = pc[u]
  <2>1. CASE JoinStatusThread(t)
    <3>1. pc[t] = "j_cxn" /\ joining[t] = attempt
      BY <1>2, <2>1 DEF JoinStatusThread
    <3>2. t = App
      BY <3>1, Constants DEF Inv, LabelInv, StatusLabels
    <3> QED
      BY <1>2, <2>1, <3>1, <3>2, Constants DEF JoinStatusThread, TypeOK
  <2> QED
    BY <2>1, TeardownFrame
<1>4. pc[t] = "d_close" => CloseSocket(t) /\ AllDown'
  BY TeardownEnds DEF Teardown, DestroyMedia, StopWorker, StopStatusThread, JoinStatusThread,
     MediaNotReady, ClearConnected, Test, Clear, WaitFor, Join, Goto
<1>5. LockInv'
  BY <1>1, <1>2, <1>3, Constants DEF Inv, LockInv, Holding, LabelInv, TeardownLabels
<1>6. LabelInv'
  <2>1. \A i \in Instances : pc'[i] \in (TeardownLabels \ {"k_cxn", "j_cxn"}) \cup StatusLabels
    <3>1. t # App => pc'[t] \notin {"k_cxn", "j_cxn"}
      BY <1>2, Constants DEF Inv, LabelInv, StatusLabels, Teardown, DestroyMedia, StopWorker,
         StopStatusThread, JoinStatusThread, MediaNotReady, ClearConnected, CloseSocket, Test,
         Clear, WaitFor, Join, Goto, TypeOK
    <3> QED
      BY <1>1, <1>3, <3>1, Constants DEF Inv, LabelInv, StatusLabels, TeardownLabels
  <2>2. \A u \in Callers : joining'[u] # 0 => joining'[u] = attempt /\ pc'[u] \in JoinLabels
    <3>1. pc[t] \in JoinLabels => joining'[t] = 0 \/ (joining'[t] = attempt /\ pc'[t] = pc[t])
      <4>1. /\ pc[t] = "j_media" => handle["media"] = attempt
            /\ pc[t] = "j_keepalive" => handle["keepalive"] = attempt
            /\ pc[t] = "j_bitrate" => handle["bitrate"] = attempt
            /\ pc[t] = "j_cxn" => handle["cxn"] = attempt
        BY <1>2, Constants DEF Inv, TeardownInv, TeardownAt, Stopping, Only, StatusInv, LabelInv,
           StatusLabels
      <4> QED
        BY <1>2, <4>1 DEF JoinLabels, Teardown, DestroyMedia, StopWorker, StopStatusThread,
           JoinStatusThread, MediaNotReady, ClearConnected, CloseSocket, Test, Clear, WaitFor,
           Join, Goto, TypeOK
    <3>2. pc[t] \notin JoinLabels => joining'[t] = joining[t] /\ joining[t] = 0
      BY DEF Inv, LabelInv, JoinLabels, Teardown, DestroyMedia, StopWorker, StopStatusThread,
         JoinStatusThread, MediaNotReady, ClearConnected, CloseSocket, Test, Clear, WaitFor, Join,
         Goto, TypeOK
    <3>3. \A u \in Callers : u # t => joining'[u] = joining[u]
      BY DEF Teardown, DestroyMedia, StopWorker, StopStatusThread, JoinStatusThread,
         MediaNotReady, ClearConnected, CloseSocket, Test, Clear, WaitFor, Join, Goto, TypeOK
    <3> QED
      BY <1>2, <3>1, <3>2, <3>3
  <2> QED
    BY <1>1, <1>2, <1>3, <2>1, <2>2, Constants DEF Inv, LabelInv, TeardownLabels, ConnectLabels,
       AppLabels
<1>7. ResultInv'
  <2>1. InConnect' => InConnect
    BY <1>1, <1>2, <1>3, Constants DEF InConnect, Inv, LabelInv, ConnectLabels, TeardownLabels
  <2>2. pc'[App] \in {"idle", "b_flag"} => pc'[App] = pc[App] /\ t = attempt /\ attempt \in dropped
    BY <1>1, <1>2, <1>3, Constants DEF Inv, LabelInv, TeardownLabels
  <2>3. pc[t] \notin Ended
    BY <1>1 DEF TeardownLabels, Ended
  <2> QED
    BY <1>1, <1>2, <1>3, <2>1, <2>2, <2>3, Constants DEF Inv, ResultInv, TeardownLabels
<1>8. StatusInv'
  <2>1. \A i \in Instances : i # attempt => pc'[i] = pc[i] /\ pc[i] \in Ended
    BY <1>2, <1>3, OneAtWork, Constants
  <2>2. pc'[attempt] \in Acting => attempt \in dropped
    BY <1>1, <1>2, <1>3, Constants DEF Inv, StatusInv, LabelInv, Acting, TeardownLabels
  <2>3. /\ \A i \in Instances : i < attempt => pc'[i] \in Ended
        /\ \A i \in Instances : i > attempt =>
             pc'[i] = "none" /\ i \notin dropped /\ events'[i] = 0
        /\ \A i \in Instances : pc'[i] \in Acting => i \in dropped
    BY <1>1, <1>2, <2>1, <2>2, Constants DEF Inv, StatusInv, Ended, Acting, TeardownLabels
  <2>4. flag'["cxn"] => pc[App] # "j_cxn" /\ handle["cxn"] = attempt
          /\ pc'[attempt] \in {"s_loop", "s_check", "s_clear"}
    BY <1>1, <1>2, <1>3, Constants DEF Inv, StatusInv, TeardownLabels
  <2>5. pc'[App] \in {"k_cxn", "j_cxn"} =>
          handle["cxn"] = attempt /\ pc'[attempt] \notin {"none", "joined"}
    <3>1. pc'[App] \in {"k_cxn", "j_cxn"} =>
            /\ t = App
            /\ (pc[App] = "d_cxn" /\ flag["cxn"]) \/ pc[App] \in {"k_cxn", "j_cxn"}
      BY <1>2, <1>3, Constants DEF TeardownLabels, Teardown, DestroyMedia, StopWorker,
         StopStatusThread, JoinStatusThread, MediaNotReady, ClearConnected, CloseSocket, Test,
         Clear, WaitFor, Join, Goto, TypeOK
    <3> QED
      BY <1>2, <1>3, <3>1, Constants DEF Inv, StatusInv
  <2>6. pc'[App] \in PastStatus \cup {"j_cxn"} => ~flag'["cxn"]
    <3>1. pc'[App] \in PastStatus \cup {"j_cxn"} =>
            /\ t = App
            /\ \/ pc[App] = "d_cxn" /\ ~flag["cxn"]
               \/ pc[App] = "k_cxn" /\ ~flag'["cxn"]
               \/ pc[App] \in PastStatus \cup {"j_cxn"}
      BY <1>2, <1>3, Constants DEF TeardownLabels, PastStatus, PastKeepalive, PastMedia, Teardown,
         DestroyMedia, StopWorker, StopStatusThread, JoinStatusThread, MediaNotReady,
         ClearConnected, CloseSocket, Test, Clear, WaitFor, Join, Goto, TypeOK
    <3> QED
      BY <1>1, <3>1 DEF Inv, StatusInv
  <2>7. pc'[attempt] = "s_loop" /\ ~flag'["cxn"] => pc'[App] = "j_cxn"
    <3>1. pc'[attempt] = "s_loop" => pc[attempt] = "s_loop" /\ t = App
      BY <1>1, <1>2, <1>3, Constants DEF Inv, LabelInv, TeardownLabels
    <3>2. flag["cxn"] /\ ~flag'["cxn"] => pc[t] = "k_cxn" /\ pc'[t] = "j_cxn"
      BY DEF Workers, Teardown, DestroyMedia, StopWorker, StopStatusThread, JoinStatusThread,
         MediaNotReady, ClearConnected, CloseSocket, Test, Clear, WaitFor, Join, Goto, TypeOK
    <3>3. pc[App] = "j_cxn" /\ pc[attempt] = "s_loop" => pc'[App] = "j_cxn" \/ t # App
      BY <1>2, Constants DEF Teardown, DestroyMedia, StopWorker, StopStatusThread,
         JoinStatusThread, MediaNotReady, ClearConnected, CloseSocket, Test, Clear, WaitFor, Join,
         Goto, TypeOK
    <3> QED
      BY <1>2, <3>1, <3>2, <3>3 DEF Inv, StatusInv
  <2>8. /\ pc'[attempt] \in Acting \ {"s_check", "s_clear"} => ~flag'["cxn"]
        /\ pc'[attempt] = "s_unlock" => AllDown'
        /\ pc'[attempt] = "s_event" => ~connected' \/ pc'[App] \in TeardownLabels
    <3>1. CASE t = App
      <4>1. pc'[attempt] = pc[attempt] \/ pc'[attempt] = "joined"
        BY <1>2, <1>3, <3>1, Constants
      <4>2. pc[attempt] # "s_unlock"
        BY <1>2, <3>1, Constants
      <4>3. pc'[App] \in TeardownLabels \/ ~connected'
        BY <1>1, <1>4, <3>1 DEF AllDown
      <4> QED
        BY <1>1, <1>2, <4>1, <4>2, <4>3 DEF Inv, StatusInv, Acting, TeardownLabels
    <3>2. CASE t # App
      <4>1. t = attempt /\ ret[t] = "s_unlock"
        BY <1>1, <1>2, <3>2, Constants DEF Inv, LabelInv
      <4> QED
        BY <1>1, <1>2, <1>4, <3>2, <4>1 DEF TeardownLabels
    <3> QED
      BY <3>1, <3>2
  <2>9. pc'[attempt] \in TeardownLabels /\ ~connected' => \A w \in Workers : Idle(w)'
    <3> SUFFICES ASSUME pc'[attempt] \in TeardownLabels, ~connected'
          PROVE \A w \in Workers : Idle(w)'
      OBVIOUS
    <3>1. t = attempt
      BY <1>2, <1>3, Constants DEF TeardownLabels
    <3>2. \A w \in Workers : Idle(w)
      <4>1. CASE ~connected
        BY <1>1, <1>2, <3>1, <4>1 DEF Inv, StatusInv
      <4>2. CASE pc[t] = "d_conn"
        BY <4>2 DEF Inv, TeardownInv, TeardownAt, PastMedia, PastKeepalive, PastBitrate,
           TeardownLabels, Down, Workers
      <4> QED
        BY <4>1, <4>2, TeardownFrame
    <3> QED
      BY <3>2, TeardownFrame DEF Idle
  <2> QED
    BY <1>1, <1>2, <2>1, <2>3, <2>4, <2>5, <2>6, <2>7, <2>8, <2>9, Constants DEF StatusInv, Ended,
       Acting, TeardownLabels
<1>9. TeardownAt(t)'
  <2> USE DEF TeardownAt, PastMedia, PastKeepalive, PastBitrate
  <2>1. TeardownAt(t)
    BY DEF Inv, TeardownInv
  <2>2. CASE DestroyMedia(t)
    <3>1. CASE Test(t, mediaReady, "d_media", "d_mclear", "d_keepalive") \/ MediaNotReady(t)
      BY <2>1, <3>1 DEF Inv, RestInv, Test, MediaNotReady, Goto, TypeOK, Up, Down, Idle, Only,
         Stopping, TeardownLabels
    <3>2. CASE Test(t, flag["media"], "d_mtest", "k_media", "d_keepalive")
      BY <2>1, <3>2 DEF Test, Goto, TypeOK, Up, Down, Idle, Only, Stopping, TeardownLabels
    <3>3. CASE Clear(t, "media", "k_media", "j_media")
      BY <2>1, <3>3 DEF Clear, Goto, TypeOK, Up, Down, Idle, Only, Stopping, TeardownLabels,
         Workers
    <3>4. CASE WaitFor(t, "media", "j_media")
      BY <2>1, <3>4 DEF WaitFor, Up, Down, Idle, Only, Stopping, TeardownLabels
    <3>5. CASE Join(t, "media", "j_media", "d_keepalive")
      BY <1>2, <2>1, <3>5 DEF Join, Goto, TypeOK, Up, Down, Idle, Only, Stopping, TeardownLabels,
         Workers
    <3> QED
      BY <2>2, <3>1, <3>2, <3>3, <3>4, <3>5 DEF DestroyMedia, StopWorker
  <2>3. CASE StopWorker(t, "keepalive", "d_keepalive", "k_keepalive", "j_keepalive", "d_cxn")
    <3>1. CASE Test(t, flag["keepalive"], "d_keepalive", "k_keepalive", "d_cxn")
      BY <2>1, <3>1 DEF Test, Goto, TypeOK, Up, Down, Idle, Only, Stopping, TeardownLabels
    <3>2. CASE Clear(t, "keepalive", "k_keepalive", "j_keepalive")
      BY <2>1, <3>2 DEF Clear, Goto, TypeOK, Up, Down, Idle, Only, Stopping, TeardownLabels,
         Workers
    <3>3. CASE WaitFor(t, "keepalive", "j_keepalive")
      BY <2>1, <3>3 DEF WaitFor, Up, Down, Idle, Only, Stopping, TeardownLabels
    <3>4. CASE Join(t, "keepalive", "j_keepalive", "d_cxn")
      BY <1>2, <2>1, <3>4 DEF Join, Goto, TypeOK, Up, Down, Idle, Only, Stopping, TeardownLabels,
         Workers
    <3> QED
      BY <2>3, <3>1, <3>2, <3>3, <3>4 DEF StopWorker
  <2>4. CASE StopStatusThread(t)
    <3>1. /\ pc[t] \in {"d_cxn", "k_cxn", "j_cxn"} /\ pc'[t] \in {"k_cxn", "j_cxn", "d_bitrate"}
          /\ UNCHANGED <<mediaReady, thread, handle, attempt>>
               /\ \A w \in Workers : flag'[w] = flag[w]
      BY <1>2, <1>3, <2>4, Constants DEF StopStatusThread, Test, Clear, WaitFor, JoinStatusThread,
         Goto, TypeOK, Workers
    <3> QED
      BY <2>1, <3>1 DEF Up, Down, Idle, Only, TeardownLabels, Workers
  <2>5. CASE StopWorker(t, "bitrate", "d_bitrate", "k_bitrate", "j_bitrate", "d_conn")
    <3>1. CASE Test(t, flag["bitrate"], "d_bitrate", "k_bitrate", "d_conn")
      BY <2>1, <3>1 DEF Test, Goto, TypeOK, Up, Down, Idle, Only, Stopping, TeardownLabels
    <3>2. CASE Clear(t, "bitrate", "k_bitrate", "j_bitrate")
      BY <2>1, <3>2 DEF Clear, Goto, TypeOK, Up, Down, Idle, Only, Stopping, TeardownLabels,
         Workers
    <3>3. CASE WaitFor(t, "bitrate", "j_bitrate")
      BY <2>1, <3>3 DEF WaitFor, Up, Down, Idle, Only, Stopping, TeardownLabels
    <3>4. CASE Join(t, "bitrate", "j_bitrate", "d_conn")
      BY <1>2, <2>1, <3>4 DEF Join, Goto, TypeOK, Up, Down, Idle, Only, Stopping, TeardownLabels,
         Workers
    <3> QED
      BY <2>5, <3>1, <3>2, <3>3, <3>4 DEF StopWorker
  <2>6. CASE ClearConnected(t)
    BY <2>1, <2>6 DEF ClearConnected, Goto, TypeOK, Up, Down, Idle, Only, Stopping, TeardownLabels
  <2>7. CASE CloseSocket(t)
    <3>1. pc'[t] = ret[t]
      BY <2>7 DEF CloseSocket, Goto, TypeOK
    <3>2. ret[t] \notin TeardownLabels
      BY DEF TypeOK, TeardownLabels
    <3> QED
      BY <3>1, <3>2, NotAtTeardownNext
  <2> QED
    BY <2>2, <2>3, <2>4, <2>5, <2>6, <2>7 DEF Teardown
<1>10. TeardownInv'
  <2>1. \A u \in Callers : u # t => pc'[u] \notin TeardownLabels
    BY <1>2, <1>3 DEF TeardownLabels
  <2> QED
    BY <1>9, <2>1, NotAtTeardownNext DEF TeardownInv
<1>11. ConnectInv'
  <2>1. pc'[App] \in ConnectLabels \cup {"x_event", "x_unlock"} =>
          pc'[App] \in {"c_fail", "c_unlock", "x_event"} /\ AllDown'
    BY <1>1, <1>2, <1>3, <1>4, Constants DEF Inv, LabelInv, TeardownLabels, ConnectLabels
  <2> QED
    BY <2>1 DEF ConnectInv, AllDown, Building, ConnectLabels, Workers
<1>12. RestInv'
  <2>1. mediaReady' => Up("media")'
    <3>1. mediaReady' => mediaReady /\ pc[t] = "d_media"
      BY <1>1 DEF Inv, TeardownInv, TeardownAt, PastMedia, TeardownLabels, Teardown, DestroyMedia,
         StopWorker, StopStatusThread, JoinStatusThread, MediaNotReady, ClearConnected,
         CloseSocket, Test, Clear, WaitFor, Join, Goto, TypeOK
    <3>2. pc[t] = "d_media" => UNCHANGED <<flag, thread>>
      BY DEF Teardown, DestroyMedia, StopWorker, StopStatusThread, JoinStatusThread,
         MediaNotReady, ClearConnected, CloseSocket, Test, Clear, WaitFor, Join, Goto
    <3> QED
      BY <1>1, <3>1, <3>2 DEF Inv, RestInv, Up, Only
  <2>2. (\A u \in Callers : pc'[u] \notin TeardownLabels) => AllDown'
    BY <1>1, <1>4
  <2> QED
    BY <2>1, <2>2 DEF RestInv, AllDown
<1> QED
  BY <1>5, <1>6, <1>7, <1>8, <1>10, <1>11, <1>12 DEF Inv

LEMMA Preserved ==
    ASSUME Told, TypeOK, Inv, [Next]_vars
    PROVE  TypeOK' /\ Inv'
<1>1. TypeOK'
  BY TypeStep
<1>2. CASE UNCHANGED vars
  <2>1. LockInv' /\ LabelInv' /\ ResultInv' /\ StatusInv'
    BY <1>2 DEF vars, flagVars, threadVars, envVars, Inv, LockInv, Holding, LabelInv, ResultInv,
       InConnect, StatusInv, AllDown, Down, Idle
  <2>2. TeardownInv'
    BY <1>2 DEF vars, flagVars, threadVars, envVars, Inv, TeardownInv, TeardownAt, Up, Down,
       Stopping, Only, Idle
  <2>3. ConnectInv' /\ RestInv'
    BY <1>2 DEF vars, flagVars, threadVars, envVars, Inv, ConnectInv, RestInv, AllDown, Up, Down,
       Stopping, Only, Idle
  <2> QED
    BY <1>1, <2>1, <2>2, <2>3 DEF Inv
<1>3. CASE Connect
  BY <1>1, <1>3, ConnectStep
<1>4. CASE StartBitrate \/ Disconnect \/ Destroy
  BY <1>1, <1>4, BitrateStep, DisconnectStep
<1>5. ASSUME NEW t \in Callers, Step(t)
      PROVE  Inv'
  <2>1. Connecting => pc[App] \in ConnectLabels
    BY DEF Connecting, OpenSocket, Handshake, SetFlag, CreateStatusThread, CreateFails,
       CreateThread,
       InitMedia, InitMediaFails, MediaIsReady, ConnectFailed, ConnectUnlock, Call, Goto,
       ConnectLabels
  <2>2. t # App => t \in Instances
    BY Constants
  <2> QED
    BY <1>1, <1>5, <2>1, <2>2, TeardownStep, BuildStep, DisconnectStep, BitrateStep,
       StatusStep DEF Step
<1>6. ASSUME NEW w \in Workers, NEW i \in Instances, WorkerExits(w, i)
      PROVE  Inv'
  BY <1>1, <1>6, ExitStep
<1>7. ASSUME NEW i \in Instances, IngestDrops(i)
      PROVE  Inv'
  BY <1>1, <1>7, DropStep
<1> QED
  BY <1>1, <1>2, <1>3, <1>4, <1>5, <1>6, <1>7 DEF Next

LEMMA Initial == Init => TypeOK /\ Inv
<1> SUFFICES ASSUME Init PROVE TypeOK /\ Inv
  OBVIOUS
<1>1. TypeOK
  BY InitTypes
<1>2. /\ pc[App] = "idle" /\ \A i \in Instances : pc[i] = "none"
      /\ \A t \in Callers : joining[t] = 0 /\ disconnectMutex # t
  BY Constants DEF Init
<1>3. AllDown
  BY DEF Init, AllDown, Down, Idle, Workers
<1>4. LockInv /\ LabelInv /\ ResultInv
  BY <1>2, Constants DEF Init, LockInv, Holding, LabelInv, ResultInv, InConnect, ConnectLabels,
     TeardownLabels, AppLabels, StatusLabels
<1>5. StatusInv
  BY <1>2, <1>3, Constants DEF Init, StatusInv, AllDown, Ended, Acting, TeardownLabels,
     PastStatus, PastKeepalive, PastMedia
<1>6. TeardownInv
  BY <1>2, NotAtTeardown, Constants DEF TeardownInv, TeardownLabels
<1>7. ConnectInv /\ RestInv
  BY <1>2, <1>3 DEF Init, ConnectInv, RestInv, ConnectLabels, Building, AllDown
<1> QED
  BY <1>1, <1>4, <1>5, <1>6, <1>7 DEF Inv

-----------------------------------------------------------------------------
(* Theorems *)

LEMMA Invariance ==
    ASSUME Told
    PROVE  Spec => [](TypeOK /\ Inv)
<1>1. Init => TypeOK /\ Inv
  BY Initial
<1>2. TypeOK /\ Inv /\ [Next]_vars => (TypeOK /\ Inv)'
  BY Preserved
<1> QED
  BY <1>1, <1>2, PTL DEF Spec

\* The application and the status threads never tear the session down at the same time,
\* however often the application connects: disconnect_mutex and the order in which
\* _ingest_connect and connection_status_thread work keep them apart.
THEOREM OneTeardown ==
    ASSUME Told
    PROVE  Spec => []TeardownExclusive
<1>1. TypeOK /\ Inv => TeardownExclusive
  BY Exclusive
<1> QED
  BY <1>1, Invariance, PTL

\* A teardown waits only for a thread that was created, that nobody has joined and that is not
\* the one it runs on (os_wait_thread in internal_ingest_disconnect and _ingest_disconnect).
THEOREM Joins ==
    ASSUME Told
    PROVE  Spec => []NoBadJoin
<1>1. ASSUME TypeOK, Inv
      PROVE  NoBadJoin
  <2>1. ASSUME NEW t \in Callers, pc[t] = "j_cxn"
        PROVE  /\ handle["cxn"] \notin {0, t}
               /\ joining[t] # 0 => joining[t] # t /\ pc[joining[t]] # "joined"
    <3>1. t = App /\ joining[t] \in {0, attempt} /\ attempt \in Instances
      BY <1>1, <2>1, TeardownAlone, Constants DEF Inv, LabelInv, StatusLabels, TeardownLabels
    <3> QED
      BY <1>1, <2>1, <3>1, Constants DEF Inv, StatusInv
  <2>2. ASSUME NEW t \in Callers, NEW w \in Workers, pc[t] = JoinLabel[w]
        PROVE  handle[w] # 0 /\ (joining[t] # 0 => thread[w][joining[t]] \in {"running", "exited"})
    <3>1. pc[t] \in TeardownLabels /\ Stopping(w)
      BY <1>1, <2>2 DEF Inv, TeardownInv, TeardownAt, JoinLabel, Workers, TeardownLabels
    <3>2. joining[t] \in {0, attempt}
      BY <1>1, <3>1, TeardownAlone
    <3> QED
      BY <3>1, <3>2, Constants DEF Stopping, Only
  <2>3. \A t, u \in Callers : pc[t] = pc[u] /\ t # u =>
          pc[t] \notin {"j_media", "j_keepalive", "j_cxn", "j_bitrate"}
    BY <1>1, Exclusive DEF TeardownExclusive, TeardownLabels
  <2> QED
    BY <2>1, <2>2, <2>3 DEF NoBadJoin
<1> QED
  BY <1>1, Invariance, PTL

\* Between the calls there is a whole session or none, whatever has failed or was dropped, and
\* a destroyed handle has no thread at work but the one that found its session dropped.
THEOREM AllOrNothing ==
    ASSUME Told
    PROVE  Spec => []NothingLeftBehind
<1>1. ASSUME TypeOK, Inv
      PROVE  NothingLeftBehind
  <2>1. AtRest => pc[App] \notin ConnectLabels /\ \A t \in Callers : pc[t] \notin TeardownLabels
    BY <1>1, Constants DEF AtRest, Inv, LockInv, Holding, ConnectLabels, TeardownLabels
  <2>2. QuietWhenDown
    BY <1>1, <2>1 DEF QuietWhenDown, Inv, RestInv, AllDown, Down, Idle, Running
  <2>3. WholeWhenUp
    <3> SUFFICES ASSUME AtRest, connected
                 PROVE  /\ socket = attempt /\ mediaReady
                        /\ \A w \in {"media", "keepalive"} : flag[w]
                             /\ thread[w][attempt] = "running"
                        /\ attempt \in dropped \/ (flag["cxn"] /\ pc[attempt] = "s_loop")
      BY DEF WholeWhenUp
    <3>1. /\ socket = attempt /\ mediaReady /\ Up("media") /\ Up("keepalive")
          /\ attempt \in dropped \/ flag["cxn"]
      BY <1>1, <2>1 DEF Inv, RestInv
    <3>2. attempt \notin dropped => pc[attempt] \notin Acting
      BY <1>1, <3>1 DEF Up, Only, Inv, StatusInv
    <3>3. flag["cxn"] => pc[attempt] \in {"s_loop", "s_check", "s_clear"}
      BY <1>1 DEF AtRest, Inv, StatusInv
    <3> QED
      BY <3>1, <3>2, <3>3 DEF Up, Acting
  <2>4. FewOutliveTheHandle
    <3> SUFFICES ASSUME freed
                 PROVE  /\ \A w \in Workers : ~Running(w)
                        /\ \A i \in Instances \ dropped : pc[i] \in {"none", "exited", "joined"}
      BY DEF FewOutliveTheHandle
    <3>1. pc[App] = "idle" /\ ~connected
      BY <1>1 DEF Inv, ResultInv
    <3>2. CASE \A t \in Callers : pc[t] \notin TeardownLabels
      <4>1. AllDown
        BY <1>1, <3>1, <3>2 DEF Inv, RestInv, ConnectLabels
      <4>2. \A i \in Instances \ dropped : pc[i] \in Ended
        BY <1>1, <3>1, <4>1 DEF Inv, StatusInv, LabelInv, StatusLabels, AllDown, Acting, Ended
      <4> QED
        BY <4>1, <4>2 DEF AllDown, Down, Idle, Running, Ended
    <3>3. CASE \E t \in Callers : pc[t] \in TeardownLabels
      <4>1. PICK t \in Callers : pc[t] \in TeardownLabels
        BY <3>3
      <4>2. t \in Instances /\ t = attempt /\ attempt \in dropped
        BY <1>1, <3>1, <4>1, TeardownAlone, Constants DEF TeardownLabels
      <4>3. \A w \in Workers : Idle(w)
        BY <1>1, <3>1, <4>1, <4>2 DEF Inv, StatusInv
      <4> QED
        BY <1>1, <4>2, <4>3, OneAtWork DEF Idle, Running, Ended
    <3> QED
      BY <3>2, <3>3
  <2> QED
    BY <2>2, <2>3, <2>4 DEF NothingLeftBehind
<1> QED
  BY <1>1, Invariance, PTL

=============================================================================
