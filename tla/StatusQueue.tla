---------------------------- MODULE StatusQueue ----------------------------
(***************************************************************************)
(* The queue of status messages between the threads of the SDK, which call *)
(* enqueue_status_msg, and the application's threads, which wait for a     *)
(* message in ftl_ingest_get_status; and the destruction of the handle,    *)
(* which empties and frees it under whoever still waits.                   *)
(*                                                                         *)
(* A message is its serial number: only identity and order matter here.    *)
(* The linked list of status_queue_elmt_t is a sequence.  A critical       *)
(* section of status_q.mutex is one step: everything it touches is read    *)
(* and written only with the mutex held, except the semaphore, which it    *)
(* posts last.  The mutex itself is a variable because one error path of   *)
(* enqueue_status_msg returns without releasing it.                        *)
(***************************************************************************)
EXTENDS Integers, Sequences, FiniteSets

CONSTANTS
    Consumers,      \* application threads that call ftl_ingest_get_status
    Impatient,      \* those of them that pass a finite ms_timeout
    Producers,      \* SDK threads that enqueue status messages
    Destroyer,      \* the application thread that calls ftl_ingest_destroy
    NoThread,       \* owner of a free mutex
    MaxQueued,      \* MAX_STATUS_MESSAGE_QUEUED
    WaitRetries,    \* wait_retries of internal_ftl_ingest_destroy
    MallocMayFail,  \* whether an allocation can fail
    MaxSent         \* bound of the model: number of messages ever enqueued

ASSUME QueueAssumption ==
    /\ IsFiniteSet(Consumers)
    /\ Impatient \subseteq Consumers
    /\ MaxQueued \in Nat \ {0}
    /\ WaitRetries \in Nat
    /\ MaxSent \in Nat
    /\ MallocMayFail \in BOOLEAN
    /\ Destroyer \notin Producers
    /\ NoThread \notin Producers \cup {Destroyer}

VARIABLES
    head,           \* status_q.head: the queued messages, oldest first
    count,          \* status_q.count
    value,          \* status_q.sem.value
    mutex,          \* owner of status_q.mutex
    threadWaiting,  \* status_q.thread_waiting
    stateFlag,      \* FTL_STATUS_QUEUE of ftl->state
    priv,           \* handle->priv is not NULL
    pc,             \* where each consumer is in ftl_ingest_get_status
    result,         \* what its last call returned
    taken,          \* the last message handed to a consumer
    sent,           \* how many messages were ever enqueued
    dpc,            \* where ftl_ingest_destroy is
    retries,        \* wait_retries
    complained      \* "Thread is still waiting" was printed

consumerVars == <<pc, result, taken>>
destroyVars  == <<dpc, retries, complained, priv, stateFlag>>
queueVars    == <<head, count, value>>
vars == <<queueVars, mutex, threadWaiting, consumerVars, sent, destroyVars>>

ConsumerPC == {"idle", "entered", "checked", "pend", "blocked", "token", "popped"}
DestroyPC  == {"live", "begun", "cleared", "notify", "wait", "report", "drain",
               "drained", "freed"}
Results    == {"none", "SUCCESS", "STATUS_TIMEOUT", "QUEUE_EMPTY", "NOT_INITIALIZED"}

\* The memory of the handle is gone: what a thread still inside does next is undefined.
Freed == dpc = "freed"

CanLock(t) == mutex \in {NoThread, t}

Init ==
    /\ head = <<>>
    /\ count = 0
    /\ value = 0
    /\ mutex = NoThread
    /\ threadWaiting = FALSE
    /\ stateFlag = TRUE
    /\ priv = TRUE
    /\ pc = [c \in Consumers |-> "idle"]
    /\ result = [c \in Consumers |-> "none"]
    /\ taken = 0
    /\ sent = 0
    /\ dpc = "live"
    /\ retries = WaitRetries
    /\ complained = FALSE

-----------------------------------------------------------------------------
(* enqueue_status_msg, called by thread t *)

\* Mutant: the semaphore is posted for a message that replaces a dropped one, too.
AppendMsg_PostsAlways ==
    /\ sent' = sent + 1
    /\ value' = value + 1
    /\ IF count >= MaxQueued
         THEN head' = Tail(Append(head, sent')) /\ UNCHANGED count
         ELSE head' = Append(head, sent') /\ count' = count + 1

\* The message is appended first; a full queue then frees its head and posts nothing.
AppendMsg ==
    /\ sent' = sent + 1
    /\ IF count >= MaxQueued
         THEN /\ head' = Tail(Append(head, sent'))
              /\ UNCHANGED <<count, value>>
         ELSE /\ head' = Append(head, sent')
              /\ count' = count + 1
              /\ value' = value + 1

EnqueueMsg(t) ==
    /\ CanLock(t)
    /\ AppendMsg
    /\ UNCHANGED mutex

\* malloc returns NULL: the function returns with the mutex still locked.
EnqueueNoMemory(t) ==
    /\ MallocMayFail
    /\ CanLock(t)
    /\ mutex' = t
    /\ UNCHANGED <<queueVars, sent>>

Enqueue(p) ==
    /\ ~Freed
    /\ sent < MaxSent
    /\ EnqueueMsg(p) \/ EnqueueNoMemory(p)
    /\ UNCHANGED <<threadWaiting, consumerVars, destroyVars>>

-----------------------------------------------------------------------------
(* ftl_ingest_get_status and dequeue_status_msg, called by consumer c *)

Step(c, from, to) == pc[c] = from /\ pc' = [pc EXCEPT ![c] = to]

Return(c, from, r) ==
    /\ Step(c, from, "idle")
    /\ result' = [result EXCEPT ![c] = r]

GetStatus(c) ==
    /\ ~Freed
    /\ \/ priv  /\ Step(c, "idle", "entered") /\ UNCHANGED result
       \/ ~priv /\ Return(c, "idle", "NOT_INITIALIZED")
    /\ UNCHANGED <<queueVars, mutex, threadWaiting, taken, sent, destroyVars>>

CheckState(c) ==
    /\ ~Freed
    /\ \/ stateFlag  /\ Step(c, "entered", "checked") /\ UNCHANGED result
       \/ ~stateFlag /\ Return(c, "entered", "NOT_INITIALIZED")
    /\ UNCHANGED <<queueVars, mutex, threadWaiting, taken, sent, destroyVars>>

SetWaiting(c) ==
    /\ ~Freed
    /\ Step(c, "checked", "pend")
    /\ threadWaiting' = TRUE
    /\ UNCHANGED <<queueVars, mutex, result, taken, sent, destroyVars>>

\* os_semaphore_pend finds no token and waits on the condition variable.
PendBlock(c) ==
    /\ ~Freed
    /\ value = 0
    /\ Step(c, "pend", "blocked")
    /\ UNCHANGED <<queueVars, mutex, threadWaiting, result, taken, sent, destroyVars>>

\* os_semaphore_pend takes a token, at once or after a broadcast woke the thread.
PendTake(c) ==
    /\ ~Freed
    /\ value > 0
    /\ value' = value - 1
    /\ Step(c, "pend", "token") \/ Step(c, "blocked", "token")
    /\ UNCHANGED <<head, count, mutex, threadWaiting, result, taken, sent, destroyVars>>

\* The wait timed out: the call returns and leaves thread_waiting set.
PendTimeout(c) ==
    /\ ~Freed
    /\ c \in Impatient
    /\ Return(c, "blocked", "STATUS_TIMEOUT")
    /\ UNCHANGED <<queueVars, mutex, threadWaiting, taken, sent, destroyVars>>

\* Mutant: the newest message is taken, not the oldest.
PopHead_Newest(c) ==
    /\ ~Freed
    /\ mutex = NoThread
    /\ Step(c, "token", "popped")
    /\ head # <<>>
    /\ taken' = head[Len(head)]
    /\ head' = SubSeq(head, 1, Len(head) - 1)
    /\ count' = count - 1
    /\ result' = [result EXCEPT ![c] = "SUCCESS"]
    /\ UNCHANGED <<value, mutex, threadWaiting, sent, destroyVars>>

PopHead(c) ==
    /\ ~Freed
    /\ mutex = NoThread
    /\ Step(c, "token", "popped")
    /\ IF head # <<>>
         THEN /\ taken' = Head(head)
              /\ head' = Tail(head)
              /\ count' = count - 1
              /\ result' = [result EXCEPT ![c] = "SUCCESS"]
         ELSE /\ result' = [result EXCEPT ![c] = "QUEUE_EMPTY"]
              /\ UNCHANGED <<head, count, taken>>
    /\ UNCHANGED <<value, mutex, threadWaiting, sent, destroyVars>>

ClearWaiting(c) ==
    /\ ~Freed
    /\ Step(c, "popped", "idle")
    /\ threadWaiting' = FALSE
    /\ UNCHANGED <<queueVars, mutex, result, taken, sent, destroyVars>>

Consume(c) ==
    \/ GetStatus(c) \/ CheckState(c) \/ SetWaiting(c) \/ PendBlock(c)
    \/ PendTake(c) \/ PendTimeout(c) \/ PopHead(c) \/ ClearWaiting(c)

-----------------------------------------------------------------------------
(* ftl_ingest_destroy and internal_ftl_ingest_destroy *)

DStep(from, to) == dpc = from /\ dpc' = to

DestroyBegin ==
    /\ DStep("live", "begun")
    /\ priv' = FALSE
    /\ UNCHANGED <<queueVars, mutex, threadWaiting, consumerVars, sent, retries,
                   complained, stateFlag>>

DestroyClear ==
    /\ DStep("begun", "cleared")
    /\ stateFlag' = FALSE
    /\ UNCHANGED <<queueVars, mutex, threadWaiting, consumerVars, sent, retries,
                   complained, priv>>

\* Only if thread_waiting is set is there anybody to send the DESTROYED event to.
DestroyLook ==
    /\ DStep("cleared", IF threadWaiting THEN "notify" ELSE "wait")
    /\ UNCHANGED <<queueVars, mutex, threadWaiting, consumerVars, sent, retries,
                   complained, priv, stateFlag>>

DestroyNotify ==
    /\ DStep("notify", "wait")
    /\ EnqueueMsg(Destroyer) \/ EnqueueNoMemory(Destroyer)
    /\ UNCHANGED <<threadWaiting, consumerVars, retries, complained, priv, stateFlag>>

\* Mutant: the retries are counted down but never looked at.
DestroySleep_Unbounded ==
    /\ dpc = "wait" /\ threadWaiting
    /\ retries' = retries - 1
    /\ UNCHANGED <<queueVars, mutex, threadWaiting, consumerVars, sent, dpc,
                   complained, priv, stateFlag>>

DestroySleep ==
    /\ dpc = "wait" /\ threadWaiting /\ retries > 0
    /\ retries' = retries - 1
    /\ UNCHANGED <<queueVars, mutex, threadWaiting, consumerVars, sent, dpc,
                   complained, priv, stateFlag>>

\* Mutant: the wait ends only when the waiter says so.
DestroyStopWaiting_NoLimit ==
    /\ DStep("wait", "report")
    /\ ~threadWaiting
    /\ UNCHANGED <<queueVars, mutex, threadWaiting, consumerVars, sent, retries,
                   complained, priv, stateFlag>>

DestroyStopWaiting ==
    /\ DStep("wait", "report")
    /\ ~threadWaiting \/ retries = 0
    /\ UNCHANGED <<queueVars, mutex, threadWaiting, consumerVars, sent, retries,
                   complained, priv, stateFlag>>

DestroyReport ==
    /\ DStep("report", "drain")
    /\ complained' = threadWaiting
    /\ UNCHANGED <<queueVars, mutex, threadWaiting, consumerVars, sent, retries,
                   priv, stateFlag>>

DestroyDrain ==
    /\ DStep("drain", "drained")
    /\ CanLock(Destroyer)
    /\ head' = <<>>
    /\ count' = count - Len(head)
    /\ UNCHANGED <<value, mutex, threadWaiting, consumerVars, sent, retries,
                   complained, priv, stateFlag>>

DestroyFree ==
    /\ DStep("drained", "freed")
    /\ UNCHANGED <<queueVars, mutex, threadWaiting, consumerVars, sent, retries,
                   complained, priv, stateFlag>>

Destroy ==
    \/ DestroyBegin \/ DestroyClear \/ DestroyLook \/ DestroyNotify
    \/ DestroySleep \/ DestroyStopWaiting \/ DestroyReport \/ DestroyDrain
    \/ DestroyFree

Next ==
    \/ \E p \in Producers : Enqueue(p)
    \/ \E c \in Consumers : Consume(c)
    \/ Destroy

Spec == Init /\ [][Next]_vars

\* Threads inside a call go on; nobody is obliged to make a call.  A finite
\* ms_timeout expires.
Fairness ==
    /\ \A c \in Consumers :
          /\ WF_vars(CheckState(c)) /\ WF_vars(SetWaiting(c))
          /\ WF_vars(PendBlock(c)) /\ WF_vars(PendTake(c)) /\ WF_vars(PendTimeout(c))
          /\ WF_vars(PopHead(c)) /\ WF_vars(ClearWaiting(c))
    /\ WF_vars(Destroy /\ ~DestroyBegin)

FairSpec == Spec /\ Fairness

-----------------------------------------------------------------------------
(* Properties *)

TypeOK ==
    /\ head \in Seq(Nat) /\ count \in Int /\ value \in Nat
    /\ mutex \in Producers \cup {Destroyer, NoThread}
    /\ threadWaiting \in BOOLEAN /\ stateFlag \in BOOLEAN /\ priv \in BOOLEAN
    /\ pc \in [Consumers -> ConsumerPC]
    /\ result \in [Consumers -> Results]
    /\ taken \in Nat /\ sent \in Nat
    /\ dpc \in DestroyPC /\ retries \in 0..WaitRetries /\ complained \in BOOLEAN

\* Consumers that took a token and have not yet taken the message it stands for.
Holders == {c \in Consumers : pc[c] = "token"}

\* The destruction has emptied the list.
Emptied == dpc \in {"drained", "freed"}

\* The list, its counter and the semaphore agree: every queued message has one
\* token, still in the semaphore or in the hands of one consumer, although a full
\* queue drops a message without touching the semaphore, calls time out and
\* allocations fail.  Nothing is ever queued beyond the limit.
TokenAccounting ==
    /\ count = Len(head)
    /\ Len(head) <= MaxQueued
    /\ ~Emptied => value + Cardinality(Holders) = Len(head)

\* The queue always holds exactly the newest messages, without a gap, in the order
\* they were enqueued, and none that was handed out before.
NewestWindow ==
    /\ \A i \in 1..Len(head) : head[i] = sent - Len(head) + i
    /\ taken + Len(head) <= sent

\* A consumer is never told that the queue is empty after it waited for a message
\* (FTL_QUEUE_EMPTY of dequeue_status_msg), except by the destruction of the queue.
NoEmptyAnswer ==
    ~Emptied => \A c \in Consumers : result[c] # "QUEUE_EMPTY"

\* The queue implements the bounded, drop-oldest FIFO.
Promise ==
    INSTANCE DropOldestQueue WITH
        Capacity <- MaxQueued, buf <- head, put <- sent, taken <- taken,
        open <- ~Emptied
IsDropOldestQueue == Promise!Spec

\* ftl_ingest_destroy returns, whatever its waiters do: its wait for them is bounded.
\* Only a mutex that another thread left locked can hold it.
DestroyEnds == (dpc = "begun") ~> (Freed \/ mutex \in Producers)

\* "if a thread is waiting send a destroy event ... wait a few ms for the thread to
\* pull that last message and exit" (ftl-sdk.c:280,290): when the wait is over, a
\* thread still blocked in ftl_ingest_get_status has a message to wake it.
NoStrandedWaiter ==
    (dpc = "drain" /\ \E c \in Consumers : pc[c] = "blocked") => value > 0
=============================================================================
