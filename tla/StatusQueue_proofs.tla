------------------------ MODULE StatusQueue_proofs -------------------------
(***************************************************************************)
(* Proofs about StatusQueue, for every number of producers and consumers,  *)
(* every queue limit and every bound on the messages.                      *)
(***************************************************************************)
EXTENDS StatusQueue, FiniteSetTheorems, SequenceTheorems, TLAPS

(* Appending a message, as enqueue_status_msg does at the tail of the list. *)
LEMMA AppendFacts ==
    ASSUME NEW s \in Seq(Nat), NEW n \in Nat
    PROVE  /\ Append(s, n) \in Seq(Nat)
           /\ Append(s, n) # <<>>
           /\ Len(Append(s, n)) = Len(s) + 1
           /\ \A i \in 1..Len(s) : Append(s, n)[i] = s[i]
           /\ Append(s, n)[Len(s) + 1] = n
  OBVIOUS

(* Unlinking the head of the list, as a pop and an overflow do. *)
LEMMA TailFacts ==
    ASSUME NEW s \in Seq(Nat), s # <<>>
    PROVE  /\ Head(s) \in Nat /\ Head(s) = s[1]
           /\ Tail(s) \in Seq(Nat)
           /\ Len(Tail(s)) = Len(s) - 1
           /\ Len(s) \in Nat /\ Len(s) >= 1
           /\ \A i \in 1..Len(Tail(s)) : Tail(s)[i] = s[i + 1]
  OBVIOUS

(* Every variable keeps its type: the typing of the state of                *)
(* enqueue_status_msg, dequeue_status_msg and internal_ftl_ingest_destroy. *)
THEOREM Typing == Spec => []TypeOK
<1> USE QueueAssumption
<1>1. Init => TypeOK
  <2> SUFFICES ASSUME Init PROVE TypeOK
    OBVIOUS
  <2>1. head \in Seq(Nat) /\ count \in Int /\ value \in Nat /\ taken \in Nat
        /\ sent \in Nat /\ retries \in 0..WaitRetries
    BY DEF Init
  <2>2. threadWaiting \in BOOLEAN /\ stateFlag \in BOOLEAN /\ priv \in BOOLEAN
        /\ complained \in BOOLEAN /\ mutex \in Producers \cup {Destroyer, NoThread}
    BY Zenon DEF Init
  <2>3. pc \in [Consumers -> ConsumerPC] /\ result \in [Consumers -> Results]
        /\ dpc \in DestroyPC
    BY DEF Init, ConsumerPC, Results, DestroyPC
  <2> QED BY <2>1, <2>2, <2>3 DEF TypeOK
<1>2. TypeOK /\ [Next]_vars => TypeOK'
  <2> SUFFICES ASSUME TypeOK, [Next]_vars PROVE TypeOK'
    OBVIOUS
  <2> USE DEF TypeOK, ConsumerPC, DestroyPC, Results, queueVars, consumerVars, destroyVars
  <2>1. ASSUME NEW t \in Producers \cup {Destroyer}, EnqueueMsg(t) \/ EnqueueNoMemory(t)
        PROVE  /\ head' \in Seq(Nat) /\ count' \in Int /\ value' \in Nat
               /\ mutex' \in Producers \cup {Destroyer, NoThread} /\ sent' \in Nat
    <3>1. CASE EnqueueMsg(t)
      <4> DEFINE longer  == Append(head, sent')
                 shorter == Tail(longer)
      <4>1. sent' \in Nat /\ mutex' = mutex
        BY <3>1 DEF EnqueueMsg, AppendMsg
      <4>2. longer \in Seq(Nat) /\ shorter \in Seq(Nat)
        BY <4>1, AppendFacts, TailFacts
      <4>3. \/ head' = shorter /\ count' = count /\ value' = value
            \/ head' = longer /\ count' = count + 1 /\ value' = value + 1
        BY <3>1 DEF EnqueueMsg, AppendMsg
      <4> HIDE DEF longer, shorter
      <4> QED BY <4>1, <4>2, <4>3
    <3>2. CASE EnqueueNoMemory(t)
      BY <3>2 DEF EnqueueNoMemory
    <3> QED BY <2>1, <3>1, <3>2
  <2>2. ASSUME NEW p \in Producers, Enqueue(p) PROVE TypeOK'
    BY <2>1, <2>2 DEF Enqueue
  <2>3. ASSUME NEW c \in Consumers, Consume(c) PROVE TypeOK'
    <3>1. CASE GetStatus(c)
      BY <3>1 DEF GetStatus, Step, Return
    <3>2. CASE CheckState(c)
      BY <3>2 DEF CheckState, Step, Return
    <3>3. CASE SetWaiting(c)
      BY <3>3 DEF SetWaiting, Step
    <3>4. CASE PendBlock(c)
      BY <3>4 DEF PendBlock, Step
    <3>5. CASE PendTake(c)
      BY <3>5 DEF PendTake, Step
    <3>6. CASE PendTimeout(c)
      BY <3>6 DEF PendTimeout, Return, Step
    <3>7. CASE PopHead(c)
      <4>1. CASE head # <<>>
        <5> DEFINE first == Head(head)
                   rest  == Tail(head)
        <5>1. first \in Nat /\ rest \in Seq(Nat)
          BY <4>1, TailFacts
        <5>2. taken' = first /\ head' = rest /\ count' = count - 1
          BY <3>7, <4>1 DEF PopHead
        <5>3. pc' \in [Consumers -> ConsumerPC] /\ result' \in [Consumers -> Results]
          BY <3>7, <4>1 DEF PopHead, Step
        <5> HIDE DEF first, rest
        <5> QED BY <3>7, <5>1, <5>2, <5>3 DEF PopHead
      <4>2. CASE head = <<>>
        BY <3>7, <4>2 DEF PopHead, Step
      <4> QED BY <4>1, <4>2
    <3>8. CASE ClearWaiting(c)
      BY <3>8 DEF ClearWaiting, Step
    <3> QED BY <2>3, <3>1, <3>2, <3>3, <3>4, <3>5, <3>6, <3>7, <3>8 DEF Consume
  <2>4. ASSUME Destroy PROVE TypeOK'
    <3>1. CASE DestroyBegin
      BY <3>1 DEF DestroyBegin, DStep
    <3>2. CASE DestroyClear
      BY <3>2 DEF DestroyClear, DStep
    <3>3. CASE DestroyLook
      BY <3>3 DEF DestroyLook, DStep
    <3>4. CASE DestroyNotify
      BY <2>1, <3>4 DEF DestroyNotify, DStep
    <3>5. CASE DestroySleep
      BY <3>5 DEF DestroySleep
    <3>6. CASE DestroyStopWaiting
      BY <3>6 DEF DestroyStopWaiting, DStep
    <3>7. CASE DestroyReport
      BY <3>7 DEF DestroyReport, DStep
    <3>8. CASE DestroyDrain
      BY <3>8 DEF DestroyDrain, DStep
    <3>9. CASE DestroyFree
      BY <3>9 DEF DestroyFree, DStep
    <3> QED BY <2>4, <3>1, <3>2, <3>3, <3>4, <3>5, <3>6, <3>7, <3>8, <3>9 DEF Destroy
  <2>5. CASE UNCHANGED vars
    BY <2>5 DEF vars
  <2> QED BY <2>2, <2>3, <2>4, <2>5 DEF Next
<1> QED BY <1>1, <1>2, PTL DEF Spec

-----------------------------------------------------------------------------
(* Token accounting and the order of the messages *)

Accounting == TokenAccounting /\ NewestWindow /\ NoEmptyAnswer

(* What the accounting reads; a step that leaves it alone preserves it.     *)
accountVars == <<head, count, value, sent, taken>>

LEMMA HoldersFinite ==
    IsFiniteSet(Holders) /\ Cardinality(Holders) \in Nat
  BY QueueAssumption, FS_Subset, FS_CardinalityType DEF Holders

(* A step that touches none of the queue's variables, moves no consumer     *)
(* into or out of the state between the token and the message, ends no      *)
(* call with FTL_QUEUE_EMPTY and does not empty the list.                   *)
LEMMA QuietStep ==
    ASSUME Accounting, UNCHANGED accountVars, Holders' = Holders,
           Emptied' <=> Emptied,
           \A c \in Consumers : result'[c] = "QUEUE_EMPTY" => result[c] = "QUEUE_EMPTY"
    PROVE  Accounting'
  <1>1. TokenAccounting'
    BY Zenon DEF Accounting, TokenAccounting, accountVars
  <1>2. NewestWindow'
    BY Zenon DEF Accounting, NewestWindow, accountVars
  <1>3. NoEmptyAnswer'
    BY Zenon DEF Accounting, NoEmptyAnswer
  <1> QED BY <1>1, <1>2, <1>3 DEF Accounting

(* enqueue_status_msg keeps one token per message, and the queue a window   *)
(* of the newest messages, whether or not it is full.                       *)
LEMMA EnqueueStep ==
    ASSUME TypeOK, Accounting, AppendMsg, UNCHANGED <<taken, pc, result>>,
           Emptied' <=> Emptied
    PROVE  Accounting'
  <1> DEFINE longer  == Append(head, sent')
             shorter == Tail(longer)
  <1>1. head \in Seq(Nat) /\ sent \in Nat /\ value \in Nat /\ taken \in Nat
    BY DEF TypeOK
  <1>2. sent' = sent + 1 /\ sent' \in Nat
    BY <1>1 DEF AppendMsg
  <1>3. /\ longer \in Seq(Nat) /\ longer # <<>>
        /\ Len(longer) = Len(head) + 1
        /\ \A i \in 1..Len(head) : longer[i] = head[i]
        /\ longer[Len(head) + 1] = sent'
    BY <1>1, <1>2, AppendFacts
  <1>4. /\ Len(shorter) = Len(longer) - 1
        /\ \A i \in 1..Len(shorter) : shorter[i] = longer[i + 1]
    BY <1>3, TailFacts
  <1>5. /\ count = Len(head) /\ Len(head) <= MaxQueued
        /\ ~Emptied => value + Cardinality(Holders) = Len(head)
        /\ \A i \in 1..Len(head) : head[i] = sent - Len(head) + i
        /\ taken + Len(head) <= sent
    BY DEF Accounting, TokenAccounting, NewestWindow
  <1>6. Holders' = Holders
    BY DEF Holders
  <1>7. Len(head) \in Nat /\ Cardinality(Holders) \in Nat /\ MaxQueued \in Nat
    BY <1>1, HoldersFinite, QueueAssumption
  <1>8. NoEmptyAnswer'
    BY Zenon DEF Accounting, NoEmptyAnswer
  <1>9. CASE count >= MaxQueued
    <2>1. head' = shorter /\ count' = count /\ value' = value
      BY <1>9 DEF AppendMsg
    <2> HIDE DEF longer, shorter
    <2>2. Len(head') = Len(head)
      BY <2>1, <1>3, <1>4, <1>7
    <2>3. TokenAccounting'
      BY <2>1, <2>2, <1>5, <1>6 DEF TokenAccounting
    <2>4. ASSUME NEW i \in 1..Len(head') PROVE head'[i] = sent' - Len(head') + i
      <3>1. head'[i] = longer[i + 1]
        BY <2>1, <2>2, <1>3, <1>4, <1>7
      <3>2. CASE i = Len(head)
        BY <3>1, <3>2, <1>3, <1>2, <1>1, <2>2, <1>7
      <3>3. CASE i < Len(head)
        <4>1. longer[i + 1] = head[i + 1] /\ head[i + 1] = sent - Len(head) + (i + 1)
          BY <3>3, <1>3, <1>5, <1>7
        <4> QED BY <3>1, <4>1, <1>2, <1>1, <2>2, <1>7
      <3> QED BY <3>2, <3>3, <2>2, <1>7
    <2>5. taken' + Len(head') <= sent'
      BY <2>2, <1>5, <1>2, <1>1, <1>7
    <2> QED BY <2>3, <2>4, <2>5, <1>8 DEF Accounting, NewestWindow
  <1>10. CASE ~(count >= MaxQueued)
    <2>1. head' = longer /\ count' = count + 1 /\ value' = value + 1
      BY <1>10 DEF AppendMsg
    <2> HIDE DEF longer, shorter
    <2>2. Len(head') = Len(head) + 1
      BY <2>1, <1>3
    <2>3. TokenAccounting'
      BY <2>1, <2>2, <1>1, <1>5, <1>6, <1>7, <1>10 DEF TokenAccounting
    <2>4. ASSUME NEW i \in 1..Len(head') PROVE head'[i] = sent' - Len(head') + i
      <3>1. CASE i = Len(head) + 1
        BY <3>1, <2>1, <2>2, <1>1, <1>2, <1>3, <1>7
      <3>2. CASE i <= Len(head)
        <4>1. head'[i] = head[i] /\ head[i] = sent - Len(head) + i
          BY <3>2, <2>1, <1>3, <1>5, <1>7
        <4> QED BY <4>1, <1>1, <1>2, <2>2, <1>7
      <3> QED BY <3>1, <3>2, <2>2, <1>7
    <2>5. taken' + Len(head') <= sent'
      BY <2>2, <1>5, <1>2, <1>1, <1>7
    <2> QED BY <2>3, <2>4, <2>5, <1>8 DEF Accounting, NewestWindow
  <1> QED BY <1>9, <1>10

(* os_semaphore_pend moves one token from the semaphore to a consumer.      *)
LEMMA TakeTokenStep ==
    ASSUME TypeOK, Accounting, NEW c \in Consumers, PendTake(c)
    PROVE  Accounting'
  <1>1. value \in Nat /\ value > 0 /\ value' = value - 1
    BY DEF TypeOK, PendTake
  <1>2. UNCHANGED <<head, count, sent, taken, result, dpc>>
    BY DEF PendTake, destroyVars
  <1>3. Holders' = Holders \cup {c} /\ c \notin Holders
    BY DEF TypeOK, PendTake, Step, Holders
  <1>4. Cardinality(Holders') = Cardinality(Holders) + 1
    BY <1>3, HoldersFinite, FS_AddElement
  <1>5. TokenAccounting'
    BY <1>1, <1>2, <1>4, HoldersFinite DEF Accounting, TokenAccounting, Emptied
  <1>6. NewestWindow' /\ NoEmptyAnswer'
    BY <1>2, Zenon DEF Accounting, NewestWindow, NoEmptyAnswer, Emptied
  <1> QED BY <1>5, <1>6 DEF Accounting

(* The pop of dequeue_status_msg spends the token its caller took, and      *)
(* finds the message that goes with it.                                     *)
LEMMA PopStep ==
    ASSUME TypeOK, Accounting, NEW c \in Consumers, PopHead(c)
    PROVE  Accounting'
  <1> DEFINE rest == Tail(head)
  <1>1. head \in Seq(Nat) /\ sent \in Nat /\ value \in Nat /\ taken \in Nat
    BY DEF TypeOK
  <1>2. UNCHANGED <<value, sent, dpc>>
    BY DEF PopHead, destroyVars
  <1>3. Holders' = Holders \ {c} /\ c \in Holders
    BY DEF TypeOK, PopHead, Step, Holders
  <1>4. /\ Cardinality(Holders') = Cardinality(Holders) - 1
        /\ Cardinality(Holders) \in Nat /\ Cardinality(Holders') \in Nat
    BY <1>3, HoldersFinite, FS_RemoveElement, FS_CardinalityType
  <1>5. /\ count = Len(head) /\ Len(head) <= MaxQueued
        /\ ~Emptied => value + Cardinality(Holders) = Len(head)
        /\ \A i \in 1..Len(head) : head[i] = sent - Len(head) + i
        /\ taken + Len(head) <= sent
    BY DEF Accounting, TokenAccounting, NewestWindow
  <1>6. Emptied' <=> Emptied
    BY <1>2 DEF Emptied
  <1>7. Len(head) \in Nat /\ MaxQueued \in Nat
    BY <1>1, QueueAssumption
  <1>8. CASE head = <<>>
    <2>1. UNCHANGED <<head, count, taken>> /\ Len(head) = 0
      BY <1>8 DEF PopHead
    <2>2. Emptied
      BY <1>1, <1>4, <1>5, <2>1
    <2>3. TokenAccounting' /\ NoEmptyAnswer'
      BY <2>1, <2>2, <1>5, <1>6 DEF TokenAccounting, NoEmptyAnswer
    <2>4. NewestWindow'
      BY <2>1, <1>2, Zenon DEF Accounting, NewestWindow
    <2> QED BY <2>3, <2>4 DEF Accounting
  <1>9. CASE head # <<>>
    <2>1. /\ head' = rest /\ count' = count - 1 /\ taken' = Head(head)
          /\ result' = [result EXCEPT ![c] = "SUCCESS"]
      BY <1>9 DEF PopHead
    <2>2. /\ Head(head) = head[1] /\ Len(rest) = Len(head) - 1 /\ Len(head) >= 1
          /\ \A i \in 1..Len(rest) : rest[i] = head[i + 1]
      BY <1>1, <1>9, TailFacts
    <2> HIDE DEF rest
    <2>3. TokenAccounting'
      <3>1. Len(head') = Len(head) - 1
        BY <2>1, <2>2
      <3>2. count' = Len(head') /\ Len(head') <= MaxQueued
        BY <3>1, <2>1, <1>5, <1>7
      <3>3. ~Emptied' => value' + Cardinality(Holders') = Len(head')
        BY <3>1, <1>1, <1>2, <1>4, <1>5, <1>6, <1>7, SMTT(30)
      <3> QED BY <3>2, <3>3 DEF TokenAccounting
    <2>4. ASSUME NEW i \in 1..Len(head') PROVE head'[i] = sent' - Len(head') + i
      <3>1. head'[i] = head[i + 1] /\ head[i + 1] = sent - Len(head) + (i + 1)
        BY <2>1, <2>2, <1>5, <1>7
      <3> QED BY <3>1, <2>1, <2>2, <1>1, <1>2, <1>7
    <2>5. taken' + Len(head') <= sent'
      <3>1. head[1] = sent - Len(head) + 1
        BY <2>2, <1>5, <1>7
      <3> QED BY <3>1, <2>1, <2>2, <1>1, <1>2, <1>7
    <2>6. NoEmptyAnswer'
      BY <2>1, <1>6 DEF Accounting, NoEmptyAnswer, TypeOK
    <2> QED BY <2>3, <2>4, <2>5, <2>6 DEF Accounting, NewestWindow
  <1> QED BY <1>8, <1>9

(* Emptying the list at the end of the handle's life.                       *)
LEMMA DrainStep ==
    ASSUME TypeOK, Accounting, DestroyDrain
    PROVE  Accounting'
  <1>1. /\ head' = <<>> /\ Len(head') = 0 /\ count' = count - Len(head)
        /\ UNCHANGED <<sent, taken>>
    BY DEF DestroyDrain, consumerVars
  <1>2. Emptied'
    BY DEF DestroyDrain, DStep, Emptied
  <1>3. head \in Seq(Nat) /\ count = Len(head) /\ Len(head) \in Nat
        /\ taken + Len(head) <= sent /\ sent \in Nat /\ taken \in Nat
    BY DEF TypeOK, Accounting, TokenAccounting, NewestWindow
  <1>4. TokenAccounting'
    BY <1>1, <1>2, <1>3, QueueAssumption DEF TokenAccounting
  <1>5. NewestWindow'
    BY <1>1, <1>3 DEF NewestWindow
  <1> QED BY <1>2, <1>4, <1>5 DEF Accounting, NoEmptyAnswer

(* The list, its counter and the semaphore agree, the queue is the window   *)
(* of the newest messages, and no consumer is told FTL_QUEUE_EMPTY: the     *)
(* three invariants of the status queue, proved together because a pop that *)
(* finds a message needs the accounting.                                    *)
THEOREM QueueAccounting == Spec => [](TokenAccounting /\ NewestWindow /\ NoEmptyAnswer)
<1>1. Init => Accounting
  <2> SUFFICES ASSUME Init PROVE Accounting
    OBVIOUS
  <2>1. Holders = {} /\ Cardinality({}) = 0
    BY FS_EmptySet DEF Init, Holders
  <2>2. head = <<>> /\ Len(head) = 0 /\ count = 0 /\ value = 0 /\ taken = 0 /\ sent = 0
    BY DEF Init
  <2>3. NoEmptyAnswer
    BY DEF Init, NoEmptyAnswer
  <2> QED BY <2>1, <2>2, <2>3, QueueAssumption DEF Accounting, TokenAccounting, NewestWindow
<1>2. TypeOK /\ Accounting /\ [Next]_vars => Accounting'
  <2> SUFFICES ASSUME TypeOK, Accounting, [Next]_vars PROVE Accounting'
    OBVIOUS
  <2> USE DEF queueVars, consumerVars, destroyVars, accountVars
  <2>1. ASSUME NEW p \in Producers, Enqueue(p) PROVE Accounting'
    <3>1. Emptied' <=> Emptied
      BY <2>1 DEF Enqueue, Emptied
    <3>2. CASE EnqueueMsg(p)
      BY <2>1, <3>1, <3>2, EnqueueStep DEF Enqueue, EnqueueMsg
    <3>3. CASE EnqueueNoMemory(p)
      BY <2>1, <3>1, <3>3, QuietStep DEF Enqueue, EnqueueNoMemory, Holders
    <3> QED BY <2>1, <3>2, <3>3 DEF Enqueue
  <2>2. ASSUME NEW c \in Consumers, Consume(c) PROVE Accounting'
    <3> USE DEF TypeOK
    <3>0. Emptied' <=> Emptied
      BY <2>2 DEF Consume, Emptied, GetStatus, CheckState, SetWaiting, PendBlock,
                  PendTake, PendTimeout, PopHead, ClearWaiting
    <3>1. CASE GetStatus(c)
      BY <3>0, <3>1, QuietStep DEF GetStatus, Step, Return, Holders
    <3>2. CASE CheckState(c)
      BY <3>0, <3>2, QuietStep DEF CheckState, Step, Return, Holders
    <3>3. CASE SetWaiting(c)
      BY <3>0, <3>3, QuietStep DEF SetWaiting, Step, Holders
    <3>4. CASE PendBlock(c)
      BY <3>0, <3>4, QuietStep DEF PendBlock, Step, Holders
    <3>5. CASE PendTake(c)
      BY <3>5, TakeTokenStep
    <3>6. CASE PendTimeout(c)
      BY <3>0, <3>6, QuietStep DEF PendTimeout, Step, Return, Holders
    <3>7. CASE PopHead(c)
      BY <3>7, PopStep
    <3>8. CASE ClearWaiting(c)
      BY <3>0, <3>8, QuietStep DEF ClearWaiting, Step, Holders
    <3> QED BY <2>2, <3>1, <3>2, <3>3, <3>4, <3>5, <3>6, <3>7, <3>8 DEF Consume
  <2>3. ASSUME Destroy PROVE Accounting'
    <3> USE DEF Holders, Emptied, DStep
    <3>1. CASE DestroyBegin
      BY <3>1, QuietStep DEF DestroyBegin
    <3>2. CASE DestroyClear
      BY <3>2, QuietStep DEF DestroyClear
    <3>3. CASE DestroyLook
      BY <3>3, QuietStep DEF DestroyLook
    <3>4. CASE DestroyNotify
      <4>1. Emptied' <=> Emptied
        BY <3>4 DEF DestroyNotify
      <4>2. CASE EnqueueMsg(Destroyer)
        BY <3>4, <4>1, <4>2, EnqueueStep DEF DestroyNotify, EnqueueMsg
      <4>3. CASE EnqueueNoMemory(Destroyer)
        BY <3>4, <4>1, <4>3, QuietStep DEF DestroyNotify, EnqueueNoMemory
      <4> QED BY <3>4, <4>2, <4>3 DEF DestroyNotify
    <3>5. CASE DestroySleep
      BY <3>5, QuietStep DEF DestroySleep
    <3>6. CASE DestroyStopWaiting
      BY <3>6, QuietStep DEF DestroyStopWaiting
    <3>7. CASE DestroyReport
      BY <3>7, QuietStep DEF DestroyReport
    <3>8. CASE DestroyDrain
      BY <3>8, DrainStep
    <3>9. CASE DestroyFree
      BY <3>9, QuietStep DEF DestroyFree
    <3> QED BY <2>3, <3>1, <3>2, <3>3, <3>4, <3>5, <3>6, <3>7, <3>8, <3>9 DEF Destroy
  <2>4. CASE UNCHANGED vars
    BY <2>4, QuietStep DEF vars, Holders, Emptied
  <2> QED BY <2>1, <2>2, <2>3, <2>4 DEF Next
<1>3. Accounting => TokenAccounting /\ NewestWindow /\ NoEmptyAnswer
  BY DEF Accounting
<1> QED BY <1>1, <1>2, <1>3, Typing, PTL DEF Spec

(* The queue holds exactly the newest messages: enqueue_status_msg loses    *)
(* none but the oldest.                                                     *)
THEOREM HoldsNewest == Spec => []NewestWindow
  BY QueueAccounting, PTL

(* dequeue_status_msg does not answer FTL_QUEUE_EMPTY after a wait, until   *)
(* the handle is destroyed.                                                 *)
THEOREM NeverEmpty == Spec => []NoEmptyAnswer
  BY QueueAccounting, PTL

-----------------------------------------------------------------------------
(* The queue implements the drop-oldest FIFO *)

(* Appending and then freeing the head is freeing the head and appending.   *)
LEMMA TailOfAppend ==
    ASSUME NEW s \in Seq(Nat), s # <<>>, NEW n \in Nat
    PROVE  Tail(Append(s, n)) = Append(Tail(s), n)
  <1> DEFINE longer == Append(s, n)
             rest   == Tail(s)
             left   == Tail(longer)
             right  == Append(rest, n)
  <1>1. /\ longer \in Seq(Nat) /\ longer # <<>> /\ Len(longer) = Len(s) + 1
        /\ \A i \in 1..Len(s) : longer[i] = s[i]
        /\ longer[Len(s) + 1] = n
    BY AppendFacts
  <1>2. /\ rest \in Seq(Nat) /\ Len(rest) = Len(s) - 1 /\ Len(s) \in Nat
        /\ Len(s) >= 1 /\ \A i \in 1..Len(rest) : rest[i] = s[i + 1]
    BY TailFacts
  <1>3. /\ left \in Seq(Nat) /\ Len(left) = Len(longer) - 1
        /\ \A i \in 1..Len(left) : left[i] = longer[i + 1]
    BY <1>1, TailFacts
  <1>4. /\ right \in Seq(Nat) /\ Len(right) = Len(rest) + 1
        /\ \A i \in 1..Len(rest) : right[i] = rest[i]
        /\ right[Len(rest) + 1] = n
    BY <1>2, AppendFacts
  <1> HIDE DEF longer, rest, left, right
  <1>5. Len(left) = Len(s) /\ Len(right) = Len(s)
    BY <1>1, <1>2, <1>3, <1>4
  <1>6. ASSUME NEW i \in 1..Len(s) PROVE left[i] = right[i]
    <2>1. CASE i = Len(s)
      BY <2>1, <1>1, <1>2, <1>3, <1>4, <1>5
    <2>2. CASE i < Len(s)
      <3>1. i \in 1..Len(left) /\ i \in 1..Len(rest) /\ i + 1 \in 1..Len(s)
        BY <2>2, <1>2, <1>5
      <3>2. left[i] = s[i + 1]
        BY <3>1, <1>1, <1>3
      <3>3. right[i] = s[i + 1]
        BY <3>1, <1>2, <1>4
      <3> QED BY <3>2, <3>3
    <2> QED BY <2>1, <2>2, <1>2
  <1>7. left = right
    BY <1>3, <1>4, <1>5, <1>6, SeqEqual
  <1> QED BY <1>7 DEF longer, rest, left, right

(* A successful enqueue is the abstract Put.                                *)
LEMMA EnqueueIsPut ==
    ASSUME TypeOK, TokenAccounting, AppendMsg, taken' = taken, Emptied' <=> Emptied
    PROVE  Promise!Put
  <1>1. head \in Seq(Nat) /\ sent' \in Nat /\ sent' = sent + 1 /\ count = Len(head)
    BY DEF TypeOK, AppendMsg, TokenAccounting
  <1>2. CASE count >= MaxQueued
    <2>1. head # <<>> /\ ~(Len(head) < MaxQueued)
      BY <1>1, <1>2, QueueAssumption
    <2>2. head' = Append(Tail(head), sent')
      BY <1>1, <1>2, <2>1, TailOfAppend DEF AppendMsg
    <2> QED BY <1>1, <2>1, <2>2, Zenon DEF Promise!Put
  <1>3. CASE ~(count >= MaxQueued)
    <2>1. Len(head) < MaxQueued
      BY <1>1, <1>3, QueueAssumption
    <2>2. head' = Append(head, sent')
      BY <1>3 DEF AppendMsg
    <2> QED BY <1>1, <2>1, <2>2, Zenon DEF Promise!Put
  <1> QED BY <1>2, <1>3

(* Every behaviour of the queue is one of the bounded FIFO that drops its   *)
(* oldest message when full: enqueue_status_msg implements Put, the pop of  *)
(* dequeue_status_msg Take, and the emptying of the list Close.             *)
THEOREM Refinement == Spec => IsDropOldestQueue
<1>1. Init => Promise!Init
  BY DEF Init, Promise!Init, Emptied
<1>2. TypeOK /\ TokenAccounting /\ [Next]_vars => [Promise!Next]_(Promise!dqVars)
  <2> SUFFICES ASSUME TypeOK, TokenAccounting, [Next]_vars
               PROVE  [Promise!Next]_(Promise!dqVars)
    OBVIOUS
  <2> USE DEF queueVars, consumerVars, destroyVars
  <2>0. ASSUME UNCHANGED <<head, sent, taken>>, Emptied' <=> Emptied
        PROVE  UNCHANGED Promise!dqVars
    BY <2>0, Zenon DEF Promise!dqVars
  <2>1. ASSUME NEW p \in Producers, Enqueue(p) PROVE [Promise!Next]_(Promise!dqVars)
    <3>1. Emptied' <=> Emptied
      BY <2>1 DEF Enqueue, Emptied
    <3>2. CASE EnqueueMsg(p)
      BY <2>1, <3>1, <3>2, EnqueueIsPut DEF Enqueue, EnqueueMsg, Promise!Next
    <3>3. CASE EnqueueNoMemory(p)
      BY <2>0, <2>1, <3>1, <3>3 DEF Enqueue, EnqueueNoMemory
    <3> QED BY <2>1, <3>2, <3>3 DEF Enqueue
  <2>2. ASSUME NEW c \in Consumers, Consume(c) PROVE [Promise!Next]_(Promise!dqVars)
    <3>0. Emptied' <=> Emptied
      BY <2>2 DEF Consume, Emptied, GetStatus, CheckState, SetWaiting, PendBlock,
                  PendTake, PendTimeout, PopHead, ClearWaiting
    <3>1. CASE PopHead(c)
      <4>1. CASE head # <<>>
        BY <3>0, <3>1, <4>1 DEF PopHead, Promise!Next, Promise!Take
      <4>2. CASE head = <<>>
        BY <2>0, <3>0, <3>1, <4>2 DEF PopHead
      <4> QED BY <4>1, <4>2
    <3>2. CASE ~PopHead(c)
      BY <2>0, <2>2, <3>0, <3>2 DEF Consume, GetStatus, CheckState, SetWaiting,
                  PendBlock, PendTake, PendTimeout, ClearWaiting
    <3> QED BY <3>1, <3>2
  <2>3. ASSUME Destroy PROVE [Promise!Next]_(Promise!dqVars)
    <3> USE DEF Emptied, DStep
    <3>1. CASE DestroyNotify
      <4>1. Emptied' <=> Emptied
        BY <3>1 DEF DestroyNotify
      <4>2. CASE EnqueueMsg(Destroyer)
        BY <3>1, <4>1, <4>2, EnqueueIsPut DEF DestroyNotify, EnqueueMsg, Promise!Next
      <4>3. CASE EnqueueNoMemory(Destroyer)
        BY <2>0, <3>1, <4>1, <4>3 DEF DestroyNotify, EnqueueNoMemory
      <4> QED BY <3>1, <4>2, <4>3 DEF DestroyNotify
    <3>2. CASE DestroyDrain
      BY <3>2 DEF DestroyDrain, Promise!Next, Promise!Close
    <3>3. CASE ~DestroyNotify /\ ~DestroyDrain
      <4>1. UNCHANGED <<head, sent, taken>>
        BY <2>3, <3>3 DEF Destroy, DestroyBegin, DestroyClear, DestroyLook, DestroySleep,
              DestroyStopWaiting, DestroyReport, DestroyFree
      <4>2. Emptied' <=> Emptied
        BY <2>3, <3>3 DEF Destroy, DestroyBegin, DestroyClear, DestroyLook, DestroySleep,
              DestroyStopWaiting, DestroyReport, DestroyFree
      <4> QED BY <2>0, <4>1, <4>2
    <3> QED BY <3>1, <3>2, <3>3
  <2>4. CASE UNCHANGED vars
    BY <2>0, <2>4 DEF vars, Emptied
  <2> QED BY <2>1, <2>2, <2>3, <2>4 DEF Next
<1>3. Spec => []TypeOK /\ []TokenAccounting
  BY Typing, QueueAccounting, PTL
<1> QED BY <1>1, <1>2, <1>3, PTL DEF Spec, IsDropOldestQueue, Promise!Spec
=============================================================================
