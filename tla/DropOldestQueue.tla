-------------------------- MODULE DropOldestQueue --------------------------
(***************************************************************************)
(* What the SDK's status queue promises its application, with no threads,  *)
(* locks or semaphores: a bounded FIFO that always accepts the newest      *)
(* message, forgets the oldest one when it is full, and hands every        *)
(* message out at most once, oldest first.  A reader is given a message or *)
(* nothing: "the queue is empty" is an answer only a closed queue gives.   *)
(*                                                                         *)
(* A message is the serial number of the enqueue that made it.             *)
(***************************************************************************)
EXTENDS Naturals, Sequences

CONSTANT Capacity   \* how many messages it holds, a positive number

VARIABLES
    buf,        \* the messages held, oldest first
    put,        \* how many messages were ever accepted
    taken,      \* the message most recently handed out (0: none yet)
    open        \* the queue has not been emptied by its destruction

dqVars == <<buf, put, taken, open>>

Init ==
    /\ buf = <<>>
    /\ put = 0
    /\ taken = 0
    /\ open = TRUE

Put ==
    /\ put' = put + 1
    /\ buf' = IF Len(buf) < Capacity
                THEN Append(buf, put')
                ELSE Append(Tail(buf), put')
    /\ UNCHANGED <<taken, open>>

Take ==
    /\ buf # <<>>
    /\ taken' = Head(buf)
    /\ buf' = Tail(buf)
    /\ UNCHANGED <<put, open>>

Close ==
    /\ open
    /\ open' = FALSE
    /\ buf' = <<>>
    /\ UNCHANGED <<put, taken>>

Next == Put \/ Take \/ Close

Spec == Init /\ [][Next]_dqVars
=============================================================================
