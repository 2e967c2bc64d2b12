---------------------------- MODULE PacketStream ----------------------------
(***************************************************************************)
(* What the packet buffer of one media stream promises, without slots,     *)
(* sequence numbers or threads: packets are accepted while the backlog is  *)
(* below a capacity, leave for the ingest in the order they were accepted, *)
(* each exactly once, and one that already left can be sent again while it *)
(* is among the most recent.  What leaves is always the packet meant.      *)
(*                                                                         *)
(* Packets are numbered from 0 in the order they are accepted.             *)
(***************************************************************************)
EXTENDS Integers

CONSTANTS
    Backlog,    \* how many packets may wait to be sent
    Window      \* how far behind the newest packet a retransmission may be

VARIABLES
    accepted,   \* number of packets accepted
    sent,       \* the last packet sent for the first time (-1: none)
    again       \* the last packet sent again (-1: none)

psVars == <<accepted, sent, again>>

Init == accepted = 0 /\ sent = -1 /\ again = -1

Accept ==
    /\ accepted - (sent + 1) <= Backlog
    /\ accepted' = accepted + 1
    /\ UNCHANGED <<sent, again>>

Send ==
    /\ sent + 1 < accepted
    /\ sent' = sent + 1
    /\ UNCHANGED <<accepted, again>>

SendAgain ==
    /\ again' \in 0..sent
    /\ accepted - again' <= Window
    /\ UNCHANGED <<accepted, sent>>

Next == Accept \/ Send \/ SendAgain

Spec == Init /\ [][Next]_psVars
=============================================================================
