-------------------------- MODULE BitrateControlMC --------------------------
(***************************************************************************)
(* Bitrates of 3 to 10 units, raised by 2; a window of two samples, and    *)
(* the program's intervals in proportion: an upgrade is excessive within 4 *)
(* sleeps, a revert freezes upgrades for 8, a change cools down for 1.     *)
(***************************************************************************)
EXTENDS BitrateControl
=============================================================================
