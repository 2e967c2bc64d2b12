----------------------------- MODULE NackRingMC -----------------------------
(***************************************************************************)
(* A ring of three slots whose sequence numbers wrap at six, eight packets *)
(* in calls of one or two: both the ring and the sequence numbers wrap.    *)
(***************************************************************************)
EXTENDS NackRing

MCRingSize   == 3
MCSeqMod     == 6
MCMaxFrame   == 2
MCMaxPackets == 8
=============================================================================
