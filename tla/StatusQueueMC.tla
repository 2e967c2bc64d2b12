--------------------------- MODULE StatusQueueMC ---------------------------
(***************************************************************************)
(* Small instances of StatusQueue for TLC: a queue of two messages, four   *)
(* enqueued by the SDK (so that it overflows twice), one consumer that     *)
(* waits for ever and one that times out, and every allocation may fail.   *)
(***************************************************************************)
EXTENDS StatusQueue

MCMaxQueued   == 2
MCWaitRetries == 1
MCMaxSent     == 4
=============================================================================
