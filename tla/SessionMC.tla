----------------------------- MODULE SessionMC -----------------------------
(* The session lifecycle for TLC.  Every constant is given in the .cfg: the  *)
(* runs differ in how often and when the application connects, whether the   *)
(* ingest may drop a session that is being set up, and whether the creation  *)
(* of a thread may fail.                                                     *)
EXTENDS Session
=============================================================================
