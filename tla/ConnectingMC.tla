---------------------------- MODULE ConnectingMC ----------------------------
(* Two ticks between PINGs, answers that take up to three (so that several   *)
(* are on their way and are read at once), a timeout of twelve ticks, two    *)
(* connects, lists of up to two hosts with times on both sides of the 500 ms *)
(* that stand for a host without a thread.                                   *)
EXTENDS Connecting

MCPingEvery   == 2
MCMaxDelay    == 3
MCMaxAttempts == 2
MCMaxHosts    == 2
MCRtts        == {30, 700}
=============================================================================
