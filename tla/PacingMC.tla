------------------------------ MODULE PacingMC ------------------------------
(* Half milliseconds, packets of up to five bytes, a bypass, and rates of    *)
(* one and two bytes per millisecond, the second with a rest that is lost.   *)
EXTENDS Pacing

MCMtu        == 5
MCMaxLevelMs == 3
MCRates      == {0, 8, 20}
MCMaxRate    == 2
MCTicksPerMs == 2
MCMaxIdle    == 7
=============================================================================
