------------------------- MODULE MCThreadController --------------------------
(* Three threads for two slots, so that the array can be full.             *)
EXTENDS ThreadController

CONSTANTS t1, t2, t3

MCThreads == {t1, t2, t3}
MCNull == {}
MCIntervals == {-1, 1}
===============================================================================
