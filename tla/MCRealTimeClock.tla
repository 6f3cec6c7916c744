---------------------------- MODULE MCRealTimeClock ----------------------------
(* RealTimeClock with dates whose next second carries far.                 *)
EXTENDS RealTimeClock

Midnight(y, m, d) == [yOff |-> y, m |-> m, d |-> d, hh |-> 23, mm |-> 59, ss |-> 59]
MCDates == {Midnight(99, 12, 31), [Midnight(12, 2, 28) EXCEPT !.mm = 9]}

(* The last second of each day from 2000 to 2005 and of the last year.     *)
MCFirstDates == {FromLong(SecondsPerDay * n + SecondsPerDay - 1) : n \in (0 .. 2000) \union (24472 .. 24836)}
MCSteps == {1, SecondsPerDay}
MCCalibrations == {-40, 5}
===============================================================================
