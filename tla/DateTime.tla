------------------------------- MODULE DateTime -------------------------------
(***************************************************************************)
(* The date arithmetic of RTClib.cpp.  A DateTime is a record; yOff counts *)
(* the years from 2000; days are an uint16_t.                             *)
(***************************************************************************)
EXTENDS Integers, Sequences

SecondsPerDay == 86400
daysInMonth == <<31, 28, 31, 30, 31, 30, 31, 31, 30, 31, 30, 31>>

DateTimes == [yOff : 0 .. 255, m : 1 .. 12, d : 1 .. 31, hh : 0 .. 23, mm : 0 .. 59, ss : 0 .. 59]

(* bin2bcd, bcd2bin                                                        *)
bin2bcd(val) == val + 6 * (val \div 10)
bcd2bin(val) == val - 6 * (val \div 16)

(* date2days: the months that are over, a leap day, the years.             *)
DaysBefore[i \in 1 .. 12] == IF i = 1 THEN 0 ELSE DaysBefore[i - 1] + daysInMonth[i - 1]
Bug_LeapFromMarch(y, m) == IF m >= 2 /\ y % 4 = 0 THEN 1 ELSE 0
LeapDay(y, m) == IF m > 2 /\ y % 4 = 0 THEN 1 ELSE 0
date2days(y, m, d) == (d + DaysBefore[m] + LeapDay(y, m) + 365 * y + ((y + 3) \div 4) - 1) % 65536

(* A long has the seconds up to 19 January 2068; later ones are left out.  *)
LastYear == 67
time2long(days, h, m, s) == ((days * 24 + h) * 60 + m) * 60 + s

(* DateTime::get, dayOfWeek                                                *)
get(dt) == time2long(date2days(dt.yOff, dt.m, dt.d), dt.hh, dt.mm, dt.ss)
dayOfWeek(dt) == ((get(dt) \div SecondsPerDay) + 6) % 7

(* DateTime(long): years and months are taken off the days one by one.     *)
DaysInYear(y) == IF y % 4 = 0 THEN 366 ELSE 365
YearAfter[y \in Nat, days \in Nat] ==
  IF days < DaysInYear(y) THEN [yOff |-> y, days |-> days] ELSE YearAfter[y + 1, days - DaysInYear(y)]
DaysPerMonth(y, m) == daysInMonth[m] + (IF y % 4 = 0 /\ m = 2 THEN 1 ELSE 0)
MonthAfter[y \in Nat, m \in 1 .. 12, days \in Nat] ==
  IF days < DaysPerMonth(y, m) THEN [m |-> m, d |-> days + 1] ELSE MonthAfter[y, m + 1, days - DaysPerMonth(y, m)]

FromYear(year, t) ==
  LET date == MonthAfter[year.yOff, 1, year.days]
  IN  [yOff |-> year.yOff, m |-> date.m, d |-> date.d, hh |-> (t \div 3600) % 24, mm |-> (t \div 60) % 60, ss |-> t % 60]
FromLong(t) == FromYear(YearAfter[0, t \div SecondsPerDay], t)

(* DateTime(date, time): "Dec 26 2009", the day with a blank in front, the *)
(* month told by one of its first three letters.  Digits are numbers.      *)
conv2d(tens, units) == 10 * (IF tens \in 0 .. 9 THEN tens ELSE 0) + units
MonthOf(name) ==
  CASE name[1] = "J" -> (IF name[2] = "a" THEN 1 ELSE IF name[3] = "n" THEN 6 ELSE 7)
    [] name[1] = "F" -> 2
    [] name[1] = "A" -> (IF name[3] = "r" THEN 4 ELSE 8)
    [] name[1] = "M" -> (IF name[3] = "r" THEN 3 ELSE 5)
    [] name[1] = "S" -> 9
    [] name[1] = "O" -> 10
    [] name[1] = "N" -> 11
    [] name[1] = "D" -> 12
FromText(month, day, year, time) ==
  [yOff |-> conv2d(year[3], year[4]), m |-> MonthOf(month), d |-> conv2d(day[1], day[2]),
   hh |-> conv2d(time[1], time[2]), mm |-> conv2d(time[3], time[4]), ss |-> conv2d(time[5], time[6])]

-------------------------------------------------------------------------------
(* The calendar itself, for the years in which every fourth is a leap year.*)
MonthLength(y, m) ==
  IF m = 2 THEN (IF y % 4 = 0 THEN 29 ELSE 28) ELSE IF m \in {4, 6, 9, 11} THEN 30 ELSE 31
NextDay(dt) ==
  IF dt.d < MonthLength(dt.yOff, dt.m) THEN [dt EXCEPT !.d = @ + 1]
  ELSE IF dt.m < 12 THEN [dt EXCEPT !.d = 1, !.m = @ + 1]
  ELSE [dt EXCEPT !.d = 1, !.m = 1, !.yOff = @ + 1]
NextMinute(dt) ==
  IF dt.mm < 59 THEN [dt EXCEPT !.mm = @ + 1]
  ELSE IF dt.hh < 23 THEN [dt EXCEPT !.mm = 0, !.hh = @ + 1]
  ELSE NextDay([dt EXCEPT !.mm = 0, !.hh = 0])
NextSecond(dt) == IF dt.ss < 59 THEN [dt EXCEPT !.ss = @ + 1] ELSE NextMinute([dt EXCEPT !.ss = 0])

(* How the compiler writes a date and a time.                              *)
MonthNames == <<<<"J", "a", "n">>, <<"F", "e", "b">>, <<"M", "a", "r">>, <<"A", "p", "r">>, <<"M", "a", "y">>, <<"J", "u", "n">>,
                <<"J", "u", "l">>, <<"A", "u", "g">>, <<"S", "e", "p">>, <<"O", "c", "t">>, <<"N", "o", "v">>, <<"D", "e", "c">>>>
Blank == 99
TwoDigits(v) == <<v \div 10, v % 10>>
DayText(d) == IF d < 10 THEN <<Blank, d>> ELSE TwoDigits(d)
===============================================================================
