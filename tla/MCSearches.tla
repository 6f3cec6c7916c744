------------------------------ MODULE MCSearches ------------------------------
(* The two searches, each on its own.  An address has two bits of family   *)
(* code, two of serial number and a parity bit for the checksum: devices   *)
(* differ in more than the last bit.  The family with code 0 has one       *)
(* device, and one of the family that has three knows no alarms.           *)
EXTENDS Searches

VARIABLE which

Address(a, b, c, d) == <<a, b, c, d, (a + b + c + d) % 2>>

MCThermometers == {Address(0, 0, 1, 0), Address(0, 1, 0, 1), Address(1, 0, 1, 0), Address(1, 0, 1, 1)}
MCRoms == MCThermometers \union {Address(1, 0, 0, 0)}

MCInit ==
  /\ Init /\ Alarm!Init
  /\ \/ which = "search" /\ alarms = {}
     \/ which = "alarmSearch" /\ present = {}
MCNext ==
  \/ which = "search" /\ Next /\ UNCHANGED <<which, alarmVars>>
  \/ which = "alarmSearch" /\ Alarm!Next /\ UNCHANGED <<which, vars>>
MCFairness == which = "alarmSearch" => WF_alarmVars(Alarm!Search \/ Alarm!HandlerCalled)
MCSpec == MCInit /\ [][MCNext]_<<which, vars, alarmVars>> /\ MCFairness
===============================================================================
