------------------------------ MODULE AlarmSearch ------------------------------
(***************************************************************************)
(* DallasTemperature::alarmSearch, a search of its own beside that of      *)
(* OneWire, which only devices with an alarm take part in, and its users   *)
(* hasAlarm and processAlarms.  present are the devices whose alarm flag   *)
(* is set: it may change at any time, and a device that joins waits for    *)
(* the next reset.  Bits are numbered from 0 in the source and from 1 here,*)
(* so that alarmSearchJunction is 0 when the source has -1.                *)
(***************************************************************************)
EXTENDS OneWireBus

VARIABLES
  alarmSearchAddress, alarmSearchJunction, alarmSearchExhausted,
  i, lastJunction, done,   \* locals of alarmSearch
  pc,        \* "idle", "bits" in alarmSearch's loop, "handler" in the alarm handler
  caller,    \* who called alarmSearch: the sketch, or processAlarms
  found,     \* the addresses returned since resetAlarmSearch
  steady,    \* no alarm has come or gone since then
  handled    \* the devices processAlarms has called the handler for

busVars == <<present, listening>>
keptVars == <<alarmSearchAddress, alarmSearchJunction, alarmSearchExhausted>>
localVars == <<i, lastJunction, done>>
vars == <<busVars, keptVars, localVars, pc, caller, found, steady, handled>>

Fresh ==
  /\ alarmSearchJunction = 0 /\ alarmSearchExhausted = FALSE
  /\ alarmSearchAddress = [n \in 1 .. Bits |-> 0]

Init ==
  /\ present \in SUBSET Roms /\ listening = {}
  /\ Fresh
  /\ i = 1 /\ lastJunction = 0 /\ done = TRUE
  /\ pc = "idle" /\ caller = "sketch" /\ found = {} /\ steady = TRUE /\ handled = {}

AlarmRises(d) ==
  /\ d \notin present /\ present' = present \union {d}
  /\ steady' = FALSE
  /\ UNCHANGED <<listening, keptVars, localVars, pc, caller, found, handled>>

AlarmFalls(d) ==
  /\ d \in present /\ present' = present \ {d} /\ listening' = listening \ {d}
  /\ steady' = FALSE
  /\ UNCHANGED <<keptVars, localVars, pc, caller, found, handled>>

(* resetAlarmSearch zeroes all of the address but its checksum.            *)
Reset ==
  /\ alarmSearchJunction' = 0 /\ alarmSearchExhausted' = FALSE
  /\ alarmSearchAddress' = [n \in 1 .. Bits |-> IF n = Bits THEN alarmSearchAddress[n] ELSE 0]
  /\ found' = {} /\ steady' = TRUE /\ handled' = {}

resetAlarmSearch ==
  /\ pc = "idle" /\ caller = "sketch"
  /\ Reset
  /\ UNCHANGED <<busVars, localVars, pc, caller>>

(* processAlarms begins.                                                   *)
processAlarms ==
  /\ pc = "idle" /\ caller = "sketch"
  /\ Reset
  /\ caller' = "processAlarms"
  /\ UNCHANGED <<busVars, localVars, pc>>

(* alarmSearch returns false, which ends processAlarms too.                *)
ReturnFalse ==
  /\ pc' = "idle" /\ caller' = "sketch" /\ listening' = {}
  /\ i' = 1 /\ lastJunction' = 0 /\ done' = TRUE
  /\ UNCHANGED <<present, keptVars, found, steady, handled>>

SearchFails == pc = "idle" /\ (alarmSearchExhausted \/ present = {}) /\ ReturnFalse

SearchBegin ==
  /\ pc = "idle" /\ ~alarmSearchExhausted /\ present # {}
  /\ listening' = present /\ i' = 1 /\ lastJunction' = 0 /\ done' = TRUE /\ pc' = "bits"
  /\ UNCHANGED <<present, keptVars, caller, found, steady, handled>>

(* Nobody answers.                                                         *)
Lost == ReadBit(i) = 1 /\ ReadComplement(i) = 1

(* The devices that took part are gone; the junction may be a new one.     *)
SearchLost ==
  /\ pc = "bits" /\ i <= Bits /\ Lost
  /\ ReturnFalse

(* One bit, and the bit that is written for it.                            *)
TakeBit(bit) ==
  /\ alarmSearchAddress' = [alarmSearchAddress EXCEPT ![i] = bit]
  /\ listening' = StillListening(i, bit)
  /\ i' = i + 1
  /\ UNCHANGED <<present, alarmSearchExhausted, pc, caller, found, steady, handled>>

Conflict == ReadBit(i) = 0 /\ ReadComplement(i) = 0
InSearch == pc = "bits" /\ i <= Bits

SearchAgreed ==
  /\ InSearch /\ ~Conflict /\ ~Lost
  /\ TakeBit(ReadBit(i))
  /\ UNCHANGED <<alarmSearchJunction, lastJunction, done>>

Bug_KeepsJunction ==
  /\ InSearch /\ Conflict /\ i = alarmSearchJunction
  /\ TakeBit(1)
  /\ UNCHANGED <<alarmSearchJunction, lastJunction, done>>

(* The 0 side of the junction is done, now its 1 side.                     *)
SearchJunction ==
  /\ InSearch /\ Conflict /\ i = alarmSearchJunction
  /\ alarmSearchJunction' = lastJunction
  /\ TakeBit(1)
  /\ UNCHANGED <<lastJunction, done>>

Bug_ForgetsPending ==
  /\ InSearch /\ Conflict /\ i < alarmSearchJunction
  /\ TakeBit(alarmSearchAddress[i])
  /\ UNCHANGED <<alarmSearchJunction, lastJunction, done>>

(* In front of the junction, the way of the last search; where that was 0, *)
(* the 1 side is pending.                                                  *)
SearchKnown ==
  /\ InSearch /\ Conflict /\ i < alarmSearchJunction
  /\ TakeBit(alarmSearchAddress[i])
  /\ lastJunction' = IF alarmSearchAddress[i] = 0 THEN i ELSE lastJunction
  /\ done' = (done /\ alarmSearchAddress[i] = 1)
  /\ UNCHANGED alarmSearchJunction

(* Behind it, a new junction, and its 0 side first.                        *)
SearchNew ==
  /\ InSearch /\ Conflict /\ i > alarmSearchJunction
  /\ alarmSearchJunction' = i /\ done' = FALSE
  /\ TakeBit(0)
  /\ UNCHANGED lastJunction

(* The address is complete; processAlarms calls the handler.               *)
SearchFound ==
  /\ pc = "bits" /\ i > Bits
  /\ alarmSearchExhausted' = (done \/ alarmSearchExhausted)
  /\ pc' = IF caller = "processAlarms" THEN "handler" ELSE "idle"
  /\ found' = found \union {alarmSearchAddress}
  /\ listening' = {} /\ i' = 1 /\ lastJunction' = 0 /\ done' = TRUE
  /\ UNCHANGED <<present, alarmSearchAddress, alarmSearchJunction, caller, steady, handled>>

(* The handler runs and returns.                                           *)
HandlerCalled ==
  /\ pc = "handler"
  /\ handled' = handled \union {alarmSearchAddress}
  /\ pc' = "idle"
  /\ UNCHANGED <<busVars, keptVars, localVars, caller, found, steady>>

Search ==
  \/ SearchFails \/ SearchBegin \/ SearchLost
  \/ SearchAgreed \/ SearchJunction \/ SearchKnown \/ SearchNew \/ SearchFound
Next ==
  \/ Search \/ HandlerCalled \/ resetAlarmSearch \/ processAlarms
  \/ \E d \in Roms : AlarmRises(d) \/ AlarmFalls(d)
Spec == Init /\ [][Next]_vars /\ WF_vars(Search \/ HandlerCalled)
-------------------------------------------------------------------------------
(***************************************************************************)
(* Properties                                                              *)
(***************************************************************************)

Returns == pc = "bits" /\ i > Bits /\ pc' # "bits"

(* However alarms come and go, and devices fail to answer in the middle of *)
(* a search, no address is made up; while none comes or goes no device is  *)
(* returned twice, and when processAlarms returns, it has called the       *)
(* handler once for every device with an alarm.                            *)
AllHandled ==
  [][/\ Returns => alarmSearchAddress \in Roms /\ (steady => alarmSearchAddress \notin found)
     /\ caller = "processAlarms" /\ caller' = "sketch" /\ steady => handled = present]_vars

(* processAlarms returns, unless an alarm comes or goes before it does.     *)
ProcessEnds == (caller = "processAlarms" /\ steady) ~> (caller = "sketch" \/ ~steady)

(***************************************************************************)
(* What a comment says, and the code does not do.                          *)
(***************************************************************************)

(* "If there are no devices, no further devices, or something horrible     *)
(* happens in the middle of the enumeration then a 0 is returned"          *)
(* (DallasTemperature.cpp:578-580): if alarms change during processAlarms, *)
(* it gets its 0 once they have stopped changing.                          *)
EndsAfterChanges ==
  <>[][present' = present]_vars => ((caller = "processAlarms") ~> (caller = "sketch"))
===============================================================================
