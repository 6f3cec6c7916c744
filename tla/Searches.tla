------------------------------- MODULE Searches --------------------------------
(***************************************************************************)
(* The two searches of the 1-Wire bus, that of OneWire and that of         *)
(* DallasTemperature for alarms.  They share the addresses, and no state:  *)
(* each resets the bus first, and keeps its own address and junction.      *)
(***************************************************************************)
EXTENDS RomSearch

CONSTANT Thermometers   \* the devices that know alarms
ASSUME ThermometersAssumption == Thermometers \subseteq Roms

(* The state of the search for alarms, beside that of search.              *)
VARIABLES
  alarms, alarmListening, alarmSearchAddress, alarmSearchJunction, alarmSearchExhausted,
  alarmBit, lastJunction, done, alarmPc, caller, alarmFound, alarmSteady, handled

alarmVars == <<alarms, alarmListening, alarmSearchAddress, alarmSearchJunction, alarmSearchExhausted,
               alarmBit, lastJunction, done, alarmPc, caller, alarmFound, alarmSteady, handled>>

Alarm == INSTANCE AlarmSearch WITH
  Roms <- Thermometers, present <- alarms, listening <- alarmListening,
  i <- alarmBit, pc <- alarmPc, found <- alarmFound, steady <- alarmSteady
-------------------------------------------------------------------------------
(* processAlarms calls the handler once for every device with an alarm,    *)
(* and no address is made up (AlarmSearch).                                *)
AllHandled == Alarm!AllHandled

(* processAlarms returns, unless an alarm comes or goes before it does.    *)
ProcessEnds == Alarm!ProcessEnds
===============================================================================
