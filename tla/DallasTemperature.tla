--------------------------- MODULE DallasTemperature ---------------------------
(***************************************************************************)
(* The thermometers of DallasTemperature.cpp.  A call of the library is a  *)
(* list of things yet to do, most of them one transaction on the bus; time *)
(* passes while it waits and between calls, and devices may come and go    *)
(* between any two transactions.  Temperatures are in sixteenths of a      *)
(* degree, times in units of 94 ms.  The search is that of RomSearch, and  *)
(* gives the devices on the bus in the order of Sensors; getAddress, which *)
(* searches too, is one step.                                              *)
(***************************************************************************)
EXTENDS Integers, Sequences, FiniteSets

CONSTANTS
  Crc8(_), CheckCrc16(_, _),   \* crc8 and check_crc16 of OneWire
  SensorCrc(_), SwitchCrc(_),   \* what the devices compute (Crc)
  Sensors,       \* the devices, as a search gives them
  Models,        \* what their family codes may be
  Parasitic,     \* those that draw their power from the data line
  Temperatures,  \* that they measure
  Highs, Lows, Resolutions,   \* that the sketch sets
  Finer,         \* whether it gives one device a finer resolution than it has told the library
  Faults,        \* "cut", "flip" or "short" of a wire while octets are read
  Cuts, Flips,   \* after which octet, which <<octet, bit>>
  MaxCalls, MaxFaults   \* bounds

DS18S20 == 16
DS18B20 == 40
DS1822 == 34
Devices == {Sensors[k] : k \in 1 .. Len(Sensors)}
NoDevice == "none"

ASSUME DallasAssumption ==
  /\ Sensors \in Seq(Devices)
  /\ Models \subseteq [Devices -> {DS18S20, DS18B20, DS1822}] /\ Parasitic \subseteq Devices /\ NoDevice \notin Devices
  /\ Temperatures \subseteq -55 * 16 .. 125 * 16
  /\ Highs \union Lows \subseteq -128 .. 127 /\ Resolutions \subseteq Nat /\ Finer \in BOOLEAN /\ Faults \subseteq {"cut", "flip", "short"}
  /\ MaxCalls \in Nat /\ MaxFaults \in Nat

VARIABLES
  Model,
  attached, dev,   \* the devices on the bus; what each keeps, was told, and whether the library knows its resolution
  strong,         \* the data line is driven high
  devices, bitResolution, parasite, waitForConversion,
  todo, address, depth, pad,   \* the call: what it does next, and its locals
  result,         \* what the last call returned
  measured, origin,   \* what a device has measured, and had when pad was read
  asked, seen, same,   \* devices that convert and are known, that begin has seen, that stayed during this call
  calls, faults

bus == <<Model, attached, dev, strong, measured>>
library == <<devices, bitResolution, parasite, waitForConversion>>
call == <<todo, address, depth, pad, result, origin>>
ghosts == <<asked, seen, same>>
bounds == <<calls, faults>>
thermVars == <<bus, library, call, ghosts, bounds>>

Constrained(v, low, high) == IF v > high THEN high ELSE IF v < low THEN low ELSE v
Limited(celsius) == Constrained(celsius, -55, 125)

-------------------------------------------------------------------------------
(* The devices.  Settings are what they keep without power; the factory's  *)
(* are 75 and 70 degrees and 12 bits, and the temperature is then 85.      *)
Settings == [th |-> 75, tl |-> 70, cfg |-> 127]
TempPowerOn == 85 * 16
AnySettings ==
  [th : {Settings.th} \union {Limited(celsius) : celsius \in Highs}, tl : {Settings.tl} \union {Limited(celsius) : celsius \in Lows},
   cfg : {31, 63, 95, 127}]
(* wanted is what the sketch has set since the power came, told what it    *)
(* has set last.                                                           *)
PowerOn(x) ==
  [th |-> x.saved.th, tl |-> x.saved.tl, cfg |-> x.saved.cfg, left |-> 0, flag |-> FALSE, saved |-> x.saved,
   valid |-> FALSE, wanted |-> x.saved, told |-> x.told, known |-> FALSE]
FromFactory == PowerOn([saved |-> Settings, told |-> Settings])
Kept(d) == [th |-> dev[d].th, tl |-> dev[d].tl, cfg |-> dev[d].cfg]
BitsFor(cfg) == 9 + (cfg \div 32)
UnitsOf(bits) == CASE bits = 9 -> 1 [] bits = 10 -> 2 [] bits = 11 -> 4 [] OTHER -> 8
ConversionTime(d, cfg) == IF Model[d] = DS18S20 THEN 8 ELSE UnitsOf(BitsFor(cfg))

(* A reset, which lets the line go: a device that converts from its power  *)
(* fails.                                                                  *)
Fails(d) == d \in Parasitic /\ dev[d].left > 0
AfterReset == [d \in Devices |-> IF Fails(d) THEN PowerOn(dev[d]) ELSE dev[d]]
MeasuredAfterReset == [d \in Devices |-> IF Fails(d) THEN TempPowerOn ELSE measured[d]]
ResetBus == strong' = FALSE /\ measured' = MeasuredAfterReset

(* reset and select, reset and skip, and reset alone: who listens then.    *)
Selected == {address} \intersect attached
Everyone == attached
Nobody == {}

(* The octets that a device sends, and their sum; int16_t is its          *)
(* temperature.                                                            *)
Octet(v) == v % 256
TempOctets(model, t) == (IF model = DS18S20 THEN 2 * ((t + 4) \div 16) ELSE t) % 65536
Remain(t) == 16 - ((t + 4) % 16)
ScratchPad(model, t, kept) ==
  <<TempOctets(model, t) % 256, TempOctets(model, t) \div 256, Octet(kept.th), Octet(kept.tl), kept.cfg, 255, Remain(t), 16>>
Sent(octets) == Append(octets, SensorCrc(octets))

(* A switch has a sum of 16 bits.                                          *)
States == {85, 170}
SwitchOctets(state) == <<240, 136, 0, state, 255>>
SwitchSends(state) ==
  SwitchOctets(state) \o <<SwitchCrc(SwitchOctets(state)) % 256, SwitchCrc(SwitchOctets(state)) \div 256>>

(* The wire: it reads high when nobody answers.                            *)
Silence(n) == [k \in 1 .. n |-> 255]
Cut(octets, k) == SubSeq(octets, 1, k) \o Silence(Len(octets) - k)
Flip(octets, k, bit) == [octets EXCEPT ![k] = IF (@ \div (2 ^ bit)) % 2 = 1 THEN @ - 2 ^ bit ELSE @ + 2 ^ bit]
Damages(octets) ==
  ({Cut(octets, k) : k \in IF "cut" \in Faults THEN Cuts ELSE {}}
   \union {Flip(octets, f[1], f[2]) : f \in IF "flip" \in Faults THEN Flips ELSE {}}
   \union (IF "short" \in Faults THEN {[k \in 1 .. Len(octets) |-> 0]} ELSE {})) \ {octets}
Damaged(octets) == IF faults = MaxFaults THEN {} ELSE Damages(octets)

-------------------------------------------------------------------------------
NoOrigin == [heard |-> FALSE, t |-> 0, flag |-> FALSE, valid |-> FALSE]

ThermInit ==
  /\ Model \in Models /\ attached \in SUBSET Devices /\ dev = [d \in Devices |-> FromFactory] /\ strong = FALSE
  /\ measured = [d \in Devices |-> TempPowerOn]
  /\ devices = 0 /\ bitResolution = 9 /\ parasite = FALSE /\ waitForConversion = TRUE
  /\ todo = <<>> /\ address = NoDevice /\ depth = 0 /\ pad = Silence(9) /\ result = <<"nothing">> /\ origin = NoOrigin
  /\ asked = {} /\ seen = {} /\ same = Devices
  /\ calls = 0 /\ faults = 0

Do(op, v) == <<[op |-> op, v |-> v]>>
Head1 == todo[1]
Doing(op) == todo # <<>> /\ todo[1].op = op
Goes(rest) == todo' = rest \o Tail(todo)
GetResult(v) == result' = <<Head1.op, address, v>>

PadDies == pad' = Silence(9) /\ origin' = NoOrigin

(* The sketch calls; address is the device it names, or uninitialised.     *)
Call(d, program) ==
  /\ todo = <<>> /\ calls < MaxCalls /\ calls' = calls + 1
  /\ todo' = program /\ address' = d /\ result' = <<"nothing">> /\ same' = Devices /\ depth' = 0 /\ PadDies
  /\ UNCHANGED <<Model, attached, strong, measured, waitForConversion, devices, parasite, asked, seen, faults>>
CallOnly(d, program) == Call(d, program) /\ UNCHANGED <<bitResolution, dev>>

Begin == CallOnly(NoDevice, Do("find", 0))
RequestTemperatures == CallOnly(NoDevice, Do("convertAll", 0))
RequestTemperaturesByAddress(d) == CallOnly(d, Do("convertOne", 0))
GetTempC(d) == CallOnly(d, Do("read", 0) \o Do("temp", 0))
HasAlarm(d) == CallOnly(d, Do("read", 0) \o Do("alarm", 0))
GetSetting(d) ==
  \E op \in {"high", "low", "resolution"} :
    CallOnly(d, (IF op = "resolution" /\ Model[d] = DS18S20 THEN <<>> ELSE Do("read", 0)) \o Do(op, 0))
SetHighAlarmTemp(d, celsius) == CallOnly(d, Do("read", 0) \o Do("setTh", Limited(celsius)))
SetLowAlarmTemp(d, celsius) == CallOnly(d, Do("read", 0) \o Do("setTl", Limited(celsius)))
SetResolutionOf(d, bits) ==
  /\ Finer \/ bits <= bitResolution
  /\ CallOnly(d, Do("read", 0) \o Do("setCfg", bits))

(* setResolution of all: devices are taken by their index.                 *)
SetResolution(bits) ==
  \E garbage \in Devices \union {NoDevice} :
    /\ Call(garbage, Do("setAll", 0))
    /\ bitResolution' = Constrained(bits, 9, 12)
    /\ dev' = [d \in Devices |-> [dev[d] EXCEPT !.known = FALSE]]
TempByIndex(i) ==
  \E garbage \in Devices \union {NoDevice} : CallOnly(garbage, Do("address", i) \o Do("read", 0) \o Do("temp", 0))
RequestByIndex(i) ==
  \E garbage \in Devices \union {NoDevice} : CallOnly(garbage, Do("address", i) \o Do("convertOne", 0))
SetWaitForConversion(flag) ==
  /\ todo = <<>> /\ waitForConversion' = flag /\ calls < MaxCalls /\ calls' = calls + 1
  /\ UNCHANGED <<bus, devices, bitResolution, parasite, call, ghosts, faults>>

-------------------------------------------------------------------------------
(* getAddress: the device with the index, and where there is none the last *)
(* that was found is left in the buffer.                                   *)
Place(i) == i + 1
GetAddress ==
  /\ Doing("address")
  /\ LET found == {k \in 1 .. Len(Sensors) :
                    Sensors[k] \in attached /\ Cardinality({j \in 1 .. k - 1 : Sensors[j] \in attached}) < Place(Head1.v)}
     IN  IF found = {} THEN UNCHANGED address ELSE \E k \in found : (\A j \in found : j <= k) /\ address' = Sensors[k]
  /\ Goes(<<>>) /\ ResetBus /\ dev' = AfterReset
  /\ UNCHANGED <<Model, attached, library, depth, pad, result, origin, ghosts, bounds>>

SetNext ==
  /\ Doing("setAll")
  /\ IF Head1.v < devices
     THEN Goes(Do("address", Head1.v) \o Do("read", 0) \o Do("setCfg", bitResolution) \o Do("setAll", Head1.v + 1))
     ELSE Goes(<<>>)
  /\ UNCHANGED <<bus, library, address, depth, pad, result, origin, ghosts, bounds>>

(* begin: its search, and what it asks each device.  When somebody has     *)
(* come or gone since it began, the search may end early, pass devices     *)
(* over, or give one again for each that has gone.  What line 49 reads is  *)
(* used by nobody; of a DS18S20 nothing else is read.                      *)
Present == {k \in 1 .. Len(Sensors) : Sensors[k] \in attached}
Following ==
  IF same # Devices THEN {k \in Present : depth = 0 \/ devices < Len(Sensors) + faults}
  ELSE {k \in Present : k > depth /\ \A j \in Present : j > depth => k <= j}
Find ==
  /\ Doing("find")
  /\ \/ (Following = {} \/ same # Devices) /\ Goes(<<>>) /\ UNCHANGED <<address, depth>>
     \/ \E k \in Following :
          /\ depth' = k /\ address' = Sensors[k]
          /\ Goes((IF parasite THEN <<>> ELSE Do("power", 0)) \o Do("read", 0) \o Do("max", 0) \o Do("find", 0))
  /\ devices' = IF depth = 0 THEN 0 ELSE devices
  /\ ResetBus /\ dev' = AfterReset
  /\ UNCHANGED <<Model, attached, bitResolution, parasite, waitForConversion, pad, result, origin, ghosts, bounds>>

ReadPowerSupply ==
  /\ Doing("power") /\ Goes(<<>>)
  /\ parasite' = (Selected \intersect Parasitic # {})
  /\ ResetBus /\ dev' = AfterReset
  /\ UNCHANGED <<Model, attached, devices, bitResolution, waitForConversion, address, depth, pad, result, origin, ghosts, bounds>>

ReadScratchPad ==
  /\ Doing("read") /\ Goes(<<>>)
  /\ ResetBus /\ dev' = AfterReset
  /\ IF Selected = {} \/ Fails(address) THEN pad' = Silence(9) /\ origin' = NoOrigin /\ UNCHANGED faults
     ELSE /\ origin' = [heard |-> TRUE, t |-> measured[address], flag |-> dev[address].flag, valid |-> dev[address].valid]
          /\ \E octets \in {Sent(ScratchPad(Model[address], measured[address], Kept(address)))} :
               \/ /\ pad' = octets /\ UNCHANGED faults
               \/ /\ pad' \in Damaged(octets) /\ faults' = faults + 1
  /\ UNCHANGED <<Model, attached, library, address, depth, result, ghosts, calls>>

Accepted(octets) == Crc8(SubSeq(octets, 1, 8)) = octets[9]
IsConnected == Accepted(pad)
Signed(octet) == IF octet > 127 THEN octet - 256 ELSE octet
GetResolution ==
  IF Model[address] = DS18S20 THEN 9
  ELSE IF IsConnected /\ pad[5] \in {31, 63, 95, 127} THEN BitsFor(pad[5]) ELSE 0

(* begin's max is a macro: a resolution that is not below bitResolution is *)
(* asked for again, and what the second answer says is stored, the 0 of a  *)
(* failure too.  The library knows no device's resolution then.            *)
Bug_LastResolution(bits) == FALSE
Exceeds(bits) == bitResolution > bits
Knows(bits) == [dev EXCEPT ![address].known = @ \/ (address \in same /\ bits # 0)]
Counted == devices' = devices + 1 /\ seen' = IF address \in same THEN seen \union {address} ELSE seen
Compare ==
  /\ Doing("max")
  /\ IF Exceeds(GetResolution) THEN Goes(<<>>) /\ Counted /\ dev' = Knows(GetResolution)
     ELSE Goes((IF Model[address] = DS18S20 THEN <<>> ELSE Do("read", 0)) \o Do("store", 0)) /\ UNCHANGED <<dev, devices, seen>>
  /\ PadDies
  /\ UNCHANGED <<Model, attached, strong, measured, bitResolution, parasite, waitForConversion, address, depth, result, asked, same, bounds>>
Store ==
  /\ Doing("store") /\ Goes(<<>>) /\ Counted
  /\ bitResolution' = GetResolution
  /\ dev' = IF GetResolution = 0 THEN [d \in Devices |-> [dev[d] EXCEPT !.known = FALSE]] ELSE Knows(GetResolution)
  /\ PadDies
  /\ UNCHANGED <<Model, attached, strong, measured, parasite, waitForConversion, address, depth, result, asked, same, bounds>>

(* calculateTemperature; no value where there is no return.                *)
Word == 256 * pad[2] + pad[1]
Bug_Unsigned == Word
Raw == IF Word > 32767 THEN Word - 65536 ELSE Word
StepOf(cfg) == CASE cfg = 127 -> 1 [] cfg = 95 -> 2 [] cfg = 63 -> 4 [] OTHER -> 8
NoValue == 32767
CalculateTemperature ==
  IF Model[address] = DS18S20 THEN (IF pad[8] = 0 THEN NoValue ELSE 16 * (Raw \div 2) - 4 + ((16 * (pad[8] - pad[7])) \div pad[8]))
  ELSE IF pad[5] \in {31, 63, 95, 127} THEN StepOf(pad[5]) * (Raw \div StepOf(pad[5])) ELSE NoValue
Disconnected == -127 * 16
Truncated(t) == IF t >= 0 THEN t \div 16 ELSE -((-t) \div 16)
Alarms(t) == t <= Signed(pad[4]) \/ t >= Signed(pad[3])

Value(op) ==
  CASE op = "temp" -> IF IsConnected THEN CalculateTemperature ELSE Disconnected
    [] op = "alarm" -> IsConnected /\ Alarms(Truncated(CalculateTemperature))
    [] op = "high" -> IF IsConnected THEN Signed(pad[3]) ELSE -127
    [] op = "low" -> IF IsConnected THEN Signed(pad[4]) ELSE -127
    [] op = "resolution" -> IF address = NoDevice THEN 0 ELSE GetResolution
Answer ==
  /\ todo # <<>> /\ Head1.op \in {"temp", "alarm", "high", "low", "resolution"}
  /\ GetResult(Value(Head1.op)) /\ Goes(<<>>)
  /\ UNCHANGED <<bus, library, address, depth, pad, origin, ghosts, bounds>>

(* The setters put one octet into the scratch pad they have read, and      *)
(* write it; the copy to the EEPROM is sent to nobody.                     *)
Cfg(bits) == CASE bits = 12 -> 127 [] bits = 11 -> 95 [] bits = 10 -> 63 [] OTHER -> 31
Bug_ForgetsLow(op, v) == [th |-> IF op = "setTh" THEN v ELSE Signed(pad[3]), tl |-> 0, cfg |-> IF op = "setCfg" THEN Cfg(v) ELSE pad[5]]
Changed(op, v) ==
  [th |-> IF op = "setTh" THEN v ELSE Signed(pad[3]),
   tl |-> IF op = "setTl" THEN v ELSE Signed(pad[4]),
   cfg |-> IF op = "setCfg" THEN Cfg(v) ELSE pad[5]]
Copies(d) == d \in Nobody
Own(settings, op, v) ==
  CASE op = "setTh" -> [settings EXCEPT !.th = v]
    [] op = "setTl" -> [settings EXCEPT !.tl = v]
    [] OTHER -> [settings EXCEPT !.cfg = Cfg(v)]
Rewritten(x) ==
  LET op == Head1.op
      v == Head1.v
      new == Changed(op, v)
  IN  [x EXCEPT !.th = new.th, !.tl = new.tl, !.cfg = IF Model[address] = DS18S20 THEN @ ELSE new.cfg, !.valid = FALSE,
                !.saved = IF Copies(address) THEN new ELSE @,
                !.wanted = Own(@, op, v), !.told = Own(@, op, v),
                !.known = address \in same /\ (@ \/ op = "setCfg")]
WriteScratchPad ==
  /\ todo # <<>> /\ Head1.op \in {"setTh", "setTl", "setCfg"}
  /\ Goes(<<>>) /\ ResetBus
  /\ dev' = IF Selected # {} /\ IsConnected /\ ~(Head1.op = "setCfg" /\ Model[address] = DS18S20)
            THEN [AfterReset EXCEPT ![address] = Rewritten(@)] ELSE AfterReset
  /\ PadDies
  /\ UNCHANGED <<Model, attached, library, address, depth, result, ghosts, bounds>>

(* A sketch reads a switch on the bus.                                     *)
ReadSwitch(state) ==
  /\ todo = <<>> /\ calls < MaxCalls /\ calls' = calls + 1
  /\ \E sent \in {SwitchSends(state)} : \E received \in {sent} \union Damaged(sent) :
       /\ result' = <<"switch", NoDevice, CheckCrc16(SubSeq(received, 1, 5), SubSeq(received, 6, 7))>>
       /\ origin' = [NoOrigin EXCEPT !.heard = (received = sent)]
       /\ faults' = IF received = sent THEN faults ELSE faults + 1
  /\ ResetBus /\ dev' = AfterReset
  /\ UNCHANGED <<Model, attached, library, todo, address, depth, pad, ghosts>>

-------------------------------------------------------------------------------
(* Conversions: the command, with the line driven high afterwards if that  *)
(* is wanted, and the wait.                                                *)
StartConversion(targets, rest) ==
  /\ dev' = [d \in Devices |->
       IF d \notin targets THEN AfterReset[d]
       ELSE IF d \in Parasitic /\ ~parasite THEN PowerOn(dev[d])
       ELSE [AfterReset[d] EXCEPT !.left = ConversionTime(d, AfterReset[d].cfg)]]
  /\ measured' = [d \in Devices |-> IF d \in targets /\ d \in Parasitic /\ ~parasite THEN TempPowerOn ELSE MeasuredAfterReset[d]]
  /\ strong' = parasite /\ asked' = {d \in targets \intersect seen : AfterReset[d].known}
  /\ Goes(rest)
  /\ UNCHANGED <<Model, attached, library, address, depth, pad, result, origin, seen, same, bounds>>
Wait(bits) == Do("delay", UnitsOf(bits))
ConvertAll ==
  /\ Doing("convertAll")
  /\ StartConversion(Everyone, IF waitForConversion THEN Wait(bitResolution) ELSE <<>>)
ConvertOne ==
  /\ Doing("convertOne")
  /\ StartConversion(Selected, Do("read", 0) \o Do("connected", 0))

(* requestTemperaturesByAddress goes on; with a device address the wait is *)
(* preceded by reads of address 0, which nobody answers: all ones, "ready".*)
GoesOn ==
  /\ Doing("connected")
  /\ Goes(IF address # NoDevice /\ IsConnected /\ waitForConversion THEN Do("read", 0) \o Do("wait", 0) ELSE <<>>)
  /\ PadDies
  /\ UNCHANGED <<bus, library, address, depth, result, ghosts, bounds>>
WaitOne ==
  /\ Doing("wait") /\ Goes(Wait(GetResolution))
  /\ PadDies
  /\ UNCHANGED <<bus, library, address, depth, result, ghosts, bounds>>

(* A unit of time, in a delay or between calls.                            *)
Tick ==
  /\ Doing("delay") \/ (todo = <<>> /\ \E d \in Devices : dev[d].left > 0)
  /\ \E t \in [{d \in Devices : dev[d].left = 1} -> Temperatures] :
       /\ measured' = [d \in Devices |-> IF d \in DOMAIN t THEN t[d] ELSE measured[d]]
       /\ dev' = [d \in Devices |->
            IF d \in DOMAIN t
            THEN [dev[d] EXCEPT !.left = 0, !.valid = TRUE, !.flag = t[d] \div 16 <= dev[d].tl \/ t[d] \div 16 >= dev[d].th]
            ELSE [dev[d] EXCEPT !.left = IF @ = 0 THEN 0 ELSE @ - 1]]
  /\ IF todo = <<>> THEN UNCHANGED todo
     ELSE IF Head1.v > 1 THEN todo' = [todo EXCEPT ![1].v = @ - 1] ELSE Goes(<<>>)
  /\ UNCHANGED <<Model, attached, strong, library, address, depth, pad, result, origin, ghosts, bounds>>

(* A device is unplugged, loses its power for a moment, or is plugged in   *)
(* again, with what its EEPROM has.                                        *)
Loses(d) ==
  /\ d \in attached /\ faults < MaxFaults /\ faults' = faults + 1
  /\ dev' = [dev EXCEPT ![d] = PowerOn(@)] /\ measured' = [measured EXCEPT ![d] = TempPowerOn]
  /\ asked' = asked \ {d} /\ seen' = seen \ {d} /\ same' = same \ {d}
  /\ UNCHANGED <<Model, strong, library, call, calls>>
Detach(d) == Loses(d) /\ attached' = attached \ {d}
Restart(d) == Loses(d) /\ UNCHANGED attached
Attach(d) ==
  /\ d \notin attached /\ attached' = attached \union {d} /\ faults < MaxFaults /\ faults' = faults + 1
  /\ same' = same \ {d}
  /\ UNCHANGED <<Model, dev, strong, measured, library, call, asked, seen, calls>>

Steps ==
  \/ GetAddress \/ SetNext \/ Find \/ ReadPowerSupply \/ ReadScratchPad \/ Compare \/ Store
  \/ Answer \/ WriteScratchPad \/ ConvertAll \/ ConvertOne \/ GoesOn \/ WaitOne \/ Tick
Sketch ==
  \/ Begin \/ RequestTemperatures \/ \E flag \in BOOLEAN : SetWaitForConversion(flag)
  \/ \E bits \in Resolutions : SetResolution(bits) \/ \E d \in Devices : SetResolutionOf(d, bits)
  \/ \E i \in 0 .. Len(Sensors) - 1 : TempByIndex(i) \/ RequestByIndex(i)
  \/ \E d \in Devices : RequestTemperaturesByAddress(d) \/ GetTempC(d) \/ HasAlarm(d) \/ GetSetting(d)
  \/ \E state \in States : ReadSwitch(state)
  \/ \E d \in Devices, celsius \in Highs : SetHighAlarmTemp(d, celsius)
  \/ \E d \in Devices, celsius \in Lows : SetLowAlarmTemp(d, celsius)
ThermNext == Steps \/ Sketch \/ \E d \in Devices : Attach(d) \/ Detach(d) \/ Restart(d)
ThermSpec == ThermInit /\ [][ThermNext]_thermVars
-------------------------------------------------------------------------------
(* When a blocking request returns, every device that the library has seen *)
(* on the bus, and whose resolution it knows, is done measuring.  It knows *)
(* none after begin has stored the 0 of a second answer that failed, until *)
(* it has asked again (line 51).  Not so a DS18S20, which takes 750 ms at  *)
(* its "9 bits", nor a device that is asked by its address and draws its   *)
(* power from the bus: its conversion is cut off by the question whether   *)
(* it is there.                                                            *)
FreshReading ==
  [][Doing("delay") /\ todo' = <<>> =>
       \A d \in asked :
         Model[d] = DS18S20 \/ (d \in Parasitic /\ d = address) \/ (dev'[d].valid /\ dev'[d].left = 0)]_thermVars

(* "wait a set time (worst case scenario) for a conversion to complete"    *)
(* (DallasTemperature.cpp:300): without those exceptions.                  *)
WaitsLongEnough ==
  [][Doing("delay") /\ todo' = <<>> /\ address = NoDevice =>
       \A d \in seen : Model[d] = DS18S20 \/ (dev'[d].valid /\ dev'[d].left = 0)]_thermVars

(* What getTempC returns is what the device has measured, rounded down to  *)
(* its resolution, or DEVICE_DISCONNECTED: whatever is cut off or flipped  *)
(* on the wire.  The same of a message that CheckCrc16 accepts.           *)
ReadsMeasured ==
  /\ result[1] = "temp" /\ result[3] # Disconnected =>
       origin.heard /\ origin.t - result[3] \in 0 .. (IF Model[address] = DS18S20 THEN 1 ELSE StepOf(pad[5])) - 1
  /\ result[1] = "switch" => result[3] = origin.heard

(* hasAlarm says what the device's own alarm flag says, which the alarm    *)
(* search looks at, if what was read is accepted and the limits are still  *)
(* those of the conversion: for all but a DS18S20, and fractions below     *)
(* zero, which (char) rounds up.                                           *)
AlarmAgrees ==
  result[1] = "alarm" /\ IsConnected /\ origin.valid /\ Model[address] # DS18S20 /\ (origin.t >= 0 \/ origin.t % 16 = 0)
    => result[3] = origin.flag

(* So a sketch acts on what the device has measured.                       *)
ReadingsAgree == ReadsMeasured /\ AlarmAgrees

(* A setter changes its own octet of a device and no other: each is what   *)
(* the sketch has set since the device got its power, or else what it has  *)
(* set before, which a setter puts back that read it before the power was  *)
(* lost.                                                                   *)
SettingsStay ==
  \A d \in attached : \A octet \in DOMAIN Kept(d) : Kept(d)[octet] \in {dev[d].wanted[octet], dev[d].told[octet]}

(* What the theorems take of the checksums: silence is not accepted, nor   *)
(* what the wire does to a message, unless it does nothing to the octets   *)
(* that are used; and a switch that is heard is believed.                  *)
Used(model) == IF model = DS18S20 THEN {1, 2, 3, 4, 5, 7, 8} ELSE 1 .. 5
Sendable(model) == {ScratchPad(model, t, kept) : t \in Temperatures \union {TempPowerOn}, kept \in AnySettings}
ChecksumsCatch ==
  /\ Crc8(Silence(8)) # 255
  /\ \A model \in {DS18S20, DS18B20, DS1822} : \A octets \in Sendable(model) :
       \A x \in Damages(Sent(octets)) : Accepted(x) => \A k \in Used(model) : x[k] = octets[k]
  /\ \A state \in States :
       /\ CheckCrc16(SubSeq(SwitchSends(state), 1, 5), SubSeq(SwitchSends(state), 6, 7)) = TRUE
       /\ \A x \in Damages(SwitchSends(state)) : CheckCrc16(SubSeq(x, 1, 5), SubSeq(x, 6, 7)) = FALSE

(* "save the newly written values to eeprom" (DallasTemperature.cpp:167).  *)
SettingsSaved == todo = <<>> => \A d \in attached : dev[d].saved = Kept(d)
===============================================================================
