----------------------------- MODULE RealTimeClock -----------------------------
(***************************************************************************)
(* A sketch and a clock of RTClib.cpp: one of four chips on the I2C bus, or*)
(* the processor's own (RTC_Millis), or none, when it computes with dates. *)
(*                                                                         *)
(* An operation is the list of transactions it has yet to send; one action *)
(* sends the next, and the processor may be reset in between.  The chips   *)
(* go on then, on their battery, until that fails as well.  Registers are  *)
(* octets, and a setting is read and written by arithmetic on its bits.    *)
(***************************************************************************)
EXTENDS DateTime

CONSTANTS
  Devices,    \* which of the clocks below
  Dates,      \* what the sketch sets a clock to
  Steps,      \* seconds that the sketch adds to a date
  FirstDates, \* dates that it starts from
  Data,       \* octets that it stores
  LastRam,    \* the last register of the DS1307 (3Fh)
  Positions, Pages,   \* of the EEPROM of the DS1388
  Calibrations,
  MaxTicks,   \* bound: seconds a clock runs
  Second, Rollover    \* units of millis() in a second, and until it starts anew

ASSUME RtcAssumption ==
  /\ Devices \subseteq {"none", "DS1307", "DS1388", "PCF8563", "BQ32000", "Millis"}
  /\ Dates \subseteq DateTimes /\ FirstDates \subseteq DateTimes /\ Steps \subseteq Nat
  /\ Data \subseteq 0 .. 255 /\ LastRam \in 8 .. 63
  /\ Positions \subseteq Nat /\ Pages \subseteq Nat /\ Calibrations \subseteq -128 .. 127
  /\ MaxTicks \in Nat /\ Second \in Nat \ {0} /\ Rollover \in Nat \ {0}

VARIABLES
  device,
  value,    \* the date the sketch computes with, or that it has set
  regs,     \* the chip's registers
  eeprom,   \* the written cells of the DS1388's banks
  todo,     \* transactions that the current operation has yet to send
  real,     \* the time it is, as far as it was ever set
  kept,     \* the chip has run since it was set
  fed,      \* the watchdog was set since the chip stopped
  memory,   \* what the sketch has stored, and where
  wanted,   \* the settings it has made
  before,   \* memory and wanted before the last operation that changed them
  ticks,
  offset, clock, since   \* of RTC_Millis; since it was set

sketch == <<value, memory, wanted, before>>
chip == <<regs, eeprom, kept>>
soft == <<offset, clock, since>>
vars == <<device, sketch, chip, todo, real, fed, ticks, soft>>

(* f, and g where f has no value.                                          *)
Over(f, g) == [x \in DOMAIN f \union DOMAIN g |-> IF x \in DOMAIN f THEN f[x] ELSE g[x]]

Chips == {"DS1307", "DS1388", "PCF8563", "BQ32000"}
Bit(v, n) == (v \div 2 ^ n) % 2
Low(v, n) == v % 2 ^ n

(* Registers of the chips, and where they have the time.                   *)
Registers ==
  [c \in Chips |-> CASE c = "DS1307" -> 0 .. LastRam
                     [] c = "DS1388" -> 0 .. 12
                     [] c = "PCF8563" -> 0 .. 15
                     [] c = "BQ32000" -> (0 .. 9) \union {32, 33, 34}]
TimeAt ==
  [c \in Chips |-> CASE c \in {"DS1307", "BQ32000"} -> [ss |-> 0, mm |-> 1, hh |-> 2, d |-> 4, m |-> 5, yOff |-> 6]
                     [] c = "DS1388" -> [ss |-> 1, mm |-> 2, hh |-> 3, d |-> 5, m |-> 6, yOff |-> 7]
                     [] c = "PCF8563" -> [ss |-> 2, mm |-> 3, hh |-> 4, d |-> 5, m |-> 7, yOff |-> 8]]

(* After a failure of both supplies: the flag that the time is wrong is set*)
(* (CH, OSF, VL, STOP), the rest is as the chip starts.                    *)
FlagAt == [c \in Chips |-> CASE c = "DS1388" -> 11 [] c = "PCF8563" -> 2 [] OTHER -> 0]
PowerOn(c) == [r \in Registers[c] |-> IF r = FlagAt[c] THEN 128 ELSE IF r \in {TimeAt[c].d, TimeAt[c].m} THEN 1 ELSE 0]

(* Settings in CAL_CFG1 of the BQ32000, and its charger.                   *)
CFG1 == 7
TCH2 == 8
CFG2 == 9
Settings(v) == [out |-> Bit(v, 7), ft |-> Bit(v, 6), cal |-> (IF Bit(v, 5) = 1 THEN -1 ELSE 1) * Low(v, 5)]
NoSettings == [out |-> 0, ft |-> 0, cal |-> 0, charge |-> 0]

Init ==
  /\ device \in Devices
  /\ value \in IF device = "none" THEN FirstDates ELSE {FromLong(0)}
  /\ regs = IF device \in Chips THEN PowerOn(device) ELSE <<>>
  /\ eeprom = <<>> /\ memory = <<>> /\ todo = <<>>
  /\ real = value /\ kept = FALSE /\ fed = FALSE /\ wanted = NoSettings /\ before = [memory |-> <<>>, wanted |-> NoSettings]
  /\ ticks = 0 /\ offset = 0 /\ clock = 0 /\ since = 0

-------------------------------------------------------------------------------
(* The bus.  Octets go to consecutive registers.                           *)
Written(r, t) ==
  [a \in DOMAIN r |-> IF a - t.at \in 0 .. Len(t.octets) - 1 THEN t.octets[a - t.at + 1] ELSE r[a]]
W(at, octets) == [at |-> at, octets |-> octets]
Ready(c) == device = c /\ todo = <<>>

(* adjust                                                                  *)
Adjusting(c, dt) ==
  LET s == bin2bcd(dt.ss) mi == bin2bcd(dt.mm) h == bin2bcd(dt.hh)
      d == bin2bcd(dt.d) mo == bin2bcd(dt.m) y == bin2bcd(dt.yOff)
  IN  CASE c = "DS1307" -> <<W(0, <<s, mi, h, 0, d, mo, y, 0>>)>>
        [] c = "DS1388" -> <<W(0, <<0, s, mi, h, 0, d, mo, y>>), W(11, <<0>>)>>
        [] c = "PCF8563" -> <<W(0, <<0, 0, s, mi, h, d, 1, mo, y, 128, 128, 128, 128, 0, 0>>)>>
        [] c = "BQ32000" -> <<W(0, <<s, mi, h, 0, d, mo, y>>)>>

Adjust(dt) ==
  /\ device \in Chips /\ todo = <<>> /\ todo' = Adjusting(device, dt)
  /\ value' = dt
  /\ UNCHANGED <<device, memory, wanted, before, chip, real, fed, ticks, soft>>

(* now, from what the registers hold.                                      *)
Bug_NoMask(v, n) == v
Masked(v, n) == Low(v, n)
Now ==
  LET Time(s, mi, h, d, mo, y) ==
        [yOff |-> bcd2bin(y), m |-> bcd2bin(mo), d |-> bcd2bin(d), hh |-> bcd2bin(h), mm |-> bcd2bin(mi), ss |-> bcd2bin(s)]
  IN  CASE device = "DS1388" -> Time(Masked(regs[1], 7), regs[2], regs[3], regs[5], regs[6], regs[7])
        [] device = "PCF8563" -> Time(Masked(regs[2], 7), Masked(regs[3], 7), Masked(regs[4], 6), Masked(regs[5], 6), Masked(regs[7], 5), regs[8])
        [] OTHER -> Time(regs[0], regs[1], regs[2], regs[4], regs[5], regs[6])

(* isrunning (the PCF8563 has none)                                        *)
IsRunning == Bit(regs[IF device = "DS1388" THEN 11 ELSE 0], 7) = 0

-------------------------------------------------------------------------------
(* DS1307: the output pin, the RAM.                                        *)
SetSqwOut(v) ==
  /\ Ready("DS1307") /\ todo' = <<W(7, <<v>>)>>
  /\ UNCHANGED <<device, sketch, chip, real, fed, ticks, soft>>
SetSqwOutLevel == \E level \in {0, 1} : SetSqwOut(128 * level)
SetSqwOutSignal == \E frequency \in 0 .. 3 : SetSqwOut(16 + frequency)

(* writeBytesInRam; readBytesInRam                                         *)
WriteRam(address, data) ==
  /\ Ready("DS1307") /\ address >= 8 /\ address + Len(data) <= LastRam + 1
  /\ todo' = <<W(address, data)>>
  /\ memory' = Over([a \in address .. address + Len(data) - 1 |-> data[a - address + 1]], memory)
  /\ before' = [memory |-> memory, wanted |-> wanted]
  /\ UNCHANGED <<device, value, wanted, chip, real, fed, ticks, soft>>
RamAt(a) == regs[a]

(* DS1388: the EEPROM by octet and by page.                                *)
Bank(pos) == IF pos > 255 THEN 2 ELSE 1
Cell(pos) == <<Bank(pos), pos % 256>>
EEPROMWrite(pos, c) ==
  /\ Ready("DS1388")
  /\ IF pos >= 512 THEN UNCHANGED <<eeprom, memory>>
     ELSE eeprom' = Over([x \in {Cell(pos)} |-> c], eeprom) /\ memory' = Over([x \in {pos} |-> c], memory)
  /\ UNCHANGED <<device, value, wanted, before, regs, kept, todo, real, fed, ticks, soft>>
EEPROMWritePage(page, c) ==
  LET first == page * 8
      cells == [k \in 0 .. 7 |-> <<Bank(first), (first % 256) + k>>]
  IN  /\ Ready("DS1388")
      /\ IF page >= 64 THEN UNCHANGED <<eeprom, memory>>
         ELSE /\ eeprom' = Over([x \in {cells[k] : k \in 0 .. 7} |-> (c + x[2]) % 256], eeprom)
              /\ memory' = Over([pos \in first .. first + 7 |-> (c + (pos % 256)) % 256], memory)
      /\ UNCHANGED <<device, value, wanted, before, regs, kept, todo, real, fed, ticks, soft>>
Held(cell) == IF cell \in DOMAIN eeprom THEN eeprom[cell] ELSE 255
EEPROMRead(pos) == Held(Cell(pos))
EEPROMReadPage(page) == [k \in 0 .. 7 |-> Held(<<Bank(page * 8), ((page * 8) % 256) + k>>)]

(* DS1388: the watchdog.                                                   *)
ResetWatchdogTimer(seconds, hundredths) ==
  /\ Ready("DS1388")
  /\ todo' = <<W(11, <<0, 0>>), W(8, <<bin2bcd(hundredths), bin2bcd(seconds)>>), W(12, <<3>>)>>
  /\ fed' = ~kept
  /\ UNCHANGED <<device, sketch, chip, real, ticks, soft>>

(* BQ32000: the output pin, the calibration, the charger.                  *)
Change(v) == /\ Ready("BQ32000") /\ todo' = v /\ before' = [memory |-> memory, wanted |-> wanted]
             /\ UNCHANGED <<device, value, memory, chip, real, fed, ticks, soft>>

SetIRQ(state) ==
  /\ Change((IF state = 0 THEN <<>> ELSE <<W(32, <<94, 199, IF state = 1 THEN 1 ELSE 0>>)>>)
            \o <<W(CFG1, <<regs[CFG1] - 64 * Bit(regs[CFG1], 6) + (IF state = 0 THEN 0 ELSE 64)>>)>>)
  /\ wanted' = [wanted EXCEPT !.ft = IF state = 0 THEN 0 ELSE 1]

SetIRQLevel(level) ==
  /\ Change(<<W(CFG1, <<Low(regs[CFG1], 7) + 128 * level>>)>>)
  /\ wanted' = [wanted EXCEPT !.out = level]

Clamped(v) == IF v > 31 THEN 31 ELSE IF v < -31 THEN -31 ELSE v
Above(v) == v - Low(v, 6)
Calibrated(v) == Above(regs[CFG1]) + (IF Clamped(v) < 0 THEN 32 - Clamped(v) ELSE Clamped(v))
Bug_ClearsFirst(v) == <<W(CFG1, <<Above(regs[CFG1])>>), W(CFG1, <<Calibrated(v)>>)>>
Calibrating(v) == <<W(CFG1, <<Calibrated(v)>>)>>
SetCalibration(v) ==
  /\ Change(Calibrating(v))
  /\ wanted' = [wanted EXCEPT !.cal = Clamped(v)]

Bug_SwitchFirst(state) == <<W(TCH2, <<32>>), W(CFG2, <<5 + (IF state = 2 THEN 64 ELSE 0)>>)>>
ChargerOn(state) == <<W(CFG2, <<5 + (IF state = 2 THEN 64 ELSE 0)>>), W(TCH2, <<32>>)>>
SetCharger(state) ==
  /\ Change(<<W(TCH2, <<0>>)>> \o (IF state \in 1 .. 2 THEN ChargerOn(state) ELSE <<>>))
  /\ wanted' = [wanted EXCEPT !.charge = state]

-------------------------------------------------------------------------------
(* A transaction is sent; with the last one of adjust the clock is right.  *)
Transfer ==
  /\ todo # <<>> /\ todo' = Tail(todo) /\ regs' = Written(regs, Head(todo))
  /\ IF Head(todo).at = 0 THEN kept' = TRUE /\ real' = value /\ fed' = FALSE ELSE UNCHANGED <<kept, real, fed>>
  /\ UNCHANGED <<device, sketch, eeprom, ticks, soft>>

(* The processor is reset.  A setting that the chip holds is made, and one *)
(* that it does not hold is given up: what counts is what was before.      *)
AsSet(w) == \A f \in {"out", "ft", "cal"} : Settings(regs[CFG1])[f] = w[f]
AsStored(m) == \A a \in DOMAIN m : RamAt(a) = m[a]
Crash ==
  /\ todo # <<>> /\ todo' = <<>>
  /\ IF (device = "DS1307" => AsStored(memory)) /\ (device = "BQ32000" => AsSet(wanted))
     THEN UNCHANGED <<memory, wanted>>
     ELSE memory' = before.memory /\ wanted' = before.wanted
  /\ UNCHANGED <<device, value, before, chip, real, fed, ticks, soft>>

(* The chip loses both supplies, and the processor starts anew.            *)
PowerFails ==
  /\ device \in Chips
  /\ regs' = PowerOn(device) /\ kept' = FALSE /\ fed' = FALSE /\ todo' = <<>> /\ wanted' = NoSettings
  /\ memory' = IF device = "DS1307" THEN <<>> ELSE memory
  /\ UNCHANGED <<device, value, before, eeprom, real, ticks, soft>>

(* A second passes on the chip: it counts in BCD, and flags stay, but the  *)
(* PCF8563 marks a new century next to its month.                          *)
Bcd(v) == 16 * (v \div 10) + (v % 10)
Tick ==
  /\ device \in Chips /\ kept /\ ticks < MaxTicks /\ ticks' = ticks + 1
  /\ real' = NextSecond(real)
  /\ \E century \in {IF device = "PCF8563" /\ real'.yOff = 100 /\ real.yOff = 99 THEN 128 ELSE 0} :
       regs' = [r \in DOMAIN regs |->
         CASE r = TimeAt[device].yOff -> Bcd(real'.yOff % 100)
           [] r = TimeAt[device].m -> Bcd(real'.m) + century
           [] \E f \in {"ss", "mm", "hh", "d"} : TimeAt[device][f] = r ->
                Bcd(real'[CHOOSE f \in {"ss", "mm", "hh", "d"} : TimeAt[device][f] = r])
           [] OTHER -> regs[r]]
  /\ UNCHANGED <<device, sketch, eeprom, kept, todo, fed, soft>>

-------------------------------------------------------------------------------
(* The sketch computes a later date: DateTime(value.get() + step).         *)
Compute(step) ==
  /\ device = "none" /\ value.yOff <= LastYear /\ ticks < MaxTicks /\ ticks' = ticks + 1
  /\ value' = FromLong(get(value) + step)
  /\ UNCHANGED <<device, memory, wanted, before, chip, todo, real, fed, soft>>

(* It reads the date as the compiler has written it.                       *)
Compile ==
  /\ device = "none"
  /\ value' = FromText(MonthNames[value.m], DayText(value.d), <<2, 0>> \o TwoDigits(value.yOff),
                       TwoDigits(value.hh) \o TwoDigits(value.mm) \o TwoDigits(value.ss))
  /\ UNCHANGED <<device, memory, wanted, before, chip, todo, real, fed, ticks, soft>>

(* RTC_Millis: adjust, and time that passes.                               *)
OffsetFor(dt) == get(dt) - (clock \div Second)
AdjustMillis(dt) ==
  /\ device = "Millis" /\ dt.yOff <= LastYear /\ value' = dt
  /\ offset' = OffsetFor(dt) /\ since' = 0
  /\ UNCHANGED <<device, memory, wanted, before, chip, todo, real, fed, ticks, clock>>
Pass ==
  /\ device = "Millis" /\ ticks < 2 * Rollover /\ ticks' = ticks + 1
  /\ clock' = (clock + 1) % Rollover /\ since' = since + 1
  /\ UNCHANGED <<device, sketch, chip, todo, real, fed, offset>>
NowMillis == FromLong(offset + (clock \div Second))

Sketch ==
  \/ \E dt \in Dates : Adjust(dt) \/ AdjustMillis(dt)
  \/ Compile \/ \E step \in Steps : Compute(step)
  \/ SetSqwOutLevel \/ SetSqwOutSignal
  \/ \E a \in 8 .. LastRam, x \in Data : WriteRam(a, <<x>>) \/ \E y \in Data : WriteRam(a, <<x, y>>)
  \/ \E pos \in Positions, x \in Data : EEPROMWrite(pos, x)
  \/ \E page \in Pages, x \in Data : EEPROMWritePage(page, x)
  \/ ResetWatchdogTimer(60, 0)
  \/ \E state \in 0 .. 2 : SetIRQ(state) \/ SetCharger(state)
  \/ \E level \in 0 .. 1 : SetIRQLevel(level)
  \/ \E v \in Calibrations : SetCalibration(v)
Next == Sketch \/ Transfer \/ Crash \/ PowerFails \/ Tick \/ Pass
Spec == Init /\ [][Next]_vars
-------------------------------------------------------------------------------
(* A clock that was set and has run since shows the time it is, through    *)
(* every carry up to the century; and a chip whose supplies have failed is *)
(* not said to run, unless the watchdog was set meanwhile (which clears the*)
(* flag that isrunning looks at).                                          *)
TimeTrusted ==
  device \in Chips =>
    /\ kept => Now = [real EXCEPT !.yOff = @ % 100]
    /\ device # "PCF8563" /\ IsRunning /\ ~fed => kept

(* "time is invalid flag" (RTClib.cpp:301): isrunning tells.               *)
InvalidIsTold == device \in Chips \ {"PCF8563"} /\ IsRunning => kept

(* What the sketch stores in the RAM or the EEPROM it reads again, by octet*)
(* and by page, and no setting of the time or the output overwrites it.    *)
ReadsBack ==
  /\ device = "DS1307" /\ todo = <<>> => AsStored(memory)
  /\ device = "DS1388" =>
       /\ \A pos \in DOMAIN memory : EEPROMRead(pos) = memory[pos]
       /\ \A page \in 0 .. 63 :
            page * 8 .. page * 8 + 7 \subseteq DOMAIN memory => \A k \in 0 .. 7 : EEPROMReadPage(page)[k] = memory[page * 8 + k]

(* Output level, square wave and calibration of the BQ32000 share a        *)
(* register, and none is lost when another is set; when the processor is   *)
(* reset on the way, the chip has the settings of before or the new ones.  *)
SettingsKept == device = "BQ32000" /\ todo = <<>> => AsSet(wanted)

(* What a sketch puts into a chip stays there.                             *)
MemoryKept == ReadsBack /\ SettingsKept

(* "prevents it from possible starting up in the high voltage mode when the*)
(* low voltage mode is requested" (RTClib.cpp:575), after resets too.      *)
High == device = "BQ32000" /\ regs[TCH2] = 32 /\ Bit(regs[CFG2], 6) = 1
NeverStartsHigh == [][~High /\ High' => wanted.charge = 2]_vars

(* RTC_Millis goes with the time, until millis() starts anew.              *)
MillisAgrees ==
  device = "Millis" /\ since <= clock => get(NowMillis) - get(value) \in {since \div Second, (since \div Second) + 1}

(* A date that the sketch computes is the calendar's next second or day,   *)
(* and the day of the week goes on with it; text is read as it was meant.  *)
(* The same arithmetic makes RTC_Millis agree with the time.               *)
DatesFollow ==
  /\ []MillisAgrees
  /\ [][device = "none" =>
          /\ value' \in {value, NextSecond(value), NextDay(value)}
          /\ dayOfWeek(value') = (dayOfWeek(value) + (IF value'.d = value.d THEN 0 ELSE 1)) % 7]_vars
===============================================================================
