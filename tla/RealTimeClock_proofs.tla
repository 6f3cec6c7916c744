-------------------------- MODULE RealTimeClock_proofs --------------------------
(***************************************************************************)
(* Proofs that a clock of RTClib tells the time or that it does not know   *)
(* it, that what a sketch stores in a chip or sets on it stays there, and  *)
(* that the charger of the BQ32000 never starts at the wrong voltage, for  *)
(* any dates, data, positions, calibrations and sizes of the RAM.          *)
(*                                                                         *)
(* RtcInv says for each chip what its registers hold and what the transac- *)
(* tions under way may still write: all of them leave the time alone unless*)
(* the first is the date that was set (TimeInv), the RAM is right once the *)
(* one under way is through (RamInv), CAL_CFG1 is as wanted or is written  *)
(* last (OutputInv), and the charger is off from before its voltage is     *)
(* chosen until after (ChargerInv).  A reset of the processor between two  *)
(* transactions leaves what the invariant says of the registers alone; as  *)
(* long as RAM or CAL_CFG1 are not as they should be, they are as they were*)
(* before (RamBefore, OutputBefore).                                       *)
(***************************************************************************)
EXTENDS RealTimeClock, SequenceTheorems, TLAPS

-------------------------------------------------------------------------------
(* What holds of every chip                                                *)
Fields == {"ss", "mm", "hh", "d"}
Times == [yOff : Nat, m : 1 .. 12, d : 1 .. 31, hh : 0 .. 23, mm : 0 .. 59, ss : 0 .. 59]
Place(f) == TimeAt[device][f]
Places == {Place(f) : f \in Fields \union {"m", "yOff"}}
Transactions == [at : Nat, octets : Seq(Int)]
Reached(t) == t.at .. t.at + Len(t.octets) - 1

(* The registers have the time; the PCF8563 marks a century at the month.  *)
Shows ==
  /\ \A f \in Fields : regs[Place(f)] = Bcd(real[f])
  /\ regs[Place("m")] \in {Bcd(real.m), Bcd(real.m) + (IF device = "PCF8563" THEN 128 ELSE 0)}
  /\ regs[Place("yOff")] = Bcd(real.yOff % 100)

(* The registers have two digits for the year.                             *)
ThisCentury == \A dt \in Dates : dt.yOff <= 99

(* A transaction that leaves the time alone, and the flag unless it may go.*)
Aside(t) ==
  /\ t \in Transactions /\ t.at # 0
  /\ Reached(t) \cap Places = {}
  /\ FlagAt[device] \in Reached(t) => kept \/ fed
AllAside == todo \in Seq(Transactions) /\ \A i \in 1 .. Len(todo) : Aside(todo[i])
TimeInv ==
  /\ DOMAIN regs = Registers[device]
  /\ \/ value \in Dates /\ todo = Adjusting(device, value)
     \/ AllAside
  /\ kept => real \in Times /\ (ThisCentury => Shows)
  /\ kept \/ fed \/ Bit(regs[FlagAt[device]], 7) = 1

(* The RAM of the DS1307, once the transaction under way is through.       *)
RamInv ==
  /\ DOMAIN memory \subseteq 8 .. LastRam
  /\ todo = <<>> \/ \E t : todo = <<t>>
  /\ \A a \in DOMAIN memory : (IF todo = <<>> THEN regs ELSE Written(regs, Head(todo)))[a] = memory[a]

(* While data is on its way the RAM still has what was there before.       *)
RamBefore ==
  \/ todo = <<>> \/ AsStored(memory)
  \/ DOMAIN before.memory \subseteq 8 .. LastRam /\ AsStored(before.memory)

(* The EEPROM of the DS1388.                                               *)
EepromInv ==
  \A pos \in DOMAIN memory : pos \in 0 .. 511 /\ Cell(pos) \in DOMAIN eeprom /\ eeprom[Cell(pos)] = memory[pos]

(* CAL_CFG1 of the BQ32000 as it was wanted, or it is written last.        *)
AsWanted(v) == v \in 0 .. 255 /\ \A f \in {"out", "ft", "cal"} : Settings(v)[f] = wanted[f]
Elsewhere(t) == CFG1 \notin Reached(t)
OutputInv ==
  /\ DOMAIN wanted = {"out", "ft", "cal", "charge"} /\ regs[CFG1] \in 0 .. 255
  /\ \/ todo = <<>> /\ AsWanted(regs[CFG1])
     \/ \E t : todo = <<t>> /\ Elsewhere(t) /\ AsWanted(regs[CFG1])
     \/ \E v : todo = <<W(CFG1, <<v>>)>> /\ AsWanted(v)
     \/ \E v, t : todo = <<t, W(CFG1, <<v>>)>> /\ Elsewhere(t) /\ AsWanted(v)
     \/ \E t, u : todo = <<t, u>> /\ Elsewhere(t) /\ Elsewhere(u) /\ AsWanted(regs[CFG1])
     \/ \E t, u, w : todo = <<t, u, w>> /\ Elsewhere(t) /\ Elsewhere(u) /\ Elsewhere(w) /\ AsWanted(regs[CFG1])

(* CAL_CFG1 has the settings, or the ones of before.                       *)
OutputBefore ==
  AsSet(wanted) \/ (DOMAIN before.wanted = {"out", "ft", "cal", "charge"} /\ AsSet(before.wanted))

(* The charger of the BQ32000 is off while its voltage is chosen.          *)
Off(t) == Reached(t) \cap {TCH2, CFG2} = {}
ChargerInv ==
  \/ todo \in Seq(Transactions) /\ \A i \in 1 .. Len(todo) : Off(todo[i])
  \/ todo = <<W(TCH2, <<0>>)>>
  \/ wanted.charge \in {1, 2} /\ todo = <<W(TCH2, <<0>>)>> \o ChargerOn(wanted.charge)
  \/ wanted.charge \in {1, 2} /\ todo = ChargerOn(wanted.charge) /\ regs[TCH2] = 0
  \/ wanted.charge \in {1, 2} /\ todo = <<W(TCH2, <<32>>)>> /\ regs[CFG2] = 5 + (IF wanted.charge = 2 THEN 64 ELSE 0)

RtcInv ==
  /\ device \in Devices
  /\ device \in Chips => TimeInv
  /\ device = "DS1307" => RamInv /\ RamBefore
  /\ device = "DS1388" => EepromInv
  /\ device = "BQ32000" => OutputInv /\ OutputBefore /\ ChargerInv
-------------------------------------------------------------------------------
(* BCD, and the bits of an octet                                           *)
LEMMA BcdOf == ASSUME NEW v \in 0 .. 99 PROVE bin2bcd(v) = Bcd(v) /\ Bcd(v) \in 0 .. 153 /\ bcd2bin(Bcd(v)) = v
BY DEF bin2bcd, bcd2bin, Bcd

LEMMA Powers == 2 ^ 5 = 32 /\ 2 ^ 6 = 64 /\ 2 ^ 7 = 128
OBVIOUS

Octet(v, a, b, c, r) == v = 128 * a + 64 * b + 32 * c + r

LEMMA BitsOf == ASSUME NEW v \in 0 .. 255 PROVE \E a, b, c \in {0, 1} : \E r \in 0 .. 31 : Octet(v, a, b, c, r)
BY DEF Octet

LEMMA BitsAre ==
  ASSUME NEW a \in {0, 1}, NEW b \in {0, 1}, NEW c \in {0, 1}, NEW r \in 0 .. 31, NEW v, Octet(v, a, b, c, r)
  PROVE  /\ v \in 0 .. 255
         /\ Bit(v, 7) = a /\ Bit(v, 6) = b /\ Bit(v, 5) = c
         /\ Low(v, 5) = r /\ Low(v, 6) = 32 * c + r /\ Low(v, 7) = 64 * b + 32 * c + r
BY DEF Bit, Low, Octet

Signed(c, r) == (IF c = 1 THEN -1 ELSE 1) * r

LEMMA SettingsAre ==
  ASSUME NEW a \in {0, 1}, NEW b \in {0, 1}, NEW c \in {0, 1}, NEW r \in 0 .. 31, NEW v, Octet(v, a, b, c, r)
  PROVE  v \in 0 .. 255 /\ Settings(v).out = a /\ Settings(v).ft = b /\ Settings(v).cal = Signed(c, r)
<1>1. v \in 0 .. 255 /\ Bit(v, 7) = a /\ Bit(v, 6) = b /\ Bit(v, 5) = c /\ Low(v, 5) = r
  BY BitsAre
<1> QED BY <1>1 DEF Settings, Signed

(* Where a chip has what                                                   *)
LEMMA DS1307At ==
  ASSUME device = "DS1307"
  PROVE  /\ Place("ss") = 0 /\ Place("mm") = 1 /\ Place("hh") = 2 /\ Place("d") = 4 /\ Place("m") = 5 /\ Place("yOff") = 6
         /\ FlagAt[device] = 0 /\ Registers[device] = 0 .. LastRam /\ LastRam \in 8 .. 63 /\ device \in Chips
BY RtcAssumption DEF Place, TimeAt, FlagAt, Chips, Registers

LEMMA DS1388At ==
  ASSUME device = "DS1388"
  PROVE  /\ Place("ss") = 1 /\ Place("mm") = 2 /\ Place("hh") = 3 /\ Place("d") = 5 /\ Place("m") = 6 /\ Place("yOff") = 7
         /\ FlagAt[device] = 11 /\ Registers[device] = 0 .. 12 /\ device \in Chips
BY DEF Place, TimeAt, FlagAt, Chips, Registers

LEMMA PCF8563At ==
  ASSUME device = "PCF8563"
  PROVE  /\ Place("ss") = 2 /\ Place("mm") = 3 /\ Place("hh") = 4 /\ Place("d") = 5 /\ Place("m") = 7 /\ Place("yOff") = 8
         /\ FlagAt[device] = 2 /\ Registers[device] = 0 .. 15 /\ device \in Chips
BY DEF Place, TimeAt, FlagAt, Chips, Registers

LEMMA BQ32000At ==
  ASSUME device = "BQ32000"
  PROVE  /\ Place("ss") = 0 /\ Place("mm") = 1 /\ Place("hh") = 2 /\ Place("d") = 4 /\ Place("m") = 5 /\ Place("yOff") = 6
         /\ FlagAt[device] = 0 /\ Registers[device] = (0 .. 9) \union {32, 33, 34} /\ device \in Chips
BY DEF Place, TimeAt, FlagAt, Chips, Registers

LEMMA ChipsAre == ASSUME device \in Chips PROVE device = "DS1307" \/ device = "DS1388" \/ device = "PCF8563" \/ device = "BQ32000"
BY DEF Chips

LEMMA PlacesAre ==
  ASSUME device \in Chips
  PROVE  /\ Places = {Place("ss"), Place("mm"), Place("hh"), Place("d"), Place("m"), Place("yOff")}
         /\ Places \subseteq Registers[device] /\ Registers[device] \subseteq Nat
         /\ FlagAt[device] \in Registers[device]
         /\ \A f \in Fields : Place("m") # Place(f) /\ Place("yOff") # Place(f)
         /\ Place("m") # Place("yOff")
         /\ \A f, g \in Fields : Place(f) = Place(g) => f = g
<1>1. Places = {Place("ss"), Place("mm"), Place("hh"), Place("d"), Place("m"), Place("yOff")}
  BY DEF Places, Fields
<1>2. CASE device = "DS1307"
  <2>1. Places \subseteq 0 .. 6
    BY <1>1, <1>2, DS1307At
  <2>2. \A n \in 8 .. 63 : 0 .. 6 \subseteq 0 .. n /\ 0 .. n \subseteq Nat /\ 0 \in 0 .. n
    OBVIOUS
  <2>3. 0 .. 6 \subseteq 0 .. LastRam /\ 0 .. LastRam \subseteq Nat /\ 0 \in 0 .. LastRam
    BY <2>2, <1>2, DS1307At
  <2>4. Places \subseteq Registers[device] /\ Registers[device] \subseteq Nat /\ FlagAt[device] \in Registers[device]
    BY <1>2, <2>1, <2>3, DS1307At
  <2>5. Place("ss") = 0 /\ Place("mm") = 1 /\ Place("hh") = 2 /\ Place("d") = 4 /\ Place("m") = 5 /\ Place("yOff") = 6
    BY <1>2, DS1307At
  <2> QED BY <1>1, <2>4, <2>5 DEF Fields
<1>3. CASE device = "DS1388"
  BY <1>1, <1>3, DS1388At DEF Fields
<1>4. CASE device = "PCF8563"
  BY <1>1, <1>4, PCF8563At DEF Fields
<1>5. CASE device = "BQ32000"
  BY <1>1, <1>5, BQ32000At DEF Fields
<1> QED BY <1>2, <1>3, <1>4, <1>5, ChipsAre

(* What a transaction writes, and what it leaves alone.                    *)
LEMMA WrittenIs ==
  ASSUME NEW r, NEW t
  PROVE  /\ DOMAIN Written(r, t) = DOMAIN r
         /\ \A a \in DOMAIN r : Written(r, t)[a] = IF a - t.at \in 0 .. Len(t.octets) - 1 THEN t.octets[a - t.at + 1] ELSE r[a]
BY DEF Written

LEMMA WrittenAside ==
  ASSUME NEW r, NEW t \in Transactions, NEW a \in DOMAIN r, a \in Int, a \notin Reached(t)
  PROVE  Written(r, t)[a] = r[a]
<1>1. t.at \in Int /\ Len(t.octets) \in Int
  BY DEF Transactions
<1>2. \A x, y, z \in Int : z - x \in 0 .. y - 1 => z \in x .. x + y - 1
  OBVIOUS
<1> QED BY <1>1, <1>2, WrittenIs DEF Reached

LEMMA OneOctet ==
  ASSUME NEW at \in Nat, NEW v
  PROVE  /\ W(at, <<v>>).at = at /\ W(at, <<v>>).octets = <<v>> /\ Reached(W(at, <<v>>)) = {at}
         /\ v \in Int => W(at, <<v>>) \in Transactions
         /\ \A r : at \in DOMAIN r => Written(r, W(at, <<v>>))[at] = v
<1>1. W(at, <<v>>).at = at /\ W(at, <<v>>).octets = <<v>> /\ Len(<<v>>) = 1 /\ <<v>>[1] = v
  BY DEF W
<1>2. Reached(W(at, <<v>>)) = {at}
  <2>1. \A a \in Nat : a .. a + 1 - 1 = {a}
    OBVIOUS
  <2> QED BY <1>1, <2>1 DEF Reached
<1>3. v \in Int => W(at, <<v>>) \in Transactions
  BY DEF W, Transactions
<1>4. \A r : at \in DOMAIN r => Written(r, W(at, <<v>>))[at] = v
  BY <1>1, WrittenIs
<1> QED BY <1>1, <1>2, <1>3, <1>4
-------------------------------------------------------------------------------
(* The calendar                                                            *)
LEMMA TimesAre ==
  /\ \A dt \in Times : /\ dt.yOff \in Nat /\ dt.m \in 1 .. 12 /\ dt.d \in 1 .. 31
                      /\ dt.hh \in 0 .. 23 /\ dt.mm \in 0 .. 59 /\ dt.ss \in 0 .. 59
BY DEF Times

LEMMA TimesSet ==
  /\ \A dt \in Times, x \in Nat : [dt EXCEPT !.yOff = x] \in Times
  /\ \A dt \in Times, x \in 1 .. 12 : [dt EXCEPT !.m = x] \in Times
  /\ \A dt \in Times, x \in 1 .. 31 : [dt EXCEPT !.d = x] \in Times
  /\ \A dt \in Times, x \in 0 .. 23 : [dt EXCEPT !.hh = x] \in Times
  /\ \A dt \in Times, x \in 0 .. 59 : [dt EXCEPT !.mm = x] \in Times
  /\ \A dt \in Times, x \in 0 .. 59 : [dt EXCEPT !.ss = x] \in Times
  /\ 1 \in 1 .. 12 /\ 1 \in 1 .. 31 /\ 0 \in 0 .. 59 /\ 0 \in 0 .. 23
<1>1. 1 \in 1 .. 12 /\ 1 \in 1 .. 31 /\ 0 \in 0 .. 59 /\ 0 \in 0 .. 23
  OBVIOUS
<1> QED BY <1>1 DEF Times

LEMMA NextDayIs ==
  ASSUME NEW dt \in Times
  PROVE  NextDay(dt) \in Times
<1>1. MonthLength(dt.yOff, dt.m) \in 0 .. 31
  BY DEF MonthLength
<1>2. dt.d \in 1 .. 31 /\ dt.m \in 1 .. 12 /\ dt.yOff \in Nat
  BY TimesAre
<1> DEFINE f == [dt EXCEPT !.d = 1]
<1>3. f \in Times /\ f.m = dt.m /\ f.yOff = dt.yOff
  <2>1. f \in Times
    BY TimesSet
  <2>2. f.m = dt.m /\ f.yOff = dt.yOff
    BY DEF Times
  <2> QED BY <2>1, <2>2
<1> HIDE DEF f
<1>4. CASE dt.d < MonthLength(dt.yOff, dt.m)
  <2>1. dt.d + 1 \in 1 .. 31
    BY <1>1, <1>2, <1>4
  <2>2. [dt EXCEPT !.d = dt.d + 1] \in Times
    BY <2>1, TimesSet
  <2>3. NextDay(dt) = [dt EXCEPT !.d = dt.d + 1]
    BY <1>4 DEF NextDay
  <2> QED BY <2>2, <2>3
<1>5. CASE ~(dt.d < MonthLength(dt.yOff, dt.m)) /\ dt.m < 12
  <2>1. dt.m + 1 \in 1 .. 12
    BY <1>2, <1>5
  <2>2. [f EXCEPT !.m = dt.m + 1] \in Times
    BY <1>3, <2>1, TimesSet
  <2>3. NextDay(dt) = [f EXCEPT !.m = dt.m + 1]
    BY <1>3, <1>5 DEF NextDay, f
  <2> QED BY <2>2, <2>3
<1>6. CASE ~(dt.d < MonthLength(dt.yOff, dt.m)) /\ ~(dt.m < 12)
  <2> DEFINE g == [f EXCEPT !.m = 1]
  <2>1. g \in Times
    BY <1>3, TimesSet
  <2>5. g.yOff = dt.yOff
    BY <1>3 DEF Times
  <2>2. dt.yOff + 1 \in Nat
    BY <1>2
  <2>3. [g EXCEPT !.yOff = dt.yOff + 1] \in Times
    BY <2>1, <2>2, TimesSet
  <2>4. NextDay(dt) = [g EXCEPT !.yOff = dt.yOff + 1]
    BY <1>6, <2>5 DEF NextDay, f
  <2> QED BY <2>3, <2>4
<1> QED BY <1>4, <1>5, <1>6

LEMMA NextSecondIs ==
  ASSUME NEW dt \in Times
  PROVE  NextSecond(dt) \in Times
<1>1. CASE dt.ss < 59
  <2>1. dt.ss + 1 \in 0 .. 59
    BY <1>1, TimesAre
  <2>2. [dt EXCEPT !.ss = dt.ss + 1] \in Times
    BY <2>1, TimesSet
  <2> QED BY <1>1, <2>2 DEF NextSecond
<1>2. CASE ~(dt.ss < 59)
  <2> DEFINE e == [dt EXCEPT !.ss = 0]
  <2>1. e \in Times
    BY TimesSet
  <2>2. NextSecond(dt) = NextMinute(e)
    BY <1>2 DEF NextSecond
  <2> HIDE DEF e
  <2>3. CASE e.mm < 59
    <3>1. e.mm + 1 \in 0 .. 59
      BY <2>1, <2>3, TimesAre
    <3>2. [e EXCEPT !.mm = e.mm + 1] \in Times
      BY <2>1, <3>1, TimesSet
    <3> QED BY <2>2, <2>3, <3>2 DEF NextMinute
  <2> DEFINE f == [e EXCEPT !.mm = 0]
  <2>4. f \in Times /\ f.hh = e.hh
    <3>1. f \in Times
      BY <2>1, TimesSet
    <3>2. f.hh = e.hh
      BY <2>1 DEF Times
    <3> QED BY <3>1, <3>2
  <2>5. CASE ~(e.mm < 59) /\ e.hh < 23
    <3>1. e.hh + 1 \in 0 .. 23
      BY <2>1, <2>5, TimesAre
    <3>2. [f EXCEPT !.hh = e.hh + 1] \in Times
      BY <2>4, <3>1, TimesSet
    <3>3. NextMinute(e) = [f EXCEPT !.hh = e.hh + 1]
      BY <2>4, <2>5 DEF NextMinute
    <3> QED BY <2>2, <3>2, <3>3
  <2>6. CASE ~(e.mm < 59) /\ ~(e.hh < 23)
    <3>1. [f EXCEPT !.hh = 0] \in Times
      BY <2>4, TimesSet
    <3>2. NextMinute(e) = NextDay([f EXCEPT !.hh = 0])
      BY <2>6 DEF NextMinute
    <3> QED BY <2>2, <3>1, <3>2, NextDayIs
  <2> QED BY <2>3, <2>5, <2>6
<1> QED BY <1>1, <1>2

-------------------------------------------------------------------------------
(* adjust sends one transaction with the time, from register 0, and with   *)
(* the DS1388 one that clears its flag.                                    *)
LEMMA DatesAre ==
  ASSUME NEW dt \in Dates
  PROVE  /\ dt \in Times
         /\ dt.m \in 0 .. 99 /\ dt.d \in 0 .. 99 /\ dt.hh \in 0 .. 99 /\ dt.mm \in 0 .. 99 /\ dt.ss \in 0 .. 99
         /\ dt.yOff \in 0 .. 255 /\ (ThisCentury => dt.yOff \in 0 .. 99 /\ dt.yOff % 100 = dt.yOff)
<1>1. dt \in DateTimes
  BY RtcAssumption
<1>2. dt.yOff \in 0 .. 255
  BY <1>1 DEF DateTimes
<1>3. dt.m \in 0 .. 99 /\ dt.d \in 0 .. 99 /\ dt.hh \in 0 .. 99 /\ dt.mm \in 0 .. 99 /\ dt.ss \in 0 .. 99
  BY <1>1 DEF DateTimes
<1>4. dt \in Times
  BY <1>1 DEF DateTimes, Times
<1>5. dt.yOff <= 99 => dt.yOff \in 0 .. 99 /\ dt.yOff % 100 = dt.yOff
  BY <1>2
<1> QED BY <1>2, <1>3, <1>4, <1>5 DEF ThisCentury

LEMMA WrittenFromStart ==
  ASSUME NEW r, NEW t, NEW a \in DOMAIN r, t.at = 0, Len(t.octets) \in Nat, a \in Nat, a + 1 <= Len(t.octets)
  PROVE  Written(r, t)[a] = t.octets[a + 1]
BY WrittenIs

LEMMA AdjustingIs ==
  ASSUME NEW dt \in Dates, device \in Chips
  PROVE  /\ Adjusting(device, dt) # <<>>
         /\ Adjusting(device, dt) \in Seq(Transactions)
         /\ Head(Adjusting(device, dt)).at = 0
         /\ Tail(Adjusting(device, dt)) = IF device = "DS1388" THEN <<W(11, <<0>>)>> ELSE <<>>
         /\ \A r : DOMAIN r = Registers[device] =>
              LET w == Written(r, Head(Adjusting(device, dt))) IN
                /\ w[Place("ss")] = bin2bcd(dt.ss) /\ w[Place("mm")] = bin2bcd(dt.mm) /\ w[Place("hh")] = bin2bcd(dt.hh)
                /\ w[Place("d")] = bin2bcd(dt.d) /\ w[Place("m")] = bin2bcd(dt.m) /\ w[Place("yOff")] = bin2bcd(dt.yOff)
<1> DEFINE s == bin2bcd(dt.ss) mi == bin2bcd(dt.mm) h == bin2bcd(dt.hh)
           d == bin2bcd(dt.d) mo == bin2bcd(dt.m) y == bin2bcd(dt.yOff)
<1>1. s \in Int /\ mi \in Int /\ h \in Int /\ d \in Int /\ mo \in Int /\ y \in Int
  <2>1. \A v \in 0 .. 255 : bin2bcd(v) \in Int
    BY DEF bin2bcd
  <2>2. \A v \in 0 .. 99 : v \in 0 .. 255
    OBVIOUS
  <2> QED BY <2>1, <2>2, DatesAre
<1>8. \A t : Head(<<t>>) = t /\ Tail(<<t>>) = <<>> /\ <<t>> # <<>>
  OBVIOUS
<1>9. \A t \in Transactions : <<t>> \in Seq(Transactions)
  OBVIOUS
<1> HIDE DEF s, mi, h, d, mo, y
<1>3. CASE device = "DS1307"
  <2>1. Adjusting(device, dt) = <<W(0, <<s, mi, h, 0, d, mo, y, 0>>)>>
    BY <1>3 DEF Adjusting, s, mi, h, d, mo, y
  <2> DEFINE t == W(0, <<s, mi, h, 0, d, mo, y, 0>>)
  <2>2. t.at = 0 /\ t.octets = <<s, mi, h, 0, d, mo, y, 0>> /\ t \in Transactions /\ Len(t.octets) = 8
    BY <1>1 DEF W, Transactions
  <2> HIDE DEF t
  <2>3. ASSUME NEW r, DOMAIN r = Registers[device]
        PROVE  LET w == Written(r, t) IN w[0] = s /\ w[1] = mi /\ w[2] = h /\ w[4] = d /\ w[5] = mo /\ w[6] = y
    <3> \A n \in 8 .. 63 : 0 .. 6 \subseteq 0 .. n
      OBVIOUS
    <3>1. 0 .. 6 \subseteq DOMAIN r
      BY <1>3, <2>3, DS1307At
    <3>2. ASSUME NEW a \in 0 .. 6 PROVE Written(r, t)[a] = t.octets[a + 1]
      <4>1. a \in DOMAIN r /\ a \in Nat /\ Len(t.octets) \in Nat /\ a + 1 <= Len(t.octets) /\ t.at = 0
        BY <2>2, <3>1
      <4> QED BY <4>1, WrittenFromStart
    <3>3. t.octets[1] = s /\ t.octets[2] = mi /\ t.octets[3] = h /\ t.octets[5] = d /\ t.octets[6] = mo /\ t.octets[7] = y
      BY <2>2
    <3> QED BY <3>2, <3>3
  <2>4. Adjusting(device, dt) = <<t>>
    BY <2>1 DEF t
  <2>5. t.at = 0 /\ t \in Transactions
    BY <2>2
  <2>9. /\ Head(Adjusting(device, dt)) = t /\ Tail(Adjusting(device, dt)) = <<>>
        /\ Adjusting(device, dt) # <<>> /\ Adjusting(device, dt) \in Seq(Transactions) /\ device # "DS1388"
    BY <1>3, <2>4, <2>5, <1>8, <1>9
  <2> QED BY <1>3, <2>3, <2>5, <2>9, DS1307At DEF s, mi, h, d, mo, y
<1>4. CASE device = "DS1388"
  <2>1. Adjusting(device, dt) = <<W(0, <<0, s, mi, h, 0, d, mo, y>>), W(11, <<0>>)>>
    BY <1>4 DEF Adjusting, s, mi, h, d, mo, y
  <2> DEFINE t == W(0, <<0, s, mi, h, 0, d, mo, y>>)
  <2>2. t.at = 0 /\ t.octets = <<0, s, mi, h, 0, d, mo, y>> /\ t \in Transactions /\ Len(t.octets) = 8
    BY <1>1 DEF W, Transactions
  <2> HIDE DEF t
  <2>3. ASSUME NEW r, DOMAIN r = Registers[device]
        PROVE  LET w == Written(r, t) IN w[1] = s /\ w[2] = mi /\ w[3] = h /\ w[5] = d /\ w[6] = mo /\ w[7] = y
    <3>1. 0 .. 7 \subseteq DOMAIN r
      BY <1>4, <2>3, DS1388At
    <3>2. ASSUME NEW a \in 0 .. 7 PROVE Written(r, t)[a] = t.octets[a + 1]
      <4>1. a \in DOMAIN r /\ a \in Nat /\ Len(t.octets) \in Nat /\ a + 1 <= Len(t.octets) /\ t.at = 0
        BY <2>2, <3>1
      <4> QED BY <4>1, WrittenFromStart
    <3>3. t.octets[2] = s /\ t.octets[3] = mi /\ t.octets[4] = h /\ t.octets[6] = d /\ t.octets[7] = mo /\ t.octets[8] = y
      BY <2>2
    <3> QED BY <3>2, <3>3
  <2>4. Adjusting(device, dt) = <<t, W(11, <<0>>)>>
    BY <2>1 DEF t
  <2>5. W(11, <<0>>) \in Transactions
    BY OneOctet
  <2>6. Tail(<<t, W(11, <<0>>)>>) = <<W(11, <<0>>)>> /\ Head(<<t, W(11, <<0>>)>>) = t /\ <<t, W(11, <<0>>)>> # <<>>
    OBVIOUS
  <2>7. \A x, y2 \in Transactions : <<x, y2>> \in Seq(Transactions)
    OBVIOUS
  <2>8. t.at = 0 /\ t \in Transactions
    BY <2>2
  <2> QED BY <1>4, <2>3, <2>4, <2>5, <2>6, <2>7, <2>8, DS1388At DEF s, mi, h, d, mo, y
<1>5. CASE device = "PCF8563"
  <2>1. Adjusting(device, dt) = <<W(0, <<0, 0, s, mi, h, d, 1, mo, y, 128, 128, 128, 128, 0, 0>>)>>
    BY <1>5 DEF Adjusting, s, mi, h, d, mo, y
  <2> DEFINE o == <<0, 0, s, mi, h, d, 1, mo, y, 128, 128, 128, 128, 0, 0>>
             t == W(0, o)
  <2>2. o \in Seq(Int) /\ Len(o) = 15 /\ o[3] = s /\ o[4] = mi /\ o[5] = h /\ o[6] = d /\ o[8] = mo /\ o[9] = y
    BY <1>1
  <2> HIDE DEF o
  <2>3. t.at = 0 /\ t.octets = o /\ t \in Transactions /\ Len(t.octets) = 15
    BY <2>2 DEF W, Transactions
  <2> HIDE DEF t
  <2>4. ASSUME NEW r, DOMAIN r = Registers[device]
        PROVE  LET w == Written(r, t) IN w[2] = s /\ w[3] = mi /\ w[4] = h /\ w[5] = d /\ w[7] = mo /\ w[8] = y
    <3>1. 0 .. 15 \subseteq DOMAIN r
      BY <1>5, <2>4, PCF8563At
    <3>2. ASSUME NEW a \in 0 .. 8 PROVE Written(r, t)[a] = t.octets[a + 1]
      <4>1. a \in DOMAIN r /\ a \in Nat /\ Len(t.octets) \in Nat /\ a + 1 <= Len(t.octets) /\ t.at = 0
        BY <2>3, <3>1
      <4> QED BY <4>1, WrittenFromStart
    <3> QED BY <2>2, <2>3, <3>2
  <2>5. Adjusting(device, dt) = <<t>>
    BY <2>1 DEF t, o
  <2>9. /\ Head(Adjusting(device, dt)) = t /\ Tail(Adjusting(device, dt)) = <<>>
        /\ Adjusting(device, dt) # <<>> /\ Adjusting(device, dt) \in Seq(Transactions) /\ device # "DS1388"
    BY <1>5, <2>3, <2>5, <1>8, <1>9
  <2> QED BY <1>5, <2>3, <2>4, <2>9, PCF8563At DEF s, mi, h, d, mo, y
<1>6. CASE device = "BQ32000"
  <2>1. Adjusting(device, dt) = <<W(0, <<s, mi, h, 0, d, mo, y>>)>>
    BY <1>6 DEF Adjusting, s, mi, h, d, mo, y
  <2> DEFINE t == W(0, <<s, mi, h, 0, d, mo, y>>)
  <2>2. t.at = 0 /\ t.octets = <<s, mi, h, 0, d, mo, y>> /\ t \in Transactions /\ Len(t.octets) = 7
    BY <1>1 DEF W, Transactions
  <2> HIDE DEF t
  <2>3. ASSUME NEW r, DOMAIN r = Registers[device]
        PROVE  LET w == Written(r, t) IN w[0] = s /\ w[1] = mi /\ w[2] = h /\ w[4] = d /\ w[5] = mo /\ w[6] = y
    <3>1. 0 .. 6 \subseteq DOMAIN r
      BY <1>6, <2>3, BQ32000At
    <3>2. ASSUME NEW a \in 0 .. 6 PROVE Written(r, t)[a] = t.octets[a + 1]
      <4>1. a \in DOMAIN r /\ a \in Nat /\ Len(t.octets) \in Nat /\ a + 1 <= Len(t.octets) /\ t.at = 0
        BY <2>2, <3>1
      <4> QED BY <4>1, WrittenFromStart
    <3>3. t.octets[1] = s /\ t.octets[2] = mi /\ t.octets[3] = h /\ t.octets[5] = d /\ t.octets[6] = mo /\ t.octets[7] = y
      BY <2>2
    <3> QED BY <3>2, <3>3
  <2>4. Adjusting(device, dt) = <<t>>
    BY <2>1 DEF t
  <2>5. t.at = 0 /\ t \in Transactions
    BY <2>2
  <2>9. /\ Head(Adjusting(device, dt)) = t /\ Tail(Adjusting(device, dt)) = <<>>
        /\ Adjusting(device, dt) # <<>> /\ Adjusting(device, dt) \in Seq(Transactions) /\ device # "DS1388"
    BY <1>6, <2>4, <2>5, <1>8, <1>9
  <2> QED BY <1>6, <2>3, <2>5, <2>9, BQ32000At DEF s, mi, h, d, mo, y
<1> QED BY <1>3, <1>4, <1>5, <1>6, ChipsAre
-------------------------------------------------------------------------------
(* The time, step by step                                                  *)
LEMMA EmptyTodo == <<>> \in Seq(Transactions) /\ Len(<<>>) = 0 /\ 1 .. 0 = {}
OBVIOUS

(* An operation whose transactions leave the time alone.                   *)
LEMMA TimeOperation ==
  ASSUME device \in Chips, TimeInv, UNCHANGED <<device, value, regs, kept, real>>, fed' = fed \/ fed' = ~kept,
         AllAside'
  PROVE  TimeInv'
<1>1. kept' => real' \in Times /\ (ThisCentury => Shows')
  BY DEF TimeInv, Shows, Place
<1>2. kept' \/ fed' \/ Bit(regs'[FlagAt[device']], 7) = 1
  BY DEF TimeInv
<1> QED BY <1>1, <1>2 DEF TimeInv

LEMMA TimeIdle ==
  ASSUME device \in Chips, TimeInv, UNCHANGED <<device, value, regs, kept, real>>, fed' = fed \/ fed' = ~kept, todo' = <<>>
  PROVE  TimeInv'
<1>1. AllAside'
  BY EmptyTodo DEF AllAside
<1> QED BY <1>1, TimeOperation

LEMMA TimeAdjust ==
  ASSUME device \in Chips, TimeInv, NEW dt \in Dates, Adjust(dt)
  PROVE  TimeInv'
<1>1. /\ device' = device /\ regs' = regs /\ kept' = kept /\ real' = real /\ fed' = fed
      /\ value' = dt /\ todo' = Adjusting(device, dt)
  BY DEF Adjust, chip
<1>2. kept' => real' \in Times /\ (ThisCentury => Shows')
  BY <1>1 DEF TimeInv, Shows, Place
<1>3. kept' \/ fed' \/ Bit(regs'[FlagAt[device']], 7) = 1
  BY <1>1 DEF TimeInv
<1>4. DOMAIN regs' = Registers[device'] /\ value' \in Dates /\ todo' = Adjusting(device', value')
  BY <1>1 DEF TimeInv
<1> QED BY <1>2, <1>3, <1>4 DEF TimeInv

(* The date is written: it is the time.                                    *)
LEMMA TimeWritten ==
  ASSUME device \in Chips, TimeInv, Transfer, value \in Dates, todo = Adjusting(device, value)
  PROVE  TimeInv'
<1>1. /\ device' = device /\ value' = value /\ regs' = Written(regs, Head(todo)) /\ todo' = Tail(todo)
      /\ kept' = TRUE /\ real' = value /\ fed' = FALSE
  BY AdjustingIs DEF Transfer, sketch
<1>2. /\ regs'[Place("ss")] = bin2bcd(value.ss) /\ regs'[Place("mm")] = bin2bcd(value.mm)
      /\ regs'[Place("hh")] = bin2bcd(value.hh) /\ regs'[Place("d")] = bin2bcd(value.d)
      /\ regs'[Place("m")] = bin2bcd(value.m) /\ regs'[Place("yOff")] = bin2bcd(value.yOff)
  <2>1. DOMAIN regs = Registers[device]
    BY DEF TimeInv
  <2> QED BY <1>1, <2>1, AdjustingIs
<1>3. DOMAIN regs' = Registers[device']
  BY <1>1, WrittenIs DEF TimeInv
<1>4. ASSUME ThisCentury PROVE Shows'
  <2>1. \A f : Place(f)' = Place(f)
    BY <1>1 DEF Place
  <2>2. /\ value.yOff % 100 = value.yOff /\ value.yOff \in 0 .. 99 /\ value.m \in 0 .. 99 /\ value.d \in 0 .. 99
        /\ value.hh \in 0 .. 99 /\ value.mm \in 0 .. 99 /\ value.ss \in 0 .. 99
    BY <1>4, DatesAre
  <2>3. /\ bin2bcd(value.ss) = Bcd(value.ss) /\ bin2bcd(value.mm) = Bcd(value.mm) /\ bin2bcd(value.hh) = Bcd(value.hh)
        /\ bin2bcd(value.d) = Bcd(value.d) /\ bin2bcd(value.m) = Bcd(value.m) /\ bin2bcd(value.yOff) = Bcd(value.yOff)
    BY <2>2, BcdOf
  <2>4. \A f \in Fields : regs'[Place(f)] = Bcd(value[f])
    BY <1>2, <2>3 DEF Fields
  <2> QED BY <1>1, <1>2, <2>1, <2>2, <2>3, <2>4 DEF Shows
<1>5. real' \in Times
  BY <1>1, DatesAre
<1>6. AllAside'
  <2>1. CASE device # "DS1388"
    <3>1. todo' = <<>>
      BY <1>1, <2>1, AdjustingIs
    <3> QED BY <3>1, EmptyTodo DEF AllAside
  <2>2. CASE device = "DS1388"
    <3> DEFINE u == W(11, <<0>>)
    <3>1. todo' = <<u>>
      BY <1>1, <2>2, AdjustingIs
    <3>2. u \in Transactions /\ u.at = 11 /\ Reached(u) = {11}
      BY OneOctet
    <3>3. 11 \notin Places
      <4>1. Places = {Place("ss"), Place("mm"), Place("hh"), Place("d"), Place("m"), Place("yOff")}
        BY PlacesAre
      <4> QED BY <4>1, <2>2, DS1388At
    <3>4. Places' = Places
      BY <1>1 DEF Places, Place
    <3> HIDE DEF u
    <3>5. Aside(u)'
      BY <1>1, <3>2, <3>3, <3>4 DEF Aside
    <3>6. <<u>> \in Seq(Transactions) /\ \A i \in 1 .. Len(<<u>>) : <<u>>[i] = u
      BY <3>2
    <3> QED BY <3>1, <3>5, <3>6 DEF AllAside
  <2> QED BY <2>1, <2>2
<1> QED BY <1>1, <1>3, <1>4, <1>5, <1>6 DEF TimeInv

LEMMA TimeAside ==
  ASSUME device \in Chips, TimeInv, Transfer, AllAside
  PROVE  TimeInv'
<1> DEFINE t == Head(todo)
<1>1. todo # <<>> /\ Aside(t)
  <2>1. todo # <<>>
    BY DEF Transfer
  <2>2. 1 \in 1 .. Len(todo) /\ t = todo[1]
    BY <2>1 DEF AllAside
  <2> QED BY <2>1, <2>2 DEF AllAside
<1>2. t \in Transactions /\ t.at # 0
  BY <1>1 DEF Aside
<1>3. /\ device' = device /\ value' = value /\ regs' = Written(regs, t) /\ todo' = Tail(todo)
      /\ kept' = kept /\ real' = real /\ fed' = fed
  BY <1>2 DEF Transfer, sketch
<1>4. AllAside'
  <2>1. \A s \in Seq(Transactions) : s # <<>> =>
          Tail(s) \in Seq(Transactions) /\ \A i \in 1 .. Len(Tail(s)) : i + 1 \in 1 .. Len(s) /\ Tail(s)[i] = s[i + 1]
    OBVIOUS
  <2>2. Tail(todo) \in Seq(Transactions) /\ \A i \in 1 .. Len(Tail(todo)) : Aside(Tail(todo)[i])
    BY <1>1, <2>1 DEF AllAside
  <2>3. Places' = Places
    BY <1>3 DEF Places, Place
  <2>4. \A u : Aside(u) => Aside(u)'
    BY <1>3, <2>3 DEF Aside
  <2> QED BY <1>3, <2>2, <2>4 DEF AllAside
<1>5. \A a \in Places : regs'[a] = regs[a]
  <2>1. \A a \in Places : a \notin Reached(t) /\ a \in DOMAIN regs /\ a \in Int
    BY <1>1, PlacesAre DEF Aside, TimeInv
  <2> QED BY <1>2, <1>3, <2>1, WrittenAside
<1>6. \A f \in Fields \union {"m", "yOff"} : regs'[Place(f)'] = regs[Place(f)]
  BY <1>3, <1>5 DEF Places, Place
<1>7. kept' => real' \in Times /\ (ThisCentury => Shows')
  <2>1. Shows => Shows'
    BY <1>3, <1>6 DEF Shows
  <2> QED BY <1>3, <2>1 DEF TimeInv
<1>8. kept' \/ fed' \/ Bit(regs'[FlagAt[device']], 7) = 1
  <2>1. CASE kept \/ fed
    BY <1>3, <2>1
  <2>2. CASE ~(kept \/ fed)
    <3>1. FlagAt[device] \notin Reached(t) /\ FlagAt[device] \in DOMAIN regs /\ FlagAt[device] \in Int
      BY <1>1, <2>2, PlacesAre DEF Aside, TimeInv
    <3>2. regs'[FlagAt[device]] = regs[FlagAt[device]]
      BY <1>2, <1>3, <3>1, WrittenAside
    <3> QED BY <1>3, <2>2, <3>2 DEF TimeInv
  <2> QED BY <2>1, <2>2
<1>9. DOMAIN regs' = Registers[device']
  BY <1>3, WrittenIs DEF TimeInv
<1> QED BY <1>4, <1>7, <1>8, <1>9 DEF TimeInv

LEMMA TimePowerFails ==
  ASSUME device \in Chips, TimeInv, PowerFails
  PROVE  TimeInv'
<1>1. device' = device /\ regs' = PowerOn(device) /\ kept' = FALSE /\ todo' = <<>>
  BY DEF PowerFails
<1>2. DOMAIN regs' = Registers[device] /\ regs'[FlagAt[device]] = 128
  BY <1>1, PlacesAre DEF PowerOn
<1>3. Bit(128, 7) = 1
  BY DEF Bit
<1>4. AllAside'
  BY <1>1, EmptyTodo DEF AllAside
<1> QED BY <1>1, <1>2, <1>3, <1>4 DEF TimeInv

(* A second later.                                                         *)
LEMMA TickIs ==
  ASSUME device \in Chips, DOMAIN regs = Registers[device], real \in Times, Tick
  PROVE  /\ kept /\ device' = device /\ value' = value /\ todo' = todo /\ kept' = kept /\ fed' = fed
         /\ memory' = memory /\ wanted' = wanted /\ eeprom' = eeprom
         /\ real' = NextSecond(real) /\ DOMAIN regs' = DOMAIN regs
         /\ regs'[Place("yOff")] = Bcd(real'.yOff % 100)
         /\ regs'[Place("m")] \in {Bcd(real'.m), Bcd(real'.m) + (IF device = "PCF8563" THEN 128 ELSE 0)}
         /\ \A f \in Fields : regs'[Place(f)] = Bcd(real'[f])
         /\ \A r \in DOMAIN regs : r \notin Places => regs'[r] = regs[r]
<1>1. /\ kept /\ device' = device /\ value' = value /\ todo' = todo /\ kept' = kept /\ fed' = fed
      /\ memory' = memory /\ wanted' = wanted /\ eeprom' = eeprom /\ real' = NextSecond(real)
  BY DEF Tick, sketch
<1> DEFINE F(r) == \E f \in Fields : Place(f) = r
           G(r) == CHOOSE f \in Fields : Place(f) = r
           year == Bcd(real'.yOff % 100)
           month(c) == Bcd(real'.m) + c
<1>2. PICK century \in {IF device = "PCF8563" /\ real'.yOff = 100 /\ real.yOff = 99 THEN 128 ELSE 0} :
        regs' = [r \in DOMAIN regs |->
          CASE r = Place("yOff") -> year
            [] r = Place("m") -> month(century)
            [] F(r) -> Bcd(real'[G(r)])
            [] OTHER -> regs[r]]
  BY DEF Tick, Place, Fields
<1>3. \A f \in Fields : F(Place(f)) /\ G(Place(f)) = f
  BY PlacesAre
<1>4. ~F(Place("yOff")) /\ ~F(Place("m"))
  BY PlacesAre
<1>5. \A r : r \notin Places => ~F(r) /\ r # Place("m") /\ r # Place("yOff")
  BY DEF Places
<1> HIDE DEF F, G
<1>6. /\ Place("yOff") \in DOMAIN regs /\ Place("m") \in DOMAIN regs /\ \A f \in Fields : Place(f) \in DOMAIN regs
  BY PlacesAre DEF Places
<1>7. Place("m") # Place("yOff")
  BY PlacesAre
<1> HIDE DEF year, month
<1>8. regs'[Place("yOff")] = year /\ regs'[Place("m")] = month(century)
  BY <1>2, <1>6, <1>7, <1>4
<1>9. regs'[Place("yOff")] = Bcd(real'.yOff % 100)
  BY <1>8 DEF year
<1>10. regs'[Place("m")] = Bcd(real'.m) + century
  BY <1>8 DEF month
<1>11. ASSUME NEW f \in Fields PROVE regs'[Place(f)] = Bcd(real'[f])
  <2>1. Place(f) # Place("yOff") /\ Place(f) # Place("m") /\ F(Place(f)) /\ G(Place(f)) = f /\ Place(f) \in DOMAIN regs
    BY <1>3, <1>6, PlacesAre
  <2> QED BY <1>2, <2>1
<1>12. ASSUME NEW r \in DOMAIN regs, r \notin Places PROVE regs'[r] = regs[r]
  BY <1>2, <1>5, <1>12
<1>13. regs'[Place("m")] \in {Bcd(real'.m), Bcd(real'.m) + (IF device = "PCF8563" THEN 128 ELSE 0)}
  <2>1. century = 0 \/ (device = "PCF8563" /\ century = 128)
    OBVIOUS
  <2>2. Bcd(real'.m) + 0 = Bcd(real'.m)
    <3>1. real' \in Times
      BY <1>1, NextSecondIs
    <3>2. real'.m \in Int
      BY <3>1 DEF Times
    <3> QED BY <3>2 DEF Bcd
  <2> QED BY <1>10, <2>1, <2>2
<1>14. DOMAIN regs' = DOMAIN regs
  BY <1>2
<1> QED BY <1>1, <1>9, <1>11, <1>12, <1>13, <1>14

LEMMA TimeTick ==
  ASSUME device \in Chips, TimeInv, Tick
  PROVE  TimeInv'
<1>1. kept /\ DOMAIN regs = Registers[device]
  BY DEF Tick, TimeInv
<1>2. real \in Times
  BY <1>1 DEF TimeInv
<1>3. /\ kept' /\ device' = device /\ value' = value /\ todo' = todo /\ kept' = kept /\ fed' = fed
      /\ real' = NextSecond(real) /\ DOMAIN regs' = DOMAIN regs
  BY <1>1, <1>2, TickIs
<1>4. real' \in Times
  BY <1>2, <1>3, NextSecondIs
<1>5. Shows'
  <2>1. \A f : Place(f)' = Place(f)
    BY <1>3 DEF Place
  <2>2. /\ regs'[Place("yOff")] = Bcd(real'.yOff % 100)
        /\ regs'[Place("m")] \in {Bcd(real'.m), Bcd(real'.m) + (IF device = "PCF8563" THEN 128 ELSE 0)}
        /\ \A f \in Fields : regs'[Place(f)] = Bcd(real'[f])
    BY <1>1, <1>2, TickIs
  <2> QED BY <1>3, <2>1, <2>2 DEF Shows
<1>6. \/ value' \in Dates /\ todo' = Adjusting(device', value')
      \/ AllAside'
  <2>1. Places' = Places
    BY <1>3 DEF Places, Place
  <2>2. \A u : Aside(u) => Aside(u)'
    BY <1>3, <2>1 DEF Aside
  <2>3. AllAside => AllAside'
    BY <1>3, <2>2 DEF AllAside
  <2> QED BY <1>3, <2>3 DEF TimeInv
<1> QED BY <1>1, <1>3, <1>4, <1>5, <1>6 DEF TimeInv
-------------------------------------------------------------------------------
(* What the registers show                                                 *)
LEMMA MaskedBcd ==
  /\ \A v \in 0 .. 59 : Low(Bcd(v), 7) = Bcd(v)
  /\ \A v \in 0 .. 31 : Low(Bcd(v), 6) = Bcd(v)
  /\ \A v \in 1 .. 12 : Low(Bcd(v), 5) = Bcd(v) /\ Low(Bcd(v) + 128, 5) = Bcd(v)
<1>1. \A v \in 0 .. 59 : Low(Bcd(v), 7) = Bcd(v)
  BY DEF Low, Bcd
<1>2. \A v \in 0 .. 31 : Low(Bcd(v), 6) = Bcd(v)
  BY DEF Low, Bcd
<1>3. \A v \in 1 .. 12 : Low(Bcd(v), 5) = Bcd(v) /\ Low(Bcd(v) + 128, 5) = Bcd(v)
  BY DEF Low, Bcd
<1> QED BY <1>1, <1>2, <1>3

LEMMA NowIsReal ==
  ASSUME ThisCentury, device \in Chips, TimeInv, kept
  PROVE  Now = [real EXCEPT !.yOff = @ % 100]
<1> DEFINE y == real.yOff % 100
<1>1. real \in Times /\ Shows
  BY DEF TimeInv
<1>2. /\ real.yOff \in Nat /\ real.m \in 1 .. 12 /\ real.d \in 1 .. 31
      /\ real.hh \in 0 .. 23 /\ real.mm \in 0 .. 59 /\ real.ss \in 0 .. 59
  BY <1>1, TimesAre
<1>3. y \in 0 .. 99
  BY <1>2
<1>4. [real EXCEPT !.yOff = @ % 100] = [yOff |-> y, m |-> real.m, d |-> real.d, hh |-> real.hh, mm |-> real.mm, ss |-> real.ss]
  BY <1>1 DEF Times
<1>5. /\ regs[Place("ss")] = Bcd(real.ss) /\ regs[Place("mm")] = Bcd(real.mm) /\ regs[Place("hh")] = Bcd(real.hh)
      /\ regs[Place("d")] = Bcd(real.d) /\ regs[Place("yOff")] = Bcd(y)
      /\ regs[Place("m")] = Bcd(real.m) \/ (device = "PCF8563" /\ regs[Place("m")] = Bcd(real.m) + 128)
  <2>1. Bcd(real.m) + 0 = Bcd(real.m)
    BY <1>2 DEF Bcd
  <2> QED BY <1>1, <2>1 DEF Shows, Fields
<1> HIDE DEF y
<1>6. /\ bcd2bin(Bcd(real.ss)) = real.ss /\ bcd2bin(Bcd(real.mm)) = real.mm /\ bcd2bin(Bcd(real.hh)) = real.hh
      /\ bcd2bin(Bcd(real.d)) = real.d /\ bcd2bin(Bcd(real.m)) = real.m /\ bcd2bin(Bcd(y)) = y
  <2>1. real.ss \in 0 .. 99 /\ real.mm \in 0 .. 99 /\ real.hh \in 0 .. 99 /\ real.d \in 0 .. 99 /\ real.m \in 0 .. 99
    BY <1>2
  <2> QED BY <1>3, <2>1, BcdOf
<1>7. /\ Low(Bcd(real.ss), 7) = Bcd(real.ss) /\ Low(Bcd(real.mm), 7) = Bcd(real.mm)
      /\ Low(Bcd(real.hh), 6) = Bcd(real.hh) /\ Low(Bcd(real.d), 6) = Bcd(real.d)
      /\ Low(Bcd(real.m), 5) = Bcd(real.m) /\ Low(Bcd(real.m) + 128, 5) = Bcd(real.m)
  <2>1. real.hh \in 0 .. 31 /\ real.d \in 0 .. 31
    BY <1>2
  <2> QED BY <1>2, <2>1, MaskedBcd
<1>8. CASE device = "DS1307" \/ device = "BQ32000"
  <2>1. /\ regs[0] = Bcd(real.ss) /\ regs[1] = Bcd(real.mm) /\ regs[2] = Bcd(real.hh)
        /\ regs[4] = Bcd(real.d) /\ regs[5] = Bcd(real.m) /\ regs[6] = Bcd(y)
    BY <1>5, <1>8, DS1307At, BQ32000At
  <2>2. Now = [yOff |-> bcd2bin(regs[6]), m |-> bcd2bin(regs[5]), d |-> bcd2bin(regs[4]),
               hh |-> bcd2bin(regs[2]), mm |-> bcd2bin(regs[1]), ss |-> bcd2bin(regs[0])]
    BY <1>8 DEF Now
  <2> QED BY <1>4, <1>6, <2>1, <2>2
<1>9. CASE device = "DS1388"
  <2>1. /\ regs[1] = Bcd(real.ss) /\ regs[2] = Bcd(real.mm) /\ regs[3] = Bcd(real.hh)
        /\ regs[5] = Bcd(real.d) /\ regs[6] = Bcd(real.m) /\ regs[7] = Bcd(y)
    BY <1>5, <1>9, DS1388At
  <2>2. Now = [yOff |-> bcd2bin(regs[7]), m |-> bcd2bin(regs[6]), d |-> bcd2bin(regs[5]),
               hh |-> bcd2bin(regs[3]), mm |-> bcd2bin(regs[2]), ss |-> bcd2bin(Low(regs[1], 7))]
    BY <1>9 DEF Now, Masked
  <2> QED BY <1>4, <1>6, <1>7, <2>1, <2>2
<1>10. CASE device = "PCF8563"
  <2>1. /\ regs[2] = Bcd(real.ss) /\ regs[3] = Bcd(real.mm) /\ regs[4] = Bcd(real.hh) /\ regs[5] = Bcd(real.d)
        /\ Low(regs[7], 5) = Bcd(real.m) /\ regs[8] = Bcd(y)
    BY <1>5, <1>7, <1>10, PCF8563At
  <2>2. Now = [yOff |-> bcd2bin(regs[8]), m |-> bcd2bin(Low(regs[7], 5)), d |-> bcd2bin(Low(regs[5], 6)),
               hh |-> bcd2bin(Low(regs[4], 6)), mm |-> bcd2bin(Low(regs[3], 7)), ss |-> bcd2bin(Low(regs[2], 7))]
    BY <1>10 DEF Now, Masked
  <2> QED BY <1>4, <1>6, <1>7, <2>1, <2>2
<1> QED BY <1>8, <1>9, <1>10, ChipsAre

LEMMA TimeIsTrusted == ASSUME ThisCentury, device \in Chips => TimeInv PROVE TimeTrusted
<1> SUFFICES ASSUME device \in Chips
             PROVE  (kept => Now = [real EXCEPT !.yOff = @ % 100]) /\ (device # "PCF8563" /\ IsRunning /\ ~fed => kept)
  BY DEF TimeTrusted
<1>1. kept => Now = [real EXCEPT !.yOff = @ % 100]
  BY NowIsReal
<1>2. ASSUME device # "PCF8563", IsRunning, ~fed PROVE kept
  <2>1. FlagAt[device] = IF device = "DS1388" THEN 11 ELSE 0
    BY <1>2, DS1307At, DS1388At, BQ32000At, ChipsAre
  <2>2. Bit(regs[FlagAt[device]], 7) = 0
    BY <1>2, <2>1 DEF IsRunning
  <2> QED BY <1>2, <2>2 DEF TimeInv
<1> QED BY <1>1, <1>2

-------------------------------------------------------------------------------
(* The operations of the DS1307 and the BQ32000 that leave the time alone  *)
(* start at its control register or after it.                              *)
Later == {t \in Transactions : t.at >= 7}

LEMMA LaterOctet == ASSUME NEW at \in Nat, at >= 7, NEW v \in Int PROVE W(at, <<v>>) \in Later
BY OneOctet DEF Later

LEMMA TimeLater ==
  ASSUME device \in {"DS1307", "BQ32000"}, TimeInv, UNCHANGED <<device, value, regs, kept, real, fed>>, todo' \in Seq(Later)
  PROVE  TimeInv'
<1>1. ASSUME NEW t \in Later PROVE Aside(t)'
  <2>1. t \in Transactions /\ t.at \in Nat /\ t.at >= 7 /\ t.at # 0 /\ Len(t.octets) \in Int
    BY DEF Later, Transactions
  <2>2. Places' = {0, 1, 2, 4, 5, 6} /\ FlagAt[device'] = 0
    <3>1. Places' = Places /\ device' = device
      BY DEF Places, Place
    <3>2. Places = {Place("ss"), Place("mm"), Place("hh"), Place("d"), Place("m"), Place("yOff")}
      BY PlacesAre, DS1307At, BQ32000At
    <3> QED BY <3>1, <3>2, DS1307At, BQ32000At
  <2>3. \A r \in Reached(t) : r >= 7 /\ r \in Int
    BY <2>1 DEF Reached
  <2>4. Reached(t) \cap {0, 1, 2, 4, 5, 6} = {} /\ 0 \notin Reached(t)
    BY <2>3
  <2> QED BY <2>1, <2>2, <2>4 DEF Aside
<1>2. todo' \in Seq(Transactions) /\ \A i \in 1 .. Len(todo') : todo'[i] \in Later
  BY DEF Later
<1>3. AllAside'
  BY <1>1, <1>2 DEF AllAside
<1>4. device \in Chips
  BY DS1307At, BQ32000At
<1> QED BY <1>3, <1>4, TimeOperation DEF AllAside
-------------------------------------------------------------------------------
(* The DS1307                                                              *)
LEMMA DS1307Steps ==
  ASSUME device = "DS1307", Next
  PROVE  \/ \E dt \in Dates : Adjust(dt)
         \/ \E v \in Int : SetSqwOut(v)
         \/ \E address \in 8 .. LastRam, data \in Seq(Int) : WriteRam(address, data)
         \/ Transfer \/ Crash \/ PowerFails \/ Tick
<1>1. CASE SetSqwOutLevel
  BY <1>1 DEF SetSqwOutLevel
<1>2. CASE SetSqwOutSignal
  BY <1>2 DEF SetSqwOutSignal
<1>3. ASSUME NEW a \in 8 .. LastRam, NEW x \in Data, NEW y \in Data, WriteRam(a, <<x>>) \/ WriteRam(a, <<x, y>>)
      PROVE  \E data \in Seq(Int) : WriteRam(a, data)
  <2>1. <<x>> \in Seq(Int) /\ <<x, y>> \in Seq(Int)
    BY RtcAssumption
  <2> QED BY <1>3, <2>1
<1>4. ~Compile /\ \A step : ~Compute(step)
  BY DEF Compile, Compute
<1>5. \A dt : ~AdjustMillis(dt)
  BY DEF AdjustMillis
<1>6. ~Pass
  BY DEF Pass
<1>7. (\A p, x : ~EEPROMWrite(p, x) /\ ~EEPROMWritePage(p, x)) /\ \A s, h : ~ResetWatchdogTimer(s, h)
  BY DEF EEPROMWrite, EEPROMWritePage, ResetWatchdogTimer, Ready
<1>8. \A s : ~SetIRQ(s) /\ ~SetCharger(s) /\ ~SetIRQLevel(s) /\ ~SetCalibration(s)
  BY DEF SetIRQ, SetCharger, SetIRQLevel, SetCalibration, Change, Ready
<1> QED BY <1>1, <1>2, <1>3, <1>4, <1>5, <1>6, <1>7, <1>8 DEF Next, Sketch

LEMMA LastRamIs == LastRam \in Int /\ 8 <= LastRam
<1>1. \A n \in 8 .. 63 : n \in Int /\ 8 <= n
  OBVIOUS
<1> QED BY <1>1, RtcAssumption

(* A transaction that leaves the RAM alone.                                *)
LEMMA RamAside ==
  ASSUME device = "DS1307", TimeInv, RamInv, device' = device, regs' = regs, memory' = memory, todo = <<>>,
         NEW t \in Transactions, t.at + Len(t.octets) <= 8, todo' = <<t>>
  PROVE  RamInv'
<1>1. t.at \in Int /\ Len(t.octets) \in Int
  BY DEF Transactions
<1>2. ASSUME NEW a \in DOMAIN memory PROVE Written(regs, t)[a] = memory[a]
  <2>1. a \in 8 .. LastRam /\ regs[a] = memory[a]
    BY DEF RamInv
  <2>2. LastRam \in Int /\ DOMAIN regs = 0 .. LastRam
    BY LastRamIs, DS1307At DEF TimeInv
  <2>3. a \in Int /\ a >= 8 /\ a \in DOMAIN regs
    BY <2>1, <2>2
  <2>4. a \notin Reached(t)
    BY <1>1, <2>3 DEF Reached
  <2> QED BY <2>1, <2>3, <2>4, WrittenAside
<1>3. todo' # <<>> /\ Head(todo') = t
  OBVIOUS
<1> QED BY <1>2, <1>3 DEF RamInv

LEMMA RamAdjust ==
  ASSUME device = "DS1307", TimeInv, RamInv, NEW dt \in Dates, Adjust(dt)
  PROVE  RamInv'
<1> DEFINE o == <<bin2bcd(dt.ss), bin2bcd(dt.mm), bin2bcd(dt.hh), 0, bin2bcd(dt.d), bin2bcd(dt.m), bin2bcd(dt.yOff), 0>>
           t == W(0, o)
<1>1. device' = device /\ regs' = regs /\ memory' = memory /\ todo = <<>> /\ todo' = <<t>>
  BY DEF Adjust, Adjusting, chip
<1>2. o \in Seq(Int) /\ Len(o) = 8
  <2>1. /\ bin2bcd(dt.ss) \in Int /\ bin2bcd(dt.mm) \in Int /\ bin2bcd(dt.hh) \in Int
        /\ bin2bcd(dt.d) \in Int /\ bin2bcd(dt.m) \in Int /\ bin2bcd(dt.yOff) \in Int
    BY DatesAre DEF bin2bcd
  <2> QED BY <2>1
<1> HIDE DEF o
<1>3. t \in Transactions /\ t.at = 0 /\ t.octets = o
  BY <1>2 DEF W, Transactions
<1> HIDE DEF t
<1>4. t.at + Len(t.octets) <= 8
  <2>1. Len(t.octets) = 8
    BY <1>2, <1>3
  <2> QED BY <1>3, <2>1
<1> QED BY <1>1, <1>3, <1>4, RamAside

LEMMA RamWrite ==
  ASSUME device = "DS1307", TimeInv, RamInv, NEW address \in 8 .. LastRam, NEW data \in Seq(Int), WriteRam(address, data)
  PROVE  RamInv' /\ todo' \in Seq(Later)
<1> DEFINE t == W(address, data)
           range == address .. address + Len(data) - 1
           new == [a \in range |-> data[a - address + 1]]
<1>1. /\ device' = device /\ regs' = regs /\ todo = <<>> /\ todo' = <<t>> /\ memory' = Over(new, memory)
      /\ address + Len(data) <= LastRam + 1
  BY DEF WriteRam, Ready, chip
<1>2. address \in Int /\ address >= 8 /\ LastRam \in Int /\ Len(data) \in Nat
  BY RtcAssumption
<1>3. t.at = address /\ t.octets = data /\ t \in Transactions /\ Reached(t) = range
  BY <1>2 DEF W, Transactions, Reached
<1>4. DOMAIN new = range /\ \A a \in range : new[a] = data[a - address + 1] /\ a \in 8 .. LastRam
  BY <1>1, <1>2
<1>5. /\ DOMAIN memory' = range \union DOMAIN memory
      /\ \A a \in DOMAIN memory' : memory'[a] = IF a \in range THEN data[a - address + 1] ELSE memory[a]
  BY <1>1, <1>4 DEF Over
<1>6. DOMAIN memory' \subseteq 8 .. LastRam
  BY <1>4, <1>5 DEF RamInv
<1>7. DOMAIN regs = 0 .. LastRam
  BY DS1307At DEF TimeInv
<1> HIDE DEF t, range, new
<1>8. ASSUME NEW a \in DOMAIN memory' PROVE Written(regs, t)[a] = memory'[a]
  <2>1. a \in Int /\ a \in DOMAIN regs
    BY <1>2, <1>6, <1>7
  <2>2. CASE a \in range
    <3>1. a - t.at \in 0 .. Len(t.octets) - 1
      BY <1>2, <1>3, <2>1, <2>2 DEF range
    <3> QED BY <1>3, <1>5, <2>1, <2>2, <3>1, WrittenIs
  <2>3. CASE a \notin range
    <3>1. a \in DOMAIN memory /\ memory'[a] = memory[a] /\ regs[a] = memory[a]
      BY <1>1, <1>5, <2>3 DEF RamInv
    <3> QED BY <1>3, <2>1, <2>3, <3>1, WrittenAside
  <2> QED BY <2>2, <2>3
<1>9. todo' # <<>> /\ Head(todo') = t
  BY <1>1
<1>10. RamInv'
  BY <1>1, <1>6, <1>8, <1>9 DEF RamInv
<1>11. t \in Later
  BY <1>2, <1>3 DEF Later
<1> QED BY <1>1, <1>10, <1>11

LEMMA RamTick ==
  ASSUME device = "DS1307", TimeInv, RamInv, Tick
  PROVE  RamInv'
<1>1. device \in Chips /\ DOMAIN regs = 0 .. LastRam /\ DOMAIN regs = Registers[device] /\ real \in Times
  BY DS1307At DEF TimeInv, Tick
<1>2. /\ device' = device /\ todo' = todo /\ memory' = memory /\ DOMAIN regs' = DOMAIN regs
      /\ \A r \in DOMAIN regs : r \notin Places => regs'[r] = regs[r]
  BY <1>1, TickIs
<1>3. Places \subseteq 0 .. 6
  <2>1. Places = {Place("ss"), Place("mm"), Place("hh"), Place("d"), Place("m"), Place("yOff")}
    BY <1>1, PlacesAre
  <2> QED BY <2>1, DS1307At
<1>4. ASSUME NEW a \in DOMAIN memory PROVE a \in DOMAIN regs /\ regs'[a] = regs[a]
  <2>1. a \in 8 .. LastRam /\ LastRam \in Int
    BY LastRamIs DEF RamInv
  <2>2. a \in DOMAIN regs /\ a \notin Places
    BY <1>1, <1>3, <2>1
  <2> QED BY <1>2, <2>2
<1>5. ASSUME NEW a \in DOMAIN memory, NEW t PROVE Written(regs', t)[a] = Written(regs, t)[a]
  BY <1>2, <1>4 DEF Written
<1> QED BY <1>2, <1>4, <1>5 DEF RamInv

(* A reset takes back what the chip does not hold.                         *)
LEMMA RamCrash ==
  ASSUME device = "DS1307", RamInv, RamBefore, Crash
  PROVE  RamInv' /\ RamBefore'
<1>1. device' = device /\ regs' = regs /\ todo # <<>> /\ todo' = <<>>
  BY DEF Crash, chip
<1>2. CASE AsStored(memory)
  <2>1. memory' = memory
    BY <1>2 DEF Crash
  <2> QED BY <1>1, <1>2, <2>1 DEF RamInv, RamBefore, AsStored, RamAt
<1>3. CASE ~AsStored(memory)
  <2>1. memory' = before.memory
    BY <1>3 DEF Crash
  <2>2. DOMAIN before.memory \subseteq 8 .. LastRam /\ AsStored(before.memory)
    BY <1>1, <1>3 DEF RamBefore
  <2> QED BY <1>1, <2>1, <2>2 DEF RamInv, RamBefore, AsStored, RamAt
<1> QED BY <1>2, <1>3

LEMMA RamBeforeStep ==
  ASSUME device = "DS1307", TimeInv, RamInv, RamBefore, Next
  PROVE  RamBefore'
<1>1. ASSUME todo = <<>>, regs' = regs, memory' = memory PROVE RamBefore'
  BY <1>1 DEF RamInv, RamBefore, AsStored, RamAt
<1>2. ASSUME NEW dt \in Dates, Adjust(dt) PROVE RamBefore'
  BY <1>1, <1>2 DEF Adjust, chip
<1>3. ASSUME NEW v \in Int, SetSqwOut(v) PROVE RamBefore'
  BY <1>1, <1>3 DEF SetSqwOut, Ready, sketch, chip
<1>4. ASSUME NEW address \in 8 .. LastRam, NEW data \in Seq(Int), WriteRam(address, data) PROVE RamBefore'
  <2>1. todo = <<>> /\ regs' = regs /\ before' = [memory |-> memory, wanted |-> wanted]
    BY <1>4 DEF WriteRam, Ready, chip
  <2>2. before'.memory = memory
    BY <2>1
  <2> QED BY <2>1, <2>2 DEF RamInv, RamBefore, AsStored, RamAt
<1>5. CASE Transfer
  <2>1. todo # <<>> /\ todo' = Tail(todo)
    BY <1>5 DEF Transfer
  <2>2. PICK t : todo = <<t>>
    BY <2>1 DEF RamInv
  <2>3. todo' = <<>>
    BY <2>1, <2>2
  <2> QED BY <2>3 DEF RamBefore
<1>6. CASE Crash
  BY <1>6, RamCrash
<1>7. CASE PowerFails
  BY <1>7 DEF PowerFails, RamBefore
<1>8. CASE Tick
  <2>1. device \in Chips /\ DOMAIN regs = 0 .. LastRam /\ DOMAIN regs = Registers[device] /\ real \in Times
    BY <1>8, DS1307At DEF TimeInv, Tick
  <2>2. /\ todo' = todo /\ memory' = memory /\ before' = before
        /\ \A a \in DOMAIN regs : a \notin Places => regs'[a] = regs[a]
    BY <1>8, <2>1, TickIs DEF Tick, sketch
  <2>3. Places \subseteq 0 .. 6
    <3>1. Places = {Place("ss"), Place("mm"), Place("hh"), Place("d"), Place("m"), Place("yOff")}
      BY <2>1, PlacesAre
    <3> QED BY <3>1, DS1307At
  <2>4. ASSUME NEW m, DOMAIN m \subseteq 8 .. LastRam, AsStored(m) PROVE AsStored(m)'
    <3>1. ASSUME NEW a \in DOMAIN m PROVE regs'[a] = m[a]
      <4>1. a \in 8 .. LastRam /\ LastRam \in Int /\ regs[a] = m[a]
        BY <2>4, LastRamIs DEF AsStored, RamAt
      <4>2. a \in DOMAIN regs /\ a \notin Places
        BY <2>1, <2>3, <4>1
      <4> QED BY <2>2, <4>1, <4>2
    <3> QED BY <3>1 DEF AsStored, RamAt
  <2>5. DOMAIN memory \subseteq 8 .. LastRam
    BY DEF RamInv
  <2>6. AsStored(memory) => AsStored(memory)'
    BY <2>2, <2>4, <2>5 DEF AsStored, RamAt
  <2>7. DOMAIN before.memory \subseteq 8 .. LastRam /\ AsStored(before.memory) => AsStored(before.memory)'
    BY <2>2, <2>4 DEF AsStored, RamAt
  <2> QED BY <2>2, <2>6, <2>7 DEF RamBefore
<1> QED BY <1>2, <1>3, <1>4, <1>5, <1>6, <1>7, <1>8, DS1307Steps

LEMMA DS1307Step ==
  ASSUME device = "DS1307", TimeInv, RamInv, RamBefore, Next
  PROVE  device' = device /\ TimeInv' /\ RamInv'
<1>1. device \in Chips
  BY DS1307At
<1>2. ASSUME NEW dt \in Dates, Adjust(dt) PROVE device' = device /\ TimeInv' /\ RamInv'
  <2>1. device' = device
    BY <1>2 DEF Adjust
  <2> QED BY <1>1, <1>2, <2>1, TimeAdjust, RamAdjust
<1>3. ASSUME NEW v \in Int, SetSqwOut(v) PROVE device' = device /\ TimeInv' /\ RamInv'
  <2> DEFINE t == W(7, <<v>>)
  <2>1. /\ device' = device /\ value' = value /\ regs' = regs /\ kept' = kept /\ real' = real /\ fed' = fed
        /\ memory' = memory /\ todo = <<>> /\ todo' = <<t>>
    BY <1>3 DEF SetSqwOut, Ready, sketch, chip
  <2>2. t \in Later /\ t.at = 7 /\ t.octets = <<v>>
    BY LaterOctet, OneOctet
  <2> HIDE DEF t
  <2>3. t \in Transactions /\ t.at + Len(t.octets) <= 8
    <3>1. Len(t.octets) = 1
      BY <2>2
    <3> QED BY <2>2, <3>1 DEF Later
  <2>4. todo' \in Seq(Later)
    BY <2>1, <2>2
  <2> QED BY <2>1, <2>3, <2>4, TimeLater, RamAside
<1>4. ASSUME NEW address \in 8 .. LastRam, NEW data \in Seq(Int), WriteRam(address, data)
      PROVE  device' = device /\ TimeInv' /\ RamInv'
  <2>1. device' = device /\ value' = value /\ regs' = regs /\ kept' = kept /\ real' = real /\ fed' = fed
    BY <1>4 DEF WriteRam, chip
  <2>2. RamInv' /\ todo' \in Seq(Later)
    BY <1>4, RamWrite
  <2> QED BY <2>1, <2>2, TimeLater
<1>5. CASE Transfer
  <2>1. device' = device /\ memory' = memory /\ regs' = Written(regs, Head(todo)) /\ todo # <<>> /\ todo' = Tail(todo)
    BY <1>5 DEF Transfer, sketch
  <2>2. PICK t : todo = <<t>>
    BY <2>1 DEF RamInv
  <2>3. todo' = <<>>
    BY <2>1, <2>2
  <2>4. RamInv'
    BY <2>1, <2>3 DEF RamInv
  <2>5. TimeInv'
    BY <1>1, <1>5, TimeWritten, TimeAside DEF TimeInv
  <2> QED BY <2>1, <2>4, <2>5
<1>6. CASE Crash
  <2>1. device' = device /\ value' = value /\ regs' = regs /\ kept' = kept /\ real' = real /\ fed' = fed /\ todo' = <<>>
    BY <1>6 DEF Crash, chip
  <2>2. RamInv'
    BY <1>6, RamCrash
  <2>3. TimeInv'
    BY <1>1, <2>1, TimeIdle
  <2> QED BY <2>1, <2>2, <2>3
<1>7. CASE PowerFails
  <2>1. device' = device /\ todo' = <<>> /\ memory' = <<>>
    BY <1>7 DEF PowerFails
  <2>2. RamInv'
    BY <2>1 DEF RamInv
  <2>3. TimeInv'
    BY <1>1, <1>7, TimePowerFails
  <2> QED BY <2>1, <2>2, <2>3
<1>8. CASE Tick
  <2>1. device' = device
    BY <1>8 DEF Tick
  <2> QED BY <1>1, <1>8, <2>1, TimeTick, RamTick
<1> QED BY <1>2, <1>3, <1>4, <1>5, <1>6, <1>7, <1>8, DS1307Steps
-------------------------------------------------------------------------------
(* The DS1388                                                              *)
LEMMA CellIs == ASSUME NEW pos \in 0 .. 511 PROVE Cell(pos) = IF pos > 255 THEN <<2, pos - 256>> ELSE <<1, pos>>
<1>1. ASSUME pos > 255 PROVE pos % 256 = pos - 256
  BY <1>1
<1>2. ASSUME ~(pos > 255) PROVE pos % 256 = pos
  BY <1>2
<1> QED BY <1>1, <1>2 DEF Cell, Bank

LEMMA CellsDiffer == ASSUME NEW p \in 0 .. 511, NEW q \in 0 .. 511, p # q PROVE Cell(p) # Cell(q)
<1>1. \A x, y \in Int : x - 256 = y - 256 => x = y
  OBVIOUS
<1>2. \A a, b, c, d : <<a, b>> = <<c, d>> => a = c /\ b = d
  OBVIOUS
<1>3. p \in Int /\ q \in Int
  OBVIOUS
<1>4. CASE p > 255 /\ q > 255
  <2>1. Cell(p) = <<2, p - 256>> /\ Cell(q) = <<2, q - 256>>
    BY <1>4, CellIs
  <2> QED BY <1>1, <1>2, <1>3, <2>1
<1>5. CASE ~(p > 255) /\ ~(q > 255)
  <2>1. Cell(p) = <<1, p>> /\ Cell(q) = <<1, q>>
    BY <1>5, CellIs
  <2> QED BY <1>2, <2>1
<1>6. CASE p > 255 /\ ~(q > 255)
  <2>1. Cell(p) = <<2, p - 256>> /\ Cell(q) = <<1, q>>
    BY <1>6, CellIs
  <2> QED BY <1>2, <2>1
<1>7. CASE ~(p > 255) /\ q > 255
  <2>1. Cell(p) = <<1, p>> /\ Cell(q) = <<2, q - 256>>
    BY <1>7, CellIs
  <2> QED BY <1>2, <2>1
<1> QED BY <1>4, <1>5, <1>6, <1>7

(* A page is the eight cells of its positions.                             *)
CellOf(first, k) == <<Bank(first), (first % 256) + k>>
InBank(pos) == pos % 256

LEMMA PageIs ==
  ASSUME NEW page \in 0 .. 63, NEW k \in 0 .. 7, NEW first, first = page * 8
  PROVE  first + k \in 0 .. 511 /\ Cell(first + k) = CellOf(first, k) /\ CellOf(first, k)[2] = InBank(first + k)
<1>1. CASE page < 32
  <2>1. first \in 0 .. 248
    BY <1>1
  <2>2. first + k \in 0 .. 255
    BY <2>1
  <2>3. first % 256 = first /\ (first + k) % 256 = first + k /\ ~(first > 255) /\ ~(first + k > 255)
    BY <2>1, <2>2
  <2>4. first + k \in 0 .. 511
    BY <2>2
  <2> QED BY <2>3, <2>4 DEF Cell, Bank, CellOf, InBank
<1>2. CASE ~(page < 32)
  <2>1. first \in 256 .. 504
    BY <1>2
  <2>2. first + k \in 256 .. 511
    BY <2>1
  <2>3. first % 256 = first - 256
    BY <2>1
  <2>4. (first + k) % 256 = first + k - 256
    <3> DEFINE z == first + k
    <3>1. z \in 256 .. 511
      BY <2>2
    <3> HIDE DEF z
    <3>2. z % 256 = z - 256
      BY <3>1
    <3> QED BY <3>2 DEF z
  <2>5. first + k - 256 = (first - 256) + k /\ first > 255 /\ first + k > 255
    BY <2>1, <2>2
  <2>6. first + k \in 0 .. 511
    BY <2>2
  <2> QED BY <2>3, <2>4, <2>5, <2>6 DEF Cell, Bank, CellOf, InBank
<1> QED BY <1>1, <1>2

LEMMA DS1388Steps ==
  ASSUME device = "DS1388", Next
  PROVE  \/ \E dt \in Dates : Adjust(dt)
         \/ \E pos \in Nat, c \in Data : EEPROMWrite(pos, c)
         \/ \E page \in Nat, c \in Data : EEPROMWritePage(page, c)
         \/ ResetWatchdogTimer(60, 0)
         \/ Transfer \/ Crash \/ PowerFails \/ Tick
<1>1. ~SetSqwOutLevel /\ ~SetSqwOutSignal
  BY DEF SetSqwOutLevel, SetSqwOutSignal, SetSqwOut, Ready
<1>2. \A a, data : ~WriteRam(a, data)
  BY DEF WriteRam, Ready
<1>3. ~Compile /\ \A step : ~Compute(step)
  BY DEF Compile, Compute
<1>4. \A dt : ~AdjustMillis(dt)
  BY DEF AdjustMillis
<1>5. ~Pass
  BY DEF Pass
<1>6. \A s : ~SetIRQ(s) /\ ~SetCharger(s) /\ ~SetIRQLevel(s) /\ ~SetCalibration(s)
  BY DEF SetIRQ, SetCharger, SetIRQLevel, SetCalibration, Change, Ready
<1>7. Positions \subseteq Nat /\ Pages \subseteq Nat
  BY RtcAssumption
<1> QED BY <1>1, <1>2, <1>3, <1>4, <1>5, <1>6, <1>7 DEF Next, Sketch

LEMMA EepromSame == ASSUME EepromInv, eeprom' = eeprom, memory' = memory PROVE EepromInv'
<1>1. \A p : Cell(p)' = Cell(p)
  BY DEF Cell, Bank
<1> QED BY <1>1 DEF EepromInv

LEMMA EepromWritten ==
  ASSUME device = "DS1388", EepromInv, NEW pos \in Nat, NEW c, EEPROMWrite(pos, c)
  PROVE  EepromInv'
<1>1. CASE pos >= 512
  <2>1. eeprom' = eeprom /\ memory' = memory
    BY <1>1 DEF EEPROMWrite
  <2> QED BY <2>1, EepromSame
<1>2. CASE ~(pos >= 512)
  <2> DEFINE new == [x \in {Cell(pos)} |-> c]
             stored == [x \in {pos} |-> c]
  <2>1. pos \in 0 .. 511
    BY <1>2
  <2>2. eeprom' = Over(new, eeprom) /\ memory' = Over(stored, memory)
    BY <1>2 DEF EEPROMWrite
  <2>3. DOMAIN new = {Cell(pos)} /\ new[Cell(pos)] = c /\ DOMAIN stored = {pos} /\ stored[pos] = c
    OBVIOUS
  <2> HIDE DEF new, stored
  <2>4. /\ DOMAIN eeprom' = {Cell(pos)} \union DOMAIN eeprom /\ eeprom'[Cell(pos)] = c
        /\ \A x \in DOMAIN eeprom : x # Cell(pos) => eeprom'[x] = eeprom[x]
    BY <2>2, <2>3 DEF Over
  <2>5. /\ DOMAIN memory' = {pos} \union DOMAIN memory /\ memory'[pos] = c
        /\ \A p \in DOMAIN memory : p # pos => memory'[p] = memory[p]
    BY <2>2, <2>3 DEF Over
  <2>6. ASSUME NEW p \in DOMAIN memory'
        PROVE  p \in 0 .. 511 /\ Cell(p) \in DOMAIN eeprom' /\ eeprom'[Cell(p)] = memory'[p]
    <3>1. CASE p = pos
      BY <2>1, <2>4, <2>5, <3>1
    <3>2. CASE p # pos
      <4>1. p \in DOMAIN memory /\ p \in 0 .. 511 /\ Cell(p) \in DOMAIN eeprom /\ eeprom[Cell(p)] = memory[p]
        BY <2>5, <3>2 DEF EepromInv
      <4>2. Cell(p) # Cell(pos)
        BY <2>1, <3>2, <4>1, CellsDiffer
      <4> QED BY <2>4, <2>5, <3>2, <4>1, <4>2
    <3> QED BY <3>1, <3>2
  <2>7. \A p : Cell(p)' = Cell(p)
    BY DEF Cell, Bank
  <2> QED BY <2>6, <2>7 DEF EepromInv
<1> QED BY <1>1, <1>2

LEMMA EepromPageWritten ==
  ASSUME device = "DS1388", EepromInv, NEW page \in Nat, NEW c, EEPROMWritePage(page, c)
  PROVE  EepromInv'
<1>1. CASE page >= 64
  <2>1. eeprom' = eeprom /\ memory' = memory
    BY <1>1 DEF EEPROMWritePage
  <2> QED BY <2>1, EepromSame
<1>2. CASE ~(page >= 64)
  <2> DEFINE first == page * 8
             cells == [k \in 0 .. 7 |-> <<Bank(first), (first % 256) + k>>]
             C == {cells[k] : k \in 0 .. 7}
             new == [x \in C |-> (c + x[2]) % 256]
             stored == [pos \in first .. first + 7 |-> (c + (pos % 256)) % 256]
  <2>1. page \in 0 .. 63
    BY <1>2
  <2>2. first \in Int
    BY <1>2
  <2>3. first = page * 8
    OBVIOUS
  <2>4. eeprom' = Over(new, eeprom) /\ memory' = Over(stored, memory)
    BY <1>2 DEF EEPROMWritePage
  <2>5. \A k \in 0 .. 7 : /\ first + k \in 0 .. 511 /\ cells[k] = Cell(first + k)
                          /\ Cell(first + k)[2] = (first + k) % 256 /\ Cell(first + k) \in C
    <3>1. \A k \in 0 .. 7 : cells[k] = CellOf(first, k)
      BY DEF CellOf
    <3>2. \A k \in 0 .. 7 : cells[k] \in C
      OBVIOUS
    <3> HIDE DEF first, cells, C, new, stored
    <3>3. ASSUME NEW k \in 0 .. 7
          PROVE  first + k \in 0 .. 511 /\ Cell(first + k) = CellOf(first, k) /\ CellOf(first, k)[2] = InBank(first + k)
      BY <2>1, <2>3, PageIs, ZenonT(60)
    <3>4. \A k \in 0 .. 7 : CellOf(first, k)[2] = (first + k) % 256
      BY <3>3 DEF InBank
    <3>5. ASSUME NEW k \in 0 .. 7
          PROVE  /\ first + k \in 0 .. 511 /\ cells[k] = Cell(first + k)
                 /\ Cell(first + k)[2] = (first + k) % 256 /\ Cell(first + k) \in C
      BY <3>1, <3>2, <3>3, <3>4
    <3> QED BY <3>5
  <2>6. DOMAIN new = C /\ \A x \in C : new[x] = (c + x[2]) % 256
    OBVIOUS
  <2>7. DOMAIN stored = first .. first + 7 /\ \A pos \in first .. first + 7 : stored[pos] = (c + (pos % 256)) % 256
    OBVIOUS
  <2>8. \A pos \in first .. first + 7 : \E k \in 0 .. 7 : pos = first + k
    <3>1. \A f, p \in Int : p \in f .. f + 7 => p - f \in 0 .. 7 /\ p = f + (p - f)
      OBVIOUS
    <3>2. \A pos \in first .. first + 7 : pos \in Int
      BY <2>2
    <3> HIDE DEF first
    <3> QED BY <2>2, <3>1, <3>2
  <2>9. ASSUME NEW x \in C PROVE \E k \in 0 .. 7 : x = Cell(first + k) /\ first + k \in first .. first + 7
    <3>1. PICK k \in 0 .. 7 : x = cells[k]
      OBVIOUS
    <3>2. first + k \in first .. first + 7
      BY <2>2
    <3> QED BY <2>5, <3>1, <3>2
  <2> HIDE DEF first, cells, C, new, stored
  <2>10. /\ DOMAIN eeprom' = C \union DOMAIN eeprom
         /\ \A x \in C : eeprom'[x] = (c + x[2]) % 256
         /\ \A x \in DOMAIN eeprom : x \notin C => eeprom'[x] = eeprom[x]
    BY <2>4, <2>6 DEF Over
  <2>11. /\ DOMAIN memory' = (first .. first + 7) \union DOMAIN memory
         /\ \A pos \in first .. first + 7 : memory'[pos] = (c + (pos % 256)) % 256
         /\ \A pos \in DOMAIN memory : pos \notin first .. first + 7 => memory'[pos] = memory[pos]
    BY <2>4, <2>7 DEF Over
  <2>12. ASSUME NEW p \in DOMAIN memory'
         PROVE  p \in 0 .. 511 /\ Cell(p) \in DOMAIN eeprom' /\ eeprom'[Cell(p)] = memory'[p]
    <3>1. CASE p \in first .. first + 7
      <4>1. PICK k \in 0 .. 7 : p = first + k
        BY <2>8, <3>1
      <4>2. p \in 0 .. 511 /\ Cell(p) \in C /\ Cell(p)[2] = p % 256
        BY <2>5, <4>1
      <4> QED BY <2>10, <2>11, <3>1, <4>2
    <3>2. CASE p \notin first .. first + 7
      <4>1. p \in DOMAIN memory /\ p \in 0 .. 511 /\ Cell(p) \in DOMAIN eeprom /\ eeprom[Cell(p)] = memory[p]
        BY <2>11, <3>2 DEF EepromInv
      <4>2. ASSUME Cell(p) \in C PROVE FALSE
        <5>1. PICK k \in 0 .. 7 : Cell(p) = Cell(first + k) /\ first + k \in first .. first + 7
          BY <2>9, <4>2
        <5>2. first + k \in 0 .. 511 /\ p # first + k
          BY <2>5, <3>2, <5>1
        <5> QED BY <4>1, <5>1, <5>2, CellsDiffer
      <4> QED BY <2>10, <2>11, <3>2, <4>1, <4>2
    <3> QED BY <3>1, <3>2
  <2>13. \A p : Cell(p)' = Cell(p)
    BY DEF Cell, Bank
  <2> QED BY <2>12, <2>13 DEF EepromInv
<1> QED BY <1>1, <1>2

LEMMA TimeWatchdog ==
  ASSUME device = "DS1388", TimeInv, ResetWatchdogTimer(60, 0)
  PROVE  TimeInv'
<1> DEFINE t == W(11, <<0, 0>>) u == W(8, <<bin2bcd(0), bin2bcd(60)>>) w == W(12, <<3>>)
<1>1. /\ device' = device /\ value' = value /\ regs' = regs /\ kept' = kept /\ real' = real /\ fed' = ~kept
      /\ todo' = <<t, u, w>>
  BY DEF ResetWatchdogTimer, sketch, chip
<1>2. bin2bcd(0) \in Int /\ bin2bcd(60) \in Int
  BY DEF bin2bcd
<1>3. t \in Transactions /\ t.at = 11 /\ Len(t.octets) = 2
  BY DEF W, Transactions
<1>4. u \in Transactions /\ u.at = 8 /\ Len(u.octets) = 2
  BY <1>2 DEF W, Transactions
<1>5. w \in Transactions /\ w.at = 12 /\ Len(w.octets) = 1
  BY DEF W, Transactions
<1> HIDE DEF t, u, w
<1>6. Places' = {1, 2, 3, 5, 6, 7} /\ FlagAt[device'] = 11 /\ device \in Chips
  <2>1. Places = {Place("ss"), Place("mm"), Place("hh"), Place("d"), Place("m"), Place("yOff")} /\ device \in Chips
    BY PlacesAre, DS1388At
  <2>2. Places' = Places
    BY <1>1 DEF Places, Place
  <2> QED BY <1>1, <2>1, <2>2, DS1388At
<1>7. ASSUME NEW x \in Transactions, x.at >= 8 PROVE Aside(x)'
  <2>1. x.at \in Int /\ Len(x.octets) \in Int /\ x.at # 0
    BY <1>7 DEF Transactions
  <2>2. \A r \in Reached(x) : r >= 8 /\ r \in Int
    BY <1>7, <2>1 DEF Reached
  <2>3. Reached(x) \cap {1, 2, 3, 5, 6, 7} = {}
    BY <2>2
  <2> QED BY <1>1, <1>6, <2>1, <2>3 DEF Aside
<1>8. Aside(t)' /\ Aside(u)' /\ Aside(w)'
  BY <1>3, <1>4, <1>5, <1>7
<1>9. <<t, u, w>> \in Seq(Transactions) /\ \A i \in 1 .. Len(<<t, u, w>>) : <<t, u, w>>[i] \in {t, u, w}
  BY <1>3, <1>4, <1>5
<1>10. AllAside'
  BY <1>1, <1>8, <1>9 DEF AllAside
<1> QED BY <1>1, <1>6, <1>10, TimeOperation

LEMMA DS1388Step ==
  ASSUME device = "DS1388", TimeInv, EepromInv, Next
  PROVE  device' = device /\ TimeInv' /\ EepromInv'
<1>1. device \in Chips
  BY DS1388At
<1>2. eeprom' = eeprom /\ memory' = memory => EepromInv'
  BY EepromSame
<1>3. ASSUME NEW dt \in Dates, Adjust(dt) PROVE device' = device /\ TimeInv' /\ EepromInv'
  <2>1. device' = device /\ eeprom' = eeprom /\ memory' = memory
    BY <1>3 DEF Adjust, chip
  <2> QED BY <1>1, <1>2, <1>3, <2>1, TimeAdjust
<1>4. ASSUME NEW pos \in Nat, NEW c \in Data, EEPROMWrite(pos, c) PROVE device' = device /\ TimeInv' /\ EepromInv'
  <2>1. device' = device /\ value' = value /\ regs' = regs /\ kept' = kept /\ real' = real /\ fed' = fed /\ todo' = <<>>
    BY <1>4 DEF EEPROMWrite, Ready
  <2> QED BY <1>1, <1>4, <2>1, TimeIdle, EepromWritten
<1>5. ASSUME NEW page \in Nat, NEW c \in Data, EEPROMWritePage(page, c) PROVE device' = device /\ TimeInv' /\ EepromInv'
  <2>1. device' = device /\ value' = value /\ regs' = regs /\ kept' = kept /\ real' = real /\ fed' = fed /\ todo' = <<>>
    BY <1>5 DEF EEPROMWritePage, Ready
  <2> QED BY <1>1, <1>5, <2>1, TimeIdle, EepromPageWritten
<1>6. CASE ResetWatchdogTimer(60, 0)
  <2>1. device' = device /\ eeprom' = eeprom /\ memory' = memory
    BY <1>6 DEF ResetWatchdogTimer, sketch, chip
  <2> QED BY <1>2, <1>6, <2>1, TimeWatchdog
<1>7. CASE Transfer
  <2>1. device' = device /\ eeprom' = eeprom /\ memory' = memory
    BY <1>7 DEF Transfer, sketch
  <2>2. TimeInv'
    BY <1>1, <1>7, TimeWritten, TimeAside DEF TimeInv
  <2> QED BY <1>2, <2>1, <2>2
<1>8. CASE Crash
  <2>1. /\ device' = device /\ value' = value /\ regs' = regs /\ kept' = kept /\ real' = real /\ fed' = fed /\ todo' = <<>>
        /\ eeprom' = eeprom /\ memory' = memory
    BY <1>8 DEF Crash, chip
  <2> QED BY <1>1, <1>2, <2>1, TimeIdle
<1>9. CASE PowerFails
  <2>1. device' = device /\ eeprom' = eeprom /\ memory' = memory
    BY <1>9 DEF PowerFails
  <2> QED BY <1>1, <1>2, <1>9, <2>1, TimePowerFails
<1>10. CASE Tick
  <2>1. device' = device /\ eeprom' = eeprom /\ memory' = memory
    BY <1>10 DEF Tick, sketch
  <2> QED BY <1>1, <1>2, <1>10, <2>1, TimeTick
<1> QED BY <1>3, <1>4, <1>5, <1>6, <1>7, <1>8, <1>9, <1>10, DS1388Steps

-------------------------------------------------------------------------------
(* The PCF8563 only has the time.                                          *)
LEMMA PCF8563Step ==
  ASSUME device = "PCF8563", TimeInv, Next
  PROVE  device' = device /\ TimeInv'
<1>1. device \in Chips
  BY PCF8563At
<1>2. (\E dt \in Dates : Adjust(dt)) \/ Transfer \/ Crash \/ PowerFails \/ Tick
  <2>1. ~SetSqwOutLevel /\ ~SetSqwOutSignal
    BY DEF SetSqwOutLevel, SetSqwOutSignal, SetSqwOut, Ready
  <2>2. \A a, data : ~WriteRam(a, data)
    BY DEF WriteRam, Ready
  <2>3. ~Compile /\ \A step : ~Compute(step)
    BY DEF Compile, Compute
  <2>4. \A dt : ~AdjustMillis(dt)
    BY DEF AdjustMillis
  <2>5. ~Pass
    BY DEF Pass
  <2>6. (\A p, x : ~EEPROMWrite(p, x) /\ ~EEPROMWritePage(p, x)) /\ \A s, h : ~ResetWatchdogTimer(s, h)
    BY DEF EEPROMWrite, EEPROMWritePage, ResetWatchdogTimer, Ready
  <2>7. \A s : ~SetIRQ(s) /\ ~SetCharger(s) /\ ~SetIRQLevel(s) /\ ~SetCalibration(s)
    BY DEF SetIRQ, SetCharger, SetIRQLevel, SetCalibration, Change, Ready
  <2> QED BY <2>1, <2>2, <2>3, <2>4, <2>5, <2>6, <2>7 DEF Next, Sketch
<1>3. ASSUME NEW dt \in Dates, Adjust(dt) PROVE device' = device /\ TimeInv'
  <2>1. device' = device
    BY <1>3 DEF Adjust
  <2> QED BY <1>1, <1>3, <2>1, TimeAdjust
<1>4. CASE Transfer
  <2>1. device' = device
    BY <1>4 DEF Transfer
  <2> QED BY <1>1, <1>4, <2>1, TimeWritten, TimeAside DEF TimeInv
<1>5. CASE Crash
  <2>1. device' = device /\ value' = value /\ regs' = regs /\ kept' = kept /\ real' = real /\ fed' = fed /\ todo' = <<>>
    BY <1>5 DEF Crash, chip
  <2> QED BY <1>1, <2>1, TimeIdle
<1>6. CASE PowerFails
  <2>1. device' = device
    BY <1>6 DEF PowerFails
  <2> QED BY <1>1, <1>6, <2>1, TimePowerFails
<1>7. CASE Tick
  <2>1. device' = device
    BY <1>7 DEF Tick
  <2> QED BY <1>1, <1>7, <2>1, TimeTick
<1> QED BY <1>2, <1>3, <1>4, <1>5, <1>6, <1>7
-------------------------------------------------------------------------------
(* The BQ32000: its settings are the bits of an octet.                     *)
LEMMA BQ32000Steps ==
  ASSUME device = "BQ32000", Next
  PROVE  \/ \E dt \in Dates : Adjust(dt)
         \/ \E state \in 0 .. 2 : SetIRQ(state) \/ SetCharger(state)
         \/ \E level \in 0 .. 1 : SetIRQLevel(level)
         \/ \E v \in Calibrations : SetCalibration(v)
         \/ Transfer \/ Crash \/ PowerFails \/ Tick
<1>1. ~SetSqwOutLevel /\ ~SetSqwOutSignal
  BY DEF SetSqwOutLevel, SetSqwOutSignal, SetSqwOut, Ready
<1>2. \A a, data : ~WriteRam(a, data)
  BY DEF WriteRam, Ready
<1>3. ~Compile /\ \A step : ~Compute(step)
  BY DEF Compile, Compute
<1>4. \A dt : ~AdjustMillis(dt)
  BY DEF AdjustMillis
<1>5. ~Pass
  BY DEF Pass
<1>6. (\A p, x : ~EEPROMWrite(p, x) /\ ~EEPROMWritePage(p, x)) /\ \A s, h : ~ResetWatchdogTimer(s, h)
  BY DEF EEPROMWrite, EEPROMWritePage, ResetWatchdogTimer, Ready
<1> QED BY <1>1, <1>2, <1>3, <1>4, <1>5, <1>6 DEF Next, Sketch

LEMMA TwoOf == ASSUME NEW t, NEW u PROVE <<t>> \o <<u>> = <<t, u>>
<1> DEFINE S == {t, u}
           s == <<t>> \o <<u>>
<1>1. <<t>> \in Seq(S) /\ <<u>> \in Seq(S) /\ <<t, u>> \in Seq(S)
  OBVIOUS
<1>2. s \in Seq(S) /\ Len(s) = 2 /\ s[1] = t /\ s[2] = u
  BY <1>1
<1> HIDE DEF s
<1>3. \A i \in 1 .. Len(s) : s[i] = <<t, u>>[i]
  BY <1>2
<1> HIDE DEF S
<1>4. s = <<t, u>>
  BY <1>1, <1>2, <1>3, SeqEqual
<1> QED BY <1>4 DEF s

LEMMA ThreeOf == ASSUME NEW t, NEW u, NEW w PROVE <<t>> \o <<u, w>> = <<t, u, w>>
<1> DEFINE S == {t, u, w}
           s == <<t>> \o <<u, w>>
<1>1. <<t>> \in Seq(S) /\ <<u, w>> \in Seq(S) /\ <<t, u, w>> \in Seq(S)
  OBVIOUS
<1>2. s \in Seq(S) /\ Len(s) = 3 /\ s[1] = t /\ s[2] = u /\ s[3] = w
  BY <1>1
<1> HIDE DEF s
<1>3. \A i \in 1 .. Len(s) : s[i] = <<t, u, w>>[i]
  BY <1>2
<1> HIDE DEF S
<1>4. s = <<t, u, w>>
  BY <1>1, <1>2, <1>3, SeqEqual
<1> QED BY <1>4 DEF s

LEMMA ShortSequences ==
  /\ \A t : Head(<<t>>) = t /\ Tail(<<t>>) = <<>> /\ <<t>> # <<>>
  /\ \A t, u : Head(<<t, u>>) = t /\ Tail(<<t, u>>) = <<u>> /\ <<t, u>> # <<>>
  /\ \A t, u, w : Head(<<t, u, w>>) = t /\ Tail(<<t, u, w>>) = <<u, w>> /\ <<t, u, w>> # <<>>
  /\ \A t : <<>> \o <<t>> = <<t>> /\ <<t>> \o <<>> = <<t>>
<1>1. \A t : <<>> \o <<t>> = <<t>>
  OBVIOUS
<1>2. \A t : <<t>> \o <<>> = <<t>>
  OBVIOUS
<1>3. \A t, u : Head(<<t, u>>) = t /\ Tail(<<t, u>>) = <<u>> /\ <<t, u>> # <<>>
  OBVIOUS
<1>4. \A t, u, w : Head(<<t, u, w>>) = t /\ Tail(<<t, u, w>>) = <<u, w>> /\ <<t, u, w>> # <<>>
  OBVIOUS
<1> QED BY <1>1, <1>2, <1>3, <1>4

LEMMA TodoTyped ==
  ASSUME device \in Chips, TimeInv
  PROVE  todo \in Seq(Transactions) /\ (todo # <<>> => Head(todo) \in Transactions)
<1>1. todo \in Seq(Transactions)
  BY AdjustingIs DEF TimeInv, AllAside
<1> QED BY <1>1

LEMMA Registers7To9 ==
  ASSUME device = "BQ32000", TimeInv
  PROVE  /\ CFG1 \in DOMAIN regs /\ TCH2 \in DOMAIN regs /\ CFG2 \in DOMAIN regs
         /\ CFG1 = 7 /\ TCH2 = 8 /\ CFG2 = 9 /\ device \in Chips /\ Places = {0, 1, 2, 4, 5, 6}
<1>1. DOMAIN regs = (0 .. 9) \union {32, 33, 34} /\ device \in Chips
  BY BQ32000At DEF TimeInv
<1>2. Places = {0, 1, 2, 4, 5, 6}
  BY <1>1, PlacesAre, BQ32000At
<1> QED BY <1>1, <1>2 DEF CFG1, TCH2, CFG2

LEMMA AsWantedIs ==
  ASSUME OutputInv, todo = <<>>
  PROVE  AsWanted(regs[CFG1])
BY ShortSequences DEF OutputInv

(* A new value of one setting keeps the others.                            *)
LEMMA SettingsOf ==
  ASSUME NEW v, AsWanted(v)
  PROVE  \E a, b, c \in {0, 1} : \E r \in 0 .. 31 :
           /\ Octet(v, a, b, c, r)
           /\ wanted.out = a /\ wanted.ft = b /\ wanted.cal = Signed(c, r)
<1>1. v \in 0 .. 255
  BY DEF AsWanted
<1>2. PICK a, b, c \in {0, 1} : \E r \in 0 .. 31 : Octet(v, a, b, c, r)
  BY <1>1, BitsOf
<1>3. PICK r \in 0 .. 31 : Octet(v, a, b, c, r)
  BY <1>2
<1>4. Settings(v).out = a /\ Settings(v).ft = b /\ Settings(v).cal = Signed(c, r)
  BY <1>3, SettingsAre
<1>5. wanted.out = Settings(v).out /\ wanted.ft = Settings(v).ft /\ wanted.cal = Settings(v).cal
  BY DEF AsWanted
<1> QED BY <1>3, <1>4, <1>5

LEMMA AsWantedNew ==
  ASSUME NEW a \in {0, 1}, NEW b \in {0, 1}, NEW c \in {0, 1}, NEW r \in 0 .. 31, NEW v, Octet(v, a, b, c, r),
         wanted'.out = a, wanted'.ft = b, wanted'.cal = Signed(c, r)
  PROVE  AsWanted(v)'
<1>1. v \in 0 .. 255 /\ Settings(v).out = a /\ Settings(v).ft = b /\ Settings(v).cal = Signed(c, r)
  BY SettingsAre
<1>2. \A f \in {"out", "ft", "cal"} : Settings(v)[f] = wanted'[f]
  BY <1>1
<1> QED BY <1>1, <1>2 DEF AsWanted, Settings, Bit, Low

(* An operation that writes CAL_CFG1.                                      *)
LEMMA OutputWritten ==
  ASSUME device = "BQ32000", TimeInv, OutputInv, UNCHANGED <<device, value, regs, kept, real, fed>>,
         NEW f \in {"out", "ft", "cal"}, NEW x, wanted' = [wanted EXCEPT ![f] = x],
         NEW v \in Int, AsWanted(v)',
         \/ todo' = <<W(CFG1, <<v>>)>>
         \/ \E y \in {0, 1} : todo' = <<W(32, <<94, 199, y>>), W(CFG1, <<v>>)>>
  PROVE  TimeInv' /\ OutputInv' /\ ChargerInv'
<1> DEFINE t == W(CFG1, <<v>>)
           u(y) == W(32, <<94, 199, y>>)
<1>1. t \in Later /\ Off(t) /\ t \in Transactions
  <2>1. t \in Later /\ Reached(t) = {7}
    BY LaterOctet, OneOctet DEF CFG1
  <2> QED BY <2>1 DEF Off, TCH2, CFG2, Later
<1>2. \A y \in {0, 1} : u(y) \in Later /\ Off(u(y)) /\ Elsewhere(u(y)) /\ u(y) \in Transactions
  <2> TAKE y \in {0, 1}
  <2>1. u(y).at = 32 /\ Len(u(y).octets) = 3 /\ u(y) \in Transactions
    BY DEF W, Transactions
  <2> HIDE DEF u
  <2>2. Reached(u(y)) = 32 .. 34
    BY <2>1 DEF Reached
  <2> QED BY <2>1, <2>2 DEF Off, Elsewhere, CFG1, TCH2, CFG2, Later
<1>3. DOMAIN wanted' = {"out", "ft", "cal", "charge"} /\ regs'[CFG1] \in 0 .. 255
  BY DEF OutputInv
<1> HIDE DEF t, u
<1>4. CASE todo' = <<t>>
  <2>1. todo' \in Seq(Later) /\ todo' \in Seq(Transactions) /\ \A i \in 1 .. Len(todo') : todo'[i] = t
    BY <1>1, <1>4
  <2>2. ChargerInv'
    BY <1>1, <2>1 DEF ChargerInv, Off, Reached, TCH2, CFG2
  <2>3. OutputInv'
    BY <1>3, <1>4 DEF OutputInv, t
  <2>4. TimeInv'
    BY <2>1, TimeLater
  <2> QED BY <2>2, <2>3, <2>4
<1>5. ASSUME NEW y \in {0, 1}, todo' = <<u(y), t>> PROVE TimeInv' /\ OutputInv' /\ ChargerInv'
  <2>1. todo' \in Seq(Later) /\ todo' \in Seq(Transactions) /\ \A i \in 1 .. Len(todo') : todo'[i] \in {u(y), t}
    BY <1>1, <1>2, <1>5
  <2>2. ChargerInv'
    BY <1>1, <1>2, <2>1 DEF ChargerInv, Off, Reached, TCH2, CFG2
  <2>3. OutputInv'
    BY <1>2, <1>3, <1>5 DEF OutputInv, t, Elsewhere, Reached, CFG1
  <2>4. TimeInv'
    BY <2>1, TimeLater
  <2> QED BY <2>2, <2>3, <2>4
<1> QED BY <1>4, <1>5 DEF t, u

LEMMA SetIRQStep ==
  ASSUME device = "BQ32000", TimeInv, OutputInv, NEW state \in 0 .. 2, SetIRQ(state)
  PROVE  device' = device /\ TimeInv' /\ OutputInv' /\ ChargerInv'
<1> DEFINE x == IF state = 0 THEN 0 ELSE 1
           y == IF state = 1 THEN 1 ELSE 0
           v == regs[CFG1] - 64 * Bit(regs[CFG1], 6) + (IF state = 0 THEN 0 ELSE 64)
<1>1. /\ device' = device /\ value' = value /\ regs' = regs /\ kept' = kept /\ real' = real /\ fed' = fed /\ todo = <<>>
      /\ wanted' = [wanted EXCEPT !.ft = x]
      /\ todo' = (IF state = 0 THEN <<>> ELSE <<W(32, <<94, 199, y>>)>>) \o <<W(CFG1, <<v>>)>>
  BY DEF SetIRQ, Change, Ready, chip
<1>2. PICK a, b, c \in {0, 1} : \E r \in 0 .. 31 :
        /\ Octet(regs[CFG1], a, b, c, r)
        /\ wanted.out = a /\ wanted.ft = b /\ wanted.cal = Signed(c, r)
  BY <1>1, AsWantedIs, SettingsOf
<1>3. PICK r \in 0 .. 31 :
        /\ Octet(regs[CFG1], a, b, c, r)
        /\ wanted.out = a /\ wanted.ft = b /\ wanted.cal = Signed(c, r)
  BY <1>2
<1>4. Bit(regs[CFG1], 6) = b
  BY <1>3, BitsAre
<1>5. Octet(v, a, x, c, r) /\ v \in Int /\ x \in {0, 1} /\ y \in {0, 1}
  BY <1>3, <1>4 DEF Octet
<1>6. wanted'.out = a /\ wanted'.ft = x /\ wanted'.cal = Signed(c, r)
  BY <1>1, <1>3 DEF OutputInv
<1>7. todo' = <<W(CFG1, <<v>>)>> \/ todo' = <<W(32, <<94, 199, y>>), W(CFG1, <<v>>)>>
  <2>1. CASE state = 0
    <3>1. todo' = <<>> \o <<W(CFG1, <<v>>)>>
      BY <1>1, <2>1
    <3> QED BY <3>1, ShortSequences
  <2>2. CASE state # 0
    <3>1. todo' = <<W(32, <<94, 199, y>>)>> \o <<W(CFG1, <<v>>)>>
      BY <1>1, <2>2
    <3> QED BY <3>1, TwoOf
  <2> QED BY <2>1, <2>2
<1> HIDE DEF v, x, y
<1>8. PICK n \in Int : n = v
  BY <1>5
<1>9. AsWanted(n)'
  BY <1>5, <1>6, <1>8, AsWantedNew
<1>10. todo' = <<W(CFG1, <<n>>)>> \/ \E z \in {0, 1} : todo' = <<W(32, <<94, 199, z>>), W(CFG1, <<n>>)>>
  BY <1>5, <1>7, <1>8
<1> QED BY <1>1, <1>9, <1>10, OutputWritten

LEMMA SetIRQLevelStep ==
  ASSUME device = "BQ32000", TimeInv, OutputInv, NEW level \in 0 .. 1, SetIRQLevel(level)
  PROVE  device' = device /\ TimeInv' /\ OutputInv' /\ ChargerInv'
<1> DEFINE v == Low(regs[CFG1], 7) + 128 * level
<1>1. /\ device' = device /\ value' = value /\ regs' = regs /\ kept' = kept /\ real' = real /\ fed' = fed /\ todo = <<>>
      /\ wanted' = [wanted EXCEPT !.out = level] /\ todo' = <<W(CFG1, <<v>>)>>
  BY DEF SetIRQLevel, Change, Ready, chip
<1>2. PICK a, b, c \in {0, 1} : \E r \in 0 .. 31 :
        /\ Octet(regs[CFG1], a, b, c, r)
        /\ wanted.out = a /\ wanted.ft = b /\ wanted.cal = Signed(c, r)
  BY <1>1, AsWantedIs, SettingsOf
<1>3. PICK r \in 0 .. 31 :
        /\ Octet(regs[CFG1], a, b, c, r)
        /\ wanted.out = a /\ wanted.ft = b /\ wanted.cal = Signed(c, r)
  BY <1>2
<1>4. Low(regs[CFG1], 7) = 64 * b + 32 * c + r
  BY <1>3, BitsAre
<1>5. Octet(v, level, b, c, r) /\ v \in Int /\ level \in {0, 1}
  BY <1>4 DEF Octet
<1>6. wanted'.out = level /\ wanted'.ft = b /\ wanted'.cal = Signed(c, r)
  BY <1>1, <1>3 DEF OutputInv
<1> HIDE DEF v
<1>7. PICK n \in Int : n = v
  BY <1>5
<1>8. AsWanted(n)'
  BY <1>5, <1>6, <1>7, AsWantedNew
<1>9. todo' = <<W(CFG1, <<n>>)>>
  BY <1>1, <1>7
<1> QED BY <1>1, <1>8, <1>9, OutputWritten

LEMMA SetCalibrationStep ==
  ASSUME device = "BQ32000", TimeInv, OutputInv, NEW cal \in Calibrations, SetCalibration(cal)
  PROVE  device' = device /\ TimeInv' /\ OutputInv' /\ ChargerInv'
<1> DEFINE k == Clamped(cal)
           v == Above(regs[CFG1]) + (IF k < 0 THEN 32 - k ELSE k)
<1>1. /\ device' = device /\ value' = value /\ regs' = regs /\ kept' = kept /\ real' = real /\ fed' = fed /\ todo = <<>>
      /\ wanted' = [wanted EXCEPT !.cal = k] /\ todo' = <<W(CFG1, <<v>>)>>
  BY DEF SetCalibration, Calibrating, Calibrated, Change, Ready, chip
<1>2. k \in -31 .. 31
  <2>1. cal \in Int
    BY RtcAssumption
  <2> QED BY <2>1 DEF Clamped
<1> HIDE DEF k
<1>3. PICK a, b, c \in {0, 1} : \E r \in 0 .. 31 :
        /\ Octet(regs[CFG1], a, b, c, r)
        /\ wanted.out = a /\ wanted.ft = b /\ wanted.cal = Signed(c, r)
  BY <1>1, AsWantedIs, SettingsOf
<1>4. PICK r \in 0 .. 31 :
        /\ Octet(regs[CFG1], a, b, c, r)
        /\ wanted.out = a /\ wanted.ft = b /\ wanted.cal = Signed(c, r)
  BY <1>3
<1>5. Above(regs[CFG1]) = 128 * a + 64 * b
  <2>1. Low(regs[CFG1], 6) = 32 * c + r
    BY <1>4, BitsAre
  <2> QED BY <1>4, <2>1 DEF Above, Octet
<1>6. PICK e \in {0, 1}, s \in 0 .. 31 : Octet(v, a, b, e, s) /\ k = Signed(e, s) /\ v \in Int
  <2>1. CASE k < 0
    <3>1. v = 128 * a + 64 * b + 32 * 1 + (-k) /\ -k \in 0 .. 31
      BY <1>2, <1>5, <2>1
    <3>2. k = Signed(1, -k)
      BY <1>2 DEF Signed
    <3>3. Octet(v, a, b, 1, -k) /\ v \in Int
      BY <3>1 DEF Octet
    <3> HIDE DEF v
    <3> QED BY <3>1, <3>2, <3>3
  <2>2. CASE ~(k < 0)
    <3>1. v = 128 * a + 64 * b + 32 * 0 + k /\ k \in 0 .. 31
      BY <1>2, <1>5, <2>2
    <3>2. k = Signed(0, k)
      BY <1>2 DEF Signed
    <3>3. Octet(v, a, b, 0, k) /\ v \in Int
      BY <3>1 DEF Octet
    <3> HIDE DEF v
    <3> QED BY <3>1, <3>2, <3>3
  <2> QED BY <2>1, <2>2
<1>7. wanted'.out = a /\ wanted'.ft = b /\ wanted'.cal = Signed(e, s)
  BY <1>1, <1>4, <1>6 DEF OutputInv
<1> HIDE DEF v
<1>8. PICK n \in Int : n = v
  BY <1>6
<1>9. AsWanted(n)'
  BY <1>6, <1>7, <1>8, AsWantedNew
<1>10. todo' = <<W(CFG1, <<n>>)>>
  BY <1>1, <1>8
<1> QED BY <1>1, <1>9, <1>10, OutputWritten

LEMMA SetChargerStep ==
  ASSUME device = "BQ32000", TimeInv, OutputInv, NEW state \in 0 .. 2, SetCharger(state)
  PROVE  device' = device /\ TimeInv' /\ OutputInv' /\ ChargerInv'
<1> DEFINE x == 5 + (IF state = 2 THEN 64 ELSE 0)
           t == W(TCH2, <<0>>)
           u == W(CFG2, <<x>>)
           w == W(TCH2, <<32>>)
<1>1. /\ device' = device /\ value' = value /\ regs' = regs /\ kept' = kept /\ real' = real /\ fed' = fed /\ todo = <<>>
      /\ wanted' = [wanted EXCEPT !.charge = state]
      /\ todo' = <<t>> \o (IF state \in 1 .. 2 THEN ChargerOn(state) ELSE <<>>)
  BY DEF SetCharger, Change, Ready, chip
<1>2. x \in Int
  OBVIOUS
<1>3. t \in Later /\ u \in Later /\ w \in Later /\ Elsewhere(t) /\ Elsewhere(u) /\ Elsewhere(w)
  <2>1. t \in Later /\ u \in Later /\ w \in Later
    BY <1>2, LaterOctet DEF TCH2, CFG2
  <2>2. Reached(t) = {8} /\ Reached(u) = {9} /\ Reached(w) = {8}
    BY OneOctet DEF TCH2, CFG2
  <2> QED BY <2>1, <2>2 DEF Elsewhere, CFG1
<1>4. ChargerOn(state) = <<u, w>>
  BY DEF ChargerOn
<1> HIDE DEF t, u, w, x
<1>5. /\ state \in {1, 2} => todo' = <<t, u, w>> /\ todo' \in Seq(Later)
      /\ state = 0 => todo' = <<t>> /\ todo' \in Seq(Later)
  <2>1. CASE state \in {1, 2}
    <3>1. todo' = <<t>> \o <<u, w>>
      BY <1>1, <1>4, <2>1
    <3>2. todo' = <<t, u, w>>
      BY <3>1, ThreeOf
    <3> QED BY <1>3, <2>1, <3>2
  <2>2. CASE state = 0
    <3>1. todo' = <<t>> \o <<>>
      BY <1>1, <2>2
    <3>2. todo' = <<t>>
      BY <3>1, ShortSequences
    <3> QED BY <1>3, <2>2, <3>2
  <2> QED BY <2>1, <2>2
<1>6. AsWanted(regs[CFG1])'
  <2>1. AsWanted(regs[CFG1]) /\ DOMAIN wanted = {"out", "ft", "cal", "charge"}
    BY <1>1, AsWantedIs DEF OutputInv
  <2>2. \A f \in {"out", "ft", "cal"} : wanted'[f] = wanted[f]
    BY <1>1, <2>1
  <2> QED BY <1>1, <2>1, <2>2 DEF AsWanted, Settings, Bit, Low
<1>7. DOMAIN wanted' = {"out", "ft", "cal", "charge"} /\ regs'[CFG1] \in 0 .. 255 /\ wanted'.charge = state
  BY <1>1 DEF OutputInv
<1>8. state \in {1, 2} \/ state = 0
  OBVIOUS
<1>9. OutputInv'
  BY <1>3, <1>5, <1>6, <1>7, <1>8 DEF OutputInv, Elsewhere, Reached, CFG1
<1>10. ChargerInv'
  <2>1. CASE state \in {1, 2}
    <3>1. todo' = <<t>> \o ChargerOn(wanted.charge)'
      <4>1. <<t>> \o <<u, w>> = <<t, u, w>>
        BY ThreeOf
      <4>2. ChargerOn(wanted.charge)' = ChargerOn(state)
        BY <1>7 DEF ChargerOn
      <4> QED BY <1>4, <1>5, <2>1, <4>1, <4>2
    <3> QED BY <1>7, <2>1, <3>1 DEF ChargerInv, t
  <2>2. CASE state = 0
    BY <1>5, <2>2 DEF ChargerInv, t
  <2> QED BY <1>8, <2>1, <2>2
<1>11. TimeInv'
  BY <1>1, <1>5, <1>8, TimeLater
<1> QED BY <1>1, <1>9, <1>10, <1>11

LEMMA BQ32000Adjust ==
  ASSUME device = "BQ32000", TimeInv, OutputInv, NEW dt \in Dates, Adjust(dt)
  PROVE  OutputInv' /\ ChargerInv'
<1> DEFINE o == <<bin2bcd(dt.ss), bin2bcd(dt.mm), bin2bcd(dt.hh), 0, bin2bcd(dt.d), bin2bcd(dt.m), bin2bcd(dt.yOff)>>
           t == W(0, o)
<1>1. device' = device /\ regs' = regs /\ wanted' = wanted /\ todo = <<>> /\ todo' = <<t>>
  BY DEF Adjust, Adjusting, chip
<1>2. o \in Seq(Int) /\ Len(o) = 7
  <2>1. /\ bin2bcd(dt.ss) \in Int /\ bin2bcd(dt.mm) \in Int /\ bin2bcd(dt.hh) \in Int
        /\ bin2bcd(dt.d) \in Int /\ bin2bcd(dt.m) \in Int /\ bin2bcd(dt.yOff) \in Int
    BY DatesAre DEF bin2bcd
  <2> QED BY <2>1
<1> HIDE DEF o
<1>3. t \in Transactions /\ t.at = 0 /\ t.octets = o
  BY <1>2 DEF W, Transactions
<1> HIDE DEF t
<1>4. Reached(t) = 0 .. 6
  <2>1. Len(t.octets) = 7
    BY <1>2, <1>3
  <2> QED BY <1>3, <2>1 DEF Reached
<1>5. Elsewhere(t) /\ Off(t)
  BY <1>4 DEF Elsewhere, Off, CFG1, TCH2, CFG2
<1>6. AsWanted(regs[CFG1])'
  BY <1>1, AsWantedIs DEF AsWanted, Settings, Bit, Low
<1>7. OutputInv'
  BY <1>1, <1>5, <1>6 DEF OutputInv, Elsewhere, Reached, CFG1
<1>8. todo' \in Seq(Transactions) /\ \A i \in 1 .. Len(todo') : todo'[i] = t
  BY <1>1, <1>3
<1>9. ChargerInv'
  BY <1>5, <1>8 DEF ChargerInv, Off, Reached, TCH2, CFG2
<1> QED BY <1>7, <1>9

(* A transaction of the BQ32000 is sent.                                   *)
LEMMA OutputTransfer ==
  ASSUME device = "BQ32000", TimeInv, OutputInv, Transfer
  PROVE  OutputInv'
<1>1. regs' = Written(regs, Head(todo)) /\ todo' = Tail(todo) /\ wanted' = wanted /\ todo # <<>>
  BY DEF Transfer, sketch
<1>2. CFG1 \in DOMAIN regs /\ CFG1 = 7 /\ device \in Chips
  BY Registers7To9
<1>3. Head(todo) \in Transactions
  BY <1>1, <1>2, TodoTyped
<1>4. Elsewhere(Head(todo)) => regs'[CFG1] = regs[CFG1]
  BY <1>1, <1>2, <1>3, WrittenAside DEF Elsewhere
<1>5. \A v : AsWanted(v) => AsWanted(v)'
  BY <1>1 DEF AsWanted, Settings, Bit, Low
<1>6. AsWanted(regs[CFG1]) /\ regs'[CFG1] = regs[CFG1] => AsWanted(regs[CFG1])'
  BY <1>1 DEF AsWanted, Settings, Bit, Low
<1>7. \A t : Elsewhere(t) => Elsewhere(t)'
  BY DEF Elsewhere, Reached, CFG1
<1>8. DOMAIN wanted' = {"out", "ft", "cal", "charge"}
  BY <1>1 DEF OutputInv
<1>9. CASE \E t : todo = <<t>> /\ Elsewhere(t) /\ AsWanted(regs[CFG1])
  <2>1. todo' = <<>> /\ Elsewhere(Head(todo)) /\ AsWanted(regs[CFG1])
    BY <1>1, <1>9, ShortSequences
  <2> QED BY <1>4, <1>6, <1>8, <2>1 DEF OutputInv, AsWanted
<1>10. CASE \E v : todo = <<W(CFG1, <<v>>)>> /\ AsWanted(v)
  <2>1. PICK v : todo = <<W(CFG1, <<v>>)>> /\ AsWanted(v)
    BY <1>10
  <2>2. todo' = <<>> /\ Head(todo) = W(CFG1, <<v>>)
    BY <1>1, <2>1, ShortSequences
  <2>3. regs'[CFG1] = v
    BY <1>1, <1>2, <2>2, OneOctet
  <2>4. v \in 0 .. 255
    BY <2>1 DEF AsWanted
  <2>5. AsWanted(regs[CFG1])'
    BY <1>1, <2>1, <2>3 DEF AsWanted, Settings, Bit, Low
  <2> QED BY <1>8, <2>2, <2>3, <2>4, <2>5 DEF OutputInv
<1>11. CASE \E v, t : todo = <<t, W(CFG1, <<v>>)>> /\ Elsewhere(t) /\ AsWanted(v)
  <2>1. PICK v, t : todo = <<t, W(CFG1, <<v>>)>> /\ Elsewhere(t) /\ AsWanted(v)
    BY <1>11
  <2>2. todo' = <<W(CFG1, <<v>>)>> /\ Head(todo) = t
    BY <1>1, <2>1, ShortSequences
  <2>3. regs'[CFG1] \in 0 .. 255
    BY <1>4, <2>1, <2>2 DEF OutputInv
  <2>4. AsWanted(v)'
    BY <1>5, <2>1
  <2> QED BY <1>8, <2>2, <2>3, <2>4 DEF OutputInv
<1>12. CASE \E t, u : todo = <<t, u>> /\ Elsewhere(t) /\ Elsewhere(u) /\ AsWanted(regs[CFG1])
  <2>1. PICK t, u : todo = <<t, u>> /\ Elsewhere(t) /\ Elsewhere(u) /\ AsWanted(regs[CFG1])
    BY <1>12
  <2>2. todo' = <<u>> /\ Head(todo) = t
    BY <1>1, <2>1, ShortSequences
  <2>3. regs'[CFG1] = regs[CFG1] /\ AsWanted(regs[CFG1])' /\ Elsewhere(u)'
    BY <1>4, <1>6, <1>7, <2>1, <2>2
  <2> QED BY <1>8, <2>2, <2>3 DEF OutputInv
<1>13. CASE \E t, u, w : todo = <<t, u, w>> /\ Elsewhere(t) /\ Elsewhere(u) /\ Elsewhere(w) /\ AsWanted(regs[CFG1])
  <2>1. PICK t, u, w : todo = <<t, u, w>> /\ Elsewhere(t) /\ Elsewhere(u) /\ Elsewhere(w) /\ AsWanted(regs[CFG1])
    BY <1>13
  <2>2. todo' = <<u, w>> /\ Head(todo) = t
    BY <1>1, <2>1, ShortSequences
  <2>3. regs'[CFG1] = regs[CFG1] /\ AsWanted(regs[CFG1])' /\ Elsewhere(u)' /\ Elsewhere(w)'
    BY <1>4, <1>6, <1>7, <2>1, <2>2
  <2> QED BY <1>8, <2>2, <2>3 DEF OutputInv
<1> QED BY <1>1, <1>9, <1>10, <1>11, <1>12, <1>13 DEF OutputInv

LEMMA ChargerTransfer ==
  ASSUME device = "BQ32000", TimeInv, OutputInv, ChargerInv, Transfer
  PROVE  ChargerInv' /\ (~High /\ High' => wanted.charge = 2)
<1>1. device' = device /\ regs' = Written(regs, Head(todo)) /\ todo' = Tail(todo) /\ wanted' = wanted /\ todo # <<>>
  BY DEF Transfer, sketch
<1>2. TCH2 \in DOMAIN regs /\ CFG2 \in DOMAIN regs /\ CFG1 = 7 /\ TCH2 = 8 /\ CFG2 = 9 /\ device \in Chips
  BY Registers7To9
<1>3. todo \in Seq(Transactions) /\ Head(todo) \in Transactions
  BY <1>1, <1>2, TodoTyped
<1>4. todo' \in Seq(Transactions)
  BY <1>1, <1>3
<1> DEFINE q == 5 + (IF wanted.charge = 2 THEN 64 ELSE 0)
<1>5. ChargerOn(wanted.charge) = <<W(CFG2, <<q>>), W(TCH2, <<32>>)>> /\ ChargerOn(wanted.charge)' = ChargerOn(wanted.charge)
  BY <1>1 DEF ChargerOn
<1>6. CASE \A i \in 1 .. Len(todo) : Off(todo[i])
  <2>1. \A i \in 1 .. Len(Tail(todo)) : i + 1 \in 1 .. Len(todo) /\ Tail(todo)[i] = todo[i + 1]
    BY <1>1, <1>3
  <2>2. \A i \in 1 .. Len(todo') : Off(todo'[i])
    BY <1>1, <1>6, <2>1
  <2>3. ChargerInv'
    BY <1>4, <2>2 DEF ChargerInv, Off, Reached, TCH2, CFG2
  <2>4. Off(Head(todo))
    <3>1. Len(todo) \in Nat /\ Len(todo) # 0 /\ Head(todo) = todo[1]
      BY <1>1, <1>3
    <3> QED BY <1>6, <3>1
  <2>5. regs'[TCH2] = regs[TCH2] /\ regs'[CFG2] = regs[CFG2]
    BY <1>1, <1>2, <1>3, <2>4, WrittenAside DEF Off
  <2>6. High' => High
    BY <1>1, <2>5 DEF High, Bit, TCH2, CFG2
  <2> QED BY <2>3, <2>6
<1>7. CASE todo = <<W(TCH2, <<0>>)>>
  <2>1. todo' = <<>> /\ Head(todo) = W(TCH2, <<0>>)
    BY <1>1, <1>7, ShortSequences
  <2>2. regs'[TCH2] = 0
    BY <1>1, <1>2, <2>1, OneOctet
  <2>3. ChargerInv'
    BY <2>1, EmptyTodo DEF ChargerInv
  <2> QED BY <1>2, <2>2, <2>3 DEF High, TCH2
<1>8. CASE wanted.charge \in {1, 2} /\ todo = <<W(TCH2, <<0>>)>> \o ChargerOn(wanted.charge)
  <2>1. todo = <<W(TCH2, <<0>>), W(CFG2, <<q>>), W(TCH2, <<32>>)>>
    BY <1>5, <1>8, ThreeOf
  <2>2. todo' = ChargerOn(wanted.charge)' /\ Head(todo) = W(TCH2, <<0>>)
    BY <1>1, <1>5, <2>1, ShortSequences
  <2>3. regs'[TCH2] = 0
    BY <1>1, <1>2, <2>2, OneOctet
  <2>4. ChargerInv'
    BY <1>1, <1>8, <2>2, <2>3 DEF ChargerInv
  <2> QED BY <1>2, <2>3, <2>4 DEF High, TCH2
<1>9. CASE wanted.charge \in {1, 2} /\ todo = ChargerOn(wanted.charge) /\ regs[TCH2] = 0
  <2>1. todo' = <<W(TCH2, <<32>>)>> /\ Head(todo) = W(CFG2, <<q>>)
    BY <1>1, <1>5, <1>9, ShortSequences
  <2>2. regs'[CFG2] = q
    BY <1>1, <1>2, <2>1, OneOctet
  <2>3. regs'[TCH2] = 0
    <3>1. TCH2 \notin Reached(W(CFG2, <<q>>))
      BY <1>2, OneOctet
    <3> QED BY <1>1, <1>2, <1>3, <1>9, <2>1, <3>1, WrittenAside
  <2>4. ChargerInv'
    BY <1>1, <1>9, <2>1, <2>2 DEF ChargerInv, TCH2
  <2> QED BY <1>2, <2>3, <2>4 DEF High, TCH2
<1>10. CASE wanted.charge \in {1, 2} /\ todo = <<W(TCH2, <<32>>)>> /\ regs[CFG2] = q
  <2>1. todo' = <<>> /\ Head(todo) = W(TCH2, <<32>>)
    BY <1>1, <1>10, ShortSequences
  <2>2. regs'[CFG2] = q
    <3>1. CFG2 \notin Reached(W(TCH2, <<32>>))
      BY <1>2, OneOctet
    <3> QED BY <1>1, <1>2, <1>3, <1>10, <2>1, <3>1, WrittenAside
  <2>3. ChargerInv'
    BY <2>1, EmptyTodo DEF ChargerInv
  <2>4. Bit(5, 6) = 0
    BY DEF Bit
  <2>5. High' => wanted.charge = 2
    BY <2>2, <2>4 DEF High, CFG2
  <2> QED BY <2>3, <2>5
<1> QED BY <1>6, <1>7, <1>8, <1>9, <1>10 DEF ChargerInv

LEMMA AsWantedIsSet == ASSUME OutputInv PROVE AsWanted(regs[CFG1]) <=> AsSet(wanted)
BY DEF OutputInv, AsWanted, AsSet

LEMMA BQ32000Crash ==
  ASSUME device = "BQ32000", TimeInv, OutputInv, OutputBefore, Crash
  PROVE  OutputInv' /\ OutputBefore' /\ ChargerInv'
<1>1. device' = device /\ regs' = regs /\ before' = before /\ todo' = <<>>
  BY DEF Crash, chip
<1>2. DOMAIN wanted = {"out", "ft", "cal", "charge"} /\ regs[CFG1] \in 0 .. 255
  BY DEF OutputInv
<1>3. \/ AsSet(wanted) /\ wanted' = wanted
      \/ ~AsSet(wanted) /\ wanted' = before.wanted
  BY DEF Crash
<1>4. PICK w : wanted' = w /\ DOMAIN w = {"out", "ft", "cal", "charge"} /\ AsSet(w)
  BY <1>2, <1>3 DEF OutputBefore
<1>5. AsSet(wanted)'
  BY <1>1, <1>4 DEF AsSet, Settings, Bit, Low, CFG1
<1>6. regs'[CFG1] = regs[CFG1] /\ CFG1' = CFG1
  BY <1>1 DEF CFG1
<1>7. AsWanted(regs[CFG1])'
  BY <1>2, <1>5, <1>6 DEF AsWanted, AsSet
<1>8. OutputInv'
  BY <1>1, <1>2, <1>4, <1>6, <1>7 DEF OutputInv
<1>9. ChargerInv'
  BY <1>1, EmptyTodo DEF ChargerInv
<1> QED BY <1>5, <1>8, <1>9 DEF OutputBefore

LEMMA BQ32000PowerFails ==
  ASSUME device = "BQ32000", TimeInv, PowerFails
  PROVE  OutputInv' /\ ChargerInv' /\ ~High'
<1>1. device' = device /\ regs' = PowerOn(device) /\ todo' = <<>> /\ wanted' = NoSettings
  BY DEF PowerFails
<1>2. Registers[device] = (0 .. 9) \union {32, 33, 34} /\ FlagAt[device] = 0 /\ TimeAt[device].d = 4 /\ TimeAt[device].m = 5
  BY BQ32000At DEF Place
<1>3. regs'[7] = 0 /\ regs'[8] = 0
  BY <1>1, <1>2 DEF PowerOn
<1>4. AsWanted(0)'
  <2>1. Bit(0, 7) = 0 /\ Bit(0, 6) = 0 /\ Bit(0, 5) = 0 /\ Low(0, 5) = 0
    BY DEF Bit, Low
  <2>2. Settings(0).out = 0 /\ Settings(0).ft = 0 /\ Settings(0).cal = 0
    BY <2>1 DEF Settings
  <2>3. wanted'.out = 0 /\ wanted'.ft = 0 /\ wanted'.cal = 0
    BY <1>1 DEF NoSettings
  <2>4. \A f \in {"out", "ft", "cal"} : Settings(0)[f] = wanted'[f]
    BY <2>2, <2>3
  <2> QED BY <2>4 DEF AsWanted, Settings, Bit, Low
<1>5. AsWanted(regs[CFG1])'
  BY <1>3, <1>4 DEF CFG1, AsWanted, Settings, Bit, Low
<1>6. OutputInv'
  BY <1>1, <1>3, <1>5 DEF OutputInv, CFG1, NoSettings
<1>7. ChargerInv'
  BY <1>1, EmptyTodo DEF ChargerInv
<1>8. ~High'
  BY <1>3 DEF High, TCH2
<1> QED BY <1>6, <1>7, <1>8

LEMMA BQ32000Tick ==
  ASSUME device = "BQ32000", TimeInv, OutputInv, ChargerInv, Tick
  PROVE  OutputInv' /\ ChargerInv' /\ (High' => High)
<1>1. /\ CFG1 \in DOMAIN regs /\ TCH2 \in DOMAIN regs /\ CFG2 \in DOMAIN regs
      /\ CFG1 = 7 /\ TCH2 = 8 /\ CFG2 = 9 /\ device \in Chips /\ Places = {0, 1, 2, 4, 5, 6}
  BY Registers7To9
<1>2. DOMAIN regs = Registers[device] /\ real \in Times
  BY DEF TimeInv, Tick
<1>3. /\ device' = device /\ todo' = todo /\ wanted' = wanted
      /\ \A r \in DOMAIN regs : r \notin Places => regs'[r] = regs[r]
  BY <1>1, <1>2, TickIs
<1>4. regs'[7] = regs[7] /\ regs'[8] = regs[8] /\ regs'[9] = regs[9]
  <2>1. 7 \notin Places /\ 8 \notin Places /\ 9 \notin Places
    BY <1>1
  <2> QED BY <1>1, <1>3, <2>1
<1>5. \A v : AsWanted(v)' <=> AsWanted(v)
  BY <1>3 DEF AsWanted, Settings, Bit, Low
<1>6. AsWanted(regs[CFG1]) => AsWanted(regs[CFG1])'
  BY <1>3, <1>4 DEF AsWanted, Settings, Bit, Low, CFG1
<1>7. \A t : Elsewhere(t)' <=> Elsewhere(t)
  BY DEF Elsewhere, Reached, CFG1
<1>8. OutputInv'
  <2>1. DOMAIN wanted' = {"out", "ft", "cal", "charge"} /\ regs'[CFG1] \in 0 .. 255
    BY <1>3, <1>4 DEF OutputInv, CFG1
  <2> QED BY <1>3, <1>5, <1>6, <1>7, <2>1 DEF OutputInv
<1>9. ChargerInv'
  BY <1>3, <1>4 DEF ChargerInv, ChargerOn, Off, Reached, TCH2, CFG2
<1>10. High' => High
  BY <1>3, <1>4 DEF High, TCH2, CFG2, Bit
<1> QED BY <1>8, <1>9, <1>10

(* A setting is made, or the chip has what was set before.                 *)
LEMMA OutputBeforeStep ==
  ASSUME device = "BQ32000", TimeInv, OutputInv, OutputBefore, ChargerInv, Next
  PROVE  OutputBefore'
<1>1. todo = <<>> => AsSet(wanted)
  BY AsWantedIs, AsWantedIsSet
<1>2. \A w : AsSet(w) /\ regs'[CFG1] = regs[CFG1] => AsSet(w)'
  BY DEF AsSet, Settings, Bit, Low, CFG1
<1>3. ASSUME NEW v \in Seq(Transactions) \union {todo'}, Change(v) PROVE OutputBefore'
  <2>1. todo = <<>> /\ regs' = regs /\ before' = [memory |-> memory, wanted |-> wanted]
    BY <1>3 DEF Change, Ready, chip
  <2>2. before'.wanted = wanted /\ DOMAIN wanted = {"out", "ft", "cal", "charge"}
    BY <2>1 DEF OutputInv
  <2>3. AsSet(before.wanted)'
    BY <1>1, <2>1, <2>2 DEF AsSet, Settings, Bit, Low, CFG1
  <2> QED BY <2>2, <2>3 DEF OutputBefore
<1>4. ASSUME UNCHANGED <<wanted, before>>, regs'[CFG1] = regs[CFG1] PROVE OutputBefore'
  <2>1. AsSet(wanted) => AsSet(wanted)'
    BY <1>4 DEF AsSet, Settings, Bit, Low, CFG1
  <2>2. AsSet(before.wanted) => AsSet(before.wanted)'
    BY <1>4 DEF AsSet, Settings, Bit, Low, CFG1
  <2> QED BY <1>4, <2>1, <2>2 DEF OutputBefore
<1>5. ASSUME NEW dt \in Dates, Adjust(dt) PROVE OutputBefore'
  BY <1>4, <1>5 DEF Adjust, chip
<1>6. ASSUME NEW state \in 0 .. 2, SetIRQ(state) \/ SetCharger(state) PROVE OutputBefore'
  <2>1. \E v : v = todo' /\ Change(v)
    BY <1>6 DEF SetIRQ, SetCharger, Change
  <2> QED BY <1>3, <2>1
<1>7. ASSUME NEW level \in 0 .. 1, SetIRQLevel(level) PROVE OutputBefore'
  <2>1. \E v : v = todo' /\ Change(v)
    BY <1>7 DEF SetIRQLevel, Change
  <2> QED BY <1>3, <2>1
<1>8. ASSUME NEW v \in Calibrations, SetCalibration(v) PROVE OutputBefore'
  <2>1. \E x : x = todo' /\ Change(x)
    BY <1>8 DEF SetCalibration, Change
  <2> QED BY <1>3, <2>1
<1>9. CASE Transfer
  <2>1. regs' = Written(regs, Head(todo)) /\ todo' = Tail(todo) /\ wanted' = wanted /\ before' = before /\ todo # <<>>
    BY <1>9 DEF Transfer, sketch
  <2>2. CFG1 \in DOMAIN regs /\ CFG1 = 7 /\ device \in Chips
    BY Registers7To9
  <2>3. Head(todo) \in Transactions
    BY <2>1, <2>2, TodoTyped
  <2>4. Elsewhere(Head(todo)) => OutputBefore'
    BY <1>4, <2>1, <2>2, <2>3, WrittenAside DEF Elsewhere
  <2>5. CASE \E v : todo = <<W(CFG1, <<v>>)>> /\ AsWanted(v)
    <3>1. PICK v : todo = <<W(CFG1, <<v>>)>> /\ AsWanted(v)
      BY <2>5
    <3>2. regs'[CFG1] = v
      BY <2>1, <2>2, <3>1, ShortSequences, OneOctet
    <3>3. AsSet(wanted)'
      BY <2>1, <3>1, <3>2 DEF AsSet, AsWanted, Settings, Bit, Low, CFG1
    <3> QED BY <3>3 DEF OutputBefore
  <2>6. Elsewhere(Head(todo)) \/ \E v : todo = <<W(CFG1, <<v>>)>> /\ AsWanted(v)
    <3>1. (\E t : todo = <<t>> /\ Elsewhere(t)) => Elsewhere(Head(todo))
      BY ShortSequences
    <3>2. (\E t, u : todo = <<t, u>> /\ Elsewhere(t)) => Elsewhere(Head(todo))
      BY ShortSequences
    <3>3. (\E t, u, w : todo = <<t, u, w>> /\ Elsewhere(t)) => Elsewhere(Head(todo))
      BY ShortSequences
    <3> QED BY <2>1, <3>1, <3>2, <3>3 DEF OutputInv
  <2> QED BY <2>4, <2>5, <2>6
<1>10. CASE Crash
  BY <1>10, BQ32000Crash
<1>11. CASE PowerFails
  <2>1. OutputInv' /\ todo' = <<>>
    BY <1>11, BQ32000PowerFails DEF PowerFails
  <2>2. AsWanted(regs[CFG1])'
    BY <2>1, ShortSequences DEF OutputInv
  <2>3. AsSet(wanted)'
    BY <2>2 DEF AsWanted, AsSet
  <2> QED BY <2>3 DEF OutputBefore
<1>12. CASE Tick
  <2>1. CFG1 \in DOMAIN regs /\ CFG1 = 7 /\ device \in Chips /\ Places = {0, 1, 2, 4, 5, 6}
    BY Registers7To9
  <2>2. DOMAIN regs = Registers[device] /\ real \in Times
    BY <1>12 DEF TimeInv, Tick
  <2>3. wanted' = wanted /\ before' = before /\ \A r \in DOMAIN regs : r \notin Places => regs'[r] = regs[r]
    BY <1>12, <2>1, <2>2, TickIs DEF Tick, sketch
  <2>4. 7 \notin Places
    BY <2>1
  <2> QED BY <1>4, <2>1, <2>3, <2>4
<1> QED BY <1>5, <1>6, <1>7, <1>8, <1>9, <1>10, <1>11, <1>12, BQ32000Steps

LEMMA BQ32000Step ==
  ASSUME device = "BQ32000", TimeInv, OutputInv, OutputBefore, ChargerInv, Next
  PROVE  device' = device /\ TimeInv' /\ OutputInv' /\ ChargerInv' /\ (~High /\ High' => wanted.charge = 2)
<1>1. device \in Chips
  BY BQ32000At
<1>2. device' = device /\ regs' = regs => (High' => High)
  BY DEF High, Bit, TCH2, CFG2
<1>3. ASSUME NEW dt \in Dates, Adjust(dt)
      PROVE  device' = device /\ TimeInv' /\ OutputInv' /\ ChargerInv' /\ (High' => High)
  <2>1. device' = device /\ regs' = regs
    BY <1>3 DEF Adjust, chip
  <2> QED BY <1>1, <1>2, <1>3, <2>1, TimeAdjust, BQ32000Adjust
<1>4. ASSUME NEW state \in 0 .. 2, SetIRQ(state) \/ SetCharger(state)
      PROVE  device' = device /\ TimeInv' /\ OutputInv' /\ ChargerInv' /\ (High' => High)
  <2>1. device' = device /\ regs' = regs
    BY <1>4 DEF SetIRQ, SetCharger, Change, chip
  <2> QED BY <1>2, <1>4, <2>1, SetIRQStep, SetChargerStep
<1>5. ASSUME NEW level \in 0 .. 1, SetIRQLevel(level)
      PROVE  device' = device /\ TimeInv' /\ OutputInv' /\ ChargerInv' /\ (High' => High)
  <2>1. device' = device /\ regs' = regs
    BY <1>5 DEF SetIRQLevel, Change, chip
  <2> QED BY <1>2, <1>5, <2>1, SetIRQLevelStep
<1>6. ASSUME NEW v \in Calibrations, SetCalibration(v)
      PROVE  device' = device /\ TimeInv' /\ OutputInv' /\ ChargerInv' /\ (High' => High)
  <2>1. device' = device /\ regs' = regs
    BY <1>6 DEF SetCalibration, Change, chip
  <2> QED BY <1>2, <1>6, <2>1, SetCalibrationStep
<1>7. CASE Transfer
  <2>1. device' = device
    BY <1>7 DEF Transfer
  <2>2. TimeInv'
    BY <1>1, <1>7, TimeWritten, TimeAside DEF TimeInv
  <2> QED BY <1>7, <2>1, <2>2, OutputTransfer, ChargerTransfer
<1>8. CASE Crash
  <2>1. device' = device /\ value' = value /\ regs' = regs /\ kept' = kept /\ real' = real /\ fed' = fed /\ todo' = <<>>
    BY <1>8 DEF Crash, chip
  <2> QED BY <1>1, <1>2, <1>8, <2>1, TimeIdle, BQ32000Crash
<1>9. CASE PowerFails
  <2>1. device' = device
    BY <1>9 DEF PowerFails
  <2> QED BY <1>1, <1>9, <2>1, TimePowerFails, BQ32000PowerFails
<1>10. CASE Tick
  <2>1. device' = device
    BY <1>10 DEF Tick
  <2> QED BY <1>1, <1>10, <2>1, TimeTick, BQ32000Tick
<1> QED BY <1>3, <1>4, <1>5, <1>6, <1>7, <1>8, <1>9, <1>10, BQ32000Steps

-------------------------------------------------------------------------------
(* All of them                                                             *)
LEMMA InitInv == ASSUME Init PROVE RtcInv
<1>1. /\ device \in Devices /\ regs = (IF device \in Chips THEN PowerOn(device) ELSE <<>>)
      /\ eeprom = <<>> /\ memory = <<>> /\ todo = <<>> /\ ~kept /\ wanted = NoSettings
  BY DEF Init
<1>2. ASSUME device \in Chips PROVE TimeInv
  <2>1. regs = PowerOn(device)
    BY <1>1, <1>2
  <2>2. DOMAIN regs = Registers[device] /\ regs[FlagAt[device]] = 128
    BY <1>2, <2>1, PlacesAre DEF PowerOn
  <2>3. Bit(128, 7) = 1
    BY DEF Bit
  <2>4. AllAside
    BY <1>1, EmptyTodo DEF AllAside
  <2> QED BY <1>1, <2>2, <2>3, <2>4 DEF TimeInv
<1>3. RamInv /\ RamBefore
  BY <1>1 DEF RamInv, RamBefore
<1>4. EepromInv
  BY <1>1 DEF EepromInv
<1>5. ChargerInv
  BY <1>1, EmptyTodo DEF ChargerInv
<1>6. ASSUME device = "BQ32000" PROVE OutputInv /\ OutputBefore
  <2>1. Registers[device] = (0 .. 9) \union {32, 33, 34} /\ FlagAt[device] = 0 /\ TimeAt[device].d = 4 /\ TimeAt[device].m = 5
    BY <1>6, BQ32000At DEF Place
  <2>2. regs = PowerOn(device)
    BY <1>1, <1>6, BQ32000At
  <2>3. regs[7] = 0
    BY <2>1, <2>2 DEF PowerOn
  <2>4. Bit(0, 7) = 0 /\ Bit(0, 6) = 0 /\ Bit(0, 5) = 0 /\ Low(0, 5) = 0
    BY DEF Bit, Low
  <2>5. Settings(0).out = 0 /\ Settings(0).ft = 0 /\ Settings(0).cal = 0
    BY <2>4 DEF Settings
  <2>6. wanted.out = 0 /\ wanted.ft = 0 /\ wanted.cal = 0 /\ DOMAIN wanted = {"out", "ft", "cal", "charge"}
    BY <1>1 DEF NoSettings
  <2>7. AsWanted(regs[CFG1]) /\ regs[CFG1] \in 0 .. 255
    BY <2>3, <2>5, <2>6 DEF AsWanted, CFG1
  <2>8. OutputInv
    BY <1>1, <2>6, <2>7 DEF OutputInv
  <2> QED BY <2>7, <2>8, AsWantedIsSet DEF OutputBefore
<1> QED BY <1>1, <1>2, <1>3, <1>4, <1>5, <1>6 DEF RtcInv

LEMMA NextInv == ASSUME RtcInv, [Next]_vars PROVE RtcInv' /\ (~High /\ High' => wanted.charge = 2)
<1>1. CASE UNCHANGED vars
  <2>1. /\ device' = device /\ value' = value /\ regs' = regs /\ eeprom' = eeprom /\ todo' = todo /\ real' = real
        /\ kept' = kept /\ fed' = fed /\ memory' = memory /\ wanted' = wanted /\ before' = before
    BY <1>1 DEF vars, sketch, chip
  <2>2. TimeInv => TimeInv'
    <3>1. Places' = Places
      BY <2>1 DEF Places, Place
    <3>2. \A t : Aside(t) => Aside(t)'
      BY <2>1, <3>1 DEF Aside
    <3>3. AllAside => AllAside'
      BY <2>1, <3>2 DEF AllAside
    <3>4. Shows => Shows'
      BY <2>1 DEF Shows, Place
    <3> QED BY <2>1, <3>3, <3>4 DEF TimeInv
  <2>3. (RamInv => RamInv') /\ (RamBefore => RamBefore')
    BY <2>1 DEF RamInv, RamBefore, AsStored, RamAt
  <2>4. EepromInv => EepromInv'
    BY <2>1, EepromSame
  <2>5. OutputInv => OutputInv'
    <3>1. \A v : AsWanted(v) => AsWanted(v)'
      BY <2>1 DEF AsWanted, Settings, Bit, Low
    <3>2. AsWanted(regs[CFG1]) => AsWanted(regs[CFG1])'
      BY <2>1 DEF AsWanted, Settings, Bit, Low, CFG1
    <3>3. \A t : Elsewhere(t) => Elsewhere(t)'
      BY DEF Elsewhere, Reached, CFG1
    <3>4. DOMAIN wanted' = DOMAIN wanted /\ regs'[CFG1] = regs[CFG1]
      BY <2>1
    <3> QED BY <2>1, <3>1, <3>2, <3>3, <3>4 DEF OutputInv
  <2>6. ChargerInv => ChargerInv'
    BY <2>1 DEF ChargerInv, ChargerOn, Off, Reached, TCH2, CFG2
  <2>7. High' => High
    BY <2>1 DEF High, Bit, TCH2, CFG2
  <2>8. OutputBefore => OutputBefore'
    BY <2>1 DEF OutputBefore, AsSet, Settings, Bit, Low, CFG1
  <2> QED BY <2>1, <2>2, <2>3, <2>4, <2>5, <2>6, <2>7, <2>8 DEF RtcInv
<1>2. ASSUME Next PROVE device' = device
  BY <1>2 DEF Next, Sketch, Adjust, AdjustMillis, Compile, Compute, SetSqwOutLevel, SetSqwOutSignal, SetSqwOut, WriteRam,
    EEPROMWrite, EEPROMWritePage, ResetWatchdogTimer, SetIRQ, SetCharger, SetIRQLevel, SetCalibration, Change,
    Transfer, Crash, PowerFails, Tick, Pass
<1>3. CASE Next /\ device = "DS1307"
  BY <1>3, DS1307Step, RamBeforeStep, DS1307At DEF RtcInv, High
<1>4. CASE Next /\ device = "DS1388"
  BY <1>4, DS1388Step, DS1388At DEF RtcInv, High
<1>5. CASE Next /\ device = "PCF8563"
  BY <1>5, PCF8563Step, PCF8563At DEF RtcInv, High
<1>6. CASE Next /\ device = "BQ32000"
  BY <1>6, BQ32000Step, OutputBeforeStep, BQ32000At DEF RtcInv
<1>7. CASE Next /\ device \notin Chips
  BY <1>2, <1>7 DEF RtcInv, Chips, High
<1> QED BY <1>1, <1>3, <1>4, <1>5, <1>6, <1>7, ChipsAre

LEMMA MemoryIsKept == ASSUME RtcInv PROVE MemoryKept
<1>1. ASSUME device = "DS1307", todo = <<>>, NEW a \in DOMAIN memory PROVE RamAt(a) = memory[a]
  BY <1>1 DEF RtcInv, RamInv, RamAt
<1>2. ASSUME device = "DS1388", NEW pos \in DOMAIN memory PROVE Held(Cell(pos)) = memory[pos]
  BY <1>2 DEF RtcInv, EepromInv, Held
<1>3. ASSUME device = "DS1388", NEW page \in 0 .. 63, page * 8 .. page * 8 + 7 \subseteq DOMAIN memory, NEW k \in 0 .. 7
      PROVE  EEPROMReadPage(page)[k] = memory[page * 8 + k]
  <2> DEFINE first == page * 8
  <2>1. EEPROMReadPage(page)[k] = Held(CellOf(first, k))
    BY DEF EEPROMReadPage, CellOf
  <2>2. first \in Int /\ first = page * 8
    OBVIOUS
  <2> HIDE DEF first
  <2>3. first + k \in DOMAIN memory
    BY <1>3, <2>2
  <2>4. Cell(first + k) = CellOf(first, k)
    BY <2>2, PageIs
  <2>5. Held(Cell(first + k)) = memory[first + k]
    BY <1>2, <1>3, <2>3
  <2> QED BY <2>1, <2>2, <2>4, <2>5
<1>4. ReadsBack
  BY <1>1, <1>2, <1>3 DEF ReadsBack, AsStored, EEPROMRead
<1>5. SettingsKept
  BY AsWantedIs, AsWantedIsSet DEF RtcInv, SettingsKept
<1> QED BY <1>4, <1>5 DEF MemoryKept

-------------------------------------------------------------------------------
(* The theorems                                                            *)

(* The invariant of every chip, and what each step does to it.             *)
THEOREM Spec_Inv == Spec => []RtcInv
<1>1. Init => RtcInv
  BY InitInv
<1>2. RtcInv /\ [Next]_vars => RtcInv'
  BY NextInv
<1> QED BY <1>1, <1>2, PTL DEF Spec

(* A clock that was set to a date up to 2099 and has run since tells the   *)
(* time, and one that does not know it says so (now, isrunning).           *)
THEOREM ClocksAreTrusted == ASSUME ThisCentury PROVE Spec => []TimeTrusted
<1>1. RtcInv => TimeTrusted
  BY TimeIsTrusted DEF RtcInv
<1> QED BY <1>1, Spec_Inv, PTL

(* What is stored in RAM and EEPROM and set on the BQ32000 is read again,  *)
(* whatever the order of operations and wherever the processor is reset.   *)
THEOREM StoredIsKept == Spec => []MemoryKept
<1>1. RtcInv => MemoryKept
  BY MemoryIsKept
<1> QED BY <1>1, Spec_Inv, PTL

(* setCharger never lets the charger start at the voltage of before.       *)
THEOREM ChargerStartsLow == Spec => NeverStartsHigh
<1>1. RtcInv /\ [Next]_vars => [~High /\ High' => wanted.charge = 2]_vars
  BY NextInv
<1> QED BY <1>1, Spec_Inv, PTL DEF Spec, NeverStartsHigh
===============================================================================
