---------------------------- MODULE OneWire_proofs -----------------------------
(***************************************************************************)
(* Proofs about the 1-Wire bus, in two parts: its searches, and the        *)
(* thermometers of DallasTemperature.  search, target_search and           *)
(* alarmSearch are proved for addresses of any length and every set of     *)
(* devices.                                                                *)
(*                                                                         *)
(* Addresses are ordered by the first bit in which they differ (Before).   *)
(* Between two calls what has been found is every device up to the last one*)
(* returned, r, and LastDiscrepancy is the last bit at which a device      *)
(* parts from r behind it (IsLastZero).  A search follows r up to that bit,*)
(* takes the other way there and then the least device (Least): no device  *)
(* lies between r and the one it ends with.  r itself is written over on   *)
(* the way, so the invariant says that there is one.                       *)
(***************************************************************************)
EXTENDS Searches, DallasTemperature, FiniteSetTheorems, WellFoundedInduction, TLAPS

Address == [1 .. Bits -> {0, 1}]

(* d and e agree in front of bit n.                                        *)
Agree(d, e, n) == \A k \in 1 .. Bits : k < n => d[k] = e[k]

Before(d, e) == \E n \in 1 .. Bits : Agree(d, e, n) /\ d[n] = 0 /\ e[n] = 1

(* A device of D parts from e at bit n, and comes behind it.               *)
Zero(D, e, n) == e[n] = 0 /\ \E d \in D : Agree(d, e, n) /\ d[n] = 1

(* z is the last such bit in front of n, or 0.                             *)
IsLastZero(D, e, n, z) ==
  /\ z \in 0 .. Bits /\ z < n
  /\ z # 0 => Zero(D, e, z)
  /\ \A k \in 1 .. Bits : z < k /\ k < n => ~Zero(D, e, k)

(* Between z and n, e follows the first devices of D.                      *)
Least(D, e, z, n) ==
  \A k \in 1 .. Bits : z < k /\ k < n /\ e[k] = 1 => \A d \in D : Agree(d, e, k) => d[k] # 0

UpTo(D, r) == {d \in D : d = r \/ Before(d, r)}

TypeInv ==
  /\ present \subseteq Roms /\ listening \subseteq present /\ answered \subseteq present
  /\ ROM_NO \in Address /\ LastDiscrepancy \in 0 .. Bits /\ LastDeviceFlag \in BOOLEAN
  /\ id_bit_number \in 1 .. Bits + 1 /\ last_zero \in 0 .. Bits
  /\ pc \in {"idle", "bits"} /\ (pc = "bits" => ~LastDeviceFlag)
  /\ steady \in BOOLEAN

(* Devices that listen have sent what stands in ROM_NO; so had a device    *)
(* that has gone since.                                                    *)
BitsInv ==
  pc = "bits" =>
    /\ \A d \in listening : Agree(d, ROM_NO, id_bit_number)
    /\ id_bit_number > 1 => \E d \in Roms : Agree(d, ROM_NO, id_bit_number)

(* Nobody comes or goes.                                                   *)
SteadyInv ==
  steady =>
    /\ found \subseteq present
    /\ pc = "bits" => listening # {} /\ listening = {d \in present : Agree(d, ROM_NO, id_bit_number)}

(* How ROM_NO follows the device returned last, with discrepancy z.        *)
Follows(r, z) ==
  IF pc = "bits" /\ id_bit_number > z THEN Agree(ROM_NO, r, z) /\ ROM_NO[z] = 1 ELSE Agree(ROM_NO, r, z + 1)

FoundUpTo(r) ==
  /\ found = UpTo(present, r)
  /\ IsLastZero(present, r, Bits + 1, LastDiscrepancy)
  /\ LastDeviceFlag <=> LastDiscrepancy = 0
  /\ LastDiscrepancy # 0 => Follows(r, LastDiscrepancy)

EnumInv ==
  steady /\ target = Any =>
    /\ \/ found = {} /\ LastDiscrepancy = 0 /\ ~LastDeviceFlag
       \/ \E r \in present : FoundUpTo(r)
    /\ pc = "bits" =>
         /\ IsLastZero(present, ROM_NO, id_bit_number, last_zero)
         /\ Least(present, ROM_NO, LastDiscrepancy, id_bit_number)

(* A device of the family that is sought, if it stays, answers up to the   *)
(* end of the family code.                                                 *)
TargetInv ==
  target # Any =>
    /\ LastDiscrepancy = Bits /\ ~LastDeviceFlag
    /\ target \in [1 .. FamilyBits -> {0, 1}]
    /\ pc = "idle" \/ (\E d \in answered : Family(d) = target) => \A m \in 1 .. FamilyBits : ROM_NO[m] = target[m]
    /\ pc = "bits" /\ id_bit_number <= FamilyBits => \A d \in answered : Family(d) = target => d \in listening

IInv == TypeInv /\ BitsInv /\ SteadyInv /\ EnumInv /\ TargetInv
-------------------------------------------------------------------------------
(***************************************************************************)
(* Addresses                                                               *)
(***************************************************************************)
LEMMA BitsIs == Bits \in Nat /\ Bits > 1 /\ FamilyBits \in 1 .. Bits /\ FamilyBits < Bits
BY BusAssumption, FamilyAssumption

LEMMA SameAddress ==
  ASSUME NEW d \in Address, NEW e \in Address, \A k \in 1 .. Bits : d[k] = e[k] PROVE d = e
<1>1. d = [k \in 1 .. Bits |-> d[k]] /\ e = [k \in 1 .. Bits |-> e[k]]
  BY DEF Address
<1>2. [k \in 1 .. Bits |-> d[k]] = [k \in 1 .. Bits |-> e[k]]
  OBVIOUS
<1> QED BY <1>1, <1>2

(* Two that differ do so at a first bit: the sets of bits in front of one  *)
(* where they differ, itself included, have a smallest.                    *)
LEMMA FirstDifference ==
  ASSUME NEW d \in Address, NEW e \in Address, d # e
  PROVE  \E n \in 1 .. Bits : d[n] # e[n] /\ Agree(d, e, n)
<1> DEFINE S == {k \in 1 .. Bits : d[k] # e[k]}
           UpToBit(i) == {j \in S : j <= i}
           Fronts == {UpToBit(i) : i \in S}
           R == StrictSubsetOrdering(1 .. Bits)
<1>1. S # {}
  BY SameAddress
<1>2. IsWellFoundedOn(R, SUBSET (1 .. Bits))
  <2>1. IsFiniteSet(1 .. Bits)
    BY BitsIs, FS_Interval
  <2> QED BY <2>1, FS_FiniteSubsetsOfFinite, FS_StrictSubsetOrderingWellFounded
<1>3. Fronts \subseteq SUBSET (1 .. Bits) /\ Fronts # {}
  BY <1>1
<1> HIDE DEF R
<1>4. PICK B \in Fronts : \A C \in Fronts : <<C, B>> \notin R
  BY <1>2, <1>3, WFMin
<1>5. PICK n \in S : B = UpToBit(n)
  BY <1>4
<1>6. ASSUME NEW j \in S, j < n PROVE FALSE
  <2>1. n \in UpToBit(n) /\ n \notin UpToBit(j) /\ UpToBit(j) \subseteq UpToBit(n)
    <3>1. S \subseteq Int /\ n \in Int /\ j \in Int
      BY BitsIs
    <3>2. n <= n /\ ~(n <= j) /\ \A x \in S : x <= j => x <= n
      BY <1>6, <3>1
    <3> QED BY <3>2
  <2>2. UpToBit(j) \in Fronts /\ UpToBit(j) \in SUBSET (1 .. Bits) /\ UpToBit(n) \in SUBSET (1 .. Bits)
    OBVIOUS
  <2>3. <<UpToBit(j), UpToBit(n)>> \in R
    BY <2>1, <2>2 DEF R, StrictSubsetOrdering
  <2> QED BY <1>4, <1>5, <2>2, <2>3
<1>7. Agree(d, e, n)
  BY <1>6 DEF Agree
<1> QED BY <1>7

(* So one of the two comes before the other.                               *)
LEMMA OneIsBefore ==
  ASSUME NEW d \in Address, NEW e \in Address PROVE d = e \/ Before(d, e) \/ Before(e, d)
<1> SUFFICES ASSUME d # e PROVE Before(d, e) \/ Before(e, d)
  OBVIOUS
<1>1. PICK n \in 1 .. Bits : d[n] # e[n] /\ Agree(d, e, n)
  BY FirstDifference
<1>2. Agree(e, d, n) /\ d[n] \in {0, 1} /\ e[n] \in {0, 1}
  BY <1>1 DEF Agree, Address
<1> QED BY <1>1, <1>2 DEF Before

LEMMA AgreeAll == ASSUME NEW d \in Address, NEW e \in Address, Agree(d, e, Bits + 1) PROVE d = e
<1>1. \A k \in 1 .. Bits : d[k] = e[k]
  BY BitsIs DEF Agree
<1> QED BY <1>1, SameAddress

(* What a bit written changes.                                             *)
LEMMA AgreeBit ==
  ASSUME NEW e \in Address, NEW n \in 1 .. Bits, NEW b \in {0, 1}, NEW new \in Address,
         new[n] = b, \A k \in 1 .. Bits : k # n => new[k] = e[k]
  PROVE  /\ \A d \in Address : Agree(d, new, n + 1) <=> Agree(d, e, n) /\ d[n] = b
         /\ \A d \in Address, k \in 1 .. Bits : k <= n => (Agree(d, new, k) <=> Agree(d, e, k))
<1>1. new[n] = b /\ \A k \in 1 .. Bits : k # n => new[k] = e[k]
  OBVIOUS
<1>2. ASSUME NEW d \in Address PROVE Agree(d, new, n + 1) <=> Agree(d, e, n) /\ d[n] = b
  <2>1. \A k \in 1 .. Bits : k < n + 1 <=> k < n \/ k = n
    BY BitsIs
  <2>2. \A k \in 1 .. Bits : k < n => k # n
    BY BitsIs
  <2> QED BY <1>1, <2>1, <2>2 DEF Agree
<1>3. ASSUME NEW d \in Address, NEW k \in 1 .. Bits, k <= n PROVE Agree(d, new, k) <=> Agree(d, e, k)
  <2>1. \A j \in 1 .. Bits : j < k => j # n
    BY <1>3, BitsIs
  <2> QED BY <1>1, <2>1 DEF Agree
<1> QED BY <1>1, <1>2, <1>3

(* A device that is enumerated comes behind all that were found, and no    *)
(* device in between is left out.                                          *)
LEMMA NextDevice ==
  ASSUME NEW D, D \subseteq Address, NEW r \in D, NEW s \in D, NEW z \in 1 .. Bits,
         IsLastZero(D, r, Bits + 1, z), Agree(s, r, z), s[z] = 1, Least(D, s, z, Bits + 1)
  PROVE  s \notin UpTo(D, r) /\ UpTo(D, s) = UpTo(D, r) \union {s}
<1>1. z # 0 /\ r[z] = 0 /\ Bits \in Nat
  BY BitsIs DEF IsLastZero, Zero
<1>2. \A d \in D : d \in [1 .. Bits -> {0, 1}]
  BY DEF Address
<1>3. Before(r, s)
  BY <1>1 DEF Before, Agree
<1>4. ~Before(s, r) /\ s # r
  <2>1. SUFFICES ASSUME NEW k \in 1 .. Bits, Agree(s, r, k), s[k] = 0, r[k] = 1 PROVE FALSE
    BY <1>1 DEF Before
  <2>2. CASE k < z
    BY <2>1, <2>2 DEF Agree
  <2>3. CASE k = z
    BY <2>1, <2>3, <1>1
  <2>4. CASE z < k
    BY <2>1, <2>4, <1>1 DEF Agree
  <2> QED BY <2>2, <2>3, <2>4
<1>5. ASSUME NEW d \in D, d = r \/ Before(d, r) PROVE Before(d, s)
  <2>1. CASE d = r
    BY <2>1, <1>3
  <2>2. ASSUME NEW k \in 1 .. Bits, Agree(d, r, k), d[k] = 0, r[k] = 1 PROVE Before(d, s)
    <3>1. CASE k < z
      <4>1. Agree(d, s, k) /\ s[k] = 1
        <5>1. \A j \in 1 .. Bits : j < k => j < z
          BY <3>1
        <5> QED BY <5>1, <3>1, <2>2 DEF Agree
      <4> QED BY <4>1, <2>2 DEF Before
    <3>2. CASE k = z
      BY <3>2, <2>2, <1>1
    <3>3. CASE z < k
      <4>1. Agree(d, s, z) /\ d[z] = 0
        <5>1. \A j \in 1 .. Bits : j < z => j < k
          BY <3>3
        <5> QED BY <5>1, <3>3, <2>2, <1>1 DEF Agree
      <4> QED BY <4>1 DEF Before
    <3> QED BY <3>1, <3>2, <3>3
  <2> QED BY <2>1, <2>2, <1>5 DEF Before
<1>6. ASSUME NEW d \in D, Before(d, s) PROVE d = r \/ Before(d, r)
  <2>1. PICK k \in 1 .. Bits : Agree(d, s, k) /\ d[k] = 0 /\ s[k] = 1
    BY <1>6 DEF Before
  <2>2. CASE k < z
    <3>1. Agree(d, r, k) /\ r[k] = 1
      <4>1. \A j \in 1 .. Bits : j < k => j < z
        BY <2>2
      <4> QED BY <4>1, <2>1, <2>2 DEF Agree
    <3> QED BY <3>1, <2>1 DEF Before
  <2>3. CASE k = z
    <3>1. Agree(d, r, z) /\ d[z] = r[z]
      BY <2>1, <2>3, <1>1 DEF Agree
    <3>2. SUFFICES ASSUME Before(r, d) PROVE FALSE
      BY OneIsBefore
    <3>3. PICK j \in 1 .. Bits : Agree(r, d, j) /\ r[j] = 0 /\ d[j] = 1
      BY <3>2 DEF Before
    <3>4. z < j
      BY <3>1, <3>3, <1>1 DEF Agree
    <3>5. Zero(D, r, j)
      BY <3>3 DEF Zero, Agree
    <3> QED BY <3>4, <3>5, <1>1 DEF IsLastZero
  <2>4. CASE z < k
    BY <2>1, <2>4, <1>1 DEF Least
  <2> QED BY <2>2, <2>3, <2>4
<1> QED BY <1>4, <1>5, <1>6 DEF UpTo

(* The first device that is enumerated is the first of all.                *)
LEMMA FirstDevice ==
  ASSUME NEW D, NEW s \in D, Least(D, s, 0, Bits + 1) PROVE UpTo(D, s) = {s}
<1>1. ASSUME NEW d \in D, NEW k \in 1 .. Bits, Agree(d, s, k), d[k] = 0, s[k] = 1 PROVE FALSE
  BY <1>1, BitsIs DEF Least
<1> QED BY <1>1 DEF UpTo, Before

(* Without a last zero, no device is left.                                 *)
LEMMA AllFound ==
  ASSUME NEW D, D \subseteq Address, NEW r \in D, IsLastZero(D, r, Bits + 1, 0) PROVE UpTo(D, r) = D
<1>1. ASSUME NEW d \in D, Before(r, d) PROVE FALSE
  <2>1. PICK k \in 1 .. Bits : Agree(r, d, k) /\ r[k] = 0 /\ d[k] = 1
    BY <1>1 DEF Before
  <2>2. Zero(D, r, k) /\ 0 < k /\ k < Bits + 1
    BY <2>1, BitsIs DEF Zero, Agree
  <2> QED BY <2>2 DEF IsLastZero
<1> QED BY <1>1, OneIsBefore DEF UpTo
-------------------------------------------------------------------------------
(***************************************************************************)
(* The steps                                                               *)
(***************************************************************************)
LEMMA RomsAre == Roms \subseteq Address
BY BusAssumption DEF Address

LEMMA DirectionIs ==
  ASSUME TypeInv, NEW n \in 1 .. Bits, ~Lost(n)
  PROVE  /\ Direction(n) \in {0, 1} /\ \E d \in listening : d[n] = Direction(n)
         /\ Conflict(n) <=> (\E d \in listening : d[n] = 0) /\ (\E d \in listening : d[n] = 1)
         /\ ~Conflict(n) => \A d \in listening : d[n] = Direction(n)
<1>1. \A d \in listening : d[n] \in {0, 1}
  BY RomsAre DEF TypeInv, Address
<1>2. ROM_NO[n] \in {0, 1} /\ LastDiscrepancy \in Int /\ n \in Int
  BY BitsIs DEF TypeInv, Address
<1>3. Conflict(n) <=> (\E d \in listening : d[n] = 0) /\ (\E d \in listening : d[n] = 1)
  BY DEF Conflict, ReadBit, ReadComplement
<1>4. CASE Conflict(n)
  BY <1>1, <1>2, <1>3, <1>4 DEF Direction
<1>5. CASE ~Conflict(n)
  <2>1. Direction(n) = ReadBit(n)
    BY <1>5 DEF Direction
  <2> QED BY <2>1, <1>1, <1>3, <1>5 DEF Lost, ReadBit, ReadComplement
<1> QED BY <1>3, <1>4, <1>5

LEMMA InitInv == Init => IInv
<1> SUFFICES ASSUME Init PROVE IInv
  OBVIOUS
<1>1. Zeros \in Address
  BY DEF Zeros, Address
<1>2. TypeInv
  <2>1. present \subseteq Roms /\ listening = {} /\ answered = {} /\ ROM_NO = Zeros
    BY DEF Init
  <2>2. 0 \in 0 .. Bits /\ 1 \in 1 .. Bits + 1
    BY BitsIs
  <2> QED BY <1>1, <2>1, <2>2 DEF Init, TypeInv
<1> QED BY <1>2 DEF Init, IInv, BitsInv, SteadyInv, EnumInv, TargetInv

(* reset_search, and what NotFound leaves behind: a new enumeration.       *)
LEMMA FreshInv ==
  ASSUME present \subseteq Roms, listening' = {} \/ listening' = listening, listening \subseteq present,
         answered' = {} \/ answered' = answered, answered \subseteq present, present' = present,
         ROM_NO' \in Address, LastDiscrepancy' = 0, LastDeviceFlag' = FALSE, pc' = "idle",
         id_bit_number' \in 1 .. Bits + 1, last_zero' \in 0 .. Bits,
         found' = {}, steady' = TRUE, target' = Any
  PROVE  IInv'
<1>1. LastDiscrepancy' \in 0 .. Bits
  BY BitsIs
<1>2. listening' \subseteq present' /\ answered' \subseteq present'
  OBVIOUS
<1>3. TypeInv'
  BY <1>1, <1>2 DEF TypeInv
<1> QED BY <1>3 DEF IInv, BitsInv, SteadyInv, EnumInv, TargetInv

LEMMA EndsInv == ASSUME IInv, NotFound, Forget, present' = present, ROM_NO' = ROM_NO PROVE IInv'
<1>1. 1 \in 1 .. Bits + 1 /\ 0 \in 0 .. Bits
  BY BitsIs
<1> QED BY <1>1, FreshInv DEF IInv, TypeInv, NotFound, Forget

LEMMA ResetInv == ASSUME IInv, reset_search PROVE IInv'
<1>1. Zeros \in Address
  BY DEF Zeros, Address
<1> QED BY <1>1, FreshInv DEF IInv, TypeInv, reset_search, busVars, localVars

LEMMA PlugInv == ASSUME IInv, NEW d \in Roms, Plug(d) \/ Unplug(d) PROVE IInv'
<1>1. /\ ROM_NO' = ROM_NO /\ LastDiscrepancy' = LastDiscrepancy /\ LastDeviceFlag' = LastDeviceFlag
      /\ id_bit_number' = id_bit_number /\ last_zero' = last_zero /\ pc' = pc /\ target' = target /\ steady' = FALSE
      /\ listening' \subseteq listening /\ answered' \subseteq answered
      /\ \/ answered' = answered /\ listening' = listening
         \/ answered' = answered \ {d} /\ listening' = listening \ {d}
  <2>1. CASE Plug(d)
    BY <2>1 DEF Plug, keptVars, localVars
  <2>2. CASE Unplug(d)
    BY <2>2 DEF Unplug, keptVars, localVars
  <2> QED BY <2>1, <2>2
<1>2. TypeInv'
  BY <1>1 DEF IInv, TypeInv, Plug, Unplug
<1>3. BitsInv'
  BY <1>1 DEF IInv, BitsInv
<1>4. SteadyInv' /\ EnumInv'
  BY <1>1 DEF SteadyInv, EnumInv
<1>5. TargetInv'
  BY <1>1 DEF IInv, TargetInv
<1> QED BY <1>2, <1>3, <1>4, <1>5 DEF IInv

LEMMA TargetSearchInv == ASSUME IInv, NEW d \in Roms, target_search(Family(d)) PROVE IInv'
<1>1. d \in Address /\ FamilyBits \in 1 .. Bits
  BY RomsAre, BitsIs
<1>2. Family(d) \in [1 .. FamilyBits -> {0, 1}]
  BY <1>1, BitsIs DEF Family, Address
<1>3. /\ ROM_NO' = [n \in 1 .. Bits |-> IF n <= FamilyBits THEN Family(d)[n] ELSE 0]
      /\ LastDiscrepancy' = Bits /\ LastDeviceFlag' = FALSE /\ target' = Family(d) /\ pc = "idle" /\ pc' = pc
      /\ present' = present /\ listening' = listening /\ answered' = answered /\ found' = found /\ steady' = steady
      /\ id_bit_number' = id_bit_number /\ last_zero' = last_zero
  BY DEF target_search, busVars, localVars
<1>4. ROM_NO' \in Address
  <2>1. \A n \in 1 .. Bits : (IF n <= FamilyBits THEN Family(d)[n] ELSE 0) \in {0, 1}
    BY <1>1, <1>2, BitsIs
  <2> QED BY <2>1, <1>3 DEF Address
<1>5. \A m \in 1 .. FamilyBits : ROM_NO'[m] = target'[m]
  BY <1>1, <1>3, BitsIs
<1>6. target' # Any
  <2>1. DOMAIN Family(d) = 1 .. FamilyBits /\ 1 \in 1 .. FamilyBits
    BY <1>1, BitsIs DEF Family
  <2>2. DOMAIN Any = {}
    BY DEF Any
  <2> QED BY <2>1, <2>2, <1>3
<1>7. TypeInv'
  <2>1. Bits \in 0 .. Bits
    BY BitsIs
  <2> QED BY <2>1, <1>3, <1>4 DEF IInv, TypeInv
<1>8. BitsInv' /\ EnumInv' /\ SteadyInv'
  BY <1>3, <1>6 DEF IInv, BitsInv, EnumInv, SteadyInv
<1>9. TargetInv'
  BY <1>2, <1>3, <1>5 DEF TargetInv
<1> QED BY <1>7, <1>8, <1>9 DEF IInv

(* All devices answer the reset.                                           *)
LEMMA SearchBeginInv == ASSUME IInv, SearchBegin PROVE IInv'
<1>1. /\ listening' = present /\ answered' = present /\ id_bit_number' = 1 /\ last_zero' = 0 /\ pc' = "bits"
      /\ pc = "idle" /\ ~LastDeviceFlag /\ present # {}
      /\ present' = present /\ ROM_NO' = ROM_NO /\ LastDiscrepancy' = LastDiscrepancy /\ LastDeviceFlag' = LastDeviceFlag
      /\ found' = found /\ steady' = steady /\ target' = target
  BY DEF SearchBegin, keptVars
<1>2. \A d, e : Agree(d, e, 1)
  BY BitsIs DEF Agree
<1>3. TypeInv'
  BY <1>1, BitsIs DEF IInv, TypeInv
<1>4. BitsInv' /\ SteadyInv'
  BY <1>1, <1>2 DEF IInv, BitsInv, SteadyInv
<1>5. TargetInv'
  BY <1>1 DEF IInv, TargetInv
<1>6. EnumInv'
  <2>1. IsLastZero(present, ROM_NO, 1, 0) /\ Least(present, ROM_NO, LastDiscrepancy, 1)
    BY BitsIs DEF IsLastZero, Least
  <2>2. ASSUME NEW r \in present, FoundUpTo(r) PROVE FoundUpTo(r)'
    <3>1. LastDiscrepancy # 0 => Follows(r, LastDiscrepancy)'
      <4>1. ~(1 > LastDiscrepancy) \/ LastDiscrepancy = 0
        BY BitsIs DEF IInv, TypeInv
      <4> QED BY <4>1, <2>2, <1>1 DEF FoundUpTo, Follows
    <3> QED BY <3>1, <2>2, <1>1 DEF FoundUpTo
  <2> QED BY <2>1, <2>2, <1>1 DEF IInv, EnumInv
<1> QED BY <1>3, <1>4, <1>5, <1>6 DEF IInv

(* A bit is read twice and written.                                        *)
LEMMA SearchBitInv == ASSUME IInv, SearchBit PROVE IInv'
<1> DEFINE n == id_bit_number
           b == Direction(n)
           z == LastDiscrepancy
<1>1. /\ pc = "bits" /\ pc' = "bits" /\ n \in 1 .. Bits /\ n \in Int /\ ~Lost(n) /\ id_bit_number' = n + 1
      /\ ROM_NO' = [ROM_NO EXCEPT ![n] = b] /\ listening' = {d \in listening : d[n] = b}
      /\ last_zero' = IF Conflict(n) /\ b = 0 THEN n ELSE last_zero
      /\ present' = present /\ LastDiscrepancy' = z /\ LastDeviceFlag' = LastDeviceFlag
      /\ answered' = answered /\ found' = found /\ steady' = steady /\ target' = target
  BY BitsIs DEF SearchBit, StillListening, ghostVars, IInv, TypeInv
<1>2. TypeInv /\ present \subseteq Address /\ listening \subseteq present /\ present \subseteq Roms
      /\ ROM_NO \in Address /\ z \in 0 .. Bits /\ z \in Int /\ ~LastDeviceFlag
  BY <1>1, RomsAre, BitsIs DEF IInv, TypeInv
<1>3. /\ b \in {0, 1} /\ \E d \in listening : d[n] = b
      /\ Conflict(n) <=> (\E d \in listening : d[n] = 0) /\ (\E d \in listening : d[n] = 1)
      /\ ~Conflict(n) => \A d \in listening : d[n] = b
  BY <1>1, <1>2, DirectionIs
<1> HIDE DEF b
<1> HIDE DEF n, z
<1>4. /\ ROM_NO' \in Address /\ ROM_NO'[n] = b
      /\ \A k \in 1 .. Bits : k # n => ROM_NO'[k] = ROM_NO[k]
      /\ \A d \in Address : Agree(d, ROM_NO', n + 1) <=> Agree(d, ROM_NO, n) /\ d[n] = b
      /\ \A d \in Address, k \in 1 .. Bits : k <= n => (Agree(d, ROM_NO', k) <=> Agree(d, ROM_NO, k))
  <2>1. ROM_NO \in Address /\ n \in 1 .. Bits /\ b \in {0, 1}
    BY <1>1, <1>2, <1>3
  <2>2. ROM_NO' = [ROM_NO EXCEPT ![n] = b]
    BY <1>1
  <2>3. ROM_NO' \in Address /\ ROM_NO'[n] = b /\ \A k \in 1 .. Bits : k # n => ROM_NO'[k] = ROM_NO[k]
    BY <2>1, <2>2 DEF Address
  <2> QED BY <2>1, <2>3, AgreeBit
<1>6. \A d \in listening : Agree(d, ROM_NO, n)
  BY <1>1 DEF IInv, BitsInv, n
<1>7. TypeInv'
  <2>1. n + 1 \in 1 .. Bits + 1 /\ n \in 0 .. Bits /\ last_zero' \in 0 .. Bits
    BY <1>1, <1>2, BitsIs DEF TypeInv
  <2>2. listening' \subseteq present
    BY <1>1, <1>2
  <2> QED BY <2>1, <2>2, <1>1, <1>2, <1>4 DEF TypeInv
<1>8. BitsInv'
  <2>1. \A d \in listening' : Agree(d, ROM_NO', n + 1)
    BY <1>1, <1>2, <1>4, <1>6
  <2>2. \E d \in Roms : Agree(d, ROM_NO', n + 1)
    BY <1>2, <1>3, <1>4, <1>6
  <2> QED BY <2>1, <2>2, <1>1 DEF BitsInv
<1>9. SteadyInv'
  <2>1. SUFFICES ASSUME steady PROVE listening' # {} /\ listening' = {d \in present : Agree(d, ROM_NO', n + 1)}
    BY <1>1 DEF IInv, SteadyInv
  <2>2. listening = {d \in present : Agree(d, ROM_NO, n)}
    BY <2>1, <1>1 DEF IInv, SteadyInv, n
  <2> QED BY <2>2, <1>1, <1>2, <1>3, <1>4
<1>10. EnumInv'
  <2>1. SUFFICES ASSUME steady, target = Any PROVE EnumInv'
    BY <1>1 DEF EnumInv
  <2>2. listening = {d \in present : Agree(d, ROM_NO, n)}
    BY <2>1, <1>1 DEF IInv, SteadyInv, n
  <2>3. IsLastZero(present, ROM_NO, n, last_zero) /\ Least(present, ROM_NO, z, n)
    BY <2>1, <1>1 DEF IInv, EnumInv, n, z
  <2>4. \A k \in 1 .. Bits : k < n + 1 <=> k < n \/ k = n
    BY <1>1, BitsIs
  <2>5. \A k \in 1 .. Bits : k < n => k <= n /\ k # n
    BY <1>1, BitsIs
  <2>6. \A k \in 1 .. Bits : k < n => (Zero(present, ROM_NO', k) <=> Zero(present, ROM_NO, k))
    BY <2>5, <1>2, <1>4 DEF Zero
  <2>11. \A d \in present : Agree(d, ROM_NO', n) <=> Agree(d, ROM_NO, n)
    <3>1. n <= n
      BY <1>1
    <3> QED BY <3>1, <1>1, <1>2, <1>4
  <2>7. Zero(present, ROM_NO', n) <=> Conflict(n) /\ b = 0
    <3>1. \A d \in present : Agree(d, ROM_NO', n) <=> d \in listening
      BY <2>2, <2>11, <1>2
    <3>2. Zero(present, ROM_NO', n) <=> b = 0 /\ \E d \in listening : d[n] = 1
      BY <3>1, <1>2, <1>4 DEF Zero
    <3> QED BY <3>2, <1>3
  <2>8. IsLastZero(present, ROM_NO', n + 1, last_zero')
    <3>1. CASE Conflict(n) /\ b = 0
      <4>1. last_zero' = n /\ n \in 0 .. Bits /\ n < n + 1 /\ \A k \in 1 .. Bits : ~(n < k /\ k < n + 1)
        BY <3>1, <1>1, BitsIs
      <4> QED BY <4>1, <3>1, <2>7 DEF IsLastZero
    <3>2. CASE ~(Conflict(n) /\ b = 0)
      <4>1. last_zero' = last_zero /\ last_zero \in 0 .. Bits /\ last_zero < n /\ last_zero < n + 1
        BY <3>2, <2>3, <1>1, BitsIs DEF IsLastZero
      <4>2. last_zero # 0 => last_zero \in 1 .. Bits
        BY <4>1, BitsIs
      <4>3. last_zero # 0 => Zero(present, ROM_NO', last_zero)
        BY <4>1, <4>2, <2>3, <2>6 DEF IsLastZero
      <4>4. \A k \in 1 .. Bits : last_zero < k /\ k < n + 1 => ~Zero(present, ROM_NO', k)
        BY <3>2, <2>3, <2>4, <2>6, <2>7 DEF IsLastZero
      <4> QED BY <4>1, <4>3, <4>4 DEF IsLastZero
    <3> QED BY <3>1, <3>2
  <2>9. Least(present, ROM_NO', z, n + 1)
    <3>1. SUFFICES ASSUME NEW k \in 1 .. Bits, z < k, k < n + 1, ROM_NO'[k] = 1,
                          NEW d \in present, Agree(d, ROM_NO', k), d[k] = 0
                   PROVE  FALSE
      BY DEF Least
    <3>2. CASE k < n
      <4>1. Agree(d, ROM_NO, k) /\ ROM_NO[k] = 1
        BY <3>1, <3>2, <2>5, <1>2, <1>4
      <4> QED BY <4>1, <3>1, <3>2, <2>3 DEF Least
    <3>3. CASE k = n
      <4>1. d \in listening /\ b = 1
        BY <3>1, <3>3, <2>2, <2>11, <1>4
      <4>2. Conflict(n)
        BY <4>1, <3>1, <3>3, <1>3
      <4>3. Direction(n) = 0
        BY <4>2, <3>1, <3>3, <1>1, <1>2 DEF Direction, z
      <4> QED BY <4>1, <4>3 DEF b
    <3> QED BY <3>1, <3>2, <3>3, <2>4
  <2>10. ASSUME NEW r \in present, FoundUpTo(r) PROVE FoundUpTo(r)'
    <3>1. /\ found = UpTo(present, r) /\ IsLastZero(present, r, Bits + 1, z)
          /\ ~LastDeviceFlag /\ z # 0 /\ z \in 1 .. Bits /\ Follows(r, z)
      BY <2>10, <1>2, BitsIs DEF FoundUpTo, z
    <3>2. r[z] = 0 /\ \E d \in present : Agree(d, r, z) /\ d[z] = 1
      BY <3>1 DEF IsLastZero, Zero
    <3>3. Follows(r, z)'
      <4>1. CASE n > z
        <5>1. Agree(ROM_NO, r, z) /\ ROM_NO[z] = 1
          BY <4>1, <3>1, <1>1 DEF Follows, n
        <5>2. \A k \in 1 .. Bits : k < z => k # n
          BY <4>1, <3>1, <1>1, BitsIs
        <5>3. Agree(ROM_NO', r, z) /\ ROM_NO'[z] = 1
          BY <5>1, <5>2, <4>1, <3>1, <1>1, <1>4 DEF Agree
        <5> QED BY <5>3, <4>1, <3>1, <1>1 DEF Follows, z
      <4>2. CASE n <= z
        <5>1. Agree(ROM_NO, r, z + 1)
          BY <4>2, <3>1, <1>1 DEF Follows, n
        <5>2. \A k \in 1 .. Bits : k < z + 1 <=> k <= z
          BY <3>1, BitsIs
        <5>3. r \in listening
          <6>1. Agree(r, ROM_NO, n)
            <7>1. \A k \in 1 .. Bits : k < n => k <= z
              BY <4>2, <3>1, <1>1, BitsIs
            <7> QED BY <7>1, <5>1, <5>2 DEF Agree
          <6> QED BY <6>1, <2>2
        <5>4. CASE n < z
          <6>1. b = r[n]
            <7>1. CASE Conflict(n)
              <8>1. b = ROM_NO[n]
                BY <7>1, <5>4 DEF Direction, b, z
              <8>2. n < z + 1
                BY <5>2, <5>4, <4>2, <1>1
              <8> QED BY <8>1, <8>2, <5>1, <1>1 DEF Agree
            <7>2. CASE ~Conflict(n)
              BY <7>2, <5>3, <1>3
            <7> QED BY <7>1, <7>2
          <6>2. Agree(ROM_NO', r, z + 1)
            BY <6>1, <5>1, <1>4 DEF Agree
          <6>3. ~(n + 1 > z)
            BY <5>4, <3>1, <1>1, BitsIs
          <6> QED BY <6>2, <6>3, <1>1 DEF Follows, z
        <5>5. CASE n = z
          <6>1. Conflict(n)
            <7>1. PICK d \in present : Agree(d, r, z) /\ d[z] = 1
              BY <3>2
            <7>2. Agree(d, ROM_NO, n)
              <8>1. \A k \in 1 .. Bits : k < z => k <= z
                BY <3>1, BitsIs
              <8> QED BY <8>1, <7>1, <5>1, <5>2, <5>5 DEF Agree
            <7> QED BY <7>1, <7>2, <5>3, <5>5, <3>2, <2>2, <1>3
          <6>2. b = 1
            BY <6>1, <5>5, <1>1 DEF Direction, b, z
          <6>3. Agree(ROM_NO', r, z) /\ ROM_NO'[z] = 1
            <7>1. \A k \in 1 .. Bits : k < z => k # n /\ k <= z
              BY <5>5, <3>1, BitsIs
            <7> QED BY <7>1, <6>2, <5>1, <5>2, <5>5, <1>4 DEF Agree
          <6>4. n + 1 > z
            BY <5>5, <1>1
          <6> QED BY <6>3, <6>4, <1>1 DEF Follows, z
        <5> QED BY <5>4, <5>5, <4>2, <3>1, <1>1, BitsIs
      <4> QED BY <4>1, <4>2, <3>1, <1>1, BitsIs
    <3> QED BY <3>1, <3>3, <1>1 DEF FoundUpTo, z
  <2> QED BY <2>1, <2>8, <2>9, <2>10, <1>1 DEF IInv, EnumInv, z
<1>11. TargetInv'
  <2>1. SUFFICES ASSUME target # Any PROVE TargetInv'
    BY <1>1 DEF TargetInv
  <2>2. z = Bits /\ ~LastDeviceFlag /\ target \in [1 .. FamilyBits -> {0, 1}]
    BY <2>1 DEF IInv, TargetInv, z
  <2>3. ASSUME NEW d \in answered, Family(d) = target
        PROVE  /\ \A m \in 1 .. FamilyBits : ROM_NO'[m] = target[m]
               /\ n <= FamilyBits => d \in listening'
    <3>1. \A m \in 1 .. FamilyBits : ROM_NO[m] = target[m]
      BY <2>1, <2>3 DEF IInv, TargetInv
    <3>2. CASE n <= FamilyBits
      <4>1. d \in listening
        BY <3>2, <2>1, <2>3, <1>1 DEF IInv, TargetInv, n
      <4>2. n \in 1 .. FamilyBits /\ n < z
        BY <3>2, <2>2, <1>1, BitsIs
      <4>3. d[n] = target[n] /\ ROM_NO[n] = target[n]
        BY <4>2, <3>1, <2>3 DEF Family
      <4>4. b = target[n]
        <5>1. CASE Conflict(n)
          BY <5>1, <4>2, <4>3 DEF Direction, b, z
        <5>2. CASE ~Conflict(n)
          BY <5>2, <4>1, <4>3, <1>3
        <5> QED BY <5>1, <5>2
      <4>5. \A m \in 1 .. FamilyBits : m \in 1 .. Bits
        BY BitsIs
      <4> QED BY <4>1, <4>3, <4>4, <4>5, <3>1, <1>1, <1>4
    <3>3. CASE ~(n <= FamilyBits)
      <4>1. \A m \in 1 .. FamilyBits : m \in 1 .. Bits /\ m # n
        BY <3>3, <1>1, BitsIs
      <4> QED BY <4>1, <3>1, <3>3, <1>4
    <3> QED BY <3>2, <3>3
  <2>4. n + 1 <= FamilyBits => n <= FamilyBits
    BY <1>1, BitsIs
  <2> QED BY <2>2, <2>3, <2>4, <1>1 DEF TargetInv, z
<1> QED BY <1>7, <1>8, <1>9, <1>10, <1>11 DEF IInv

(* The search that completes an address returns a device that is there     *)
(* and, in an enumeration, the next one.                                   *)
LEMMA FoundIsNext ==
  ASSUME IInv, pc = "bits", id_bit_number = Bits + 1, steady
  PROVE  /\ ROM_NO \in present
         /\ target = Any =>
              /\ ROM_NO \notin found /\ found \union {ROM_NO} = UpTo(present, ROM_NO)
              /\ IsLastZero(present, ROM_NO, Bits + 1, last_zero)
<1> DEFINE z == LastDiscrepancy
<1>1. present \subseteq Address /\ ROM_NO \in Address /\ z \in 0 .. Bits /\ ~LastDeviceFlag
  BY RomsAre DEF IInv, TypeInv
<1>2. ROM_NO \in present
  <2>1. PICK d \in present : Agree(d, ROM_NO, Bits + 1)
    BY DEF IInv, SteadyInv
  <2> QED BY <2>1, <1>1, AgreeAll
<1>3. ASSUME target = Any
      PROVE  /\ ROM_NO \notin found /\ found \union {ROM_NO} = UpTo(present, ROM_NO)
             /\ IsLastZero(present, ROM_NO, Bits + 1, last_zero)
  <2>1. IsLastZero(present, ROM_NO, Bits + 1, last_zero) /\ Least(present, ROM_NO, z, Bits + 1)
    BY <1>3 DEF IInv, EnumInv
  <2>2. CASE found = {} /\ z = 0
    BY <2>1, <2>2, <1>2, FirstDevice
  <2>3. ASSUME NEW r \in present, FoundUpTo(r) PROVE ROM_NO \notin found /\ found \union {ROM_NO} = UpTo(present, ROM_NO)
    <3>1. /\ found = UpTo(present, r) /\ IsLastZero(present, r, Bits + 1, z) /\ z # 0 /\ Follows(r, z)
      BY <2>3, <1>1 DEF FoundUpTo
    <3>2. z \in 1 .. Bits /\ Bits + 1 > z
      BY <3>1, <1>1, BitsIs
    <3>3. Agree(ROM_NO, r, z) /\ ROM_NO[z] = 1
      BY <3>1, <3>2 DEF Follows
    <3> HIDE DEF z
    <3> QED BY <3>1, <3>2, <3>3, <2>1, <1>1, <1>2, NextDevice
  <2> QED BY <2>1, <2>2, <2>3, <1>3 DEF IInv, EnumInv
<1> QED BY <1>2, <1>3

LEMMA SearchFoundInv == ASSUME IInv, SearchFound PROVE IInv'
<1>1. /\ pc = "bits" /\ id_bit_number = Bits + 1 /\ pc' = "idle" /\ listening' = {} /\ answered' = {}
      /\ id_bit_number' = 1 /\ last_zero' = 0 /\ target' = Any /\ ~LastDeviceFlag
      /\ LastDiscrepancy' = last_zero /\ LastDeviceFlag' = (last_zero = 0)
      /\ found' = found \union {ROM_NO} /\ steady' = (steady /\ target = Any)
      /\ present' = present /\ ROM_NO' = ROM_NO
  BY BitsIs DEF SearchFound, IsLast, IInv, TypeInv
<1>2. TypeInv'
  <2>1. 1 \in 1 .. Bits + 1 /\ 0 \in 0 .. Bits
    BY BitsIs
  <2>2. LastDeviceFlag' \in BOOLEAN /\ steady' \in BOOLEAN
    BY <1>1
  <2> QED BY <2>1, <2>2, <1>1 DEF IInv, TypeInv
<1>3. BitsInv' /\ TargetInv'
  BY <1>1 DEF BitsInv, TargetInv
<1>4. SteadyInv'
  BY <1>1, FoundIsNext DEF IInv, SteadyInv
<1>5. EnumInv'
  <2>1. SUFFICES ASSUME steady, target = Any PROVE FoundUpTo(ROM_NO)' /\ ROM_NO' \in present'
    BY <1>1 DEF EnumInv
  <2>2. /\ ROM_NO \in present /\ found \union {ROM_NO} = UpTo(present, ROM_NO)
        /\ IsLastZero(present, ROM_NO, Bits + 1, last_zero)
    BY <2>1, <1>1, FoundIsNext
  <2>3. Agree(ROM_NO, ROM_NO, last_zero + 1)
    BY DEF Agree
  <2> QED BY <2>2, <2>3, <1>1 DEF FoundUpTo, Follows
<1> QED BY <1>2, <1>3, <1>4, <1>5 DEF IInv

LEMMA StepInv == IInv /\ [Next]_vars => IInv'
<1> SUFFICES ASSUME IInv, [Next]_vars PROVE IInv'
  OBVIOUS
<1>1. CASE Search
  <2>1. CASE SearchAfterLast
    BY <2>1, EndsInv DEF SearchAfterLast
  <2>2. CASE SearchNoPresence
    BY <2>2, EndsInv DEF SearchNoPresence
  <2>3. CASE SearchLost
    BY <2>3, EndsInv DEF SearchLost
  <2>4. CASE SearchFoundZero
    BY <2>4, EndsInv DEF SearchFoundZero
  <2> QED BY <1>1, <2>1, <2>2, <2>3, <2>4, SearchBeginInv, SearchBitInv, SearchFoundInv DEF Search
<1>2. CASE reset_search
  BY <1>2, ResetInv
<1>3. ASSUME NEW d \in Roms, Plug(d) \/ Unplug(d) \/ target_search(Family(d)) PROVE IInv'
  BY <1>3, PlugInv, TargetSearchInv
<1>4. CASE UNCHANGED vars
  BY <1>4 DEF IInv, TypeInv, BitsInv, SteadyInv, EnumInv, FoundUpTo, Follows, TargetInv,
              vars, busVars, keptVars, localVars, ghostVars
<1> QED BY <1>1, <1>2, <1>3, <1>4 DEF Next
-------------------------------------------------------------------------------
(***************************************************************************)
(* The theorems                                                            *)
(***************************************************************************)

THEOREM Invariant == Spec => []IInv
BY InitInv, StepInv, PTL DEF Spec

(* search() returns only addresses of devices, in an enumeration none of   *)
(* them twice, and reports the end only when it has returned them all: the *)
(* property the runs check, for every set of devices and length of address.*)
THEOREM SearchEnumerates == Spec => Enumerates
<1> DEFINE Ends == pc' = "idle" /\ returned' = "no device" /\ found' # found /\ steady /\ \A d \in present : HasFamily(d)
           Step == (ReturnsDevice => NewDevice) /\ (Ends => found = present)
<1>1. IInv /\ [Next]_vars => [Step]_vars
  <2> SUFFICES ASSUME IInv, Next PROVE Step
    OBVIOUS
  <2>1. CASE Search
    <3>1. CASE SearchAfterLast
      <4>1. ~ReturnsDevice
        BY <3>1 DEF SearchAfterLast, ReturnsDevice
      <4>2. ASSUME steady PROVE found = present
        <5>1. target = Any
          BY <3>1 DEF SearchAfterLast, IInv, TargetInv
        <5>2. PICK r \in present : FoundUpTo(r)
          BY <5>1, <4>2, <3>1 DEF SearchAfterLast, IInv, EnumInv
        <5>3. LastDiscrepancy = 0 /\ present \subseteq Address
          BY <5>2, <3>1, RomsAre DEF SearchAfterLast, FoundUpTo, IInv, TypeInv
        <5> QED BY <5>2, <5>3, AllFound DEF FoundUpTo
      <4> QED BY <4>1, <4>2
    <3>2. CASE SearchNoPresence
      <4>1. ~ReturnsDevice
        BY <3>2 DEF SearchNoPresence, ReturnsDevice
      <4> QED BY <4>1, <3>2 DEF SearchNoPresence, IInv, SteadyInv
    <3>3. CASE SearchBegin \/ SearchBit
      BY <3>3 DEF SearchBegin, SearchBit, ReturnsDevice, IInv, TypeInv
    <3>4. CASE SearchLost
      <4>1. ~ReturnsDevice
        BY <3>4 DEF SearchLost, NotFound, ReturnsDevice
      <4>2. ASSUME steady PROVE FALSE
        <5>1. PICK d \in listening : d[id_bit_number] \in {0, 1}
          BY <4>2, <3>4, RomsAre, BitsIs DEF SearchLost, IInv, SteadyInv, TypeInv, Address
        <5> QED BY <5>1, <3>4 DEF SearchLost, Lost, ReadBit, ReadComplement
      <4> QED BY <4>1, <4>2
    <3>5. CASE SearchFound
      <4>1. pc = "bits" /\ id_bit_number = Bits + 1 /\ steady' = (steady /\ target = Any) /\ returned' = "device"
        BY <3>5, BitsIs DEF SearchFound, IInv, TypeInv
      <4>2. ROM_NO \in Roms
        <5>1. PICK d \in Roms : Agree(d, ROM_NO, Bits + 1)
          BY <4>1, BitsIs DEF IInv, BitsInv
        <5> QED BY <5>1, RomsAre, AgreeAll DEF IInv, TypeInv
      <4> QED BY <4>1, <4>2, FoundIsNext DEF NewDevice
    <3>6. CASE SearchFoundZero
      <4>1. ~ReturnsDevice
        BY <3>6 DEF SearchFoundZero, NotFound, ReturnsDevice
      <4>2. ASSUME steady, \A d \in present : HasFamily(d) PROVE FALSE
        <5>1. pc = "bits" /\ id_bit_number = Bits + 1
          BY <3>6, BitsIs DEF SearchFoundZero, IInv, TypeInv
        <5>2. HasFamily(ROM_NO)
          BY <5>1, <4>2, FoundIsNext
        <5> QED BY <5>2, <3>6 DEF SearchFoundZero, HasFamily
      <4> QED BY <4>1, <4>2
    <3> QED BY <2>1, <3>1, <3>2, <3>3, <3>4, <3>5, <3>6 DEF Search
  <2>2. CASE reset_search
    BY <2>2 DEF reset_search, ReturnsDevice
  <2>3. ASSUME NEW d \in Roms, Plug(d) \/ Unplug(d) \/ target_search(Family(d)) PROVE Step
    <3>1. found' = found /\ pc' = pc
      BY <2>3 DEF Plug, Unplug, target_search, localVars
    <3> QED BY <3>1 DEF ReturnsDevice
  <2> QED BY <2>1, <2>2, <2>3 DEF Next
<1> QED BY <1>1, Invariant, PTL DEF Spec, Enumerates

(* After target_search, search() returns a device of that family if one    *)
(* was on the bus all through the search.                                  *)
THEOREM TargetIsFound == Spec => TargetFound
<1> DEFINE Step == ReturnsDevice /\ target # Any /\ (\E d \in answered : Family(d) = target) => Family(ROM_NO) = target
<1>1. IInv /\ [Next]_vars => [Step]_vars
  <2> SUFFICES ASSUME IInv, pc = "bits", target # Any, \E d \in answered : Family(d) = target
               PROVE  Family(ROM_NO) = target
    BY DEF ReturnsDevice
  <2>1. target \in [1 .. FamilyBits -> {0, 1}] /\ \A m \in 1 .. FamilyBits : ROM_NO[m] = target[m]
    BY DEF IInv, TargetInv
  <2>2. target = [m \in 1 .. FamilyBits |-> target[m]]
    BY <2>1
  <2> QED BY <2>1, <2>2 DEF Family
<1> QED BY <1>1, Invariant, PTL DEF Spec, TargetFound

-------------------------------------------------------------------------------
(***************************************************************************)
(* alarmSearch                                                             *)
(*                                                                         *)
(* It enumerates in the same order, with alarmSearchJunction for           *)
(* LastDiscrepancy, but changes the junction as it goes.  D are the devices*)
(* with an alarm, F those found, e the address so far, of which the first  *)
(* n - 1 bits are known, j the junction, l lastJunction and q done.        *)
(***************************************************************************)
Some(D, e, n, x) == \E d \in D : Agree(d, e, n) /\ d[n] = x

Enumerated(D, F, r, z) == r \in D /\ F = UpTo(D, r) /\ IsLastZero(D, r, Bits + 1, z)

(* Up to the junction the search follows the address found last, r, and    *)
(* lastJunction is the last bit so far where another device parts from it. *)
ToJunction(D, F, e, n, j, l, q) ==
  /\ \E r \in D : Enumerated(D, F, r, j) /\ Agree(e, r, j + 1)
  /\ IsLastZero(D, e, n, l) /\ (q <=> l = 0)

(* Beyond it, at z, it takes the least device that is left, and it is the  *)
(* junction that is this last bit.                                         *)
Turned(D, F, e, n, z) ==
  \/ z = 0 /\ F = {}
  \/ z \in 1 .. Bits /\ z < n /\ e[z] = 1 /\ \E r \in D : Enumerated(D, F, r, z) /\ Agree(e, r, z)
Beyond(D, F, e, n, j, q) ==
  /\ \E z \in 0 .. Bits : Turned(D, F, e, n, z) /\ Least(D, e, z, n)
  /\ IsLastZero(D, e, n, j) /\ (q <=> j = 0)

(* new is e with bit n written as b.                                       *)
BitWritten(new, e, n, b) ==
  /\ new \in Address /\ e \in Address /\ n \in 1 .. Bits /\ b \in {0, 1}
  /\ new[n] = b /\ \A k \in 1 .. Bits : k # n => new[k] = e[k]

LEMMA InFront ==
  ASSUME NEW n \in 1 .. Bits
  PROVE  /\ n \in Nat /\ n <= n /\ n < n + 1 /\ n + 1 \in 1 .. Bits + 1 /\ n \in 0 .. Bits
         /\ \A k \in 1 .. Bits : (k < n + 1 <=> k < n \/ k = n) /\ (k < n => k <= n /\ k # n) /\ ~(n < k /\ k < n + 1)
BY BitsIs

LEMMA WrittenAgrees ==
  ASSUME NEW new, NEW e, NEW n, NEW b, BitWritten(new, e, n, b)
  PROVE  /\ \A d \in Address : Agree(d, new, n + 1) <=> Agree(d, e, n) /\ d[n] = b
         /\ \A d \in Address, k \in 1 .. Bits : k <= n => (Agree(d, new, k) <=> Agree(d, e, k))
BY AgreeBit DEF BitWritten

LEMMA LastZeroGoesOn ==
  ASSUME NEW D, D \subseteq Address, NEW new, NEW e, NEW n, NEW b, BitWritten(new, e, n, b),
         NEW z, IsLastZero(D, e, n, z)
  PROVE  IF b = 0 /\ Some(D, e, n, 1) THEN IsLastZero(D, new, n + 1, n) ELSE IsLastZero(D, new, n + 1, z)
<1>1. n \in 1 .. Bits /\ new[n] = b /\ \A k \in 1 .. Bits : k # n => new[k] = e[k]
  BY DEF BitWritten
<1>2. /\ n \in Nat /\ n < n + 1 /\ n \in 0 .. Bits /\ n <= n
      /\ \A k \in 1 .. Bits : (k < n + 1 <=> k < n \/ k = n) /\ (k < n => k <= n /\ k # n) /\ ~(n < k /\ k < n + 1)
  BY <1>1, InFront
<1>3. \A d \in D, k \in 1 .. Bits : k <= n => (Agree(d, new, k) <=> Agree(d, e, k))
  BY WrittenAgrees
<1>4. \A k \in 1 .. Bits : k < n => (Zero(D, new, k) <=> Zero(D, e, k))
  BY <1>1, <1>2, <1>3 DEF Zero
<1>5. Zero(D, new, n) <=> b = 0 /\ Some(D, e, n, 1)
  BY <1>1, <1>2, <1>3 DEF Zero, Some
<1>6. CASE b = 0 /\ Some(D, e, n, 1)
  BY <1>2, <1>5, <1>6 DEF IsLastZero
<1>7. CASE ~(b = 0 /\ Some(D, e, n, 1))
  <2>1. z \in 0 .. Bits /\ z < n /\ z < n + 1 /\ (z # 0 => z \in 1 .. Bits)
    BY <1>1, <1>2, BitsIs DEF IsLastZero
  <2>2. z # 0 => Zero(D, new, z)
    BY <2>1, <1>4 DEF IsLastZero
  <2>3. \A k \in 1 .. Bits : z < k /\ k < n + 1 => ~Zero(D, new, k)
    BY <1>2, <1>4, <1>5, <1>7 DEF IsLastZero
  <2> QED BY <2>1, <2>2, <2>3, <1>7 DEF IsLastZero
<1> QED BY <1>6, <1>7

LEMMA LeastGoesOn ==
  ASSUME NEW D, D \subseteq Address, NEW new, NEW e, NEW n, NEW b, BitWritten(new, e, n, b),
         NEW z, Least(D, e, z, n), b = 1 => ~Some(D, e, n, 0)
  PROVE  Least(D, new, z, n + 1)
<1>1. n \in 1 .. Bits /\ new[n] = b /\ \A k \in 1 .. Bits : k # n => new[k] = e[k]
  BY DEF BitWritten
<1>2. /\ n <= n
      /\ \A k \in 1 .. Bits : (k < n + 1 <=> k < n \/ k = n) /\ (k < n => k <= n /\ k # n)
  BY <1>1, InFront
<1>3. \A d \in D, k \in 1 .. Bits : k <= n => (Agree(d, new, k) <=> Agree(d, e, k))
  BY WrittenAgrees
<1>4. SUFFICES ASSUME NEW k \in 1 .. Bits, z < k, k < n + 1, new[k] = 1, NEW d \in D, Agree(d, new, k), d[k] = 0
               PROVE  FALSE
  BY DEF Least
<1>5. CASE k < n
  BY <1>1, <1>2, <1>3, <1>4, <1>5 DEF Least
<1>6. CASE k = n
  BY <1>1, <1>2, <1>3, <1>4, <1>6 DEF Some
<1> QED BY <1>2, <1>4, <1>5, <1>6

(* In front of the junction the address stays as it was.                   *)
LEMMA KnownBit ==
  ASSUME NEW D, D \subseteq Address, NEW F, NEW new, NEW e, NEW n, NEW b, BitWritten(new, e, n, b),
         NEW j \in 1 .. Bits, n < j, NEW l, NEW q, ToJunction(D, F, e, n, j, l, q),
         IF Some(D, e, n, 0) /\ Some(D, e, n, 1) THEN b = e[n] ELSE Some(D, e, n, b),
         NEW l2, NEW q2, l2 = IF b = 0 /\ Some(D, e, n, 1) THEN n ELSE l, q2 <=> l2 = 0
  PROVE  ToJunction(D, F, new, n + 1, j, l2, q2)
<1>1. n \in 1 .. Bits /\ b \in {0, 1} /\ new[n] = b /\ e \in Address /\ new \in Address
  BY DEF BitWritten
<1>2. PICK r \in D : Enumerated(D, F, r, j) /\ Agree(e, r, j + 1)
  BY DEF ToJunction
<1>3. /\ \A k \in 1 .. Bits : k < j + 1 <=> k < j \/ k = j
      /\ \A k \in 1 .. Bits : k < n => k < j
  BY <1>1, BitsIs
<1>4. Agree(r, e, n) /\ r[n] = e[n] /\ r[n] \in {0, 1}
  BY <1>1, <1>2, <1>3 DEF Agree, Address
<1>5. Some(D, e, n, r[n])
  BY <1>4 DEF Some
<1>6. b = e[n]
  BY <1>1, <1>4, <1>5
<1>7. new = e
  BY <1>1, <1>6, SameAddress DEF BitWritten
<1>8. IsLastZero(D, e, n, l)
  BY DEF ToJunction
<1>9. IsLastZero(D, new, n + 1, l2)
  BY <1>8, LastZeroGoesOn
<1> QED BY <1>2, <1>7, <1>9 DEF ToJunction

(* At the junction devices differ...                                       *)
LEMMA JunctionDiffers ==
  ASSUME NEW D, NEW F, NEW e \in Address, NEW j \in 1 .. Bits, NEW l, NEW q, ToJunction(D, F, e, j, j, l, q)
  PROVE  Some(D, e, j, 0) /\ Some(D, e, j, 1)
<1>1. PICK r \in D : Enumerated(D, F, r, j) /\ Agree(e, r, j + 1)
  BY DEF ToJunction
<1>2. /\ \A k \in 1 .. Bits : k < j + 1 <=> k < j \/ k = j
      /\ j # 0
  BY BitsIs
<1>3. Agree(r, e, j) /\ r[j] = 0
  BY <1>1, <1>2 DEF Agree, Enumerated, IsLastZero, Zero
<1>4. PICK d \in D : Agree(d, r, j) /\ d[j] = 1
  BY <1>1, <1>2 DEF Enumerated, IsLastZero, Zero
<1>5. Agree(d, e, j)
  BY <1>3, <1>4 DEF Agree
<1> QED BY <1>3, <1>4, <1>5 DEF Some

(* ...and the search turns.                                                *)
LEMMA JunctionBit ==
  ASSUME NEW D, D \subseteq Address, NEW F, NEW new, NEW e, NEW n, BitWritten(new, e, n, 1),
         NEW l, NEW q, ToJunction(D, F, e, n, n, l, q)
  PROVE  Beyond(D, F, new, n + 1, l, q)
<1>1. n \in 1 .. Bits /\ new[n] = 1
  BY DEF BitWritten
<1>2. PICK r \in D : Enumerated(D, F, r, n) /\ Agree(e, r, n + 1)
  BY DEF ToJunction
<1>3. /\ n < n + 1 /\ n \in 0 .. Bits
      /\ \A k \in 1 .. Bits : (k < n + 1 <=> k < n \/ k = n) /\ (k < n => k <= n /\ k # n) /\ ~(n < k /\ k < n + 1)
  BY <1>1, InFront
<1>4. Agree(new, r, n)
  BY <1>2, <1>3 DEF Agree, BitWritten
<1>5. Turned(D, F, new, n + 1, n)
  BY <1>1, <1>2, <1>3, <1>4 DEF Turned
<1>6. Least(D, new, n, n + 1)
  BY <1>3 DEF Least
<1>7. IsLastZero(D, e, n, l) /\ (q <=> l = 0)
  BY DEF ToJunction
<1>8. IsLastZero(D, new, n + 1, l)
  BY <1>7, LastZeroGoesOn
<1> QED BY <1>3, <1>5, <1>6, <1>7, <1>8 DEF Beyond

(* Behind it, new junctions, the 0 side first.                             *)
LEMMA BeyondBit ==
  ASSUME NEW D, D \subseteq Address, NEW F, NEW new, NEW e, NEW n, NEW b, BitWritten(new, e, n, b),
         NEW j, NEW q, Beyond(D, F, e, n, j, q), b = 1 => ~Some(D, e, n, 0),
         NEW j2, NEW q2, j2 = IF b = 0 /\ Some(D, e, n, 1) THEN n ELSE j, q2 <=> j2 = 0
  PROVE  Beyond(D, F, new, n + 1, j2, q2)
<1>1. n \in 1 .. Bits /\ n < n + 1
  BY InFront DEF BitWritten
<1>2. PICK z \in 0 .. Bits : Turned(D, F, e, n, z) /\ Least(D, e, z, n)
  BY DEF Beyond
<1>3. Least(D, new, z, n + 1)
  BY <1>2, LeastGoesOn
<1>4. Turned(D, F, new, n + 1, z)
  <2>1. CASE z = 0 /\ F = {}
    BY <2>1 DEF Turned
  <2>2. ASSUME z \in 1 .. Bits, z < n, e[z] = 1, NEW r \in D, Enumerated(D, F, r, z), Agree(e, r, z)
        PROVE  Turned(D, F, new, n + 1, z)
    <3>1. z # n /\ z < n + 1 /\ \A k \in 1 .. Bits : k < z => k # n
      BY <2>2, <1>1, BitsIs
    <3>2. new[z] = 1 /\ Agree(new, r, z)
      BY <2>2, <3>1 DEF BitWritten, Agree
    <3> QED BY <2>2, <3>1, <3>2 DEF Turned
  <2> QED BY <2>1, <2>2, <1>2 DEF Turned
<1>5. IsLastZero(D, e, n, j)
  BY DEF Beyond
<1>6. IsLastZero(D, new, n + 1, j2)
  BY <1>5, LastZeroGoesOn
<1> QED BY <1>2, <1>3, <1>4, <1>6 DEF Beyond

(* The address that is complete is the next device.                        *)
LEMMA BeyondEnds ==
  ASSUME NEW D, D \subseteq Address, NEW F, NEW e \in D, NEW j, NEW q, Beyond(D, F, e, Bits + 1, j, q)
  PROVE  e \notin F /\ Enumerated(D, F \union {e}, e, j) /\ (q <=> j = 0)
<1>1. PICK z \in 0 .. Bits : Turned(D, F, e, Bits + 1, z) /\ Least(D, e, z, Bits + 1)
  BY DEF Beyond
<1>2. IsLastZero(D, e, Bits + 1, j) /\ (q <=> j = 0)
  BY DEF Beyond
<1>3. CASE z = 0 /\ F = {}
  <2>1. UpTo(D, e) = {e}
    BY <1>1, <1>3, FirstDevice
  <2> QED BY <2>1, <1>2, <1>3 DEF Enumerated
<1>4. ASSUME z \in 1 .. Bits, e[z] = 1, NEW r \in D, Enumerated(D, F, r, z), Agree(e, r, z)
      PROVE  e \notin F /\ Enumerated(D, F \union {e}, e, j)
  <2>1. F = UpTo(D, r) /\ IsLastZero(D, r, Bits + 1, z)
    BY <1>4 DEF Enumerated
  <2>2. e \notin UpTo(D, r) /\ UpTo(D, e) = UpTo(D, r) \union {e}
    BY <2>1, <1>1, <1>4, NextDevice
  <2> QED BY <2>1, <2>2, <1>2 DEF Enumerated
<1> QED BY <1>1, <1>2, <1>3, <1>4 DEF Turned

-------------------------------------------------------------------------------
LEMMA ThermometersAre == Thermometers \subseteq Address
BY RomsAre, ThermometersAssumption

AlarmTypes ==
  /\ alarms \subseteq Thermometers /\ alarmListening \subseteq alarms
  /\ alarmSearchAddress \in Address /\ alarmSearchJunction \in 0 .. Bits /\ alarmSearchExhausted \in BOOLEAN
  /\ alarmBit \in 1 .. Bits + 1 /\ lastJunction \in 0 .. Bits /\ done \in BOOLEAN
  /\ alarmPc \in {"idle", "bits", "handler"} /\ (alarmPc = "bits" => ~alarmSearchExhausted)
  /\ alarmSteady \in BOOLEAN

(* As for search(): the devices that listen have sent the address so far.  *)
AlarmBits ==
  alarmPc = "bits" =>
    /\ \A d \in alarmListening : Agree(d, alarmSearchAddress, alarmBit)
    /\ alarmBit > 1 => \E d \in Thermometers : Agree(d, alarmSearchAddress, alarmBit)
AlarmsListen ==
  alarmSteady =>
    /\ alarmFound \subseteq alarms
    /\ alarmPc = "bits" =>
         alarmListening # {} /\ alarmListening = {d \in alarms : Agree(d, alarmSearchAddress, alarmBit)}

(* Between two calls the address is the one found last.                    *)
Between ==
  \/ alarmFound = {} /\ alarmSearchJunction = 0 /\ ~alarmSearchExhausted
  \/ /\ Enumerated(alarms, alarmFound, alarmSearchAddress, alarmSearchJunction)
     /\ alarmSearchExhausted <=> alarmSearchJunction = 0
Halfway ==
  IF alarmBit <= alarmSearchJunction
    THEN ToJunction(alarms, alarmFound, alarmSearchAddress, alarmBit, alarmSearchJunction, lastJunction, done)
    ELSE Beyond(alarms, alarmFound, alarmSearchAddress, alarmBit, alarmSearchJunction, done)
AlarmEnum == alarmSteady => IF alarmPc = "bits" THEN Halfway ELSE Between

(* The handler is called for each address that processAlarms finds.        *)
HandledInv ==
  /\ alarmPc = "handler" => caller = "processAlarms"
  /\ caller = "processAlarms" => alarmFound = handled \union (IF alarmPc = "handler" THEN {alarmSearchAddress} ELSE {})

AlarmInv == AlarmTypes /\ AlarmBits /\ AlarmsListen /\ AlarmEnum /\ HandledInv

LEMMA AlarmInit == Alarm!Init => AlarmInv
<1> SUFFICES ASSUME Alarm!Init PROVE AlarmInv
  OBVIOUS
<1>1. /\ alarms \subseteq Thermometers /\ alarmListening = {} /\ alarmSearchJunction = 0 /\ ~alarmSearchExhausted
      /\ alarmSearchExhausted \in BOOLEAN /\ alarmSearchAddress = [n \in 1 .. Bits |-> 0]
      /\ alarmBit = 1 /\ lastJunction = 0 /\ done = TRUE /\ alarmPc = "idle" /\ caller = "sketch"
      /\ alarmFound = {} /\ alarmSteady = TRUE
  BY DEF Alarm!Init, Alarm!Fresh
<1>2. alarmSearchAddress \in Address
  BY <1>1 DEF Address
<1>3. 1 \in 1 .. Bits + 1 /\ 0 \in 0 .. Bits
  BY BitsIs
<1> QED BY <1>1, <1>2, <1>3 DEF AlarmInv, AlarmTypes, AlarmBits, AlarmsListen, AlarmEnum, Between, HandledInv

(* Alarms come and go: then the enumeration is no longer steady.           *)
LEMMA AlarmChanges == ASSUME AlarmInv, NEW d \in Thermometers, Alarm!AlarmRises(d) \/ Alarm!AlarmFalls(d) PROVE AlarmInv'
<1>1. /\ alarms' \subseteq Thermometers /\ alarmListening' \subseteq alarms' /\ alarmListening' \subseteq alarmListening
      /\ alarmSteady' = FALSE
      /\ UNCHANGED <<alarmSearchAddress, alarmSearchJunction, alarmSearchExhausted, alarmBit, lastJunction, done,
                     alarmPc, caller, alarmFound, handled>>
  BY DEF Alarm!AlarmRises, Alarm!AlarmFalls, Alarm!keptVars, Alarm!localVars, AlarmInv, AlarmTypes
<1>2. AlarmTypes' /\ AlarmBits'
  BY <1>1 DEF AlarmInv, AlarmTypes, AlarmBits
<1>3. AlarmsListen' /\ AlarmEnum' /\ HandledInv'
  BY <1>1 DEF AlarmInv, AlarmsListen, AlarmEnum, HandledInv
<1> QED BY <1>2, <1>3 DEF AlarmInv

LEMMA AlarmResets == ASSUME AlarmInv, Alarm!resetAlarmSearch \/ Alarm!processAlarms PROVE AlarmInv'
<1>1. /\ alarmSearchJunction' = 0 /\ alarmSearchExhausted' = FALSE /\ alarmFound' = {} /\ alarmSteady' = TRUE /\ handled' = {}
      /\ alarmSearchAddress' = [n \in 1 .. Bits |-> IF n = Bits THEN alarmSearchAddress[n] ELSE 0]
      /\ alarmPc = "idle" /\ alarmPc' = "idle"
      /\ UNCHANGED <<alarms, alarmListening, alarmBit, lastJunction, done>>
  BY DEF Alarm!resetAlarmSearch, Alarm!processAlarms, Alarm!Reset, Alarm!busVars, Alarm!localVars
<1>2. alarmSearchAddress' \in Address
  <2>1. \A n \in 1 .. Bits : (IF n = Bits THEN alarmSearchAddress[n] ELSE 0) \in {0, 1}
    BY DEF AlarmInv, AlarmTypes, Address
  <2> QED BY <2>1, <1>1 DEF Address
<1>3. AlarmTypes'
  <2>1. 0 \in 0 .. Bits
    BY BitsIs
  <2> QED BY <2>1, <1>1, <1>2 DEF AlarmInv, AlarmTypes
<1> QED BY <1>1, <1>3 DEF AlarmInv, AlarmBits, AlarmsListen, AlarmEnum, Between, HandledInv

(* alarmSearch returns false: no device has an alarm, or all were found,   *)
(* or, unless the enumeration is steady, nobody answers any more.          *)
LEMMA AlarmEnds ==
  ASSUME AlarmInv, Alarm!SearchFails \/ Alarm!SearchLost
  PROVE  /\ AlarmInv'
         /\ caller = "processAlarms" /\ alarmSteady => handled = alarms
<1>1. /\ alarmPc' = "idle" /\ caller' = "sketch" /\ alarmListening' = {} /\ alarmBit' = 1 /\ lastJunction' = 0 /\ done' = TRUE
      /\ UNCHANGED <<alarms, alarmSearchAddress, alarmSearchJunction, alarmSearchExhausted, alarmFound, alarmSteady, handled>>
  BY DEF Alarm!SearchFails, Alarm!SearchLost, Alarm!ReturnFalse, Alarm!keptVars
<1>2. alarmPc = "idle" \/ ~alarmSteady
  <2>1. ASSUME alarmSteady, Alarm!SearchLost PROVE FALSE
    <3>1. PICK d \in alarmListening : d[alarmBit] \in {0, 1}
      BY <2>1, ThermometersAre, BitsIs DEF Alarm!SearchLost, AlarmInv, AlarmsListen, AlarmTypes, Address
    <3> QED BY <3>1, <2>1 DEF Alarm!SearchLost, Alarm!Lost, Alarm!ReadBit, Alarm!ReadComplement
  <2> QED BY <2>1 DEF Alarm!SearchFails
<1>3. AlarmTypes'
  BY <1>1, BitsIs DEF AlarmInv, AlarmTypes
<1>4. AlarmsListen' /\ AlarmBits' /\ HandledInv'
  BY <1>1 DEF AlarmInv, AlarmsListen, AlarmBits, HandledInv
<1>5. AlarmEnum'
  BY <1>1, <1>2 DEF AlarmInv, AlarmEnum, Between
<1>6. ASSUME caller = "processAlarms", alarmSteady PROVE handled = alarms
  <2>1. alarmPc = "idle" /\ alarmFound = handled /\ alarmFound \subseteq alarms /\ Between
    BY <1>2, <1>6 DEF AlarmInv, HandledInv, AlarmsListen, AlarmEnum
  <2>2. alarmSearchExhausted \/ alarms = {}
    BY <1>2, <1>6, <2>1 DEF Alarm!SearchFails, Alarm!SearchLost, Alarm!InSearch
  <2>3. CASE alarms = {}
    BY <2>1, <2>3
  <2>4. CASE alarmSearchExhausted
    <3>1. Enumerated(alarms, alarmFound, alarmSearchAddress, 0) /\ alarms \subseteq Address
      BY <2>1, <2>4, ThermometersAre DEF Between, AlarmInv, AlarmTypes
    <3> QED BY <2>1, <3>1, AllFound DEF Enumerated
  <2> QED BY <2>2, <2>3, <2>4
<1> QED BY <1>3, <1>4, <1>5, <1>6 DEF AlarmInv

LEMMA AlarmBegins == ASSUME AlarmInv, Alarm!SearchBegin PROVE AlarmInv'
<1>1. /\ alarmPc = "idle" /\ ~alarmSearchExhausted /\ alarms # {} /\ alarmListening' = alarms /\ alarmBit' = 1
      /\ lastJunction' = 0 /\ done' = TRUE /\ alarmPc' = "bits"
      /\ UNCHANGED <<alarms, alarmSearchAddress, alarmSearchJunction, alarmSearchExhausted, caller, alarmFound, alarmSteady, handled>>
  BY DEF Alarm!SearchBegin, Alarm!keptVars
<1>2. \A d, e : Agree(d, e, 1)
  BY BitsIs DEF Agree
<1>3. AlarmTypes'
  BY <1>1, BitsIs DEF AlarmInv, AlarmTypes
<1>4. AlarmBits' /\ AlarmsListen' /\ HandledInv'
  BY <1>1, <1>2 DEF AlarmInv, AlarmBits, AlarmsListen, HandledInv
<1>5. ASSUME alarmSteady PROVE Halfway'
  <2>1. IsLastZero(alarms, alarmSearchAddress, 1, 0)
    BY BitsIs DEF IsLastZero
  <2>2. CASE alarmFound = {} /\ alarmSearchJunction = 0
    <3>1. Turned(alarms, alarmFound, alarmSearchAddress, 1, 0) /\ Least(alarms, alarmSearchAddress, 0, 1) /\ 0 \in 0 .. Bits
      BY <2>2, BitsIs DEF Turned, Least
    <3>2. Beyond(alarms, alarmFound, alarmSearchAddress, 1, 0, TRUE)
      BY <2>1, <3>1 DEF Beyond
    <3>3. ~(alarmBit' <= alarmSearchJunction')
      BY <1>1, <2>2
    <3> QED BY <1>1, <2>2, <3>2, <3>3 DEF Halfway
  <2>3. CASE Enumerated(alarms, alarmFound, alarmSearchAddress, alarmSearchJunction) /\ alarmSearchJunction # 0
    <3>1. alarmBit' <= alarmSearchJunction'
      BY <1>1, <2>3, BitsIs DEF AlarmInv, AlarmTypes
    <3>2. alarmSearchAddress \in alarms /\ Agree(alarmSearchAddress, alarmSearchAddress, alarmSearchJunction + 1)
      BY <2>3 DEF Enumerated, Agree
    <3>3. ToJunction(alarms, alarmFound, alarmSearchAddress, 1, alarmSearchJunction, 0, TRUE)
      BY <2>1, <2>3, <3>2 DEF ToJunction
    <3> QED BY <1>1, <3>1, <3>3 DEF Halfway
  <2> QED BY <1>1, <1>5, <2>2, <2>3 DEF AlarmInv, AlarmEnum, Between
<1> QED BY <1>1, <1>3, <1>4, <1>5 DEF AlarmInv, AlarmEnum

LEMMA AlarmReturns ==
  ASSUME AlarmInv, Alarm!SearchFound
  PROVE  /\ AlarmInv' /\ alarmSearchAddress \in Thermometers
         /\ alarmSteady => alarmSearchAddress \notin alarmFound
<1>1. /\ alarmPc = "bits" /\ alarmBit = Bits + 1 /\ ~alarmSearchExhausted /\ (alarmSearchExhausted' <=> done)
      /\ alarmSearchExhausted' \in BOOLEAN
      /\ alarmPc' = IF caller = "processAlarms" THEN "handler" ELSE "idle"
      /\ alarmFound' = alarmFound \union {alarmSearchAddress}
      /\ alarmListening' = {} /\ alarmBit' = 1 /\ lastJunction' = 0 /\ done' = TRUE
      /\ UNCHANGED <<alarms, alarmSearchAddress, alarmSearchJunction, caller, alarmSteady, handled>>
  BY BitsIs DEF Alarm!SearchFound, AlarmInv, AlarmTypes
<1>2. alarms \subseteq Address /\ alarmSearchAddress \in Address /\ alarmSearchJunction \in 0 .. Bits
  BY ThermometersAre DEF AlarmInv, AlarmTypes
<1>3. alarmSearchAddress \in Thermometers
  <2>1. PICK d \in Thermometers : Agree(d, alarmSearchAddress, Bits + 1)
    BY <1>1, BitsIs DEF AlarmInv, AlarmBits
  <2> QED BY <2>1, <1>2, ThermometersAre, AgreeAll
<1>4. ASSUME alarmSteady
      PROVE  /\ alarmSearchAddress \in alarms /\ alarmSearchAddress \notin alarmFound
             /\ Enumerated(alarms, alarmFound \union {alarmSearchAddress}, alarmSearchAddress, alarmSearchJunction)
             /\ done <=> alarmSearchJunction = 0
  <2>1. alarmSearchAddress \in alarms
    <3>1. PICK d \in alarms : Agree(d, alarmSearchAddress, Bits + 1)
      BY <1>1, <1>4 DEF AlarmInv, AlarmsListen
    <3> QED BY <3>1, <1>2, AgreeAll
  <2>2. ~(alarmBit <= alarmSearchJunction)
    BY <1>1, <1>2, BitsIs
  <2>3. Beyond(alarms, alarmFound, alarmSearchAddress, Bits + 1, alarmSearchJunction, done)
    BY <1>1, <1>4, <2>2 DEF AlarmInv, AlarmEnum, Halfway
  <2> QED BY <2>1, <2>3, <1>2, BeyondEnds
<1>5. AlarmTypes'
  BY <1>1, BitsIs DEF AlarmInv, AlarmTypes
<1>6. AlarmBits' /\ AlarmsListen' /\ HandledInv'
  BY <1>1, <1>4 DEF AlarmInv, AlarmBits, AlarmsListen, HandledInv
<1>7. AlarmEnum'
  BY <1>1, <1>4 DEF AlarmEnum, Between
<1> QED BY <1>3, <1>4, <1>5, <1>6, <1>7 DEF AlarmInv

(* What the master reads, with the devices that listen.                    *)
Heard(n, x) == \E d \in alarmListening : d[n] = x
LEMMA AlarmReads ==
  ASSUME AlarmInv, NEW n \in 1 .. Bits, ~Alarm!Lost
  PROVE  /\ alarmBit = n => (Alarm!Conflict <=> Heard(n, 0) /\ Heard(n, 1))
         /\ alarmBit = n => Heard(n, 0) \/ Heard(n, 1)
         /\ Alarm!ReadBit(n) = IF Heard(n, 0) THEN 0 ELSE 1
<1>1. \A d \in alarmListening : d[n] \in {0, 1}
  BY ThermometersAre DEF AlarmInv, AlarmTypes, Address
<1> QED BY <1>1 DEF Alarm!Lost, Alarm!Conflict, Alarm!ReadBit, Alarm!ReadComplement, Heard

(* Every bit that is written.                                              *)
LEMMA AlarmBitIs ==
  ASSUME AlarmInv, alarmPc = "bits", alarmBit \in 1 .. Bits, NEW b \in {0, 1}, Heard(alarmBit, b), Alarm!TakeBit(b),
         alarmSearchJunction' \in 0 .. Bits, lastJunction' \in 0 .. Bits, done' \in BOOLEAN
  PROVE  /\ BitWritten(alarmSearchAddress', alarmSearchAddress, alarmBit, b)
         /\ alarmBit' = alarmBit + 1 /\ alarmPc' = "bits" /\ UNCHANGED <<alarms, alarmFound, alarmSteady>>
         /\ AlarmTypes' /\ AlarmBits' /\ AlarmsListen' /\ HandledInv'
         /\ alarmSteady => \A x : Some(alarms, alarmSearchAddress, alarmBit, x) <=> Heard(alarmBit, x)
<1> DEFINE n == alarmBit
           new == alarmSearchAddress'
<1>1. /\ new = [alarmSearchAddress EXCEPT ![n] = b]
      /\ alarmListening' = {d \in alarmListening : d[n] = b}
      /\ n' = n + 1 /\ alarmPc' = "bits"
      /\ UNCHANGED <<alarms, alarmSearchExhausted, caller, alarmFound, alarmSteady, handled>>
  BY DEF Alarm!TakeBit, Alarm!StillListening
<1>2. alarmSearchAddress \in Address /\ alarms \subseteq Address /\ alarms \subseteq Thermometers /\ alarmListening \subseteq alarms
  BY ThermometersAre DEF AlarmInv, AlarmTypes
<1>3. new \in Address /\ new[n] = b /\ \A k \in 1 .. Bits : k # n => new[k] = alarmSearchAddress[k]
  BY <1>1, <1>2 DEF Address
<1>4. BitWritten(new, alarmSearchAddress, n, b)
  BY <1>2, <1>3 DEF BitWritten
<1>5. \A d \in Address : Agree(d, new, n + 1) <=> Agree(d, alarmSearchAddress, n) /\ d[n] = b
  BY <1>4, WrittenAgrees
<1>6. \A d \in alarmListening : Agree(d, alarmSearchAddress, n)
  BY DEF AlarmInv, AlarmBits
<1>7. n + 1 \in 1 .. Bits + 1
  BY InFront
<1>8. AlarmTypes'
  <2>1. alarmListening' \subseteq alarms
    BY <1>1, <1>2
  <2> QED BY <2>1, <1>1, <1>3, <1>7 DEF AlarmInv, AlarmTypes
<1>9. AlarmBits'
  <2>1. \A d \in alarmListening' : Agree(d, new, n + 1)
    BY <1>1, <1>2, <1>5, <1>6
  <2>2. \E d \in Thermometers : Agree(d, new, n + 1)
    BY <1>2, <1>5, <1>6 DEF Heard
  <2> QED BY <2>1, <2>2, <1>1 DEF AlarmBits
<1>10. ASSUME alarmSteady
       PROVE  /\ alarmListening' # {} /\ alarmListening' = {d \in alarms : Agree(d, new, n + 1)}
              /\ \A x : Some(alarms, alarmSearchAddress, n, x) <=> Heard(n, x)
  <2>1. alarmListening = {d \in alarms : Agree(d, alarmSearchAddress, n)}
    BY <1>10 DEF AlarmInv, AlarmsListen
  <2>2. alarmListening' = {d \in alarms : Agree(d, new, n + 1)}
    BY <2>1, <1>1, <1>2, <1>5
  <2>3. alarmListening' # {}
    BY <1>1 DEF Heard
  <2> QED BY <2>1, <2>2, <2>3 DEF Some, Heard
<1>11. AlarmsListen'
  BY <1>1, <1>10 DEF AlarmInv, AlarmsListen
<1>12. HandledInv'
  BY <1>1 DEF AlarmInv, HandledInv
<1> QED BY <1>1, <1>4, <1>8, <1>9, <1>10, <1>11, <1>12

LEMMA AlarmSearches ==
  ASSUME AlarmInv, Alarm!SearchAgreed \/ Alarm!SearchJunction \/ Alarm!SearchKnown \/ Alarm!SearchNew
  PROVE  AlarmInv' /\ alarmPc' = "bits"
<1> DEFINE n == alarmBit
           e == alarmSearchAddress
           j == alarmSearchJunction
<1>1. alarmPc = "bits" /\ n \in 1 .. Bits /\ e \in Address /\ alarms \subseteq Address /\ j \in 0 .. Bits /\ lastJunction \in 0 .. Bits
  BY ThermometersAre, BitsIs
     DEF Alarm!SearchAgreed, Alarm!SearchJunction, Alarm!SearchKnown, Alarm!SearchNew, Alarm!InSearch, AlarmInv, AlarmTypes
<1>2. n \in Nat /\ n \in 0 .. Bits /\ n < n + 1 /\ j \in Int /\ lastJunction \in Int
  BY <1>1, InFront, BitsIs
<1>3. done \in BOOLEAN
  BY DEF AlarmInv, AlarmTypes
<1>4. ASSUME alarmSteady, n <= j PROVE ToJunction(alarms, alarmFound, e, n, j, lastJunction, done) /\ j \in 1 .. Bits
  BY <1>1, <1>2, <1>4 DEF AlarmInv, AlarmEnum, Halfway
<1>5. ASSUME alarmSteady, ~(n <= j) PROVE Beyond(alarms, alarmFound, e, n, j, done)
  BY <1>1, <1>5 DEF AlarmInv, AlarmEnum, Halfway
<1>6. CASE Alarm!SearchAgreed
  <2>1. /\ ~Alarm!Conflict /\ ~Alarm!Lost /\ Alarm!TakeBit(Alarm!ReadBit(n))
        /\ UNCHANGED <<alarmSearchJunction, lastJunction, done>>
    BY <1>6 DEF Alarm!SearchAgreed
  <2>2. PICK b \in {0, 1} : b = Alarm!ReadBit(n) /\ Heard(n, b) /\ ~(Heard(n, 0) /\ Heard(n, 1))
    BY <2>1, <1>1, AlarmReads
  <2>3. /\ BitWritten(e', e, n, b)
        /\ n' = n + 1 /\ alarmPc' = "bits" /\ UNCHANGED <<alarms, alarmFound, alarmSteady>>
        /\ AlarmTypes' /\ AlarmBits' /\ AlarmsListen' /\ HandledInv'
        /\ alarmSteady => \A x : Some(alarms, e, n, x) <=> Heard(n, x)
    BY <2>1, <2>2, <1>1, <1>3, AlarmBitIs
  <2>4. ASSUME alarmSteady PROVE Halfway'
    <3>1. Some(alarms, e, n, b) /\ ~(Some(alarms, e, n, 0) /\ Some(alarms, e, n, 1))
      BY <2>2, <2>3, <2>4
    <3> HIDE DEF n, e, j
    <3>2. CASE n < j
      <4>1. n <= j /\ n + 1 <= j
        BY <3>2, <1>2
      <4>2. ToJunction(alarms, alarmFound, e', n + 1, j, lastJunction, done)
        <5>1. ToJunction(alarms, alarmFound, e, n, j, lastJunction, done) /\ j \in 1 .. Bits
          BY <4>1, <1>4, <2>4
        <5>2. done <=> lastJunction = 0
          BY <5>1 DEF ToJunction
        <5>3. lastJunction = IF b = 0 /\ Some(alarms, e, n, 1) THEN n ELSE lastJunction
          BY <3>1
        <5>4. IF Some(alarms, e, n, 0) /\ Some(alarms, e, n, 1) THEN b = e[n] ELSE Some(alarms, e, n, b)
          BY <3>1
        <5> QED BY <5>1, <5>2, <5>3, <5>4, <3>2, <2>3, <1>1, KnownBit
      <4> QED BY <4>1, <4>2, <2>1, <2>3 DEF Halfway, n, e, j
    <3>3. CASE n = j
      <4>1. n <= j
        BY <3>3, <1>2
      <4>2. ToJunction(alarms, alarmFound, e, j, j, lastJunction, done) /\ j \in 1 .. Bits
        BY <4>1, <3>3, <1>4, <2>4
      <4> QED BY <4>2, <3>1, <3>3, <1>1, JunctionDiffers
    <3>4. CASE n > j
      <4>1. ~(n <= j) /\ ~(n + 1 <= j)
        BY <3>4, <1>2
      <4>2. Beyond(alarms, alarmFound, e', n + 1, j, done)
        <5>1. Beyond(alarms, alarmFound, e, n, j, done)
          BY <4>1, <1>5, <2>4
        <5>2. done <=> j = 0
          BY <5>1 DEF Beyond
        <5>3. j = IF b = 0 /\ Some(alarms, e, n, 1) THEN n ELSE j
          BY <3>1
        <5>4. b = 1 => ~Some(alarms, e, n, 0)
          BY <3>1
        <5> QED BY <5>1, <5>2, <5>3, <5>4, <2>3, <1>1, BeyondBit
      <4> QED BY <4>1, <4>2, <2>1, <2>3 DEF Halfway, n, e, j
    <3> QED BY <3>2, <3>3, <3>4, <1>2
  <2> QED BY <2>3, <2>4, <1>1 DEF AlarmInv, AlarmEnum
<1>7. CASE Alarm!SearchJunction
  <2>1. /\ Alarm!Conflict /\ n = j /\ Alarm!TakeBit(1) /\ j' = lastJunction
        /\ UNCHANGED <<lastJunction, done>>
    BY <1>7 DEF Alarm!SearchJunction
  <2>2. Heard(n, 1)
    BY <2>1, <1>1, AlarmReads DEF Alarm!Lost, Alarm!Conflict
  <2>3. /\ BitWritten(e', e, n, 1)
        /\ n' = n + 1 /\ alarmPc' = "bits" /\ UNCHANGED <<alarms, alarmFound, alarmSteady>>
        /\ AlarmTypes' /\ AlarmBits' /\ AlarmsListen' /\ HandledInv'
    BY <2>1, <2>2, <1>1, <1>3, AlarmBitIs
  <2>4. ASSUME alarmSteady PROVE Halfway'
    <3> HIDE DEF n, e, j
    <3>1. ToJunction(alarms, alarmFound, e, n, n, lastJunction, done)
      BY <2>1, <2>4, <1>2, <1>4
    <3>2. Beyond(alarms, alarmFound, e', n + 1, lastJunction, done)
      BY <3>1, <2>3, <1>1, JunctionBit
    <3>3. lastJunction < n
      BY <3>1 DEF ToJunction, IsLastZero
    <3>4. ~(n + 1 <= lastJunction)
      BY <3>3, <1>2
    <3> QED BY <3>2, <3>4, <2>1, <2>3 DEF Halfway, n, e, j
  <2> QED BY <2>3, <2>4, <1>1 DEF AlarmInv, AlarmEnum
<1>8. CASE Alarm!SearchKnown
  <2>1. /\ Alarm!Conflict /\ n < j /\ Alarm!TakeBit(e[n]) /\ j' = j
        /\ lastJunction' = IF e[n] = 0 THEN n ELSE lastJunction
        /\ done' = (done /\ e[n] = 1)
    BY <1>8 DEF Alarm!SearchKnown
  <2>2. Heard(n, 0) /\ Heard(n, 1)
    BY <2>1, <1>1, AlarmReads DEF Alarm!Lost, Alarm!Conflict
  <2>3. PICK b \in {0, 1} : b = e[n]
    BY <1>1 DEF Address
  <2>4. /\ BitWritten(e', e, n, b)
        /\ n' = n + 1 /\ alarmPc' = "bits" /\ UNCHANGED <<alarms, alarmFound, alarmSteady>>
        /\ AlarmTypes' /\ AlarmBits' /\ AlarmsListen' /\ HandledInv'
        /\ alarmSteady => \A x : Some(alarms, e, n, x) <=> Heard(n, x)
    <3>1. Heard(n, b) /\ Alarm!TakeBit(b) /\ lastJunction' \in 0 .. Bits /\ done' \in BOOLEAN /\ j' \in 0 .. Bits
      BY <2>1, <2>2, <2>3, <1>1, <1>2
    <3> QED BY <3>1, <2>3, <1>1, AlarmBitIs
  <2>5. ASSUME alarmSteady PROVE Halfway'
    <3>1. Some(alarms, e, n, 0) /\ Some(alarms, e, n, 1)
      BY <2>2, <2>4, <2>5
    <3> HIDE DEF n, e, j
    <3>2. n <= j /\ n + 1 <= j
      BY <2>1, <1>2
    <3>3. ToJunction(alarms, alarmFound, e, n, j, lastJunction, done) /\ j \in 1 .. Bits
      BY <3>2, <1>4, <2>5
    <3>4. done' <=> lastJunction' = 0
      <4>1. done <=> lastJunction = 0
        BY <3>3 DEF ToJunction
      <4>2. n # 0
        BY <1>1
      <4>3. CASE e[n] = 0
        <5>1. lastJunction' # 0
          BY <4>2, <4>3, <2>1
        <5>2. ~(e[n] = 1)
          BY <4>3
        <5> QED BY <5>1, <5>2, <2>1
      <4>4. CASE e[n] = 1
        <5>1. lastJunction' = lastJunction
          BY <4>4, <2>1
        <5> QED BY <5>1, <4>1, <4>4, <2>1, <1>3
      <4> QED BY <4>3, <4>4, <2>3
    <3>5. lastJunction' = IF b = 0 /\ Some(alarms, e, n, 1) THEN n ELSE lastJunction
      BY <3>1, <2>1, <2>3
    <3>6. ToJunction(alarms, alarmFound, e', n + 1, j, lastJunction', done')
      BY <3>1, <3>3, <3>4, <3>5, <2>1, <2>3, <2>4, <1>1, KnownBit
    <3> QED BY <3>2, <3>6, <2>1, <2>4 DEF Halfway, n, e, j
  <2> QED BY <2>4, <2>5, <1>1 DEF AlarmInv, AlarmEnum
<1>9. CASE Alarm!SearchNew
  <2>1. /\ Alarm!Conflict /\ n > j /\ Alarm!TakeBit(0) /\ j' = n /\ done' = FALSE /\ lastJunction' = lastJunction
    BY <1>9 DEF Alarm!SearchNew
  <2>2. Heard(n, 0) /\ Heard(n, 1)
    BY <2>1, <1>1, AlarmReads DEF Alarm!Lost, Alarm!Conflict
  <2>3. /\ BitWritten(e', e, n, 0)
        /\ n' = n + 1 /\ alarmPc' = "bits" /\ UNCHANGED <<alarms, alarmFound, alarmSteady>>
        /\ AlarmTypes' /\ AlarmBits' /\ AlarmsListen' /\ HandledInv'
        /\ alarmSteady => \A x : Some(alarms, e, n, x) <=> Heard(n, x)
    BY <2>1, <2>2, <1>1, <1>2, AlarmBitIs
  <2>4. ASSUME alarmSteady PROVE Halfway'
    <3>1. Some(alarms, e, n, 1)
      BY <2>2, <2>3, <2>4
    <3> HIDE DEF n, e, j
    <3>2. ~(n <= j) /\ ~(n + 1 <= n) /\ n # 0
      BY <2>1, <1>1, <1>2
    <3>3. Beyond(alarms, alarmFound, e, n, j, done)
      BY <3>2, <1>5, <2>4
    <3>4. Beyond(alarms, alarmFound, e', n + 1, n, FALSE)
      <4>1. FALSE <=> n = 0
        BY <3>2
      <4>2. n = IF 0 = 0 /\ Some(alarms, e, n, 1) THEN n ELSE j
        BY <3>1
      <4>3. Some(alarms, e, n, 0) /\ (0 = 1 => ~Some(alarms, e, n, 0))
        BY <2>2, <2>3, <2>4 DEF n, e
      <4> QED BY <3>3, <4>1, <4>2, <4>3, <2>3, <1>1, BeyondBit
    <3> QED BY <3>2, <3>4, <2>1, <2>3 DEF Halfway, n, e, j
  <2> QED BY <2>3, <2>4, <1>1 DEF AlarmInv, AlarmEnum
<1> QED BY <1>6, <1>7, <1>8, <1>9

LEMMA AlarmHandled == ASSUME AlarmInv, Alarm!HandlerCalled PROVE AlarmInv'
<1>1. /\ alarmPc = "handler" /\ alarmPc' = "idle" /\ handled' = handled \union {alarmSearchAddress}
      /\ UNCHANGED <<alarms, alarmListening, alarmSearchAddress, alarmSearchJunction, alarmSearchExhausted,
                     alarmBit, lastJunction, done, caller, alarmFound, alarmSteady>>
  BY DEF Alarm!HandlerCalled, Alarm!busVars, Alarm!keptVars, Alarm!localVars
<1> QED BY <1>1 DEF AlarmInv, AlarmTypes, AlarmBits, AlarmsListen, AlarmEnum, Between, HandledInv

LEMMA AlarmSame == ASSUME AlarmInv, UNCHANGED Alarm!vars PROVE AlarmInv'
BY DEF AlarmInv, AlarmTypes, AlarmBits, AlarmsListen, AlarmEnum, Halfway, Between, HandledInv,
       Alarm!vars, Alarm!busVars, Alarm!keptVars, Alarm!localVars

(* alarmSearch, too, returns only addresses of devices, and, as long as no *)
(* alarm comes or goes, none twice; processAlarms calls the handler once   *)
(* for each device with an alarm before it returns.  The runs check it on  *)
(* one set of devices; this is for every set and length of address.        *)
THEOREM AlarmsAreHandled == Alarm!Spec => AllHandled
<1> DEFINE Step ==
             /\ Alarm!Returns => alarmSearchAddress \in Thermometers /\ (alarmSteady => alarmSearchAddress \notin alarmFound)
             /\ caller = "processAlarms" /\ caller' = "sketch" /\ alarmSteady => handled = alarms
<1>1. AlarmInv /\ [Alarm!Next]_(Alarm!vars) => AlarmInv' /\ [Step]_(Alarm!vars)
  <2> SUFFICES ASSUME AlarmInv, Alarm!Next PROVE AlarmInv' /\ Step
    BY AlarmSame
  <2>1. CASE Alarm!SearchFails \/ Alarm!SearchLost
    <3>1. CASE Alarm!SearchFails
      BY <2>1, <3>1, AlarmEnds DEF Alarm!SearchFails, Alarm!Returns
    <3>2. CASE Alarm!SearchLost
      <4>1. alarmBit <= Bits /\ alarmBit \in 1 .. Bits + 1
        BY <3>2 DEF Alarm!SearchLost, AlarmInv, AlarmTypes
      <4>2. ~Alarm!Returns
        BY <4>1, BitsIs DEF Alarm!Returns
      <4> QED BY <2>1, <4>2, AlarmEnds
    <3> QED BY <2>1, <3>1, <3>2
  <2>2. CASE Alarm!SearchBegin
    <3>1. ~Alarm!Returns /\ caller' = caller
      BY <2>2 DEF Alarm!SearchBegin, Alarm!Returns
    <3> QED BY <2>2, <3>1, AlarmBegins
  <2>3. CASE Alarm!SearchAgreed \/ Alarm!SearchJunction \/ Alarm!SearchKnown \/ Alarm!SearchNew
    <3>1. AlarmInv' /\ alarmPc' = "bits"
      BY <2>3, AlarmSearches
    <3>2. caller' = caller
      BY <2>3 DEF Alarm!SearchAgreed, Alarm!SearchJunction, Alarm!SearchKnown, Alarm!SearchNew, Alarm!TakeBit
    <3> QED BY <3>1, <3>2 DEF Alarm!Returns
  <2>4. CASE Alarm!SearchFound
    <3>1. caller' = caller
      BY <2>4 DEF Alarm!SearchFound
    <3> QED BY <2>4, <3>1, AlarmReturns
  <2>5. CASE Alarm!HandlerCalled
    <3>1. ~Alarm!Returns /\ caller' = caller
      BY <2>5 DEF Alarm!HandlerCalled, Alarm!Returns
    <3> QED BY <2>5, <3>1, AlarmHandled
  <2>6. CASE Alarm!resetAlarmSearch \/ Alarm!processAlarms
    <3>1. ~Alarm!Returns /\ (caller = "processAlarms" => caller' = caller)
      BY <2>6 DEF Alarm!resetAlarmSearch, Alarm!processAlarms, Alarm!Returns
    <3> QED BY <2>6, <3>1, AlarmResets
  <2>7. ASSUME NEW d \in Thermometers, Alarm!AlarmRises(d) \/ Alarm!AlarmFalls(d) PROVE AlarmInv' /\ Step
    <3>1. alarmPc' = alarmPc /\ caller' = caller
      BY <2>7 DEF Alarm!AlarmRises, Alarm!AlarmFalls
    <3>2. ~Alarm!Returns
      BY <3>1 DEF Alarm!Returns
    <3> QED BY <2>7, <3>1, <3>2, AlarmChanges
  <2> QED BY <2>1, <2>2, <2>3, <2>4, <2>5, <2>6, <2>7 DEF Alarm!Next, Alarm!Search
<1> QED BY <1>1, AlarmInit, PTL DEF Alarm!Spec, AllHandled, Alarm!AllHandled
-------------------------------------------------------------------------------
(***************************************************************************)
(* Proofs about the thermometers, for every number of devices, family      *)
(* codes, power supplies, temperatures, limits, resolutions, damage of the *)
(* wire that the checksums catch, number of calls and of faults.           *)
(*                                                                         *)
(* A call of the library is the list of what it has yet to do, and only    *)
(* some lists occur (ProgramInv): who reads a scratch pad uses it next.    *)
(* What is in the buffer then is silence, which the checksum refuses, or   *)
(* what some device sent (PadInv), with the settings that the device still *)
(* has if it stayed on the bus (Conveyed).  From there a setter writes back*)
(* what it does not change (SettingsInv), and a reading is that of the     *)
(* device (ResultInv).                                                     *)
(*                                                                         *)
(* A wait is long enough because the library waits for the resolution of   *)
(* every device that it knows (SettingsInv): a second answer of begin's    *)
(* macro is not below the first, or it is 0 and nobody is known any more   *)
(* (RisingInv).  What a device on parasitic power needs is done (SeenInv), *)
(* and of every device that converts no more is left than of the wait      *)
(* (AskedInv).                                                             *)
(***************************************************************************)

(***************************************************************************)
(* The types                                                               *)
(***************************************************************************)
Cfgs == {31, 63, 95, 127}
Temps == Temperatures \union {TempPowerOn}
ThermRecords ==
  [th : -55 .. 125, tl : -55 .. 125, cfg : Cfgs, left : 0 .. 8, flag : BOOLEAN, saved : AnySettings, valid : BOOLEAN,
   wanted : AnySettings, told : AnySettings, known : BOOLEAN]
Sixteenths == -880 .. 2000
Origins == [heard : BOOLEAN, t : Temps \union {0}, flag : BOOLEAN, valid : BOOLEAN]

ThermTypeInv ==
  /\ Model \in [Devices -> {DS18S20, DS18B20, DS1822}] /\ attached \subseteq Devices
  /\ dev \in [Devices -> ThermRecords] /\ measured \in [Devices -> Temps] /\ strong \in BOOLEAN
  /\ devices \in Nat /\ bitResolution \in {0} \union 9 .. 12 /\ parasite \in BOOLEAN /\ waitForConversion \in BOOLEAN
  /\ address \in Devices \union {NoDevice} /\ depth \in 0 .. Len(Sensors) /\ origin \in Origins
  /\ asked \subseteq Devices /\ seen \subseteq Devices /\ same \subseteq Devices
  /\ calls \in 0 .. MaxCalls /\ faults \in 0 .. MaxFaults

-------------------------------------------------------------------------------
LEMMA SensorsAreDevices == \A k \in 1 .. Len(Sensors) : Sensors[k] \in Devices
  BY DEF Devices

LEMMA TemperatureRange == Temps \subseteq Sixteenths
  BY DallasAssumption DEF Temps, TempPowerOn, DallasAssumption, Sixteenths

LEMMA LimitedRange == \A v \in Int : Limited(v) \in -55 .. 125
  BY DEF Limited, Constrained

LEMMA SettingsRange ==
  \A s \in AnySettings :
    s.th \in -55 .. 125 /\ s.tl \in -55 .. 125 /\ s.cfg \in Cfgs /\ s = [th |-> s.th, tl |-> s.tl, cfg |-> s.cfg]
<1> SUFFICES ASSUME NEW s \in AnySettings
             PROVE s.th \in -55 .. 125 /\ s.tl \in -55 .. 125 /\ s.cfg \in Cfgs /\ s = [th |-> s.th, tl |-> s.tl, cfg |-> s.cfg]
  OBVIOUS
<1>1. s.th \in {75} \union {Limited(v) : v \in Highs} /\ s.tl \in {70} \union {Limited(v) : v \in Lows} /\ s.cfg \in Cfgs
  BY DEF AnySettings, Cfgs, Settings
<1>2. Highs \subseteq Int /\ Lows \subseteq Int
  <2>1. Highs \union Lows \subseteq -128 .. 127
    BY DallasAssumption DEF DallasAssumption
  <2>2. -128 .. 127 \subseteq Int
    OBVIOUS
  <2> QED
    BY <2>1, <2>2
<1>3. s.th \in -55 .. 125 /\ s.tl \in -55 .. 125
  BY <1>1, <1>2, LimitedRange
<1>4. s = [th |-> s.th, tl |-> s.tl, cfg |-> s.cfg]
  BY DEF AnySettings
<1> QED
  BY <1>1, <1>3, <1>4

LEMMA FactorySettings == Settings \in AnySettings
  BY DEF Settings, AnySettings

LEMMA PowerOnType == ASSUME NEW x, x.saved \in AnySettings, x.told \in AnySettings PROVE PowerOn(x) \in ThermRecords
<1>1. x.saved.th \in -55 .. 125 /\ x.saved.tl \in -55 .. 125 /\ x.saved.cfg \in Cfgs
  BY SettingsRange
<1> QED
  BY <1>1 DEF PowerOn, ThermRecords

LEMMA FactoryType == FromFactory \in ThermRecords
  BY FactorySettings, PowerOnType DEF FromFactory

(* The resolutions and their times.                                        *)
LEMMA BitsOf == BitsFor(31) = 9 /\ BitsFor(63) = 10 /\ BitsFor(95) = 11 /\ BitsFor(127) = 12
  BY DEF BitsFor

LEMMA CfgBits == \A cfg \in Cfgs : BitsFor(cfg) \in 9 .. 12
  BY BitsOf DEF Cfgs

LEMMA UnitsAre == UnitsOf(9) = 1 /\ UnitsOf(10) = 2 /\ UnitsOf(11) = 4 /\ UnitsOf(12) = 8 /\ UnitsOf(0) = 8
  BY DEF UnitsOf

LEMMA ConversionTimes == ASSUME NEW d, NEW cfg \in Cfgs PROVE ConversionTime(d, cfg) \in 1 .. 8
  BY BitsOf, UnitsAre DEF ConversionTime, Cfgs

LEMMA CfgsSet == \A bits \in Nat : Cfg(bits) \in Cfgs /\ BitsFor(Cfg(bits)) \in 9 .. 12 /\ (bits \in 9 .. 12 => BitsFor(Cfg(bits)) = bits) /\ (bits \notin 9 .. 12 => BitsFor(Cfg(bits)) = 9)
  BY BitsOf DEF Cfg, Cfgs

(* What a reset of the bus leaves has its type.                            *)
LEMMA ResetType == ASSUME ThermTypeInv PROVE AfterReset \in [Devices -> ThermRecords] /\ MeasuredAfterReset \in [Devices -> Temps]
<1>1. \A d \in Devices : PowerOn(dev[d]) \in ThermRecords
  BY PowerOnType DEF ThermTypeInv, ThermRecords
<1> QED
  BY <1>1 DEF ThermTypeInv, AfterReset, MeasuredAfterReset, Temps

-------------------------------------------------------------------------------
LEMMA OctetsSigned == \A v \in -128 .. 127 : Signed(Octet(v)) = v
  BY DEF Signed, Octet

Conveys(octets, model, t, kept) == \A k \in Used(model) : octets[k] = ScratchPad(model, t, kept)[k]

LEMMA Halves == ASSUME NEW y \in Int PROVE y = 256 * (y \div 256) + (y % 256)
  OBVIOUS

(* The two octets of a temperature, read as an int16_t.                    *)
LEMMA WordsSigned ==
  ASSUME NEW x \in Sixteenths
  PROVE LET w == 256 * ((x % 65536) \div 256) + ((x % 65536) % 256)
        IN (IF w > 32767 THEN w - 65536 ELSE w) = x
<1> DEFINE y == x % 65536
<1>1. x \in Int /\ -880 <= x /\ x <= 2000
  BY DEF Sixteenths
<1>2. CASE x >= 0
  <2>1. y = x
    BY <1>1, <1>2
  <2> HIDE DEF y
  <2> QED
    BY <1>1, <1>2, <2>1, Halves DEF y
<1>3. CASE x < 0
  <2>1. y = x + 65536
    BY <1>1, <1>3
  <2>2. y = 256 * (y \div 256) + (y % 256)
    <3>1. y \in Int
      BY <1>1, <2>1
    <3> HIDE DEF y
    <3> QED
      BY <3>1, Halves
  <2>3. y > 32767 /\ y - 65536 = x
    BY <1>1, <2>1
  <2> QED
    BY <2>2, <2>3
<1> QED
  BY <1>1, <1>2, <1>3

LEMMA ScratchPadOctets ==
  ASSUME NEW model, NEW t, NEW kept
  PROVE /\ ScratchPad(model, t, kept)[1] = TempOctets(model, t) % 256
        /\ ScratchPad(model, t, kept)[2] = TempOctets(model, t) \div 256
        /\ ScratchPad(model, t, kept)[3] = Octet(kept.th)
        /\ ScratchPad(model, t, kept)[4] = Octet(kept.tl)
        /\ ScratchPad(model, t, kept)[5] = kept.cfg
        /\ ScratchPad(model, t, kept)[7] = Remain(t)
        /\ ScratchPad(model, t, kept)[8] = 16
  BY DEF ScratchPad

(* A scratch pad that arrives with the right sum conveys a temperature and *)
(* settings, by the hypothesis about the sums.                             *)
LEMMA PadIsUsed ==
  ASSUME NEW t \in Temps, NEW kept \in AnySettings, ThermTypeInv, address \in Devices, Conveys(pad, Model[address], t, kept)
  PROVE /\ Signed(pad[3]) = kept.th /\ Signed(pad[4]) = kept.tl /\ pad[5] = kept.cfg
        /\ Raw = IF Model[address] = DS18S20 THEN 2 * ((t + 4) \div 16) ELSE t
        /\ Model[address] = DS18S20 => pad[7] = Remain(t) /\ pad[8] = 16
<1> DEFINE model == Model[address]
           x == IF model = DS18S20 THEN 2 * ((t + 4) \div 16) ELSE t
<1>1. t \in Sixteenths
  BY TemperatureRange
<1>2. x \in Sixteenths
  BY <1>1 DEF Sixteenths
<1>3. {1, 2, 3, 4, 5} \subseteq Used(model) /\ (model = DS18S20 => {7, 8} \subseteq Used(model))
  BY DEF Used
<1>4. pad[1] = (x % 65536) % 256 /\ pad[2] = (x % 65536) \div 256
  BY <1>3, ScratchPadOctets DEF Conveys, TempOctets
<1>5. Raw = x
  <2> HIDE DEF x
  <2> QED
    BY <1>2, <1>4, WordsSigned DEF Raw, Word
<1>6. pad[3] = Octet(kept.th) /\ pad[4] = Octet(kept.tl) /\ pad[5] = kept.cfg
  BY <1>3, ScratchPadOctets DEF Conveys
<1>7. Signed(pad[3]) = kept.th /\ Signed(pad[4]) = kept.tl
  BY <1>6, SettingsRange, OctetsSigned
<1>8. model = DS18S20 => pad[7] = Remain(t) /\ pad[8] = 16
  BY <1>3, ScratchPadOctets DEF Conveys
<1> QED
  BY <1>5, <1>6, <1>7, <1>8

(* And calculateTemperature gives that temperature, rounded down.          *)
LEMMA Calculated ==
  ASSUME NEW t \in Temps, NEW kept \in AnySettings, ThermTypeInv, address \in Devices, Conveys(pad, Model[address], t, kept)
  PROVE /\ Model[address] = DS18S20 => CalculateTemperature = t
        /\ Model[address] # DS18S20 => CalculateTemperature = StepOf(kept.cfg) * (t \div StepOf(kept.cfg))
<1>1. t \in Sixteenths
  BY TemperatureRange
<1>2. CASE Model[address] = DS18S20
  <2>1. Raw = 2 * ((t + 4) \div 16) /\ pad[7] = 16 - ((t + 4) % 16) /\ pad[8] = 16
    BY <1>2, PadIsUsed DEF Remain
  <2>2. Raw \div 2 = (t + 4) \div 16
    BY <2>1, <1>1 DEF Sixteenths
  <2>3. (16 * (pad[8] - pad[7])) \div pad[8] = (t + 4) % 16
    BY <2>1, <1>1 DEF Sixteenths
  <2> QED
    BY <2>1, <2>2, <2>3, <1>1, <1>2 DEF CalculateTemperature, Sixteenths
<1>3. CASE Model[address] # DS18S20
  <2>1. kept.cfg \in Cfgs
    BY SettingsRange
  <2> QED
    BY <1>3, <2>1, PadIsUsed DEF CalculateTemperature, Cfgs
<1> QED
  BY <1>2, <1>3

(***************************************************************************)
(* What a call still has to do                                             *)
(***************************************************************************)
O(op, v) == [op |-> op, v |-> v]
Users == {"temp", "alarm", "high", "low", "resolution", "setTh", "setTl", "setCfg", "max", "store", "connected", "wait"}
Reads == {"temp", "alarm", "high", "low", "resolution"}
(* The writes that a sketch may ask for: as the resolution of one device   *)
(* none finer than what the library waits for.                             *)
Writes ==
  {O("setTh", Limited(celsius)) : celsius \in Highs} \union {O("setTl", Limited(celsius)) : celsius \in Lows}
  \union {O("setCfg", bits) : bits \in {b \in Resolutions : Finer \/ b <= bitResolution}}

Finding ==
  todo \in {<<O("find", 0)>>, <<O("power", 0), O("read", 0), O("max", 0), O("find", 0)>>,
            <<O("read", 0), O("max", 0), O("find", 0)>>, <<O("max", 0), O("find", 0)>>,
            <<O("read", 0), O("store", 0), O("find", 0)>>, <<O("store", 0), O("find", 0)>>}
Asking == todo \in {<<O("read", 0), O("connected", 0)>>, <<O("connected", 0)>>, <<O("read", 0), O("wait", 0)>>, <<O("wait", 0)>>}
Requesting ==
  \/ todo \in {<<O("convertAll", 0)>>, <<O("convertOne", 0)>>}
  \/ \E i \in 0 .. Len(Sensors) : todo = <<O("address", i), O("convertOne", 0)>>
Delaying == \E v \in 1 .. 8 : todo = <<O("delay", v)>>
Reading ==
  \/ \E op \in Reads : todo \in {<<O("read", 0), O(op, 0)>>, <<O(op, 0)>>}
  \/ \E i \in 0 .. Len(Sensors) : todo = <<O("address", i), O("read", 0), O("temp", 0)>>
Writing == \E w \in Writes : todo \in {<<O("read", 0), w>>, <<w>>}
WritingAll ==
  \/ \E i \in 0 .. devices : todo = <<O("setAll", i)>>
  \/ \E i \in 1 .. devices :
       LET w == O("setCfg", bitResolution)
           all == O("setAll", i)
       IN todo \in {<<O("address", i - 1), O("read", 0), w, all>>, <<O("read", 0), w, all>>, <<w, all>>}

(* The lists that occur: those of begin, of a request and of what it asks  *)
(* next, of its wait, of a reading, of a setter and of the setter for all. *)
ProgramInv == todo = <<>> \/ Finding \/ Requesting \/ Asking \/ Delaying \/ Reading \/ Writing \/ WritingAll

(* Programs put together.                                                  *)
LEMMA Two == ASSUME NEW a, NEW b PROVE <<a>> \o <<b>> = <<a, b>>
<1> DEFINE S == {a, b}
           s == <<a>> \o <<b>>
<1>1. <<a>> \in Seq(S) /\ <<b>> \in Seq(S)
  OBVIOUS
<1>2. s \in Seq(S) /\ Len(s) = 2 /\ s[1] = a /\ s[2] = b
  BY <1>1
<1>3. s = [i \in 1 .. 2 |-> s[i]]
  BY <1>2
<1> HIDE DEF s
<1>4. s = <<a, b>>
  BY <1>2, <1>3
<1> QED
  BY <1>4 DEF s

LEMMA Three == ASSUME NEW a, NEW b, NEW c PROVE <<a, b>> \o <<c>> = <<a, b, c>>
<1> DEFINE S == {a, b, c}
           s == <<a, b>> \o <<c>>
<1>1. <<a, b>> \in Seq(S) /\ <<c>> \in Seq(S)
  OBVIOUS
<1>2. s \in Seq(S) /\ Len(s) = 3 /\ s[1] = a /\ s[2] = b /\ s[3] = c
  BY <1>1
<1>3. s = [i \in 1 .. 3 |-> s[i]]
  BY <1>2
<1> HIDE DEF s
<1>4. s = <<a, b, c>>
  BY <1>2, <1>3
<1> QED
  BY <1>4 DEF s

LEMMA Four == ASSUME NEW a, NEW b, NEW c, NEW e PROVE <<a, b, c>> \o <<e>> = <<a, b, c, e>>
<1> DEFINE S == {a, b, c, e}
           s == <<a, b, c>> \o <<e>>
<1>1. <<a, b, c>> \in Seq(S) /\ <<e>> \in Seq(S)
  OBVIOUS
<1>2. s \in Seq(S) /\ Len(s) = 4 /\ s[1] = a /\ s[2] = b /\ s[3] = c /\ s[4] = e
  BY <1>1
<1>3. s = [i \in 1 .. 4 |-> s[i]]
  BY <1>2
<1> HIDE DEF s
<1>4. s = <<a, b, c, e>>
  BY <1>2, <1>3
<1> QED
  BY <1>4 DEF s

LEMMA DoIs == \A op, v : Do(op, v) = <<O(op, v)>>
  BY DEF Do, O

LEMMA DoTwo == \A p, v, q, w : Do(p, v) \o Do(q, w) = <<O(p, v), O(q, w)>>
  BY DoIs, Two

LEMMA DoThree == \A p, v, q, w, r, u : Do(p, v) \o Do(q, w) \o Do(r, u) = <<O(p, v), O(q, w), O(r, u)>>
<1> SUFFICES ASSUME NEW p, NEW v, NEW q, NEW w, NEW r, NEW u
             PROVE  Do(p, v) \o Do(q, w) \o Do(r, u) = <<O(p, v), O(q, w), O(r, u)>>
  OBVIOUS
<1>1. Do(p, v) \o Do(q, w) = <<O(p, v), O(q, w)>>
  BY DoTwo
<1>2. <<O(p, v), O(q, w)>> \o <<O(r, u)>> = <<O(p, v), O(q, w), O(r, u)>>
  BY Three
<1> QED
  BY <1>1, <1>2, DoIs

LEMMA Popped ==
  /\ \A a : <<>> \o Tail(<<a>>) = <<>>
  /\ \A a, b : <<>> \o Tail(<<a, b>>) = <<b>>
  /\ \A a, b, c : <<>> \o Tail(<<a, b, c>>) = <<b, c>>
  /\ \A a, b, c, e : <<>> \o Tail(<<a, b, c, e>>) = <<b, c, e>>
  OBVIOUS

LEMMA Rest == (\A a, b : Tail(<<a, b>>) = <<b>>) /\ (\A a : <<>> \o <<a>> = <<a>>)
  OBVIOUS

LEMMA Replaced ==
  /\ \A a, x : <<x>> \o Tail(<<a>>) = <<x>>
  /\ \A a, x, y : <<x, y>> \o Tail(<<a>>) = <<x, y>>
  /\ \A a, x, y, z : <<x, y, z>> \o Tail(<<a>>) = <<x, y, z>>
  /\ \A a, x, y, z, u : <<x, y, z, u>> \o Tail(<<a>>) = <<x, y, z, u>>
  OBVIOUS

WriteOps == {"setTh", "setTl", "setCfg"}
LEMMA WritesAre ==
  \A w \in Writes : w.op \in WriteOps /\ w = O(w.op, w.v)
<1> SUFFICES ASSUME NEW w \in Writes PROVE w.op \in WriteOps /\ w = O(w.op, w.v)
  OBVIOUS
<1>1. \E op \in WriteOps : \E v : w = O(op, v)
  BY DEF Writes, WriteOps
<1> QED
  BY <1>1 DEF O

LEMMA Firsts ==
  /\ \A a : <<a>>[1] = a
  /\ \A a, b : <<a, b>>[1] = a
  /\ \A a, b, c : <<a, b, c>>[1] = a
  /\ \A a, b, c, e : <<a, b, c, e>>[1] = a
  OBVIOUS

LEMMA OpOf == \A op, v : O(op, v).op = op /\ O(op, v).v = v
  BY DEF O

LEMMA Heads ==
  ASSUME NEW op, Doing(op)
  PROVE  /\ \A a : todo = <<a>> => a.op = op
         /\ \A a, b : todo = <<a, b>> => a.op = op
         /\ \A a, b, c : todo = <<a, b, c>> => a.op = op
         /\ \A a, b, c, e : todo = <<a, b, c, e>> => a.op = op
  BY DEF Doing

(* A read is followed by what uses it.                                     *)
LEMMA ReadGoes ==
  ASSUME ProgramInv, Doing("read"), Goes(<<>>), UNCHANGED <<bitResolution, devices>>
  PROVE  ProgramInv' /\ todo' # <<>> /\ todo'[1].op \in Users /\ (Finding => Finding') /\ (Finding' => Finding) /\ (Asking => Asking')
         /\ (Asking' => Asking)
<1>0. /\ Writes' = Writes
      /\ \A op : op \in Reads \/ op \in WriteOps => op \in Users
      /\ {"connected", "wait", "max", "store"} \subseteq Users
  BY DEF Writes, Users, Reads, WriteOps
<1>1. CASE Finding
  <2>1. PICK op \in {"max", "store"} : todo = <<O("read", 0), O(op, 0), O("find", 0)>>
    BY <1>1 DEF Doing, Finding, O
  <2>2. todo' = <<O(op, 0), O("find", 0)>>
    BY <2>1, Popped DEF Goes
  <2> QED
    BY <1>0, <2>1, <2>2 DEF ProgramInv, Finding, Asking, O
<1>2. CASE Asking
  <2>1. todo = <<O("read", 0), O("connected", 0)>> \/ todo = <<O("read", 0), O("wait", 0)>>
    BY <1>2 DEF Doing, Asking, O
  <2>2. todo' = <<O("connected", 0)>> \/ todo' = <<O("wait", 0)>>
    BY <2>1, Popped DEF Goes
  <2> QED
    BY <1>0, <2>1, <2>2 DEF ProgramInv, Finding, Asking, O
<1>3. CASE Reading
  <2>1. PICK op \in Reads : todo = <<O("read", 0), O(op, 0)>>
    BY <1>3 DEF Doing, Reading, O, Reads
  <2>2. todo' = <<O(op, 0)>>
    BY <2>1, Popped DEF Goes
  <2>3. Reading'
    BY <2>2 DEF Reading
  <2> QED
    BY <1>0, <2>1, <2>2, <2>3 DEF ProgramInv, Finding, Asking, O, Reads
<1>4. CASE Writing
  <2>0. PICK w \in Writes : todo \in {<<O("read", 0), w>>, <<w>>}
    BY <1>4 DEF Writing
  <2>1. todo = <<O("read", 0), w>>
    <3>1. w.op # "read"
      BY WritesAre DEF WriteOps
    <3>2. todo # <<w>>
      BY <3>1, Firsts DEF Doing
    <3> QED
      BY <2>0, <3>2
  <2>2. todo' = <<w>>
    BY <2>1, Popped DEF Goes
  <2>3. Writing'
    BY <1>0, <2>2 DEF Writing
  <2> QED
    BY <1>0, <2>1, <2>2, <2>3, WritesAre DEF ProgramInv, Finding, Asking, O, WriteOps
<1>5. CASE WritingAll
  <2> DEFINE w == O("setCfg", bitResolution)
  <2>0. \A i \in 0 .. devices : todo # <<O("setAll", i)>>
    BY Heads DEF O
  <2>1. PICK i \in 1 .. devices : todo \in {<<O("address", i - 1), O("read", 0), w, O("setAll", i)>>, <<O("read", 0), w, O("setAll", i)>>, <<w, O("setAll", i)>>}
    BY <1>5, <2>0 DEF WritingAll
  <2>4. todo = <<O("read", 0), w, O("setAll", i)>>
    BY <2>1, Heads DEF O
  <2>2. todo' = <<w, O("setAll", i)>>
    BY <2>4, Popped DEF Goes
  <2>3. WritingAll'
    BY <2>2 DEF WritingAll
  <2> QED
    BY <1>0, <2>4, <2>2, <2>3 DEF ProgramInv, Finding, Asking, O, WriteOps
<1>6. ~Requesting
  BY Heads DEF Requesting, O
<1>7. ~Delaying
  BY DEF Doing, Delaying, O
<1> QED
  BY <1>1, <1>2, <1>3, <1>4, <1>5, <1>6, <1>7 DEF ProgramInv, Doing

(* Settings that a device x may have, octet by octet; and what the sketch  *)
(* has set since the power came is what it has set last or else the        *)
(* factory's.                                                              *)
Told(kept, x) == kept.th \in {x.wanted.th, x.told.th} /\ kept.tl \in {x.wanted.tl, x.told.tl} /\ kept.cfg \in {x.wanted.cfg, x.told.cfg}
Wanted(x) ==
  /\ x.wanted.th \in {Settings.th, x.told.th} /\ x.wanted.tl \in {Settings.tl, x.told.tl}
  /\ x.wanted.cfg \in {Settings.cfg, x.told.cfg}
(* The settings of a device: model, what it keeps, what it has measured,   *)
(* the resolution the library waits for.                                   *)
SettingsOf(model, x, t, bits) ==
  /\ [th |-> x.th, tl |-> x.tl, cfg |-> x.cfg] \in AnySettings
  /\ Told(x, x) /\ Wanted(x) /\ x.saved = Settings
  /\ model = DS18S20 => x.cfg = Settings.cfg
  /\ x.valid => x.flag = (t \div 16 <= x.tl \/ t \div 16 >= x.th)
  /\ ~Finer /\ x.known /\ model # DS18S20 => BitsFor(x.cfg) <= bits \/ x.cfg = 31
SettingsInv == \A d \in Devices : SettingsOf(Model[d], dev[d], measured[d], bitResolution)

(* Somebody sent what is in the buffer: at least the octets that are used, *)
(* with settings that it still has if it stayed.                           *)
Conveyed ==
  /\ address \in Devices /\ origin.heard /\ origin.t \in Temps
  /\ \E kept \in AnySettings :
       /\ Conveys(pad, Model[address], origin.t, kept)
       /\ Model[address] = DS18S20 => kept.cfg = Settings.cfg
       /\ origin.valid => origin.flag = (origin.t \div 16 <= kept.tl \/ origin.t \div 16 >= kept.th)
       /\ address \in same => Kept(address) = kept /\ ~Fails(address)
       /\ Told(kept, dev[address])
       /\ Finding => BitsFor(kept.cfg) <= BitsFor(dev[address].cfg)
(* In the midst of a call the buffer holds silence, or what the next step  *)
(* is to use: then, if its sum is right, it is what a device sent.         *)
PadInv == todo # <<>> => pad = Silence(9) \/ (Head1.op \in Users /\ (IsConnected => Conveyed))

(* What a call returns it returns last.                                    *)
ResultInv == (todo # <<>> => result = <<"nothing">>) /\ ReadingsAgree

Found == Finding /\ todo # <<O("find", 0)>>
(* A second answer is not below bitResolution, unless it is 0.             *)
RisingInv ==
  /\ todo = <<O("read", 0), O("store", 0), O("find", 0)>> => Model[address] # DS18S20 /\ bitResolution <= BitsFor(dev[address].cfg)
  /\ todo = <<O("store", 0), O("find", 0)>> => GetResolution = 0 \/ bitResolution <= GetResolution
(* Begin has asked the devices it has counted, and what those need that    *)
(* draw their power from the line is known.                                *)
SeenInv ==
  /\ asked \subseteq seen /\ seen \subseteq attached /\ seen \subseteq same
  /\ seen \intersect Parasitic # {} => parasite
  /\ Doing("power") => ~parasite
  /\ Found => address \in Devices /\ (address \in same => address \in attached)
  /\ Found /\ ~Doing("power") /\ address \in same \intersect Parasitic => parasite
  /\ Found => RisingInv

Exempt(d) == Model[d] = DS18S20 \/ (d \in Parasitic /\ d = address)
Done(x) == x.left = 0 /\ x.valid
(* During a wait no device that converts needs longer than what is left of *)
(* it; while the library asks a device whether it is there, that one alone *)
(* converts, and needs what its resolution says.                           *)
AskedInv ==
  /\ Doing("delay") => \A d \in asked : Exempt(d) \/ Done(dev[d]) \/ dev[d].left \in 1 .. Head1.v
  /\ Asking => \A d \in asked : Exempt(d) \/ (d = address /\ dev[d].left = UnitsOf(BitsFor(dev[d].cfg)))

(* The inductive invariant.                                                *)
ThermInv == ThermTypeInv /\ ProgramInv /\ PadInv /\ SettingsInv /\ ResultInv /\ SeenInv /\ (~Finer => AskedInv)
-------------------------------------------------------------------------------
LEMMA PowerOnSettings == ASSUME NEW model, NEW x, NEW t, NEW bits, x.saved = Settings PROVE SettingsOf(model, PowerOn(x), t, bits)
<1> DEFINE y == PowerOn(x)
<1>1. /\ y.th = Settings.th /\ y.tl = Settings.tl /\ y.cfg = Settings.cfg /\ y.saved = Settings /\ y.valid = FALSE
      /\ y.wanted = Settings /\ y.known = FALSE
  BY DEF PowerOn
<1> HIDE DEF y
<1>2. [th |-> y.th, tl |-> y.tl, cfg |-> y.cfg] = Settings
  BY <1>1 DEF Settings
<1>3. SettingsOf(model, y, t, bits)
  BY <1>1, <1>2, FactorySettings DEF SettingsOf, Told, Wanted
<1> QED
  BY <1>3 DEF y

(* Settings stay good when the library waits longer.                       *)
LEMMA WiderSettings ==
  ASSUME NEW model, NEW x \in ThermRecords, NEW t, NEW b \in {0} \union 9 .. 12, NEW c \in {0} \union 9 .. 12, b <= c, SettingsOf(model, x, t, b)
  PROVE  SettingsOf(model, x, t, c)
<1>1. BitsFor(x.cfg) \in Int
  BY BitsOf DEF ThermRecords, Cfgs
<1> QED
  BY <1>1 DEF SettingsOf

LEMMA ResetSettings ==
  ASSUME ThermTypeInv, SettingsInv, NEW d \in Devices
  PROVE  SettingsOf(Model[d], AfterReset[d], MeasuredAfterReset[d], bitResolution)
<1>1. AfterReset[d] = (IF Fails(d) THEN PowerOn(dev[d]) ELSE dev[d]) /\ MeasuredAfterReset[d] = IF Fails(d) THEN TempPowerOn ELSE measured[d]
  BY DEF AfterReset, MeasuredAfterReset
<1>2. dev[d].saved = Settings
  BY DEF SettingsInv, SettingsOf
<1> QED
  BY <1>1, <1>2, PowerOnSettings DEF SettingsInv

(* A reset makes only those devices forget whose conversion it cuts off.   *)
LEMMA ResetKeeps ==
  ASSUME ThermTypeInv, SettingsInv, ResetBus, dev' = AfterReset, UNCHANGED <<Model, bitResolution>>
  PROVE  /\ SettingsInv'
         /\ \A d \in Devices : ~Fails(d) => dev'[d] = dev[d] /\ measured'[d] = measured[d]
         /\ \A d \in Devices : ~Fails(d)'
<1>1. SettingsInv'
  BY ResetSettings DEF SettingsInv, ResetBus
<1>2. \A d \in Devices : ~Fails(d) => dev'[d] = dev[d] /\ measured'[d] = measured[d]
  BY DEF ResetBus, AfterReset, MeasuredAfterReset
<1>3. \A d \in Devices : ~Fails(d)'
  BY DEF AfterReset, Fails, PowerOn
<1> QED
  BY <1>1, <1>2, <1>3

(* Nobody is taken for a device.                                           *)
LEMMA SilenceRefused == ASSUME ChecksumsCatch PROVE ~Accepted(Silence(9))
<1>1. SubSeq(Silence(9), 1, 8) = Silence(8) /\ Silence(9)[9] = 255
  BY DEF Silence
<1> QED
  BY <1>1 DEF ChecksumsCatch, Accepted

LEMMA SilenceIsRefused == ASSUME ChecksumsCatch, pad = Silence(9) PROVE ~IsConnected
  BY SilenceRefused DEF IsConnected

LEMMA ConnectedIsHeard == ASSUME ChecksumsCatch, PadInv, todo # <<>>, IsConnected PROVE Conveyed
  BY SilenceIsRefused DEF PadInv

(* What was sent stays so, if the device keeps or loses its power.         *)
LEMMA FewerSame ==
  ASSUME ThermTypeInv, SettingsInv, Conveyed, UNCHANGED <<Model, todo, address, origin, pad>>, same' \subseteq same,
         dev'[address] \in {dev[address], PowerOn(dev[address])}, address \in same' => dev'[address] = dev[address]
  PROVE Conveyed'
<1> DEFINE x == dev[address]
           y == dev'[address]
<1>1. PICK kept \in AnySettings :
       /\ Conveys(pad, Model[address], origin.t, kept)
       /\ Model[address] = DS18S20 => kept.cfg = Settings.cfg
       /\ origin.valid => origin.flag = (origin.t \div 16 <= kept.tl \/ origin.t \div 16 >= kept.th)
       /\ address \in same => Kept(address) = kept /\ ~Fails(address)
       /\ Told(kept, dev[address])
       /\ Finding => BitsFor(kept.cfg) <= BitsFor(dev[address].cfg)
  BY DEF Conveyed
<1>2. address \in same' => Kept(address)' = kept /\ ~Fails(address)'
  BY <1>1 DEF Kept, Fails
<1>3. /\ Conveys(pad', Model'[address'], origin'.t, kept)
      /\ Model'[address'] = DS18S20 => kept.cfg = Settings.cfg
      /\ origin'.valid => origin'.flag = (origin'.t \div 16 <= kept.tl \/ origin'.t \div 16 >= kept.th)
  BY <1>1
<1>4. address' \in Devices /\ origin'.heard /\ origin'.t \in Temps
  BY DEF Conveyed
<1>5. x \in ThermRecords /\ SettingsOf(Model[address], x, measured[address], bitResolution)
  BY DEF Conveyed, ThermTypeInv, SettingsInv
<1>6. Told(kept, y) /\ (Finding => BitsFor(kept.cfg) <= BitsFor(y.cfg))
  <2>1. CASE y = x
    BY <1>1, <2>1
  <2>2. CASE y = PowerOn(x)
    <3>1. y.wanted = Settings /\ y.told = x.told /\ y.cfg = Settings.cfg
      BY <1>5, <2>2 DEF PowerOn, SettingsOf
    <3>2. Told(kept, x) /\ Wanted(x)
      BY <1>1, <1>5 DEF SettingsOf
    <3>3. BitsFor(kept.cfg) <= BitsFor(Settings.cfg)
      BY SettingsRange, CfgBits, BitsOf DEF Settings
    <3> HIDE DEF x, y
    <3> QED
      BY <3>1, <3>2, <3>3 DEF Told, Wanted
  <2> QED
    BY <2>1, <2>2
<1>7. (Finding)' = Finding
  BY DEF Finding
<1> QED
  BY <1>2, <1>3, <1>4, <1>6, <1>7 DEF Conveyed

(* What a step of a call leaves alone, if it resets the bus or not.        *)
LEMMA NothingReturned ==
  ASSUME ResultInv, todo # <<>>, UNCHANGED result
  PROVE  ResultInv'
  BY DEF ResultInv, ReadingsAgree, ReadsMeasured, AlarmAgrees

LEMMA StillReturned ==
  ASSUME ResultInv, UNCHANGED <<todo, result, address, pad, origin, Model>>
  PROVE  ResultInv'
  BY DEF ResultInv, ReadingsAgree, ReadsMeasured, AlarmAgrees, IsConnected, StepOf

LEMMA ReadType == ASSUME ThermTypeInv, ReadScratchPad PROVE ThermTypeInv'
<1>1. dev' \in [Devices -> ThermRecords] /\ measured' \in [Devices -> Temps] /\ strong' \in BOOLEAN
  BY ResetType DEF ReadScratchPad, ResetBus
<1>2. origin' \in Origins /\ faults' \in 0 .. MaxFaults
  <2>1. CASE Selected = {} \/ Fails(address)
    <3>1. origin' = NoOrigin /\ UNCHANGED faults
      BY <2>1 DEF ReadScratchPad
    <3>2. NoOrigin \in Origins
      BY DEF NoOrigin, Origins
    <3> QED
      BY <3>1, <3>2 DEF ThermTypeInv
  <2>2. CASE ~(Selected = {} \/ Fails(address))
    <3>1. address \in Devices
      BY <2>2 DEF ThermTypeInv, Selected
    <3>2. origin' \in Origins
      <4>1. origin' = [heard |-> TRUE, t |-> measured[address], flag |-> dev[address].flag, valid |-> dev[address].valid]
        BY <2>2 DEF ReadScratchPad
      <4>2. measured[address] \in Temps /\ dev[address] \in ThermRecords
        BY <3>1 DEF ThermTypeInv
      <4>3. dev[address].flag \in BOOLEAN /\ dev[address].valid \in BOOLEAN
        BY <4>2 DEF ThermRecords
      <4> QED
        BY <4>1, <4>2, <4>3 DEF Origins
    <3>3. faults' = faults \/ (faults # MaxFaults /\ faults' = faults + 1)
      BY <2>2 DEF ReadScratchPad, Damaged
    <3> QED
      BY <3>2, <3>3, DallasAssumption DEF ThermTypeInv, DallasAssumption
  <2> QED
    BY <2>1, <2>2
<1> QED
  BY <1>1, <1>2 DEF ReadScratchPad, ThermTypeInv, library, ghosts

LEMMA SentIsHeard ==
  ASSUME ChecksumsCatch, NEW model \in {DS18S20, DS18B20, DS1822}, NEW t \in Temps, NEW kept \in AnySettings,
         NEW x, x = Sent(ScratchPad(model, t, kept)) \/ x \in Damaged(Sent(ScratchPad(model, t, kept))), Accepted(x)
  PROVE  Conveys(x, model, t, kept)
<1> DEFINE octets == ScratchPad(model, t, kept)
<1>1. octets \in Sendable(model)
  BY DEF Sendable, Temps
<1>2. CASE x \in Damaged(Sent(octets))
  <2>1. x \in Damages(Sent(octets))
    BY <1>2 DEF Damaged
  <2> QED
    BY <1>1, <2>1 DEF ChecksumsCatch, Conveys
<1>3. CASE x = Sent(octets)
  <2>1. \A k \in 1 .. 8 : Sent(octets)[k] = octets[k]
    BY DEF Sent, ScratchPad
  <2>2. Used(model) \subseteq 1 .. 8
    BY DEF Used
  <2> QED
    BY <1>3, <2>1, <2>2 DEF Conveys
<1> QED
  BY <1>2, <1>3

(* After a read the buffer is silent or what the device sent.              *)
LEMMA ReadHears ==
  ASSUME ChecksumsCatch, ThermTypeInv, SettingsInv, ReadScratchPad, ~(Selected = {} \/ Fails(address)), IsConnected'
  PROVE  Conveyed'
<1> DEFINE kept == Kept(address)
           t == measured[address]
           d == dev[address]
<1>1. address \in Devices /\ address' = address /\ Model' = Model /\ same' = same
  BY DEF ThermTypeInv, Selected, ReadScratchPad, ghosts
<1>2. t \in Temps /\ Model[address] \in {DS18S20, DS18B20, DS1822} /\ d \in ThermRecords
  BY <1>1 DEF ThermTypeInv
<1>3. kept = [th |-> d.th, tl |-> d.tl, cfg |-> d.cfg]
  BY DEF Kept
<1>4. SettingsOf(Model[address], d, t, bitResolution) /\ Told(d, d)
  BY <1>1 DEF SettingsInv, SettingsOf
<1>5. /\ kept \in AnySettings /\ kept.th = d.th /\ kept.tl = d.tl /\ kept.cfg = d.cfg
      /\ Model[address] = DS18S20 => kept.cfg = Settings.cfg
      /\ d.valid => d.flag = (t \div 16 <= kept.tl \/ t \div 16 >= kept.th)
  BY <1>3, <1>4 DEF SettingsOf
<1>6. origin' = [heard |-> TRUE, t |-> t, flag |-> d.flag, valid |-> d.valid]
  BY DEF ReadScratchPad
<1>7. pad' = Sent(ScratchPad(Model[address], t, kept)) \/ pad' \in Damaged(Sent(ScratchPad(Model[address], t, kept)))
  BY DEF ReadScratchPad
<1>8. Accepted(pad')
  BY DEF IsConnected, Accepted
<1>9. Conveys(pad', Model[address], t, kept)
  BY <1>2, <1>5, <1>7, <1>8, SentIsHeard
<1>10. dev' = AfterReset
  BY DEF ReadScratchPad
<1>11. dev'[address] = d
  BY <1>1, <1>10 DEF AfterReset
<1>12. Kept(address)' = kept /\ ~Fails(address)'
  BY <1>11, <1>1 DEF Kept, Fails
<1>13. origin'.heard /\ origin'.t = t /\ origin'.flag = d.flag /\ origin'.valid = d.valid
  BY <1>6
<1>14. Told(kept, d) /\ BitsFor(kept.cfg) <= BitsFor(d.cfg)
  <2>1. BitsFor(d.cfg) \in Int
    BY <1>2, CfgBits DEF ThermRecords
  <2> HIDE DEF kept, d
  <2> QED
    BY <1>4, <1>5, <2>1 DEF Told
<1>15. Told(kept, dev'[address']) /\ BitsFor(kept.cfg) <= BitsFor(dev'[address'].cfg)
  BY <1>1, <1>11, <1>14
<1> HIDE DEF kept, t, d
<1> QED
  BY <1>1, <1>2, <1>5, <1>9, <1>12, <1>13, <1>15 DEF Conveyed

(* The second answer is that of a device whose resolution has not gone     *)
(* down.                                                                   *)
LEMMA ReadRises == ASSUME ChecksumsCatch, ThermInv, RisingInv, ReadScratchPad PROVE RisingInv'
<1>1. /\ UNCHANGED <<Model, bitResolution, address, devices>> /\ Doing("read") /\ Goes(<<>>)
  BY DEF ReadScratchPad, library
<1>2. todo' # <<O("read", 0), O("store", 0), O("find", 0)>>
  <2>1. todo' # <<>> /\ todo'[1].op \in Users
    BY <1>1, ReadGoes DEF ThermInv
  <2> QED
    BY <2>1, Firsts, OpOf DEF Users
<1>3. ASSUME todo' = <<O("store", 0), O("find", 0)>>, GetResolution' # 0 PROVE bitResolution <= GetResolution'
  <2>1. todo = <<O("read", 0), O("store", 0), O("find", 0)>>
    <3>1. Finding
      <4>1. Finding'
        BY <1>3 DEF Finding
      <4> QED
        BY <1>1, <4>1, ReadGoes DEF ThermInv
    <3>2. CASE todo = <<O("read", 0), O("max", 0), O("find", 0)>>
      <4>1. todo' = <<O("max", 0), O("find", 0)>>
        BY <1>1, <3>2, Popped DEF Goes
      <4>2. O("max", 0) = O("store", 0)
        BY <1>3, <4>1, Firsts
      <4> QED
        BY <4>2, OpOf
    <3> QED
      BY <1>1, <3>1, <3>2, Heads, OpOf DEF Finding
  <2>2. Model[address] # DS18S20 /\ bitResolution <= BitsFor(dev[address].cfg)
    BY <2>1 DEF RisingInv
  <2>3. IsConnected' /\ GetResolution' = BitsFor(pad'[5])
    BY <1>1, <1>3, <2>2 DEF GetResolution
  <2>4. ~(Selected = {} \/ Fails(address))
    <3> SUFFICES ASSUME Selected = {} \/ Fails(address) PROVE FALSE
      OBVIOUS
    <3>1. pad' = Silence(9)
      BY DEF ReadScratchPad
    <3>2. Accepted(Silence(9))
      BY <2>3, <3>1 DEF IsConnected, Accepted
    <3> QED
      BY <3>2, SilenceRefused
  <2>5. PICK octets : octets = Sent(ScratchPad(Model[address], measured[address], Kept(address))) /\ (pad' = octets \/ pad' \in Damaged(octets))
    BY <2>4 DEF ReadScratchPad
  <2>6. address \in Devices
    BY <2>4 DEF ThermInv, ThermTypeInv, Selected
  <2>7. SettingsOf(Model[address], dev[address], measured[address], bitResolution) /\ Kept(address) \in AnySettings
    BY <2>6 DEF ThermInv, SettingsInv, SettingsOf, Kept
  <2>8. Conveys(pad', Model[address], measured[address], Kept(address))
    <3>1. Accepted(pad')
      BY <2>3 DEF IsConnected, Accepted
    <3>2. Model[address] \in {DS18S20, DS18B20, DS1822} /\ measured[address] \in Temps
      BY <2>6 DEF ThermInv, ThermTypeInv
    <3> QED
      BY <2>5, <2>7, <3>1, <3>2, SentIsHeard
  <2>9. pad'[5] = Kept(address).cfg
    BY <2>8, ScratchPadOctets DEF Conveys, Used
  <2>10. Kept(address).cfg = dev[address].cfg
    BY DEF Kept
  <2> QED
    BY <2>2, <2>3, <2>9, <2>10
<1> QED
  BY <1>1, <1>2, <1>3 DEF RisingInv

LEMMA ReadStep == ASSUME ChecksumsCatch, ThermInv, ReadScratchPad PROVE ThermInv'
<1>1. ThermTypeInv'
  BY ReadType DEF ThermInv
<1>2. /\ ProgramInv' /\ todo' # <<>> /\ todo'[1].op \in Users /\ (Finding <=> Finding') /\ (Asking <=> Asking')
  BY ReadGoes DEF ThermInv, ReadScratchPad, library
<1>3. PadInv'
  <2>1. CASE Selected = {} \/ Fails(address)
    BY <2>1 DEF ReadScratchPad, PadInv
  <2>2. CASE ~(Selected = {} \/ Fails(address))
    <3>1. IsConnected' => Conveyed'
      BY <2>2, ReadHears DEF ThermInv
    <3> QED
      BY <3>1, <1>2 DEF PadInv, Head1
  <2> QED
    BY <2>1, <2>2
<1>4. SettingsInv' /\ \A d \in Devices : ~Fails(d) => dev'[d] = dev[d]
  BY ResetKeeps DEF ThermInv, ReadScratchPad, library
<1>5. ResultInv'
  BY NothingReturned DEF ThermInv, ReadScratchPad, Doing
<1>6. todo # <<O("find", 0)>> /\ todo' # <<O("find", 0)>> /\ ~Doing("power") /\ ~Doing("power")' /\ ~Doing("delay")'
  <2>1. todo # <<O("find", 0)>> /\ ~Doing("power")
    BY Heads, OpOf DEF ReadScratchPad, Doing
  <2>2. todo'[1].op \notin {"find", "power", "delay"}
    BY <1>2 DEF Users
  <2>3. ~Doing("power")' /\ ~Doing("delay")'
    BY <2>2 DEF Doing
  <2>4. todo' # <<O("find", 0)>>
    BY <2>2, Firsts, OpOf
  <2> QED
    BY <2>1, <2>3, <2>4
<1>7. UNCHANGED <<asked, seen, same, attached, address, Model, parasite>>
  BY DEF ReadScratchPad, ghosts, library
<1>10. Found => RisingInv'
  BY <1>7, ReadRises DEF ThermInv, ReadScratchPad, library, SeenInv
<1>8. SeenInv'
  BY <1>2, <1>6, <1>7, <1>10 DEF ThermInv, SeenInv, Found
<1>9. ~Finer => AskedInv'
  <2> SUFFICES ASSUME ~Finer, Asking', NEW d \in asked
               PROVE  Exempt(d) \/ (d = address /\ dev'[d].left = UnitsOf(BitsFor(dev'[d].cfg)))
    BY <1>6, <1>7 DEF AskedInv, Exempt
  <2>1. Exempt(d) \/ (d = address /\ dev[d].left = UnitsOf(BitsFor(dev[d].cfg)))
    BY <1>2 DEF ThermInv, AskedInv
  <2>2. d \in Devices
    BY DEF ThermInv, ThermTypeInv
  <2>3. ~Exempt(d) /\ d = address => ~Fails(d)
    BY DEF Exempt, Fails
  <2> QED
    BY <2>1, <2>2, <2>3, <1>4
<1> QED
  BY <1>1, <1>2, <1>3, <1>4, <1>5, <1>8, <1>9 DEF ThermInv

LEMMA SilentStays ==
  ASSUME PadInv, todo # <<>>, Head1.op \notin Users, UNCHANGED pad
  PROVE  PadInv'
  BY DEF PadInv

LEMMA DeadPad == ASSUME PadDies PROVE PadInv'
  BY DEF PadInv, PadDies

LEMMA NoPad == ASSUME todo' = <<>> PROVE PadInv'
  BY DEF PadInv

LEMMA SeenKept ==
  ASSUME SeenInv, UNCHANGED <<seen, attached, parasite, same>>, asked' \subseteq seen', ~Found', ~Doing("power")'
  PROVE  SeenInv'
  BY DEF SeenInv

LEMMA NoneAsked == ASSUME ~Asking', ~Doing("delay")' PROVE AskedInv'
  BY DEF AskedInv

(* A call that is over, or that neither begins nor converts.               *)
LEMMA Elsewhere ==
  ASSUME \/ todo' = <<>> \/ todo' = <<O("find", 0)>>
         \/ Requesting' \/ Reading' \/ Writing' \/ WritingAll'
  PROVE  ~Found' /\ ~Doing("power")' /\ ~Doing("delay")' /\ ~Asking'
<1> DEFINE Fine == ~Found' /\ ~Doing("power")' /\ ~Doing("delay")' /\ ~Asking'
<1>1. CASE todo' = <<>>
  BY <1>1 DEF Found, Finding, Doing, Asking
<1>2. CASE todo' = <<O("find", 0)>>
  BY <1>2 DEF Found, Finding, Doing, Asking, O
<1>3. CASE Requesting'
  <2>1. CASE todo' \in {<<O("convertAll", 0)>>, <<O("convertOne", 0)>>}
    BY <2>1 DEF Found, Finding, Doing, Asking, O
  <2>2. ASSUME NEW i, todo' = <<O("address", i), O("convertOne", 0)>> PROVE Fine
    BY <2>2 DEF Found, Finding, Doing, Asking, O
  <2> QED
    BY <1>3, <2>1, <2>2 DEF Requesting
<1>4. CASE Reading'
  <2>1. ASSUME NEW op \in Reads, todo' = <<O("read", 0), O(op, 0)>> PROVE Fine
    BY <2>1 DEF Found, Finding, Doing, Asking, O, Reads
  <2>2. ASSUME NEW op \in Reads, todo' = <<O(op, 0)>> PROVE Fine
    BY <2>2 DEF Found, Finding, Doing, Asking, O, Reads
  <2>3. ASSUME NEW i, todo' = <<O("address", i), O("read", 0), O("temp", 0)>> PROVE Fine
    BY <2>3 DEF Found, Finding, Doing, Asking, O
  <2> QED
    BY <1>4, <2>1, <2>2, <2>3 DEF Reading
<1>5. CASE Writing'
  <2>1. PICK w \in Writes' : todo' \in {<<O("read", 0), w>>, <<w>>}
    BY <1>5 DEF Writing
  <2>2. w.op \in WriteOps
    BY DEF Writes, WriteOps, O
  <2>3. CASE todo' = <<O("read", 0), w>>
    BY <2>2, <2>3 DEF Found, Finding, Doing, Asking, O, WriteOps
  <2>4. CASE todo' = <<w>>
    BY <2>2, <2>4 DEF Found, Finding, Doing, Asking, O, WriteOps
  <2> QED
    BY <2>1, <2>3, <2>4
<1>6. CASE WritingAll'
  <2> DEFINE w == O("setCfg", bitResolution')
  <2>1. ASSUME NEW i, todo' = <<O("setAll", i)>> PROVE Fine
    BY <2>1 DEF Found, Finding, Doing, Asking, O
  <2>2. ASSUME NEW i, todo' = <<O("address", i - 1), O("read", 0), w, O("setAll", i)>> PROVE Fine
    BY <2>2 DEF Found, Finding, Doing, Asking, O
  <2>3. ASSUME NEW i, todo' = <<O("read", 0), w, O("setAll", i)>> PROVE Fine
    BY <2>3 DEF Found, Finding, Doing, Asking, O
  <2>4. ASSUME NEW i, todo' = <<w, O("setAll", i)>> PROVE Fine
    BY <2>4 DEF Found, Finding, Doing, Asking, O
  <2> QED
    BY <1>6, <2>1, <2>2, <2>3, <2>4 DEF WritingAll
<1> QED
  BY <1>1, <1>2, <1>3, <1>4, <1>5, <1>6

LEMMA HeadIs == ASSUME NEW op, Doing(op) PROVE todo # <<>> /\ Head1.op = op
  BY DEF Doing, Head1

LEMMA SameWrites == ASSUME UNCHANGED bitResolution PROVE Writes' = Writes
  BY DEF Writes

(* A step of a call that resets the bus and reads nothing.                 *)
LEMMA ResetStep ==
  ASSUME ThermInv, todo # <<>>, Head1.op \notin Users, ResetBus, dev' = AfterReset,
         UNCHANGED <<Model, bitResolution, waitForConversion, pad, result, origin, ghosts, bounds>>
  PROVE  PadInv' /\ SettingsInv' /\ ResultInv'
<1>1. PadInv'
  BY SilentStays DEF ThermInv
<1>2. SettingsInv'
  BY ResetKeeps DEF ThermInv
<1>3. ResultInv'
  BY NothingReturned DEF ThermInv
<1> QED
  BY <1>1, <1>2, <1>3

LEMMA AddressGoes ==
  ASSUME ProgramInv, Doing("address"), Goes(<<>>), UNCHANGED <<bitResolution, devices>>
  PROVE  Requesting' \/ Reading' \/ WritingAll'
<1>1. CASE Finding \/ Asking
  BY <1>1, Heads, OpOf DEF Finding, Asking
<1>2. CASE Requesting
  <2>1. PICK i \in 0 .. Len(Sensors) : todo = <<O("address", i), O("convertOne", 0)>>
    BY <1>2, Heads, OpOf DEF Requesting
  <2>2. todo' = <<O("convertOne", 0)>>
    BY <2>1, Popped DEF Goes
  <2> QED
    BY <2>2 DEF Requesting
<1>3. CASE Reading
  <2>1. \A op \in Reads : op # "address" /\ todo \notin {<<O("read", 0), O(op, 0)>>, <<O(op, 0)>>}
    BY Heads, OpOf DEF Reads
  <2>2. PICK i \in 0 .. Len(Sensors) : todo = <<O("address", i), O("read", 0), O("temp", 0)>>
    BY <1>3, <2>1 DEF Reading
  <2>3. todo' = <<O("read", 0), O("temp", 0)>>
    BY <2>2, Popped DEF Goes
  <2> QED
    BY <2>3 DEF Reading, Reads
<1>4. ~Writing
  <2> SUFFICES ASSUME NEW w \in Writes PROVE todo \notin {<<O("read", 0), w>>, <<w>>}
    BY DEF Writing
  <2>1. w.op # "address"
    BY WritesAre DEF WriteOps
  <2> QED
    BY <2>1, Heads, OpOf
<1>5. CASE WritingAll
  <2> DEFINE w == O("setCfg", bitResolution)
  <2>1. PICK i \in 1 .. devices :
          todo \in {<<O("address", i - 1), O("read", 0), w, O("setAll", i)>>, <<O("read", 0), w, O("setAll", i)>>, <<w, O("setAll", i)>>}
    BY <1>5, Heads, OpOf DEF WritingAll
  <2>2. todo = <<O("address", i - 1), O("read", 0), w, O("setAll", i)>>
    BY <2>1, Heads, OpOf
  <2>3. todo' = <<O("read", 0), w, O("setAll", i)>>
    BY <2>2, Popped DEF Goes
  <2> QED
    BY <2>3 DEF WritingAll
<1>6. ~Delaying
  BY Heads, OpOf DEF Delaying
<1> QED
  BY <1>1, <1>2, <1>3, <1>4, <1>5, <1>6 DEF ProgramInv, Doing

LEMMA AddressStep == ASSUME ThermInv, GetAddress PROVE ThermInv'
<1>1. Requesting' \/ Reading' \/ WritingAll'
  BY AddressGoes DEF GetAddress, library, ThermInv
<1>2. ~Found' /\ ~Doing("power")' /\ ~Doing("delay")' /\ ~Asking'
  BY <1>1, Elsewhere
<1>3. PadInv' /\ SettingsInv' /\ ResultInv'
  <2>1. todo # <<>> /\ Head1.op \notin Users
    BY HeadIs DEF GetAddress, Users
  <2> QED
    BY <2>1, ResetStep DEF GetAddress, library
<1>4. address' \in Devices \union {NoDevice}
  BY SensorsAreDevices DEF GetAddress, ThermInv, ThermTypeInv
<1>5. ThermTypeInv'
  BY <1>4, ResetType DEF GetAddress, ResetBus, library, ghosts, bounds, ThermInv, ThermTypeInv
<1>6. SeenInv'
  BY <1>2, SeenKept DEF GetAddress, ghosts, library, ThermInv, SeenInv
<1> QED
  BY <1>1, <1>2, <1>3, <1>5, <1>6, NoneAsked DEF ThermInv, ProgramInv

LEMMA SetAllGoes ==
  ASSUME ProgramInv, Doing("setAll")
  PROVE  \E i \in 0 .. devices : todo = <<O("setAll", i)>>
<1>1. ~(Finding \/ Asking)
  BY Heads, OpOf DEF Finding, Asking
<1>2. ~Requesting /\ ~Delaying
  BY Heads, OpOf DEF Requesting, Delaying
<1>3. ~Reading
  BY Heads, OpOf DEF Reading, Reads
<1>4. ~Writing
  <2> SUFFICES ASSUME NEW w \in Writes PROVE todo \notin {<<O("read", 0), w>>, <<w>>}
    BY DEF Writing
  <2>1. w.op # "setAll"
    BY WritesAre DEF WriteOps
  <2> QED
    BY <2>1, Heads, OpOf
<1>5. WritingAll => \E i \in 0 .. devices : todo = <<O("setAll", i)>>
  BY Heads, OpOf DEF WritingAll
<1> QED
  BY <1>1, <1>2, <1>3, <1>4, <1>5 DEF ProgramInv, Doing

LEMMA SetNextStep == ASSUME ThermInv, SetNext PROVE ThermInv'
<1>0. UNCHANGED <<bus, library, address, depth, pad, result, origin, ghosts, bounds>> /\ Doing("setAll")
  BY DEF SetNext
<1>1. PICK i \in 0 .. devices : todo = <<O("setAll", i)>>
  BY SetAllGoes DEF SetNext, ThermInv
<1>2. Head1.v = i
  BY <1>1, OpOf DEF Head1
<1>3. todo' = <<>> \/ WritingAll'
  <2>1. CASE i < devices
    <3> DEFINE w == O("setCfg", bitResolution)
               all == O("setAll", i + 1)
    <3>1. Goes(Do("address", i) \o Do("read", 0) \o Do("setCfg", bitResolution) \o Do("setAll", i + 1))
      BY <1>2, <2>1 DEF SetNext
    <3>2. Do("address", i) = <<O("address", i)>> /\ Do("read", 0) = <<O("read", 0)>> /\ Do("setCfg", bitResolution) = <<w>> /\ Do("setAll", i + 1) = <<all>>
      BY DEF Do, O
    <3>3. Do("address", i) \o Do("read", 0) \o Do("setCfg", bitResolution) \o Do("setAll", i + 1) = <<O("address", i), O("read", 0), w, all>>
      <4> HIDE DEF w, all
      <4>1. Do("address", i) \o Do("read", 0) = <<O("address", i), O("read", 0)>>
        BY <3>2, Two
      <4>2. <<O("address", i), O("read", 0)>> \o Do("setCfg", bitResolution) = <<O("address", i), O("read", 0), w>>
        BY <3>2, Three
      <4>3. <<O("address", i), O("read", 0), w>> \o Do("setAll", i + 1) = <<O("address", i), O("read", 0), w, all>>
        BY <3>2, Four
      <4> QED
        BY <4>1, <4>2, <4>3
    <3>4. todo' = <<O("address", i), O("read", 0), w, all>>
      BY <1>1, <3>1, <3>3, Replaced DEF Goes
    <3>5. i + 1 \in 1 .. devices /\ i = (i + 1) - 1 /\ devices' = devices /\ bitResolution' = bitResolution
      BY <2>1, <1>0 DEF ThermInv, ThermTypeInv, library
    <3> QED
      BY <3>4, <3>5 DEF WritingAll
  <2>2. CASE ~(i < devices)
    BY <1>1, <1>2, <2>2, Popped DEF SetNext, Goes
  <2> QED
    BY <2>1, <2>2
<1>4. ~Found' /\ ~Doing("power")' /\ ~Doing("delay")' /\ ~Asking'
  BY <1>3, Elsewhere
<1>5. PadInv'
  <2>1. todo # <<>> /\ Head1.op \notin Users
    BY <1>0, HeadIs DEF Users
  <2> QED
    BY <1>0, <2>1, SilentStays DEF ThermInv
<1>6. ThermTypeInv' /\ SettingsInv'
  BY <1>0 DEF bus, library, ghosts, bounds, ThermInv, ThermTypeInv, SettingsInv
<1>7. ResultInv'
  BY <1>0, NothingReturned DEF ThermInv, Doing
<1>8. SeenInv'
  BY <1>0, <1>4, SeenKept DEF bus, ghosts, library, ThermInv, SeenInv
<1> QED
  BY <1>3, <1>4, <1>5, <1>6, <1>7, <1>8, NoneAsked DEF ThermInv, ProgramInv

(* What begin does next.                                                   *)
LEMMA BeginGoes ==
  ASSUME ProgramInv, NEW op \in {"find", "power", "max", "store"}, Doing(op)
  PROVE  todo = CASE op = "find" -> <<O("find", 0)>>
                  [] op = "power" -> <<O("power", 0), O("read", 0), O("max", 0), O("find", 0)>>
                  [] OTHER -> <<O(op, 0), O("find", 0)>>
<1>1. ~Asking
  BY Heads, OpOf DEF Asking
<1>2. ~Requesting /\ ~Delaying
  BY Heads, OpOf DEF Requesting, Delaying
<1>3. ~Reading
  BY Heads, OpOf DEF Reading, Reads
<1>4. ~Writing
  <2> SUFFICES ASSUME NEW w \in Writes PROVE todo \notin {<<O("read", 0), w>>, <<w>>}
    BY DEF Writing
  <2>1. w.op \notin {"find", "power", "max", "store"}
    BY WritesAre DEF WriteOps
  <2> QED
    BY <2>1, Heads, OpOf
<1>5. ~WritingAll
  BY Heads, OpOf DEF WritingAll
<1>6. Finding
  BY <1>1, <1>2, <1>3, <1>4, <1>5 DEF ProgramInv, Doing
<1>7. CASE op = "find"
  BY <1>6, <1>7, Heads, OpOf DEF Finding
<1>8. CASE op = "power"
  BY <1>6, <1>8, Heads, OpOf DEF Finding
<1>9. CASE op = "max" \/ op = "store"
  BY <1>6, <1>9, Heads, OpOf DEF Finding
<1> QED
  BY <1>7, <1>8, <1>9

(* What of begin's loop is to do for the device that was found.            *)
(* The device that is being asked, and what a begin knows of it.           *)
LEMMA AskingDevice ==
  ASSUME \/ todo' = <<O("power", 0), O("read", 0), O("max", 0), O("find", 0)>>
         \/ \E op \in {"max", "store"} : todo' \in {<<O("read", 0), O(op, 0), O("find", 0)>>, <<O(op, 0), O("find", 0)>>}
  PROVE  /\ Finding' /\ Found' /\ ~Doing("delay")' /\ ~Asking'
         /\ Doing("power")' => todo' = <<O("power", 0), O("read", 0), O("max", 0), O("find", 0)>>
<1>1. CASE todo' = <<O("power", 0), O("read", 0), O("max", 0), O("find", 0)>>
  BY <1>1 DEF Finding, Found, Doing, Asking, O
<1>2. ASSUME NEW op \in {"max", "store"}, todo' \in {<<O("read", 0), O(op, 0), O("find", 0)>>, <<O(op, 0), O("find", 0)>>}
      PROVE  Finding' /\ Found' /\ ~Doing("delay")' /\ ~Asking' /\ ~Doing("power")'
  BY <1>2 DEF Finding, Found, Doing, Asking, O
<1> QED
  BY <1>1, <1>2

(* The first answer of a device is still to come.                          *)
LEMMA NotRisingYet ==
  ASSUME \/ todo' = <<O("power", 0), O("read", 0), O("max", 0), O("find", 0)>>
         \/ todo' = <<O("read", 0), O("max", 0), O("find", 0)>>
  PROVE  RisingInv'
  BY DEF RisingInv, O

LEMMA FindStep == ASSUME ThermInv, Find PROVE ThermInv'
<1> DEFINE rest == (IF parasite THEN <<>> ELSE Do("power", 0)) \o Do("read", 0) \o Do("max", 0) \o Do("find", 0)
<1>0. /\ UNCHANGED <<Model, attached, bitResolution, parasite, waitForConversion, pad, result, origin, ghosts, bounds>>
      /\ Doing("find") /\ ResetBus /\ dev' = AfterReset /\ devices' = IF depth = 0 THEN 0 ELSE devices
  BY DEF Find
<1>1. todo = <<O("find", 0)>>
  BY <1>0, BeginGoes DEF ThermInv
<1>2. PadInv' /\ SettingsInv' /\ ResultInv'
  <2>1. todo # <<>> /\ Head1.op \notin Users
    BY <1>0, HeadIs DEF Users
  <2> QED
    BY <1>0, <2>1, ResetStep
<1>3. rest = IF parasite THEN <<O("read", 0), O("max", 0), O("find", 0)>>
             ELSE <<O("power", 0), O("read", 0), O("max", 0), O("find", 0)>>
  <2>1. Do("power", 0) = <<O("power", 0)>> /\ Do("read", 0) = <<O("read", 0)>> /\ Do("max", 0) = <<O("max", 0)>> /\ Do("find", 0) = <<O("find", 0)>>
    BY DEF Do, O
  <2>2. CASE parasite
    <3>1. <<>> \o Do("read", 0) = <<O("read", 0)>>
      BY <2>1
    <3>2. <<O("read", 0)>> \o Do("max", 0) = <<O("read", 0), O("max", 0)>>
      BY <2>1, Two
    <3>3. <<O("read", 0), O("max", 0)>> \o Do("find", 0) = <<O("read", 0), O("max", 0), O("find", 0)>>
      BY <2>1, Three
    <3> QED
      BY <2>2, <3>1, <3>2, <3>3
  <2>3. CASE ~parasite
    <3>1. Do("power", 0) \o Do("read", 0) = <<O("power", 0), O("read", 0)>>
      BY <2>1, Two
    <3>2. <<O("power", 0), O("read", 0)>> \o Do("max", 0) = <<O("power", 0), O("read", 0), O("max", 0)>>
      BY <2>1, Three
    <3>3. <<O("power", 0), O("read", 0), O("max", 0)>> \o Do("find", 0) = <<O("power", 0), O("read", 0), O("max", 0), O("find", 0)>>
      BY <2>1, Four
    <3> QED
      BY <2>3, <3>1, <3>2, <3>3
  <2> QED
    BY <2>2, <2>3
<1>4. \/ todo' = <<>> /\ UNCHANGED <<address, depth>>
      \/ /\ todo' = rest /\ address' \in attached /\ depth' \in 0 .. Len(Sensors)
  <2>1. CASE Goes(<<>>) /\ UNCHANGED <<address, depth>>
    BY <1>1, <2>1, Popped DEF Goes
  <2>2. ASSUME NEW k \in Following, depth' = k, address' = Sensors[k], Goes(rest)
        PROVE  todo' = rest /\ address' \in attached /\ depth' \in 0 .. Len(Sensors)
    <3>1. todo' = rest
      BY <1>1, <1>3, <2>2, Replaced DEF Goes
    <3>2. k \in 1 .. Len(Sensors) /\ Sensors[k] \in attached
      BY DEF Following, Present
    <3> QED
      BY <2>2, <3>1, <3>2
  <2> QED
    BY <2>1, <2>2 DEF Find
<1> HIDE DEF rest
<1>5. ThermTypeInv'
  BY <1>0, <1>4, ResetType DEF ResetBus, ghosts, bounds, ThermInv, ThermTypeInv
<1>6. CASE todo' = <<>> /\ UNCHANGED <<address, depth>>
  <2>1. ~Found' /\ ~Doing("power")' /\ ~Doing("delay")' /\ ~Asking'
    BY <1>6, Elsewhere
  <2>2. SeenInv'
    BY <1>0, <2>1, SeenKept DEF ghosts, ThermInv, SeenInv
  <2> QED
    BY <1>2, <1>5, <1>6, <2>1, <2>2, NoneAsked DEF ThermInv, ProgramInv
<1>7. CASE todo' = rest /\ address' \in attached
  <2>1. /\ Found' /\ (Doing("power")' => todo' = <<O("power", 0), O("read", 0), O("max", 0), O("find", 0)>>)
        /\ ~Doing("delay")' /\ ~Asking'
    BY <1>3, <1>7, AskingDevice
  <2>2. Doing("power")' => ~parasite
    BY <1>3, <1>7, <2>1
  <2>3. ~Doing("power")' => parasite
    BY <1>3, <1>7 DEF Doing, O
  <2>6. RisingInv'
    BY <1>3, <1>7, NotRisingYet
  <2>4. SeenInv'
    BY <1>0, <1>7, <2>2, <2>3, <2>6 DEF ghosts, ThermInv, ThermTypeInv, SeenInv
  <2>5. ProgramInv'
    BY <1>3, <1>7 DEF ProgramInv, Finding
  <2> QED
    BY <1>2, <1>5, <2>1, <2>4, <2>5, NoneAsked DEF ThermInv
<1> QED
  BY <1>4, <1>6, <1>7

LEMMA PowerStep == ASSUME ThermInv, ReadPowerSupply PROVE ThermInv'
<1>0. /\ UNCHANGED <<Model, attached, devices, bitResolution, waitForConversion, address, depth, pad, result, origin, ghosts, bounds>>
      /\ Doing("power") /\ ResetBus /\ dev' = AfterReset /\ parasite' = (Selected \intersect Parasitic # {})
  BY DEF ReadPowerSupply
<1>1. todo = <<O("power", 0), O("read", 0), O("max", 0), O("find", 0)>>
  BY <1>0, BeginGoes DEF ThermInv
<1>2. todo' = <<O("read", 0), O("max", 0), O("find", 0)>>
  BY <1>1, Popped DEF ReadPowerSupply, Goes
<1>3. PadInv' /\ SettingsInv' /\ ResultInv'
  <2>1. todo # <<>> /\ Head1.op \notin Users
    BY <1>0, HeadIs DEF Users
  <2> QED
    BY <1>0, <2>1, ResetStep
<1>4. ThermTypeInv'
  BY <1>0, ResetType DEF ResetBus, ghosts, bounds, ThermInv, ThermTypeInv
<1>5. Found' /\ ~Doing("power")' /\ ~Doing("delay")' /\ ~Asking'
  BY <1>2, AskingDevice DEF Doing, O
<1>6. Found
  BY <1>1 DEF Found, Finding, O
<1>7. address \in same \intersect Parasitic => parasite'
  BY <1>0, <1>6 DEF ThermInv, SeenInv, Selected
<1>8. seen \intersect Parasitic = {}
  BY <1>0 DEF ThermInv, SeenInv
<1>11. RisingInv'
  BY <1>2, NotRisingYet
<1>9. SeenInv'
  BY <1>0, <1>5, <1>6, <1>7, <1>8, <1>11 DEF ghosts, ThermInv, SeenInv
<1>10. ProgramInv'
  BY <1>2 DEF ProgramInv, Finding
<1> QED
  BY <1>3, <1>4, <1>5, <1>9, <1>10, NoneAsked DEF ThermInv

LEMMA ResolutionIs == GetResolution \in {0} \union 9 .. 12
  BY BitsOf DEF GetResolution

(* A device that is connected gives its own resolution.                    *)
LEMMA ResolutionRight ==
  ASSUME ChecksumsCatch, ThermTypeInv, PadInv, todo # <<>>, address \in same, Model[address] # DS18S20, GetResolution # 0
  PROVE  GetResolution = BitsFor(dev[address].cfg)
<1>1. IsConnected /\ pad[5] \in Cfgs /\ GetResolution = BitsFor(pad[5])
  BY DEF GetResolution, Cfgs
<1>2. Conveyed
  BY <1>1, ConnectedIsHeard
<1>3. PICK kept \in AnySettings : Conveys(pad, Model[address], origin.t, kept) /\ Kept(address) = kept
  BY <1>2 DEF Conveyed
<1>4. pad[5] = kept.cfg
  BY <1>2, <1>3, PadIsUsed DEF Conveyed
<1>5. kept.cfg = dev[address].cfg
  BY <1>3 DEF Kept
<1> QED
  BY <1>1, <1>4, <1>5

(* What a counted device is known for.                                     *)
LEMMA KnownSettings ==
  ASSUME NEW model, NEW x \in ThermRecords, NEW t, NEW b, NEW k \in BOOLEAN, SettingsOf(model, x, t, b),
         k /\ model # DS18S20 => x.known \/ BitsFor(x.cfg) <= b
  PROVE  [x EXCEPT !.known = k] \in ThermRecords /\ SettingsOf(model, [x EXCEPT !.known = k], t, b)
<1> DEFINE y == [x EXCEPT !.known = k]
<1>1. y \in ThermRecords
  BY DEF ThermRecords
<1>2. /\ y.th = x.th /\ y.tl = x.tl /\ y.cfg = x.cfg /\ y.wanted = x.wanted /\ y.told = x.told /\ y.saved = x.saved
      /\ y.valid = x.valid /\ y.flag = x.flag /\ y.known = k
  BY DEF ThermRecords
<1> HIDE DEF y
<1>3. SettingsOf(model, y, t, b)
  BY <1>2 DEF SettingsOf, Told, Wanted
<1> QED
  BY <1>1, <1>3 DEF y

LEMMA Forgotten ==
  ASSUME NEW model, NEW x \in ThermRecords, NEW t, NEW b, NEW c, SettingsOf(model, x, t, b)
  PROVE  [x EXCEPT !.known = FALSE] \in ThermRecords /\ SettingsOf(model, [x EXCEPT !.known = FALSE], t, c)
<1> DEFINE y == [x EXCEPT !.known = FALSE]
<1>1. y \in ThermRecords
  BY DEF ThermRecords
<1>2. /\ y.th = x.th /\ y.tl = x.tl /\ y.cfg = x.cfg /\ y.wanted = x.wanted /\ y.told = x.told /\ y.saved = x.saved
      /\ y.valid = x.valid /\ y.flag = x.flag /\ y.known = FALSE
  BY DEF ThermRecords
<1> HIDE DEF y
<1>3. SettingsOf(model, y, t, c)
  BY <1>2 DEF SettingsOf, Told, Wanted
<1> QED
  BY <1>1, <1>3 DEF y

(* begin knows a device whose answer is not above what it waits for.       *)
LEMMA KnowsSettings ==
  ASSUME ChecksumsCatch, ThermTypeInv, PadInv, SettingsInv, todo # <<>>, address \in Devices, NEW b \in {0} \union 9 .. 12,
         bitResolution <= b, GetResolution <= b, NEW d \in Devices
  PROVE  Knows(GetResolution)[d] \in ThermRecords /\ SettingsOf(Model[d], Knows(GetResolution)[d], measured[d], b)
<1> DEFINE x == dev[d]
           k == x.known \/ (address \in same /\ GetResolution # 0)
<1>1. x \in ThermRecords /\ SettingsOf(Model[d], x, measured[d], b)
  BY WiderSettings DEF ThermTypeInv, SettingsInv
<1>2. Knows(GetResolution)[d] = IF d = address THEN [x EXCEPT !.known = k] ELSE x
  BY DEF Knows, ThermTypeInv
<1>3. CASE d # address
  BY <1>1, <1>2, <1>3
<1>4. CASE d = address
  <2>1. k \in BOOLEAN
    BY <1>1 DEF ThermRecords
  <2>2. k /\ Model[d] # DS18S20 => x.known \/ BitsFor(x.cfg) <= b
    BY <1>4, ResolutionRight
  <2> HIDE DEF x, k
  <2>3. [x EXCEPT !.known = k] \in ThermRecords /\ SettingsOf(Model[d], [x EXCEPT !.known = k], measured[d], b)
    BY <1>1, <2>1, <2>2, KnownSettings
  <2> QED
    BY <1>2, <1>4, <2>3
<1> QED
  BY <1>3, <1>4

(* A device is counted, or asked once more.                                *)
LEMMA CountedStep ==
  ASSUME ThermInv, Found, ~Doing("power"), address \in Devices, todo' = <<O("find", 0)>>, Counted, PadDies,
         bitResolution' \in {0} \union 9 .. 12, dev' \in [Devices -> ThermRecords], SettingsInv',
         UNCHANGED <<Model, attached, strong, measured, parasite, waitForConversion, address, depth, result, asked, same, bounds>>
  PROVE  ThermInv'
<1>1. devices' = devices + 1 /\ seen' = IF address \in same THEN seen \union {address} ELSE seen
  BY DEF Counted
<1>2. NoOrigin \in Origins
  BY DEF NoOrigin, Origins
<1>3. ThermTypeInv'
  BY <1>1, <1>2 DEF PadDies, bounds, ThermInv, ThermTypeInv
<1>4. ~Found' /\ ~Doing("power")' /\ ~Doing("delay")' /\ ~Asking'
  BY Elsewhere
<1>5. address \in same => address \in attached
  BY DEF ThermInv, SeenInv
<1>6. address \in same \intersect Parasitic => parasite
  BY DEF ThermInv, SeenInv
<1>7. SeenInv'
  BY <1>1, <1>4, <1>5, <1>6 DEF ThermInv, SeenInv
<1>8. ResultInv'
  BY NothingReturned DEF ThermInv, Found, Finding
<1>9. ProgramInv'
  BY DEF ProgramInv, Finding
<1> QED
  BY <1>3, <1>4, <1>7, <1>8, <1>9, NoneAsked, DeadPad DEF ThermInv

LEMMA CompareStep == ASSUME ChecksumsCatch, ThermInv, Compare PROVE ThermInv'
<1> DEFINE r == GetResolution
<1>0. /\ Doing("max") /\ PadDies
      /\ UNCHANGED <<Model, attached, strong, measured, bitResolution, parasite, waitForConversion, address, depth, result, asked, same, bounds>>
  BY DEF Compare
<1>1. todo = <<O("max", 0), O("find", 0)>>
  BY <1>0, BeginGoes DEF ThermInv
<1>2. Found /\ ~Doing("power") /\ Finding
  BY <1>1 DEF Found, Finding, O, Doing
<1>3. address \in Devices /\ bitResolution \in {0} \union 9 .. 12 /\ r \in {0} \union 9 .. 12 /\ todo # <<>>
  BY <1>1, <1>2, ResolutionIs DEF ThermInv, ThermTypeInv, SeenInv
<1>4. CASE Exceeds(r)
  <2>1. todo' = <<O("find", 0)>> /\ Counted /\ dev' = Knows(r)
    BY <1>1, <1>4, Popped DEF Compare, Goes
  <2>2. bitResolution <= bitResolution /\ r <= bitResolution
    BY <1>3, <1>4 DEF Exceeds
  <2>3. \A d \in Devices : Knows(r)[d] \in ThermRecords /\ SettingsOf(Model[d], Knows(r)[d], measured[d], bitResolution)
    <3> HIDE DEF r
    <3> QED
      BY <1>3, <2>2, KnowsSettings DEF ThermInv, r
  <2>4. dev' = [d \in Devices |-> dev'[d]]
    BY <2>1 DEF Knows, ThermInv, ThermTypeInv
  <2>5. dev' \in [Devices -> ThermRecords] /\ SettingsInv'
    BY <1>0, <2>1, <2>3, <2>4 DEF SettingsInv
  <2> QED
    BY <1>0, <1>2, <1>3, <2>1, <2>5, CountedStep
<1>5. CASE ~Exceeds(r)
  <2>0. UNCHANGED <<dev, devices, seen>>
    BY <1>5 DEF Compare
  <2>1. todo' = IF Model[address] = DS18S20 THEN <<O("store", 0), O("find", 0)>> ELSE <<O("read", 0), O("store", 0), O("find", 0)>>
    <3>1. Do("read", 0) \o Do("store", 0) = <<O("read", 0), O("store", 0)>>
      BY DoTwo
    <3>2. <<>> \o Do("store", 0) = <<O("store", 0)>>
      BY DoIs, Rest
    <3>3. Tail(todo) = <<O("find", 0)>>
      BY <1>1, Rest
    <3>4. CASE Model[address] = DS18S20
      <4>1. todo' = <<O("store", 0)>> \o <<O("find", 0)>>
        BY <1>5, <3>2, <3>3, <3>4 DEF Compare, Goes
      <4> QED
        BY <3>4, <4>1, Two
    <3>5. CASE Model[address] # DS18S20
      <4>1. todo' = <<O("read", 0), O("store", 0)>> \o <<O("find", 0)>>
        BY <1>5, <3>1, <3>3, <3>5 DEF Compare, Goes
      <4> QED
        BY <3>5, <4>1, Three
    <3> QED
      BY <3>4, <3>5
  <2>2. Finding' /\ Found' /\ ~Doing("delay")' /\ ~Asking' /\ ~Doing("power")'
    <3>1. \E op \in {"max", "store"} : todo' \in {<<O("read", 0), O(op, 0), O("find", 0)>>, <<O(op, 0), O("find", 0)>>}
      BY <2>1
    <3>2. todo'[1].op # "power"
      BY <2>1, Firsts, OpOf
    <3> QED
      BY <3>1, <3>2, AskingDevice DEF Doing
  <2>3. bitResolution <= r
    BY <1>3, <1>5 DEF Exceeds
  <2>4. RisingInv'
    <3>1. CASE Model[address] = DS18S20
      <4>1. todo' = <<O("store", 0), O("find", 0)>> /\ r = 9
        BY <2>1, <3>1 DEF GetResolution
      <4>2. todo' # <<O("read", 0), O("store", 0), O("find", 0)>>
        BY <4>1, Firsts, OpOf
      <4>3. GetResolution' = 9
        BY <1>0, <3>1 DEF GetResolution
      <4> QED
        BY <1>0, <2>3, <4>1, <4>2, <4>3 DEF RisingInv
    <3>2. CASE Model[address] # DS18S20
      <4>1. todo' # <<O("store", 0), O("find", 0)>>
        BY <2>1, <3>2, Firsts, OpOf
      <4>2. bitResolution <= BitsFor(dev[address].cfg)
        <5>1. dev[address] \in ThermRecords /\ BitsFor(dev[address].cfg) \in 9 .. 12
          BY <1>3, CfgBits DEF ThermInv, ThermTypeInv, ThermRecords
        <5>2. CASE r = 0
          BY <1>3, <2>3, <5>1, <5>2
        <5>3. CASE r # 0
          <6>1. IsConnected /\ r = BitsFor(pad[5])
            BY <3>2, <5>3 DEF GetResolution
          <6>2. Conveyed
            BY <1>3, <6>1, ConnectedIsHeard DEF ThermInv
          <6>3. PICK kept \in AnySettings : Conveys(pad, Model[address], origin.t, kept) /\ BitsFor(kept.cfg) <= BitsFor(dev[address].cfg)
            BY <1>2, <6>2 DEF Conveyed
          <6>4. pad[5] = kept.cfg /\ BitsFor(kept.cfg) \in 9 .. 12
            BY <6>2, <6>3, PadIsUsed, SettingsRange, CfgBits DEF ThermInv, Conveyed
          <6> HIDE DEF r
          <6> QED
            BY <1>3, <2>3, <5>1, <6>1, <6>3, <6>4
        <5> QED
          BY <5>2, <5>3
      <4> QED
        BY <1>0, <2>0, <3>2, <4>1, <4>2 DEF RisingInv
    <3> QED
      BY <3>1, <3>2
  <2>5. ThermTypeInv' /\ SettingsInv'
    <3>1. NoOrigin \in Origins
      BY DEF NoOrigin, Origins
    <3> QED
      BY <1>0, <2>0, <3>1 DEF PadDies, bounds, ThermInv, ThermTypeInv, SettingsInv
  <2>6. SeenInv'
    BY <1>0, <1>2, <2>0, <2>2, <2>4 DEF ThermInv, SeenInv
  <2>7. ResultInv'
    BY <1>0, <1>3, NothingReturned DEF ThermInv
  <2> QED
    BY <1>0, <2>2, <2>5, <2>6, <2>7, NoneAsked, DeadPad DEF ThermInv, ProgramInv
<1> QED
  BY <1>4, <1>5

LEMMA StoreStep == ASSUME ChecksumsCatch, ThermInv, Store PROVE ThermInv'
<1> DEFINE r == GetResolution
<1>0. /\ Doing("store") /\ Goes(<<>>) /\ Counted /\ bitResolution' = r /\ PadDies
      /\ dev' = IF r = 0 THEN [d \in Devices |-> [dev[d] EXCEPT !.known = FALSE]] ELSE Knows(r)
      /\ UNCHANGED <<Model, attached, strong, measured, parasite, waitForConversion, address, depth, result, asked, same, bounds>>
  BY DEF Store
<1>1. todo = <<O("store", 0), O("find", 0)>>
  BY <1>0, BeginGoes DEF ThermInv
<1>2. Found /\ ~Doing("power")
  BY <1>1 DEF Found, Finding, O, Doing
<1>3. address \in Devices /\ bitResolution \in {0} \union 9 .. 12 /\ r \in {0} \union 9 .. 12 /\ todo # <<>> /\ RisingInv
  BY <1>1, <1>2, ResolutionIs DEF ThermInv, ThermTypeInv, SeenInv
<1>4. todo' = <<O("find", 0)>>
  BY <1>0, <1>1, Popped DEF Goes
<1>5. \A d \in Devices : dev'[d] \in ThermRecords /\ SettingsOf(Model[d], dev'[d], measured[d], r)
  <2> SUFFICES ASSUME NEW d \in Devices PROVE dev'[d] \in ThermRecords /\ SettingsOf(Model[d], dev'[d], measured[d], r)
    OBVIOUS
  <2>1. CASE r = 0
    <3> DEFINE x == dev[d]
    <3>1. x \in ThermRecords /\ SettingsOf(Model[d], x, measured[d], bitResolution)
      BY DEF ThermInv, ThermTypeInv, SettingsInv
    <3>2. dev'[d] = [x EXCEPT !.known = FALSE]
      BY <1>0, <2>1
    <3> HIDE DEF x, r
    <3> QED
      BY <3>1, <3>2, Forgotten
  <2>2. CASE r # 0
    <3>1. bitResolution <= r /\ r <= r
      BY <1>1, <1>3, <2>2 DEF RisingInv
    <3> HIDE DEF r
    <3> QED
      BY <1>0, <1>3, <2>2, <3>1, KnowsSettings DEF ThermInv, r
  <2> QED
    BY <2>1, <2>2
<1>6. dev' = [d \in Devices |-> dev'[d]]
  BY <1>0 DEF Knows, ThermInv, ThermTypeInv
<1>7. dev' \in [Devices -> ThermRecords] /\ SettingsInv'
  BY <1>0, <1>5, <1>6 DEF SettingsInv
<1> QED
  BY <1>0, <1>2, <1>3, <1>4, <1>7, CountedStep

LEMMA StepIs == \A cfg : StepOf(cfg) \in {1, 2, 4, 8}
  BY DEF StepOf

LEMMA RoundedDown ==
  ASSUME NEW t \in Sixteenths, NEW s \in {1, 2, 4, 8}
  PROVE  /\ t - s * (t \div s) \in 0 .. s - 1
         /\ t >= 0 => s * (t \div s) >= 0 /\ (s * (t \div s)) \div 16 = t \div 16
         /\ t % 16 = 0 => s * (t \div s) = t
<1>1. CASE s = 1
  BY <1>1 DEF Sixteenths
<1>2. CASE s = 2
  BY <1>2 DEF Sixteenths
<1>3. CASE s = 4
  BY <1>3 DEF Sixteenths
<1>4. CASE s = 8
  BY <1>4 DEF Sixteenths
<1> QED
  BY <1>1, <1>2, <1>3, <1>4

(* (char) of a temperature is its whole degrees, but for fractions below   *)
(* zero.                                                                   *)
LEMMA TruncatedIs ==
  ASSUME NEW t \in Sixteenths, NEW s \in {1, 2, 4, 8}, t >= 0 \/ t % 16 = 0, NEW u, u = s * (t \div s)
  PROVE  Truncated(u) = t \div 16
<1>1. CASE t >= 0
  <2>1. u >= 0 /\ u \div 16 = t \div 16
    BY <1>1, RoundedDown DEF Sixteenths
  <2> QED
    BY <2>1 DEF Truncated, Sixteenths
<1>2. CASE ~(t >= 0)
  <2>1. u = t /\ t % 16 = 0
    BY <1>2, RoundedDown DEF Sixteenths
  <2>2. -((-t) \div 16) = t \div 16
    BY <2>1 DEF Sixteenths
  <2> QED
    BY <1>2, <2>1, <2>2 DEF Truncated, Sixteenths
<1> QED
  BY <1>1, <1>2

LEMMA AnswerGoes ==
  ASSUME ProgramInv, todo # <<>>, Head1.op \in Reads
  PROVE  todo = <<O(Head1.op, 0)>>
<1> DEFINE op == Head1.op
<1>0. Doing(op) /\ op \in Reads
  BY DEF Doing, Head1
<1> HIDE DEF op
<1>1. ~Asking /\ ~Finding
  BY <1>0, Heads, OpOf DEF Asking, Finding, Reads
<1>2. ~Requesting /\ ~Delaying
  BY <1>0, Heads, OpOf DEF Requesting, Delaying, Reads
<1>3. ~Writing
  <2> SUFFICES ASSUME NEW w \in Writes PROVE todo \notin {<<O("read", 0), w>>, <<w>>}
    BY DEF Writing
  <2>1. w.op \notin Reads
    BY WritesAre DEF WriteOps, Reads
  <2> QED
    BY <1>0, <2>1, Heads, OpOf DEF Reads
<1>4. ~WritingAll
  BY <1>0, Heads, OpOf DEF WritingAll, Reads
<1>5. Reading
  BY <1>1, <1>2, <1>3, <1>4 DEF ProgramInv
<1>6. PICK p \in Reads : todo \in {<<O("read", 0), O(p, 0)>>, <<O(p, 0)>>}
  BY <1>0, <1>5, Heads, OpOf DEF Reading, Reads
<1>7. todo = <<O(p, 0)>>
  BY <1>0, <1>6, Heads, OpOf DEF Reads
<1>8. p = op
  BY <1>0, <1>7, Heads, OpOf
<1> QED
  BY <1>7, <1>8 DEF op

(* getTempC                                                                *)
LEMMA TempRight ==
  ASSUME ThermTypeInv, Conveyed
  PROVE  /\ origin.heard
         /\ origin.t - CalculateTemperature \in 0 .. (IF Model[address] = DS18S20 THEN 1 ELSE StepOf(pad[5])) - 1
<1>1. PICK kept \in AnySettings : Conveys(pad, Model[address], origin.t, kept)
  BY DEF Conveyed
<1> DEFINE t == origin.t
<1>2. address \in Devices /\ t \in Temps /\ t \in Sixteenths
  <2>1. address \in Devices /\ t \in Temps
    BY DEF Conveyed
  <2> HIDE DEF t
  <2>2. t \in Sixteenths
    BY <2>1, TemperatureRange
  <2> QED
    BY <2>1, <2>2
<1>3. pad[5] = kept.cfg
  BY <1>1, <1>2, PadIsUsed
<1> HIDE DEF t
<1>4. CASE Model[address] = DS18S20
  <2>1. CalculateTemperature = t
    BY <1>1, <1>2, <1>4, Calculated DEF t
  <2>2. t - CalculateTemperature = 0
    BY <1>2, <2>1 DEF Sixteenths
  <2> QED
    BY <1>4, <2>2 DEF Conveyed, t
<1>5. CASE Model[address] # DS18S20
  <2>1. CalculateTemperature = StepOf(kept.cfg) * (t \div StepOf(kept.cfg))
    BY <1>1, <1>2, <1>5, Calculated DEF t
  <2>2. t - StepOf(kept.cfg) * (t \div StepOf(kept.cfg)) \in 0 .. StepOf(kept.cfg) - 1
    BY <1>2, StepIs, RoundedDown
  <2> QED
    BY <1>3, <1>5, <2>1, <2>2 DEF Conveyed, t
<1> QED
  BY <1>4, <1>5

(* hasAlarm                                                                *)
LEMMA AlarmRight ==
  ASSUME ThermTypeInv, Conveyed, origin.valid, Model[address] # DS18S20, origin.t >= 0 \/ origin.t % 16 = 0
  PROVE  Alarms(Truncated(CalculateTemperature)) <=> origin.flag
<1>1. PICK kept \in AnySettings :
        /\ Conveys(pad, Model[address], origin.t, kept)
        /\ origin.flag = (origin.t \div 16 <= kept.tl \/ origin.t \div 16 >= kept.th)
  BY DEF Conveyed
<1> DEFINE t == origin.t
<1>2. address \in Devices /\ t \in Temps /\ t \in Sixteenths
  <2>1. address \in Devices /\ t \in Temps
    BY DEF Conveyed
  <2> HIDE DEF t
  <2>2. t \in Sixteenths
    BY <2>1, TemperatureRange
  <2> QED
    BY <2>1, <2>2
<1>3. Signed(pad[3]) = kept.th /\ Signed(pad[4]) = kept.tl
  BY <1>1, <1>2, PadIsUsed
<1>4. CalculateTemperature = StepOf(kept.cfg) * (t \div StepOf(kept.cfg))
  BY <1>1, <1>2, Calculated
<1>6. t >= 0 \/ t % 16 = 0
  OBVIOUS
<1> HIDE DEF t
<1>5. Truncated(CalculateTemperature) = t \div 16
  <2> DEFINE s == StepOf(kept.cfg)
  <2>1. s \in {1, 2, 4, 8}
    BY StepIs
  <2>2. CalculateTemperature = s * (t \div s)
    BY <1>4
  <2> HIDE DEF s
  <2> QED
    BY <1>2, <1>6, <2>1, <2>2, TruncatedIs
<1> QED
  BY <1>1, <1>3, <1>5 DEF Alarms, t

LEMMA AnswerStep == ASSUME ChecksumsCatch, ThermInv, Answer PROVE ThermInv'
<1>0. /\ todo # <<>> /\ Head1.op \in Reads
      /\ result' = <<Head1.op, address, Value(Head1.op)>> /\ Goes(<<>>)
      /\ UNCHANGED <<bus, library, address, depth, pad, origin, ghosts, bounds>>
  BY DEF Answer, GetResult, Reads
<1> DEFINE op == Head1.op
<1>1. todo' = <<>>
  <2>1. todo = <<O(op, 0)>>
    BY <1>0, AnswerGoes DEF ThermInv
  <2> QED
    BY <1>0, <2>1, Popped DEF Goes
<1>2. ThermTypeInv' /\ SettingsInv'
  BY <1>0 DEF bus, library, ghosts, bounds, ThermInv, ThermTypeInv, SettingsInv
<1>3. UNCHANGED <<Model, address, pad, origin>> /\ result'[1] = op /\ result'[3] = Value(op)
  BY <1>0 DEF bus
<1>4. IsConnected => Conveyed
  BY <1>0, ConnectedIsHeard DEF ThermInv
<1>5. ReadsMeasured'
  <2> SUFFICES ASSUME op = "temp", Value(op) # Disconnected
               PROVE  origin.heard /\ origin.t - Value(op) \in 0 .. (IF Model[address] = DS18S20 THEN 1 ELSE StepOf(pad[5])) - 1
    BY <1>0, <1>3 DEF ReadsMeasured, Reads
  <2>1. IsConnected /\ Value(op) = CalculateTemperature
    BY DEF Value
  <2> QED
    BY <1>4, <2>1, TempRight DEF ThermInv
<1>6. AlarmAgrees'
  <2> SUFFICES ASSUME op = "alarm", IsConnected, origin.valid, Model[address] # DS18S20, origin.t >= 0 \/ origin.t % 16 = 0
               PROVE  Value(op) = origin.flag
    BY <1>3 DEF AlarmAgrees, IsConnected
  <2> DEFINE alarm == IsConnected /\ Alarms(Truncated(CalculateTemperature))
  <2> HIDE DEF alarm
  <2>0. Value(op) = alarm
    BY Zenon DEF Value, alarm
  <2>1. alarm <=> Alarms(Truncated(CalculateTemperature))
    BY DEF alarm
  <2>2. Alarms(Truncated(CalculateTemperature)) <=> origin.flag
    BY <1>4, AlarmRight DEF ThermInv
  <2>3. origin.flag \in BOOLEAN
    BY DEF ThermInv, ThermTypeInv, Origins
  <2> QED
    BY <2>0, <2>1, <2>2, <2>3, Zenon DEF alarm
<1>7. ~Found' /\ ~Doing("power")' /\ ~Doing("delay")' /\ ~Asking'
  BY <1>1, Elsewhere
<1>8. SeenInv'
  BY <1>0, <1>7, SeenKept DEF bus, ghosts, library, ThermInv, SeenInv
<1> QED
  BY <1>1, <1>2, <1>5, <1>6, <1>7, <1>8, NoneAsked, NoPad DEF ThermInv, ResultInv, ReadingsAgree, ProgramInv

LEMMA WriteGoes ==
  ASSUME ProgramInv, todo # <<>>, Head1.op \in WriteOps, Goes(<<>>), UNCHANGED <<bitResolution, devices>>
  PROVE  /\ todo' = <<>> \/ WritingAll'
         /\ \/ Head1 \in Writes
            \/ Head1 = O("setCfg", bitResolution)
<1> DEFINE op == Head1.op
<1>0. Doing(op) /\ op \in WriteOps
  BY DEF Doing, Head1
<1> HIDE DEF op
<1>1. ~Asking /\ ~Finding
  BY <1>0, Heads, OpOf DEF Asking, Finding, WriteOps
<1>2. ~Requesting /\ ~Delaying
  BY <1>0, Heads, OpOf DEF Requesting, Delaying, WriteOps
<1>3. ~Reading
  BY <1>0, Heads, OpOf DEF Reading, Reads, WriteOps
<1>4. CASE Writing
  <2>1. PICK w \in Writes : todo \in {<<O("read", 0), w>>, <<w>>}
    BY <1>4 DEF Writing
  <2>2. todo = <<w>>
    BY <1>0, <2>1, Heads, OpOf DEF WriteOps
  <2>3. todo' = <<>> /\ Head1 = w
    BY <2>2, Popped, Firsts DEF Goes, Head1
  <2> QED
    BY <2>3
<1>5. CASE WritingAll
  <2> DEFINE w == O("setCfg", bitResolution)
  <2>0. \A i \in 0 .. devices : todo # <<O("setAll", i)>>
    BY <1>0, Heads, OpOf DEF WriteOps
  <2>1. PICK i \in 1 .. devices :
          todo \in {<<O("address", i - 1), O("read", 0), w, O("setAll", i)>>, <<O("read", 0), w, O("setAll", i)>>, <<w, O("setAll", i)>>}
    BY <1>5, <2>0 DEF WritingAll
  <2>2. todo = <<w, O("setAll", i)>>
    BY <1>0, <2>1, Heads, OpOf DEF WriteOps
  <2>3. todo' = <<O("setAll", i)>> /\ Head1 = w
    BY <2>2, Popped, Firsts DEF Goes, Head1
  <2>4. i \in 0 .. devices /\ devices' = devices
    OBVIOUS
  <2> QED
    BY <2>3, <2>4 DEF WritingAll
<1> QED
  BY <1>1, <1>2, <1>3, <1>4, <1>5 DEF ProgramInv

(* What the setters write: a limit, or a resolution, not beyond what the   *)
(* library waits for unless it is Finer.                                   *)
LEMMA WrittenIs ==
  ASSUME ThermTypeInv, Head1 \in Writes \/ Head1 = O("setCfg", bitResolution)
  PROVE  /\ Head1.op = "setTh" => Head1.v \in {Limited(celsius) : celsius \in Highs}
         /\ Head1.op = "setTl" => Head1.v \in {Limited(celsius) : celsius \in Lows}
         /\ Head1.op = "setCfg" => Head1.v \in Nat /\ (~Finer => Head1.v <= bitResolution)
<1>1. CASE Head1 = O("setCfg", bitResolution)
  BY <1>1, OpOf DEF ThermTypeInv
<1>2. ASSUME NEW celsius \in Highs, Head1 = O("setTh", Limited(celsius)) PROVE Head1.op = "setTh" /\ Head1.v = Limited(celsius)
  BY <1>2, OpOf
<1>3. ASSUME NEW celsius \in Lows, Head1 = O("setTl", Limited(celsius)) PROVE Head1.op = "setTl" /\ Head1.v = Limited(celsius)
  BY <1>3, OpOf
<1>4. ASSUME NEW bits \in Resolutions, Finer \/ bits <= bitResolution, Head1 = O("setCfg", bits)
      PROVE  Head1.op = "setCfg" /\ Head1.v = bits /\ Head1.v \in Nat /\ (~Finer => Head1.v <= bitResolution)
  <2>1. Resolutions \subseteq Nat
    BY DallasAssumption DEF DallasAssumption
  <2> QED
    BY <1>4, <2>1, OpOf
<1> QED
  BY <1>1, <1>2, <1>3, <1>4 DEF Writes

LEMMA WriteEffect ==
  ASSUME WriteScratchPad
  PROVE  \/ dev' = AfterReset
         \/ /\ IsConnected /\ address \in attached /\ ~(Head1.op = "setCfg" /\ Model[address] = DS18S20)
            /\ dev' = [AfterReset EXCEPT ![address] = Rewritten(@)]
  BY DEF WriteScratchPad, Selected

(* A setter writes what the device has, with its own octet changed.        *)
LEMMA NewSettings ==
  ASSUME ThermTypeInv, NEW kept \in AnySettings, Conveyed, Conveys(pad, Model[address], origin.t, kept),
         Head1.op \in WriteOps, Head1 \in Writes \/ Head1 = O("setCfg", bitResolution)
  PROVE  /\ Changed(Head1.op, Head1.v) \in AnySettings
         /\ Changed(Head1.op, Head1.v) =
              CASE Head1.op = "setTh" -> [th |-> Head1.v, tl |-> kept.tl, cfg |-> kept.cfg]
                [] Head1.op = "setTl" -> [th |-> kept.th, tl |-> Head1.v, cfg |-> kept.cfg]
                [] OTHER -> [th |-> kept.th, tl |-> kept.tl, cfg |-> Cfg(Head1.v)]
<1>1. Signed(pad[3]) = kept.th /\ Signed(pad[4]) = kept.tl /\ pad[5] = kept.cfg
  BY PadIsUsed DEF Conveyed
<1>2. /\ Head1.op = "setTh" => Head1.v \in {Limited(celsius) : celsius \in Highs}
      /\ Head1.op = "setTl" => Head1.v \in {Limited(celsius) : celsius \in Lows}
      /\ Head1.op = "setCfg" => Head1.v \in Nat
  BY WrittenIs
<1>3. /\ kept.th \in {Settings.th} \union {Limited(celsius) : celsius \in Highs}
      /\ kept.tl \in {Settings.tl} \union {Limited(celsius) : celsius \in Lows} /\ kept.cfg \in Cfgs
  BY DEF AnySettings, Cfgs
<1>4. CASE Head1.op = "setTh"
  <2>1. Changed(Head1.op, Head1.v) = [th |-> Head1.v, tl |-> kept.tl, cfg |-> kept.cfg]
    BY <1>1, <1>4 DEF Changed
  <2> QED
    BY <1>2, <1>3, <1>4, <2>1 DEF AnySettings, Cfgs
<1>5. CASE Head1.op = "setTl"
  <2>1. Changed(Head1.op, Head1.v) = [th |-> kept.th, tl |-> Head1.v, cfg |-> kept.cfg]
    BY <1>1, <1>5 DEF Changed
  <2> QED
    BY <1>2, <1>3, <1>5, <2>1 DEF AnySettings, Cfgs
<1>6. CASE Head1.op = "setCfg"
  <2>1. Changed(Head1.op, Head1.v) = [th |-> kept.th, tl |-> kept.tl, cfg |-> Cfg(Head1.v)]
    BY <1>1, <1>6 DEF Changed
  <2>2. Cfg(Head1.v) \in Cfgs
    BY <1>2, <1>6, CfgsSet
  <2> QED
    BY <1>2, <1>3, <1>6, <2>1, <2>2 DEF AnySettings, Cfgs
<1> QED
  BY <1>4, <1>5, <1>6 DEF WriteOps

LEMMA RewrittenSettings ==
  ASSUME ThermTypeInv, SettingsInv, Conveyed, ~(Head1.op = "setCfg" /\ Model[address] = DS18S20),
         Head1.op \in WriteOps, Head1 \in Writes \/ Head1 = O("setCfg", bitResolution)
  PROVE  /\ Rewritten(AfterReset[address]) \in ThermRecords
         /\ SettingsOf(Model[address], Rewritten(AfterReset[address]), MeasuredAfterReset[address], bitResolution)
<1> DEFINE op == Head1.op
           v == Head1.v
           new == Changed(op, v)
           x == AfterReset[address]
           y == Rewritten(x)
<1>1. address \in Devices
  BY DEF Conveyed
<1>2. PICK kept \in AnySettings :
        /\ Conveys(pad, Model[address], origin.t, kept)
        /\ Model[address] = DS18S20 => kept.cfg = Settings.cfg
        /\ address \in same => Kept(address) = kept /\ ~Fails(address)
        /\ Told(kept, dev[address])
  BY DEF Conveyed
<1>3. /\ new \in AnySettings
      /\ new = CASE op = "setTh" -> [th |-> v, tl |-> kept.tl, cfg |-> kept.cfg]
                 [] op = "setTl" -> [th |-> kept.th, tl |-> v, cfg |-> kept.cfg]
                 [] OTHER -> [th |-> kept.th, tl |-> kept.tl, cfg |-> Cfg(v)]
  BY <1>2, NewSettings
<1>4. new = [th |-> new.th, tl |-> new.tl, cfg |-> new.cfg] /\ new.th \in -55 .. 125 /\ new.tl \in -55 .. 125 /\ new.cfg \in Cfgs
  BY <1>3, SettingsRange
<1>5. x \in ThermRecords /\ SettingsOf(Model[address], x, MeasuredAfterReset[address], bitResolution)
  BY <1>1, ResetType, ResetSettings
<1>6. address \in same => x = dev[address] /\ kept = [th |-> x.th, tl |-> x.tl, cfg |-> x.cfg]
  BY <1>1, <1>2 DEF AfterReset, Kept
<1>7. Model[address] = DS18S20 => new.cfg = Settings.cfg /\ x.cfg = Settings.cfg
  <2> SUFFICES ASSUME Model[address] = DS18S20 PROVE new.cfg = Settings.cfg /\ x.cfg = Settings.cfg
    OBVIOUS
  <2>1. op # "setCfg"
    OBVIOUS
  <2>2. new.cfg = kept.cfg
    BY <1>3, <2>1 DEF WriteOps
  <2> QED
    BY <1>2, <1>5, <2>2 DEF SettingsOf
<1>8. Told(kept, x) /\ Wanted(x) /\ x.wanted \in AnySettings /\ x.told \in AnySettings
  <2>1. dev[address].saved = Settings /\ Wanted(dev[address])
    BY <1>1 DEF SettingsInv, SettingsOf
  <2>2. x = dev[address] \/ x = PowerOn(dev[address])
    BY <1>1 DEF AfterReset
  <2>3. CASE x = dev[address]
    BY <1>2, <1>5, <2>3 DEF SettingsOf, ThermRecords
  <2>4. CASE x = PowerOn(dev[address])
    <3>1. x.wanted = Settings /\ x.told = dev[address].told
      BY <2>1, <2>4 DEF PowerOn
    <3>2. Told(kept, x)
      <4> HIDE DEF x
      <4> QED
        BY <1>2, <2>1, <3>1 DEF Told, Wanted
    <3> QED
      BY <1>5, <3>2 DEF SettingsOf, ThermRecords
  <2> QED
    BY <2>2, <2>3, <2>4
<1>9. \A z \in AnySettings : Own(z, op, v) = [th |-> IF op = "setTh" THEN v ELSE z.th, tl |-> IF op = "setTl" THEN v ELSE z.tl,
                                             cfg |-> IF op = "setCfg" THEN Cfg(v) ELSE z.cfg]
  <2> SUFFICES ASSUME NEW z \in AnySettings
               PROVE  Own(z, op, v) = [th |-> IF op = "setTh" THEN v ELSE z.th, tl |-> IF op = "setTl" THEN v ELSE z.tl,
                                       cfg |-> IF op = "setCfg" THEN Cfg(v) ELSE z.cfg]
    OBVIOUS
  <2>1. z = [th |-> z.th, tl |-> z.tl, cfg |-> z.cfg]
    BY SettingsRange
  <2>2. CASE op = "setTh"
    BY <2>1, <2>2 DEF Own
  <2>3. CASE op = "setTl"
    BY <2>1, <2>3 DEF Own
  <2>4. CASE op = "setCfg"
    BY <2>1, <2>4 DEF Own
  <2> QED
    BY <2>2, <2>3, <2>4 DEF WriteOps
<1>10. \A z \in AnySettings : Own(z, op, v) \in AnySettings
  <2> SUFFICES ASSUME NEW z \in AnySettings PROVE Own(z, op, v) \in AnySettings
    OBVIOUS
  <2>1. /\ op = "setTh" => v \in {Limited(celsius) : celsius \in Highs}
        /\ op = "setTl" => v \in {Limited(celsius) : celsius \in Lows}
        /\ op = "setCfg" => Cfg(v) \in Cfgs
    BY WrittenIs, CfgsSet
  <2>2. /\ z.th \in {Settings.th} \union {Limited(celsius) : celsius \in Highs}
        /\ z.tl \in {Settings.tl} \union {Limited(celsius) : celsius \in Lows} /\ z.cfg \in Cfgs
    BY DEF AnySettings, Cfgs
  <2> HIDE DEF op, v
  <2> QED
    BY <1>9, <2>1, <2>2 DEF AnySettings, Cfgs
<1>11. /\ y.th = new.th /\ y.tl = new.tl /\ y.cfg = new.cfg /\ y.valid = FALSE /\ y.saved = x.saved
      /\ y.left = x.left /\ y.flag = x.flag /\ y.wanted = Own(x.wanted, op, v) /\ y.told = Own(x.told, op, v)
      /\ y.known = (address \in same /\ (x.known \/ op = "setCfg"))
  <2>1. /\ y.th = new.th /\ y.tl = new.tl /\ y.cfg = (IF Model[address] = DS18S20 THEN x.cfg ELSE new.cfg) /\ y.valid = FALSE
        /\ y.saved = x.saved /\ y.left = x.left /\ y.flag = x.flag
        /\ y.known = (address \in same /\ (x.known \/ op = "setCfg"))
        /\ y.wanted = Own(x.wanted, op, v) /\ y.told = Own(x.told, op, v)
    BY <1>5 DEF Rewritten, ThermRecords, Copies, Nobody
  <2> QED
    BY <1>7, <2>1
<1>12. y \in ThermRecords
  <2> DEFINE c == IF Model[address] = DS18S20 THEN x.cfg ELSE new.cfg
             s == IF Copies(address) THEN new ELSE x.saved
             w == Own(x.wanted, op, v)
             u == Own(x.told, op, v)
             k == address \in same /\ (x.known \/ op = "setCfg")
  <2>1. y = [x EXCEPT !.th = new.th, !.tl = new.tl, !.cfg = c, !.valid = FALSE, !.saved = s, !.wanted = w, !.told = u, !.known = k]
    BY <1>5 DEF Rewritten, ThermRecords
  <2>2. c \in Cfgs /\ s \in AnySettings /\ w \in AnySettings /\ u \in AnySettings /\ k \in BOOLEAN
    BY <1>3, <1>4, <1>5, <1>8, <1>10 DEF ThermRecords
  <2> DEFINE z == [x EXCEPT !.th = new.th, !.tl = new.tl, !.cfg = c, !.valid = FALSE]
  <2>3. y = [z EXCEPT !.saved = s, !.wanted = w, !.told = u, !.known = k]
    BY <2>1
  <2> HIDE DEF y, x, new, c, s, w, u, k
  <2>4. z \in ThermRecords
    BY <1>4, <1>5, <2>2 DEF ThermRecords
  <2> HIDE DEF z
  <2> QED
    BY <2>2, <2>3, <2>4 DEF ThermRecords
<1>13. Told(y, y) /\ Wanted(y)
  <2>1. /\ new.th = IF op = "setTh" THEN v ELSE kept.th
        /\ new.tl = IF op = "setTl" THEN v ELSE kept.tl
        /\ new.cfg = IF op = "setCfg" THEN Cfg(v) ELSE kept.cfg
    BY <1>3 DEF WriteOps
  <2> HIDE DEF op, v
  <2>2. \A z \in AnySettings : /\ Own(z, op, v).th = IF op = "setTh" THEN v ELSE z.th
                               /\ Own(z, op, v).tl = IF op = "setTl" THEN v ELSE z.tl
                               /\ Own(z, op, v).cfg = IF op = "setCfg" THEN Cfg(v) ELSE z.cfg
    BY <1>9
  <2> HIDE DEF x, y, new
  <2> QED
    BY <1>8, <1>11, <2>1, <2>2 DEF Told, Wanted
<1>14. ~Finer /\ y.known /\ Model[address] # DS18S20 => BitsFor(new.cfg) <= bitResolution \/ new.cfg = 31
  <2> SUFFICES ASSUME ~Finer, y.known, Model[address] # DS18S20 PROVE BitsFor(new.cfg) <= bitResolution \/ new.cfg = 31
    OBVIOUS
  <2>1. address \in same /\ (x.known \/ op = "setCfg")
    BY <1>11
  <2>2. CASE op = "setCfg"
    <3>1. v \in Nat /\ v <= bitResolution
      BY <2>2, WrittenIs
    <3>2. new.cfg = Cfg(v)
      BY <1>3, <2>2
    <3>3. v \in 9 .. 12 \/ Cfg(v) = 31
      BY <3>1 DEF Cfg
    <3>4. v \in 9 .. 12 => BitsFor(Cfg(v)) = v
      BY <3>1, CfgsSet
    <3> QED
      BY <3>1, <3>2, <3>3, <3>4
  <2>3. CASE op # "setCfg"
    <3>1. new.cfg = kept.cfg
      BY <1>3, <2>3 DEF WriteOps
    <3>2. kept.cfg = x.cfg
      BY <1>6, <2>1
    <3> QED
      BY <1>5, <2>1, <2>3, <3>1, <3>2 DEF SettingsOf
  <2> QED
    BY <2>2, <2>3
<1>15. x.saved = Settings
  BY <1>5 DEF SettingsOf
<1>16. SettingsOf(Model[address], y, MeasuredAfterReset[address], bitResolution)
  <2> HIDE DEF x, y, new
  <2> QED
    BY <1>3, <1>4, <1>7, <1>11, <1>14, <1>15, <1>13 DEF SettingsOf
<1> QED
  BY <1>12, <1>16

LEMMA WriteStep == ASSUME ChecksumsCatch, ThermInv, WriteScratchPad PROVE ThermInv'
<1>0. /\ todo # <<>> /\ Head1.op \in WriteOps /\ Goes(<<>>) /\ ResetBus /\ PadDies
      /\ UNCHANGED <<Model, attached, library, address, depth, result, ghosts, bounds>>
  BY DEF WriteScratchPad, WriteOps
<1>1. (todo' = <<>> \/ WritingAll') /\ (Head1 \in Writes \/ Head1 = O("setCfg", bitResolution))
  BY <1>0, WriteGoes DEF ThermInv, library
<1>2. dev' \in [Devices -> ThermRecords] /\ SettingsInv'
  <2>1. CASE dev' = AfterReset
    BY <1>0, <2>1, ResetType, ResetKeeps DEF ThermInv, library
  <2>2. CASE dev' # AfterReset
    <3>1. /\ IsConnected /\ address \in attached /\ ~(Head1.op = "setCfg" /\ Model[address] = DS18S20)
          /\ dev' = [AfterReset EXCEPT ![address] = Rewritten(@)]
      BY <2>2, WriteEffect
    <3>2. Conveyed
      BY <1>0, <3>1, ConnectedIsHeard DEF ThermInv
    <3>3. /\ Rewritten(AfterReset[address]) \in ThermRecords
          /\ SettingsOf(Model[address], Rewritten(AfterReset[address]), MeasuredAfterReset[address], bitResolution)
      BY <1>0, <1>1, <3>1, <3>2, RewrittenSettings DEF ThermInv
    <3>4. AfterReset \in [Devices -> ThermRecords] /\ address \in Devices
      BY <3>2, ResetType DEF ThermInv, Conveyed
    <3>5. \A d \in Devices : dev'[d] = IF d = address THEN Rewritten(AfterReset[address]) ELSE AfterReset[d]
      BY <3>1, <3>4
    <3>6. dev' \in [Devices -> ThermRecords]
      BY <3>1, <3>3, <3>4
    <3>7. \A d \in Devices : SettingsOf(Model[d], dev'[d], MeasuredAfterReset[d], bitResolution)
      BY <3>3, <3>5, ResetSettings DEF ThermInv
    <3> QED
      BY <1>0, <3>6, <3>7 DEF SettingsInv, ResetBus, library
  <2> QED
    BY <2>1, <2>2
<1>3. NoOrigin \in Origins
  BY DEF NoOrigin, Origins
<1>4. ThermTypeInv'
  BY <1>0, <1>2, <1>3, ResetType DEF ResetBus, PadDies, library, ghosts, bounds, ThermInv, ThermTypeInv
<1>5. ~Found' /\ ~Doing("power")' /\ ~Doing("delay")' /\ ~Asking'
  BY <1>1, Elsewhere
<1>6. SeenInv'
  BY <1>0, <1>5, SeenKept DEF ghosts, library, ThermInv, SeenInv
<1>7. ResultInv'
  BY <1>0, NothingReturned DEF ThermInv
<1> QED
  BY <1>0, <1>1, <1>2, <1>4, <1>5, <1>6, <1>7, NoneAsked, DeadPad DEF ThermInv, ProgramInv

LEMMA RequestGoes ==
  ASSUME ProgramInv, NEW op \in {"convertAll", "convertOne"}, Doing(op)
  PROVE  todo = <<O(op, 0)>>
<1>1. ~Asking /\ ~Finding
  BY Heads, OpOf DEF Asking, Finding
<1>2. ~Delaying /\ ~WritingAll
  BY Heads, OpOf DEF Delaying, WritingAll
<1>3. ~Reading
  BY Heads, OpOf DEF Reading, Reads
<1>4. ~Writing
  <2> SUFFICES ASSUME NEW w \in Writes PROVE todo \notin {<<O("read", 0), w>>, <<w>>}
    BY DEF Writing
  <2>1. w.op \notin {"convertAll", "convertOne"}
    BY WritesAre DEF WriteOps
  <2> QED
    BY <2>1, Heads, OpOf
<1>5. Requesting
  BY <1>1, <1>2, <1>3, <1>4 DEF ProgramInv, Doing
<1>6. todo \in {<<O("convertAll", 0)>>, <<O("convertOne", 0)>>}
  BY <1>5, Heads, OpOf DEF Requesting
<1>7. CASE op = "convertAll"
  BY <1>6, <1>7, Heads, OpOf
<1>8. CASE op = "convertOne"
  BY <1>6, <1>8, Heads, OpOf
<1> QED
  BY <1>7, <1>8

(* A conversion that starts, and one that fails at once for want of power. *)
(* A conversion starts with the settings that a device has.                *)
LEMMA ConversionKeeps ==
  ASSUME ThermInv, NEW targets, NEW rest, StartConversion(targets, rest)
  PROVE  /\ dev' \in [Devices -> ThermRecords] /\ measured' \in [Devices -> Temps] /\ SettingsInv'
         /\ \A d \in asked' : d \in targets /\ d \in seen /\ AfterReset[d].known
                              /\ dev'[d].cfg = AfterReset[d].cfg /\ dev'[d].left = ConversionTime(d, AfterReset[d].cfg)
<1> DEFINE Forgets(d) == d \in targets /\ d \in Parasitic /\ ~parasite
           Started(d) == d \in targets /\ ~Forgets(d)
           x(d) == AfterReset[d]
<1>1. \A d \in Devices :
        /\ dev'[d] = IF Forgets(d) THEN PowerOn(dev[d])
                     ELSE IF Started(d) THEN [x(d) EXCEPT !.left = ConversionTime(d, x(d).cfg)] ELSE x(d)
        /\ measured'[d] = IF Forgets(d) THEN TempPowerOn ELSE MeasuredAfterReset[d]
  BY DEF StartConversion
<1>2. DOMAIN dev' = Devices /\ dev' = [d \in Devices |-> dev'[d]] /\ DOMAIN measured' = Devices /\ measured' = [d \in Devices |-> measured'[d]]
  BY DEF StartConversion
<1>3. Model' = Model /\ bitResolution' = bitResolution
  BY DEF StartConversion, library
<1>4. ASSUME NEW d \in Devices
      PROVE  dev'[d] \in ThermRecords /\ measured'[d] \in Temps /\ SettingsOf(Model[d], dev'[d], measured'[d], bitResolution)
  <2>1. x(d) \in ThermRecords /\ MeasuredAfterReset[d] \in Temps /\ SettingsOf(Model[d], x(d), MeasuredAfterReset[d], bitResolution)
    BY ResetType, ResetSettings DEF ThermInv
  <2>2. CASE Forgets(d)
    <3>1. dev[d].saved = Settings /\ dev[d].saved \in AnySettings /\ dev[d].told \in AnySettings
      BY DEF ThermInv, ThermTypeInv, ThermRecords, SettingsInv, SettingsOf
    <3>2. dev'[d] = PowerOn(dev[d]) /\ measured'[d] = TempPowerOn
      BY <1>1, <2>2
    <3> QED
      BY <3>1, <3>2, PowerOnSettings, PowerOnType DEF Temps
  <2>3. CASE Started(d)
    <3> DEFINE y == dev'[d]
    <3>1. y = [x(d) EXCEPT !.left = ConversionTime(d, x(d).cfg)] /\ measured'[d] = MeasuredAfterReset[d]
      BY <1>1, <2>3
    <3>2. x(d).cfg \in Cfgs
      BY <2>1 DEF ThermRecords
    <3>3. ConversionTime(d, x(d).cfg) \in 0 .. 8
      BY <3>2, ConversionTimes
    <3> HIDE DEF y, x
    <3>4. y \in ThermRecords
      BY <2>1, <3>1, <3>3 DEF ThermRecords
    <3>5. /\ y.th = x(d).th /\ y.tl = x(d).tl /\ y.cfg = x(d).cfg /\ y.wanted = x(d).wanted /\ y.told = x(d).told /\ y.saved = x(d).saved
          /\ y.valid = x(d).valid /\ y.flag = x(d).flag /\ y.known = x(d).known
      BY <2>1, <3>1 DEF ThermRecords
    <3>6. SettingsOf(Model[d], y, measured'[d], bitResolution)
      BY <2>1, <3>1, <3>5 DEF SettingsOf, Told, Wanted
    <3> QED
      BY <2>1, <3>1, <3>4, <3>6 DEF y
  <2>4. CASE ~Forgets(d) /\ ~Started(d)
    BY <1>1, <2>1, <2>4
  <2> QED
    BY <2>2, <2>3, <2>4
<1>5. dev' \in [Devices -> ThermRecords] /\ measured' \in [Devices -> Temps]
  BY <1>2, <1>4
<1>6. SettingsInv'
  BY <1>3, <1>4 DEF SettingsInv
<1>7. ASSUME NEW d \in asked'
      PROVE  d \in targets /\ d \in seen /\ AfterReset[d].known
             /\ dev'[d].cfg = AfterReset[d].cfg /\ dev'[d].left = ConversionTime(d, AfterReset[d].cfg)
  <2>1. d \in targets /\ d \in seen /\ x(d).known
    BY DEF StartConversion
  <2>2. d \in Devices /\ (d \in Parasitic => parasite)
    BY <2>1 DEF ThermInv, ThermTypeInv, SeenInv
  <2>3. Started(d)
    BY <2>1, <2>2
  <2>4. dev'[d] = [x(d) EXCEPT !.left = ConversionTime(d, x(d).cfg)]
    BY <1>1, <2>2, <2>3
  <2>5. x(d) \in ThermRecords
    BY <2>2, ResetType DEF ThermInv
  <2> HIDE DEF x
  <2>6. dev'[d].cfg = x(d).cfg /\ dev'[d].left = ConversionTime(d, x(d).cfg)
    BY <2>4, <2>5 DEF ThermRecords
  <2> QED
    BY <2>1, <2>6 DEF x
<1> QED
  BY <1>5, <1>6, <1>7

(* A coarser resolution needs no longer.                                   *)
LEMMA UnitsGrow ==
  /\ \A b \in {0} \union 9 .. 12 : UnitsOf(b) \in 1 .. 8
  /\ \A b, c \in 9 .. 12 : b <= c => UnitsOf(b) <= UnitsOf(c)
  BY UnitsAre DEF UnitsOf

LEMMA DelayHead == \A v : todo' = <<O("delay", v)>> => Doing("delay")' /\ Head1' = O("delay", v) /\ ~Found' /\ ~Doing("power")' /\ ~Asking'
  BY DEF Doing, Head1, Found, Finding, Asking, O

LEMMA ConvertAllStep == ASSUME ThermInv, ConvertAll PROVE ThermInv'
<1>0. /\ Doing("convertAll") /\ StartConversion(attached, IF waitForConversion THEN Wait(bitResolution) ELSE <<>>)
      /\ UNCHANGED <<Model, attached, library, address, depth, pad, result, origin, seen, same, bounds>>
      /\ asked' = {d \in attached \intersect seen : AfterReset[d].known} /\ strong' = parasite
  BY DEF ConvertAll, StartConversion, Everyone
<1>1. todo = <<O("convertAll", 0)>>
  BY <1>0, RequestGoes DEF ThermInv
<1>2. todo' = IF waitForConversion THEN <<O("delay", UnitsOf(bitResolution))>> ELSE <<>>
  <2>1. Goes(IF waitForConversion THEN Wait(bitResolution) ELSE <<>>)
    BY <1>0 DEF StartConversion
  <2>2. Wait(bitResolution) = <<O("delay", UnitsOf(bitResolution))>>
    BY DEF Wait, Do, O
  <2>3. CASE waitForConversion
    BY <1>1, <2>1, <2>2, <2>3, Replaced DEF Goes
  <2>4. CASE ~waitForConversion
    BY <1>1, <2>1, <2>4, Popped DEF Goes
  <2> QED
    BY <2>3, <2>4
<1>3. UnitsOf(bitResolution) \in 1 .. 8
  BY UnitsGrow DEF ThermInv, ThermTypeInv
<1>4. ProgramInv' /\ ~Found' /\ ~Doing("power")' /\ ~Asking'
  <2>1. CASE todo' = <<>>
    BY <2>1, Elsewhere DEF ProgramInv
  <2>2. CASE todo' = <<O("delay", UnitsOf(bitResolution))>>
    BY <1>3, <2>2, DelayHead DEF ProgramInv, Delaying
  <2> QED
    BY <1>2, <2>1, <2>2
<1>5. /\ dev' \in [Devices -> ThermRecords] /\ measured' \in [Devices -> Temps] /\ SettingsInv'
      /\ \A d \in asked' : d \in attached /\ d \in seen /\ AfterReset[d].known
                           /\ dev'[d].cfg = AfterReset[d].cfg /\ dev'[d].left = ConversionTime(d, AfterReset[d].cfg)
  BY <1>0, ConversionKeeps
<1>6. asked' \subseteq seen /\ asked' \subseteq Devices
  BY <1>0 DEF ThermInv, ThermTypeInv
<1>7. ThermTypeInv'
  BY <1>0, <1>5, <1>6 DEF library, bounds, ThermInv, ThermTypeInv
<1>8. PadInv'
  <2>1. todo # <<>> /\ Head1.op \notin Users
    BY <1>0, HeadIs DEF Users
  <2> QED
    BY <1>0, <2>1, SilentStays DEF ThermInv
<1>9. ResultInv'
  BY <1>0, <1>1, NothingReturned DEF ThermInv
<1>10. SeenInv'
  BY <1>0, <1>4, <1>6, SeenKept DEF library, ThermInv, SeenInv
<1>11. ~Finer => AskedInv'
  <2> SUFFICES ASSUME ~Finer, Doing("delay")', NEW d \in asked', Model[d] # DS18S20
               PROVE  dev'[d].left \in 1 .. Head1'.v
    BY <1>0, <1>4 DEF AskedInv, Exempt
  <2>1. todo' = <<O("delay", UnitsOf(bitResolution))>> /\ Head1'.v = UnitsOf(bitResolution)
    BY <1>2, DelayHead, OpOf DEF Doing
  <2>2. d \in Devices /\ AfterReset[d] \in ThermRecords /\ AfterReset[d].cfg \in Cfgs
    BY <1>6, ResetType DEF ThermInv, ThermRecords
  <2>3. AfterReset[d].known /\ (BitsFor(AfterReset[d].cfg) <= bitResolution \/ BitsFor(AfterReset[d].cfg) = 9)
    BY <1>5, <2>2, ResetSettings, BitsOf DEF ThermInv, SettingsOf
  <2>4. BitsFor(AfterReset[d].cfg) \in 9 .. 12 /\ bitResolution \in {0} \union 9 .. 12
    BY <2>2, CfgBits DEF ThermInv, ThermTypeInv
  <2>5. dev'[d].left = UnitsOf(BitsFor(AfterReset[d].cfg))
    BY <1>5 DEF ConversionTime
  <2>6. UnitsOf(BitsFor(AfterReset[d].cfg)) \in 1 .. UnitsOf(bitResolution)
    BY <2>3, <2>4, UnitsGrow, UnitsAre
  <2> QED
    BY <2>1, <2>5, <2>6
<1> QED
  BY <1>4, <1>5, <1>7, <1>8, <1>9, <1>10, <1>11 DEF ThermInv

LEMMA AskingHead ==
  \A op \in {"connected", "wait"} : todo' = <<O("read", 0), O(op, 0)>> => Asking' /\ ~Found' /\ ~Doing("power")' /\ ~Doing("delay")'
  BY DEF Doing, Found, Finding, Asking, O

LEMMA ConvertOneStep == ASSUME ThermInv, ConvertOne PROVE ThermInv'
<1>0. /\ Doing("convertOne") /\ StartConversion(Selected, Do("read", 0) \o Do("connected", 0))
      /\ UNCHANGED <<Model, attached, library, address, depth, pad, result, origin, seen, same, bounds>>
      /\ asked' = {d \in Selected \intersect seen : AfterReset[d].known} /\ strong' = parasite
  BY DEF ConvertOne, StartConversion
<1>1. todo = <<O("convertOne", 0)>>
  BY <1>0, RequestGoes DEF ThermInv
<1>2. todo' = <<O("read", 0), O("connected", 0)>>
  <2>1. Goes(Do("read", 0) \o Do("connected", 0))
    BY <1>0 DEF StartConversion
  <2>2. Do("read", 0) = <<O("read", 0)>> /\ Do("connected", 0) = <<O("connected", 0)>>
    BY DEF Do, O
  <2>3. Do("read", 0) \o Do("connected", 0) = <<O("read", 0), O("connected", 0)>>
    BY <2>2, Two
  <2> QED
    BY <1>1, <2>1, <2>3, Replaced DEF Goes
<1>3. Asking' /\ ~Found' /\ ~Doing("power")' /\ ~Doing("delay")'
  BY <1>2, AskingHead
<1>4. ProgramInv'
  BY <1>3 DEF ProgramInv
<1>5. /\ dev' \in [Devices -> ThermRecords] /\ measured' \in [Devices -> Temps] /\ SettingsInv'
      /\ \A d \in asked' : d \in Selected /\ d \in seen /\ AfterReset[d].known
                           /\ dev'[d].cfg = AfterReset[d].cfg /\ dev'[d].left = ConversionTime(d, AfterReset[d].cfg)
  BY <1>0, ConversionKeeps
<1>6. asked' \subseteq seen /\ asked' \subseteq Devices
  BY <1>0 DEF ThermInv, ThermTypeInv
<1>7. ThermTypeInv'
  BY <1>0, <1>5, <1>6 DEF library, bounds, ThermInv, ThermTypeInv
<1>8. PadInv'
  <2>1. todo # <<>> /\ Head1.op \notin Users
    BY <1>0, HeadIs DEF Users
  <2> QED
    BY <1>0, <2>1, SilentStays DEF ThermInv
<1>9. ResultInv'
  BY <1>0, <1>1, NothingReturned DEF ThermInv
<1>10. SeenInv'
  BY <1>0, <1>3, <1>6, SeenKept DEF library, ThermInv, SeenInv
<1>11. AskedInv'
  <2> SUFFICES ASSUME NEW d \in asked', Model[d] # DS18S20
               PROVE  d = address /\ dev'[d].left = UnitsOf(BitsFor(dev'[d].cfg))
    BY <1>0, <1>3 DEF AskedInv, Exempt
  <2>1. d = address /\ dev'[d].left = ConversionTime(d, dev'[d].cfg)
    BY <1>5 DEF Selected
  <2> QED
    BY <2>1 DEF ConversionTime
<1> QED
  BY <1>4, <1>5, <1>7, <1>8, <1>9, <1>10, <1>11 DEF ThermInv

LEMMA AskGoes ==
  ASSUME ProgramInv, NEW op \in {"connected", "wait"}, Doing(op)
  PROVE  todo = <<O(op, 0)>>
<1>1. ~Requesting /\ ~Finding
  BY Heads, OpOf DEF Requesting, Finding
<1>2. ~Delaying /\ ~WritingAll
  BY Heads, OpOf DEF Delaying, WritingAll
<1>3. ~Reading
  BY Heads, OpOf DEF Reading, Reads
<1>4. ~Writing
  <2> SUFFICES ASSUME NEW w \in Writes PROVE todo \notin {<<O("read", 0), w>>, <<w>>}
    BY DEF Writing
  <2>1. w.op \notin {"connected", "wait"}
    BY WritesAre DEF WriteOps
  <2> QED
    BY <2>1, Heads, OpOf
<1>5. todo \in {<<O("read", 0), O("connected", 0)>>, <<O("connected", 0)>>, <<O("read", 0), O("wait", 0)>>, <<O("wait", 0)>>}
  BY <1>1, <1>2, <1>3, <1>4 DEF ProgramInv, Doing, Asking
<1>6. todo \in {<<O("connected", 0)>>, <<O("wait", 0)>>}
  BY <1>5, Heads, OpOf
<1>7. CASE op = "connected"
  BY <1>6, <1>7, Heads, OpOf
<1>8. CASE op = "wait"
  BY <1>6, <1>8, Heads, OpOf
<1> QED
  BY <1>7, <1>8

(* A step that uses the buffer and leaves the devices alone.               *)
LEMMA QuietStep ==
  ASSUME ThermInv, todo # <<>>, PadDies, UNCHANGED <<bus, library, address, depth, result, ghosts, bounds>>
  PROVE  ThermTypeInv' /\ PadInv' /\ SettingsInv' /\ ResultInv'
<1>1. NoOrigin \in Origins
  BY DEF NoOrigin, Origins
<1>2. ThermTypeInv' /\ SettingsInv'
  BY <1>1 DEF PadDies, bus, library, ghosts, bounds, ThermInv, ThermTypeInv, SettingsInv
<1>3. ResultInv'
  BY NothingReturned DEF ThermInv
<1> QED
  BY <1>2, <1>3, DeadPad

LEMMA GoesOnStep == ASSUME ThermInv, GoesOn PROVE ThermInv'
<1>0. Doing("connected") /\ PadDies /\ UNCHANGED <<bus, library, address, depth, result, ghosts, bounds>>
  BY DEF GoesOn
<1>1. todo = <<O("connected", 0)>>
  BY <1>0, AskGoes DEF ThermInv
<1>2. todo' = <<O("read", 0), O("wait", 0)>> \/ todo' = <<>>
  <2>1. Do("read", 0) = <<O("read", 0)>> /\ Do("wait", 0) = <<O("wait", 0)>>
    BY DEF Do, O
  <2>2. Do("read", 0) \o Do("wait", 0) = <<O("read", 0), O("wait", 0)>>
    BY <2>1, Two
  <2>3. Goes(<<O("read", 0), O("wait", 0)>>) \/ Goes(<<>>)
    BY <2>2 DEF GoesOn
  <2> QED
    BY <1>1, <2>3, Popped, Replaced DEF Goes
<1>3. ThermTypeInv' /\ PadInv' /\ SettingsInv' /\ ResultInv'
  BY <1>0, <1>1, QuietStep
<1>4. ~Found' /\ ~Doing("power")' /\ ~Doing("delay")'
  BY <1>2, AskingHead, Elsewhere
<1>5. ProgramInv'
  BY <1>2 DEF ProgramInv, Asking
<1>6. SeenInv'
  BY <1>0, <1>4, SeenKept DEF bus, ghosts, library, ThermInv, SeenInv
<1>7. Asking
  BY <1>1 DEF Asking
<1>8. ~Finer => AskedInv'
  BY <1>0, <1>4, <1>7 DEF bus, ghosts, ThermInv, AskedInv, Exempt
<1> QED
  BY <1>3, <1>5, <1>6, <1>8 DEF ThermInv

LEMMA WaitOneStep == ASSUME ChecksumsCatch, ThermInv, WaitOne PROVE ThermInv'
<1>0. Doing("wait") /\ PadDies /\ UNCHANGED <<bus, library, address, depth, result, ghosts, bounds>> /\ Goes(Wait(GetResolution))
  BY DEF WaitOne
<1>1. todo = <<O("wait", 0)>>
  BY <1>0, AskGoes DEF ThermInv
<1>2. todo' = <<O("delay", UnitsOf(GetResolution))>>
  <2>1. Wait(GetResolution) = <<O("delay", UnitsOf(GetResolution))>>
    BY DEF Wait, Do, O
  <2> QED
    BY <1>0, <1>1, <2>1, Replaced DEF Goes
<1>3. ThermTypeInv' /\ PadInv' /\ SettingsInv' /\ ResultInv'
  BY <1>0, <1>1, QuietStep
<1>4. Doing("delay")' /\ Head1' = O("delay", UnitsOf(GetResolution)) /\ ~Found' /\ ~Doing("power")' /\ ~Asking'
  BY <1>2, DelayHead
<1>5. UnitsOf(GetResolution) \in 1 .. 8
  BY ResolutionIs, UnitsGrow
<1>6. ProgramInv'
  BY <1>2, <1>5 DEF ProgramInv, Delaying
<1>7. SeenInv'
  BY <1>0, <1>4, SeenKept DEF bus, ghosts, library, ThermInv, SeenInv
<1>8. ~Finer => AskedInv'
  <2> SUFFICES ASSUME ~Finer, NEW d \in asked, ~Exempt(d)
               PROVE  dev[d].left \in 1 .. UnitsOf(GetResolution)
    BY <1>0, <1>4, OpOf DEF bus, ghosts, AskedInv, Exempt
  <2>1. d = address /\ dev[d].left = UnitsOf(BitsFor(dev[d].cfg))
    BY <1>1 DEF ThermInv, AskedInv, Asking
  <2>2. d \in Devices /\ d \in same /\ Model[d] # DS18S20
    BY DEF ThermInv, ThermTypeInv, SeenInv, Exempt
  <2>3. BitsFor(dev[d].cfg) \in 9 .. 12
    BY <2>2, CfgBits DEF ThermInv, ThermTypeInv, ThermRecords
  <2>4. CASE GetResolution = 0
    BY <2>1, <2>3, <2>4, UnitsGrow, UnitsAre
  <2>5. CASE GetResolution # 0
    <3>1. GetResolution = BitsFor(dev[d].cfg)
      BY <1>1, <2>1, <2>2, <2>5, ResolutionRight DEF ThermInv
    <3> QED
      BY <2>1, <2>3, <3>1, UnitsGrow
  <2> QED
    BY <2>4, <2>5
<1> QED
  BY <1>3, <1>6, <1>7, <1>8 DEF ThermInv

LEMMA DelayIs ==
  ASSUME ProgramInv, Doing("delay")
  PROVE  \E v \in 1 .. 8 : todo = <<O("delay", v)>>
<1>1. ~Requesting /\ ~Finding /\ ~Asking
  BY Heads, OpOf DEF Requesting, Finding, Asking
<1>2. ~WritingAll
  BY Heads, OpOf DEF WritingAll
<1>3. ~Reading
  BY Heads, OpOf DEF Reading, Reads
<1>4. ~Writing
  <2> SUFFICES ASSUME NEW w \in Writes PROVE todo \notin {<<O("read", 0), w>>, <<w>>}
    BY DEF Writing
  <2>1. w.op # "delay"
    BY WritesAre DEF WriteOps
  <2> QED
    BY <2>1, Heads, OpOf
<1> QED
  BY <1>1, <1>2, <1>3, <1>4 DEF ProgramInv, Doing, Delaying

LEMMA MeasuredType ==
  ASSUME NEW x \in ThermRecords, NEW f \in BOOLEAN
  PROVE  [x EXCEPT !.left = 0, !.valid = TRUE, !.flag = f] \in ThermRecords
<1> DEFINE y == [x EXCEPT !.left = 0, !.valid = TRUE, !.flag = f]
<1>1. 0 \in 0 .. 8 /\ TRUE \in BOOLEAN
  OBVIOUS
<1> QED
  BY <1>1 DEF ThermRecords

(* A unit of time: a device measures when none is left.                    *)
LEMMA TickDevices ==
  ASSUME ThermInv, Tick
  PROVE  /\ dev' \in [Devices -> ThermRecords] /\ measured' \in [Devices -> Temps] /\ SettingsInv'
         /\ \A d \in Devices :
              IF dev[d].left = 1 THEN Done(dev'[d])
              ELSE dev'[d].left = (IF dev[d].left = 0 THEN 0 ELSE dev[d].left - 1) /\ dev'[d].valid = dev[d].valid
<1> DEFINE Ready == {d \in Devices : dev[d].left = 1}
<1>1. PICK t \in [Ready -> Temperatures] :
        /\ measured' = [d \in Devices |-> IF d \in DOMAIN t THEN t[d] ELSE measured[d]]
        /\ dev' = [d \in Devices |->
             IF d \in DOMAIN t
             THEN [dev[d] EXCEPT !.left = 0, !.valid = TRUE, !.flag = t[d] \div 16 <= dev[d].tl \/ t[d] \div 16 >= dev[d].th]
             ELSE [dev[d] EXCEPT !.left = IF @ = 0 THEN 0 ELSE @ - 1]]
  BY DEF Tick
<1>2. DOMAIN t = Ready /\ \A d \in Ready : t[d] \in Temperatures
  OBVIOUS
<1>3. Model' = Model /\ bitResolution' = bitResolution
  BY DEF Tick, library
<1>4. ASSUME NEW d \in Devices
      PROVE  /\ dev'[d] \in ThermRecords /\ measured'[d] \in Temps
             /\ SettingsOf(Model[d], dev'[d], measured'[d], bitResolution)
             /\ IF dev[d].left = 1 THEN Done(dev'[d])
                ELSE dev'[d].left = (IF dev[d].left = 0 THEN 0 ELSE dev[d].left - 1) /\ dev'[d].valid = dev[d].valid
  <2> DEFINE x == dev[d]
             y == dev'[d]
  <2>1. x \in ThermRecords /\ measured[d] \in Temps /\ SettingsOf(Model[d], x, measured[d], bitResolution)
    BY DEF ThermInv, ThermTypeInv, SettingsInv
  <2>2. CASE x.left = 1
    <3> DEFINE f == (t[d] \div 16 <= x.tl \/ t[d] \div 16 >= x.th)
    <3>1. d \in Ready /\ t[d] \in Temperatures
      BY <1>2, <2>2
    <3>2. y = [x EXCEPT !.left = 0, !.valid = TRUE, !.flag = f] /\ measured'[d] = t[d]
      BY <1>1, <1>2, <3>1
    <3>3. f \in BOOLEAN
      OBVIOUS
    <3> HIDE DEF x, y
    <3>4. /\ y.th = x.th /\ y.tl = x.tl /\ y.cfg = x.cfg /\ y.wanted = x.wanted /\ y.told = x.told /\ y.saved = x.saved
          /\ y.known = x.known /\ y.left = 0 /\ y.valid = TRUE /\ y.flag = f
      BY <2>1, <3>2 DEF ThermRecords
    <3>5. y \in ThermRecords
      <4> HIDE DEF f
      <4> QED
        BY <2>1, <3>2, <3>3, MeasuredType
    <3>6. SettingsOf(Model[d], y, measured'[d], bitResolution)
      BY <2>1, <3>2, <3>4 DEF SettingsOf, Told, Wanted
    <3> QED
      BY <2>2, <3>1, <3>2, <3>4, <3>5, <3>6 DEF Done, Temps, x, y
  <2>3. CASE x.left # 1
    <3> DEFINE l == IF x.left = 0 THEN 0 ELSE x.left - 1
    <3>1. d \notin DOMAIN t
      BY <1>2, <2>3
    <3>2. y = [x EXCEPT !.left = l] /\ measured'[d] = measured[d]
      BY <1>1, <3>1
    <3> HIDE DEF x, y
    <3>3. x.left \in 0 .. 8
      BY <2>1 DEF ThermRecords
    <3>4. l \in 0 .. 8
      BY <3>3
    <3> HIDE DEF l
    <3>5. /\ y.th = x.th /\ y.tl = x.tl /\ y.cfg = x.cfg /\ y.wanted = x.wanted /\ y.told = x.told /\ y.saved = x.saved
          /\ y.known = x.known /\ y.left = l /\ y.valid = x.valid /\ y.flag = x.flag
      BY <2>1, <3>2 DEF ThermRecords
    <3>6. y \in ThermRecords
      BY <2>1, <3>2, <3>4 DEF ThermRecords
    <3>7. SettingsOf(Model[d], y, measured'[d], bitResolution)
      BY <2>1, <3>2, <3>5 DEF SettingsOf, Told, Wanted
    <3> QED
      BY <2>1, <2>3, <3>2, <3>5, <3>6, <3>7 DEF x, y, l
  <2> QED
    BY <2>2, <2>3
<1>5. dev' = [d \in Devices |-> dev'[d]] /\ measured' = [d \in Devices |-> measured'[d]]
  BY <1>1
<1>6. dev' \in [Devices -> ThermRecords] /\ measured' \in [Devices -> Temps]
  BY <1>4, <1>5
<1>7. SettingsInv'
  BY <1>3, <1>4 DEF SettingsInv
<1> QED
  BY <1>4, <1>6, <1>7

LEMMA TickGoes ==
  ASSUME ThermInv, Tick
  PROVE  \/ todo = <<>> /\ todo' = <<>>
         \/ todo = <<O("delay", 1)>> /\ todo' = <<>>
         \/ \E v \in 2 .. 8 : todo = <<O("delay", v)>> /\ todo' = <<O("delay", v - 1)>>
<1>1. CASE todo = <<>>
  BY <1>1 DEF Tick
<1>2. CASE todo # <<>>
  <2>1. Doing("delay")
    BY <1>2 DEF Tick
  <2>2. PICK v \in 1 .. 8 : todo = <<O("delay", v)>>
    BY <2>1, DelayIs DEF ThermInv
  <2>3. Head1 = O("delay", v) /\ Head1.v = v
    BY <2>2, Firsts, OpOf DEF Head1
  <2>4. CASE v > 1
    <3>1. todo' = [todo EXCEPT ![1].v = @ - 1]
      BY <1>2, <2>3, <2>4 DEF Tick
    <3>2. todo' = <<O("delay", v - 1)>>
      BY <2>2, <3>1 DEF O
    <3> QED
      BY <2>2, <2>4, <3>2
  <2>5. CASE ~(v > 1)
    <3>1. ~(Head1.v > 1) /\ v = 1
      BY <2>3, <2>5
    <3>2. Goes(<<>>)
      BY <1>2, <3>1 DEF Tick
    <3> QED
      BY <2>2, <3>1, <3>2, Popped DEF Goes
  <2> QED
    BY <2>4, <2>5
<1> QED
  BY <1>1, <1>2

LEMMA TickStep == ASSUME ThermInv, Tick PROVE ThermInv'
<1>0. UNCHANGED <<Model, attached, strong, library, address, depth, pad, result, origin, ghosts, bounds>>
  BY DEF Tick
<1>1. /\ dev' \in [Devices -> ThermRecords] /\ measured' \in [Devices -> Temps] /\ SettingsInv'
      /\ \A d \in Devices :
           IF dev[d].left = 1 THEN Done(dev'[d])
           ELSE dev'[d].left = (IF dev[d].left = 0 THEN 0 ELSE dev[d].left - 1) /\ dev'[d].valid = dev[d].valid
  BY TickDevices
<1>2. ThermTypeInv'
  BY <1>0, <1>1 DEF library, ghosts, bounds, ThermInv, ThermTypeInv
<1>3. ~Found' /\ ~Doing("power")' /\ ~Asking' /\ ProgramInv'
  <2>1. CASE todo' = <<>>
    BY <2>1, Elsewhere DEF ProgramInv
  <2>2. ASSUME NEW v \in 2 .. 8, todo' = <<O("delay", v - 1)>>
        PROVE  ~Found' /\ ~Doing("power")' /\ ~Asking' /\ ProgramInv'
    <3>1. v - 1 \in 1 .. 8
      OBVIOUS
    <3> QED
      BY <2>2, <3>1, DelayHead DEF ProgramInv, Delaying
  <2> QED
    BY <2>1, <2>2, TickGoes
<1>4. PadInv'
  <2>1. CASE todo' = <<>>
    BY <2>1, NoPad
  <2>2. ASSUME NEW v, todo = <<O("delay", v)>> PROVE PadInv'
    <3>1. todo # <<>> /\ Head1.op \notin Users
      BY <2>2, Firsts, OpOf DEF Head1, Users
    <3> QED
      BY <1>0, <3>1, SilentStays DEF ThermInv
  <2> QED
    BY <2>1, <2>2, TickGoes
<1>5. ResultInv'
  <2>1. CASE todo = <<>>
    <3>1. UNCHANGED <<todo, result, address, pad, origin, Model>>
      BY <1>0, <2>1 DEF Tick
    <3> QED
      BY <3>1, StillReturned DEF ThermInv
  <2>2. CASE todo # <<>>
    BY <1>0, <2>2, NothingReturned DEF ThermInv
  <2> QED
    BY <2>1, <2>2
<1>6. SeenInv'
  BY <1>0, <1>3, SeenKept DEF ghosts, library, ThermInv, SeenInv
<1>7. ~Finer => AskedInv'
  <2> SUFFICES ASSUME ~Finer, Doing("delay")', NEW d \in asked, ~Exempt(d)
               PROVE  Done(dev'[d]) \/ dev'[d].left \in 1 .. Head1'.v
    BY <1>0, <1>3 DEF ghosts, AskedInv, Exempt
  <2>1. PICK v \in 2 .. 8 : todo = <<O("delay", v)>> /\ todo' = <<O("delay", v - 1)>>
    BY TickGoes DEF Doing
  <2>2. Doing("delay") /\ Head1.v = v /\ Head1'.v = v - 1
    BY <2>1, OpOf DEF Doing, Head1
  <2>3. Done(dev[d]) \/ dev[d].left \in 1 .. v
    BY <2>2 DEF ThermInv, AskedInv
  <2>4. d \in Devices
    BY DEF ThermInv, ThermTypeInv
  <2> QED
    BY <1>1, <2>2, <2>3, <2>4 DEF Done
<1> QED
  BY <1>1, <1>2, <1>3, <1>4, <1>5, <1>6, <1>7 DEF ThermInv

(* A wait that ends finds every device done.                               *)
LEMMA FreshStep ==
  ASSUME ThermInv, ~Finer, ThermNext, Doing("delay"), todo' = <<>>
  PROVE  \A d \in asked : Exempt(d) \/ Done(dev'[d])
<1>0. todo # <<>>
  BY DEF Doing
<1>1. PICK v \in 1 .. 8 : todo = <<O("delay", v)>>
  BY DelayIs DEF ThermInv
<1>2. Tick
  <2>1. Head1.op = "delay"
    BY <1>0 DEF Doing, Head1
  <2>2. ~(GetAddress \/ SetNext \/ Find \/ ReadPowerSupply \/ ReadScratchPad \/ Compare \/ Store)
    BY <2>1, HeadIs DEF GetAddress, SetNext, Find, ReadPowerSupply, ReadScratchPad, Compare, Store
  <2>3. ~(Answer \/ WriteScratchPad \/ ConvertAll \/ ConvertOne \/ GoesOn \/ WaitOne)
    BY <2>1, HeadIs DEF Answer, WriteScratchPad, ConvertAll, ConvertOne, GoesOn, WaitOne
  <2>4. ~Sketch
    BY <1>0 DEF Sketch, Begin, RequestTemperatures, SetWaitForConversion, SetResolution, SetResolutionOf, TempByIndex, RequestByIndex,
                RequestTemperaturesByAddress, GetTempC, HasAlarm, GetSetting, ReadSwitch, SetHighAlarmTemp, SetLowAlarmTemp, CallOnly, Call
  <2>5. \A d \in Devices : ~(Attach(d) \/ Detach(d) \/ Restart(d))
    BY <1>0 DEF Attach, Detach, Restart, Loses, call
  <2> QED
    BY <2>2, <2>3, <2>4, <2>5 DEF ThermNext, Steps
<1>3. v = 1
  BY <1>0, <1>1, <1>2, TickGoes DEF O
<1>4. Head1.v = 1
  BY <1>1, <1>3, Firsts, OpOf DEF Head1
<1> SUFFICES ASSUME NEW d \in asked, ~Exempt(d) PROVE Done(dev'[d])
  OBVIOUS
<1>5. Done(dev[d]) \/ dev[d].left = 1
  BY <1>4 DEF ThermInv, AskedInv
<1>6. d \in Devices
  BY DEF ThermInv, ThermTypeInv
<1> QED
  BY <1>2, <1>5, <1>6, TickDevices DEF Done

(* What happens elsewhere leaves the call as it is.                        *)
LEMMA SameCall ==
  ASSUME ProgramInv, UNCHANGED <<todo, bitResolution, devices>>
  PROVE  ProgramInv' /\ (Found' <=> Found) /\ (Asking' <=> Asking) /\ (\A op : Doing(op)' <=> Doing(op))
<1>1. (Finding' <=> Finding) /\ (Asking' <=> Asking) /\ (Requesting' <=> Requesting) /\ (Delaying' <=> Delaying) /\ (Reading' <=> Reading)
  BY DEF Finding, Asking, Requesting, Delaying, Reading
<1>2. Writing' <=> Writing
  BY SameWrites DEF Writing
<1>3. WritingAll' <=> WritingAll
  BY DEF WritingAll
<1>4. (Found' <=> Found) /\ (\A op : Doing(op)' <=> Doing(op))
  BY <1>1 DEF Found, Doing
<1> QED
  BY <1>1, <1>2, <1>3, <1>4 DEF ProgramInv

LEMMA PadKept ==
  ASSUME ThermTypeInv, SettingsInv, PadInv, UNCHANGED <<Model, todo, address, origin, pad>>, same' \subseteq same,
         address \in Devices => /\ dev'[address] \in {dev[address], PowerOn(dev[address])}
                               /\ (address \in same' => dev'[address] = dev[address])
  PROVE  PadInv'
<1>1. CASE Conveyed
  <2>1. Conveyed'
    BY <1>1, FewerSame DEF Conveyed, ThermTypeInv
  <2> QED
    BY <2>1 DEF PadInv, Head1
<1>2. CASE ~Conveyed
  BY <1>2 DEF PadInv, Head1, IsConnected
<1> QED
  BY <1>1, <1>2

LEMMA NothingFound == todo = <<>> => ~Found
  BY DEF Found, Finding

(* The rest of a begin, when a device comes or goes.                       *)
LEMMA StillRising ==
  ASSUME ThermTypeInv, SettingsInv, RisingInv, address \in Devices, UNCHANGED <<Model, todo, address, pad, bitResolution>>,
         dev'[address] \in {dev[address], PowerOn(dev[address])}
  PROVE  RisingInv'
<1>1. GetResolution' = GetResolution
  BY DEF GetResolution, IsConnected
<1>2. ASSUME bitResolution <= BitsFor(dev[address].cfg) PROVE bitResolution <= BitsFor(dev'[address].cfg)
  <2>1. CASE dev'[address] = dev[address]
    BY <1>2, <2>1
  <2>2. CASE dev'[address] = PowerOn(dev[address])
    <3>1. dev[address].saved = Settings
      BY DEF SettingsInv, SettingsOf
    <3>2. dev'[address].cfg = 127
      BY <2>2, <3>1 DEF PowerOn, Settings
    <3>3. BitsFor(127) = 12
      BY DEF BitsFor
    <3> QED
      BY <3>2, <3>3 DEF ThermTypeInv
  <2> QED
    BY <2>1, <2>2
<1> QED
  BY <1>1, <1>2 DEF RisingInv

LEMMA PlugStep == ASSUME ThermInv, NEW p \in Devices, Attach(p) PROVE ThermInv'
<1>0. /\ UNCHANGED <<Model, dev, strong, measured, library, call, asked, seen, calls>> /\ same' = same \ {p}
      /\ p \notin attached /\ attached' = attached \union {p} /\ faults' = faults + 1 /\ faults < MaxFaults
  BY DEF Attach
<1>1. ProgramInv' /\ (Found' <=> Found) /\ (Asking' <=> Asking) /\ (\A op : Doing(op)' <=> Doing(op))
  BY <1>0, SameCall DEF ThermInv, library, call
<1>2. ThermTypeInv'
  BY <1>0, DallasAssumption DEF library, call, ThermInv, ThermTypeInv, DallasAssumption
<1>3. PadInv'
  BY <1>0, PadKept DEF call, ThermInv
<1>4. SettingsInv'
  BY <1>0 DEF library, ThermInv, SettingsInv
<1>5. ResultInv'
  BY <1>0, StillReturned DEF call, ThermInv
<1>8. Found => RisingInv'
  BY <1>0, StillRising DEF library, call, ThermInv, SeenInv
<1>6. SeenInv'
  BY <1>0, <1>1, <1>8 DEF library, call, ThermInv, SeenInv
<1>7. ~Finer => AskedInv'
  BY <1>0, <1>1 DEF call, ThermInv, AskedInv, Exempt, Head1
<1> QED
  BY <1>1, <1>2, <1>3, <1>4, <1>5, <1>6, <1>7 DEF ThermInv

LEMMA LosesStep == ASSUME ThermInv, NEW p \in Devices, Detach(p) \/ Restart(p) PROVE ThermInv'
<1>0. /\ UNCHANGED <<Model, strong, library, call, calls>>
      /\ p \in attached /\ attached' \in {attached, attached \ {p}} /\ faults' = faults + 1 /\ faults < MaxFaults
      /\ dev' = [dev EXCEPT ![p] = PowerOn(@)] /\ measured' = [measured EXCEPT ![p] = TempPowerOn]
      /\ asked' = asked \ {p} /\ seen' = seen \ {p} /\ same' = same \ {p}
  BY DEF Detach, Restart, Loses
<1>1. ProgramInv' /\ (Found' <=> Found) /\ (Asking' <=> Asking) /\ (\A op : Doing(op)' <=> Doing(op))
  BY <1>0, SameCall DEF ThermInv, library, call
<1>2. dev[p].saved = Settings /\ dev[p].saved \in AnySettings /\ dev[p].told \in AnySettings
  BY DEF ThermInv, ThermTypeInv, ThermRecords, SettingsInv, SettingsOf
<1>3. dev \in [Devices -> ThermRecords] /\ measured \in [Devices -> Temps]
  BY DEF ThermInv, ThermTypeInv
<1>4. \A d \in Devices : dev'[d] = (IF d = p THEN PowerOn(dev[d]) ELSE dev[d]) /\ measured'[d] = IF d = p THEN TempPowerOn ELSE measured[d]
  BY <1>0, <1>2, <1>3
<1>5. dev' \in [Devices -> ThermRecords] /\ measured' \in [Devices -> Temps]
  <2>1. PowerOn(dev[p]) \in ThermRecords /\ TempPowerOn \in Temps
    BY <1>2, PowerOnType DEF Temps
  <2> QED
    BY <1>0, <1>2, <1>3, <2>1
<1>6. ThermTypeInv'
  BY <1>0, <1>5, DallasAssumption DEF library, call, ThermInv, ThermTypeInv, DallasAssumption
<1>7. PadInv'
  <2>1. address \in Devices => /\ dev'[address] \in {dev[address], PowerOn(dev[address])}
                              /\ (address \in same' => dev'[address] = dev[address])
    BY <1>0, <1>4 DEF ThermInv, ThermTypeInv
  <2> QED
    BY <1>0, <2>1, PadKept DEF call, ThermInv
<1>8. SettingsInv'
  BY <1>0, <1>2, <1>4, PowerOnSettings DEF library, ThermInv, SettingsInv
<1>9. ResultInv'
  BY <1>0, StillReturned DEF call, ThermInv
<1>12. Found => RisingInv'
  <2> SUFFICES ASSUME Found PROVE RisingInv'
    OBVIOUS
  <2>1. address \in Devices /\ RisingInv
    BY DEF ThermInv, SeenInv
  <2>2. dev'[address] \in {dev[address], PowerOn(dev[address])}
    BY <1>4, <2>1
  <2> QED
    BY <1>0, <2>1, <2>2, StillRising DEF library, call, ThermInv
<1>10. SeenInv'
  BY <1>0, <1>1, <1>12 DEF library, call, ThermInv, SeenInv
<1>11. ~Finer => AskedInv'
  <2> SUFFICES ASSUME ~Finer PROVE AskedInv'
    OBVIOUS
  <2>1. \A d \in asked' : d \in asked /\ d \in Devices /\ dev'[d] = dev[d]
    BY <1>0, <1>4 DEF ThermInv, ThermTypeInv
  <2>2. UNCHANGED <<Model, address, todo>>
    BY <1>0 DEF call
  <2> QED
    BY <1>1, <2>1, <2>2 DEF ThermInv, AskedInv, Exempt, Head1
<1> QED
  BY <1>1, <1>6, <1>7, <1>8, <1>9, <1>10, <1>11 DEF ThermInv

(* A call that starts: what it may be.                                     *)
Starts(program) ==
  \/ program \in {<<>>, <<O("find", 0)>>, <<O("convertAll", 0)>>, <<O("convertOne", 0)>>, <<O("setAll", 0)>>}
  \/ \E op \in Reads : program \in {<<O("read", 0), O(op, 0)>>, <<O(op, 0)>>}
  \/ \E w \in Writes : program = <<O("read", 0), w>>
  \/ \E i \in 0 .. Len(Sensors) : program \in {<<O("address", i), O("read", 0), O("temp", 0)>>, <<O("address", i), O("convertOne", 0)>>}

LEMMA CallStep ==
  ASSUME ThermInv, NEW a \in Devices \union {NoDevice}, NEW program, Call(a, program), Starts(program),
         \/ UNCHANGED <<dev, bitResolution>>
         \/ /\ bitResolution' \in 9 .. 12 /\ dev' = [d \in Devices |-> [dev[d] EXCEPT !.known = FALSE]]
            /\ program = <<O("setAll", 0)>>
  PROVE  ThermInv'
<1>0. /\ todo = <<>> /\ calls < MaxCalls /\ calls' = calls + 1 /\ todo' = program /\ address' = a /\ result' = <<"nothing">>
      /\ same' = Devices /\ depth' = 0 /\ PadDies
      /\ UNCHANGED <<Model, attached, strong, measured, waitForConversion, devices, parasite, asked, seen, faults>>
  BY DEF Call
<1>1. ProgramInv' /\ (todo' = <<>> \/ todo' = <<O("find", 0)>> \/ Requesting' \/ Reading' \/ Writing' \/ WritingAll')
  <2>1. CASE program \in {<<>>, <<O("find", 0)>>}
    BY <1>0, <2>1 DEF ProgramInv, Finding
  <2>2. CASE program \in {<<O("convertAll", 0)>>, <<O("convertOne", 0)>>}
    BY <1>0, <2>2 DEF ProgramInv, Requesting
  <2>3. CASE program = <<O("setAll", 0)>>
    <3>1. 0 \in 0 .. devices'
      BY <1>0 DEF ThermInv, ThermTypeInv
    <3> QED
      BY <1>0, <2>3, <3>1 DEF ProgramInv, WritingAll
  <2>4. CASE \E op \in Reads : program \in {<<O("read", 0), O(op, 0)>>, <<O(op, 0)>>}
    BY <1>0, <2>4 DEF ProgramInv, Reading
  <2>5. CASE (\E w \in Writes : program = <<O("read", 0), w>>) /\ UNCHANGED bitResolution
    <3>1. Writes' = Writes
      BY <2>5, SameWrites
    <3> QED
      BY <1>0, <2>5, <3>1 DEF ProgramInv, Writing
  <2>6. ASSUME NEW i \in 0 .. Len(Sensors), program \in {<<O("address", i), O("read", 0), O("temp", 0)>>, <<O("address", i), O("convertOne", 0)>>}
        PROVE  ProgramInv' /\ (Requesting' \/ Reading')
    BY <1>0, <2>6 DEF ProgramInv, Reading, Requesting
  <2> QED
    BY <2>1, <2>2, <2>3, <2>4, <2>5, <2>6 DEF Starts
<1>2. ~Found' /\ ~Doing("power")' /\ ~Doing("delay")' /\ ~Asking'
  BY <1>1, Elsewhere
<1>3. bitResolution' \in {0} \union 9 .. 12 /\ dev' \in [Devices -> ThermRecords] /\ SettingsInv'
  <2>1. CASE UNCHANGED <<dev, bitResolution>>
    BY <1>0, <2>1 DEF ThermInv, ThermTypeInv, SettingsInv
  <2>2. CASE bitResolution' \in 9 .. 12 /\ dev' = [d \in Devices |-> [dev[d] EXCEPT !.known = FALSE]]
    <3>1. ASSUME NEW d \in Devices
          PROVE  dev'[d] \in ThermRecords /\ SettingsOf(Model[d], dev'[d], measured[d], bitResolution')
      <4> DEFINE x == dev[d]
      <4>1. x \in ThermRecords /\ SettingsOf(Model[d], x, measured[d], bitResolution)
        BY DEF ThermInv, ThermTypeInv, SettingsInv
      <4>2. dev'[d] = [x EXCEPT !.known = FALSE]
        BY <2>2
      <4> HIDE DEF x
      <4> QED
        BY <4>1, <4>2, Forgotten
    <3>2. dev' = [d \in Devices |-> dev'[d]]
      BY <2>2
    <3> QED
      BY <1>0, <2>2, <3>1, <3>2 DEF SettingsInv
  <2> QED
    BY <2>1, <2>2
<1>4. NoOrigin \in Origins /\ 0 \in 0 .. Len(Sensors)
  <2>1. Len(Sensors) \in Nat
    BY DallasAssumption DEF DallasAssumption
  <2> QED
    BY <2>1 DEF NoOrigin, Origins
<1>5. ThermTypeInv'
  BY <1>0, <1>3, <1>4, DallasAssumption DEF PadDies, ThermInv, ThermTypeInv, DallasAssumption
<1>6. ResultInv'
  BY <1>0 DEF ResultInv, ReadingsAgree, ReadsMeasured, AlarmAgrees
<1>7. SeenInv'
  BY <1>0, <1>2 DEF ThermInv, ThermTypeInv, SeenInv
<1> QED
  BY <1>0, <1>1, <1>2, <1>3, <1>5, <1>6, <1>7, NoneAsked, DeadPad DEF ThermInv

(* The programs of the calls.                                              *)
LEMMA ReadingStarts == \A op \in Reads : Starts(Do("read", 0) \o Do(op, 0)) /\ Starts(<<>> \o Do(op, 0))
<1> SUFFICES ASSUME NEW op \in Reads PROVE Starts(Do("read", 0) \o Do(op, 0)) /\ Starts(<<>> \o Do(op, 0))
  OBVIOUS
<1>1. Do("read", 0) \o Do(op, 0) = <<O("read", 0), O(op, 0)>>
  BY DoTwo
<1>2. <<>> \o <<O(op, 0)>> = <<O(op, 0)>>
  OBVIOUS
<1> QED
  BY <1>1, <1>2, DoIs DEF Starts

(* A switch is believed if it was heard, and only then.                    *)
LEMMA SwitchStep == ASSUME ChecksumsCatch, ThermInv, NEW state \in States, ReadSwitch(state) PROVE ThermInv'
<1>0. /\ todo = <<>> /\ calls < MaxCalls /\ calls' = calls + 1 /\ ResetBus /\ dev' = AfterReset
      /\ UNCHANGED <<Model, attached, library, todo, address, depth, pad, ghosts>>
  BY DEF ReadSwitch
<1> DEFINE sent == SwitchSends(state)
<1>1. PICK received \in {sent} \union Damaged(sent) :
        /\ result' = <<"switch", NoDevice, CheckCrc16(SubSeq(received, 1, 5), SubSeq(received, 6, 7))>>
        /\ origin' = [NoOrigin EXCEPT !.heard = (received = sent)]
        /\ faults' = IF received = sent THEN faults ELSE faults + 1
  BY DEF ReadSwitch
<1>2. origin' \in Origins /\ origin'.heard = (received = sent)
  BY <1>1 DEF NoOrigin, Origins
<1>3. faults' \in 0 .. MaxFaults
  <2>1. CASE received = sent
    BY <1>1, <2>1 DEF ThermInv, ThermTypeInv
  <2>2. CASE received # sent
    <3>1. received \in Damaged(sent)
      BY <2>2
    <3>2. faults # MaxFaults
      BY <3>1 DEF Damaged
    <3> QED
      BY <1>1, <2>2, <3>2, DallasAssumption DEF ThermInv, ThermTypeInv, DallasAssumption
  <2> QED
    BY <2>1, <2>2
<1>4. ThermTypeInv'
  <2>1. ThermTypeInv
    BY DEF ThermInv
  <2>2. calls' \in 0 .. MaxCalls
    BY <1>0, <2>1, DallasAssumption DEF ThermTypeInv, DallasAssumption
  <2>3. UNCHANGED <<Model, attached, devices, bitResolution, parasite, waitForConversion, todo, address, depth, pad, asked, seen, same>>
    BY <1>0 DEF library, ghosts
  <2>4. ResetBus /\ dev' = AfterReset /\ Model' = Model
    BY <1>0
  <2> QED
    BY <2>1, <2>2, <2>3, <2>4, <1>2, <1>3, ResetType DEF ResetBus, ThermTypeInv
<1>5. SettingsInv'
  BY <1>0, ResetKeeps DEF library, ThermInv
<1>6. ProgramInv' /\ (Found' <=> Found) /\ (Asking' <=> Asking) /\ (\A op : Doing(op)' <=> Doing(op))
  BY <1>0, SameCall DEF library, ThermInv
<1>7. result'[1] = "switch" /\ result'[3] = origin'.heard
  <2>1. result'[1] = "switch" /\ result'[3] = CheckCrc16(SubSeq(received, 1, 5), SubSeq(received, 6, 7))
    BY <1>1
  <2>2. CASE received = sent
    <3>1. CheckCrc16(SubSeq(received, 1, 5), SubSeq(received, 6, 7)) = TRUE
      BY <2>2 DEF ChecksumsCatch
    <3>2. origin'.heard = TRUE
      BY <1>2, <2>2
    <3> QED
      BY <2>1, <3>1, <3>2
  <2>3. CASE received # sent
    <3>1. received \in Damages(sent)
      BY <2>3 DEF Damaged
    <3>2. CheckCrc16(SubSeq(received, 1, 5), SubSeq(received, 6, 7)) = FALSE
      BY <3>1 DEF ChecksumsCatch
    <3>3. origin'.heard = FALSE
      BY <1>2, <2>3
    <3> QED
      BY <2>1, <3>2, <3>3
  <2> QED
    BY <2>2, <2>3
<1>8. ResultInv'
  BY <1>0, <1>7 DEF ResultInv, ReadingsAgree, ReadsMeasured, AlarmAgrees
<1>9. PadInv'
  BY <1>0, NoPad
<1>10. SeenInv'
  BY <1>0, <1>6, NothingFound DEF library, ghosts, ThermInv, SeenInv
<1>11. AskedInv'
  BY <1>0, <1>6 DEF AskedInv, Doing, Asking
<1> QED
  BY <1>4, <1>5, <1>6, <1>8, <1>9, <1>10, <1>11 DEF ThermInv

LEMMA SketchStep == ASSUME ChecksumsCatch, ThermInv, Sketch PROVE ThermInv'
<1>1. CASE Begin
  <2>1. Call(NoDevice, Do("find", 0)) /\ UNCHANGED <<bitResolution, dev>>
    BY <1>1 DEF Begin, CallOnly
  <2>2. Starts(Do("find", 0))
    BY DoIs DEF Starts
  <2> QED
    BY <2>1, <2>2, CallStep
<1>2. CASE RequestTemperatures
  <2>1. Call(NoDevice, Do("convertAll", 0)) /\ UNCHANGED <<bitResolution, dev>>
    BY <1>2 DEF RequestTemperatures, CallOnly
  <2>2. Starts(Do("convertAll", 0))
    BY DoIs DEF Starts
  <2> QED
    BY <2>1, <2>2, CallStep
<1>3. ASSUME NEW flag \in BOOLEAN, SetWaitForConversion(flag) PROVE ThermInv'
  <2>0. /\ todo = <<>> /\ waitForConversion' = flag /\ calls' = calls + 1 /\ calls < MaxCalls
        /\ UNCHANGED <<bus, devices, bitResolution, parasite, call, ghosts, faults>>
    BY <1>3 DEF SetWaitForConversion
  <2>1. ProgramInv' /\ (Found' <=> Found) /\ (Asking' <=> Asking) /\ (\A op : Doing(op)' <=> Doing(op))
    BY <2>0, SameCall DEF ThermInv, call
  <2>2. ThermTypeInv' /\ SettingsInv'
    BY <2>0, DallasAssumption DEF bus, call, ghosts, ThermInv, ThermTypeInv, SettingsInv, DallasAssumption
  <2>3. PadInv' /\ ResultInv'
    BY <2>0, NoPad, StillReturned DEF bus, call, ThermInv
  <2>4. SeenInv'
    BY <2>0, <2>1, NothingFound DEF bus, call, ghosts, ThermInv, SeenInv
  <2>5. AskedInv'
    BY <2>0, <2>1 DEF call, AskedInv, Doing, Asking
  <2> QED
    BY <2>1, <2>2, <2>3, <2>4, <2>5 DEF ThermInv
<1>4. ASSUME NEW bits \in Resolutions, SetResolution(bits) PROVE ThermInv'
  <2>1. PICK garbage \in Devices \union {NoDevice} :
          /\ Call(garbage, Do("setAll", 0)) /\ bitResolution' = Constrained(bits, 9, 12)
          /\ dev' = [d \in Devices |-> [dev[d] EXCEPT !.known = FALSE]]
    BY <1>4 DEF SetResolution
  <2>2. bits \in Nat
    BY DallasAssumption DEF DallasAssumption
  <2>3. bitResolution' \in 9 .. 12
    BY <2>1, <2>2 DEF Constrained
  <2>4. Do("setAll", 0) = <<O("setAll", 0)>> /\ Starts(<<O("setAll", 0)>>)
    BY DoIs DEF Starts
  <2>5. Call(garbage, <<O("setAll", 0)>>)
    BY <2>1, <2>4
  <2> QED
    BY <2>1, <2>3, <2>4, <2>5, CallStep
<1>5. ASSUME NEW bits \in Resolutions, NEW d \in Devices, SetResolutionOf(d, bits) PROVE ThermInv'
  <2>1. (Finer \/ bits <= bitResolution) /\ Call(d, Do("read", 0) \o Do("setCfg", bits)) /\ UNCHANGED <<bitResolution, dev>>
    BY <1>5 DEF SetResolutionOf, CallOnly
  <2>2. O("setCfg", bits) \in Writes
    BY <2>1 DEF Writes
  <2>3. Starts(Do("read", 0) \o Do("setCfg", bits))
    BY <2>2, DoTwo DEF Starts
  <2> QED
    BY <2>1, <2>3, CallStep
<1>6. ASSUME NEW i \in 0 .. Len(Sensors) - 1, TempByIndex(i) \/ RequestByIndex(i) PROVE ThermInv'
  <2>0. i \in 0 .. Len(Sensors)
    <3>1. Len(Sensors) \in Nat
      BY DallasAssumption DEF DallasAssumption
    <3> QED
      BY <3>1
  <2>1. CASE TempByIndex(i)
    <3>1. PICK garbage \in Devices \union {NoDevice} :
            Call(garbage, Do("address", i) \o Do("read", 0) \o Do("temp", 0)) /\ UNCHANGED <<bitResolution, dev>>
      BY <2>1 DEF TempByIndex, CallOnly
    <3>2. Starts(Do("address", i) \o Do("read", 0) \o Do("temp", 0))
      BY <2>0, DoThree DEF Starts
    <3> QED
      BY <3>1, <3>2, CallStep
  <2>2. CASE RequestByIndex(i)
    <3>1. PICK garbage \in Devices \union {NoDevice} :
            Call(garbage, Do("address", i) \o Do("convertOne", 0)) /\ UNCHANGED <<bitResolution, dev>>
      BY <2>2 DEF RequestByIndex, CallOnly
    <3>2. Starts(Do("address", i) \o Do("convertOne", 0))
      BY <2>0, DoTwo DEF Starts
    <3> QED
      BY <3>1, <3>2, CallStep
  <2> QED
    BY <1>6, <2>1, <2>2
<1>7. ASSUME NEW d \in Devices, RequestTemperaturesByAddress(d) \/ GetTempC(d) \/ HasAlarm(d) \/ GetSetting(d) PROVE ThermInv'
  <2>1. CASE RequestTemperaturesByAddress(d)
    <3>1. Call(d, Do("convertOne", 0)) /\ UNCHANGED <<bitResolution, dev>>
      BY <2>1 DEF RequestTemperaturesByAddress, CallOnly
    <3>2. Starts(Do("convertOne", 0))
      BY DoIs DEF Starts
    <3> QED
      BY <3>1, <3>2, CallStep
  <2>2. CASE GetTempC(d)
    <3>1. Call(d, Do("read", 0) \o Do("temp", 0)) /\ UNCHANGED <<bitResolution, dev>>
      BY <2>2 DEF GetTempC, CallOnly
    <3>2. Starts(Do("read", 0) \o Do("temp", 0))
      BY ReadingStarts DEF Reads
    <3> QED
      BY <3>1, <3>2, CallStep
  <2>3. CASE HasAlarm(d)
    <3>1. Call(d, Do("read", 0) \o Do("alarm", 0)) /\ UNCHANGED <<bitResolution, dev>>
      BY <2>3 DEF HasAlarm, CallOnly
    <3>2. Starts(Do("read", 0) \o Do("alarm", 0))
      BY ReadingStarts DEF Reads
    <3> QED
      BY <3>1, <3>2, CallStep
  <2>4. CASE GetSetting(d)
    <3>1. PICK op \in {"high", "low", "resolution"} :
            CallOnly(d, (IF op = "resolution" /\ Model[d] = DS18S20 THEN <<>> ELSE Do("read", 0)) \o Do(op, 0))
      BY <2>4 DEF GetSetting
    <3> DEFINE program == (IF op = "resolution" /\ Model[d] = DS18S20 THEN <<>> ELSE Do("read", 0)) \o Do(op, 0)
    <3>2. Call(d, program) /\ UNCHANGED <<bitResolution, dev>>
      BY <3>1 DEF CallOnly
    <3>3. op \in Reads
      BY DEF Reads
    <3>4. Starts(program)
      <4>1. CASE op = "resolution" /\ Model[d] = DS18S20
        BY <3>3, <4>1, ReadingStarts
      <4>2. CASE ~(op = "resolution" /\ Model[d] = DS18S20)
        BY <3>3, <4>2, ReadingStarts
      <4> QED
        BY <4>1, <4>2
    <3> HIDE DEF program
    <3> QED
      BY <3>2, <3>4, CallStep
  <2> QED
    BY <1>7, <2>1, <2>2, <2>3, <2>4
<1>9. ASSUME NEW d \in Devices, NEW celsius \in Highs, SetHighAlarmTemp(d, celsius) PROVE ThermInv'
  <2>1. Call(d, Do("read", 0) \o Do("setTh", Limited(celsius))) /\ UNCHANGED <<bitResolution, dev>>
    BY <1>9 DEF SetHighAlarmTemp, CallOnly
  <2>2. O("setTh", Limited(celsius)) \in Writes
    BY DEF Writes
  <2>3. Starts(Do("read", 0) \o Do("setTh", Limited(celsius)))
    BY <2>2, DoTwo DEF Starts
  <2> QED
    BY <2>1, <2>3, CallStep
<1>10. ASSUME NEW d \in Devices, NEW celsius \in Lows, SetLowAlarmTemp(d, celsius) PROVE ThermInv'
  <2>1. Call(d, Do("read", 0) \o Do("setTl", Limited(celsius))) /\ UNCHANGED <<bitResolution, dev>>
    BY <1>10 DEF SetLowAlarmTemp, CallOnly
  <2>2. O("setTl", Limited(celsius)) \in Writes
    BY DEF Writes
  <2>3. Starts(Do("read", 0) \o Do("setTl", Limited(celsius)))
    BY <2>2, DoTwo DEF Starts
  <2> QED
    BY <2>1, <2>3, CallStep
<1>8. ASSUME NEW state \in States, ReadSwitch(state) PROVE ThermInv'
  BY <1>8, SwitchStep
<1> QED
  BY <1>1, <1>2, <1>3, <1>4, <1>5, <1>6, <1>7, <1>8, <1>9, <1>10 DEF Sketch

(* The invariant holds at first, and every step keeps it.                  *)
LEMMA InitIInv == ASSUME ThermInit PROVE ThermInv
<1>1. Settings \in AnySettings
  BY FactorySettings
<1>2. FromFactory \in ThermRecords
  BY FactoryType
<1>3. Model \in [Devices -> {DS18S20, DS18B20, DS1822}]
  BY DallasAssumption DEF ThermInit, DallasAssumption
<1>4. 0 \in 0 .. Len(Sensors) /\ 0 \in 0 .. MaxCalls /\ 0 \in 0 .. MaxFaults
  <2>1. Len(Sensors) \in Nat
    BY DallasAssumption DEF DallasAssumption
  <2> QED
    BY <2>1, DallasAssumption DEF DallasAssumption
<1>5. dev \in [Devices -> ThermRecords] /\ measured \in [Devices -> Temps]
  BY <1>2 DEF ThermInit, Temps
<1>6. ThermTypeInv
  <2>1. origin \in Origins
    BY DEF ThermInit, NoOrigin, Origins
  <2>2. attached \subseteq Devices /\ address \in Devices \union {NoDevice} /\ depth \in 0 .. Len(Sensors)
    BY <1>4 DEF ThermInit
  <2>4. devices \in Nat /\ bitResolution \in {0} \union 9 .. 12
    BY DEF ThermInit
  <2>5. strong \in BOOLEAN /\ parasite \in BOOLEAN /\ waitForConversion \in BOOLEAN
    BY DEF ThermInit
  <2>3. asked \subseteq Devices /\ seen \subseteq Devices /\ same \subseteq Devices /\ calls \in 0 .. MaxCalls /\ faults \in 0 .. MaxFaults
    BY <1>4 DEF ThermInit
  <2> QED
    BY <1>3, <1>5, <2>1, <2>2, <2>3, <2>4, <2>5 DEF ThermTypeInv
<1>7. SettingsInv
  BY PowerOnSettings DEF ThermInit, SettingsInv, FromFactory
<1>8. todo = <<>>
  BY DEF ThermInit
<1>9. ProgramInv /\ PadInv
  BY <1>8 DEF ProgramInv, PadInv
<1>10. ResultInv
  BY <1>8 DEF ThermInit, ResultInv, ReadingsAgree, ReadsMeasured, AlarmAgrees
<1>11. ~Found /\ ~Asking /\ ~Doing("power") /\ ~Doing("delay")
  BY <1>8 DEF Found, Finding, Asking, Doing
<1>12. SeenInv
  BY <1>11 DEF ThermInit, SeenInv
<1>13. AskedInv
  BY <1>11 DEF AskedInv
<1> QED
  BY <1>6, <1>7, <1>9, <1>10, <1>12, <1>13 DEF ThermInv

LEMMA StutterStep == ASSUME ThermInv, UNCHANGED thermVars PROVE ThermInv'
<1>0. UNCHANGED <<bus, library, call, ghosts, bounds>>
  BY DEF thermVars
<1>1. ProgramInv' /\ (Found' <=> Found) /\ (Asking' <=> Asking) /\ (\A op : Doing(op)' <=> Doing(op))
  BY <1>0, SameCall DEF ThermInv, call, library
<1>2. ThermTypeInv' /\ SettingsInv'
  BY <1>0 DEF bus, library, call, ghosts, bounds, ThermInv, ThermTypeInv, SettingsInv
<1>3. ResultInv'
  BY <1>0 DEF bus, call, ThermInv, ResultInv, ReadingsAgree, ReadsMeasured, AlarmAgrees, IsConnected, Accepted
<1>4. PadInv'
  BY <1>0, PadKept DEF bus, call, ghosts, ThermInv
<1>7. Found => RisingInv'
  BY <1>0, StillRising DEF bus, library, call, ThermInv, SeenInv
<1>5. SeenInv'
  BY <1>0, <1>1, <1>7 DEF bus, library, call, ghosts, ThermInv, SeenInv
<1>6. ~Finer => AskedInv'
  BY <1>0, <1>1 DEF bus, call, ghosts, ThermInv, AskedInv, Exempt, Done, Head1
<1> QED
  BY <1>1, <1>2, <1>3, <1>4, <1>5, <1>6 DEF ThermInv

LEMMA NextStep == ASSUME ChecksumsCatch, ThermInv, [ThermNext]_thermVars PROVE ThermInv'
<1>1. CASE Steps
  BY <1>1, AddressStep, SetNextStep, FindStep, PowerStep, ReadStep, CompareStep, StoreStep, AnswerStep, WriteStep, ConvertAllStep, ConvertOneStep,
     GoesOnStep, WaitOneStep, TickStep DEF Steps
<1>2. CASE Sketch
  BY <1>2, SketchStep
<1>3. CASE \E d \in Devices : Attach(d) \/ Detach(d) \/ Restart(d)
  BY <1>3, PlugStep, LosesStep
<1>4. CASE UNCHANGED thermVars
  BY <1>4, StutterStep
<1> QED
  BY <1>1, <1>2, <1>3, <1>4 DEF ThermNext

LEMMA ThermAlways == ChecksumsCatch => (ThermSpec => []ThermInv)
<1> SUFFICES ASSUME ChecksumsCatch PROVE ThermSpec => []ThermInv
  OBVIOUS
<1>1. ThermInit => ThermInv
  BY InitIInv
<1>2. ThermInv /\ [ThermNext]_thermVars => ThermInv'
  BY NextStep
<1> QED
  BY <1>1, <1>2, PTL DEF ThermSpec

LEMMA SettingsHold == ASSUME ThermInv PROVE SettingsStay
<1> SUFFICES ASSUME NEW d \in attached, NEW octet \in DOMAIN Kept(d)
             PROVE  Kept(d)[octet] \in {dev[d].wanted[octet], dev[d].told[octet]}
  BY DEF SettingsStay
<1>1. octet \in {"th", "tl", "cfg"}
  BY DEF Kept
<1>2. Told(dev[d], dev[d])
  BY DEF ThermInv, ThermTypeInv, SettingsInv, SettingsOf
<1>3. CASE octet = "th"
  BY <1>2, <1>3 DEF Kept, Told
<1>4. CASE octet = "tl"
  BY <1>2, <1>4 DEF Kept, Told
<1>5. CASE octet = "cfg"
  BY <1>2, <1>5 DEF Kept, Told
<1> QED
  BY <1>1, <1>3, <1>4, <1>5

(* A setter changes its own octet of a device and no other: each is what   *)
(* the sketch has set since the device got its power, or what it has set   *)
(* before, while devices come and go between its read and its write and    *)
(* octets are damaged.                                                     *)
THEOREM SettingsStaySafe == ChecksumsCatch => (ThermSpec => []SettingsStay)
<1> SUFFICES ASSUME ChecksumsCatch PROVE ThermSpec => []SettingsStay
  OBVIOUS
<1>1. ThermInv => SettingsStay
  BY SettingsHold
<1> QED
  BY <1>1, ThermAlways, PTL

(* What getTempC returns is what the device has measured, or               *)
(* DEVICE_DISCONNECTED; hasAlarm is what the device itself would say; and  *)
(* CheckCrc16 accepts what was sent, and only that.                        *)
THEOREM ReadingsAgreeSafe == ChecksumsCatch => (ThermSpec => []ReadingsAgree)
<1> SUFFICES ASSUME ChecksumsCatch PROVE ThermSpec => []ReadingsAgree
  OBVIOUS
<1>1. ThermInv => ReadingsAgree
  BY DEF ThermInv, ResultInv
<1> QED
  BY <1>1, ThermAlways, PTL

(* When a blocking request returns, every device that the library knows is *)
(* done measuring, but for those that FreshReading names: so none for      *)
(* which begin has stored a 0 since; if no device is given a finer         *)
(* resolution than the library has been told of.                           *)
THEOREM FreshReadingSafe == ChecksumsCatch /\ ~Finer => (ThermSpec => FreshReading)
<1> SUFFICES ASSUME ChecksumsCatch, ~Finer PROVE ThermSpec => FreshReading
  OBVIOUS
<1> DEFINE Fresh == Doing("delay") /\ todo' = <<>> =>
                      \A d \in asked : Model[d] = DS18S20 \/ (d \in Parasitic /\ d = address) \/ (dev'[d].valid /\ dev'[d].left = 0)
<1>1. ThermInv /\ [ThermNext]_thermVars => [Fresh]_thermVars
  BY FreshStep DEF Exempt, Done
<1> QED
  BY <1>1, ThermAlways, PTL DEF ThermSpec, FreshReading
===============================================================================
