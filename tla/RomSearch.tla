------------------------------- MODULE RomSearch -------------------------------
(***************************************************************************)
(* OneWire::search, which returns one device address per call and keeps    *)
(* what it needs to find the next one; reset_search and target_search,     *)
(* which set where it goes on.  One action reads two bits and writes one,  *)
(* so that devices may come to the bus or leave it in the middle.          *)
(***************************************************************************)
EXTENDS OneWireBus

CONSTANT
  FamilyBits   \* the bits of the family code, the first byte of an address (8)

ASSUME FamilyAssumption == FamilyBits \in 1 .. Bits - 1

VARIABLES
  ROM_NO, LastDiscrepancy, LastDeviceFlag, LastFamilyDiscrepancy,
  id_bit_number, last_zero,   \* locals of search
  pc,        \* "idle", or "bits" while search is in its loop
  returned,  \* what the last search returned
  answered,  \* the devices that are there since the reset of this search
  found,     \* the addresses returned since the enumeration began
  steady,    \* no device has come or gone since then, and it was not targeted
  target     \* the family target_search asked for, or Any

busVars == <<present, listening>>
keptVars == <<ROM_NO, LastDiscrepancy, LastDeviceFlag, LastFamilyDiscrepancy>>
localVars == <<id_bit_number, last_zero, pc>>
ghostVars == <<answered, returned, found, steady, target>>
vars == <<busVars, keptVars, localVars, ghostVars>>

Any == <<>>
Family(d) == [n \in 1 .. FamilyBits |-> d[n]]

Zeros == [n \in 1 .. Bits |-> 0]

Init ==
  /\ present \in SUBSET Roms /\ listening = {}
  /\ ROM_NO = Zeros /\ LastDiscrepancy = 0 /\ LastDeviceFlag = FALSE /\ LastFamilyDiscrepancy = 0
  /\ id_bit_number = 1 /\ last_zero = 0 /\ pc = "idle"
  /\ returned = "nothing" /\ answered = {} /\ found = {} /\ steady = TRUE /\ target = Any

(***************************************************************************)
(* Devices are plugged in and out.  A new one waits for the next reset.    *)
(***************************************************************************)
Plug(d) ==
  /\ d \notin present /\ present' = present \union {d}
  /\ steady' = FALSE
  /\ UNCHANGED <<listening, keptVars, localVars, answered, returned, found, target>>

Unplug(d) ==
  /\ d \in present /\ present' = present \ {d} /\ listening' = listening \ {d} /\ answered' = answered \ {d}
  /\ steady' = FALSE
  /\ UNCHANGED <<keptVars, localVars, returned, found, target>>

(***************************************************************************)
(* The operations                                                          *)
(***************************************************************************)
reset_search ==
  /\ pc = "idle"
  /\ ROM_NO' = Zeros /\ LastDiscrepancy' = 0 /\ LastDeviceFlag' = FALSE /\ LastFamilyDiscrepancy' = 0
  /\ returned' = "nothing" /\ found' = {} /\ steady' = TRUE /\ target' = Any
  /\ UNCHANGED <<busVars, localVars, answered>>

Bug_KeepsDiscrepancy(family) ==
  /\ pc = "idle"
  /\ ROM_NO' = [n \in 1 .. Bits |-> IF n <= FamilyBits THEN family[n] ELSE 0]
  /\ LastDeviceFlag' = FALSE /\ LastFamilyDiscrepancy' = 0
  /\ target' = family
  /\ UNCHANGED <<busVars, localVars, LastDiscrepancy, answered, returned, found, steady>>

target_search(family) ==
  /\ pc = "idle"
  /\ ROM_NO' = [n \in 1 .. Bits |-> IF n <= FamilyBits THEN family[n] ELSE 0]
  /\ LastDiscrepancy' = Bits /\ LastDeviceFlag' = FALSE /\ LastFamilyDiscrepancy' = 0
  /\ target' = family
  /\ UNCHANGED <<busVars, localVars, answered, returned, found, steady>>

(* search() returns FALSE; its next call is like a first.                  *)
NotFound ==
  /\ LastDiscrepancy' = 0 /\ LastDeviceFlag' = FALSE /\ LastFamilyDiscrepancy' = 0
  /\ pc' = "idle" /\ listening' = {} /\ answered' = {} /\ id_bit_number' = 1 /\ last_zero' = 0
  /\ returned' = "no device" /\ target' = Any

Forget == found' = {} /\ steady' = TRUE

(* search() after the last device was returned: the enumeration is over.   *)
SearchAfterLast ==
  /\ pc = "idle" /\ LastDeviceFlag
  /\ NotFound /\ Forget
  /\ UNCHANGED <<present, ROM_NO>>

(* No device answers the reset.                                            *)
SearchNoPresence ==
  /\ pc = "idle" /\ ~LastDeviceFlag /\ present = {}
  /\ NotFound /\ Forget
  /\ UNCHANGED <<present, ROM_NO>>

(* The reset is answered and the search command written.                   *)
SearchBegin ==
  /\ pc = "idle" /\ ~LastDeviceFlag /\ present # {}
  /\ listening' = present /\ answered' = present /\ id_bit_number' = 1 /\ last_zero' = 0 /\ pc' = "bits"
  /\ UNCHANGED <<present, keptVars, returned, found, steady, target>>

(* Nobody answers.                                                         *)
Lost(n) == ReadBit(n) = 1 /\ ReadComplement(n) = 1

(* Where all listening devices agree, their bit; where they do not, before *)
(* the last discrepancy as before, there 1, and behind it 0.               *)
Conflict(n) == ReadBit(n) = 0 /\ ReadComplement(n) = 0

Bug_ZeroAgain(n) ==
  IF ~Conflict(n) THEN ReadBit(n)
  ELSE IF n <= LastDiscrepancy THEN ROM_NO[n] ELSE 0

Direction(n) ==
  IF ~Conflict(n) THEN ReadBit(n)
  ELSE IF n < LastDiscrepancy THEN ROM_NO[n]
  ELSE IF n = LastDiscrepancy THEN 1 ELSE 0

InFamily(n) == n <= FamilyBits

SearchBit ==
  /\ pc = "bits" /\ id_bit_number <= Bits /\ ~Lost(id_bit_number)
  /\ LET n == id_bit_number
         pickedZero == Conflict(n) /\ Direction(n) = 0
     IN  /\ ROM_NO' = [ROM_NO EXCEPT ![n] = Direction(n)]
         /\ listening' = StillListening(n, Direction(n))
         /\ last_zero' = IF pickedZero THEN n ELSE last_zero
         /\ LastFamilyDiscrepancy' = IF pickedZero /\ InFamily(n) THEN n ELSE LastFamilyDiscrepancy
         /\ id_bit_number' = n + 1
  /\ UNCHANGED <<present, LastDiscrepancy, LastDeviceFlag, pc, ghostVars>>

(* The devices that took part are gone.                                    *)
SearchLost ==
  /\ pc = "bits" /\ id_bit_number <= Bits /\ Lost(id_bit_number)
  /\ NotFound /\ Forget
  /\ UNCHANGED <<present, ROM_NO>>

IsLast == last_zero = 0

(* All bits are known: search() returns TRUE.                              *)
SearchFound ==
  /\ pc = "bits" /\ id_bit_number > Bits
  /\ \E n \in 1 .. FamilyBits : ROM_NO[n] = 1
  /\ LastDiscrepancy' = last_zero /\ LastDeviceFlag' = (IsLast \/ LastDeviceFlag)
  /\ pc' = "idle" /\ listening' = {} /\ answered' = {} /\ id_bit_number' = 1 /\ last_zero' = 0
  /\ returned' = "device" /\ target' = Any
  /\ found' = found \union {ROM_NO}
  /\ steady' = (steady /\ target = Any)
  /\ UNCHANGED <<present, ROM_NO, LastFamilyDiscrepancy>>

(* The same, but !ROM_NO[0].                                               *)
SearchFoundZero ==
  /\ pc = "bits" /\ id_bit_number > Bits
  /\ \A n \in 1 .. FamilyBits : ROM_NO[n] = 0
  /\ NotFound /\ Forget
  /\ UNCHANGED <<present, ROM_NO>>

Search ==
  \/ SearchAfterLast \/ SearchNoPresence \/ SearchBegin
  \/ SearchBit \/ SearchLost \/ SearchFound \/ SearchFoundZero
Next ==
  \/ Search \/ reset_search
  \/ \E d \in Roms : Plug(d) \/ Unplug(d) \/ target_search(Family(d))
Spec == Init /\ [][Next]_vars
-------------------------------------------------------------------------------
(***************************************************************************)
(* Properties                                                              *)
(***************************************************************************)

HasFamily(d) == \E n \in 1 .. FamilyBits : d[n] = 1
ReturnsDevice == pc = "bits" /\ pc' = "idle" /\ returned' = "device"

(* search() never puts an address together from several devices, or from   *)
(* what is left of an earlier one, even if devices vanish while it runs;   *)
(* an enumeration that no device disturbs returns no device twice...       *)
NewDevice == ROM_NO \in Roms /\ (steady' => ROM_NO \notin found)

(* ...and ends only when it has returned every device.  (A device whose    *)
(* family code is 0 ends it: search() takes a first byte of 0 for a        *)
(* failure.)                                                               *)
Enumerates ==
  [][/\ ReturnsDevice => NewDevice
     /\ (pc' = "idle" /\ returned' = "no device" /\ found' # found /\ steady /\ \A d \in present : HasFamily(d))
          => found = present]_vars

(* "Setup the search to find the device type 'family_code' on the next     *)
(* call to search ... if it is present" (OneWire.cpp:312-313): it returns  *)
(* one if one was on the bus all through the search.                       *)
TargetFound ==
  [][(ReturnsDevice /\ target # Any /\ \E d \in answered : Family(d) = target)
       => Family(ROM_NO) = target]_vars
===============================================================================
