------------------------------ MODULE OneWireBus ------------------------------
(***************************************************************************)
(* The 1-Wire bus as a search sees it.  The devices are external: during a *)
(* search a device sends its address bit by bit, and stops listening when  *)
(* the master writes another bit.  The wire is low when any device pulls it*)
(* low, and high when none does.                                           *)
(***************************************************************************)
EXTENDS Integers

CONSTANTS
  Bits,    \* the bits of an address, the checksum included (64)
  Roms     \* the addresses devices may have

ASSUME BusAssumption == Bits \in Nat \ {0} /\ Roms \subseteq [1 .. Bits -> {0, 1}]

VARIABLES
  present,    \* the devices on the bus
  listening   \* those that take part in the search still

(* What the master reads when the listening devices send their bit n, and  *)
(* then its complement.                                                    *)
ReadBit(n) == IF \E d \in listening : d[n] = 0 THEN 0 ELSE 1
ReadComplement(n) == IF \E d \in listening : d[n] = 1 THEN 0 ELSE 1

(* The devices that still listen after the master has written bit n.       *)
StillListening(n, bit) == {d \in listening : d[n] = bit}
===============================================================================
