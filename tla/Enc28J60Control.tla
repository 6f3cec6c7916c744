--------------------------- MODULE Enc28J60Control ---------------------------
(***************************************************************************)
(* How Enc28J60Network.cpp reaches the registers of the ENC28J60.  They are*)
(* in four banks; the library remembers in a static variable which one it  *)
(* has selected, and a call of init resets the controller but not that     *)
(* variable.  The registers of the PHY are reached through others, and     *)
(* take their time.  A call is the sequence of its accesses, and each is   *)
(* one step: the controller goes on between them, but nobody else uses SPI.*)
(***************************************************************************)
EXTENDS Integers, Sequences

CONSTANT NoBank   \* what bank holds before the first access, 0xff

VARIABLES
  todo,     \* the accesses that the call in progress has yet to make
  bank,     \* Enc28J60Network::bank
  bsel,     \* ECON1.BSEL, the bank the controller has selected
  last,     \* the register of the last access, and whether it was reached
  written,  \* the registers set since the last reset
  rxen,     \* ECON1.RXEN: frames are received
  asleep,   \* ECON2.PWRSV
  mii,      \* the PHY register chosen, what is going on with it and what was read
  link,     \* whether there is a link
  seen,     \* what link has been since linkStatus was called
  told      \* what linkStatus has returned

chipVars == <<bsel, rxen, asleep, mii>>
linkVars == <<link, seen, told>>
vars == <<todo, bank, last, written, chipVars, linkVars>>

(* enc28j60.h: the registers, which are in every bank or in one.           *)
Common == {"EIE", "EIR", "ECON1", "ECON2"}
Pointers == {"ERDPT", "EWRPT", "ETXST", "ETXND", "ERXST", "ERXND", "ERXRDPT", "EDMAST", "EDMADST", "EDMAND"}
BankOf(reg) ==
  CASE reg \in Common \union Pointers -> 0
    [] reg \in {"EPMM", "EPMCS", "ERXFCON", "EPKTCNT"} -> 1
    [] reg \in {"MACON1", "MACON3", "MABBIPG", "MAIPG", "MAMXFL", "MICMD", "MIREGADR", "MIWR", "MIRD"} -> 2
    [] reg \in {"MAADR", "MISTAT"} -> 3

(* What must be set before frames are received: the ring, the filters, the *)
(* MAC and its address.                                                    *)
Config == {"ERXST", "ERXND", "ERXFCON", "EPMM", "EPMCS", "MACON1", "MACON3", "MABBIPG", "MAIPG", "MAMXFL", "MAADR"}

NoReg == "none"
Idle == [reg |-> NoReg, does |-> "nothing", value |-> NoReg]

Init ==
  /\ todo = <<>> /\ bank = NoBank /\ bsel = 0 /\ last = [reg |-> NoReg, reached |-> TRUE] /\ written = {}
  /\ rxen = FALSE /\ asleep = FALSE /\ mii = Idle
  /\ link \in {"up", "down"} /\ seen = {} /\ told = NoReg

(***************************************************************************)
(* The accesses: writeReg and writeRegPair, readReg, and writeOp, which    *)
(* leaves the bank alone.                                                  *)
(***************************************************************************)
Write(reg, v) == [banked |-> TRUE, reg |-> reg, v |-> v]
Read(reg) == [banked |-> TRUE, reg |-> reg, v |-> "read"]
Op(reg, v) == [banked |-> FALSE, reg |-> reg, v |-> v]
SoftReset == Op("reset", "reset")
SetBank(reg) == Write(reg, "bank")
Wait == Write("MISTAT", "wait")

phyWrite(reg) == <<Write("MIREGADR", reg), Write("MIWR", "phy"), Wait>>

phyRead(reg) == <<Write("MIREGADR", reg), Write("MICMD", "MIIRD"), Wait, Write("MICMD", "stop"), Read("MIRD")>>

Sets(regs) == [i \in 1 .. Len(regs) |-> Write(regs[i], "set")]
RingRegs == <<"ERXST", "ERXRDPT", "ERXND">>
FilterRegs == <<"ERXFCON", "EPMM", "EPMCS">>
GapRegs == <<"MAIPG", "MABBIPG", "MAMXFL", "MAADR">>

(* The end of init, from the MAC registers on.                             *)
InitMac ==
  <<Write("MACON1", "set"), Op("MACON3", "set")>> \o Sets(GapRegs) \o phyWrite("PHCON2")
  \o <<SetBank("ECON1"), Op("EIE", "set"), Op("ECON1", "RXEN")>> \o phyWrite("PHLCON")

Bug_FiltersFirst == <<SoftReset>> \o Sets(FilterRegs) \o Sets(RingRegs) \o InitMac
Bug_NoReset == Sets(RingRegs) \o Sets(FilterRegs) \o InitMac

init == <<SoftReset>> \o Sets(RingRegs) \o Sets(FilterRegs) \o InitMac
receivePacket(some) ==
  <<Read("EPKTCNT")>> \o (IF some THEN <<Write("ERDPT", "set"), Op("ECON2", "PKTDEC")>> ELSE <<>>)
freePacket == <<Write("ERXRDPT", "set")>>
readByte == <<Write("ERDPT", "set")>>
writeByte == <<Write("EWRPT", "set")>>
readPacket == readByte
writePacket == writeByte
(* The callback of the compaction: a single byte, or the DMA of the chip.  *)
move(single) ==
  IF single THEN readByte \o writeByte
  ELSE Sets(<<"EDMAST", "EDMADST", "EDMAND">>)
       \o <<Op("ECON1", "clear CSUMEN"), Op("ECON1", "DMAST"), Op("ECON1", "read")>>
copyPacket(single) == move(single) \o freePacket
(* borrows: the control byte in front of the packet is not 0 already.      *)
sendPacket(borrows, fails) ==
  LET borrow == IF borrows THEN writeByte ELSE <<>>
  IN  readByte \o borrow
      \o <<Write("ETXST", "set"), Write("ETXND", "set"), Op("ECON1", "TXRTS"), Read("EIR")>>
      \o (IF fails THEN <<Op("ECON1", "clear TXRTS")>> ELSE <<>>) \o borrow
powerOff == <<Op("ECON1", "clear RXEN"), Op("ECON2", "VRPS"), Op("ECON2", "PWRSV")>>
powerOn == <<Op("ECON2", "clear PWRSV"), Op("ECON1", "RXEN")>>

(***************************************************************************)
(* The controller                                                          *)
(***************************************************************************)
(* What an access that reaches its register does there.                    *)
Effect(a) ==
  /\ rxen' = (CASE a.v = "RXEN" -> TRUE [] a.v \in {"clear RXEN", "reset"} -> FALSE [] OTHER -> rxen)
  /\ asleep' = (CASE a.v = "PWRSV" -> TRUE [] a.v \in {"clear PWRSV", "reset"} -> FALSE [] OTHER -> asleep)
  /\ written' = (CASE a.v = "reset" -> {} [] a.v = "set" -> written \union {a.reg} [] OTHER -> written)
  /\ mii' = (CASE a.reg = "MIREGADR" -> [mii EXCEPT !.reg = a.v]
               [] a.v = "phy" -> [mii EXCEPT !.does = "write"]
               [] a.v = "MIIRD" -> [mii EXCEPT !.does = "read"]
               [] a.v = "reset" -> Idle
               [] OTHER -> mii)
  /\ told' = IF a.reg = "MIRD" THEN mii.value ELSE told

(* An access: setBank selects the bank unless it is the one remembered.    *)
Access ==
  /\ todo # <<>>
  /\ LET a == Head(todo)
         selects == a.banked /\ BankOf(a.reg) # bank
         at == IF a.v = "reset" THEN 0 ELSE IF selects THEN BankOf(a.reg) ELSE bsel
         reached == a.v = "reset" \/ a.reg \in Common \/ at = BankOf(a.reg)
     IN  /\ a.v = "wait" /\ reached => mii.does = "nothing"
         /\ bank' = IF selects THEN BankOf(a.reg) ELSE bank
         /\ bsel' = at
         /\ last' = [reg |-> a.reg, reached |-> reached]
         /\ IF reached THEN Effect(a) ELSE UNCHANGED <<rxen, asleep, written, mii, told>>
  /\ todo' = Tail(todo)
  /\ UNCHANGED <<link, seen>>

(* The PHY is through with what it was told to do.                         *)
PhyDone ==
  /\ mii.does # "nothing"
  /\ mii' = [mii EXCEPT !.does = "nothing",
                        !.value = IF mii.does = "read" /\ mii.reg = "PHSTAT2" THEN link ELSE @]
  /\ UNCHANGED <<todo, bank, last, written, bsel, rxen, asleep, linkVars>>

LinkChanges ==
  /\ link' \in {"up", "down"} \ {link} /\ seen' = IF seen # {} /\ told = NoReg THEN seen \union {link'} ELSE seen
  /\ UNCHANGED <<todo, bank, last, written, chipVars, told>>

(***************************************************************************)
(* The calls.  Before any other a sketch calls UIPEthernetClass::begin; it *)
(* calls it again when it likes, but not while the controller sleeps, when *)
(* the PHY does not answer either.                                         *)
(***************************************************************************)
Starts(accesses) ==
  /\ todo = <<>> /\ todo' = accesses
  /\ UNCHANGED <<bank, last, written, chipVars, linkVars>>

Begun == Config \subseteq written

Begin == ~asleep /\ Starts(init)
Tick == Begun /\ \E some \in BOOLEAN : Starts(receivePacket(some))
Free == Begun /\ Starts(freePacket)
Send == Begun /\ \E borrows, fails \in BOOLEAN : Starts(sendPacket(borrows, fails))
Memory ==
  /\ Begun
  /\ \/ Starts(readPacket) \/ Starts(writePacket)
     \/ \E single \in BOOLEAN : Starts(move(single)) \/ Starts(copyPacket(single))
PowerOff == Begun /\ ~asleep /\ Starts(powerOff)
PowerOn == asleep /\ Starts(powerOn)
LinkStatus ==
  /\ Begun /\ ~asleep /\ todo = <<>>
  /\ todo' = phyRead("PHSTAT2") /\ seen' = {link} /\ told' = NoReg
  /\ UNCHANGED <<bank, last, written, chipVars, link>>

Call == Begin \/ Tick \/ Free \/ Memory \/ Send \/ PowerOff \/ PowerOn \/ LinkStatus
Next == Call \/ Access \/ PhyDone \/ LinkChanges
Spec == Init /\ [][Next]_vars
-------------------------------------------------------------------------------
(***************************************************************************)
(* Properties                                                              *)
(***************************************************************************)
(* linkStatus returns what the link was at some time during the call.      *)
LinkTold == todo = <<>> /\ seen # {} => told \in seen

(* Every access reaches the register it names, however calls follow each   *)
(* other: what setBank remembers is right wherever it is relied on, though *)
(* a reset selects bank 0 behind its back, and operations that leave the   *)
(* bank alone find the one they need; a register of the PHY too.           *)
ReachesRegister == last.reached /\ LinkTold

(* No frame is received before the ring, the filters and the MAC are set   *)
(* up, nor are they set while frames are received, the second time that    *)
(* begin is called and after powerOn too.                                  *)
ConfiguredFirst == rxen => Config \subseteq written /\ last.reg \notin Config
===============================================================================
