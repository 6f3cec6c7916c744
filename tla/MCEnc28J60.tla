------------------------------ MODULE MCEnc28J60 ------------------------------
(* Two parts of the driver of the ENC28J60, each on its own: the receive   *)
(* ring, and the registers.  The ring has 32 bytes: two or three frames    *)
(* fill it, and frames start at addresses that put the header, the data or *)
(* nothing across its end.                                                 *)
EXTENDS RxRing

VARIABLES part, todo, bank, bsel, last, written, rxen, asleep, mii, link, seen, told

controlVars == <<todo, bank, bsel, last, written, rxen, asleep, mii, link, seen, told>>

Control == INSTANCE Enc28J60Control WITH NoBank <- 255

MCLengths == {2, 5}

MCInit == part \in {"ring", "registers"} /\ RingInit /\ Control!Init
MCNext ==
  \/ part = "ring" /\ RingNext /\ UNCHANGED <<part, controlVars>>
  \/ part = "registers" /\ Control!Next /\ UNCHANGED <<part, ringVars>>
MCFairness == part = "ring" => Fairness
MCSpec == MCInit /\ [][MCNext]_<<part, ringVars, controlVars>> /\ MCFairness
-------------------------------------------------------------------------------
(* The properties of Enc28J60Control, whose comments say what each is      *)
(* about: banks of registers and the PHY, and the order of configuration.  *)
ReachesRegister == Control!ReachesRegister
ConfiguredFirst == Control!ConfiguredFirst
===============================================================================
