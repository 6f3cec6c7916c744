------------------------------- MODULE ArpTable -------------------------------
(***************************************************************************)
(* The ARP table of utility/uip_arp.c: which Ethernet card a frame for an  *)
(* IP address goes to.  It learns from the IP packets of the local network *)
(* (uip_arp_ipin) and from ARP packets meant for us (uip_arp_arpin), and   *)
(* uip_arp_out looks the next hop of a packet up in it.  Entries are to    *)
(* age by uip_arp_timer, which nothing calls: arptime and the time of      *)
(* every entry stay 0, no entry expires, and they are left out here.       *)
(***************************************************************************)
EXTENDS Integers

CONSTANTS
  TableSize,    \* UIP_ARPTAB_SIZE
  Stations,     \* the IP addresses of other hosts
  Local,        \* those of them in our network, by uip_netmask
  Router,       \* uip_draddr
  Cards,        \* Ethernet addresses
  NoCard,       \* none of them
  Unspecified,  \* 0.0.0.0
  Broadcast     \* 255.255.255.255

(* No half of a local address is 0: a used entry with such an address would*)
(* be taken for an unused one by uip_arp_update.                           *)
ASSUME ArpAssumption ==
  /\ TableSize \in Nat \ {0}
  /\ NoCard \notin Cards /\ Router \in Local /\ Local \subseteq Stations
  /\ Unspecified \notin Stations /\ Broadcast \notin Stations /\ Unspecified # Broadcast

VARIABLES
  arp_table,  \* the entries
  announced,  \* the card each address was last learned with, NoCard once it is evicted
  asked       \* the addresses an ARP request is under way for

arpVars == <<arp_table, announced, asked>>

Senders == Stations \union {Unspecified}
Entries == 1 .. TableSize
Unused == [ip |-> Unspecified, eth |-> NoCard]

(* uip_arp_init                                                            *)
ArpInit ==
  /\ arp_table = [i \in Entries |-> Unused]
  /\ announced = [ip \in Senders |-> NoCard]
  /\ asked = {}

EntriesFor(ip) == {i \in Entries : arp_table[i].ip = ip}
First(S) == CHOOSE i \in S : \A j \in S : i <= j

Bug_AlwaysNew(ip) ==
  IF EntriesFor(Unspecified) # {} THEN First(EntriesFor(Unspecified)) ELSE 1

(* The entry to use: the one of this address, else an unused one, else the *)
(* oldest, which is the first because all are equally old.                 *)
EntryToUse(ip) ==
  IF ip # Unspecified /\ EntriesFor(ip) # {} THEN First(EntriesFor(ip))
  ELSE IF EntriesFor(Unspecified) # {} THEN First(EntriesFor(Unspecified))
  ELSE 1

(* uip_arp_update.  With the sender 0.0.0.0 the entry becomes an unused one*)
(* (what its card is nobody reads).                                        *)
Learn(ip, eth) ==
  /\ arp_table' = [arp_table EXCEPT ![EntryToUse(ip)] = IF ip = Unspecified THEN Unused ELSE [ip |-> ip, eth |-> eth]]
  /\ announced' = [announced EXCEPT ![arp_table[EntryToUse(ip)].ip] = NoCard, ![ip] = eth, ![Unspecified] = NoCard]

(* uip_arp_ipin: only hosts of the local network are learned.              *)
IpIn(ip, eth) == IF ip \in Local THEN Learn(ip, eth) ELSE UNCHANGED <<arp_table, announced>>

(* uip_arp_arpin for a request: one for our address is answered from the   *)
(* packet itself, and the sender is learned.                               *)
ArpRequestIn(ip, eth, forUs) ==
  /\ IF forUs THEN Learn(ip, eth) ELSE UNCHANGED <<arp_table, announced>>
  /\ UNCHANGED asked

(* uip_arp_arpin for the reply to a request of ours.                       *)
ArpReplyIn(ip, eth) == ip \in asked /\ Learn(ip, eth) /\ asked' = asked \ {ip}

(* uip_arp_out: the address whose card is looked up, and what is found.    *)
Hop(dest) == IF dest \in Local THEN dest ELSE Router
Resolved(dest) == dest = Broadcast \/ EntriesFor(Hop(dest)) # {}
CardFor(dest) == IF dest = Broadcast THEN Broadcast ELSE arp_table[First(EntriesFor(Hop(dest)))].eth
===============================================================================
