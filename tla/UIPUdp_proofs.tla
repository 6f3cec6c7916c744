----------------------------- MODULE UIPUdp_proofs -----------------------------
(***************************************************************************)
(* Proofs that UDP sockets lose no block of the packet memory, that        *)
(* remoteIP is the sender, and that every frame is the right one for the   *)
(* right host on the right card, for any number of sockets, connections,   *)
(* blocks, hosts, cards and entries of the ARP table.                      *)
(*                                                                         *)
(* None of the three is inductive.  A datagram that waits goes where it was*)
(* addressed because the remote end of its connection changes only when a  *)
(* datagram arrives that the connection accepts, which one that has a      *)
(* remote end does only from there (Fits); that takes every connection to  *)
(* be one socket's alone (UdpInv).  A broadcast would be accepted from     *)
(* anybody, but never waits.  The table has at most one entry for an       *)
(* address, so what was announced last is what is found (ArpInv).          *)
(***************************************************************************)
EXTENDS UIPUdp, FiniteSetTheorems, WellFoundedInduction, TLAPS

(***************************************************************************)
(* The checksum of a ping's answer, for every checksum of the request.     *)
(***************************************************************************)
LEMMA SmallMod == ASSUME NEW n \in Int, 0 <= n, n < 65536 PROVE n % 65536 = n
OBVIOUS

(* What uip_process adds to the checksum is, with its carry, what the      *)
(* message has lost: the comparison of swapped words decides rightly.      *)
THEOREM ReplyChecksumAgrees ==
  ASSUME NEW chksum \in Nat, chksum < 65536
  PROVE  ReplyChecksum(chksum) \in Nat /\ ReplyChecksum(chksum) < 65536 /\ Agree(chksum, ReplyChecksum(chksum))
<1>1. EchoWord = 8 /\ Swapped(65535 - ICMP_ECHO * 256) = 65527
  BY DEF EchoWord, Swapped, ICMP_ECHO
<1> DEFINE r == ReplyChecksum(chksum)
<1>2. chksum \in Int /\ 0 <= chksum /\ chksum <= 65535
  OBVIOUS
<1>3. CASE chksum >= 65527
  <2>1. (chksum + 8 + 1) % 65536 = chksum - 65527
    BY <1>2, <1>3
  <2>2. r = chksum - 65527
    BY <1>1, <1>3, <2>1 DEF ReplyChecksum, Word16
  <2>3. r - chksum - EchoWord = -65535
    BY <1>1, <1>2, <2>2
  <2>4. r \in Nat /\ r < 65536
    BY <1>2, <1>3, <2>2
  <2>5. Agree(chksum, r)
    BY <2>3 DEF Agree
  <2> QED BY <2>4, <2>5
<1>4. CASE chksum < 65527
  <2>1. (chksum + 8) % 65536 = chksum + 8
    BY <1>2, <1>4, SmallMod
  <2>2. r = chksum + 8
    BY <1>1, <1>2, <1>4, <2>1 DEF ReplyChecksum, Word16
  <2>3. r - chksum - EchoWord = 0
    BY <1>1, <1>2, <2>2
  <2>4. r \in Nat /\ r < 65536
    BY <1>2, <1>4, <2>2
  <2>5. Agree(chksum, r)
    BY <2>3 DEF Agree
  <2> QED BY <2>4, <2>5
<1> QED BY <1>2, <1>3, <1>4
-------------------------------------------------------------------------------
(* First finds the least index: of the sets {j \in S : j <= i} one is a    *)
(* strict subset of no other.                                              *)
LEMMA FirstIn == ASSUME NEW n \in Nat, NEW S \in SUBSET (1 .. n), S # {} PROVE First(S) \in S
<1> DEFINE Below(i) == {j \in S : j <= i}
           Belows == {Below(i) : i \in S}
           R == StrictSubsetOrdering(1 .. n)
<1>1. IsWellFoundedOn(R, SUBSET (1 .. n))
  <2>1. IsFiniteSet(1 .. n)
    BY FS_Interval
  <2> QED BY <2>1, FS_FiniteSubsetsOfFinite, FS_StrictSubsetOrderingWellFounded
<1>2. Belows \subseteq SUBSET (1 .. n) /\ Belows # {}
  OBVIOUS
<1> HIDE DEF R
<1>3. PICK B \in Belows : \A C \in Belows : <<C, B>> \notin R
  BY <1>1, <1>2, WFMin
<1>4. PICK i \in S : B = Below(i)
  BY <1>3
<1>5. ASSUME NEW j \in S, j < i PROVE FALSE
  <2>1. S \subseteq Int
    OBVIOUS
  <2>2. i \in Below(i) /\ i \notin Below(j) /\ Below(j) \subseteq Below(i)
    <3>1. i \in Int /\ j \in Int /\ i <= i /\ ~(i <= j) /\ \A x \in S : x <= j => x <= i
      BY <1>5, <2>1
    <3> QED BY <3>1
  <2>3. Below(j) \in Belows /\ Below(j) \in SUBSET (1 .. n) /\ Below(i) \in SUBSET (1 .. n)
    OBVIOUS
  <2>4. <<Below(j), Below(i)>> \in R
    BY <2>2, <2>3 DEF R, StrictSubsetOrdering
  <2> QED BY <1>3, <1>4, <2>3, <2>4
<1>6. \A j \in S : i <= j
  BY <1>5
<1> QED BY <1>6 DEF First
-------------------------------------------------------------------------------
(***************************************************************************)
(* The ARP table                                                           *)
(***************************************************************************)
ArpInv ==
  /\ arp_table \in [Entries -> [ip : Senders, eth : Cards \union {NoCard}]]
  /\ announced \in [Senders -> Cards \union {NoCard}]
  /\ \A i \in Entries : arp_table[i].ip # Unspecified => announced[arp_table[i].ip] = arp_table[i].eth
  /\ \A i, j \in Entries : arp_table[i].ip # Unspecified /\ arp_table[i].ip = arp_table[j].ip => i = j

LEMMA EntryIsThere == ASSUME ArpInv, NEW ip PROVE EntryToUse(ip) \in Entries
<1>1. TableSize \in Nat /\ 1 \in Entries
  BY ArpAssumption DEF Entries
<1>2. \A a : EntriesFor(a) # {} => First(EntriesFor(a)) \in Entries
  BY <1>1, FirstIn DEF EntriesFor, Entries
<1> QED BY <1>1, <1>2 DEF EntryToUse

LEMMA LearnInv == ASSUME ArpInv, NEW ip \in Senders, NEW eth \in Cards, Learn(ip, eth) PROVE ArpInv'
<1> DEFINE e == EntryToUse(ip)
           new == IF ip = Unspecified THEN Unused ELSE [ip |-> ip, eth |-> eth]
<1>1. e \in Entries
  BY EntryIsThere
<1>2. ip # Unspecified => \A i \in Entries : arp_table[i].ip = ip => i = e
  <2>1. ASSUME ip # Unspecified, EntriesFor(ip) # {} PROVE e \in EntriesFor(ip)
    BY <2>1, ArpAssumption, FirstIn DEF EntryToUse, EntriesFor, Entries
  <2> QED BY <2>1, <1>1 DEF EntriesFor, ArpInv
<1>3. new \in [ip : Senders, eth : Cards \union {NoCard}] /\ new.ip = ip /\ (ip # Unspecified => new.eth = eth)
  BY DEF Unused, Senders
<1>4. /\ arp_table' = [arp_table EXCEPT ![e] = new]
      /\ announced' = [announced EXCEPT ![arp_table[e].ip] = NoCard, ![ip] = eth, ![Unspecified] = NoCard]
  BY DEF Learn
<1> HIDE DEF e, new
<1>5. /\ arp_table' \in [Entries -> [ip : Senders, eth : Cards \union {NoCard}]]
      /\ announced' \in [Senders -> Cards \union {NoCard}]
      /\ arp_table'[e] = new /\ \A i \in Entries : i # e => arp_table'[i] = arp_table[i]
  BY <1>1, <1>3, <1>4 DEF ArpInv
<1>6. Unspecified \in Senders /\ \A a \in Senders : announced'[a] =
        IF a = Unspecified THEN NoCard ELSE IF a = ip THEN eth ELSE IF a = arp_table[e].ip THEN NoCard ELSE announced[a]
  BY <1>1, <1>4 DEF ArpInv, Senders
<1>7. ASSUME NEW i \in Entries, arp_table'[i].ip # Unspecified
      PROVE  announced'[arp_table'[i].ip] = arp_table'[i].eth
  <2>1. CASE i = e
    BY <2>1, <1>3, <1>5, <1>6, <1>7
  <2>2. CASE i # e
    <3>1. arp_table[i].ip # ip /\ arp_table[i].ip # arp_table[e].ip /\ arp_table[i].ip \in Senders
      BY <2>2, <1>1, <1>2, <1>5, <1>7 DEF ArpInv
    <3> QED BY <2>2, <3>1, <1>5, <1>6, <1>7 DEF ArpInv
  <2> QED BY <2>1, <2>2
<1>8. ASSUME NEW i \in Entries, NEW j \in Entries, arp_table'[i].ip # Unspecified, arp_table'[i].ip = arp_table'[j].ip
      PROVE  i = j
  BY <1>1, <1>2, <1>3, <1>5, <1>8 DEF ArpInv
<1> QED BY <1>5, <1>7, <1>8 DEF ArpInv

(* A frame goes to the card last announced.                                *)
LEMMA CardIsAnnounced ==
  ArpInv => \A dest \in Senders : Resolved(dest) => CardFor(dest) = announced[Hop(dest)]
<1> SUFFICES ASSUME ArpInv, NEW dest \in Senders, Resolved(dest) PROVE CardFor(dest) = announced[Hop(dest)]
  OBVIOUS
<1>1. dest # Broadcast /\ Hop(dest) \in Stations /\ Hop(dest) # Unspecified
  BY ArpAssumption DEF Senders, Hop
<1>2. EntriesFor(Hop(dest)) # {}
  BY <1>1 DEF Resolved
<1>3. First(EntriesFor(Hop(dest))) \in EntriesFor(Hop(dest))
  BY <1>2, ArpAssumption, FirstIn DEF EntriesFor, Entries
<1> QED BY <1>1, <1>3 DEF CardFor, EntriesFor, ArpInv
-------------------------------------------------------------------------------
(***************************************************************************)
(* Sockets and their connections                                           *)
(***************************************************************************)
Single(S) == \A d, e \in S : d = e

Incoming == [from : Stations \X Ports, len : Nat]
Outgoing == [to : (Senders \union {Broadcast}) \X Ports, len : Nat]
Socket == [conn : UdpConns \union {NoConn}, in : SUBSET Incoming, next : SUBSET Incoming,
           out : SUBSET Outgoing, send : BOOLEAN, turned : BOOLEAN]
Connection == [lport : {0, ServerPort} \union {OwnPort(c) : c \in UdpConns},
               ripaddr : Senders \union {Broadcast}, rport : Ports \union {0}]

AtMostOne(k) == Single(k.in) /\ Single(k.next) /\ Single(k.out)

(* What ties the blocks of a socket to the remote end of its connection.   *)
Fits(k, remote) ==
  /\ ~k.turned => \A d \in k.in \union k.next : remote = d.from
  /\ Overlapping \/ \A d \in k.out :
       /\ d.to[1] # Unspecified => remote = d.to \/ (k.send /\ d.len = 0)
       /\ k.send /\ d.len # 0 => d.to[1] # Broadcast

(* A socket without a connection has no blocks.                            *)
Attached(k, conns) ==
  IF k.conn = NoConn THEN k.in = {} /\ k.next = {} /\ k.out = {}
  ELSE conns[k.conn].lport # 0 /\ Fits(k, <<conns[k.conn].ripaddr, conns[k.conn].rport>>)

UdpInv ==
  /\ sock \in [Sockets -> Socket] /\ udp_conns \in [UdpConns -> Connection]
  /\ \A s \in Sockets : AtMostOne(sock[s]) /\ Attached(sock[s], udp_conns)
  /\ \A s, t \in Sockets : sock[s].conn # NoConn /\ sock[s].conn = sock[t].conn => s = t

LEMMA ConnsAreNot0 == NoConn \notin UdpConns
BY UdpAssumption DEF NoConn, UdpConns

(* A step that changes one socket and one connection, the socket's or one  *)
(* that is free.                                                           *)
LEMMA OneSocket ==
  ASSUME UdpInv, NEW s \in Sockets, NEW c \in UdpConns, NEW k \in Socket, NEW v \in Connection,
         sock' = [sock EXCEPT ![s] = k], udp_conns' = [udp_conns EXCEPT ![c] = v],
         sock[s].conn = c \/ udp_conns[c].lport = 0,
         AtMostOne(k),
         IF k.conn = NoConn THEN k.in = {} /\ k.next = {} /\ k.out = {}
         ELSE k.conn = c /\ v.lport # 0 /\ Fits(k, <<v.ripaddr, v.rport>>)
  PROVE  UdpInv'
<1>1. /\ sock' \in [Sockets -> Socket] /\ udp_conns' \in [UdpConns -> Connection]
      /\ sock'[s] = k /\ udp_conns'[c] = v
      /\ \A t \in Sockets : t # s => sock'[t] = sock[t]
      /\ \A o \in UdpConns : o # c => udp_conns'[o] = udp_conns[o]
  BY DEF UdpInv
<1>2. ASSUME NEW t \in Sockets, t # s, sock[t].conn # NoConn PROVE sock[t].conn # c /\ sock[t].conn \in UdpConns
  BY <1>2, ConnsAreNot0 DEF UdpInv, Attached, Socket
<1>3. ASSUME NEW t \in Sockets PROVE AtMostOne(sock'[t]) /\ Attached(sock'[t], udp_conns')
  <2>1. CASE t = s
    BY <2>1, <1>1 DEF Attached
  <2>2. CASE t # s
    <3>1. AtMostOne(sock[t]) /\ Attached(sock[t], udp_conns) /\ sock'[t] = sock[t]
      BY <2>2, <1>1 DEF UdpInv
    <3>2. CASE sock[t].conn = NoConn
      BY <3>1, <3>2 DEF Attached
    <3>3. CASE sock[t].conn # NoConn
      <4>1. udp_conns'[sock[t].conn] = udp_conns[sock[t].conn]
        BY <2>2, <3>3, <1>1, <1>2
      <4> QED BY <3>1, <3>3, <4>1 DEF Attached
    <3> QED BY <3>2, <3>3
  <2> QED BY <2>1, <2>2
<1>4. ASSUME NEW t \in Sockets, NEW u \in Sockets, sock'[t].conn # NoConn, sock'[t].conn = sock'[u].conn PROVE t = u
  <2>1. CASE t # s /\ u # s
    BY <2>1, <1>1, <1>4 DEF UdpInv
  <2>2. CASE t = s /\ u # s
    BY <2>2, <1>1, <1>2, <1>4
  <2>3. CASE t # s /\ u = s
    BY <2>3, <1>1, <1>2, <1>4
  <2> QED BY <2>1, <2>2, <2>3
<1> QED BY <1>1, <1>3, <1>4 DEF UdpInv

(* A step that changes one socket only.                                    *)
LEMMA SameConnection ==
  ASSUME UdpInv, NEW s \in Sockets, NEW k \in Socket,
         sock' = [sock EXCEPT ![s] = k], UNCHANGED udp_conns, k.conn = sock[s].conn,
         AtMostOne(k),
         IF k.conn = NoConn THEN k.in = {} /\ k.next = {} /\ k.out = {} ELSE Fits(k, Remote(k.conn))
  PROVE  UdpInv'
<1>1. /\ sock' \in [Sockets -> Socket] /\ sock'[s] = k
      /\ \A t \in Sockets : t # s => sock'[t] = sock[t]
      /\ \A t \in Sockets : sock'[t].conn = sock[t].conn
  BY DEF UdpInv
<1>2. Attached(k, udp_conns')
  BY DEF UdpInv, Attached, Remote
<1>3. \A t \in Sockets : AtMostOne(sock'[t]) /\ Attached(sock'[t], udp_conns')
  BY <1>1, <1>2 DEF UdpInv
<1> QED BY <1>1, <1>3 DEF UdpInv

(* The connection of a call is the socket's or one that is free.           *)
LEMMA ConnForIs ==
  ASSUME UdpInv, NEW s \in Sockets, NEW c \in ConnFor(s)
  PROVE  c \in UdpConns /\ IF sock[s].conn = NoConn THEN udp_conns[c].lport = 0 ELSE sock[s].conn = c
BY DEF ConnFor, FreeConns, UdpInv, Socket
-------------------------------------------------------------------------------
(***************************************************************************)
(* The packet memory                                                       *)
(***************************************************************************)
Units(S) == IF S = {} THEN 0 ELSE 1
BlocksOf(k) == Units(k.in) + Units(k.next) + Units(k.out)

PoolInv == BlocksKept /\ free \in Int

LEMMA BlocksAreCounted == \A k : BlocksOf(k) \in Int
BY DEF BlocksOf, Units

LEMMA UnitsCounts == ASSUME NEW S, Single(S) PROVE Cardinality(S) = Units(S)
<1>1. CASE S = {}
  BY <1>1, FS_EmptySet DEF Units
<1>2. CASE S # {}
  <2>1. PICK d \in S : S = {d}
    BY <1>2 DEF Single
  <2> QED BY <2>1, FS_Singleton DEF Units
<1> QED BY <1>1, <1>2

(* Two sets of sockets that differ in one of them at most.                 *)
LEMMA DifferInOne ==
  ASSUME NEW s \in Sockets, NEW A \in SUBSET Sockets, NEW B \in SUBSET Sockets,
         \A t \in Sockets : t # s => (t \in A <=> t \in B)
  PROVE  /\ Cardinality(A) \in Int /\ Cardinality(B) \in Int
         /\ Cardinality(B) = Cardinality(A) + (IF s \in B THEN 1 ELSE 0) - (IF s \in A THEN 1 ELSE 0)
<1>1. IsFiniteSet(A) /\ IsFiniteSet(B)
  BY UdpAssumption, FS_Subset
<1>2. Cardinality(A) \in Nat /\ Cardinality(B) \in Nat
  BY <1>1, FS_CardinalityType
<1>3. CASE s \in A /\ s \notin B
  <2>1. A = B \union {s}
    BY <1>3
  <2> QED BY <1>1, <1>2, <1>3, <2>1, FS_AddElement
<1>4. CASE s \notin A /\ s \in B
  <2>1. B = A \union {s}
    BY <1>4
  <2> QED BY <1>1, <1>2, <1>4, <2>1, FS_AddElement
<1>5. CASE s \in A <=> s \in B
  <2>1. A = B
    BY <1>5
  <2> QED BY <1>2, <1>5, <2>1
<1> QED BY <1>3, <1>4, <1>5

(* A step of one socket keeps the balance if it frees or takes as many     *)
(* blocks as the socket then has less or more.                             *)
LEMMA Balance ==
  ASSUME PoolInv, sock \in [Sockets -> Socket], NEW s \in Sockets, NEW k \in Socket,
         sock' = [sock EXCEPT ![s] = k], free' = free + BlocksOf(sock[s]) - BlocksOf(k)
  PROVE  PoolInv'
<1>1. sock'[s] = k /\ \A t \in Sockets : t # s => sock'[t] = sock[t]
  OBVIOUS
<1> DEFINE In == {t \in Sockets : sock[t].in # {}}
           NextOnes == {t \in Sockets : sock[t].next # {}}
           Out == {t \in Sockets : sock[t].out # {}}
<1>2. Cardinality(In) \in Int /\ Cardinality(In') \in Int /\ Cardinality(In') = Cardinality(In) + Units(k.in) - Units(sock[s].in)
  BY <1>1, DifferInOne DEF Units
<1>3. Cardinality(NextOnes) \in Int /\ Cardinality(NextOnes') \in Int
      /\ Cardinality(NextOnes') = Cardinality(NextOnes) + Units(k.next) - Units(sock[s].next)
  BY <1>1, DifferInOne DEF Units
<1>4. Cardinality(Out) \in Int /\ Cardinality(Out') \in Int
      /\ Cardinality(Out') = Cardinality(Out) + Units(k.out) - Units(sock[s].out)
  BY <1>1, DifferInOne DEF Units
<1>5. \A S : Units(S) \in Int
  BY DEF Units
<1>6. BlocksKept <=> free + Cardinality(In) + Cardinality(NextOnes) + Cardinality(Out) = Blocks
  BY DEF BlocksKept
<1>7. BlocksKept' <=> free' + Cardinality(In') + Cardinality(NextOnes') + Cardinality(Out') = Blocks
  BY DEF BlocksKept
<1> HIDE DEF In, NextOnes, Out
<1> QED BY <1>2, <1>3, <1>4, <1>5, <1>6, <1>7 DEF PoolInv, BlocksOf

LEMMA PoolUnchanged == ASSUME PoolInv, UNCHANGED <<sock, free>> PROVE PoolInv'
BY DEF PoolInv, BlocksKept
-------------------------------------------------------------------------------
(***************************************************************************)
(* The functions of a socket                                               *)
(***************************************************************************)
Inv == UdpInv /\ PoolInv

LEMMA BeginInv == ASSUME Inv, NEW s \in Sockets, Begin(s, ServerPort) PROVE Inv'
<1> USE DEF Inv
<1>1. PICK c \in ConnFor(s) :
        /\ udp_conns' = [udp_conns EXCEPT ![c] = [(IF sock[s].conn = NoConn THEN UnusedConn ELSE @) EXCEPT !.lport = ServerPort]]
        /\ sock' = [sock EXCEPT ![s] = [@ EXCEPT !.conn = c]]
  BY DEF Begin
<1>2. UNCHANGED free
  BY DEF Begin
<1>3. c \in UdpConns /\ IF sock[s].conn = NoConn THEN udp_conns[c].lport = 0 ELSE sock[s].conn = c
  BY ConnForIs
<1> DEFINE k == [sock[s] EXCEPT !.conn = c]
           old == IF sock[s].conn = NoConn THEN UnusedConn ELSE udp_conns[c]
           v == [old EXCEPT !.lport = ServerPort]
<1>4. /\ sock[s] \in Socket /\ AtMostOne(sock[s]) /\ Attached(sock[s], udp_conns)
      /\ k \in Socket /\ k.conn = c /\ k.in = sock[s].in /\ k.next = sock[s].next /\ k.out = sock[s].out
      /\ k.turned = sock[s].turned /\ k.send = sock[s].send
  BY <1>3 DEF UdpInv, Socket
<1>5. v \in Connection /\ v.lport = ServerPort /\ v.ripaddr = old.ripaddr /\ v.rport = old.rport
  BY <1>3 DEF UdpInv, Connection, UnusedConn, Senders
<1>6. sock' = [sock EXCEPT ![s] = k] /\ udp_conns' = [udp_conns EXCEPT ![c] = v]
  BY <1>1
<1> HIDE DEF k, v
<1>7. ServerPort # 0 /\ AtMostOne(k) /\ BlocksOf(k) = BlocksOf(sock[s])
  BY <1>4, UdpAssumption DEF AtMostOne, BlocksOf
<1>8. Fits(k, <<v.ripaddr, v.rport>>)
  BY <1>3, <1>4, <1>5 DEF Attached, Fits
<1>9. UdpInv'
  BY <1>3, <1>4, <1>5, <1>6, <1>7, <1>8, ConnsAreNot0, OneSocket
<1>10. PoolInv'
  <2>1. free' = free + BlocksOf(sock[s]) - BlocksOf(k)
    BY <1>2, <1>7, BlocksAreCounted DEF PoolInv
  <2> QED BY <1>4, <1>6, <2>1, Balance DEF UdpInv
<1> QED BY <1>9, <1>10

LEMMA StopInv == ASSUME Inv, NEW s \in Sockets, Stop(s) PROVE Inv'
<1> USE DEF Inv
<1> DEFINE c == sock[s].conn
           v == [udp_conns[c] EXCEPT !.lport = 0]
<1>1. /\ sock[s] \in Socket /\ AtMostOne(sock[s]) /\ c \in UdpConns
      /\ udp_conns' = [udp_conns EXCEPT ![c] = v] /\ sock' = [sock EXCEPT ![s] = NewSocket]
      /\ free' = free + Cardinality(sock[s].in) + Cardinality(sock[s].next) + Cardinality(sock[s].out)
  BY DEF Stop, UdpInv, Socket
<1>2. v \in Connection
  BY <1>1 DEF UdpInv, Connection
<1>3. NewSocket \in Socket /\ NewSocket.conn = NoConn /\ NewSocket.in = {} /\ NewSocket.next = {} /\ NewSocket.out = {}
  BY DEF NewSocket, Socket
<1>4. AtMostOne(NewSocket)
  BY <1>3 DEF AtMostOne, Single
<1>5. UdpInv'
  BY <1>1, <1>2, <1>3, <1>4, OneSocket
<1>6. free' = free + BlocksOf(sock[s]) - BlocksOf(NewSocket)
  BY <1>1, <1>3, UnitsCounts DEF AtMostOne, BlocksOf, Units, PoolInv
<1>7. PoolInv'
  BY <1>1, <1>3, <1>6, Balance DEF UdpInv
<1> QED BY <1>5, <1>7

LEMMA BeginPacketInv ==
  ASSUME Inv, NEW s \in Sockets, NEW ip \in Senders \union {Broadcast}, NEW port \in Ports, BeginPacket(s, ip, port)
  PROVE  Inv'
<1> USE DEF Inv
<1> DEFINE k == sock[s]
           remote(c) == IF ip = Unspecified THEN Remote(c) ELSE <<ip, port>>
           new(c) == [k EXCEPT !.conn = c,
                               !.turned = @ \/ (k.in \union k.next # {} /\ remote(c) # Remote(c)),
                               !.out = IF @ = {} /\ free > 0 THEN {[to |-> <<ip, port>>, len |-> 0]} ELSE @]
           conn(c) == [lport |-> IF k.conn = NoConn THEN OwnPort(c) ELSE udp_conns[c].lport,
                       ripaddr |-> remote(c)[1], rport |-> remote(c)[2]]
<1>1. PICK c \in ConnFor(s) :
        /\ Overlapping \/ k.out = {} \/ remote(c) = Remote(c)
        /\ udp_conns' = [udp_conns EXCEPT ![c] = conn(c)] /\ sock' = [sock EXCEPT ![s] = new(c)]
        /\ free' = IF k.out = {} /\ free > 0 THEN free - 1 ELSE free
  BY DEF BeginPacket
<1>2. k.conn = NoConn => ip # Unspecified
  BY DEF BeginPacket
<1>3. c \in UdpConns /\ IF k.conn = NoConn THEN udp_conns[c].lport = 0 ELSE k.conn = c
  BY ConnForIs
<1>4. k \in Socket /\ AtMostOne(k) /\ Attached(k, udp_conns) /\ udp_conns[c] \in Connection
  BY <1>3 DEF UdpInv
<1>5. /\ remote(c) = <<remote(c)[1], remote(c)[2]>>
      /\ remote(c)[1] \in Senders \union {Broadcast} /\ remote(c)[2] \in Ports \union {0}
  BY <1>4 DEF Remote, Connection
<1>6. conn(c) \in Connection /\ conn(c).lport # 0 /\ <<conn(c).ripaddr, conn(c).rport>> = remote(c)
  <2>1. OwnPort(c) # 0
    BY <1>3, UdpAssumption DEF OwnPort, UdpConns
  <2>2. conn(c).lport \in {0, ServerPort} \union {OwnPort(o) : o \in UdpConns} /\ conn(c).lport # 0
    BY <2>1, <1>3, <1>4 DEF Connection, Attached
  <2> QED BY <1>5, <2>2 DEF Connection
<1> DEFINE d == [to |-> <<ip, port>>, len |-> 0]
           turns == k.turned \/ (k.in \union k.next # {} /\ remote(c) # Remote(c))
           outs == IF k.out = {} /\ free > 0 THEN {d} ELSE k.out
<1>7. /\ new(c) \in Socket /\ new(c).conn = c /\ new(c).in = k.in /\ new(c).next = k.next /\ new(c).send = k.send
      /\ new(c).turned = turns /\ new(c).out = outs
  <2>1. turns \in BOOLEAN
    BY <1>4 DEF Socket
  <2>2. d \in Outgoing
    BY DEF Outgoing
  <2>3. outs \in SUBSET Outgoing
    BY <1>4, <2>2 DEF Socket
  <2>4. new(c) = [k EXCEPT !.conn = c, !.turned = turns, !.out = outs]
    OBVIOUS
  <2> HIDE DEF turns, outs, new
  <2> QED BY <1>3, <1>4, <2>1, <2>3, <2>4 DEF Socket
<1> HIDE DEF new, conn
<1>8. AtMostOne(new(c))
  BY <1>4, <1>7 DEF AtMostOne, Single
<1>9. Fits(new(c), remote(c))
  <2>1. ~new(c).turned => \A e \in new(c).in \union new(c).next : remote(c) = e.from
    BY <1>3, <1>4, <1>7 DEF Attached, Fits, Remote
  <2>2. CASE k.out = {} /\ ~Overlapping
    <3>1. \A e \in new(c).out : e = d
      BY <1>7, <2>2
    <3>2. d.to[1] # Unspecified => remote(c) = d.to
      OBVIOUS
    <3>3. d.len = 0
      OBVIOUS
    <3> HIDE DEF d
    <3> QED BY <2>1, <3>1, <3>2, <3>3 DEF Fits
  <2>3. CASE k.out # {} /\ ~Overlapping
    <3>1. remote(c) = Remote(c) /\ new(c).out = k.out /\ new(c).send = k.send /\ k.conn = c
      BY <1>1, <1>3, <1>4, <1>7, <2>3 DEF Attached
    <3> HIDE DEF remote
    <3> QED BY <2>1, <3>1, <2>3, <1>3, <1>4, ConnsAreNot0 DEF Attached, Fits, Remote
  <2> QED BY <2>1, <2>2, <2>3 DEF Fits
<1>10. UdpInv'
  BY <1>1, <1>3, <1>6, <1>7, <1>8, <1>9, ConnsAreNot0, OneSocket
<1>11. free' = free + BlocksOf(k) - BlocksOf(new(c))
  <2>1. CASE k.out = {} /\ free > 0
    <3>1. new(c).out # {} /\ free' = free - 1
      BY <1>1, <1>7, <2>1
    <3> QED BY <1>7, <2>1, <3>1 DEF BlocksOf, Units, PoolInv
  <2>2. CASE ~(k.out = {} /\ free > 0)
    <3>1. new(c).out = k.out /\ free' = free
      BY <1>1, <1>7, <2>2
    <3> QED BY <1>7, <3>1 DEF BlocksOf, Units, PoolInv
  <2> QED BY <2>1, <2>2
<1>12. PoolInv'
  BY <1>1, <1>7, <1>11, Balance DEF UdpInv
<1> QED BY <1>10, <1>12

LEMMA WriteInv == ASSUME Inv, NEW s \in Sockets, Write(s) PROVE Inv'
<1> USE DEF Inv
<1> DEFINE outs == {[d EXCEPT !.len = @ + 1] : d \in sock[s].out}
           k == [sock[s] EXCEPT !.out = outs]
<1>1. /\ sock[s].out # {} /\ ~sock[s].send /\ sock' = [sock EXCEPT ![s] = k] /\ UNCHANGED <<udp_conns, free>>
      /\ sock[s] \in Socket /\ AtMostOne(sock[s]) /\ Attached(sock[s], udp_conns)
  BY DEF Write, Writing, UdpInv
<1>2. /\ outs \in SUBSET Outgoing /\ outs # {} /\ Single(outs)
      /\ \A e \in outs : \E d \in sock[s].out : e.to = d.to
  <2>1. \A d \in sock[s].out : d \in Outgoing
    BY <1>1 DEF Socket
  <2>2. \A d \in sock[s].out : [d EXCEPT !.len = @ + 1] \in Outgoing /\ [d EXCEPT !.len = @ + 1].to = d.to
    BY <2>1 DEF Outgoing
  <2>3. Single(outs)
    BY <1>1 DEF AtMostOne, Single
  <2> QED BY <1>1, <2>2, <2>3
<1> HIDE DEF outs
<1>3. /\ k \in Socket /\ k.conn = sock[s].conn /\ k.in = sock[s].in /\ k.next = sock[s].next
      /\ k.out = outs /\ k.send = sock[s].send /\ k.turned = sock[s].turned
  <2>1. sock[s] \in Socket /\ outs \in SUBSET Outgoing
    BY <1>1, <1>2
  <2> QED BY <2>1 DEF Socket
<1> HIDE DEF k
<1>4. AtMostOne(k) /\ BlocksOf(k) = BlocksOf(sock[s])
  BY <1>1, <1>2, <1>3 DEF AtMostOne, BlocksOf, Units
<1>5. k.conn # NoConn /\ Fits(k, Remote(k.conn))
  BY <1>1, <1>2, <1>3 DEF Attached, Fits, Remote
<1>6. free' = free + BlocksOf(sock[s]) - BlocksOf(k)
  BY <1>1, <1>4, BlocksAreCounted DEF PoolInv
<1> QED BY <1>1, <1>3, <1>4, <1>5, <1>6, SameConnection, Balance DEF UdpInv

(* Calls that take up what has arrived.                                    *)
LEMMA TakesInv ==
  ASSUME Inv, NEW s \in Sockets, NEW in \in SUBSET Incoming, NEW next \in SUBSET Incoming, NEW turned \in BOOLEAN,
         sock' = [sock EXCEPT ![s] = [@ EXCEPT !.in = in, !.next = next, !.turned = turned]],
         UNCHANGED udp_conns, free' = free + Units(sock[s].in) + Units(sock[s].next) - Units(in) - Units(next),
         Single(in), Single(next),
         turned = sock[s].turned \/ in \union next = {},
         \A d \in in \union next : \E e \in sock[s].in \union sock[s].next : d.from = e.from
  PROVE  Inv'
<1> USE DEF Inv
<1> DEFINE k == [sock[s] EXCEPT !.in = in, !.next = next, !.turned = turned]
<1>1. sock[s] \in Socket /\ AtMostOne(sock[s]) /\ Attached(sock[s], udp_conns) /\ sock' = [sock EXCEPT ![s] = k]
  BY DEF UdpInv
<1>2. /\ k \in Socket /\ k.conn = sock[s].conn /\ k.in = in /\ k.next = next
      /\ k.out = sock[s].out /\ k.send = sock[s].send /\ k.turned = turned
  BY <1>1 DEF Socket
<1> HIDE DEF k
<1>3. AtMostOne(k)
  BY <1>1, <1>2 DEF AtMostOne
<1>4. CASE k.conn = NoConn
  <2>1. k.in = {} /\ k.next = {} /\ k.out = {}
    BY <1>1, <1>2, <1>4 DEF Attached
  <2>2. UdpInv' BY <1>1, <1>2, <1>3, <1>4, <2>1, SameConnection
  <2>3. sock[s].in = {} /\ sock[s].next = {} /\ sock[s].out = {}
    BY <1>1, <1>2, <1>4 DEF Attached
  <2>4. free' = free + BlocksOf(sock[s]) - BlocksOf(k)
    BY <2>1, <2>3, <1>2 DEF BlocksOf, Units, PoolInv
  <2> QED BY <1>1, <1>2, <2>2, <2>4, Balance DEF UdpInv
<1>5. CASE k.conn # NoConn
  <2>1. Fits(k, Remote(k.conn))
    BY <1>1, <1>2, <1>5 DEF Attached, Fits, Remote
  <2>2. UdpInv' BY <1>1, <1>2, <1>3, <1>5, <2>1, SameConnection
  <2>3. free' = free + BlocksOf(sock[s]) - BlocksOf(k)
    BY <1>2 DEF BlocksOf, Units, PoolInv
  <2> QED BY <1>1, <1>2, <2>2, <2>3, Balance DEF UdpInv
<1> QED BY <1>4, <1>5

LEMMA ReceiveInv ==
  ASSUME Inv, NEW s \in Sockets, ParsePacket(s) \/ Flush(s) \/ \E n \in 1 .. MaxLen : Read(s, n)
  PROVE  Inv'
<1> USE DEF Inv
<1> DEFINE k == sock[s]
<1>1. k \in Socket /\ k.in \in SUBSET Incoming /\ k.next \in SUBSET Incoming /\ k.turned \in BOOLEAN /\ AtMostOne(k) /\ {} \in SUBSET Incoming
  BY DEF UdpInv, Socket
<1>2. Single({}) /\ Single(k.in) /\ Single(k.next) /\ Cardinality(k.in) = Units(k.in)
  BY <1>1, UnitsCounts DEF AtMostOne, Single
<1>3. \A S : Units(S) \in Int
  BY DEF Units
<1>4. Units({}) = 0 /\ free \in Int
  BY DEF Units, PoolInv
<1> DEFINE turned == k.turned /\ k.next # {}
<1>5. CASE ParsePacket(s)
  <2>1. sock' = [sock EXCEPT ![s] = [@ EXCEPT !.in = k.next, !.next = {}, !.turned = turned]]
    BY <1>5 DEF ParsePacket
  <2>2. UNCHANGED udp_conns /\ free' = free + Cardinality(k.in)
    BY <1>5 DEF ParsePacket
  <2>3. free' = free + Units(k.in) + Units(k.next) - Units(k.next) - Units({})
    BY <2>2, <1>2, <1>3, <1>4
  <2>4. turned \in BOOLEAN /\ (turned = k.turned \/ k.next \union {} = {})
    BY <1>1
  <2> HIDE DEF turned
  <2> QED BY <1>1, <1>2, <2>1, <2>2, <2>3, <2>4, TakesInv
<1>6. CASE Freed(s) /\ UNCHANGED udp_conns
  <2>1. sock' = [sock EXCEPT ![s] = [@ EXCEPT !.in = {}, !.turned = turned]]
    BY <1>6 DEF Freed
  <2>2. free' = free + Cardinality(k.in)
    BY <1>6 DEF Freed
  <2>3. free' = free + Units(k.in) + Units(k.next) - Units({}) - Units(k.next)
    BY <2>2, <1>2, <1>3, <1>4
  <2>4. turned \in BOOLEAN /\ (turned = k.turned \/ {} \union k.next = {})
    BY <1>1
  <2> HIDE DEF turned
  <2>5. sock' = [sock EXCEPT ![s] = [@ EXCEPT !.in = {}, !.next = k.next, !.turned = turned]]
    BY <1>1, <2>1 DEF Socket
  <2> QED BY <1>1, <1>2, <1>6, <2>3, <2>4, <2>5, TakesInv
<1>7. ASSUME NEW n \in 1 .. MaxLen, NEW d \in k.in, ~(n >= d.len), UNCHANGED <<udp_conns, free>>,
             sock' = [sock EXCEPT ![s] = [@ EXCEPT !.in = {[d EXCEPT !.len = @ - n]}]]
      PROVE  Inv'
  <2> DEFINE e == [d EXCEPT !.len = @ - n]
  <2>1. e \in Incoming /\ e.from = d.from
    BY <1>1, <1>7 DEF Incoming
  <2> HIDE DEF e
  <2>2. sock' = [sock EXCEPT ![s] = [@ EXCEPT !.in = {e}, !.next = k.next, !.turned = k.turned]]
    BY <1>1, <1>7 DEF Socket, e
  <2>3. free' = free + Units(k.in) + Units(k.next) - Units({e}) - Units(k.next)
    BY <1>3, <1>4, <1>7 DEF Units
  <2>4. Single({e}) /\ {e} \in SUBSET Incoming
    BY <2>1 DEF Single
  <2>5. UNCHANGED udp_conns /\ \A x \in {e} \union k.next : \E y \in k.in \union k.next : x.from = y.from
    BY <1>7, <2>1
  <2> HIDE DEF k
  <2> QED BY <1>1, <1>2, <2>2, <2>3, <2>4, <2>5, TakesInv DEF k
<1> QED BY <1>5, <1>6, <1>7 DEF Flush, Read

(* A datagram leaves the socket with its block, or the poll only notes that*)
(* endPacket was called.                                                   *)
LEMMA PollInv ==
  ASSUME Inv, NEW s \in Sockets, sock[s].conn # NoConn, NEW k \in {sock[s], [sock[s] EXCEPT !.send = TRUE]},
         Poll(s, k), UNCHANGED udp_conns
  PROVE  Inv'
<1> USE DEF Inv
<1> DEFINE remote == Remote(k.conn)
<1>1. /\ sock[s] \in Socket /\ AtMostOne(sock[s]) /\ Fits(sock[s], remote) /\ remote[1] = udp_conns[k.conn].ripaddr
      /\ k \in Socket /\ k.conn = sock[s].conn /\ k.in = sock[s].in /\ k.next = sock[s].next
      /\ k.out = sock[s].out /\ k.turned = sock[s].turned /\ (sock[s].send => k.send)
  <2>1. sock[s] \in Socket /\ AtMostOne(sock[s]) /\ Attached(sock[s], udp_conns)
    BY DEF UdpInv
  <2>2. /\ k \in Socket /\ k.conn = sock[s].conn /\ k.in = sock[s].in /\ k.next = sock[s].next
        /\ k.out = sock[s].out /\ k.turned = sock[s].turned /\ (sock[s].send => k.send)
    BY <2>1 DEF Socket
  <2> QED BY <2>1, <2>2 DEF Attached, Remote
<1>2. AtMostOne(k) /\ BlocksOf(k) = BlocksOf(sock[s])
  BY <1>1 DEF AtMostOne, BlocksOf
<1>3. CASE ~k.send \/ \A d \in k.out : d.len = 0
  <2>1. sock' = [sock EXCEPT ![s] = k] /\ UNCHANGED free
    BY <1>3 DEF Poll
  <2>2. Fits(k, remote)
    BY <1>1, <1>3 DEF Fits
  <2>3. free' = free + BlocksOf(sock[s]) - BlocksOf(k)
    BY <1>2, <2>1, BlocksAreCounted DEF PoolInv
  <2> QED BY <1>1, <1>2, <2>1, <2>2, <2>3, SameConnection, Balance DEF UdpInv
<1>4. CASE ~(~k.send \/ \A d \in k.out : d.len = 0) /\ Resolved(udp_conns[k.conn].ripaddr)
  <2> DEFINE sent == [k EXCEPT !.out = {}, !.send = FALSE]
  <2>1. sock' = [sock EXCEPT ![s] = sent] /\ free' = free + 1
    BY <1>4 DEF Poll
  <2>2. /\ sent \in Socket /\ sent.conn = k.conn /\ sent.in = k.in /\ sent.next = k.next
        /\ sent.out = {} /\ sent.turned = k.turned
    BY <1>1 DEF Socket
  <2> HIDE DEF sent
  <2>3. AtMostOne(sent) /\ Fits(sent, remote)
    BY <1>1, <1>2, <2>2 DEF AtMostOne, Single, Fits
  <2>4. k.out # {}
    BY <1>4
  <2>5. free' = free + BlocksOf(sock[s]) - BlocksOf(sent)
    BY <1>1, <2>1, <2>2, <2>4 DEF BlocksOf, Units, PoolInv
  <2> QED BY <1>1, <2>1, <2>2, <2>3, <2>5, SameConnection, Balance DEF UdpInv
<1>5. CASE ~(~k.send \/ \A d \in k.out : d.len = 0) /\ ~Resolved(udp_conns[k.conn].ripaddr)
  <2>1. sock' = [sock EXCEPT ![s] = k] /\ UNCHANGED free
    BY <1>5 DEF Poll
  <2>2. remote[1] # Broadcast
    BY <1>1, <1>5 DEF Resolved
  <2>3. Fits(k, remote)
    BY <1>1, <2>2, ArpAssumption DEF Fits
  <2>4. free' = free + BlocksOf(sock[s]) - BlocksOf(k)
    BY <1>2, <2>1, BlocksAreCounted DEF PoolInv
  <2> QED BY <1>1, <1>2, <2>1, <2>3, <2>4, SameConnection, Balance DEF UdpInv
<1> QED BY <1>3, <1>4, <1>5

(* A datagram that a connection accepts comes from its remote end, if a    *)
(* datagram has arrived before or waits to be sent.                        *)
LEMMA DeliverInv ==
  ASSUME Inv, Callable, NEW s \in Sockets, NEW c \in UdpConns, sock[s].conn = c,
         NEW ip \in Stations, NEW port \in Ports, NEW to, NEW n \in Nat,
         Accepts(c, ip, port, to), Deliver(s, c, ip, port, n)
  PROVE  Inv'
<1> USE DEF Inv
<1> DEFINE d == [from |-> <<ip, port>>, len |-> n]
           k == [sock[s] EXCEPT !.next = {d}]
           v == [udp_conns[c] EXCEPT !.ripaddr = ip, !.rport = port]
           remote == <<udp_conns[c].ripaddr, udp_conns[c].rport>>
<1>1. /\ sock[s] \in Socket /\ AtMostOne(sock[s]) /\ udp_conns[c].lport # 0 /\ Fits(sock[s], remote)
      /\ udp_conns[c] \in Connection /\ sock[s].conn # NoConn
  BY ConnsAreNot0 DEF UdpInv, Attached
<1>2. CASE sock[s].next # {}
  BY <1>2, PoolUnchanged DEF Deliver, UdpInv
<1>3. CASE sock[s].next = {}
  <2>1. /\ d \in Incoming /\ d.from = <<ip, port>>
        /\ v \in Connection /\ v.lport = udp_conns[c].lport /\ v.ripaddr = ip /\ v.rport = port
    BY <1>1 DEF Incoming, Connection, Senders
  <2>2. /\ k \in Socket /\ k.conn = c /\ k.in = sock[s].in /\ k.next = {d} /\ k.out = sock[s].out
        /\ k.send = sock[s].send /\ k.turned = sock[s].turned
    <3>1. {d} \in SUBSET Incoming
      BY <2>1
    <3> HIDE DEF d
    <3> QED BY <1>1, <3>1 DEF Socket
  <2>3. udp_conns' = [udp_conns EXCEPT ![c] = v]
    BY <1>3 DEF Deliver
  <2>4. \/ sock' = [sock EXCEPT ![s] = k] /\ free' = free - 1
        \/ sock' = [sock EXCEPT ![s] = sock[s]] /\ UNCHANGED free
    <3>1. CASE free > 0
      BY <1>3, <3>1 DEF Deliver
    <3>2. CASE ~(free > 0)
      BY <1>3, <3>2 DEF Deliver, UdpInv
    <3> QED BY <3>1, <3>2
  <2> HIDE DEF d, k, v
  <2>5. AtMostOne(k)
    BY <1>1, <2>2 DEF AtMostOne, Single
  <2>6. udp_conns[c].rport \in {0, port} /\ udp_conns[c].ripaddr \in {Unspecified, Broadcast, ip}
    BY DEF Accepts
  <2>7. ~sock[s].turned => \A e \in sock[s].in : e.from = <<ip, port>>
    <3> SUFFICES ASSUME ~sock[s].turned, NEW e \in sock[s].in PROVE e.from = <<ip, port>>
      OBVIOUS
    <3>1. e \in Incoming /\ remote = e.from
      BY <1>1 DEF Fits, Socket
    <3>2. udp_conns[c].ripaddr \in Stations /\ udp_conns[c].rport \in Ports
      BY <3>1 DEF Incoming
    <3> QED BY <2>6, <3>1, <3>2, ArpAssumption, UdpAssumption
  <2>8. ASSUME ~Overlapping, NEW e \in sock[s].out, e.to[1] # Unspecified, ~(sock[s].send /\ e.len = 0)
        PROVE  e.to = <<ip, port>>
    <3>1. sock[s].send /\ e.len # 0
      BY <2>8 DEF Callable, Writing
    <3>2. remote = e.to /\ e.to[1] # Broadcast /\ e \in Outgoing
      BY <1>1, <2>8, <3>1 DEF Fits, Socket
    <3>3. udp_conns[c].ripaddr \in Stations /\ udp_conns[c].rport \in Ports
      BY <2>8, <3>2 DEF Outgoing, Senders
    <3> QED BY <2>6, <3>2, <3>3, ArpAssumption, UdpAssumption
  <2>9. Fits(k, <<ip, port>>) /\ Fits(sock[s], <<ip, port>>)
    <3>1. ~sock[s].turned => \A e \in sock[s].in \union {d} : <<ip, port>> = e.from
      BY <2>1, <2>7
    <3>2. Overlapping \/ \A e \in sock[s].out :
             /\ e.to[1] # Unspecified => <<ip, port>> = e.to \/ (sock[s].send /\ e.len = 0)
             /\ sock[s].send /\ e.len # 0 => e.to[1] # Broadcast
      BY <1>1, <2>8 DEF Fits
    <3> QED BY <1>3, <2>2, <3>1, <3>2 DEF Fits
  <2>10. CASE sock' = [sock EXCEPT ![s] = k] /\ free' = free - 1
    <3>1. UdpInv'
      BY <1>1, <2>1, <2>2, <2>3, <2>5, <2>9, <2>10, OneSocket
    <3>2. free' = free + BlocksOf(sock[s]) - BlocksOf(k)
      BY <1>3, <2>2, <2>10 DEF BlocksOf, Units, PoolInv
    <3> QED BY <2>2, <2>10, <3>1, <3>2, Balance DEF UdpInv
  <2>11. CASE sock' = [sock EXCEPT ![s] = sock[s]] /\ UNCHANGED free
    <3>1. UdpInv'
      BY <1>1, <2>1, <2>3, <2>9, <2>11, OneSocket
    <3>2. sock' = sock
      BY <2>11 DEF UdpInv
    <3> QED BY <2>11, <3>1, <3>2, PoolUnchanged
  <2> QED BY <2>4, <2>10, <2>11
<1> QED BY <1>2, <1>3

LEMMA UdpInInv ==
  ASSUME Inv, NEW ip \in Stations, NEW port \in Ports, NEW eth \in Cards, NEW n \in 1 .. MaxLen, NEW to,
         UdpIn(ip, port, eth, to, n)
  PROVE  Inv'
<1> DEFINE for == {c \in UdpConns : Accepts(c, ip, port, to)}
<1>1. CASE for = {}
  BY <1>1, PoolUnchanged DEF UdpIn, Inv, UdpInv
<1>2. CASE for # {}
  <2>1. PICK s \in Sockets : sock[s].conn = First(for) /\ Deliver(s, First(for), ip, port, n)
    BY <1>2 DEF UdpIn
  <2>2. First(for) \in for
    BY <1>2, UdpAssumption, FirstIn DEF UdpConns
  <2>3. n \in Nat /\ Callable
    BY UdpAssumption DEF UdpIn
  <2> QED BY <2>1, <2>2, <2>3, DeliverInv
<1> QED BY <1>1, <1>2

LEMMA PollStepInv == ASSUME Inv, NEW s \in Sockets, EndPacket(s) \/ Periodic(s) PROVE Inv'
<1>1. CASE EndPacket(s)
  BY <1>1, PollInv DEF EndPacket
<1>2. CASE Periodic(s)
  BY <1>2, PollInv DEF Periodic
<1> QED BY <1>1, <1>2

LEMMA ArpStepInv == ArpInv /\ [Next]_vars => ArpInv'
<1> SUFFICES ASSUME ArpInv, [Next]_vars PROVE ArpInv'
  OBVIOUS
<1>1. CASE UNCHANGED <<arp_table, announced>>
  BY <1>1 DEF ArpInv
<1>2. CASE Sketch
  <2>1. UNCHANGED <<arp_table, announced>>
    BY <1>2 DEF Sketch, Begin, Stop, Write, EndPacket, BeginPacket, ParsePacket, Flush, Read, arpVars
  <2> QED BY <1>1, <2>1
<1>3. CASE Arrival
  <2>1. ASSUME NEW ip \in Stations, NEW eth \in Cards, IpIn(ip, eth) PROVE ArpInv'
    BY <2>1, <1>1, LearnInv DEF IpIn, Senders
  <2>2. ASSUME NEW ip \in Senders, NEW eth \in Cards, NEW forUs \in BOOLEAN, ArpRequestIn(ip, eth, forUs) PROVE ArpInv'
    BY <2>2, <1>1, LearnInv DEF ArpRequestIn
  <2> QED BY <1>3, <2>1, <2>2 DEF Arrival, UdpIn, PacketIn, ArpIn
<1>4. CASE Answers
  BY <1>4, LearnInv DEF Answers, Answer, ArpReplyIn, Senders
<1>5. CASE \E s \in Sockets : Periodic(s)
  BY <1>5, <1>1 DEF Periodic
<1>6. CASE UNCHANGED vars
  BY <1>6, <1>1 DEF vars, arpVars
<1> QED BY <1>2, <1>3, <1>4, <1>5, <1>6 DEF Next

LEMMA StepInv == Inv /\ [Next]_vars => Inv'
<1> SUFFICES ASSUME Inv, [Next]_vars PROVE Inv'
  OBVIOUS
<1>1. CASE UNCHANGED <<udp_conns, sock, free>>
  BY <1>1, PoolUnchanged DEF Inv, UdpInv
<1>2. CASE Sketch
  <2>1. PICK s \in Sockets :
          \/ Begin(s, ServerPort) \/ Stop(s) \/ Write(s) \/ EndPacket(s)
          \/ \E ip \in Senders \union {Broadcast}, port \in Ports : BeginPacket(s, ip, port)
          \/ ParsePacket(s) \/ Flush(s) \/ \E n \in 1 .. MaxLen : Read(s, n)
    BY <1>2 DEF Sketch
  <2> QED BY <2>1, BeginInv, StopInv, WriteInv, PollStepInv, BeginPacketInv, ReceiveInv
<1>3. CASE Arrival
  <2>1. CASE \E ip \in Stations, port \in Ports, eth \in Cards, n \in 1 .. MaxLen :
               \E to \in {ServerPort} \union {OwnPort(c) : c \in UdpConns} : UdpIn(ip, port, eth, to, n)
    BY <2>1, UdpInInv
  <2>2. CASE \E ip \in Stations, eth \in Cards, p \in Packets : PacketIn(ip, eth, p)
    BY <2>2, <1>1 DEF PacketIn
  <2>3. CASE \E ip \in Senders, eth \in Cards, forUs \in BOOLEAN : ArpIn(ip, eth, forUs)
    BY <2>3, <1>1 DEF ArpIn
  <2> QED BY <1>3, <2>1, <2>2, <2>3 DEF Arrival
<1>4. CASE Answers
  BY <1>4, <1>1 DEF Answers, Answer
<1>5. CASE \E s \in Sockets : Periodic(s)
  BY <1>5, PollStepInv
<1>6. CASE UNCHANGED vars
  BY <1>6, <1>1 DEF vars, udpVars
<1> QED BY <1>2, <1>3, <1>4, <1>5, <1>6 DEF Next
-------------------------------------------------------------------------------
(***************************************************************************)
(* What is put on the wire                                                 *)
(***************************************************************************)
LEMMA PollFrames ==
  ASSUME Inv, ArpInv, ~Overlapping, NEW s \in Sockets, sock[s].conn # NoConn,
         NEW k \in {sock[s], [sock[s] EXCEPT !.send = TRUE]},
         Poll(s, k), UNCHANGED <<arp_table, announced, udp_conns>>
  PROVE  FramesRight'
<1> DEFINE c == k.conn
           ip == udp_conns[c].ripaddr
<1>1. /\ sock[s] \in Socket /\ AtMostOne(sock[s]) /\ Fits(sock[s], Remote(c)) /\ ip \in Senders \union {Broadcast}
      /\ k.conn = sock[s].conn /\ k.out = sock[s].out /\ Remote(c)[1] = ip
  <2>1. sock[s] \in Socket /\ AtMostOne(sock[s]) /\ Attached(sock[s], udp_conns)
    BY DEF Inv, UdpInv
  <2>2. k.conn = sock[s].conn /\ k.out = sock[s].out /\ c \in UdpConns
    BY <2>1 DEF Socket
  <2> QED BY <2>1, <2>2 DEF Inv, UdpInv, Connection, Attached, Remote
<1>2. CASE wire' = {}
  BY <1>2 DEF FramesRight, SentAsAddressed, ReachesNextHop, EchoReturns
<1>3. CASE ~(~k.send \/ \A d \in k.out : d.len = 0) /\ Resolved(ip)
  <2>1. wire' = {[to |-> Remote(c), card |-> CardFor(ip), meant |-> d.to] : d \in k.out}
    BY <1>3 DEF Poll
  <2> SUFFICES ASSUME NEW d \in k.out, NEW f, f = [to |-> Remote(c), card |-> CardFor(ip), meant |-> d.to]
               PROVE  /\ f.meant[1] # Unspecified => f.to = f.meant
                      /\ f.to[1] # Broadcast => f.card = announced'[Hop(f.to[1])]
                      /\ f.meant[2] # Echo
    BY <2>1 DEF FramesRight, SentAsAddressed, ReachesNextHop, EchoReturns
  <2>2. f.to = Remote(c) /\ f.card = CardFor(ip) /\ f.meant = d.to
    OBVIOUS
  <2>3. d \in Outgoing /\ d.len # 0
    BY <1>1, <1>3 DEF Socket, AtMostOne, Single
  <2>4. f.meant[2] # Echo
    BY <2>2, <2>3, UdpAssumption DEF Outgoing
  <2>5. f.meant[1] # Unspecified => f.to = f.meant
    BY <1>1, <2>2, <2>3 DEF Fits
  <2>6. f.to[1] # Broadcast => f.card = announced'[Hop(f.to[1])]
    BY <1>1, <1>3, <2>2, CardIsAnnounced
  <2> QED BY <2>4, <2>5, <2>6
<1> QED BY <1>2, <1>3 DEF Poll

(* A ping's answer goes back to where the ping came from, by the card that *)
(* has just been learned, perhaps.                                         *)
LEMMA PingFrames ==
  ASSUME ArpInv', PingsFit, NEW ip \in Stations, NEW eth \in Cards, NEW p \in Packets, PacketIn(ip, eth, p)
  PROVE  FramesRight'
<1>1. CASE wire' = {}
  BY <1>1 DEF FramesRight, SentAsAddressed, ReachesNextHop, EchoReturns
<1>2. CASE wire' # {}
  <2> DEFINE f == [to |-> <<ip, Echo>>, card |-> CardFor(ip)', meant |-> <<ip, Echo>>, request |-> p, reply |-> EchoReply(p)]
  <2>1. wire' = {f} /\ Resolved(ip)' /\ Answered(p, HostAddress, Unspecified)
    BY <1>2 DEF PacketIn
  <2>2. (ArpInv => \A dest \in Senders : Resolved(dest) => CardFor(dest) = announced[Hop(dest)])'
    BY CardIsAnnounced, PTL
  <2>3. CardFor(ip)' = announced'[Hop(ip)]
    BY <2>1, <2>2 DEF Senders
  <2>4. p \in Packet /\ p.chk < 65536 /\ EthHeader + p.total <= UIP_BUFSIZE
    BY <2>1 DEF PingsFit
  <2>5. EchoReply(p).chk = ReplyChecksum(p.chk) /\ EchoReply(p).dataOk = p.dataOk
    <3> DEFINE ok == p.dataOk /\ EthHeader + p.total <= UIP_BUFSIZE
               sum == ReplyChecksum(p.chk)
    <3>1. EchoReply(p) = [p EXCEPT !.type = ICMP_ECHO_REPLY, !.chk = sum, !.dataOk = ok]
      BY DEF EchoReply
    <3>2. ok = p.dataOk
      <4>1. p.dataOk \in BOOLEAN
        BY <2>4 DEF Packet
      <4> QED BY <2>4, <4>1
    <3> HIDE DEF ok, sum
    <3>3. EchoReply(p).chk = sum /\ EchoReply(p).dataOk = ok
      BY <2>4, <3>1 DEF Packet
    <3> QED BY <3>2, <3>3 DEF sum
  <2>6. Agree(p.chk, EchoReply(p).chk)
    <3>1. p.chk \in Nat /\ p.chk < 65536
      BY <2>4 DEF Packet
    <3>2. Agree(p.chk, ReplyChecksum(p.chk))
      BY <3>1, ReplyChecksumAgrees
    <3> QED BY <2>5, <3>2
  <2>7. /\ f.to = <<ip, Echo>> /\ f.meant = f.to /\ f.card = CardFor(ip)'
        /\ f.request = p /\ f.reply = EchoReply(p)
    OBVIOUS
  <2> HIDE DEF f
  <2>8. SentAsAddressed' /\ ReachesNextHop'
    BY <2>1, <2>3, <2>7 DEF SentAsAddressed, ReachesNextHop
  <2>9. EchoReturns'
    BY <2>1, <2>5, <2>6, <2>7 DEF EchoReturns
  <2> QED BY <2>8, <2>9 DEF FramesRight
<1> QED BY <1>1, <1>2

LEMMA StepFrames ==
  ASSUME ~Overlapping, PingsFit
  PROVE  Inv /\ ArpInv /\ FramesRight /\ [Next]_vars => FramesRight'
<1> SUFFICES ASSUME Inv, ArpInv, FramesRight, [Next]_vars PROVE FramesRight'
  OBVIOUS
<1>1. CASE wire' = {}
  BY <1>1 DEF FramesRight, SentAsAddressed, ReachesNextHop, EchoReturns
<1>2. ASSUME NEW s \in Sockets, EndPacket(s) \/ Periodic(s) PROVE FramesRight'
  BY <1>2, PollFrames DEF EndPacket, Periodic
<1>3. CASE Sketch
  <2>1. wire' = {} \/ \E s \in Sockets : EndPacket(s)
    BY <1>3 DEF Sketch, Begin, Stop, Write, BeginPacket, ParsePacket, Flush, Read
  <2> QED BY <1>1, <1>2, <2>1
<1>4. CASE Arrival
  <2>1. wire' = {} \/ \E ip \in Stations, eth \in Cards, p \in Packets : PacketIn(ip, eth, p)
    BY <1>4 DEF Arrival, UdpIn, ArpIn
  <2> QED BY <1>1, <2>1, ArpStepInv, PingFrames
<1>5. CASE Answers
  BY <1>1, <1>5 DEF Answers, Answer
<1>6. CASE UNCHANGED vars
  BY <1>6 DEF vars, arpVars, udpVars, FramesRight, SentAsAddressed, ReachesNextHop, EchoReturns
<1> QED BY <1>2, <1>3, <1>4, <1>5, <1>6 DEF Next
-------------------------------------------------------------------------------
LEMMA InitInv == Init => Inv /\ ArpInv /\ FramesRight
<1> SUFFICES ASSUME Init PROVE Inv /\ ArpInv /\ FramesRight
  OBVIOUS
<1>1. ArpInv
  BY ArpAssumption DEF Init, ArpInit, ArpInv, Unused, Senders
<1>2. FramesRight
  BY DEF Init, FramesRight, SentAsAddressed, ReachesNextHop, EchoReturns
<1>3. UnusedConn \in Connection
  BY DEF UnusedConn, Connection, Senders
<1>4. NewSocket \in Socket /\ NewSocket.conn = NoConn /\ NewSocket.in = {} /\ NewSocket.next = {} /\ NewSocket.out = {}
  BY DEF NewSocket, Socket
<1>5. UdpInv
  BY <1>3, <1>4 DEF Init, UdpInv, AtMostOne, Single, Attached
<1>6. PoolInv
  <2>1. /\ {s \in Sockets : sock[s].in # {}} = {} /\ {s \in Sockets : sock[s].next # {}} = {}
        /\ {s \in Sockets : sock[s].out # {}} = {}
    BY <1>4 DEF Init
  <2> QED BY <2>1, FS_EmptySet, UdpAssumption DEF Init, PoolInv, BlocksKept
<1> QED BY <1>1, <1>2, <1>5, <1>6 DEF Inv

(* No call and no datagram, in whatever order, loses a block of the packet *)
(* memory or counts one twice: for any number of sockets and blocks.       *)
THEOREM BlocksAreKept == Spec => []BlocksKept
<1>1. Inv => BlocksKept
  BY DEF Inv, PoolInv
<1> QED BY InitInv, StepInv, <1>1, PTL DEF Spec

(* remoteIP and remotePort are the sender of the datagram being read, and  *)
(* of the one that waits behind it, until the sketch addresses another end.*)
THEOREM RemoteIsTheSender == Spec => []RemoteIsSender
<1>1. Inv => RemoteIsSender
  BY DEF Inv, UdpInv, Attached, Fits, RemoteIsSender, Remote
<1> QED BY InitInv, StepInv, <1>1, PTL DEF Spec

(* Every datagram goes to the end it was addressed to and every frame to   *)
(* the card its next hop has announced last, and pings are answered with   *)
(* what they carried, if sketches write one datagram at a time and pings   *)
(* are no longer than the buffer.                                          *)
THEOREM FramesAreRight ==
  ASSUME ~Overlapping, PingsFit
  PROVE  Spec => []FramesRight
<1>1. Inv /\ ArpInv /\ FramesRight /\ [Next]_vars => (Inv /\ ArpInv /\ FramesRight)'
  BY StepInv, ArpStepInv, StepFrames
<1> QED BY InitInv, <1>1, PTL DEF Spec
===============================================================================
