---------------------------------- MODULE Dns ----------------------------------
(***************************************************************************)
(* The resolver: Dns.cpp, one lookup at a time over a UDP socket.          *)
(*                                                                         *)
(* The question is built and the answer is read octet by octet, and what   *)
(* the name server understands and says is built here the other way round, *)
(* so that a lookup is right or wrong from end to end.  A character of a   *)
(* name is its distance from '0'.  The socket (UIPUdp) keeps one unread    *)
(* datagram; answers come late, twice, never, or with an octet changed.    *)
(***************************************************************************)
EXTENDS Checksum, FiniteSets

CONSTANTS
  AddressOf,   \* the names the sketch looks up, and the right address of each
  NameServer,  \* iDNSServer
  Strangers,   \* other hosts, whose datagrams may reach the port
  Sections,    \* answer sections: sequences of records in front of the address
  NameForms,   \* how the server writes the name of a record: octets
  Ports,       \* the local ports that the clock selects from
  Ids,         \* request ids that the clock gives
  MaxLate,     \* bound: earlier requests that are still answered
  Changes      \* [at, by]: an octet that the network changes

ASSUME DnsAssumption ==
  /\ NameServer \notin Strangers
  /\ MaxLate \in Nat /\ Ids \subseteq 1 .. 255 /\ Cardinality(Ids) > MaxLate /\ Ports \subseteq 1024 .. 1039

VARIABLES
  phase,    \* where getHostByName is
  host,     \* the name it looks up
  port, id, \* of its socket, iRequestId
  waits,    \* wait_retries
  hears,    \* the socket's remote end
  inbox,    \* the unread datagram, if any
  asked,    \* the requests that may still be answered
  last      \* the last call's name, result and address

vars == <<phase, host, port, id, waits, hears, inbox, asked, last>>

Names == DOMAIN AddressOf
Anybody == "anybody"
Success == 1
TimedOut == -1
InvalidResponse == -4
NoAddress == <<0, 0, 0, 0>>
Dot == -2

-------------------------------------------------------------------------------
(* inet_aton                                                               *)
Int16(v) == ((v + 32768) % 65536) - 32768

LooksNumeric(name) == \A k \in DOMAIN name : name[k] = Dot \/ name[k] >= 0 \/ name[k] <= 9

Segment(s, c) ==
  IF s.failed \/ s.n > 3 THEN s
  ELSE IF c # Dot THEN [s EXCEPT !.value = Int16(10 * @ + c)]
  ELSE IF s.value > 255 THEN [s EXCEPT !.failed = TRUE]
  ELSE [s EXCEPT !.address[s.n + 1] = s.value % 256, !.n = @ + 1, !.value = 0]

InetAton(name) ==
  LET s == FoldLeft(Segment, [n |-> 0, value |-> 0, address |-> NoAddress, failed |-> FALSE], name)
  IN  IF ~LooksNumeric(name) \/ s.failed \/ s.n > 3 \/ s.value > 255 THEN [ret |-> 0, address |-> s.address]
      ELSE [ret |-> 1, address |-> [s.address EXCEPT ![s.n + 1] = s.value % 256]]

-------------------------------------------------------------------------------
(* BuildRequest: the labels of the name with their lengths; empty ones are *)
(* left out.                                                               *)
Char(c) == c + 48
Label(s) == <<Len(s)>> \o [k \in DOMAIN s |-> Char(s[k])]

LabelOf(name) == \* up to the next dot
  SubSeq(name, 1, Min({k \in 1 .. Len(name) : name[k] = Dot} \union {Len(name) + 1}) - 1)

Labels(name) ==
  LET labels[p \in Nat] == \* from position p of the name
        IF p > Len(name) THEN <<0>>
        ELSE LET l == LabelOf(SubSeq(name, p, Len(name)))
             IN  (IF l = <<>> THEN <<>> ELSE Label(l)) \o labels[p + Len(l) + 1]
  IN  labels[1]

Question(name) == Labels(name) \o <<0, 1, 0, 1>>
Request(name, rid) == <<rid, 0, 1, 0, 0, 1, 0, 0, 0, 0, 0, 0>> \o Question(name)

-------------------------------------------------------------------------------
(* The name server (RFC 1035): it reads the question's name, and answers   *)
(* with the records of a section and then the address.                     *)
NameAt(b, start) ==
  LET name[p \in Nat] ==
        IF b[p] = 0 THEN <<>>
        ELSE LET rest == name[p + 1 + b[p]]
             IN  [k \in 1 .. b[p] |-> b[p + k] - 48] \o (IF rest = <<>> THEN <<>> ELSE <<Dot>> \o rest)
  IN  name[start]

Rec(r) == r.name \o <<0, r.type, 0, r.class, 0, 0, 1, 0, 0, Len(r.data)>> \o r.data
A(form, address) == [name |-> form, type |-> 1, class |-> 1, data |-> address]

(* What a datagram can say: the address that was asked for, no such name,  *)
(* an answer that has been cut; a stranger's is a question of its own.     *)
Flags == [good |-> <<129, 128>>, noName |-> <<129, 131>>, cut |-> <<131, 128>>, question |-> <<1, 0>>]

Message(d) ==
  LET question == SubSeq(Request(d.name, d.id), 13, Len(Request(d.name, d.id)))
      name == NameAt(question, 1)
      records == CASE d.says = "noName" -> <<>>
                   [] d.says = "question" -> <<>>
                   [] OTHER -> d.section \o <<A(d.form, IF name \in Names THEN AddressOf[name] ELSE NoAddress)>>
  IN  <<d.id, 0>> \o Flags[d.says] \o <<0, 1, 0, Len(records), 0, 0, 0, 0>> \o question
        \o FlattenSeq([k \in DOMAIN records |-> Rec(records[k])])

Answers(q) ==
  {[from |-> NameServer, to |-> q.port, id |-> q.id, name |-> q.name, says |-> says, section |-> section, form |-> form] :
     says \in {"good", "noName", "cut"}, section \in Sections, form \in NameForms}
Strays ==
  {[from |-> s, to |-> p, id |-> 0, name |-> <<>>, says |-> "question", section |-> <<>>, form |-> <<>>] :
     s \in Strangers, p \in Ports}

(* A datagram on its way, a request with the checksum that uip gives it,   *)
(* and what the network makes of a datagram.                               *)
Addresses == <<10, 0, 0, 1, 10, 0, 0, 2>>
Datagram(d) ==
  LET message == Message(d)
      len == Len(message) + UDPHeader
      plain == <<0, 53, d.to \div 256, d.to % 256, len \div 256, len % 256, 0, 0>> \o message
      c == PeerChecksum(Addresses, plain)
  IN  [plain EXCEPT ![7] = c \div 256, ![8] = c % 256]
Outgoing(q) ==
  LET message == Request(q.name, q.id)
      len == Len(message) + UDPHeader
      plain == <<q.port \div 256, q.port % 256, 0, 53, len \div 256, len % 256, 0, 0>> \o message
      c == UdpChecksum(Addresses, plain)
  IN  [plain EXCEPT ![7] = c \div 256, ![8] = c % 256]
Changed(octets, c) == [octets EXCEPT ![Min({c.at, Len(octets)})] = (@ + c.by) % 256]
Payload(octets) == SubSeq(octets, UDPHeader + 1, Len(octets))

-------------------------------------------------------------------------------
(* ProcessResponse, on a message in the socket.  That it came from the     *)
(* server, INVALID_SERVER otherwise, is asked of the socket's connection,  *)
(* whose remote end beginPacket has set: the answer is always yes.         *)
Two(b, p) == 256 * b[p] + b[p + 1]
Endless == 0  \* a position: the loop over a name does not end

(* Past the question's name.  len is 255 after its octets are counted down,*)
(* and stays so when there is nothing left to read.                        *)
AfterLabels(b, start) ==
  LET after[p \in Nat] == IF p > Len(b) THEN Endless ELSE IF b[p] = 0 THEN p + 1 ELSE after[p + 1 + b[p]]
  IN  after[start]

AfterQuestions(b, number) ==
  LET after[n \in Nat] == IF n = 0 THEN 13 ELSE IF after[n - 1] = Endless THEN Endless ELSE AfterLabels(b, after[n - 1]) + 4
  IN  after[number]

Bug_ShortPointer == 1

(* Past the name of a record: a pointer ends it, for which the 255 that an *)
(* empty read leaves is taken too.                                         *)
IsPointer(len) == len >= 64
PointerSize == 2
AfterName(b, start) ==
  LET after[p \in Nat] ==
        IF p > Len(b) THEN p
        ELSE IF IsPointer(b[p]) THEN p + PointerSize ELSE IF b[p] = 0 THEN p + 1 ELSE after[p + 1 + b[p]]
  IN  after[start]

Result(ret, address) == [ret |-> ret, address |-> address]

(* The records, from the first one's fixed part: n are left.               *)
FirstAddress(b, number, start) ==
  LET found[n \in Nat, q \in Nat] ==
        IF n = 0 THEN Result(-10, NoAddress)
        ELSE IF Two(b, q) = 1 /\ Two(b, q + 2) = 1
             THEN IF Two(b, q + 8) = 4 THEN Result(Success, SubSeq(b, q + 10, q + 13)) ELSE Result(-9, NoAddress)
             ELSE found[n - 1, IF n = 1 THEN 0 ELSE AfterName(b, q + 10 + Two(b, q + 8))]
  IN  found[number, AfterName(b, start)]

Bug_AnyId(b, rid) == (Two(b, 3) \div 32768) % 2 = 1

IsAnswer(b, rid) == b[1] = rid /\ b[2] = 0 /\ (Two(b, 3) \div 32768) % 2 = 1

ProcessResponse(b, rid) ==
  CASE Len(b) < 12 -> Result(-3, NoAddress)
    [] Len(b) >= 12 /\ ~IsAnswer(b, rid) -> Result(InvalidResponse, NoAddress)
    [] Len(b) >= 12 /\ IsAnswer(b, rid) /\ ((Two(b, 3) \div 512) % 2 = 1 \/ Two(b, 3) % 16 # 0) -> Result(-5, NoAddress)
    [] OTHER -> IF Two(b, 7) = 0 THEN Result(-6, NoAddress)
                ELSE FirstAddress(b, Two(b, 7), AfterQuestions(b, Two(b, 5)))

-------------------------------------------------------------------------------
Init ==
  /\ phase = "idle" /\ host = <<>> /\ port \in Ports /\ id = 0 /\ waits = 0
  /\ hears = Anybody /\ inbox = {} /\ asked = {}
  /\ last = [name |-> <<>>, ret |-> 0, address |-> NoAddress]

Returns(name, result) ==
  /\ phase' = "idle" /\ host' = <<>> /\ waits' = 0 /\ hears' = Anybody /\ inbox' = {}
  /\ last' = [name |-> name, ret |-> result.ret, address |-> result.address]

(* getHostByName: the name may be an address, there may be no socket.  The *)
(* sketch has set a server.                                                *)
Numeric(name) ==
  /\ phase = "idle" /\ InetAton(name).ret = 1
  /\ Returns(name, InetAton(name))
  /\ UNCHANGED <<port, id, asked>>

NoSocket(name) ==
  /\ phase = "idle" /\ InetAton(name).ret = 0
  /\ Returns(name, Result(0, NoAddress))
  /\ UNCHANGED <<port, id, asked>>

Begin(name) ==
  /\ phase = "idle" /\ InetAton(name).ret = 0
  /\ phase' = "begun" /\ host' = name /\ port' \in Ports
  /\ UNCHANGED <<id, waits, hears, inbox, asked, last>>

(* beginPacket, BuildRequest and endPacket; the clock's id is not that of  *)
(* a request whose answer may still come or has come too early.            *)
Send ==
  /\ phase = "begun"
  /\ \E old \in SUBSET asked, rid \in Ids :
       /\ Cardinality(old) <= MaxLate /\ \A q \in old \union inbox : q.id # rid
       /\ id' = rid /\ asked' = old \union {[port |-> port, id |-> rid, name |-> host]}
  /\ phase' = "waiting" /\ hears' = NameServer
  /\ UNCHANGED <<host, port, waits, inbox, last>>

(* There is no memory for the datagram, or uip sends nothing.              *)
SendFails ==
  /\ phase = "begun"
  /\ Returns(host, Result(0, NoAddress))
  /\ UNCHANGED <<port, id, asked>>

NextWait(n) == n + 1
WaitsMax == 3

TimesOut ==
  /\ phase = "waiting" /\ inbox = {}
  /\ IF NextWait(waits) >= WaitsMax THEN Returns(host, Result(TimedOut, NoAddress))
     ELSE /\ waits' = NextWait(waits)
          /\ UNCHANGED <<phase, host, hears, inbox, last>>
  /\ UNCHANGED <<port, id, asked>>

Receive ==
  /\ phase = "waiting"
  /\ \E m \in inbox : \E result \in {ProcessResponse(m.octets, id)} : Returns(host, result)
  /\ UNCHANGED <<port, id, asked>>

(* A datagram reaches the socket during a tick.                            *)
Arrives(d, c) ==
  /\ phase \in {"begun", "waiting"} /\ inbox = {}
  /\ d.to = port /\ hears \in {Anybody, d.from}
  /\ \E octets \in {Changed(Datagram(d), c)} :
       /\ Checks(Addresses, octets)
       /\ inbox' = {[id |-> d.id, says |-> d.says, octets |-> Payload(octets)]}
  /\ hears' = d.from
  /\ UNCHANGED <<phase, host, port, id, waits, asked, last>>

Wait == TimesOut \/ Receive
Lookup == \E name \in Names : Numeric(name) \/ NoSocket(name) \/ Begin(name)
Network == \E c \in Changes, d \in Strays \union UNION {Answers(q) : q \in asked} : Arrives(d, c)
Next == Lookup \/ Send \/ SendFails \/ Wait \/ Network

Fairness == WF_vars(Send \/ SendFails) /\ WF_vars(Wait)
Spec == Init /\ [][Next]_vars /\ Fairness
-------------------------------------------------------------------------------
(* A lookup that succeeds has found the address of the name it was asked   *)
(* for: not that of an earlier lookup whose answer is late, not an alias's *)
(* data, not what the network has changed, not the name itself.            *)
AnswersAsked == last.ret = Success => last.address = AddressOf[last.name]

(* What the theorem takes of single messages: a name that is an address    *)
(* means itself; damage that the checksum lets through leaves the request  *)
(* id alone, and an answer read by the lookup that asked for it gives the  *)
(* right address or none.                                                  *)
Requests == [port : Ports, id : Ids, name : Names]
MessagesRight ==
  /\ \A name \in Names : InetAton(name).ret = Success => InetAton(name).address = AddressOf[name]
  /\ \A d \in Strays \union UNION {Answers(q) : q \in Requests} : \A c \in Changes :
       \A octets \in {Changed(Datagram(d), c)} : Checks(Addresses, octets) =>
         /\ Payload(octets)[1] = d.id
         /\ \A result \in {ProcessResponse(Payload(octets), d.id)} :
              d.id \in Ids /\ result.ret = Success => result.address = AddressOf[d.name]

(* A good answer to this request is understood, whatever records stand in  *)
(* front of the address and however names are written.                     *)
GoodAnswer(d) == d.id = id /\ d.says = "good"
FindsAddress == [][Receive /\ (\E d \in inbox : GoodAnswer(d)) => last'.ret = Success]_vars

(* Neither a request nor an answer to it is lost to the checksum, whatever *)
(* its length is.                                                          *)
TakesWhole ==
  [][phase' = "waiting" /\ phase # "waiting" =>
       \A q \in {r \in asked' : r.id = id'} :
         /\ PlainSum(Addresses, Outgoing(q)) % 65535 = 0
         /\ \A d \in Answers(q) : d.says = "good" => Checks(Addresses, Datagram(d))]_vars

(* getHostByName returns.                                                  *)
LookupEnds == (phase # "idle") ~> (phase = "idle")

(* Every lookup ends, and with an address if a good answer came.           *)
LookupsAnswered == FindsAddress /\ LookupEnds
===============================================================================
