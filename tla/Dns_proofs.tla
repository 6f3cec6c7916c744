------------------------------ MODULE Dns_proofs -------------------------------
(***************************************************************************)
(* A proof that a lookup that succeeds has the address of its own name, for*)
(* any names, ports, request ids, strangers, number of earlier requests    *)
(* that are still answered, and however often it times out, from what      *)
(* MessagesRight says of single messages.                                  *)
(*                                                                         *)
(* All that tells an answer to this lookup from one to another is the id.  *)
(* The invariant says that of the requests that may be answered only that  *)
(* of the lookup in progress has its id (AskedInv), and so has a datagram  *)
(* in the socket, though it may have come before the question was sent     *)
(* (InboxInv).                                                             *)
(***************************************************************************)
EXTENDS Dns, TLAPS

Messages == Strays \union UNION {Answers(q) : q \in Requests}

LookupInv ==
  /\ port \in Ports /\ asked \subseteq Requests
  /\ phase \in {"idle", "begun", "waiting"}
  /\ phase # "idle" => host \in Names
  /\ phase = "waiting" => id \in Ids

AskedInv == phase = "waiting" => \A q \in asked : q.id = id => q.name = host

(* What is in the socket is a message that the checksum has let through.   *)
Carries(m, d, c) ==
  /\ Checks(Addresses, Changed(Datagram(d), c))
  /\ m.id = d.id /\ m.octets = Payload(Changed(Datagram(d), c))
InboxInv ==
  \A m \in inbox : \E d \in Messages, c \in Changes : Carries(m, d, c) /\ (phase = "waiting" /\ d.id = id => d.name = host)

DnsInv == LookupInv /\ AskedInv /\ InboxInv /\ AnswersAsked
-------------------------------------------------------------------------------
(* ProcessResponse compares the id before it looks at anything else.       *)
LEMMA OnlyItsId ==
  ASSUME NEW b, NEW rid, ProcessResponse(b, rid).ret = Success
  PROVE  b[1] = rid
<1> SUFFICES ASSUME ~IsAnswer(b, rid) PROVE FALSE
  BY DEF IsAnswer
<1>1. CASE Len(b) < 12
  BY <1>1 DEF ProcessResponse, Result, Success
<1>2. CASE Len(b) >= 12
  <2>1. ProcessResponse(b, rid) = Result(InvalidResponse, NoAddress)
    BY <1>2 DEF ProcessResponse
  <2> QED
    BY <2>1 DEF Result, InvalidResponse, Success
<1> QED
  BY <1>1, <1>2

LEMMA NoStranger == \A d \in Strays : d.id \notin Ids
  BY DnsAssumption DEF Strays, DnsAssumption

LEMMA AnswersName == ASSUME NEW q \in Requests, NEW d \in Answers(q) PROVE d.id = q.id /\ d.name = q.name /\ d \in Messages
  BY DEF Answers, Messages

LEMMA InitInv == Init => DnsInv
  BY DEF Init, DnsInv, LookupInv, AskedInv, InboxInv, AnswersAsked, Success

(* A lookup that returns leaves nothing behind but requests.               *)
LEMMA ReturnsInv ==
  ASSUME DnsInv, NEW name, NEW result, Returns(name, result), UNCHANGED <<port, asked>>,
         result.ret = Success => result.address = AddressOf[name]
  PROVE  DnsInv'
<1>1. phase' = "idle" /\ inbox' = {} /\ last' = [name |-> name, ret |-> result.ret, address |-> result.address]
  BY DEF Returns
<1> QED
  BY <1>1 DEF DnsInv, LookupInv, AskedInv, InboxInv, AnswersAsked

LEMMA NumericStep == ASSUME MessagesRight, DnsInv, NEW name \in Names, Numeric(name) PROVE DnsInv'
  BY ReturnsInv DEF Numeric, MessagesRight, Success

LEMMA FailsStep ==
  ASSUME DnsInv, NEW name, NEW ret \in {0, TimedOut}, Returns(name, Result(ret, NoAddress)), UNCHANGED <<port, asked>>
  PROVE  DnsInv'
<1>1. Result(ret, NoAddress).ret # Success
  BY DEF Result, TimedOut, Success
<1> QED
  BY <1>1, ReturnsInv

LEMMA BeginStep == ASSUME DnsInv, NEW name \in Names, Begin(name) PROVE DnsInv'
  BY DEF Begin, DnsInv, LookupInv, AskedInv, InboxInv, AnswersAsked, Carries

(* The new id is that of no request and no datagram that is still there.   *)
LEMMA SendStep == ASSUME DnsInv, Send PROVE DnsInv'
<1>1. PICK old \in SUBSET asked, rid \in Ids :
        /\ \A q \in old \union inbox : q.id # rid
        /\ id' = rid /\ asked' = old \union {[port |-> port, id |-> rid, name |-> host]}
  BY DEF Send
<1>2. phase = "begun" /\ phase' = "waiting" /\ UNCHANGED <<host, port, inbox, last>>
  BY DEF Send
<1>3. LookupInv'
  BY <1>1, <1>2 DEF DnsInv, LookupInv, Requests
<1>4. AskedInv'
  BY <1>1, <1>2 DEF AskedInv
<1>5. InboxInv'
  <2> SUFFICES ASSUME NEW m \in inbox
               PROVE  \E d \in Messages, c \in Changes : Carries(m, d, c) /\ d.id # rid
    BY <1>1, <1>2 DEF InboxInv, Carries
  <2>1. PICK d \in Messages, c \in Changes : Carries(m, d, c)
    BY DEF DnsInv, InboxInv
  <2> QED
    BY <1>1, <2>1 DEF Carries
<1> QED
  BY <1>2, <1>3, <1>4, <1>5 DEF DnsInv, AnswersAsked

LEMMA TimesOutStep == ASSUME DnsInv, TimesOut PROVE DnsInv'
<1>1. CASE Returns(host, Result(TimedOut, NoAddress))
  BY <1>1, FailsStep DEF TimesOut
<1>2. CASE UNCHANGED <<phase, host, hears, inbox, last>>
  BY <1>2 DEF TimesOut, DnsInv, LookupInv, AskedInv, InboxInv, Carries, AnswersAsked
<1> QED
  BY <1>1, <1>2 DEF TimesOut

LEMMA ReceiveStep == ASSUME MessagesRight, DnsInv, Receive PROVE DnsInv'
<1>1. PICK m \in inbox : Returns(host, ProcessResponse(m.octets, id))
  BY DEF Receive
<1> DEFINE result == ProcessResponse(m.octets, id)
<1>2. phase = "waiting" /\ id \in Ids /\ UNCHANGED <<port, asked>>
  BY DEF Receive, DnsInv, LookupInv
<1>3. PICK d \in Messages, c \in Changes : Carries(m, d, c) /\ (d.id = id => d.name = host)
  BY <1>2 DEF DnsInv, InboxInv
<1>4. ASSUME result.ret = Success PROVE result.address = AddressOf[host]
  <2>1. m.octets[1] = id
    BY <1>4, OnlyItsId
  <2>2. Payload(Changed(Datagram(d), c))[1] = d.id
    BY <1>3 DEF MessagesRight, Messages, Carries
  <2>3. d.id = id /\ d.name = host
    BY <1>3, <2>1, <2>2 DEF Carries
  <2>4. result = ProcessResponse(Payload(Changed(Datagram(d), c)), d.id)
    BY <1>3, <2>3 DEF Carries
  <2> QED
    BY <1>2, <1>3, <1>4, <2>3, <2>4 DEF MessagesRight, Messages, Carries
<1> HIDE DEF result
<1> QED
  BY <1>1, <1>2, <1>4, ReturnsInv DEF result

LEMMA ArrivesStep ==
  ASSUME DnsInv, NEW c \in Changes, NEW d \in Strays \union UNION {Answers(q) : q \in asked}, Arrives(d, c)
  PROVE  DnsInv'
<1>1. /\ Checks(Addresses, Changed(Datagram(d), c))
      /\ inbox' = {[id |-> d.id, says |-> d.says, octets |-> Payload(Changed(Datagram(d), c))]}
      /\ UNCHANGED <<phase, host, port, id, asked, last>>
  BY DEF Arrives
<1>2. d \in Messages /\ (phase = "waiting" /\ d.id = id => d.name = host)
  <2>1. CASE d \in Strays
    BY <2>1, NoStranger DEF Messages, DnsInv, LookupInv
  <2>2. ASSUME NEW q \in asked, d \in Answers(q) PROVE d \in Messages /\ (phase = "waiting" /\ d.id = id => d.name = host)
    BY <2>2, AnswersName DEF DnsInv, LookupInv, AskedInv
  <2> QED
    BY <2>1, <2>2
<1>3. \A m \in inbox' : Carries(m, d, c)
  BY <1>1 DEF Carries
<1>4. InboxInv'
  BY <1>1, <1>2, <1>3 DEF InboxInv, Carries
<1> QED
  BY <1>1, <1>4 DEF DnsInv, LookupInv, AskedInv, AnswersAsked

LEMMA StepInv == ASSUME MessagesRight, DnsInv, [Next]_vars PROVE DnsInv'
<1>1. ASSUME NEW name \in Names, Numeric(name) \/ NoSocket(name) \/ Begin(name) PROVE DnsInv'
  BY <1>1, NumericStep, FailsStep, BeginStep DEF NoSocket
<1>2. CASE SendFails
  BY <1>2, FailsStep DEF SendFails
<1>3. CASE Network
  BY <1>3, ArrivesStep DEF Network
<1>4. CASE UNCHANGED vars
  BY <1>4 DEF vars, DnsInv, LookupInv, AskedInv, InboxInv, Carries, AnswersAsked
<1> QED
  BY <1>1, <1>2, <1>3, <1>4, SendStep, TimesOutStep, ReceiveStep DEF Next, Lookup, Wait
-------------------------------------------------------------------------------
(* A lookup that succeeds has found the address of the name it was asked   *)
(* for, not that of an earlier lookup whose answer is late.                *)
THEOREM LookupsAreRight == MessagesRight => (Spec => []AnswersAsked)
<1> SUFFICES ASSUME MessagesRight PROVE Spec => []AnswersAsked
  OBVIOUS
<1>1. DnsInv /\ [Next]_vars => DnsInv'
  BY StepInv
<1>2. DnsInv => AnswersAsked
  BY DEF DnsInv
<1> QED
  BY InitInv, <1>1, <1>2, PTL DEF Spec
===============================================================================
