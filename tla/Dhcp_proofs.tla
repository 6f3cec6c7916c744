------------------------------ MODULE Dhcp_proofs ------------------------------
(***************************************************************************)
(* Proofs that the DHCP client uses the address that a server has          *)
(* acknowledged, and keeps that server's id, and that it renews in time,   *)
(* for every set of servers, every choice of options and any number of ids,*)
(* timeouts, gaps between calls and late or repeated answers.              *)
(*                                                                         *)
(* LeaseAgreed is not inductive: that an ACK which the client takes comes  *)
(* from the server whose id it holds follows from what it has asked for.   *)
(* The invariant says that all requests of the call in progress name the   *)
(* server that is held (RequestsName), so that an ACK in the socket is     *)
(* either of an earlier call or from that server (AcksAgree), and that no  *)
(* answer changes the id of the server once a request has named it, which  *)
(* is where the socket's hearing only one sender is needed (HearsSender).  *)
(***************************************************************************)
EXTENDS Dhcp, TLAPS

States == {"START", "DISCOVER", "REQUEST", "REREQUEST", "LEASED"}
Requests == [type : {"DISCOVER", "REQUEST"}, xid : Int, ip : Servers \union {Nobody}, server : Servers \union {Nobody}]

TypeInv ==
  /\ state \in States /\ caller \in Callers \union {"sketch"}
  /\ xid \in Int /\ initialXid \in Int
  /\ asked \subseteq Requests
  /\ localIp \in Servers \union {Nobody} /\ serverIp \in Servers \union {Nobody}
  /\ hears \in Servers \union {Nobody, Everybody}
  /\ \A m \in inbox : m.xid \in Int /\ m.from \in Servers /\ m.ip \in Servers \union {Nobody}

(* What the call in progress, or the last one, has asked for.              *)
RequestsName == \A r \in asked : r.type = "REQUEST" /\ initialXid <= r.xid => r.server = serverIp /\ serverIp \in Servers

(* An ACK that may still be taken is from the server that was asked.       *)
AcksAgree ==
  \A m \in inbox : m.type = "ACK" => m.ip = m.from /\ (initialXid <= m.xid => serverIp = m.from)

HearsSender == \A m \in inbox : hears \in {m.from, Everybody}

(* A renewal names the server of the lease.                                *)
RenewsByName == state \in {"REREQUEST", "LEASED"} => serverIp \in Servers

(* The lease, and the stack's address once the call has returned; a call   *)
(* that has got a lease has heard somebody.                                *)
LeaseInv ==
  state = "LEASED" =>
    /\ localIp = granted.server /\ serverIp = granted.server
    /\ IF caller = "sketch" THEN host = localIp ELSE hears # Nobody

IInv == TypeInv /\ RequestsName /\ AcksAgree /\ HearsSender /\ RenewsByName /\ LeaseInv

(* A call that begins draws an id above all that are expected.             *)
LEMMA BeginsFresh ==
  ASSUME TypeInv, NEW who \in Callers, NEW st \in {"START", "REREQUEST"}, Begins(who, st)
  PROVE  /\ caller' = who /\ state' = st /\ hears' = Nobody /\ inbox' = {}
         /\ xid' \in Int /\ initialXid' \in Int /\ asked' \subseteq asked
         /\ \A r \in asked' : r.xid < initialXid'
BY DhcpAssumption DEF Begins, FreshIds, TypeInv, Requests

(* Whatever an answer leaves of its data, requests still name the server.  *)
LEMMA ParsedKeeps ==
  ASSUME TypeInv, RequestsName, HearsSender, NEW m \in inbox,
         serverIp' = IF serverIp \in {Nobody, hears} THEN m.from ELSE serverIp
  PROVE  /\ serverIp' \in Servers
         /\ \A r \in asked : r.type = "REQUEST" /\ initialXid <= r.xid => r.server = serverIp'
BY DhcpAssumption DEF TypeInv, RequestsName, HearsSender

LEMMA InitInv == Init => IInv
BY DhcpAssumption
   DEF Init, IInv, TypeInv, States, RequestsName, AcksAgree, HearsSender, RenewsByName, LeaseInv

(* The calls that begin a request anew.                                    *)
LEMMA BeginsInv ==
  ASSUME IInv, NEW who \in Callers, NEW st \in {"START", "REREQUEST"}, Begins(who, st),
         Reset \/ UNCHANGED <<localIp, serverIp>>, st = "REREQUEST" => UNCHANGED serverIp /\ state = "LEASED"
  PROVE  IInv'
<1>1. /\ caller' = who /\ state' = st /\ hears' = Nobody /\ inbox' = {}
      /\ xid' \in Int /\ initialXid' \in Int /\ asked' \subseteq asked
      /\ \A r \in asked' : r.xid < initialXid'
  BY BeginsFresh DEF IInv
<1>2. TypeInv'
  BY <1>1 DEF IInv, TypeInv, States, Reset
<1>3. RequestsName'
  BY <1>1, <1>2 DEF RequestsName, TypeInv, Requests
<1>4. (AcksAgree /\ HearsSender)'
  BY <1>1 DEF AcksAgree, HearsSender
<1>5. RenewsByName' /\ LeaseInv'
  BY <1>1 DEF IInv, RenewsByName, LeaseInv
<1> QED BY <1>2, <1>3, <1>4, <1>5 DEF IInv

(* Sending a request, with the next id.                                    *)
LEMMA SendInv ==
  ASSUME IInv, SendDiscover \/ SendRequest
  PROVE  IInv'
<1> USE DEF IInv
<1>1. /\ UNCHANGED <<caller, initialXid, localIp, serverIp, inbox, granted, host>>
      /\ xid' = xid + 1 /\ hears' = Everybody /\ state' \in {"DISCOVER", "REQUEST"}
  BY DEF SendDiscover, SendRequest, Send, timers
<1>2. \E r \in Requests :
        /\ asked' = asked \union {r}
        /\ r.type = "REQUEST" => r.server = serverIp /\ serverIp \in Servers
  <2>1. CASE SendDiscover
    <3> DEFINE r == [type |-> "DISCOVER", xid |-> xid', ip |-> Nobody, server |-> Nobody]
    <3>1. asked' = asked \union {r} BY <2>1 DEF SendDiscover, Send
    <3>2. r \in Requests /\ r.type # "REQUEST" BY <1>1 DEF TypeInv, Requests
    <3> QED BY <3>1, <3>2
  <2>2. CASE SendRequest
    <3> DEFINE r == [type |-> "REQUEST", xid |-> xid', ip |-> localIp, server |-> serverIp]
    <3>1. asked' = asked \union {r} BY <2>2 DEF SendRequest, Send
    <3>2. r \in Requests /\ r.server = serverIp BY <1>1 DEF TypeInv, Requests
    <3>3. serverIp \in Servers BY <2>2 DEF SendRequest, InLoop, RenewsByName
    <3> QED BY <3>1, <3>2, <3>3
  <2> QED BY <2>1, <2>2
<1>3. TypeInv' BY <1>1, <1>2 DEF TypeInv, States
<1>4. RequestsName' BY <1>1, <1>2 DEF RequestsName
<1>5. (AcksAgree /\ HearsSender)' BY <1>1 DEF AcksAgree, HearsSender
<1>6. RenewsByName' /\ LeaseInv' BY <1>1 DEF RenewsByName, LeaseInv
<1> QED BY <1>3, <1>4, <1>5, <1>6

(* An OFFER is taken up: the request names the server that is held.        *)
LEMMA TakeOfferInv ==
  ASSUME IInv, TakeOffer
  PROVE  IInv'
<1> USE DEF IInv
<1>1. PICK m \in inbox :
        /\ localIp' = m.ip /\ serverIp' = IF serverIp \in {Nobody, hears} THEN m.from ELSE serverIp
        /\ xid' = m.xid
        /\ asked' = asked \union {[type |-> "REQUEST", xid |-> m.xid, ip |-> localIp', server |-> serverIp']}
  BY DEF TakeOffer, Parsed
<1>2. /\ serverIp' \in Servers
      /\ \A r \in asked : r.type = "REQUEST" /\ initialXid <= r.xid => r.server = serverIp'
  BY <1>1, ParsedKeeps
<1>3. /\ hears' = Everybody /\ inbox' = {} /\ state' = "REQUEST" /\ UNCHANGED <<caller, initialXid>>
  BY DEF TakeOffer
<1> DEFINE r == [type |-> "REQUEST", xid |-> m.xid, ip |-> localIp', server |-> serverIp']
<1>4. r \in Requests /\ r.server = serverIp'
  BY <1>1, <1>2 DEF TypeInv, Requests
<1>5. TypeInv' BY <1>1, <1>2, <1>3, <1>4 DEF TypeInv, States
<1>6. RequestsName' BY <1>1, <1>2, <1>3, <1>4 DEF RequestsName
<1>7. (AcksAgree /\ HearsSender)' BY <1>3 DEF AcksAgree, HearsSender
<1>8. RenewsByName' /\ LeaseInv' BY <1>3 DEF RenewsByName, LeaseInv
<1> QED BY <1>5, <1>6, <1>7, <1>8

(* An ACK of this call is from the server that is held, so the lease is    *)
(* that server's.                                                          *)
LEMMA TakeAckInv ==
  ASSUME IInv, TakeAck
  PROVE  IInv'
<1> USE DEF IInv
<1>1. PICK m \in inbox :
        /\ IsOurs(m) /\ m.type = "ACK"
        /\ localIp' = m.ip /\ serverIp' = IF serverIp \in {Nobody, hears} THEN m.from ELSE serverIp
        /\ granted'.server = m.from
  BY DEF TakeAck
<1>2. /\ serverIp' \in Servers
      /\ \A r \in asked : r.type = "REQUEST" /\ initialXid <= r.xid => r.server = serverIp'
  BY <1>1, ParsedKeeps
<1>3. /\ inbox' = {} /\ state' = "LEASED" /\ UNCHANGED <<caller, xid, initialXid, asked, hears, host>>
      /\ caller \in Callers
  BY DEF TakeAck, InLoop
<1>4. m.ip = m.from /\ serverIp = m.from
  BY <1>1 DEF AcksAgree, IsOurs
<1>5. hears # Nobody
  BY <1>1, DhcpAssumption DEF HearsSender, TypeInv
<1>6. caller' # "sketch" /\ hears' # Nobody /\ localIp' = granted'.server /\ serverIp' = granted'.server
  BY <1>1, <1>3, <1>4, <1>5 DEF Callers
<1>7. TypeInv' BY <1>1, <1>2, <1>3 DEF TypeInv, States
<1>8. RequestsName' BY <1>2, <1>3 DEF RequestsName
<1>9. (AcksAgree /\ HearsSender)' BY <1>3 DEF AcksAgree, HearsSender
<1>10. RenewsByName' /\ LeaseInv' BY <1>2, <1>3, <1>6 DEF RenewsByName, LeaseInv
<1> QED BY <1>7, <1>8, <1>9, <1>10

(* Other answers, which leave their data but no lease.                     *)
LEMMA OtherAnswerInv ==
  ASSUME IInv, TakeNak \/ Ignore
  PROVE  IInv'
<1> USE DEF IInv
<1>1. /\ inbox' = {} /\ state' \in {"START", "DISCOVER", "REQUEST"}
      /\ UNCHANGED <<caller, xid, initialXid, asked, hears>>
  BY DEF TakeNak, Ignore, Waits, InLoop
<1>2. CASE UNCHANGED <<localIp, serverIp>>
  BY <1>1, <1>2 DEF TypeInv, States, RequestsName, AcksAgree, HearsSender, RenewsByName, LeaseInv
<1>3. CASE \E m \in inbox : Parsed(m)
  <2>1. PICK m \in inbox : localIp' = m.ip /\ serverIp' = IF serverIp \in {Nobody, hears} THEN m.from ELSE serverIp
    BY <1>3 DEF Parsed
  <2>2. /\ serverIp' \in Servers
        /\ \A r \in asked : r.type = "REQUEST" /\ initialXid <= r.xid => r.server = serverIp'
    BY <2>1, ParsedKeeps
  <2>3. TypeInv' BY <1>1, <2>1, <2>2 DEF TypeInv, States
  <2>4. RequestsName' BY <1>1, <2>2 DEF RequestsName
  <2>5. (AcksAgree /\ HearsSender)' BY <1>1 DEF AcksAgree, HearsSender
  <2>6. RenewsByName' /\ LeaseInv' BY <1>1 DEF RenewsByName, LeaseInv
  <2> QED BY <2>3, <2>4, <2>5, <2>6
<1> QED BY <1>2, <1>3 DEF TakeNak, Ignore

(* A server's ACK answers a request that named it.                         *)
LEMMA AnswerInv ==
  ASSUME IInv, NEW s \in Servers, Answer(s)
  PROVE  IInv'
<1> USE DEF IInv
<1>1. /\ UNCHANGED <<state, caller, xid, initialXid, localIp, serverIp, asked, host, granted>>
      /\ hears' = s /\ hears' # Nobody
  BY DhcpAssumption DEF Answer, request
<1>2. PICK r \in asked, opt \in Options : \E m \in Reply(s, r, opt) : inbox' = {m}
  BY DEF Answer
<1>3. PICK m \in Reply(s, r, opt) : inbox' = {m}
  BY <1>2
<1>4. /\ m.xid = r.xid /\ m.from = s /\ m.ip \in {s, Nobody}
      /\ m.type = "ACK" => m.ip = s /\ r.type # "DISCOVER" /\ r.server = s
  BY <1>3 DEF Reply
<1>5. r \in Requests BY DEF TypeInv
<1>6. TypeInv' BY <1>1, <1>3, <1>4, <1>5 DEF TypeInv, Requests
<1>7. AcksAgree' BY <1>1, <1>3, <1>4, <1>5 DEF AcksAgree, RequestsName, Requests
<1>8. HearsSender' BY <1>1, <1>3, <1>4 DEF HearsSender
<1>9. (RequestsName /\ RenewsByName /\ LeaseInv)' BY <1>1 DEF RequestsName, RenewsByName, LeaseInv
<1> QED BY <1>6, <1>7, <1>8, <1>9

(* The call returns, at last or without a socket.                          *)
LEMMA ReturnInv ==
  ASSUME IInv, Return \/ NoSocket \/ ResponseTimeout
  PROVE  IInv'
<1> USE DEF IInv
<1>1. CASE Return
  <2>1. /\ caller' = "sketch" /\ xid' = xid + 1 /\ inbox' = {} /\ hears' = Nobody
        /\ host' = IF state = "LEASED" THEN localIp ELSE host
        /\ UNCHANGED <<state, initialXid, localIp, serverIp, asked, granted>>
    BY <1>1 DEF Return
  <2> QED BY <2>1 DEF TypeInv, RequestsName, AcksAgree, HearsSender, RenewsByName, LeaseInv
<1>2. CASE NoSocket
  <2>1. /\ caller' = "sketch" /\ hears = Nobody /\ caller # "sketch"
        /\ UNCHANGED <<state, xid, initialXid, localIp, serverIp, asked, hears, inbox, host, granted>>
    BY <1>2 DEF NoSocket, network, Callers
  <2>2. state # "LEASED" BY <2>1 DEF LeaseInv
  <2> QED BY <2>1, <2>2 DEF TypeInv, RequestsName, AcksAgree, HearsSender, RenewsByName, LeaseInv
<1>3. CASE ResponseTimeout
  <2>1. /\ state' = "START"
        /\ UNCHANGED <<caller, xid, initialXid, localIp, serverIp, asked, hears, inbox, host, granted>>
    BY <1>3 DEF ResponseTimeout, network
  <2> QED BY <2>1 DEF TypeInv, States, RequestsName, AcksAgree, HearsSender, RenewsByName, LeaseInv
<1> QED BY <1>1, <1>2, <1>3

(* Steps that leave the request and the lease alone.                       *)
LEMMA QuietInv ==
  ASSUME IInv, UNCHANGED <<request, network, host, granted>>
  PROVE  IInv'
BY DEF request, network, IInv, TypeInv, RequestsName, AcksAgree, HearsSender, RenewsByName, LeaseInv

LEMMA StepInv == IInv /\ [Next]_vars => IInv'
<1> SUFFICES ASSUME IInv, [Next]_vars PROVE IInv'
  OBVIOUS
<1>1. CASE Begin
  BY <1>1, BeginsInv DEF Begin, Callers
<1>2. CASE NoSocket \/ Return \/ ResponseTimeout
  BY <1>2, ReturnInv
<1>3. CASE SendDiscover \/ SendRequest
  BY <1>3, SendInv
<1>4. CASE TakeOffer
  BY <1>4, TakeOfferInv
<1>5. CASE TakeAck
  BY <1>5, TakeAckInv
<1>6. CASE TakeNak \/ Ignore
  BY <1>6, OtherAnswerInv
<1>7. CASE RenewThenRebind
  BY <1>7, BeginsInv DEF RenewThenRebind, Callers
<1>8. CASE FirstCheck
  BY <1>8, QuietInv DEF FirstCheck
<1>9. ASSUME NEW d \in 1 .. MaxGap, CheckOnly(d) PROVE IInv'
  BY <1>9, QuietInv DEF CheckOnly, CheckLease
<1>10. ASSUME NEW d \in 1 .. MaxGap, CheckRenews(d) PROVE IInv'
  BY <1>10, BeginsInv DEF CheckRenews, CheckLease, RenewDue, Callers
<1>11. ASSUME NEW d \in 1 .. MaxGap, CheckRebinds(d) PROVE IInv'
  BY <1>11, BeginsInv DEF CheckRebinds, Callers
<1>12. ASSUME NEW s \in Servers, Answer(s) PROVE IInv'
  BY <1>12, AnswerInv
<1>13. CASE UNCHANGED vars
  BY <1>13, QuietInv DEF vars
<1> QED
  BY <1>1, <1>2, <1>3, <1>4, <1>5, <1>6, <1>7, <1>8, <1>9, <1>10, <1>11, <1>12, <1>13 DEF Next, Turns, Checks

(* While a lease is held the stack has the address that was acknowledged,  *)
(* and the server id is that of the server that has acknowledged it.       *)
THEOREM LeaseIsGranted == Spec => []LeaseAgreed
<1>1. IInv => LeaseAgreed
  BY DEF IInv, LeaseInv, LeaseAgreed
<1> QED BY InitInv, StepInv, <1>1, PTL DEF Spec

-------------------------------------------------------------------------------
(***************************************************************************)
(* The timers                                                              *)
(*                                                                         *)
(* checkLease counts a second whenever millis() has passed _secTimeout, and*)
(* moves that on by the seconds it has counted: what it has not counted yet*)
(* is less than a second, late + Second units.  So the age of a lease is at*)
(* most what a counter has come down, in seconds, and that rest (Behind).  *)
(***************************************************************************)
Units(n) == n * Second
Behind(t, counter) == counter > 0 => counter <= t /\ age <= late + Second + Units(t - counter)

Fields == {"lease", "t1", "t2"}
Times == [Fields -> Nat]
TimesInv ==
  /\ times \in Times
  /\ \A m \in inbox : m.opt \in Times
TimersInv ==
  /\ renewIn \in Nat /\ rebindIn \in Nat /\ age \in Nat /\ granted.t1 \in Nat /\ granted.t2 \in Nat
  /\ IF checked THEN late \in -Second .. -1 ELSE late = 0 /\ age = 0
  /\ Behind(granted.t1, renewIn) /\ Behind(granted.t2, rebindIn)

LEMMA OptionsAre == ASSUME NEW opt \in Options \union {NoTimes} PROVE opt \in Times
<1>1. CASE opt \in Options
  <2>1. opt \in [lease : Nat, t1 : Nat, t2 : Nat]
    BY <1>1, DhcpAssumption
  <2> QED BY <2>1 DEF Times, Fields
<1>2. CASE opt = NoTimes
  BY <1>2 DEF NoTimes, Times, Fields
<1> QED BY <1>1, <1>2

LEMMA InitTimers == Init => TimesInv /\ TimersInv
BY DhcpAssumption DEF Init, NoTimes, NoGrant, TimesInv, TimersInv, Behind, Times, Fields

(* An answer's options where it has them.                                  *)
LEMMA MergedTimes ==
  ASSUME times \in Times, NEW o \in Times
  PROVE  [f \in DOMAIN times |-> IF o[f] # 0 THEN o[f] ELSE times[f]] \in Times
BY DEF Times

LEMMA CompletedTimes ==
  ASSUME NEW t \in Times
  PROVE  /\ Completed(t) \in Times /\ Completed(t).t1 \in Nat /\ Completed(t).t2 \in Nat
<1> DEFINE lease == IF t["lease"] = 0 THEN DefaultLease ELSE t["lease"]
           t1 == IF t["t1"] = 0 THEN lease \div 2 ELSE t["t1"]
           t2 == IF t["t2"] = 0 THEN 2 * t1 ELSE t["t2"]
<1>1. t["lease"] \in Nat /\ t["t1"] \in Nat /\ t["t2"] \in Nat
  BY DEF Times, Fields
<1>2. lease \in Nat
  BY <1>1, DhcpAssumption
<1>3. lease \div 2 \in Nat
  <2> HIDE DEF lease
  <2> QED BY <1>2
<1>4. t1 \in Nat
  <2> HIDE DEF lease
  <2> QED BY <1>1, <1>3
<1>5. t2 \in Nat
  <2> HIDE DEF t1
  <2> QED BY <1>1, <1>4
<1>6. Completed(t) = [lease |-> lease, t1 |-> t1, t2 |-> t2]
  BY DEF Completed
<1> HIDE DEF lease, t1, t2
<1> QED BY <1>2, <1>4, <1>5, <1>6 DEF Times, Fields

(* The lease's times, over every step.                                     *)
LEMMA TimesStep == TimesInv /\ [Next]_vars => TimesInv'
<1> SUFFICES ASSUME TimesInv, [Next]_vars PROVE TimesInv'
  OBVIOUS
<1>1. ASSUME NEW m \in inbox, Parsed(m) PROVE times' \in Times
  BY <1>1, MergedTimes DEF Parsed, TimesInv
<1>2. CASE Begin
  <2>1. times' = NoTimes /\ inbox' = {}
    BY <1>2 DEF Begin, Begins
  <2> QED BY <2>1, OptionsAre DEF TimesInv
<1>3. CASE TakeOffer \/ TakeNak \/ Ignore
  <2>1. inbox' = {}
    BY <1>3 DEF TakeOffer, TakeNak, Ignore
  <2>2. times' = times \/ \E m \in inbox : Parsed(m)
    BY <1>3 DEF TakeOffer, TakeNak, Ignore
  <2> QED BY <2>1, <2>2, <1>1 DEF TimesInv
<1>4. CASE TakeAck
  <2>1. inbox' = {} /\ \E m \in inbox : times' = Completed([f \in DOMAIN times |-> IF m.opt[f] # 0 THEN m.opt[f] ELSE times[f]])
    BY <1>4 DEF TakeAck
  <2>2. PICK m \in inbox : times' = Completed([f \in DOMAIN times |-> IF m.opt[f] # 0 THEN m.opt[f] ELSE times[f]])
    BY <2>1
  <2>3. [f \in DOMAIN times |-> IF m.opt[f] # 0 THEN m.opt[f] ELSE times[f]] \in Times
    BY MergedTimes DEF TimesInv
  <2> QED BY <2>1, <2>2, <2>3, CompletedTimes DEF TimesInv
<1>5. ASSUME NEW s \in Servers, Answer(s) PROVE TimesInv'
  <2>1. times' = times /\ \E r \in asked, opt \in Options : \E m \in Reply(s, r, opt) : inbox' = {m}
    BY <1>5 DEF Answer, request
  <2>2. PICK r \in asked, opt \in Options : \E m \in Reply(s, r, opt) : inbox' = {m}
    BY <2>1
  <2>3. PICK m \in Reply(s, r, opt) : inbox' = {m}
    BY <2>2
  <2>4. m.opt \in Options \union {NoTimes}
    BY <2>3 DEF Reply
  <2> QED BY <2>1, <2>3, <2>4, OptionsAre DEF TimesInv
<1>6. CASE UNCHANGED times /\ inbox' \subseteq inbox
  BY <1>6 DEF TimesInv
<1>7. CASE SendDiscover \/ SendRequest \/ ResponseTimeout \/ NoSocket \/ Return \/ RenewThenRebind
  <2>1. UNCHANGED times /\ inbox' \subseteq inbox
    BY <1>7 DEF SendDiscover, SendRequest, ResponseTimeout, NoSocket, Return, RenewThenRebind, Begins, network
  <2> QED BY <2>1, <1>6
<1>8. CASE FirstCheck \/ \E d \in 1 .. MaxGap : CheckOnly(d) \/ CheckRenews(d) \/ CheckRebinds(d)
  <2>1. UNCHANGED times /\ inbox' \subseteq inbox
    BY <1>8 DEF FirstCheck, CheckOnly, CheckRenews, CheckRebinds, Begins, request, network
  <2> QED BY <2>1, <1>6
<1>9. CASE UNCHANGED vars
  BY <1>9, <1>6 DEF vars, request, network
<1> QED BY <1>2, <1>3, <1>4, <1>5, <1>7, <1>8, <1>9 DEF Next, Turns, Checks

LEMMA UnitsAre == (\A n \in Int : Units(n) \in Int) /\ Units(0) = 0 /\ Units(1) = Second
BY DhcpAssumption DEF Units

LEMMA UnitsSum ==
  ASSUME NEW a \in Int, NEW b \in Int, NEW c, c = a + b
  PROVE  Units(c) = Units(a) + Units(b)
BY DhcpAssumption DEF Units

LEMMA UnitsGrow ==
  ASSUME NEW a \in Int, NEW b \in Int, a <= b
  PROVE  Units(a) <= Units(b)
<1>1. \A n \in Nat : Units(n) \in Nat
  BY DhcpAssumption DEF Units
<1>2. PICK c \in Nat : b = a + c
  <2>1. b - a \in Nat /\ b = a + (b - a)
    OBVIOUS
  <2> QED BY <2>1
<1>3. Units(b) = Units(a) + Units(c) /\ Units(a) \in Int /\ Units(c) \in Nat
  <2>1. c \in Int
    BY <1>2
  <2>2. Units(b) = Units(a) + Units(c)
    BY <1>2, <2>1, UnitsSum
  <2> QED BY <1>1, <1>2, <2>2, UnitsAre
<1> QED BY <1>3

(* What a call counts, and what it leaves for the next one.                *)
LEMMA CountedIs ==
  ASSUME late \in -Second .. -1, NEW d \in 1 .. MaxGap
  PROVE  Seconds(d) \in Nat /\ NextLate(d) \in -Second .. -1 /\ late + d = NextLate(d) + Units(Seconds(d))
<1>1. Second \in Nat \ {0} /\ late \in Int /\ d \in Int
  BY DhcpAssumption
<1>2. CASE late + d >= 0
  <2> DEFINE x == late + d
             q == x \div Second
             r == x % Second
  <2>1. x \in Nat
    BY <1>1, <1>2
  <2>2. Seconds(d) = q + 1 /\ NextLate(d) = r - Second
    BY <1>2 DEF Seconds, NextLate
  <2> HIDE DEF x
  <2>3. q \in Nat /\ r \in 0 .. Second - 1 /\ x = q * Second + r
    BY <1>1, <2>1
  <2> HIDE DEF q, r
  <2>4. Units(q + 1) = q * Second + Second
    BY <1>1, <2>3 DEF Units
  <2>5. q * Second \in Int
    BY <1>1, <2>3
  <2>6. x = late + d
    BY DEF x
  <2> QED BY <1>1, <2>2, <2>3, <2>4, <2>5, <2>6
<1>3. CASE ~(late + d >= 0)
  <2>1. Seconds(d) = 0 /\ NextLate(d) = late + d
    BY <1>3 DEF Seconds, NextLate
  <2>2. Units(0) = 0
    BY UnitsAre
  <2> QED BY <1>1, <1>3, <2>1, <2>2
<1> QED BY <1>2, <1>3

(* A counter keeps up with the age, as long as it has not run out.         *)
LEMMA BehindGoesOn ==
  ASSUME NEW t \in Nat, NEW counter \in Nat, NEW d \in 1 .. MaxGap,
         late \in -Second .. -1, age \in Nat, Behind(t, counter)
  PROVE  /\ Left(counter, d) \in Nat
         /\ Left(counter, d) > 0 =>
              Left(counter, d) <= t /\ age + d <= NextLate(d) + Second + Units(t - Left(counter, d))
<1> DEFINE s == Seconds(d)
           n == NextLate(d)
<1>1. s \in Nat /\ n \in Int /\ late + d = n + Units(s) /\ Second \in Nat /\ late \in Int /\ d \in Int
  BY CountedIs, DhcpAssumption
<1>2. Left(counter, d) = IF s = 0 THEN counter ELSE IF counter < 2 * s THEN 0 ELSE counter - s
  BY DEF Left
<1> HIDE DEF s, n
<1>3. Left(counter, d) \in Nat /\ Left(counter, d) <= counter
  BY <1>1, <1>2
<1>4. ASSUME Left(counter, d) > 0
      PROVE  Left(counter, d) = counter - s /\ counter > 0
  BY <1>1, <1>2, <1>4
<1>5. ASSUME Left(counter, d) > 0
      PROVE  counter - s <= t /\ age + d <= n + Second + Units(t - (counter - s))
  <2>1. counter <= t /\ age <= late + Second + Units(t - counter)
    BY <1>4, <1>5 DEF Behind
  <2>2. t - counter \in Int /\ t - (counter - s) = (t - counter) + s
    BY <1>1
  <2>3. Units(t - (counter - s)) = Units(t - counter) + Units(s)
    BY <1>1, <2>2, UnitsSum
  <2>4. Units(t - counter) \in Int /\ Units(s) \in Int
    BY <1>1, <2>2, UnitsAre
  <2> QED BY <1>1, <2>1, <2>3, <2>4
<1>6. NextLate(d) = n
  BY DEF n
<1> QED BY <1>3, <1>4, <1>5, <1>6

LEMMA CheckTimers ==
  ASSUME TimersInv, NEW d \in 1 .. MaxGap, NEW due, CheckLease(d, due)
  PROVE  TimersInv'
<1>1. /\ checked /\ checked' /\ granted' = granted /\ late' = NextLate(d)
      /\ renewIn' = Left(renewIn, d) /\ rebindIn' = Left(rebindIn, d)
      /\ age' = IF age + d > MaxAge THEN MaxAge ELSE age + d
  BY DEF CheckLease, TimersInv
<1>2. /\ late \in -Second .. -1 /\ age \in Nat /\ renewIn \in Nat /\ rebindIn \in Nat
      /\ granted.t1 \in Nat /\ granted.t2 \in Nat
      /\ Behind(granted.t1, renewIn) /\ Behind(granted.t2, rebindIn)
  BY <1>1 DEF TimersInv
<1>3. age' \in Nat /\ age' <= age + d
  BY <1>1, <1>2, DhcpAssumption
<1>4. late' \in -Second .. -1
  BY <1>1, <1>2, CountedIs
<1>5. ASSUME NEW t \in Nat, NEW counter \in Nat, Behind(t, counter)
      PROVE  /\ Left(counter, d) \in Nat
             /\ Left(counter, d) > 0 => Left(counter, d) <= t /\ age' <= late' + Second + Units(t - Left(counter, d))
  <2>1. /\ Left(counter, d) \in Nat
        /\ Left(counter, d) > 0 =>
             Left(counter, d) <= t /\ age + d <= late' + Second + Units(t - Left(counter, d))
    BY <1>1, <1>2, <1>5, BehindGoesOn
  <2>2. Units(t - Left(counter, d)) \in Int
    BY <2>1, UnitsAre
  <2> QED BY <1>2, <1>3, <1>4, <2>1, <2>2, DhcpAssumption
<1>6. renewIn' \in Nat /\ (renewIn' > 0 => renewIn' <= granted.t1 /\ age' <= late' + Second + Units(granted.t1 - renewIn'))
  BY <1>1, <1>2, <1>5
<1>7. rebindIn' \in Nat /\ (rebindIn' > 0 => rebindIn' <= granted.t2 /\ age' <= late' + Second + Units(granted.t2 - rebindIn'))
  BY <1>1, <1>2, <1>5
<1> QED BY <1>1, <1>2, <1>3, <1>4, <1>6, <1>7 DEF TimersInv, Behind, Units

LEMMA TimersStep == TimesInv /\ TimersInv /\ [Next]_vars => TimersInv'
<1> SUFFICES ASSUME TimesInv, TimersInv, [Next]_vars PROVE TimersInv'
  OBVIOUS
<1>1. CASE UNCHANGED <<timers, granted>>
  BY <1>1 DEF timers, TimersInv, Behind
<1>2. CASE TakeAck
  <2>1. PICK m \in inbox :
          /\ times' = Completed([f \in DOMAIN times |-> IF m.opt[f] # 0 THEN m.opt[f] ELSE times[f]])
          /\ granted' = [server |-> m.from, t1 |-> times'.t1, t2 |-> times'.t2]
    BY <1>2 DEF TakeAck
  <2>2. [f \in DOMAIN times |-> IF m.opt[f] # 0 THEN m.opt[f] ELSE times[f]] \in Times
    BY MergedTimes DEF TimesInv
  <2>3. times'.t1 \in Nat /\ times'.t2 \in Nat
    BY <2>1, <2>2, CompletedTimes
  <2>4. /\ renewIn' = granted'.t1 /\ rebindIn' = granted'.t2 /\ granted'.t1 \in Nat /\ granted'.t2 \in Nat
        /\ age' = 0 /\ late' = late /\ checked' = checked
    BY <1>2, <2>1, <2>3 DEF TakeAck
  <2>5. late + Second >= 0 /\ late \in Int
    BY DhcpAssumption DEF TimersInv
  <2>6. \A n \in Nat : n - n = 0
    OBVIOUS
  <2>7. Units(0) = 0
    BY UnitsAre
  <2>8. \A n \in Nat : n <= n /\ age' <= late' + Second + Units(n - n)
    BY <2>4, <2>5, <2>6, <2>7, DhcpAssumption
  <2> QED BY <2>4, <2>8 DEF TimersInv, Behind, Units
<1>3. CASE FirstCheck
  <2>1. /\ ~checked /\ checked' /\ late' = -Second /\ UNCHANGED <<renewIn, rebindIn, age, granted>> /\ age = 0
    BY <1>3 DEF FirstCheck, TimersInv
  <2>2. \A n \in Nat : Units(n) >= 0 /\ Units(n) \in Int
    BY UnitsGrow, UnitsAre
  <2>3. ASSUME NEW t \in Nat, NEW counter \in Nat, Behind(t, counter), counter > 0
        PROVE  counter <= t /\ age' <= late' + Second + Units(t - counter)
    <3>1. counter <= t /\ t - counter \in Nat
      BY <2>3 DEF Behind
    <3>2. Units(t - counter) >= 0 /\ Units(t - counter) \in Int
      BY <2>2, <3>1
    <3> QED BY <2>1, <3>1, <3>2, DhcpAssumption
  <2>4. late' \in -Second .. -1
    BY <2>1, DhcpAssumption
  <2> QED BY <2>1, <2>3, <2>4 DEF TimersInv, Behind, Units
<1>4. ASSUME NEW d \in 1 .. MaxGap, CheckOnly(d) \/ CheckRenews(d) \/ CheckRebinds(d)
      PROVE  TimersInv'
  BY <1>4, CheckTimers DEF CheckOnly, CheckRenews, CheckRebinds
<1>5. CASE Begin \/ NoSocket \/ SendDiscover \/ SendRequest \/ TakeOffer \/ TakeNak \/ Ignore
  BY <1>1, <1>5 DEF Begin, NoSocket, SendDiscover, SendRequest, TakeOffer, TakeNak, Ignore
<1>6. CASE ResponseTimeout \/ Return \/ RenewThenRebind \/ \E s \in Servers : Answer(s)
  BY <1>1, <1>6 DEF ResponseTimeout, Return, RenewThenRebind, Answer
<1>7. CASE UNCHANGED vars
  BY <1>1, <1>7 DEF vars
<1> QED BY <1>2, <1>3, <1>4, <1>5, <1>6, <1>7 DEF Next, Turns, Checks

(* A check that leaves a lease as it is comes in time.                     *)
LEMMA ChecksInTime ==
  ASSUME TimersInv, TimersInv', NEW d \in 1 .. MaxGap, CheckOnly(d)
  PROVE  OnTime({"LEASED"}, granted.t1) /\ OnTime({"LEASED", "START"}, granted.t2)
<1>1. /\ checked' /\ granted' = granted /\ renewIn' = Left(renewIn, d) /\ rebindIn' = Left(rebindIn, d)
      /\ ~RenewDue(d) /\ ~RebindDue(state, Left(rebindIn, d))
  BY DEF CheckOnly, CheckLease
<1>2. /\ renewIn' \in Nat /\ rebindIn' \in Nat /\ late' \in -Second .. -1 /\ age' \in Nat
      /\ granted.t1 \in Nat /\ granted.t2 \in Nat
      /\ Behind(granted.t1, renewIn)' /\ Behind(granted.t2, rebindIn)'
  BY <1>1 DEF TimersInv
<1>3. ASSUME NEW t \in Nat, NEW n \in Nat, n > 0, n <= t, age' <= late' + Second + Units(t - n)
      PROVE  age' < t * Second
  <2>1. Units(t - n) <= Units(t - 1) /\ Units(t - n) \in Int
    BY <1>3, UnitsGrow, UnitsAre
  <2>2. t = (t - 1) + 1 /\ t - 1 \in Int /\ t \in Int
    OBVIOUS
  <2>3. Units(t) = Units(t - 1) + Second /\ Units(t - 1) \in Int
    <3>1. Units(t) = Units(t - 1) + Units(1)
      BY <2>2, UnitsSum
    <3> QED BY <2>2, <3>1, UnitsAre
  <2>4. Units(t) = t * Second
    BY DEF Units
  <2> QED BY <1>2, <1>3, <2>1, <2>3, <2>4, DhcpAssumption
<1>4. CASE state = "LEASED"
  <2>1. renewIn' > 0 /\ rebindIn' > 0
    BY <1>1, <1>2, <1>4 DEF RenewDue, RebindDue
  <2>2. /\ renewIn' <= granted.t1 /\ age' <= late' + Second + Units(granted.t1 - renewIn')
        /\ rebindIn' <= granted.t2 /\ age' <= late' + Second + Units(granted.t2 - rebindIn')
    BY <1>1, <1>2, <2>1 DEF Behind, Units
  <2> QED BY <1>2, <1>3, <2>1, <2>2 DEF OnTime
<1>5. CASE state = "START"
  <2>1. rebindIn' > 0
    BY <1>1, <1>2, <1>5 DEF RebindDue
  <2>2. rebindIn' <= granted.t2 /\ age' <= late' + Second + Units(granted.t2 - rebindIn')
    BY <1>1, <1>2, <2>1 DEF Behind, Units
  <2> QED BY <1>2, <1>3, <1>5, <2>1, <2>2 DEF OnTime
<1> QED BY <1>4, <1>5 DEF OnTime

(* A check of maintain that does not renew comes before T1 of the lease    *)
(* has passed, and one that does not rebind before T2, for any lengths of a*)
(* second and of the gaps between calls: no part of a second is lost.      *)
THEOREM RenewalsInTime == Spec => RenewsOnTime
<1>1. TimesInv /\ TimersInv /\ [Next]_vars => TimesInv' /\ TimersInv'
  BY TimesStep, TimersStep
<1>2. TimersInv /\ TimersInv' =>
        ((\E d \in 1 .. MaxGap : CheckOnly(d)) /\ granted # NoGrant =>
           OnTime({"LEASED"}, granted.t1) /\ OnTime({"LEASED", "START"}, granted.t2))
  BY ChecksInTime
<1> QED BY <1>1, <1>2, InitTimers, PTL DEF Spec, RenewsOnTime
===============================================================================
