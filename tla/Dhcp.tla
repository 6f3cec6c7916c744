--------------------------------- MODULE Dhcp ---------------------------------
(***************************************************************************)
(* The DHCP client: Dhcp.cpp, called by UIPEthernet.begin and maintain.    *)
(*                                                                         *)
(* request_DHCP_lease blocks; one action is one turn of its loop.  How long*)
(* a turn takes is counted in response timeouts: a turn may or may not     *)
(* complete one.  Requests stay in `asked`, and a server may answer any of *)
(* them at any time, again and again or never: answers are delayed, lost,  *)
(* duplicated and reordered.  The socket (UIPUdp) keeps one unread datagram*)
(* and hears only the sender of the first one after each broadcast.        *)
(*                                                                         *)
(* Time passes between calls of maintain, in units, Second of them to a    *)
(* second; what a request takes belongs to the time in front of the next   *)
(* call.  The address that a server gives us is named by the server.       *)
(***************************************************************************)
EXTENDS Integers

CONSTANTS
  Servers,    \* the DHCP servers
  Nobody,     \* 0.0.0.0
  Everybody,  \* 255.255.255.255
  Options,    \* the lease time, T1 and T2 a server sends, each 0 if it does not
  DefaultLease, \* DEFAULT_LEASE, in seconds
  Second,     \* units of time in a second
  MaxGap,     \* bound: units between two calls of maintain
  Limit,      \* how many response timeouts make up _timeout
  MaxXid,     \* bound: transaction ids before they are taken anew
  MaxAge      \* bound: up to what the age of a lease is told apart

ASSUME DhcpAssumption ==
  /\ Nobody \notin Servers /\ Everybody \notin Servers /\ Nobody # Everybody
  /\ Second \in Nat \ {0} /\ MaxGap \in Nat \ {0} /\ Limit \in Nat \ {0} /\ MaxXid \in Nat /\ MaxAge \in Nat
  /\ DefaultLease \in Nat \ {0}
  /\ Options \subseteq [lease : Nat, t1 : Nat, t2 : Nat]

VARIABLES
  state,      \* _dhcp_state
  caller,     \* who has called request_DHCP_lease, or "sketch"
  xid, initialXid,
  localIp,    \* _dhcpLocalIp
  serverIp,   \* _dhcpDhcpServerIp
  times,      \* _dhcpLeaseTime, _dhcpT1, _dhcpT2
  elapsed,    \* response timeouts since the request began
  asked,      \* the requests sent, each with its type, id, address and server
  hears,      \* the remote end of the socket
  inbox,      \* the datagram in it, if any
  renewIn, rebindIn,
  late,       \* millis() - _secTimeout at the last call of checkLease
  checked,    \* _lastCheck # 0
  host,       \* the stack's own address
  granted,    \* who has granted the current lease, and its T1 and T2
  age         \* units since then, from the first call of checkLease on

request == <<state, caller, xid, initialXid, localIp, serverIp, times, elapsed>>
network == <<asked, hears, inbox>>
timers == <<renewIn, rebindIn, late, checked, age>>
vars == <<request, network, timers, host, granted>>

Callers == {"begin", "renew", "rebind"}
NoTimes == [lease |-> 0, t1 |-> 0, t2 |-> 0]
NoGrant == [server |-> Nobody, t1 |-> 0, t2 |-> 0]

Init ==
  /\ state = "START" /\ caller = "sketch" /\ xid = 0 /\ initialXid = 0
  /\ localIp = Nobody /\ serverIp = Nobody /\ times = NoTimes /\ elapsed = 0
  /\ asked = {} /\ hears = Everybody /\ inbox = {}
  /\ renewIn = 0 /\ rebindIn = 0 /\ late = 0 /\ checked = FALSE /\ age = 0
  /\ host = Nobody /\ granted = NoGrant

-------------------------------------------------------------------------------
(* The transaction id is drawn at random: it is none of those that answers *)
(* are still expected to, here the next one.  The ids of the model start   *)
(* anew when they run out, and nothing is expected any more then.          *)
FreshIds == {id \in 1 .. MaxXid - 1 : (\A r \in asked : r.xid < id) /\ (id > 1 => \E r \in asked : r.xid = id - 1)}
Begins(who, st) ==
  /\ caller' = who /\ state' = st /\ elapsed' = 0
  /\ IF FreshIds = {} THEN xid' = 1 /\ asked' = {} ELSE xid' \in FreshIds /\ UNCHANGED asked
  /\ initialXid' = xid'
  /\ hears' = Nobody /\ inbox' = {}

(* reset_DHCP_lease                                                        *)
Reset == localIp' = Nobody /\ serverIp' = Nobody

(* UIPEthernet.begin, beginWithDHCP                                        *)
Begin ==
  /\ caller = "sketch" /\ host = Nobody /\ ~checked
  /\ Reset /\ times' = NoTimes
  /\ Begins("begin", "START")
  /\ UNCHANGED <<timers, host, granted>>

(* send_DHCP_MESSAGE: only a REQUEST names an address and a server.        *)
Send(type, id) ==
  /\ asked' = asked \union {[type |-> type, xid |-> id,
                             ip |-> IF type = "REQUEST" THEN localIp ELSE Nobody,
                             server |-> IF type = "REQUEST" THEN serverIp ELSE Nobody]}
  /\ hears' = Everybody

(* The end of a turn: has it become too long?                              *)
Turn == elapsed' \in {elapsed, elapsed + 1}
InLoop(st) == caller \in Callers /\ state = st /\ elapsed < Limit

SendDiscover ==
  /\ InLoop("START") /\ Turn
  /\ xid' = xid + 1 /\ Send("DISCOVER", xid') /\ state' = "DISCOVER"
  /\ UNCHANGED <<caller, initialXid, localIp, serverIp, times, inbox, timers, host, granted>>

SendRequest ==
  /\ InLoop("REREQUEST") /\ Turn
  /\ xid' = xid + 1 /\ Send("REQUEST", xid') /\ state' = "REQUEST"
  /\ UNCHANGED <<caller, initialXid, localIp, serverIp, times, inbox, timers, host, granted>>

Waits == InLoop("DISCOVER") \/ InLoop("REQUEST")

Bug_NoLowerBound(m) == m.xid <= xid

(* parseDHCPResponse: is the datagram one of this request's answers?       *)
IsOurs(m) == initialXid <= m.xid /\ m.xid <= xid

(* What an answer leaves of the lease's data, whatever its type is.        *)
Parsed(m) ==
  /\ localIp' = m.ip
  /\ serverIp' = IF serverIp \in {Nobody, hears} THEN m.from ELSE serverIp
  /\ times' = [f \in DOMAIN times |-> IF m.opt[f] # 0 THEN m.opt[f] ELSE times[f]]

(* An OFFER is taken up with the id it came with.                          *)
TakeOffer ==
  /\ InLoop("DISCOVER") /\ Turn
  /\ \E m \in inbox :
       /\ IsOurs(m) /\ m.type = "OFFER"
       /\ Parsed(m) /\ xid' = m.xid
       /\ asked' = asked \union {[type |-> "REQUEST", xid |-> m.xid, ip |-> localIp', server |-> serverIp']}
  /\ hears' = Everybody /\ inbox' = {} /\ state' = "REQUEST"
  /\ UNCHANGED <<caller, initialXid, timers, host, granted>>

(* The times that are used when a server has not sent them.                *)
Completed(t) ==
  LET lease == IF t.lease = 0 THEN DefaultLease ELSE t.lease
      t1 == IF t.t1 = 0 THEN lease \div 2 ELSE t.t1
  IN  [lease |-> lease, t1 |-> t1, t2 |-> IF t.t2 = 0 THEN 2 * t1 ELSE t.t2]

TakeAck ==
  /\ InLoop("REQUEST") /\ Turn
  /\ \E m \in inbox :
       /\ IsOurs(m) /\ m.type = "ACK"
       /\ localIp' = m.ip
       /\ serverIp' = IF serverIp \in {Nobody, hears} THEN m.from ELSE serverIp
       /\ times' = Completed([f \in DOMAIN times |-> IF m.opt[f] # 0 THEN m.opt[f] ELSE times[f]])
       /\ granted' = [server |-> m.from, t1 |-> times'.t1, t2 |-> times'.t2]
  /\ renewIn' = times'.t1 /\ rebindIn' = times'.t2 /\ age' = 0
  /\ state' = "LEASED" /\ inbox' = {}
  /\ UNCHANGED <<caller, xid, initialXid, asked, hears, late, checked, host>>

TakeNak ==
  /\ InLoop("REQUEST") /\ Turn
  /\ \E m \in inbox : IsOurs(m) /\ m.type = "NAK" /\ Parsed(m)
  /\ state' = "START" /\ inbox' = {}
  /\ UNCHANGED <<caller, xid, initialXid, asked, hears, timers, host, granted>>

(* Any other answer: an old one leaves nothing, one of ours its data.      *)
Ignore ==
  /\ Waits /\ Turn
  /\ \E m \in inbox :
       /\ ~IsOurs(m) \/ (state = "DISCOVER" /\ m.type # "OFFER") \/ (state = "REQUEST" /\ m.type = "OFFER")
       /\ IF IsOurs(m) THEN Parsed(m) ELSE UNCHANGED <<localIp, serverIp, times>>
  /\ inbox' = {}
  /\ UNCHANGED <<state, caller, xid, initialXid, asked, hears, timers, host, granted>>

(* parseDHCPResponse returns 255                                           *)
ResponseTimeout ==
  /\ Waits /\ inbox = {}
  /\ elapsed' = elapsed + 1 /\ state' = "START"
  /\ UNCHANGED <<caller, xid, initialXid, localIp, serverIp, times, network, timers, host, granted>>

-------------------------------------------------------------------------------
(* request_DHCP_lease ends, with a lease or because of _timeout; begin and *)
(* maintain configure the stack then.                                      *)
Ended == caller \in Callers /\ (state = "LEASED" \/ elapsed >= Limit)

Bug_OnlyLeased(st, counter) == st = "LEASED" /\ counter <= 0

(* The second half of checkLease.                                          *)
RebindDue(st, counter) == st \in {"LEASED", "START"} /\ counter <= 0

Return ==
  /\ Ended /\ ~(caller = "renew" /\ RebindDue(state, rebindIn))
  /\ caller' = "sketch" /\ xid' = xid + 1 /\ inbox' = {} /\ hears' = Nobody
  /\ host' = IF state = "LEASED" THEN localIp ELSE host
  /\ elapsed' = 0
  /\ UNCHANGED <<state, initialXid, localIp, serverIp, times, asked, timers, granted>>

(* There is no socket: nothing is sent, and state stays as it was.         *)
NoSocket ==
  /\ caller \in Callers /\ elapsed = 0 /\ hears = Nobody /\ inbox = {} /\ xid = initialXid
  /\ ~(caller = "renew" /\ RebindDue(state, rebindIn))
  /\ caller' = "sketch"
  /\ UNCHANGED <<state, xid, initialXid, localIp, serverIp, times, elapsed, network, timers, host, granted>>

RenewThenRebind ==
  /\ Ended /\ caller = "renew" /\ RebindDue(state, rebindIn)
  /\ Reset /\ Begins("rebind", "START")
  /\ UNCHANGED <<times, timers, host, granted>>

(* checkLease, d units after its last call: how many seconds are counted,  *)
(* and what is left of a counter.                                          *)
Seconds(d) == IF late + d >= 0 THEN ((late + d) \div Second) + 1 ELSE 0
Left(counter, d) ==
  IF Seconds(d) = 0 THEN counter ELSE IF counter < 2 * Seconds(d) THEN 0 ELSE counter - Seconds(d)

Bug_Restarts(d) == IF late + d >= 0 THEN -Second ELSE late + d
NextLate(d) == IF late + d >= 0 THEN ((late + d) % Second) - Second ELSE late + d

FirstCheck ==
  /\ caller = "sketch" /\ ~checked /\ xid > 0
  /\ checked' = TRUE /\ late' = -Second
  /\ UNCHANGED <<request, network, renewIn, rebindIn, age, host, granted>>

RenewDue(d) == state = "LEASED" /\ Left(renewIn, d) <= 0

CheckLease(d, due) ==
  /\ caller = "sketch" /\ checked /\ due
  /\ late' = NextLate(d) /\ renewIn' = Left(renewIn, d) /\ rebindIn' = Left(rebindIn, d)
  /\ age' = IF age + d > MaxAge THEN MaxAge ELSE age + d
  /\ UNCHANGED <<checked, host, granted>>

CheckOnly(d) ==
  /\ CheckLease(d, ~RenewDue(d) /\ ~RebindDue(state, Left(rebindIn, d)))
  /\ UNCHANGED <<request, network>>

CheckRenews(d) ==
  /\ CheckLease(d, RenewDue(d)) /\ Begins("renew", "REREQUEST")
  /\ UNCHANGED <<localIp, serverIp, times>>

CheckRebinds(d) ==
  /\ CheckLease(d, ~RenewDue(d) /\ RebindDue(state, Left(rebindIn, d)))
  /\ Reset /\ Begins("rebind", "START")
  /\ UNCHANGED times

-------------------------------------------------------------------------------
(* A server answers a request that concerns it, and the socket takes it in *)
(* if it hears this server and has nothing unread.                         *)
Reply(s, r, opt) ==
  {[type |-> t, xid |-> r.xid, from |-> s, ip |-> IF t = "NAK" THEN Nobody ELSE s, opt |-> IF t = "NAK" THEN NoTimes ELSE opt] :
   t \in IF r.type = "DISCOVER" THEN {"OFFER"} ELSE IF r.server # s THEN {} ELSE IF r.ip = s THEN {"ACK", "NAK"} ELSE {"NAK"}}

Answer(s) ==
  /\ caller \in Callers /\ hears \in {Everybody, Nobody, s} /\ inbox = {}
  /\ \E r \in asked, opt \in Options : \E m \in Reply(s, r, opt) : inbox' = {m} /\ (m.type = "NAK" => xid < MaxXid)
  /\ hears' = s
  /\ UNCHANGED <<request, asked, timers, host, granted>>

Turns == SendDiscover \/ SendRequest \/ TakeOffer \/ TakeAck \/ TakeNak \/ Ignore \/ ResponseTimeout \/ Return \/ RenewThenRebind
Checks == FirstCheck \/ \E d \in 1 .. MaxGap : CheckOnly(d) \/ CheckRenews(d) \/ CheckRebinds(d)
Next == Begin \/ NoSocket \/ Turns \/ Checks \/ \E s \in Servers : Answer(s)

(* A call goes on, in each turn time passes at some time, the sketch calls *)
(* maintain again and again.                                               *)
Longer == Turns /\ (caller' = "sketch" \/ elapsed' # elapsed)
Fairness == WF_vars(Turns) /\ SF_vars(Longer) /\ WF_vars(Checks)
Spec == Init /\ [][Next]_vars /\ Fairness
-------------------------------------------------------------------------------
(* With a lease the stack has the address that a server has acknowledged,  *)
(* and renewals will name that server, although every answer overwrites    *)
(* the address, and answers come late, from two servers and from requests  *)
(* that were given up.                                                     *)
LeaseAgreed ==
  state = "LEASED" =>
    /\ localIp = granted.server /\ serverIp = granted.server
    /\ caller = "sketch" => host = localIp

(* maintain does not let T1 pass without a renewal, nor T2 without a       *)
(* rebinding, however irregularly it is called: parts of seconds that one  *)
(* call leaves over are not lost.  (Time before its first call is.)        *)
OnTime(states, t) == state \in states => age' < t * Second
RenewsOnTime ==
  [][(\E d \in 1 .. MaxGap : CheckOnly(d)) /\ granted # NoGrant =>
       OnTime({"LEASED"}, granted.t1) /\ OnTime({"LEASED", "START"}, granted.t2)]_vars

(* request_DHCP_lease returns: answers that are not ours or for another    *)
(* state do not keep it in its loop for ever.                              *)
RequestEnds == (caller # "sketch") ~> (caller = "sketch")

(* After a request that ended with its last wait, maintain begins another. *)
StartRetried == (checked /\ caller = "sketch" /\ state = "START") ~> (caller # "sketch")

(* A request ends, and is not the last.                                    *)
RequestsGoOn == RequestEnds /\ StartRetried

(* "this is actually a error, it will retry though" (UIPEthernet.cpp:126). *)
Retries == (checked /\ caller = "sketch" /\ state # "LEASED") ~> (caller # "sketch")
===============================================================================
