-------------------------------- MODULE Dhcp --------------------------------
(***************************************************************************)
(* The DHCP client of the W5500 port (w5500/src/Dhcp.c) under begin_dhcp   *)
(* and maintain of Ethernet.c: obtaining a lease, the counters that are    *)
(* run down by every check, renewing and rebinding, against servers whose  *)
(* answers come late, twice, in any order or not at all.                   *)
(*                                                                         *)
(* Time has two grains.  Between the calls it passes in half seconds, so   *)
(* that the remainder checkLease keeps is there; within a request, where   *)
(* the counters rest, in units of the time-outs.  A server hands out one   *)
(* address, named like the server; its identifier and the address its      *)
(* packets come from (a relay's, when there is one) are octets.  Of a      *)
(* message the type, the transaction id, the address, the sender, the      *)
(* server identifier and the three times are kept.                         *)
(* External: the servers and the network.                                  *)
(***************************************************************************)
EXTENDS Integers, FiniteSets

CONSTANTS
  Servers,
  Identifier,       \* of a server: the four octets of its server identifier
  Sender,           \* of a server: those its packets come from, its own or a relay's
  NoAddress,        \* 0.0.0.0
  Leases, T1s, T2s, \* what the time options of a message may say; 0: left out
  DefaultLease,     \* DEFAULT_LEASE
  Xids,             \* initial transaction ids: (time & 2000) + 1
  Timeout, ResponseTimeout,
  MaxGap,           \* bound: half seconds from one check to the next
  MaxNet,           \* bound: answers in flight
  MaxXid            \* bound: the last transaction that is answered

ASSUME ServersAssumption == NoAddress \notin Servers
ASSUME OctetsAssumption ==
  /\ Identifier \in [Servers -> [1 .. 4 -> 0 .. 255]]
  /\ Sender \in [Servers -> [1 .. 4 -> 0 .. 255]]
ASSUME TimesAssumption ==
  /\ Leases \subseteq Nat /\ T1s \subseteq Nat /\ T2s \subseteq Nat
  /\ DefaultLease \in Nat \ {0}
ASSUME BoundsAssumption ==
  /\ Xids \subseteq Nat \ {0} /\ Timeout \in Nat /\ ResponseTimeout \in Nat
  /\ MaxGap \in Nat /\ MaxNet \in Nat /\ MaxXid \in Nat

VARIABLES
  pc,               \* "idle" between calls, or the request under way
  state,            \* _dhcp_state
  xid0, xid,        \* _dhcpInitialTransactionId, _dhcpTransactionId
  local, server,    \* _dhcpLocalIp, _dhcpDhcpServerIp
  lease, t1, t2,    \* _dhcpLeaseTime, _dhcpT1, _dhcpT2
  renew, rebind,    \* _renewInSec, _rebindInSec
  rc,               \* of checkLease, while it runs
  address,          \* the address in the W5500
  since,            \* half seconds since _lastCheckLeaseMillis
  held,             \* half seconds since the ACK, while leased
  spent, waited,    \* of _timeout and of _responseTimeout
  sent,             \* the last message of the request under way
  net,              \* answers in flight
  bound             \* servers that have acknowledged their address

params == <<local, server, lease, t1, t2>>
timers == <<renew, rebind, since, held>>
ids    == <<xid0, xid>>
env    == <<net, bound>>
leaseVars == <<pc, state, ids, params, timers, rc, address, spent, waited, sent, env>>

Requests == {"begin", "renew", "rebind"}
Sec == 2                                 \* half seconds in a second

-----------------------------------------------------------------------------
(* The messages.                                                           *)

\* DISCOVER names nobody; REQUEST the address wanted and the server chosen.
Discover(x) == [type |-> "DISCOVER", xid |-> x, addr |-> NoAddress, server |-> NoAddress]
Nothing == Discover(0)                   \* no transaction has the id 0
Request(x, a, s) == [type |-> "REQUEST", xid |-> x, addr |-> a, server |-> s]

Questions == [type : {"DISCOVER", "REQUEST"}, xid : Nat,
              addr : Servers \cup {NoAddress}, server : Servers \cup {NoAddress}]
Answers == [type : {"OFFER", "ACK", "NAK"}, from : Servers, xid : Nat,
            lease : Leases, t1 : T1s, t2 : T2s]
YourAddr(m) == IF m.type = "NAK" THEN NoAddress ELSE m.from

\* A server offers when asked, and answers requests; one it is not named in it may
\* refuse, never grant.
Answer(s) ==
  \E type \in {"OFFER", "ACK", "NAK"}, l \in Leases, a \in T1s, b \in T2s :
    /\ sent # Nothing /\ Cardinality(net) < MaxNet /\ sent.xid =< MaxXid
    /\ (type = "OFFER") = (sent.type = "DISCOVER")
    /\ type = "ACK" => sent.server = s /\ sent.addr = s
    /\ net' = net \cup {[type |-> type, from |-> s, xid |-> sent.xid,
                         lease |-> l, t1 |-> a, t2 |-> b]}
    /\ bound' = IF type = "ACK" THEN bound \cup {s} ELSE bound
    /\ UNCHANGED <<pc, state, ids, params, timers, rc, address, spent, waited, sent>>

Lose ==
  /\ \E m \in net : net' = net \ {m}
  /\ UNCHANGED <<pc, state, ids, params, timers, rc, address, spent, waited, sent, bound>>

-----------------------------------------------------------------------------
(* The calls.                                                              *)

\* begin_dhcp has cleared the chip's address before it asks for one.
Cleared(call) == IF call = "begin" THEN NoAddress ELSE address

\* What a request's caller does with its result: begin_dhcp and maintain give the
\* chip the address of a lease, and a failed renewal goes on to the rebind test.
SlipRcOf(call, ok) ==                    \* failed or not
  IF call = "renew" THEN 2 ELSE IF call = "rebind" THEN 4 ELSE 0
RcOf(call, ok) ==
  CASE call = "begin"  -> 0
    [] call = "renew"  -> IF ok THEN 2 ELSE 1
    [] call = "rebind" -> IF ok THEN 4 ELSE 3

\* The results of checkLease that maintain takes for a new lease.
SlipNewLease == {4}                      \* a renewal brings the old address
NewLease == {2, 4}

Return(call, ok) ==
  /\ spent' = 0 /\ waited' = 0
  /\ rc' = IF call = "renew" THEN RcOf(call, ok) ELSE 0
  /\ pc' = IF call = "renew" THEN "rebind_test" ELSE "idle"
  /\ address' = IF (call = "begin" /\ ok) \/ (call = "rebind" /\ RcOf(call, ok) \in NewLease)
                THEN local' ELSE Cleared(call)

\* request_DHCP_lease up to its loop: without a socket it returns at once, and
\* leaves the state as the caller set it.
StartRequest(call, first) ==
  /\ state' = first
  /\ \E x \in Xids : xid' = x /\ xid0' = x
  /\ \/ /\ pc' = call
        /\ spent' = 0 /\ waited' = 0
        /\ address' = Cleared(call)
        /\ UNCHANGED rc
     \/ Return(call, FALSE)

BeginWithDHCP ==
  /\ pc = "idle"
  /\ local' = NoAddress /\ server' = NoAddress
  /\ lease' = 0 /\ t1' = 0 /\ t2' = 0
  /\ StartRequest("begin", "START")
  /\ held' = 0
  /\ UNCHANGED <<renew, rebind, since, sent, env>>

\* A counter that would run out before the next check of the same length is taken
\* to have run out: early instead of late.
CountDown(n, elapsed) == IF n < elapsed * 2 THEN 0 ELSE n - elapsed

\* _lastCheckLeaseMillis = now - elapsed % 1000.
SlipRemainder == 0                       \* = now
Remainder == since % Sec

\* Not before begin_dhcp, which sets the pointer that maintain calls.
CheckLease ==
  /\ pc = "idle" /\ xid0 # 0
  /\ LET elapsed == since \div Sec IN
       /\ renew'  = IF elapsed >= 1 THEN CountDown(renew, elapsed) ELSE renew
       /\ rebind' = IF elapsed >= 1 THEN CountDown(rebind, elapsed) ELSE rebind
       /\ since'  = IF elapsed >= 1 THEN Remainder ELSE since
  /\ IF renew' = 0 /\ state = "LEASED"
     THEN /\ StartRequest("renew", "REREQUEST")
          /\ held' = 0
     ELSE /\ pc' = "rebind_test"
          /\ rc' = 0
          /\ UNCHANGED <<state, ids, spent, waited, held, address>>
  /\ UNCHANGED <<params, sent, env>>

RebindTest ==
  /\ pc = "rebind_test"
  /\ IF rebind = 0 /\ state \in {"LEASED", "START"}
     THEN /\ local' = NoAddress /\ server' = NoAddress
          /\ StartRequest("rebind", "START")
          /\ held' = 0
     ELSE /\ pc' = "idle"
          /\ address' = IF rc \in NewLease THEN local ELSE address
          /\ rc' = 0
          /\ UNCHANGED <<local, server, state, ids, spent, waited, held>>
  /\ UNCHANGED <<lease, t1, t2, renew, rebind, since, sent, env>>

-----------------------------------------------------------------------------
(* The loop of request_DHCP_lease.                                         *)

\* The end of an iteration whose transaction id is x and last message m: leased, out of
\* time, or once more.
EndIteration(x, m) ==
  /\ IF state' = "LEASED" \/ spent > Timeout
     THEN /\ Return(pc, state' = "LEASED")
          /\ xid' = x + 1 /\ sent' = Nothing
          /\ since' = 0
     ELSE /\ xid' = x /\ sent' = m
          /\ waited' = 0
          /\ UNCHANGED <<pc, rc, address, since, spent>>

SlipSendDiscover ==                      \* the time starts again with every attempt
  /\ pc \in Requests /\ state = "START"
  /\ sent' = Discover(xid + 1)
  /\ xid' = xid + 1
  /\ state' = "DISCOVER"
  /\ spent' = 0 /\ waited' = 0
  /\ UNCHANGED <<pc, xid0, params, timers, rc, address, env>>

\* START: a new transaction.  (Nothing can have timed out within this step.)
SendDiscover ==
  /\ pc \in Requests /\ state = "START"
  /\ sent' = Discover(xid + 1)
  /\ xid' = xid + 1
  /\ state' = "DISCOVER"
  /\ waited' = 0
  /\ UNCHANGED <<pc, xid0, params, timers, rc, address, spent, env>>

\* REREQUEST: the lease held is asked for again.
SendRerequest ==
  /\ pc \in Requests /\ state = "REREQUEST"
  /\ sent' = Request(xid + 1, local, server)
  /\ xid' = xid + 1
  /\ state' = "REQUEST"
  /\ waited' = 0
  /\ UNCHANGED <<pc, xid0, params, timers, rc, address, spent, env>>

\* The server identifier is kept unless it is unset or any octet of it is the
\* sender's: of two servers that share none the client goes on naming the first.
TakesServer(s) ==
  \/ server = NoAddress
  \/ \E i \in 1 .. 4 : Identifier[server][i] = Sender[s][i]

\* The times of a new lease, with the defaults for what is still unset.
TimesOf(l, a, b) ==
  LET term == IF l = 0 THEN DefaultLease ELSE l IN
    [lease |-> term,
     t1 |-> IF a = 0 THEN term \div 2 ELSE a,
     t2 |-> IF b = 0 THEN term - term \div 8 ELSE b]

Brought(option, old) == IF option = 0 THEN old ELSE option

\* One answer.  Of another transaction it is thrown away; else it overwrites the
\* parameters whatever its type (parseDHCPResponse), and then the type counts, if it
\* is one the state waits for.
Ignore ==
  /\ pc \in Requests /\ state \in {"DISCOVER", "REQUEST"}
  /\ \E m \in net : m.xid \notin xid0 .. xid /\ net' = net \ {m}
  /\ UNCHANGED <<state, params, renew, rebind, held, bound, xid0>>
  /\ EndIteration(xid, sent)

Received(m) ==
  LET l == Brought(m.lease, lease)
      a == Brought(m.t1, t1)
      b == Brought(m.t2, t2)
      times == TimesOf(l, a, b)
  IN
  /\ m.xid \in xid0 .. xid
  /\ net' \in {net, net \ {m}}                   \* it may come once more
  /\ local' = YourAddr(m)
  /\ server' = IF TakesServer(m.from) THEN m.from ELSE server
  /\ IF state = "REQUEST" /\ m.type = "ACK"
     THEN /\ state' = "LEASED"
          /\ lease' = times.lease /\ t1' = times.t1 /\ t2' = times.t2
          /\ renew' = times.t1 /\ rebind' = times.t2
     ELSE /\ state' = CASE state = "DISCOVER" /\ m.type = "OFFER" -> "REQUEST"
                        [] state = "REQUEST" /\ m.type = "NAK"    -> "START"
                        [] OTHER -> state
          /\ lease' = l /\ t1' = a /\ t2' = b
          /\ renew' = IF m.lease = 0 THEN renew ELSE m.lease
          /\ UNCHANGED rebind
  /\ IF state = "DISCOVER" /\ m.type = "OFFER"
     THEN EndIteration(m.xid, Request(m.xid, local', server'))
     ELSE EndIteration(xid, sent)

Receive ==
  /\ pc \in Requests /\ state \in {"DISCOVER", "REQUEST"}
  /\ \E m \in net : Received(m)
  /\ UNCHANGED <<xid0, held, bound>>

\* No answer within _responseTimeout: from the start.
ResponseTimeOut ==
  /\ pc \in Requests /\ state \in {"DISCOVER", "REQUEST"}
  /\ waited > ResponseTimeout
  /\ state' = "START"
  /\ UNCHANGED <<xid0, params, renew, rebind, held, env>>
  /\ EndIteration(xid, sent)

-----------------------------------------------------------------------------
(* Time.                                                                   *)

\* While parseDHCPResponse waits.
Wait ==
  /\ pc \in Requests /\ state \in {"DISCOVER", "REQUEST"}
  /\ waited =< ResponseTimeout
  /\ waited' = waited + 1 /\ spent' = spent + 1
  /\ UNCHANGED <<pc, state, ids, params, timers, rc, address, sent, env>>

\* Between the calls.
HalfSecond ==
  /\ pc = "idle" /\ xid0 # 0 /\ since < MaxGap
  /\ since' = since + 1
  /\ held' = IF state = "LEASED" THEN held + 1 ELSE held
  /\ UNCHANGED <<pc, state, ids, params, renew, rebind, rc, address, spent, waited, sent, env>>

-----------------------------------------------------------------------------
LeaseInit ==
  /\ pc = "idle" /\ state = "START"
  /\ xid0 = 0 /\ xid = 0
  /\ local = NoAddress /\ server = NoAddress
  /\ lease = 0 /\ t1 = 0 /\ t2 = 0
  /\ renew = 0 /\ rebind = 0 /\ since = 0 /\ held = 0
  /\ rc = 0 /\ address = NoAddress
  /\ spent = 0 /\ waited = 0
  /\ sent = Nothing
  /\ net = {} /\ bound = {}

Loop == SendDiscover \/ SendRerequest \/ Ignore \/ Receive \/ ResponseTimeOut

LeaseNext ==
  \/ BeginWithDHCP \/ CheckLease \/ RebindTest
  \/ Loop \/ Wait \/ HalfSecond
  \/ (\E s \in Servers : Answer(s)) \/ Lose

LeaseSpec == LeaseInit /\ [][LeaseNext]_leaseVars

\* The processor goes on running, and time goes on while it loops, since no
\* iteration takes none (hence SF: a flood of answers cannot stop the clock);
\* nothing is assumed of the servers, of the network or of how often maintain is
\* called.
LeaseFairSpec ==
  /\ LeaseSpec
  /\ WF_leaseVars(SendDiscover \/ SendRerequest \/ ResponseTimeOut \/ RebindTest)
  /\ SF_leaseVars(Wait)

-----------------------------------------------------------------------------
(* Properties                                                              *)

LeaseTypeOK ==
  /\ pc \in {"idle", "rebind_test"} \cup Requests
  /\ state \in {"START", "DISCOVER", "REQUEST", "REREQUEST", "LEASED"}
  /\ xid0 \in Nat /\ xid \in Nat
  /\ local \in Servers \cup {NoAddress} /\ server \in Servers \cup {NoAddress}
  /\ lease \in Nat /\ t1 \in Nat /\ t2 \in Nat
  /\ renew \in Nat /\ rebind \in Nat
  /\ rc \in 0 .. 4 /\ address \in Servers \cup {NoAddress}
  /\ since \in Nat /\ held \in Nat /\ spent \in Nat /\ waited \in Nat
  /\ sent \in Questions /\ net \subseteq Answers /\ bound \subseteq Servers

\* The W5500's address is always one that a server has granted, although every answer
\* of the transaction, refusals and offers never taken up included, overwrites the
\* client's.
AddressIsGranted == address \in bound \cup {NoAddress}

\* While the client holds a lease, the chip uses the address of that lease, although a
\* renewal may have ended with another server's address, a rebinding may follow a renewal
\* in one check, and begin_dhcp may be called again.
ChipUsesTheLease == pc = "idle" /\ state = "LEASED" => address = local

\* A check that comes T1 seconds or more after the ACK renews, however the checks
\* before it were spaced: the half seconds they did not count are not lost.
RenewNotLate ==
  [][pc = "idle" /\ pc' # "idle" /\ state = "LEASED" /\ held >= Sec * t1
       => state' # "LEASED"]_leaseVars

\* A request for a lease ends, whether or not anybody answers, and however many
\* answers to other requests come in between.
RequestReturns == pc \in Requests ~> pc \notin Requests
=============================================================================
