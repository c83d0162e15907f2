-------------------------------- MODULE Mqtt --------------------------------
(***************************************************************************)
(* The MQTT client (w5500/mqtt/mqtt.c): one session over one TCP           *)
(* connection, kept alive by PINGREQs and polled by the main loop, which   *)
(* reads one packet a poll.                                                *)
(*                                                                         *)
(* A packet is what it does to the session: PUBLISH1 is a PUBLISH of QoS 1 *)
(* (acknowledged), HUGE one longer than the buffer (ignored), OTHER all    *)
(* that only shows the broker alive.  A packet may come in two parts.      *)
(* Times are ages, in ticks, up to one that is beyond keep_alive.  Message *)
(* ids are left out, and so is the size of what is written: CONNECT fits   *)
(* into a new socket's buffer.                                             *)
(*                                                                         *)
(* External: the TCP connection and the broker, which answers a CONNECT    *)
(* with a CONNACK before it sends anything else.                           *)
(***************************************************************************)
EXTENDS Integers, Sequences

CONSTANTS
  KeepAlive,        \* keep_alive
  Pool,             \* pool_ms
  SocketTimeout,    \* MQTT_SOCKET_TIMEOUT
  MaxGap,           \* the main loop: from the end of a poll to the next one
  Prompt,           \* a prompt broker answers a PINGREQ in this time,
  Pause,            \* and sends the rest of a packet in this one
  MaxInbox          \* bound: unread packets, PINGRESPs aside

ASSUME TimesAssumption ==
  /\ KeepAlive \in Nat /\ Pool \in Nat /\ SocketTimeout \in Nat
  /\ MaxGap \in Nat /\ Pool =< MaxGap
  /\ Prompt \in Nat /\ Pause \in Nat /\ Pause < SocketTimeout /\ MaxInbox \in Nat \ {0}
\* A prompt broker's answer is read in time, behind the packets in front of it.
ASSUME PromptAssumption == Prompt + (MaxInbox + 1) * (MaxGap + Pause) =< KeepAlive

Types == {"PINGRESP", "PUBLISH1", "HUGE", "OTHER"}
Packets == [type : Types \cup {"ACCEPT", "REFUSE"}, whole : BOOLEAN]
Activities == [in : Nat, out : Nat, ping : BOOLEAN]
Codes == {"DISCONNECTED", "CONNECTED", "CONNECT_FAILED", "LOST", "TIMEOUT", "REFUSED"}

VARIABLES
  pc,               \* "idle" between calls, or the loop a call waits in
  state,            \* mqtt->_state
  link,             \* the TCP connection; "half": the broker has closed it
  inbox,            \* packets not read
  framed,           \* the next byte to be read begins a packet
  activity,         \* ages of lastInActivity and lastOutActivity, pingOutstanding
  sincePoll,        \* age of last_pool
  timer,            \* time in pc
  owed, waited,     \* the broker: a PINGREQ is to be answered, and for how long
  late,             \* it has left a PINGREQ or the rest of a packet for longer
  unasked,          \* a PINGREQ that counts as sent was not written
  held,             \* a write has kept the main loop from its next poll
  silence           \* time since anything came, without that

Activity(i, o, p) == [in |-> i, out |-> o, ping |-> p]

session == <<state, link, inbox, framed>>
client  == <<unasked, held>>
broker  == <<owed, waited, late, client, silence>>
vars    == <<pc, session, activity, sincePoll, timer, broker>>

\* tcp_client->connected: data of a connection the broker has closed counts.
IsUp == link = "up" \/ (link = "half" /\ inbox # <<>>)

\* tcp_client->stop, with the state the caller has set.
Gone == link' = "none" /\ inbox' = <<>> /\ UNCHANGED framed
Stop(code) == state' = code /\ Gone

\* connected: a lost connection is noticed by whoever asks.
Noticed == IF state = "CONNECTED" THEN "LOST" ELSE state

ToIdle == pc' = "idle" /\ timer' = 0

-----------------------------------------------------------------------------
(* connect                                                                 *)

\* connect_domain has let go of the old connection, and there is no new one.  (The socket
\* whose index the TCP client may keep, and who takes it next, is not in this module.)
ConnectFails ==
  /\ pc = "idle" /\ ~IsUp
  /\ state' = "CONNECT_FAILED" /\ Gone
  /\ UNCHANGED <<pc, activity, sincePoll, timer, broker>>

\* CONNECT is written.
Connect ==
  /\ pc = "idle" /\ ~IsUp
  /\ pc' = "connect" /\ timer' = 0
  /\ state' = Noticed
  /\ link' = "up" /\ inbox' = <<>> /\ framed' = TRUE
  /\ activity' = Activity(0, 0, activity.ping)
  /\ owed' = FALSE /\ waited' = 0 /\ late' = FALSE /\ silence' = 0
  /\ unasked' = FALSE /\ held' = FALSE
  /\ UNCHANGED sincePoll

\* What an accepted CONNECT sets.
SlipAccepted == Activity(0, activity.out, activity.ping)      \* pingOutstanding is left
Accepted == Activity(0, activity.out, FALSE)

ConnectAnswer ==
  /\ pc = "connect" /\ inbox # <<>> /\ Head(inbox).whole
  /\ ToIdle
  /\ IF Head(inbox).type = "ACCEPT"
     THEN /\ state' = "CONNECTED"
          /\ activity' = Accepted
          /\ inbox' = Tail(inbox)
          /\ UNCHANGED <<link, framed>>
     ELSE /\ Stop("REFUSED")
          /\ UNCHANGED activity
  /\ UNCHANGED <<sincePoll, broker>>

\* Nothing has come, or half a packet: then the old state stays.
ConnectTimeOut ==
  /\ pc = "connect" /\ timer >= SocketTimeout
  /\ inbox # <<>> => ~Head(inbox).whole
  /\ ToIdle
  /\ Stop(IF inbox = <<>> THEN "TIMEOUT" ELSE state)
  /\ UNCHANGED <<activity, sincePoll, broker>>

-----------------------------------------------------------------------------
(* loop                                                                    *)

Due == activity.in > KeepAlive \/ activity.out > KeepAlive

SlipUnpinged == Activity(0, 0, FALSE)
Pinged == Activity(0, 0, TRUE)

\* The session after a packet, read by a poll that began t ago.
Handled(a, type, t) ==
  CASE type = "PINGRESP" -> Activity(t, a.out, FALSE)
    [] type = "PUBLISH1" -> Activity(t, t, a.ping)
    [] type = "OTHER"    -> Activity(t, a.out, a.ping)
    [] type = "HUGE"     -> a

\* readPacket where a packet begins: all of it, or the poll waits for the rest.
ReadFramed(a, t) ==
  /\ IF Head(inbox).whole
     THEN /\ activity' = Handled(a, Head(inbox).type, t)
          /\ inbox' = Tail(inbox)
          /\ ToIdle
     ELSE /\ activity' = a
          /\ pc' = "read" /\ timer' = 0
          /\ UNCHANGED inbox
  /\ UNCHANGED <<state, link, framed>>

\* readPacket elsewhere: whatever the bytes happen to say, a length that kills the
\* connection or one that asks for more than there is among it.
ReadMisframed(a, t) ==
  \E n \in 1 .. Len(inbox) :
    \/ /\ \E type \in Types : activity' = Handled(a, type, t)
       /\ inbox' = SubSeq(inbox, n + 1, Len(inbox))
       /\ ToIdle
       /\ UNCHANGED <<state, link, framed>>
    \/ /\ activity' = a
       /\ Stop("DISCONNECTED")
       /\ ToIdle
    \/ /\ n = Len(inbox)
       /\ activity' = a
       /\ inbox' = <<>>
       /\ pc' = "read" /\ timer' = 0
       /\ UNCHANGED <<state, link, framed>>

Read(a, t) == IF framed THEN ReadFramed(a, t) ELSE ReadMisframed(a, t)

\* A poll with nothing to read only counts.
ReadWhatCame(a, t) ==
  IF inbox = <<>>
  THEN activity' = a /\ ToIdle /\ UNCHANGED session
  ELSE Read(a, t)

Poll == pc = "idle" /\ sincePoll >= Pool /\ sincePoll' = 0

LoopLost ==
  /\ Poll /\ ~IsUp
  /\ IF state = "CONNECTED" THEN Stop("LOST") ELSE UNCHANGED session
  /\ ToIdle
  /\ UNCHANGED <<activity, broker>>

LoopTimeOut ==
  /\ Poll /\ IsUp /\ Due /\ activity.ping
  /\ Stop("TIMEOUT")
  /\ ToIdle
  /\ UNCHANGED <<activity, broker>>

\* A PINGREQ that finds no room is not written, and taken for written.
LoopPing ==
  /\ Poll /\ IsUp /\ Due /\ ~activity.ping
  /\ ReadWhatCame(Pinged, 0)
  /\ \/ /\ owed' = TRUE
        /\ UNCHANGED unasked
     \/ /\ unasked' = TRUE
        /\ UNCHANGED owed
  /\ UNCHANGED <<waited, late, held, silence>>

Loop ==
  /\ Poll /\ IsUp /\ ~Due
  /\ ReadWhatCame(activity, 0)
  /\ UNCHANGED broker

\* More has come for a poll that waits in readPacket.
ReadOn ==
  /\ pc = "read" /\ inbox # <<>> /\ (framed => Head(inbox).whole)
  /\ Read(activity, sincePoll)
  /\ UNCHANGED <<sincePoll, broker>>

\* readByte0 gives up.  What is read next begins in the middle of a packet.
ReadTimeOut ==
  /\ pc = "read" /\ timer >= SocketTimeout
  /\ inbox # <<>> => framed /\ ~Head(inbox).whole
  /\ inbox' = <<>>
  /\ framed' = FALSE
  /\ ToIdle
  /\ UNCHANGED <<state, link, activity, sincePoll, broker>>

-----------------------------------------------------------------------------
(* publish, subscribe, unsubscribe and disconnect                          *)

\* They ask connected, and write in a loop that waits for room.
Publish ==
  /\ pc = "idle"
  /\ IF IsUp
     THEN /\ pc' = "write"
          /\ UNCHANGED session
     ELSE /\ IF state = "CONNECTED" THEN Stop("LOST") ELSE UNCHANGED session
          /\ UNCHANGED pc
  /\ UNCHANGED <<activity, sincePoll, timer, broker>>

\* All is written, or the connection went while socketSend wrote.  A connection that went
\* between two of them has no room ever, and the loop need not end: nothing forces this
\* step.
WriteDone ==
  /\ pc = "write"
  /\ pc' = "idle"
  /\ UNCHANGED <<session, activity, sincePoll, timer, broker>>

Disconnect ==
  /\ pc = "idle"
  /\ Stop("DISCONNECTED")
  /\ activity' = Activity(0, 0, activity.ping)
  /\ UNCHANGED <<pc, sincePoll, timer, broker>>

-----------------------------------------------------------------------------
(* The broker and the connection.                                          *)

Packet(type, whole) == [type |-> type, whole |-> whole]

Arrive(p) ==
  /\ link = "up" /\ \A i \in 1 .. Len(inbox) : inbox[i].whole
  /\ inbox' = Append(inbox, p)
  /\ silence' = 0
  /\ UNCHANGED <<pc, state, link, framed, activity, sincePoll, timer, late, client>>

ConnAck ==
  /\ pc = "connect" /\ inbox = <<>>
  /\ \E type \in {"ACCEPT", "REFUSE"}, whole \in BOOLEAN : Arrive(Packet(type, whole))
  /\ UNCHANGED <<owed, waited>>

Send ==
  /\ state = "CONNECTED" /\ pc # "connect"
  /\ Len(inbox) < MaxInbox
  /\ \E type \in Types \ {"PINGRESP"}, whole \in BOOLEAN : Arrive(Packet(type, whole))
  /\ UNCHANGED <<owed, waited>>

PingResp ==
  /\ owed
  /\ Arrive(Packet("PINGRESP", TRUE))
  /\ owed' = FALSE /\ waited' = 0

TheRest ==
  /\ inbox # <<>> /\ link = "up"
  /\ ~inbox[Len(inbox)].whole
  /\ inbox' = [inbox EXCEPT ![Len(inbox)] = Packet(@.type, TRUE)]
  /\ silence' = 0
  /\ UNCHANGED <<pc, state, link, framed, activity, sincePoll, timer, owed, waited, late, client>>

Break ==
  /\ \/ link = "up" /\ link' \in {"half", "lost"}
     \/ link = "half" /\ link' = "lost"
  /\ UNCHANGED <<pc, state, inbox, framed, activity, sincePoll, timer, broker>>

-----------------------------------------------------------------------------
\* A tick.  The main loop comes back to the client in time, unless a write holds it up; a
\* wait ends at its time-out; a broker that leaves a PINGREQ or the rest of a packet for
\* longer is not prompt.  Without a connection only the polls are measured.
Older(age, cap) == IF age < cap THEN age + 1 ELSE age

HeldUp == pc = "write" /\ timer >= MaxGap

Tick ==
  /\ pc = "idle" => timer < MaxGap
  /\ pc \in {"connect", "read"} => timer < SocketTimeout
  /\ timer' = IF HeldUp THEN timer ELSE timer + 1
  /\ sincePoll' = Older(sincePoll, KeepAlive + 1)
  /\ activity' = IF link = "none" THEN activity
                 ELSE Activity(Older(activity.in, KeepAlive + 1),
                               Older(activity.out, KeepAlive + 1), activity.ping)
  /\ waited' = IF owed THEN Older(waited, Prompt + 1) ELSE 0
  /\ late' = (late \/ waited' > Prompt \/ (pc = "read" /\ timer' > Pause))
  /\ held' = (held \/ HeldUp)
  /\ silence' = IF link = "none" THEN 0 ELSE IF HeldUp THEN silence ELSE silence + 1
  /\ UNCHANGED <<pc, session, owed, unasked>>

Init ==
  /\ pc = "idle" /\ state = "DISCONNECTED" /\ link = "none"
  /\ inbox = <<>> /\ framed = TRUE
  /\ activity \in [in : {0}, out : {0}, ping : BOOLEAN]     \* as malloc left it
  /\ sincePoll = 0 /\ timer = 0
  /\ owed = FALSE /\ waited = 0 /\ late = FALSE /\ silence = 0
  /\ unasked = FALSE /\ held = FALSE

Next ==
  \/ ConnectFails \/ Connect \/ ConnectAnswer \/ ConnectTimeOut
  \/ LoopLost \/ LoopTimeOut \/ LoopPing \/ Loop \/ ReadOn \/ ReadTimeOut
  \/ Publish \/ WriteDone \/ Disconnect
  \/ ConnAck \/ Send \/ PingResp \/ TheRest \/ Break
  \/ Tick

Spec == Init /\ [][Next]_vars

-----------------------------------------------------------------------------
(* Properties                                                              *)

TypeOK ==
  /\ pc \in {"idle", "connect", "read", "write"}
  /\ state \in Codes
  /\ link \in {"none", "up", "half", "lost"}
  /\ inbox \in Seq(Packets)
  /\ framed \in BOOLEAN
  /\ activity \in Activities
  /\ sincePoll \in Nat /\ timer \in Nat
  /\ owed \in BOOLEAN /\ waited \in Nat /\ late \in BOOLEAN /\ silence \in Nat
  /\ unasked \in BOOLEAN /\ held \in BOOLEAN

\* A connection that is open between two calls has been accepted by the broker:
\* nothing is ever published on one that was refused or never answered.
OpenMeansAccepted == link # "none" /\ pc # "connect" => state = "CONNECTED"

\* A broker is given up for its silence only when it left a PINGREQ unanswered or a packet
\* unfinished for too long, or when the client is to blame: its PINGREQ found no room and
\* was not written, or a write kept it from reading the answer.  In particular a PINGREQ of
\* an earlier session does not count, nor packets that are read first, one a poll.
PromptBrokerKept ==
  [][state = "CONNECTED" /\ state' = "TIMEOUT" => late \/ unasked \/ held]_vars

\* A broker that has gone silent is noticed: what it had sent is read, a PINGREQ goes
\* out when the keep-alive time is over, and once more that time later the session
\* ends.  Two packets may each hold a poll up for a time-out: one whose rest came while
\* the poll waited for it, and the last.  (What a write holds the main loop up is not
\* counted.)
NoticeBy == 2 * (KeepAlive + MaxGap) + 2 * SocketTimeout + (MaxInbox + 1) * MaxGap
SilentBrokerNoticed == state = "CONNECTED" => silence =< NoticeBy
=============================================================================
