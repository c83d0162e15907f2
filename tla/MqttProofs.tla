----------------------------- MODULE MqttProofs -----------------------------
(***************************************************************************)
(* Proofs about Mqtt for every keep-alive time, distance of polls, depth   *)
(* of the receive buffer and promptness that satisfy its assumptions: the  *)
(* types, what an open connection means, that a broker which answers in    *)
(* time is not given up, and that a silent one is noticed in bounded time. *)
(***************************************************************************)
EXTENDS Mqtt, SequenceTheorems, TLAPS

-----------------------------------------------------------------------------
(* Connections.                                                            *)

\* While a connect waits there is one packet at most, a CONNACK; then there is none.
\* The state is CONNECTED, and packets are there, only with a connection.
ConnInv ==
  /\ pc = "connect" => /\ state # "CONNECTED" /\ framed /\ ~owed
                       /\ Len(inbox) =< 1
                       /\ \A i \in 1 .. Len(inbox) : inbox[i].type \notin Types
  /\ pc # "connect" => \A i \in 1 .. Len(inbox) : inbox[i].type \in Types
  /\ state = "CONNECTED" \/ inbox # <<>> => link # "none"
  /\ OpenMeansAccepted
  /\ ~owed => waited = 0

\* TypeOK in two parts: the flags, and the rest.
Flags ==
  /\ framed \in BOOLEAN /\ owed \in BOOLEAN /\ late \in BOOLEAN
  /\ unasked \in BOOLEAN /\ held \in BOOLEAN
Data ==
  /\ pc \in {"idle", "connect", "read", "write"}
  /\ state \in Codes
  /\ link \in {"none", "up", "half", "lost"}
  /\ inbox \in Seq(Packets)
  /\ activity \in Activities
  /\ sincePoll \in Nat /\ timer \in Nat /\ waited \in Nat /\ silence \in Nat

TypeInv == Data /\ ConnInv

LEMMA TypeParts == TypeOK <=> Flags /\ Data
BY Zenon DEF TypeOK, Flags, Data

\* A sequence of packets loses its first ones.
LEMMA Rest ==
  ASSUME NEW s \in Seq(Packets), s # <<>>
  PROVE  /\ Head(s) \in Packets /\ Head(s) = s[1] /\ 1 \in 1 .. Len(s)
         /\ Tail(s) \in Seq(Packets) /\ Len(Tail(s)) = Len(s) - 1
         /\ \A i \in 1 .. Len(Tail(s)) : Tail(s)[i] = s[i + 1] /\ i + 1 \in 1 .. Len(s)
OBVIOUS

LEMMA Later ==
  ASSUME NEW s \in Seq(Packets), NEW n \in 1 .. Len(s)
  PROVE  /\ SubSeq(s, n + 1, Len(s)) \in Seq(Packets)
         /\ \A i \in 1 .. Len(SubSeq(s, n + 1, Len(s))) :
              /\ n + i \in 1 .. Len(s)
              /\ SubSeq(s, n + 1, Len(s))[i] = s[n + i]
<1>1. \A i \in n + 1 .. Len(s) : s[i] \in Packets
  OBVIOUS
<1>2. /\ SubSeq(s, n + 1, Len(s)) \in Seq(Packets)
      /\ Len(SubSeq(s, n + 1, Len(s))) = IF n + 1 =< Len(s) THEN Len(s) - (n + 1) + 1 ELSE 0
      /\ \A i \in 1 .. Len(s) - (n + 1) + 1 : SubSeq(s, n + 1, Len(s))[i] = s[n + 1 + i - 1]
  BY <1>1, SubSeqProperties
<1> QED BY <1>2

\* Ages are set to other ages.
LEMMA Aged ==
  ASSUME NEW a \in Activities
  PROVE  a.in \in Nat /\ a.out \in Nat /\ \A i, o \in Nat : Activity(i, o, a.ping) \in Activities
BY DEF Activities, Activity

LEMMA AgedFlag ==
  ASSUME NEW i \in Nat, NEW o \in Nat
  PROVE  Activity(i, o, TRUE) \in Activities /\ Activity(i, o, FALSE) \in Activities
BY DEF Activities, Activity

\* The initial states satisfy the invariant.
LEMMA InitTypeInv == Init => Flags /\ TypeInv
<1> SUFFICES ASSUME Init PROVE Flags /\ TypeInv
  OBVIOUS
<1>1. Flags
  BY Zenon DEF Init, Flags
<1>2. Data
  BY DEF Init, Data, Codes, Activities
<1>3. ConnInv
  BY DEF Init, ConnInv, OpenMeansAccepted
<1> QED BY <1>1, <1>2, <1>3 DEF TypeInv

\* A packet keeps the types of the times.
LEMMA HandledType ==
  ASSUME NEW a \in Activities, NEW type \in Types, NEW t \in Nat
  PROVE  Handled(a, type, t) \in Activities
BY Aged, AgedFlag DEF Handled, Types

\* What a read leaves, outside a connect.
LEMMA ReadType ==
  ASSUME TypeInv, pc # "connect", link # "none", inbox # <<>>,
         NEW a \in Activities, NEW t \in Nat, Read(a, t)
  PROVE  /\ pc' \in {"idle", "read"} /\ timer' \in Nat
         /\ activity' \in Activities
         /\ inbox' \in Seq(Packets)
         /\ \A i \in 1 .. Len(inbox') : inbox'[i].type \in Types
         /\ UNCHANGED framed
         /\ \/ UNCHANGED <<state, link>>
            \/ state' = "DISCONNECTED" /\ link' = "none" /\ inbox' = <<>>
<1>1. inbox \in Seq(Packets) /\ \A i \in 1 .. Len(inbox) : inbox[i].type \in Types
  BY DEF TypeInv, Data, ConnInv, Packets
<1>2. CASE framed
  <2>1. Head(inbox).type \in Types
    BY <1>1, Rest
  <2>2. Handled(a, Head(inbox).type, t) \in Activities
    BY <2>1, HandledType
  <2>3. CASE Head(inbox).whole
    <3>1. /\ activity' = Handled(a, Head(inbox).type, t) /\ inbox' = Tail(inbox)
          /\ pc' = "idle" /\ timer' = 0 /\ UNCHANGED <<state, link, framed>>
      BY <1>2, <2>3 DEF Read, ReadFramed, ToIdle
    <3>2. inbox' \in Seq(Packets) /\ \A i \in 1 .. Len(inbox') : inbox'[i].type \in Types
      BY <1>1, <3>1, Rest
    <3> QED BY <2>2, <3>1, <3>2
  <2>4. CASE ~Head(inbox).whole
    BY <1>1, <1>2, <2>4 DEF Read, ReadFramed
  <2> QED BY <2>3, <2>4
<1>3. CASE ~framed
  <2>1. PICK n \in 1 .. Len(inbox) :
          \/ /\ \E type \in Types : activity' = Handled(a, type, t)
             /\ inbox' = SubSeq(inbox, n + 1, Len(inbox))
             /\ ToIdle
             /\ UNCHANGED <<state, link, framed>>
          \/ activity' = a /\ Stop("DISCONNECTED") /\ ToIdle
          \/ /\ activity' = a /\ inbox' = <<>>
             /\ pc' = "read" /\ timer' = 0
             /\ UNCHANGED <<state, link, framed>>
    BY <1>3 DEF Read, ReadMisframed
  <2>2. \A type \in Types : Handled(a, type, t) \in Activities
    BY HandledType
  <2>3. CASE /\ \E type \in Types : activity' = Handled(a, type, t)
             /\ inbox' = SubSeq(inbox, n + 1, Len(inbox))
             /\ ToIdle
             /\ UNCHANGED <<state, link, framed>>
    <3>1. inbox' \in Seq(Packets) /\ \A i \in 1 .. Len(inbox') : inbox'[i].type \in Types
      BY <1>1, <2>3, Later
    <3> QED BY <2>2, <2>3, <3>1 DEF ToIdle
  <2>4. CASE activity' = a /\ Stop("DISCONNECTED") /\ ToIdle
    BY <2>4 DEF ToIdle, Stop, Gone
  <2>5. CASE /\ activity' = a /\ inbox' = <<>>
             /\ pc' = "read" /\ timer' = 0
             /\ UNCHANGED <<state, link, framed>>
    BY <2>5
  <2> QED BY <2>1, <2>3, <2>4, <2>5
<1> QED BY <1>2, <1>3 DEF TypeInv, Data

LEMMA ReadWhatCameType ==
  ASSUME TypeInv, pc = "idle", link # "none",
         NEW a \in Activities, NEW t \in Nat, ReadWhatCame(a, t)
  PROVE  /\ pc' \in {"idle", "read"} /\ timer' \in Nat
         /\ activity' \in Activities
         /\ inbox' \in Seq(Packets)
         /\ \A i \in 1 .. Len(inbox') : inbox'[i].type \in Types
         /\ UNCHANGED framed
         /\ \/ UNCHANGED <<state, link>>
            \/ state' = "DISCONNECTED" /\ link' = "none" /\ inbox' = <<>>
<1>1. CASE inbox = <<>>
  BY <1>1 DEF ReadWhatCame, ToIdle, session, TypeInv, Data, ConnInv
<1>2. CASE inbox # <<>>
  BY <1>2, ReadType DEF ReadWhatCame
<1> QED BY <1>1, <1>2

\* Every step keeps the types and what is known of connections.
LEMMA NextTypeInv == TypeInv /\ [Next]_vars => TypeInv'
<1> SUFFICES ASSUME TypeInv, [Next]_vars PROVE TypeInv'
  OBVIOUS
<1>t. Data /\ ConnInv
  BY DEF TypeInv
<1>u. UNCHANGED vars => TypeInv'
  <2> SUFFICES ASSUME UNCHANGED vars PROVE TypeInv'
    OBVIOUS
  <2>1. Data'
    BY <1>t DEF vars, session, broker, Data
  <2>2. ConnInv'
    BY <1>t DEF vars, session, broker, ConnInv, OpenMeansAccepted
  <2> QED BY <2>1, <2>2 DEF TypeInv
<1>1. CASE ConnectFails
  <2>1. Data'
    BY <1>t, <1>1 DEF ConnectFails, Stop, Gone, broker, Data, Codes
  <2>2. ConnInv'
    BY <1>t, <1>1 DEF ConnectFails, Stop, Gone, broker, ConnInv, OpenMeansAccepted
  <2> QED BY <2>1, <2>2 DEF TypeInv
<1>2. CASE Connect
  <2>1. Data'
    BY <1>t, <1>2, Aged DEF Connect, Noticed, Data, Codes
  <2>2. ConnInv'
    BY <1>t, <1>2 DEF Connect, Noticed, ConnInv, OpenMeansAccepted
  <2> QED BY <2>1, <2>2 DEF TypeInv
<1>3. CASE ConnectAnswer
  <2>0. Tail(inbox) = <<>>
    BY <1>t, <1>3 DEF ConnectAnswer, ConnInv, Data
  <2>1. CASE Head(inbox).type = "ACCEPT"
    <3>1. Accepted \in Activities
      BY <1>t, Aged, AgedFlag DEF Data, Accepted
    <3>2. Data'
      BY <1>t, <1>3, <2>0, <2>1, <3>1 DEF ConnectAnswer, ToIdle, broker, Data, Codes
    <3>3. link # "none"
      BY <1>t, <1>3 DEF ConnectAnswer, ConnInv
    <3>4. ConnInv'
      BY <1>t, <1>3, <2>0, <2>1, <3>3 DEF ConnectAnswer, ToIdle, broker, ConnInv, OpenMeansAccepted
    <3> QED BY <3>2, <3>4 DEF TypeInv
  <2>2. CASE Head(inbox).type # "ACCEPT"
    <3>2. Data'
      BY <1>t, <1>3, <2>2 DEF ConnectAnswer, Stop, Gone, ToIdle, broker, Data, Codes
    <3>4. ConnInv'
      BY <1>t, <1>3, <2>2 DEF ConnectAnswer, Stop, Gone, ToIdle, broker, ConnInv, OpenMeansAccepted
    <3> QED BY <3>2, <3>4 DEF TypeInv
  <2> QED BY <2>1, <2>2
<1>4. CASE ConnectTimeOut
  <2>1. Data'
    BY <1>t, <1>4 DEF ConnectTimeOut, Stop, Gone, ToIdle, broker, Data, Codes
  <2>2. ConnInv'
    BY <1>t, <1>4 DEF ConnectTimeOut, Stop, Gone, ToIdle, broker, ConnInv, OpenMeansAccepted
  <2> QED BY <2>1, <2>2 DEF TypeInv
<1>5. CASE LoopLost
  <2>1. CASE state = "CONNECTED"
    <3>1. Data'
      BY <1>t, <1>5, <2>1 DEF LoopLost, Poll, ToIdle, Stop, Gone, broker, Data, Codes
    <3>2. ConnInv'
      BY <1>t, <1>5, <2>1 DEF LoopLost, Poll, ToIdle, Stop, Gone, broker, ConnInv, OpenMeansAccepted
    <3> QED BY <3>1, <3>2 DEF TypeInv
  <2>2. CASE state # "CONNECTED"
    <3>1. Data'
      BY <1>t, <1>5, <2>2 DEF LoopLost, Poll, ToIdle, session, broker, Data
    <3>2. ConnInv'
      BY <1>t, <1>5, <2>2 DEF LoopLost, Poll, ToIdle, session, broker, ConnInv, OpenMeansAccepted
    <3> QED BY <3>1, <3>2 DEF TypeInv
  <2> QED BY <2>1, <2>2
<1>6. CASE LoopTimeOut
  <2>1. Data'
    BY <1>t, <1>6 DEF LoopTimeOut, Poll, Stop, Gone, ToIdle, broker, Data, Codes
  <2>2. ConnInv'
    BY <1>t, <1>6 DEF LoopTimeOut, Poll, Stop, Gone, ToIdle, broker, ConnInv, OpenMeansAccepted
  <2> QED BY <2>1, <2>2 DEF TypeInv
<1>7. CASE LoopPing
  <2>0. Pinged \in Activities
    BY AgedFlag DEF Pinged
  <2>1. pc = "idle" /\ link # "none" /\ ReadWhatCame(Pinged, 0)
    BY <1>7 DEF LoopPing, Poll, IsUp
  <2>2. /\ pc' \in {"idle", "read"} /\ timer' \in Nat
        /\ activity' \in Activities
        /\ inbox' \in Seq(Packets)
        /\ \A i \in 1 .. Len(inbox') : inbox'[i].type \in Types
        /\ UNCHANGED framed
        /\ \/ UNCHANGED <<state, link>>
           \/ state' = "DISCONNECTED" /\ link' = "none" /\ inbox' = <<>>
    BY <2>0, <2>1, ReadWhatCameType
  <2>3. Data'
    BY <1>t, <1>7, <2>2 DEF LoopPing, Poll, Data, Codes
  <2>4. ConnInv'
    BY <1>t, <1>7, <2>1, <2>2 DEF LoopPing, Poll, ConnInv, OpenMeansAccepted
  <2> QED BY <2>3, <2>4 DEF TypeInv
<1>8. CASE Loop
  <2>0. activity \in Activities
    BY <1>t DEF Data
  <2>1. pc = "idle" /\ link # "none" /\ ReadWhatCame(activity, 0)
    BY <1>8 DEF Loop, Poll, IsUp
  <2>2. /\ pc' \in {"idle", "read"} /\ timer' \in Nat
        /\ activity' \in Activities
        /\ inbox' \in Seq(Packets)
        /\ \A i \in 1 .. Len(inbox') : inbox'[i].type \in Types
        /\ UNCHANGED framed
        /\ \/ UNCHANGED <<state, link>>
           \/ state' = "DISCONNECTED" /\ link' = "none" /\ inbox' = <<>>
    BY <2>0, <2>1, ReadWhatCameType
  <2>3. Data'
    BY <1>t, <1>8, <2>2 DEF Loop, Poll, broker, Data, Codes
  <2>4. ConnInv'
    BY <1>t, <1>8, <2>1, <2>2 DEF Loop, Poll, broker, ConnInv, OpenMeansAccepted
  <2> QED BY <2>3, <2>4 DEF TypeInv
<1>9. CASE ReadOn
  <2>0. activity \in Activities /\ sincePoll \in Nat
    BY <1>t DEF Data
  <2>1. pc # "connect" /\ link # "none" /\ inbox # <<>> /\ Read(activity, sincePoll)
    BY <1>t, <1>9 DEF ReadOn, ConnInv
  <2>2. /\ pc' \in {"idle", "read"} /\ timer' \in Nat
        /\ activity' \in Activities
        /\ inbox' \in Seq(Packets)
        /\ \A i \in 1 .. Len(inbox') : inbox'[i].type \in Types
        /\ UNCHANGED framed
        /\ \/ UNCHANGED <<state, link>>
           \/ state' = "DISCONNECTED" /\ link' = "none" /\ inbox' = <<>>
    BY <2>0, <2>1, ReadType
  <2>3. Data'
    BY <1>t, <1>9, <2>2 DEF ReadOn, broker, Data, Codes
  <2>4. ConnInv'
    BY <1>t, <1>9, <2>2 DEF ReadOn, broker, ConnInv, OpenMeansAccepted
  <2> QED BY <2>3, <2>4 DEF TypeInv
<1>10. CASE ReadTimeOut
  <2>1. Data'
    BY <1>t, <1>10 DEF ReadTimeOut, ToIdle, broker, Data, Codes
  <2>2. ConnInv'
    BY <1>t, <1>10 DEF ReadTimeOut, ToIdle, broker, ConnInv, OpenMeansAccepted
  <2> QED BY <2>1, <2>2 DEF TypeInv
<1>11. CASE Publish
  <2>1. CASE ~IsUp /\ state = "CONNECTED"
    <3>1. Data'
      BY <1>t, <1>11, <2>1 DEF Publish, Stop, Gone, broker, Data, Codes
    <3>2. ConnInv'
      BY <1>t, <1>11, <2>1 DEF Publish, Stop, Gone, broker, ConnInv, OpenMeansAccepted
    <3> QED BY <3>1, <3>2 DEF TypeInv
  <2>2. CASE IsUp \/ state # "CONNECTED"
    <3>0. /\ pc = "idle" /\ pc' \in {"idle", "write"} /\ UNCHANGED session
          /\ UNCHANGED <<activity, sincePoll, timer, broker>>
      BY <1>11, <2>2 DEF Publish
    <3>1. Data'
      BY <1>t, <3>0 DEF session, broker, Data
    <3>2. ConnInv'
      BY <1>t, <3>0 DEF session, broker, ConnInv, OpenMeansAccepted
    <3> QED BY <3>1, <3>2 DEF TypeInv
  <2> QED BY <2>1, <2>2
<1>12. CASE WriteDone
  <2>1. Data'
    BY <1>t, <1>12 DEF WriteDone, session, broker, Data, Codes
  <2>2. ConnInv'
    BY <1>t, <1>12 DEF WriteDone, session, broker, ConnInv, OpenMeansAccepted
  <2> QED BY <2>1, <2>2 DEF TypeInv
<1>13. CASE Disconnect
  <2>1. Data'
    BY <1>t, <1>13, Aged DEF Disconnect, Stop, Gone, broker, Data, Codes
  <2>2. ConnInv'
    BY <1>t, <1>13 DEF Disconnect, Stop, Gone, broker, ConnInv, OpenMeansAccepted
  <2> QED BY <2>1, <2>2 DEF TypeInv
<1>14. CASE ConnAck
  <2>0. PICK type \in {"ACCEPT", "REFUSE"}, whole \in BOOLEAN : Arrive(Packet(type, whole))
    BY <1>14 DEF ConnAck
  <2>a. Packet(type, whole) \in Packets /\ Packet(type, whole).type = type
    BY DEF Packet, Packets, Types
  <2>1. Data'
    BY <1>t, <1>14, <2>0, <2>a DEF ConnAck, Arrive, Data
  <2>2. ConnInv'
    BY <1>t, <1>14, <2>0, <2>a DEF ConnAck, Arrive, Data, Types, ConnInv, OpenMeansAccepted
  <2> QED BY <2>1, <2>2 DEF TypeInv
<1>15. CASE Send
  <2>0. PICK type \in Types \ {"PINGRESP"}, whole \in BOOLEAN : Arrive(Packet(type, whole))
    BY <1>15 DEF Send
  <2>a. Packet(type, whole) \in Packets /\ Packet(type, whole).type = type
    BY DEF Packet, Packets, Types
  <2>1. Data'
    BY <1>t, <1>15, <2>0, <2>a DEF Send, Arrive, Data
  <2>2. ConnInv'
    BY <1>t, <1>15, <2>0, <2>a DEF Send, Arrive, Data, Types, ConnInv, OpenMeansAccepted
  <2> QED BY <2>1, <2>2 DEF TypeInv
<1>16. CASE PingResp
  <2>a. Packet("PINGRESP", TRUE) \in Packets /\ Packet("PINGRESP", TRUE).type = "PINGRESP"
    BY DEF Packet, Packets, Types
  <2>b. PICK p \in Packets :
          /\ p.type = "PINGRESP"
          /\ link = "up" /\ inbox' = Append(inbox, p) /\ silence' = 0
          /\ UNCHANGED <<pc, state, link, framed, activity, sincePoll, timer>>
          /\ waited' = 0 /\ pc # "connect"
    BY <1>t, <1>16, <2>a DEF PingResp, Arrive, ConnInv
  <2>1. Data'
    BY <1>t, <2>b DEF Data
  <2>2. ConnInv'
    BY <1>t, <2>b DEF Data, Types, ConnInv, OpenMeansAccepted
  <2> QED BY <2>1, <2>2 DEF TypeInv
<1>17. CASE TheRest
  <2>0. /\ inbox' \in Seq(Packets) /\ Len(inbox') = Len(inbox)
        /\ \A i \in 1 .. Len(inbox) : inbox'[i].type = inbox[i].type
    <3>1. \A i \in 1 .. Len(inbox) : inbox[i] \in Packets
      BY <1>t DEF Data
    <3>2. \A p \in Packets : Packet(p.type, TRUE) \in Packets /\ Packet(p.type, TRUE).type = p.type
      BY DEF Packets, Packet
    <3>3. inbox \in Seq(Packets) /\ Len(inbox) \in 1 .. Len(inbox)
      BY <1>t, <1>17 DEF TheRest, Data
    <3>4. PICK p \in Packets : /\ p.type = inbox[Len(inbox)].type
                               /\ inbox' = [inbox EXCEPT ![Len(inbox)] = p]
      BY <1>17, <3>1, <3>2, <3>3 DEF TheRest
    <3> QED BY <3>1, <3>3, <3>4
  <2>1. Data'
    BY <1>t, <1>17, <2>0 DEF TheRest, Data
  <2>2. ConnInv'
    BY <1>t, <1>17, <2>0 DEF TheRest, ConnInv, OpenMeansAccepted
  <2> QED BY <2>1, <2>2 DEF TypeInv
<1>18. CASE Break
  <2>1. Data'
    BY <1>t, <1>18 DEF Break, broker, Data, Codes
  <2>2. ConnInv'
    BY <1>t, <1>18 DEF Break, broker, ConnInv, OpenMeansAccepted
  <2> QED BY <2>1, <2>2 DEF TypeInv
<1>19. CASE Tick
  <2>0. activity' \in Activities
    <3>1. activity \in Activities
      BY <1>t DEF Data
    <3>2. \A n \in Nat : Older(n, KeepAlive + 1) \in Nat
      BY TimesAssumption DEF Older
    <3>3. /\ activity.in \in Nat /\ activity.out \in Nat
          /\ \A i, o \in Nat : Activity(i, o, activity.ping) \in Activities
      BY <3>1, Aged
    <3>4. \/ UNCHANGED activity
          \/ activity' = Activity(Older(activity.in, KeepAlive + 1),
                                  Older(activity.out, KeepAlive + 1), activity.ping)
      BY <1>19 DEF Tick
    <3> QED BY <3>1, <3>2, <3>3, <3>4
  <2>1. Data'
    BY <1>t, <1>19, <2>0, TimesAssumption DEF Tick, Older, session, Data
  <2>2. ConnInv'
    BY <1>t, <1>19 DEF Tick, session, ConnInv, OpenMeansAccepted
  <2> QED BY <2>1, <2>2 DEF TypeInv
<1> QED
  BY <1>u, <1>1, <1>2, <1>3, <1>4, <1>5, <1>6, <1>7, <1>8, <1>9, <1>10, <1>11, <1>12, <1>13,
     <1>14, <1>15, <1>16, <1>17, <1>18, <1>19 DEF Next

\* Every step keeps the flags.
LEMMA NextFlags == Flags /\ [Next]_vars => Flags'
<1> SUFFICES ASSUME Flags, [Next]_vars PROVE Flags'
  OBVIOUS
<1>1. UNCHANGED vars => Flags'
  BY Zenon DEF vars, session, broker, client, Flags
<1>2. ConnectFails \/ Connect \/ ConnectAnswer \/ ConnectTimeOut => Flags'
  BY Zenon DEF ConnectFails, Connect, ConnectAnswer, ConnectTimeOut, Stop, Gone, broker, client, Flags
<1>3. LoopLost \/ LoopTimeOut => Flags'
  BY Zenon DEF LoopLost, LoopTimeOut, Stop, Gone, session, broker, client, Flags
<1>4. \A a, t : Read(a, t) => UNCHANGED framed
  BY Zenon DEF Read, ReadFramed, ReadMisframed, Stop, Gone
<1>5. \A a, t : ReadWhatCame(a, t) => UNCHANGED framed
  BY <1>4, Zenon DEF ReadWhatCame, session
<1>6. LoopPing \/ Loop \/ ReadOn \/ ReadTimeOut => Flags'
  BY <1>4, <1>5, Zenon DEF LoopPing, Loop, ReadOn, ReadTimeOut, broker, client, Flags
<1>7. Publish \/ WriteDone \/ Disconnect => Flags'
  BY Zenon DEF Publish, WriteDone, Disconnect, Stop, Gone, session, broker, client, Flags
<1>8. ConnAck \/ Send \/ PingResp \/ TheRest \/ Break => Flags'
  BY Zenon DEF ConnAck, Send, PingResp, TheRest, Break, Arrive, broker, client, Flags
<1>9. Tick => Flags'
  <2>1. Tick => /\ UNCHANGED <<framed, owed, unasked>>
                /\ late' = (late \/ waited' > Prompt \/ (pc = "read" /\ timer' > Pause))
                /\ held' = (held \/ HeldUp)
    BY Zenon DEF Tick, session
  <2> QED BY <2>1, Zenon DEF Flags
<1> QED BY <1>1, <1>2, <1>3, <1>6, <1>7, <1>8, <1>9, Zenon DEF Next

\* Every variable of the client has its type.
THEOREM TypeCorrect == Spec => []TypeOK
<1>1. Flags /\ TypeInv => TypeOK
  BY TypeParts DEF TypeInv
<1> QED BY <1>1, InitTypeInv, NextTypeInv, NextFlags, PTL DEF Spec

\* An open connection has been accepted (mqtt.c 345-365 closes every other one).
THEOREM OpenAlwaysAccepted == Spec => []OpenMeansAccepted
<1>1. TypeInv => OpenMeansAccepted
  BY DEF TypeInv, ConnInv
<1> QED BY <1>1, InitTypeInv, NextTypeInv, PTL DEF Spec

-----------------------------------------------------------------------------
(* A prompt broker is kept.                                                *)

IsAnswer(j) == j \in 1 .. Len(inbox) /\ inbox[j].type = "PINGRESP"

\* Nothing is older than this when the PINGRESP is in place j: the broker has taken no
\* more than Prompt, and every packet that was in front of it a distance of polls and a
\* pause.
Turn == MaxGap + Pause
Before(j) == (MaxInbox + 1 - j) * Turn
Age(j) == Prompt + Before(j) + timer + (IF pc = "read" THEN MaxGap ELSE 0)

Unasked  == ~activity.ping => ~owed /\ \A j \in 1 .. Len(inbox) : ~IsAnswer(j)
Asked    == owed => /\ activity.ping
                    /\ activity.in =< waited /\ activity.out =< waited /\ waited =< Prompt
                    /\ \A j \in 1 .. Len(inbox) : ~IsAnswer(j)
Answered == activity.ping /\ ~owed =>
              \E j \in 1 .. MaxInbox + 1 :
                IsAnswer(j) /\ activity.in =< Age(j) /\ activity.out =< Age(j)
Room     == /\ Len(inbox) =< MaxInbox + 1
            /\ Len(inbox) =< MaxInbox \/ \E j \in 1 .. Len(inbox) : IsAnswer(j)
            /\ \A i, j \in 1 .. Len(inbox) : IsAnswer(i) /\ IsAnswer(j) => i = j
InTime   == framed /\ (pc = "read" => /\ timer =< Pause /\ sincePoll = timer
                                      /\ owed => sincePoll =< waited)
Kept     == Unasked /\ Asked /\ Answered /\ Room /\ InTime

TimerInv  == pc \in {"idle", "write"} => timer =< MaxGap
Excused   == late \/ unasked \/ held
PromptInv == TimerInv /\ (state = "CONNECTED" /\ ~Excused => Kept)

LEMMA BeforeStep ==
  ASSUME NEW j \in 1 .. MaxInbox + 1
  PROVE  /\ Before(j) \in Nat
         /\ j > 1 => Before(j - 1) = Before(j) + Turn
         /\ Prompt + Before(j) + Turn =< KeepAlive
<1>1. MaxInbox \in Nat /\ Turn \in Nat /\ Prompt \in Nat /\ KeepAlive \in Nat
  BY TimesAssumption DEF Turn
<1>2. MaxInbox + 1 - j \in Nat /\ MaxInbox + 1 - j =< MaxInbox
  BY <1>1
<1>3. \A m, n, g \in Nat : m * g \in Nat /\ (m + 1) * g = m * g + g /\ (m =< n => m * g =< n * g)
  OBVIOUS
<1>4. Before(j) \in Nat /\ Before(j) =< MaxInbox * Turn
  BY <1>1, <1>2, <1>3 DEF Before
<1>5. j > 1 => Before(j - 1) = Before(j) + Turn
  <2>1. MaxInbox + 1 - (j - 1) = (MaxInbox + 1 - j) + 1
    BY <1>1
  <2> QED BY <1>1, <1>2, <1>3, <2>1 DEF Before
<1>6. (MaxInbox + 1) * Turn = MaxInbox * Turn + Turn
  BY <1>1, <1>3
<1>7. MaxInbox * Turn \in Nat
  BY <1>1, <1>3
<1>8. Prompt + (MaxInbox + 1) * Turn =< KeepAlive
  BY PromptAssumption DEF Turn
<1> QED BY <1>1, <1>4, <1>5, <1>6, <1>7, <1>8

\* What does not move the session, the broker's debt and the clock moves nothing.
LEMMA SameKept ==
  ASSUME Kept, UNCHANGED <<inbox, framed, activity, sincePoll, timer, owed, waited>>,
         pc' = pc \/ (pc # "read" /\ pc' # "read")
  PROVE  Kept'
<1>1. \A j : IsAnswer(j)' = IsAnswer(j) /\ Age(j)' = Age(j)
  BY DEF IsAnswer, Age, Before
<1> QED BY <1>1 DEF Kept, Unasked, Asked, Answered, Room, InTime

\* The distance of polls.
LEMMA NextTimer == TypeInv /\ TimerInv /\ [Next]_vars => TimerInv'
<1> SUFFICES ASSUME TypeInv, TimerInv, [Next]_vars PROVE TimerInv'
  OBVIOUS
<1> USE TimesAssumption DEF TypeInv, Data, TimerInv
<1>1. UNCHANGED vars => TimerInv'
  BY DEF vars
<1>2. ConnectFails \/ Connect \/ ConnectAnswer \/ ConnectTimeOut => TimerInv'
  BY DEF ConnectFails, Connect, ConnectAnswer, ConnectTimeOut, ToIdle
<1>3. LoopLost \/ LoopTimeOut \/ ReadTimeOut => TimerInv'
  BY DEF LoopLost, LoopTimeOut, ReadTimeOut, ToIdle
<1>4. \A a, t : Read(a, t) => timer' = 0
  BY DEF Read, ReadFramed, ReadMisframed, ToIdle
<1>5. \A a, t : ReadWhatCame(a, t) => timer' = 0
  BY <1>4 DEF ReadWhatCame, ToIdle
<1>6. LoopPing \/ Loop \/ ReadOn => TimerInv'
  BY <1>4, <1>5 DEF LoopPing, Loop, ReadOn
<1>7. Publish \/ WriteDone \/ Disconnect => TimerInv'
  BY DEF Publish, WriteDone, Disconnect
<1>8. ConnAck \/ Send \/ PingResp \/ TheRest \/ Break => TimerInv'
  BY DEF ConnAck, Send, PingResp, TheRest, Break, Arrive
<1>9. Tick => TimerInv'
  <2> SUFFICES ASSUME Tick PROVE TimerInv'
    OBVIOUS
  <2>1. pc' = pc /\ timer' = (IF HeldUp THEN timer ELSE timer + 1) /\ (pc = "idle" => timer < MaxGap)
    BY DEF Tick
  <2> QED BY <2>1 DEF HeldUp
<1> QED BY <1>1, <1>2, <1>3, <1>6, <1>7, <1>8, <1>9 DEF Next

\* A packet of a framed stream, by type.
LEMMA HandledKept ==
  ASSUME NEW a \in Activities, NEW type \in Types, NEW t \in Nat
  PROVE  /\ type = "PINGRESP" => ~Handled(a, type, t).ping
         /\ type # "PINGRESP" => /\ Handled(a, type, t).ping = a.ping
                                /\ Handled(a, type, t).in \in {a.in, t}
                                /\ Handled(a, type, t).out \in {a.out, t}
<1>1. \A i, o, p : /\ Activity(i, o, p).in = i /\ Activity(i, o, p).out = o
                  /\ Activity(i, o, p).ping = p
  BY DEF Activity
<1>2. CASE type = "PINGRESP"
  BY <1>1, <1>2 DEF Handled
<1>3. CASE type = "PUBLISH1"
  BY <1>1, <1>3 DEF Handled
<1>4. CASE type = "OTHER"
  BY <1>1, <1>4 DEF Handled
<1>5. CASE type = "HUGE"
  BY <1>5 DEF Handled
<1> QED BY <1>2, <1>3, <1>4, <1>5 DEF Types

\* A read of the first packet brings the answer one place nearer, or is the answer.
LEMMA ReadKept ==
  ASSUME TypeInv, Kept, inbox # <<>>, NEW t \in Nat, ReadFramed(activity, t),
         \/ pc = "idle" /\ timer =< MaxGap /\ t = 0 /\ sincePoll' = 0
         \/ pc = "read" /\ t = sincePoll /\ sincePoll' = sincePoll /\ Head(inbox).whole,
         UNCHANGED <<owed, waited>>
  PROVE  Kept'
<1>1. /\ inbox \in Seq(Packets) /\ activity \in Activities /\ waited \in Nat /\ timer \in Nat
      /\ MaxInbox \in Nat /\ MaxGap \in Nat /\ Prompt \in Nat /\ Pause \in Nat
      /\ pc # "connect"
  BY TimesAssumption DEF TypeInv, Data
<1>2. Head(inbox).type \in Types /\ Head(inbox) = inbox[1] /\ 1 \in 1 .. Len(inbox)
  BY <1>1, Rest DEF TypeInv, ConnInv
<1>a. activity.in \in Nat /\ activity.out \in Nat
  BY <1>1, Aged
<1>f. framed /\ framed'
  BY DEF Kept, InTime, ReadFramed
\* The time a packet sets is no more than the pause, and than a broker that owes has had.
<1>b. t =< Pause /\ (owed => t =< waited)
  BY <1>1 DEF Kept, InTime
<1>3. CASE Head(inbox).whole
  <2>1. /\ activity' = Handled(activity, Head(inbox).type, t)
        /\ inbox' = Tail(inbox) /\ pc' = "idle" /\ timer' = 0
    BY <1>3 DEF ReadFramed, ToIdle
  <2>2. /\ Len(inbox') = Len(inbox) - 1
        /\ \A j : IsAnswer(j)' => IsAnswer(j + 1) /\ j + 1 # 1
        /\ \A j : IsAnswer(j) /\ j # 1 => IsAnswer(j - 1)'
    BY <1>1, <2>1, Rest DEF IsAnswer
  <2>i. InTime'
    BY <1>f, <2>1 DEF InTime
  <2>3. CASE IsAnswer(1)
    <3>1. ~activity'.ping
      BY <1>1, <1>2, <2>1, <2>3, HandledKept DEF IsAnswer
    <3>2. ~owed'
      BY <1>2, <2>3 DEF Kept, Asked
    <3>3. \A j : ~IsAnswer(j)'
      <4> SUFFICES ASSUME NEW j, IsAnswer(j)' PROVE FALSE
        OBVIOUS
      <4>1. IsAnswer(j + 1) /\ j + 1 # 1
        BY <2>2
      <4> QED BY <2>3, <4>1 DEF Kept, Room, IsAnswer
    <3>4. Len(inbox') =< MaxInbox
      BY <1>1, <2>2 DEF Kept, Room
    <3>5. Room'
      BY <1>1, <3>3, <3>4 DEF Room
    <3> QED BY <2>i, <3>1, <3>2, <3>3, <3>5 DEF Kept, Unasked, Asked, Answered
  <2>4. CASE ~IsAnswer(1)
    <3>1. /\ activity'.ping = activity.ping
          /\ activity'.in \in {activity.in, t} /\ activity'.out \in {activity.out, t}
      BY <1>1, <1>2, <2>1, <2>4, HandledKept DEF IsAnswer
    <3>2. (\A j \in 1 .. Len(inbox) : ~IsAnswer(j)) => (\A j \in 1 .. Len(inbox') : ~IsAnswer(j)')
      BY <2>2 DEF IsAnswer
    <3>3. Unasked'
      BY <3>1, <3>2 DEF Kept, Unasked
    <3>4. Asked'
      BY <1>1, <1>a, <1>b, <3>1, <3>2 DEF Kept, Asked
    <3>5. Answered'
      <4> SUFFICES ASSUME activity'.ping, ~owed'
                   PROVE  \E j \in 1 .. MaxInbox + 1 :
                            IsAnswer(j)' /\ activity'.in =< Age(j)' /\ activity'.out =< Age(j)'
        BY DEF Answered, IsAnswer, Age, Before
      <4>1. PICK j \in 1 .. MaxInbox + 1 :
              IsAnswer(j) /\ activity.in =< Age(j) /\ activity.out =< Age(j)
        BY <3>1 DEF Kept, Answered
      <4>2. j > 1 /\ IsAnswer(j - 1)' /\ j - 1 \in 1 .. MaxInbox + 1
        BY <1>1, <2>2, <2>4, <4>1
      <4>3. Before(j) \in Nat /\ Before(j - 1) = Before(j) + Turn
        BY <4>2, BeforeStep
      <4>4. Age(j - 1)' = Prompt + Before(j) + MaxGap + Pause
        <5>1. \A i : Before(i)' = Before(i)
          BY DEF Before, Turn
        <5>2. Age(j - 1)' = Prompt + Before(j - 1) + 0 + 0
          BY <2>1, <5>1 DEF Age
        <5> QED BY <1>1, <4>2, <4>3, <5>2 DEF Turn
      <4>5. Age(j) =< Age(j - 1)' /\ Age(j) \in Nat /\ t =< Age(j - 1)' /\ Age(j - 1)' \in Nat
        <5>1. \/ pc = "idle" /\ timer =< MaxGap
              \/ pc = "read" /\ timer =< Pause
          BY DEF Kept, InTime
        <5>2. Age(j) = Prompt + Before(j) + timer + (IF pc = "read" THEN MaxGap ELSE 0)
          BY DEF Age
        <5> QED BY <1>1, <1>b, <4>3, <4>4, <5>1, <5>2
      <4>6. activity'.in =< Age(j - 1)' /\ activity'.out =< Age(j - 1)'
        BY <1>a, <3>1, <4>1, <4>5
      <4> QED BY <4>2, <4>6
    <3>6. Room'
      <4>1. Len(inbox') =< MaxInbox + 1
        BY <1>1, <2>2 DEF Kept, Room
      <4>2. Len(inbox') =< MaxInbox \/ \E j \in 1 .. Len(inbox') : IsAnswer(j)'
        <5> SUFFICES ASSUME ~(Len(inbox') =< MaxInbox) PROVE \E j \in 1 .. Len(inbox') : IsAnswer(j)'
          OBVIOUS
        <5>1. FALSE
          BY <1>1, <2>2, <4>1 DEF Kept, Room
        <5> QED BY <5>1
      <4>3. ASSUME NEW i, NEW j, IsAnswer(i)', IsAnswer(j)' PROVE i = j
        <5>1. IsAnswer(i + 1) /\ IsAnswer(j + 1)
          BY <2>2, <4>3
        <5>2. i + 1 = j + 1
          BY <5>1 DEF Kept, Room, IsAnswer
        <5>3. i \in Int /\ j \in Int
          BY <4>3 DEF IsAnswer
        <5> QED BY <5>2, <5>3
      <4> QED BY <4>1, <4>2, <4>3 DEF Room
    <3> QED BY <2>i, <3>3, <3>4, <3>5, <3>6 DEF Kept
  <2> QED BY <2>3, <2>4
<1>4. CASE ~Head(inbox).whole
  <2>1. /\ UNCHANGED <<activity, inbox>> /\ pc' = "read" /\ timer' = 0
        /\ pc = "idle" /\ timer =< MaxGap /\ sincePoll' = 0
    BY <1>4 DEF ReadFramed
  <2>2. \A j : IsAnswer(j)' = IsAnswer(j)
    BY <2>1 DEF IsAnswer
  <2>3. Unasked' /\ Asked' /\ Room'
    BY <2>1, <2>2 DEF Kept, Unasked, Asked, Room
  <2>4. \A j \in 1 .. MaxInbox + 1 : Age(j)' = Prompt + Before(j) + MaxGap
    BY <1>1, <2>1, BeforeStep DEF Age, Before
  <2>5. \A j \in 1 .. MaxInbox + 1 : Age(j) =< Age(j)' /\ Age(j) \in Nat /\ Age(j)' \in Nat
    BY <1>1, <2>1, <2>4, BeforeStep DEF Age
  <2>6. Answered'
    BY <1>1, <1>a, <2>1, <2>2, <2>5 DEF Kept, Answered
  <2>7. InTime'
    BY <1>1, <1>f, <2>1 DEF InTime
  <2> QED BY <2>3, <2>6, <2>7 DEF Kept
<1> QED BY <1>3, <1>4

\* A poll that sends a PINGREQ: the broker owes the answer.
LEMMA PingKept ==
  ASSUME TypeInv, Kept, ~activity.ping, pc = "idle", sincePoll' = 0, owed', waited' = waited,
         ReadWhatCame(Pinged, 0)
  PROVE  Kept'
<1>1. /\ inbox \in Seq(Packets) /\ waited \in Nat /\ Prompt \in Nat /\ MaxInbox \in Nat
      /\ Pause \in Nat
  BY TimesAssumption DEF TypeInv, Data
<1>2. ~owed /\ waited = 0 /\ (\A j : ~IsAnswer(j)) /\ framed
  BY DEF Kept, Unasked, InTime, TypeInv, ConnInv, IsAnswer
<1>3. Pinged.in = 0 /\ Pinged.out = 0 /\ Pinged.ping /\ Pinged \in Activities
  BY AgedFlag DEF Pinged, Activity
<1>4. Len(inbox) =< MaxInbox
  BY <1>2 DEF Kept, Room
<1>5. /\ activity'.ping /\ activity'.in = 0 /\ activity'.out = 0
      /\ (\A j : ~IsAnswer(j)') /\ Len(inbox') =< MaxInbox
      /\ framed' /\ timer' = 0
  <2>1. CASE inbox = <<>>
    BY <1>2, <1>3, <1>4, <2>1 DEF ReadWhatCame, session, ToIdle, IsAnswer
  <2>2. CASE inbox # <<>> /\ Head(inbox).whole
    <3>1. /\ activity' = Handled(Pinged, Head(inbox).type, 0)
          /\ inbox' = Tail(inbox) /\ timer' = 0 /\ UNCHANGED framed
      BY <1>2, <2>2 DEF ReadWhatCame, Read, ReadFramed, ToIdle
    <3>2. Head(inbox).type \in Types /\ Head(inbox).type # "PINGRESP"
      BY <1>1, <1>2, <2>2, Rest DEF TypeInv, ConnInv, IsAnswer
    <3>3. activity'.ping /\ activity'.in = 0 /\ activity'.out = 0
      BY <1>3, <3>1, <3>2, HandledKept
    <3>4. Len(inbox') = Len(inbox) - 1 /\ \A j : IsAnswer(j)' => IsAnswer(j + 1)
      BY <1>1, <2>2, <3>1, Rest DEF IsAnswer
    <3> QED BY <1>1, <1>2, <1>4, <3>1, <3>3, <3>4
  <2>3. CASE inbox # <<>> /\ ~Head(inbox).whole
    BY <1>2, <1>3, <1>4, <2>3 DEF ReadWhatCame, Read, ReadFramed, IsAnswer
  <2> QED BY <2>1, <2>2, <2>3
<1>6. Unasked' /\ Asked' /\ Answered'
  BY <1>1, <1>2, <1>5 DEF Unasked, Asked, Answered
<1>7. Room'
  BY <1>1, <1>5 DEF Room
<1>8. InTime'
  BY <1>1, <1>5 DEF InTime
<1> QED BY <1>6, <1>7, <1>8 DEF Kept

\* Every step keeps what is known of a prompt broker's answer.
LEMMA NextPromptInv == TypeInv /\ PromptInv /\ [Next]_vars => PromptInv'
<1> SUFFICES ASSUME TypeInv, PromptInv, [Next]_vars, state' = "CONNECTED", ~Excused'
             PROVE  Kept'
  BY NextTimer DEF PromptInv
<1>t. Data /\ ConnInv /\ TimerInv /\ (state = "CONNECTED" /\ ~Excused => Kept)
  BY DEF TypeInv, PromptInv
<1>e. ~late' /\ ~unasked' /\ ~held' /\ (UNCHANGED <<late, client>> => ~Excused)
  BY DEF Excused, client
<1>n. /\ MaxInbox \in Nat /\ MaxGap \in Nat /\ Prompt \in Nat /\ KeepAlive \in Nat /\ Pause \in Nat
      /\ inbox \in Seq(Packets) /\ waited \in Nat /\ timer \in Nat
      /\ activity \in Activities /\ activity.in \in Nat /\ activity.out \in Nat
  BY <1>t, TimesAssumption, Aged DEF Data
<1>0. CASE UNCHANGED vars
  BY <1>0, <1>e, <1>t, SameKept DEF vars, session, broker
<1>1. CASE ConnectFails \/ Connect \/ ConnectTimeOut \/ LoopTimeOut \/ Disconnect
  BY <1>1, <1>t DEF ConnectFails, Connect, ConnectTimeOut, LoopTimeOut, Disconnect,
       Stop, Gone, Noticed, Poll, ConnInv
<1>r. CASE ReadTimeOut
  BY <1>e, <1>n, <1>r, <1>t, TimesAssumption DEF ReadTimeOut, broker, Kept, InTime
<1>3. CASE LoopLost
  BY <1>3 DEF LoopLost, Stop, Gone, session
<1>2. CASE ConnectAnswer
  <2>1. /\ inbox' = Tail(inbox) /\ Tail(inbox) = <<>>
        /\ activity' = Accepted /\ pc' = "idle" /\ timer' = 0
        /\ UNCHANGED <<framed, owed>> /\ framed /\ ~owed
    <3>1. framed /\ ~owed /\ Tail(inbox) = <<>>
      BY <1>2, <1>t, <1>n DEF ConnectAnswer, ConnInv
    <3>2. Head(inbox).type = "ACCEPT"
      BY <1>2 DEF ConnectAnswer, Stop, Gone
    <3> QED BY <1>2, <3>1, <3>2 DEF ConnectAnswer, ToIdle, broker
  <2>2. ~activity'.ping
    BY <2>1 DEF Accepted, Activity
  <2>3. ~owed' /\ framed' /\ Len(inbox') = 0
    BY <2>1
  <2> QED BY <1>n, <2>1, <2>2, <2>3 DEF Kept, Unasked, Asked, Answered, Room, InTime, IsAnswer
<1>4. CASE Publish \/ WriteDone \/ Break
  <2>1. CASE Publish /\ ~IsUp
    BY <2>1 DEF Publish, Stop, Gone, session
  <2>2. CASE (Publish /\ IsUp) \/ WriteDone \/ Break
    <3>1. /\ UNCHANGED <<state, inbox, framed, activity, sincePoll, timer, owed, waited, late, client>>
          /\ pc' = pc \/ (pc # "read" /\ pc' # "read")
      BY <2>2 DEF Publish, WriteDone, Break, session, broker
    <3> QED BY <1>e, <1>t, <3>1, SameKept
  <2> QED BY <1>4, <2>1, <2>2
<1>5. CASE LoopPing
  <2>1. /\ pc = "idle" /\ ~activity.ping /\ sincePoll' = 0 /\ UNCHANGED waited
        /\ ReadWhatCame(Pinged, 0)
        /\ owed' /\ UNCHANGED <<late, client>>
    BY <1>5, <1>e DEF LoopPing, Poll, client
  <2>2. state = "CONNECTED"
    BY <2>1 DEF ReadWhatCame, Read, ReadFramed, ReadMisframed, Stop, Gone, session
  <2> QED BY <1>e, <1>t, <2>1, <2>2, PingKept
<1>6. CASE Loop
  <2>1. /\ pc = "idle" /\ sincePoll' = 0 /\ ReadWhatCame(activity, 0)
        /\ UNCHANGED <<owed, waited, late, client>> /\ ~Due
    BY <1>6 DEF Loop, Poll, broker
  <2>2. state = "CONNECTED" /\ Kept /\ framed
    BY <1>e, <1>t, <2>1 DEF ReadWhatCame, Read, ReadFramed, ReadMisframed, Stop, Gone, session, Kept, InTime
  <2>3. timer =< MaxGap
    BY <1>t, <2>1 DEF TimerInv
  <2>4. CASE inbox # <<>>
    BY <2>1, <2>2, <2>3, <2>4, ReadKept DEF ReadWhatCame, Read
  <2>5. CASE inbox = <<>>
    <3>1. UNCHANGED <<activity, inbox, framed>> /\ pc' = "idle" /\ timer' = 0
      BY <2>1, <2>5 DEF ReadWhatCame, ToIdle, session
    <3>2. \A j : ~IsAnswer(j) /\ ~IsAnswer(j)'
      BY <2>5, <3>1 DEF IsAnswer
    <3> QED BY <2>1, <2>2, <3>1, <3>2 DEF Kept, Unasked, Asked, Answered, Room, InTime
  <2> QED BY <2>4, <2>5
<1>7. CASE ReadOn
  <2>1. /\ pc = "read" /\ inbox # <<>> /\ Read(activity, sincePoll)
        /\ UNCHANGED <<owed, waited, late, client, sincePoll>>
        /\ framed => Head(inbox).whole
    BY <1>7 DEF ReadOn, broker
  <2>2. state = "CONNECTED" /\ Kept /\ framed /\ sincePoll \in Nat
    BY <1>e, <1>t, <2>1 DEF Read, ReadFramed, ReadMisframed, Stop, Gone, Kept, InTime, Data
  <2> QED BY <2>1, <2>2, ReadKept DEF Read
<1>8. CASE ConnAck
  BY <1>8, <1>t DEF ConnAck, Arrive, ConnInv
<1>9. CASE Send
  <2>1. PICK p \in Packets :
          /\ p.type # "PINGRESP" /\ inbox' = Append(inbox, p) /\ Len(inbox) < MaxInbox
          /\ UNCHANGED <<pc, state, framed, activity, sincePoll, timer, owed, waited, late, client>>
    <3>1. \A type \in Types, whole \in BOOLEAN :
            Packet(type, whole) \in Packets /\ Packet(type, whole).type = type
      BY DEF Packet, Packets
    <3> QED BY <1>9, <3>1 DEF Send, Arrive
  <2>2. Kept
    BY <1>e, <1>t, <2>1
  <2>3. /\ Len(inbox') =< MaxInbox
        /\ \A j : IsAnswer(j)' = IsAnswer(j) /\ Age(j)' = Age(j)
    BY <1>n, <2>1 DEF IsAnswer, Age, Before
  <2>4. Unasked' /\ Asked' /\ Answered'
    BY <2>1, <2>2, <2>3 DEF Kept, Unasked, Asked, Answered, IsAnswer
  <2>a. \A j : IsAnswer(j) => j \in 1 .. Len(inbox)
    BY DEF IsAnswer
  <2>5. Room' /\ InTime'
    BY <1>n, <2>1, <2>2, <2>3, <2>a DEF Kept, Room, InTime
  <2> QED BY <2>4, <2>5 DEF Kept
<1>10. CASE PingResp
  <2>1. PICK p \in Packets :
          /\ p.type = "PINGRESP" /\ inbox' = Append(inbox, p)
          /\ UNCHANGED <<pc, state, framed, activity, sincePoll, timer, late, client>>
          /\ owed /\ ~owed'
    <3>1. Packet("PINGRESP", TRUE) \in Packets /\ Packet("PINGRESP", TRUE).type = "PINGRESP"
      BY DEF Packet, Packets, Types
    <3> QED BY <1>10, <3>1 DEF PingResp, Arrive
  <2>2. Kept
    BY <1>e, <1>t, <2>1
  <2>3. /\ activity.ping /\ (\A j : ~IsAnswer(j)) /\ Len(inbox) =< MaxInbox
        /\ activity.in =< Prompt /\ activity.out =< Prompt
    BY <1>n, <2>1, <2>2 DEF Kept, Asked, Room, IsAnswer
  <2>k. PICK k : k = Len(inbox) + 1
    OBVIOUS
  <2>4. \A j : IsAnswer(j)' <=> j = k
    BY <1>n, <2>1, <2>3, <2>k DEF IsAnswer
  <2>5. k \in 1 .. MaxInbox + 1 /\ Len(inbox') = k
    BY <1>n, <2>1, <2>3, <2>k
  <2>6. Prompt =< Age(k)' /\ Age(k)' \in Nat
    <3>1. Before(k) \in Nat
      BY <2>5, BeforeStep
    <3>2. Age(k)' = Prompt + Before(k) + timer + (IF pc = "read" THEN MaxGap ELSE 0)
      BY <2>1 DEF Age, Before
    <3> QED BY <1>n, <3>1, <3>2
  <2>7. Unasked' /\ Asked'
    BY <2>1, <2>3 DEF Unasked, Asked
  <2>8. IsAnswer(k)' /\ activity'.in =< Age(k)' /\ activity'.out =< Age(k)'
    BY <1>n, <2>1, <2>3, <2>4, <2>6
  <2>9. Answered'
    BY <2>5, <2>8 DEF Answered
  <2>10. Room' /\ InTime'
    BY <1>n, <2>1, <2>2, <2>4, <2>5 DEF Kept, Room, InTime
  <2> QED BY <2>7, <2>9, <2>10 DEF Kept
<1>11. CASE TheRest
  <2>1. /\ UNCHANGED <<pc, state, framed, activity, sincePoll, timer, owed, waited, late, client>>
        /\ Len(inbox') = Len(inbox)
        /\ \A i \in 1 .. Len(inbox) : inbox'[i].type = inbox[i].type
    <3>1. \A p \in Packets : Packet(p.type, TRUE) \in Packets /\ Packet(p.type, TRUE).type = p.type
      BY DEF Packets, Packet
    <3>2. Len(inbox) \in 1 .. Len(inbox) /\ \A i \in 1 .. Len(inbox) : inbox[i] \in Packets
      BY <1>n, <1>11 DEF TheRest
    <3>3. PICK p \in Packets : /\ p.type = inbox[Len(inbox)].type
                               /\ inbox' = [inbox EXCEPT ![Len(inbox)] = p]
      BY <1>11, <3>1, <3>2 DEF TheRest
    <3>4. UNCHANGED <<pc, state, framed, activity, sincePoll, timer, owed, waited, late, client>>
      BY <1>11 DEF TheRest
    <3> QED BY <1>n, <3>2, <3>3, <3>4
  <2>2. \A j : IsAnswer(j)' = IsAnswer(j) /\ Age(j)' = Age(j)
    BY <2>1 DEF IsAnswer, Age, Before
  <2> QED BY <1>e, <1>t, <2>1, <2>2 DEF Kept, Unasked, Asked, Answered, Room, InTime
<1>12. CASE Tick
  <2>a. /\ UNCHANGED <<pc, state, link, inbox, framed, owed>> /\ timer' = timer + 1
        /\ ~Excused /\ ~(waited' > Prompt) /\ (pc = "read" => ~(timer' > Pause))
        /\ sincePoll' = Older(sincePoll, KeepAlive + 1)
        /\ owed => waited' = Older(waited, Prompt + 1)
        /\ \/ UNCHANGED activity
           \/ activity' = Activity(Older(activity.in, KeepAlive + 1),
                                   Older(activity.out, KeepAlive + 1), activity.ping)
    BY <1>12, <1>e DEF Tick, session, Excused
  <2>1. owed => waited' =< Prompt /\ waited' = waited + 1
    BY <1>n, <2>a DEF Older
  <2>2. Kept
    BY <1>t, <2>a
  <2>b. \A i, o : /\ Activity(i, o, activity.ping).in = i /\ Activity(i, o, activity.ping).out = o
                  /\ Activity(i, o, activity.ping).ping = activity.ping
    BY DEF Activity
  <2>c. activity'.ping = activity.ping
    BY <2>a, <2>b
  <2>3. /\ activity'.in \in Nat /\ activity'.in =< activity.in + 1
        /\ activity'.out \in Nat /\ activity'.out =< activity.out + 1
    <3>1. \A n \in Nat : Older(n, KeepAlive + 1) \in Nat /\ Older(n, KeepAlive + 1) =< n + 1
      BY TimesAssumption DEF Older
    <3>2. CASE UNCHANGED activity
      BY <1>n, <3>2
    <3>3. CASE activity' = Activity(Older(activity.in, KeepAlive + 1),
                                    Older(activity.out, KeepAlive + 1), activity.ping)
      <4>1. /\ activity'.in = Older(activity.in, KeepAlive + 1)
            /\ activity'.out = Older(activity.out, KeepAlive + 1)
        BY <2>b, <3>3
      <4> QED BY <1>n, <3>1, <4>1
    <3> QED BY <2>a, <3>2, <3>3
  <2>4. \A j \in 1 .. MaxInbox + 1 : IsAnswer(j)' = IsAnswer(j) /\ Age(j)' = Age(j) + 1 /\ Age(j) \in Nat
    BY <1>n, <2>a, BeforeStep DEF IsAnswer, Age, Before
  <2>5. Unasked' /\ Room'
    BY <2>a, <2>c, <2>2 DEF Kept, Unasked, Room, IsAnswer
  <2>8. InTime'
    <3>1. Pause =< KeepAlive
      <4>1. 1 \in 1 .. MaxInbox + 1
        BY <1>n
      <4>2. Before(1) \in Nat /\ Prompt + Before(1) + Turn =< KeepAlive
        BY <4>1, BeforeStep
      <4> QED BY <1>n, <4>2 DEF Turn
    <3>2. framed' /\ framed
      BY <2>a, <2>2 DEF Kept, InTime
    <3>3. ASSUME pc = "read" PROVE timer' =< Pause /\ sincePoll' = timer' /\ (owed => sincePoll' =< waited')
      <4>1. timer' =< Pause /\ timer' = timer + 1 /\ sincePoll = timer /\ (owed => sincePoll =< waited)
        BY <1>n, <2>a, <2>2, <3>3 DEF Kept, InTime
      <4>2. sincePoll' = sincePoll + 1
        BY <1>n, <2>a, <3>1, <4>1 DEF Older
      <4> QED BY <1>n, <2>1, <4>1, <4>2
    <3> QED BY <2>a, <3>2, <3>3 DEF InTime
  <2>6. Asked'
    <3> SUFFICES ASSUME owed'
                 PROVE  /\ activity'.ping
                        /\ activity'.in =< waited' /\ activity'.out =< waited' /\ waited' =< Prompt
                        /\ \A j \in 1 .. Len(inbox') : ~IsAnswer(j)'
      BY DEF Asked
    <3>1. owed
      BY <2>a
    <3>2. /\ activity.ping /\ activity.in =< waited /\ activity.out =< waited
          /\ \A j \in 1 .. Len(inbox) : ~IsAnswer(j)
      BY <2>2, <3>1 DEF Kept, Asked
    <3>3. waited' =< Prompt /\ waited' = waited + 1
      BY <2>1, <3>1
    <3>4. activity'.in =< waited' /\ activity'.out =< waited'
      BY <1>n, <2>3, <3>2, <3>3
    <3>5. \A j \in 1 .. Len(inbox') : ~IsAnswer(j)'
      <4>1. inbox' = inbox
        BY <2>a
      <4> QED BY <3>2, <4>1 DEF IsAnswer
    <3> QED BY <2>c, <3>2, <3>3, <3>4, <3>5
  <2>7. Answered'
    <3> SUFFICES ASSUME activity'.ping, ~owed'
                 PROVE  \E j \in 1 .. MaxInbox + 1 :
                          IsAnswer(j)' /\ activity'.in =< Age(j)' /\ activity'.out =< Age(j)'
      BY DEF Answered, IsAnswer, Age, Before
    <3>1. PICK j \in 1 .. MaxInbox + 1 :
            IsAnswer(j) /\ activity.in =< Age(j) /\ activity.out =< Age(j)
      BY <2>a, <2>c, <2>2 DEF Kept, Answered
    <3>2. IsAnswer(j)' /\ Age(j)' = Age(j) + 1 /\ Age(j) \in Nat
      BY <2>4, <3>1
    <3>3. activity'.in =< Age(j)' /\ activity'.out =< Age(j)'
      BY <1>n, <2>3, <3>1, <3>2
    <3> QED BY <3>2, <3>3
  <2> QED BY <2>5, <2>6, <2>7, <2>8 DEF Kept
<1> QED
  BY <1>0, <1>1, <1>r, <1>2, <1>3, <1>4, <1>5, <1>6, <1>7, <1>8, <1>9, <1>10, <1>11, <1>12 DEF Next

\* A step that gives a broker up for its silence finds one that was late (mqtt.c 384-393).
LEMMA KeptStep ==
  TypeInv /\ PromptInv /\ [Next]_vars => (state = "CONNECTED" /\ state' = "TIMEOUT" => Excused)
<1> SUFFICES ASSUME TypeInv, PromptInv, [Next]_vars, state = "CONNECTED", state' = "TIMEOUT", ~Excused
             PROVE  FALSE
  OBVIOUS
<1>t. Data /\ ConnInv /\ TimerInv /\ Kept
  BY DEF TypeInv, PromptInv
<1>1. pc # "connect"
  BY <1>t DEF ConnInv
<1>2. \A a, t : Read(a, t) => state' \in {state, "DISCONNECTED"}
  BY DEF Read, ReadFramed, ReadMisframed, Stop, Gone
<1>3. LoopTimeOut
  BY <1>1, <1>2 DEF Next, vars, session, ConnectFails, Connect, ConnectAnswer, ConnectTimeOut, LoopLost,
       LoopPing, Loop, ReadWhatCame, ReadOn, ReadTimeOut, Publish, WriteDone, Disconnect, ConnAck, Send,
       PingResp, Arrive, TheRest, Break, Tick, Stop, Gone, Noticed
<1>4. /\ pc = "idle" /\ activity.ping /\ timer =< MaxGap
      /\ activity.in > KeepAlive \/ activity.out > KeepAlive
  BY <1>t, <1>3 DEF LoopTimeOut, Poll, Due, TimerInv
<1>5. /\ MaxInbox \in Nat /\ MaxGap \in Nat /\ Prompt \in Nat /\ KeepAlive \in Nat
      /\ waited \in Nat /\ timer \in Nat /\ activity.in \in Nat /\ activity.out \in Nat
      /\ Prompt =< KeepAlive
  <2>1. 1 \in 1 .. MaxInbox + 1
    BY TimesAssumption
  <2>2. Before(1) \in Nat /\ Turn \in Nat /\ Prompt + Before(1) + Turn =< KeepAlive
    BY <2>1, BeforeStep, TimesAssumption DEF Turn
  <2> QED BY <1>t, <2>2, TimesAssumption, Aged DEF Data
<1>6. CASE owed
  BY <1>t, <1>4, <1>5, <1>6 DEF Kept, Asked
<1>7. CASE ~owed
  <2>1. PICK j \in 1 .. MaxInbox + 1 : activity.in =< Age(j) /\ activity.out =< Age(j)
    BY <1>t, <1>4, <1>7 DEF Kept, Answered
  <2>2. Before(j) \in Nat /\ Prompt + Before(j) + MaxGap =< KeepAlive
    BY BeforeStep, TimesAssumption DEF Turn
  <2>3. Age(j) =< KeepAlive /\ Age(j) \in Nat
    BY <1>4, <1>5, <2>2 DEF Age
  <2> QED BY <1>4, <1>5, <2>1, <2>3
<1> QED BY <1>6, <1>7

\* A broker that answers in time is never given up for its silence, whatever is in front
\* of its answers, unless a PINGREQ was not written to it or a write held the polls up.
THEOREM PromptBrokerAlwaysKept == Spec => PromptBrokerKept
<1>1. Init => PromptInv
  BY TimesAssumption DEF Init, PromptInv, TimerInv
<1>2. [][TypeInv /\ PromptInv /\ [Next]_vars]_vars => PromptBrokerKept
  BY KeptStep, PTL DEF PromptBrokerKept, Excused
<1> QED BY <1>1, <1>2, InitTypeInv, NextTypeInv, NextPromptInv, PTL DEF Spec
-----------------------------------------------------------------------------
(* A silent broker is noticed.                                             *)

\* No more is unread than the broker may send, and only the last packet is not whole.
Queue ==
  /\ Len(inbox) =< MaxInbox + 1
  /\ owed => Len(inbox) =< MaxInbox
  /\ \A i \in 1 .. Len(inbox) - 1 : inbox[i].whole

\* No wait is longer than its time-out, and a connection that waits for its CONNACK is
\* no older than the wait.
WaitInv ==
  /\ TimerInv
  /\ pc \in {"connect", "read"} => timer =< SocketTimeout
  /\ pc = "connect" => silence =< timer

\* The polls that n packets take.
Gaps(n) == n * MaxGap

\* How long it takes at most until the session of a broker that sends no more is over:
\* for a poll that waits (stuck: nothing it could read is there), with n packets to be
\* read first, and with none.
Rounds == 2 * (KeepAlive + MaxGap)
Waiting(t, n, stuck) ==
  SocketTimeout - t + Rounds + (IF stuck THEN 0 ELSE SocketTimeout + Gaps(n - 1))
Reading(t, n) == Rounds + SocketTimeout + Gaps(n) - t
Oldest(a) == IF a.in > a.out THEN a.in ELSE a.out
ToDue(t, a) == IF Oldest(a) > KeepAlive THEN MaxGap - t ELSE KeepAlive - Oldest(a) + MaxGap
Pinging(t, a) == ToDue(t, a) + (IF a.ping THEN 0 ELSE KeepAlive + MaxGap)

Stuck == inbox = <<>> \/ (framed /\ ~Head(inbox).whole)
Left ==
  IF pc = "read" THEN Waiting(timer, Len(inbox), Stuck)
  ELSE IF inbox # <<>> THEN Reading(timer, Len(inbox))
  ELSE Pinging(timer, activity)

SilentInv == state = "CONNECTED" => silence + Left =< NoticeBy

LEMMA GapsGrow ==
  ASSUME NEW n \in Nat
  PROVE  /\ Gaps(n) \in Nat /\ Gaps(n + 1) = Gaps(n) + MaxGap
         /\ \A m \in Nat : m =< n => Gaps(m) \in Nat /\ Gaps(m) =< Gaps(n)
<1>1. \A i, j, g \in Nat : i * g \in Nat /\ (i + 1) * g = i * g + g /\ (i =< j => i * g =< j * g)
  OBVIOUS
<1> QED BY <1>1, TimesAssumption DEF Gaps

LEMMA NoticeByIs ==
  /\ NoticeBy = Rounds + 2 * SocketTimeout + Gaps(MaxInbox + 1)
  /\ Gaps(MaxInbox + 1) = Gaps(MaxInbox) + MaxGap
  /\ Gaps(MaxInbox) \in Nat /\ Rounds \in Nat /\ Rounds = 2 * (KeepAlive + MaxGap)
<1>1. /\ KeepAlive \in Nat /\ MaxGap \in Nat /\ SocketTimeout \in Nat /\ MaxInbox \in Nat
  BY TimesAssumption
<1>2. Gaps(MaxInbox + 1) = Gaps(MaxInbox) + MaxGap /\ Gaps(MaxInbox) \in Nat
  BY <1>1, GapsGrow
<1>3. NoticeBy = Rounds + 2 * SocketTimeout + Gaps(MaxInbox + 1)
  BY DEF NoticeBy, Rounds, Gaps
<1> QED BY <1>1, <1>2, <1>3 DEF Rounds

\* With nothing to read: never longer than two rounds, and a poll that is not due.
LEMMA PingingIs ==
  ASSUME NEW t \in Nat, t =< MaxGap, NEW a \in Activities
  PROVE  /\ Pinging(t, a) \in Nat /\ Pinging(t, a) =< Rounds
         /\ Oldest(a) =< KeepAlive => Pinging(0, a) = Pinging(t, a)
         /\ Oldest(a) > KeepAlive /\ ~a.ping => Pinging(t, a) >= KeepAlive + MaxGap
<1>1. KeepAlive \in Nat /\ MaxGap \in Nat /\ a.in \in Nat /\ a.out \in Nat /\ Oldest(a) \in Nat
  BY TimesAssumption, Aged DEF Oldest
<1>2. ToDue(t, a) \in Nat /\ ToDue(t, a) =< KeepAlive + MaxGap
  BY <1>1 DEF ToDue
<1>3. Oldest(a) =< KeepAlive => ToDue(0, a) = ToDue(t, a)
  BY <1>1 DEF ToDue
<1>4. Pinging(t, a) = ToDue(t, a) + (IF a.ping THEN 0 ELSE KeepAlive + MaxGap)
      /\ Pinging(0, a) = ToDue(0, a) + (IF a.ping THEN 0 ELSE KeepAlive + MaxGap)
  BY DEF Pinging
<1>5. Pinging(t, a) \in Nat /\ Pinging(t, a) =< Rounds
  BY <1>1, <1>2, <1>4 DEF Rounds
<1> QED BY <1>1, <1>2, <1>3, <1>4, <1>5

\* A PINGREQ has just been sent.
LEMMA PingedIs == Pinging(0, Pinged) = KeepAlive + MaxGap
<1>1. Pinged.in = 0 /\ Pinged.out = 0 /\ Pinged.ping
  BY DEF Pinged, Activity
<1> QED BY <1>1, TimesAssumption DEF Pinging, ToDue, Oldest

\* What a read takes off the queue.
LEMMA ReadDrops ==
  ASSUME TypeInv, Queue, inbox # <<>>, NEW a, NEW t, Read(a, t)
  PROVE  /\ pc' \in {"idle", "read"} /\ timer' = 0
         /\ pc' = "read" => Stuck'
         /\ \A i \in 1 .. Len(inbox') - 1 : inbox'[i].whole
         /\ \/ Len(inbox') < Len(inbox)
            \/ /\ pc' = "read" /\ Len(inbox') = 1 /\ Len(inbox) = 1
               /\ framed /\ ~Head(inbox).whole
<1>1. /\ inbox \in Seq(Packets) /\ Len(inbox) \in Nat /\ Len(inbox) > 0
      /\ \A i \in 1 .. Len(inbox) - 1 : inbox[i].whole
  BY DEF TypeInv, Data, Queue
<1>2. CASE framed /\ Head(inbox).whole
  <2>1. inbox' = Tail(inbox) /\ pc' = "idle" /\ timer' = 0
    BY <1>2 DEF Read, ReadFramed, ToIdle
  <2>2. Len(Tail(inbox)) = Len(inbox) - 1 /\ \A i \in 1 .. Len(Tail(inbox)) : Tail(inbox)[i] = inbox[i + 1]
    BY <1>1, Rest
  <2> QED BY <1>1, <2>1, <2>2
<1>3. CASE framed /\ ~Head(inbox).whole
  <2>1. UNCHANGED <<inbox, framed>> /\ pc' = "read" /\ timer' = 0
    BY <1>3 DEF Read, ReadFramed
  <2>2. Len(inbox) = 1
    <3>1. Head(inbox) = inbox[1]
      BY <1>1, Rest
    <3>2. ~(1 \in 1 .. Len(inbox) - 1)
      BY <1>1, <1>3, <3>1
    <3>3. \A n \in Nat : n > 0 /\ ~(1 \in 1 .. n - 1) => n = 1
      OBVIOUS
    <3> QED BY <1>1, <3>2, <3>3, Zenon
  <2> QED BY <1>1, <1>3, <2>1, <2>2 DEF Stuck
<1>4. CASE ~framed
  <2>1. PICK n \in 1 .. Len(inbox) :
          \/ inbox' = SubSeq(inbox, n + 1, Len(inbox)) /\ ToIdle
          \/ inbox' = <<>> /\ ToIdle
          \/ inbox' = <<>> /\ pc' = "read" /\ timer' = 0
    BY <1>4 DEF Read, ReadMisframed, Stop, Gone
  <2>2. CASE inbox' = SubSeq(inbox, n + 1, Len(inbox)) /\ ToIdle
    <3>1. /\ Len(SubSeq(inbox, n + 1, Len(inbox))) = Len(inbox) - n
          /\ \A i \in 1 .. Len(inbox) - n : SubSeq(inbox, n + 1, Len(inbox))[i] = inbox[n + i]
      BY <1>1
    <3> QED BY <1>1, <2>2, <3>1 DEF ToIdle
  <2>3. CASE inbox' = <<>>
    BY <1>1, <2>1, <2>3 DEF ToIdle, Stuck
  <2> QED BY <2>1, <2>2, <2>3
<1> QED BY <1>2, <1>3, <1>4

\* What has been read and what is unread bound each other at every step.
LEMMA NextQueue == TypeInv /\ Queue /\ [Next]_vars => Queue'
<1> SUFFICES ASSUME TypeInv, Queue, [Next]_vars PROVE Queue'
  OBVIOUS
<1>t. /\ Data /\ ConnInv /\ inbox \in Seq(Packets) /\ Len(inbox) \in Nat
      /\ MaxInbox \in Nat /\ MaxInbox >= 1
      /\ Len(inbox) =< MaxInbox + 1 /\ (owed => Len(inbox) =< MaxInbox)
      /\ \A i \in 1 .. Len(inbox) - 1 : inbox[i].whole
  BY TimesAssumption DEF TypeInv, Data, Queue
<1>0. inbox' = <<>> => Queue'
  BY <1>t DEF Queue
<1>s. UNCHANGED <<inbox, owed>> => Queue'
  BY <1>t DEF Queue
<1>1. CASE UNCHANGED vars \/ Publish \/ WriteDone \/ Break \/ Tick \/ LoopLost
  BY <1>0, <1>s, <1>1 DEF vars, session, broker, Publish, Stop, Gone, WriteDone, Break, Tick, LoopLost
<1>2. CASE ConnectFails \/ Connect \/ ConnectTimeOut \/ LoopTimeOut \/ ReadTimeOut \/ Disconnect
  BY <1>0, <1>2 DEF ConnectFails, Connect, ConnectTimeOut, LoopTimeOut, ReadTimeOut, Disconnect, Stop, Gone
<1>3. CASE ConnectAnswer
  <2>1. Tail(inbox) = <<>>
    BY <1>t, <1>3 DEF ConnectAnswer, ConnInv
  <2> QED BY <1>0, <1>3, <2>1 DEF ConnectAnswer, Stop, Gone
<1>4. CASE LoopPing \/ Loop \/ ReadOn
  <2>1. /\ inbox # <<>> => \E a, t : Read(a, t)
        /\ inbox = <<>> => inbox' = <<>>
    BY <1>4 DEF LoopPing, Loop, ReadOn, ReadWhatCame, session
  <2>2. CASE inbox # <<>>
    <3>1. /\ \A i \in 1 .. Len(inbox') - 1 : inbox'[i].whole
          /\ Len(inbox') < Len(inbox) \/ Len(inbox') = 1
          /\ Len(inbox') =< Len(inbox)
      BY <2>1, <2>2, ReadDrops
    <3>2. inbox' \in Seq(Packets)
      <4>1. TypeInv'
        BY NextTypeInv
      <4> QED BY <4>1 DEF TypeInv, Data
    <3>3. Len(inbox') \in Nat
      BY <3>2
    <3>4. Len(inbox') =< MaxInbox
      <4>1. \A k, n, m \in Nat : n =< m + 1 /\ m >= 1 /\ (k < n \/ k = 1) => k =< m
        OBVIOUS
      <4> QED BY <1>t, <3>1, <3>3, <4>1, Zenon
    <3>5. MaxInbox =< MaxInbox + 1 /\ Len(inbox') =< MaxInbox + 1
      BY <1>t, <3>3, <3>4
    <3> QED BY <3>1, <3>4, <3>5 DEF Queue
  <2> QED BY <1>0, <2>1, <2>2
<1>5. CASE ConnAck \/ Send
  <2>1. PICK p : /\ \A i \in 1 .. Len(inbox) : inbox[i].whole
                 /\ inbox' = Append(inbox, p)
    BY <1>5 DEF ConnAck, Send, Arrive
  <2>2. owed' = owed /\ Len(inbox) < MaxInbox
    BY <1>t, <1>5 DEF ConnAck, Send
  <2>3. Len(inbox') = Len(inbox) + 1 /\ \A i \in 1 .. Len(inbox) : inbox'[i] = inbox[i]
    BY <1>t, <2>1
  <2> QED BY <1>t, <2>1, <2>2, <2>3 DEF Queue
<1>6. CASE PingResp
  <2>1. PICK p : /\ \A i \in 1 .. Len(inbox) : inbox[i].whole
                 /\ inbox' = Append(inbox, p)
    BY <1>6 DEF PingResp, Arrive
  <2>2. ~owed' /\ Len(inbox) =< MaxInbox
    BY <1>t, <1>6 DEF PingResp
  <2>3. Len(inbox') = Len(inbox) + 1 /\ \A i \in 1 .. Len(inbox) : inbox'[i] = inbox[i]
    BY <1>t, <2>1
  <2> QED BY <1>t, <2>1, <2>2, <2>3 DEF Queue
<1>7. CASE TheRest
  <2>1. PICK p : inbox' = [inbox EXCEPT ![Len(inbox)] = p]
    BY <1>7 DEF TheRest
  <2>2. Len(inbox') = Len(inbox) /\ \A i \in 1 .. Len(inbox) - 1 : inbox'[i] = inbox[i]
    BY <1>t, <2>1
  <2>3. owed' = owed
    BY <1>7 DEF TheRest
  <2> QED BY <1>t, <2>2, <2>3 DEF Queue
<1> QED BY <1>1, <1>2, <1>3, <1>4, <1>5, <1>6, <1>7 DEF Next

\* Waits end.
LEMMA NextWait == TypeInv /\ WaitInv /\ [Next]_vars => WaitInv'
<1> SUFFICES ASSUME TypeInv, WaitInv, [Next]_vars PROVE WaitInv'
  OBVIOUS
<1>t. /\ TimerInv' /\ timer \in Nat /\ silence \in Nat /\ SocketTimeout \in Nat
      /\ pc \in {"connect", "read"} => timer =< SocketTimeout
      /\ pc = "connect" => silence =< timer
  BY NextTimer, TimesAssumption DEF WaitInv, TypeInv, Data
<1> USE DEF WaitInv
<1>1. CASE UNCHANGED vars \/ Break
  BY <1>t, <1>1 DEF vars, broker, Break
<1>2. CASE pc' \notin {"connect", "read"}
  BY <1>t, <1>2
<1>3. CASE ConnectFails \/ Connect
  BY <1>t, <1>3 DEF ConnectFails, Connect, broker
<1>4. CASE ConnectAnswer \/ ConnectTimeOut \/ LoopLost \/ LoopTimeOut \/ ReadTimeOut
  BY <1>2, <1>4 DEF ConnectAnswer, ConnectTimeOut, LoopLost, LoopTimeOut, ReadTimeOut, ToIdle
<1>5. CASE LoopPing \/ Loop \/ ReadOn
  <2>1. \A a, t : Read(a, t) => timer' = 0 /\ pc' \in {"idle", "read"}
    BY DEF Read, ReadFramed, ReadMisframed, ToIdle
  <2>2. timer' = 0 /\ pc' \in {"idle", "read"}
    BY <1>5, <2>1 DEF LoopPing, Loop, ReadOn, ReadWhatCame, ToIdle
  <2> QED BY <1>t, <2>2
<1>6. CASE Publish \/ WriteDone \/ Disconnect
  BY <1>2, <1>6 DEF Publish, WriteDone, Disconnect
<1>7. CASE ConnAck \/ Send \/ PingResp \/ TheRest
  <2>1. UNCHANGED <<pc, timer>> /\ silence' = 0
    BY <1>7 DEF ConnAck, Send, PingResp, Arrive, TheRest
  <2> QED BY <1>t, <2>1
<1>8. CASE Tick
  <2>1. /\ pc' = pc
        /\ pc \in {"connect", "read"} => /\ timer' = timer + 1 /\ silence' \in {0, silence + 1}
                                         /\ timer < SocketTimeout
    BY <1>t, <1>8 DEF Tick, HeldUp
  <2> QED BY <1>t, <2>1
<1> QED BY <1>1, <1>2, <1>3, <1>4, <1>5, <1>6, <1>7, <1>8 DEF Next

\* A tick with nothing to read brings the end of the session nearer.
LEMMA PingingTick ==
  ASSUME NEW t \in Nat, t < MaxGap, NEW a \in Activities,
         NEW b, b = Activity(Older(a.in, KeepAlive + 1), Older(a.out, KeepAlive + 1), a.ping)
  PROVE  Pinging(t + 1, b) =< Pinging(t, a) - 1
<1>1. KeepAlive \in Nat /\ MaxGap \in Nat /\ a.in \in Nat /\ a.out \in Nat
  BY TimesAssumption, Aged
<1>2. b.in = Older(a.in, KeepAlive + 1) /\ b.out = Older(a.out, KeepAlive + 1) /\ b.ping = a.ping
  BY DEF Activity
<1>3. /\ Oldest(a) \in Nat /\ Oldest(b) \in Nat
      /\ Oldest(a) =< KeepAlive => Oldest(b) = Oldest(a) + 1
      /\ Oldest(a) > KeepAlive => Oldest(b) > KeepAlive
  BY <1>1, <1>2 DEF Oldest, Older
<1>4. ToDue(t, a) \in Nat /\ ToDue(t + 1, b) \in Nat /\ ToDue(t + 1, b) =< ToDue(t, a) - 1
  BY <1>1, <1>3 DEF ToDue
<1>5. KeepAlive + MaxGap \in Nat
  BY <1>1
<1> QED BY <1>2, <1>4, <1>5 DEF Pinging

\* A tick in which a write holds the main loop up leaves it where it is, or nearer.
LEMMA PingingHeld ==
  ASSUME NEW t \in Nat, t =< MaxGap, NEW a \in Activities,
         NEW b, b = Activity(Older(a.in, KeepAlive + 1), Older(a.out, KeepAlive + 1), a.ping)
  PROVE  Pinging(t, b) =< Pinging(t, a)
<1>1. KeepAlive \in Nat /\ MaxGap \in Nat /\ a.in \in Nat /\ a.out \in Nat
  BY TimesAssumption, Aged
<1>2. b.in = Older(a.in, KeepAlive + 1) /\ b.out = Older(a.out, KeepAlive + 1) /\ b.ping = a.ping
  BY DEF Activity
<1>3. /\ Oldest(a) \in Nat /\ Oldest(b) \in Nat
      /\ Oldest(a) =< KeepAlive => Oldest(b) = Oldest(a) + 1
      /\ Oldest(a) > KeepAlive => Oldest(b) > KeepAlive
  BY <1>1, <1>2 DEF Oldest, Older
<1>4. ToDue(t, a) \in Nat /\ ToDue(t, b) \in Nat /\ ToDue(t, b) =< ToDue(t, a)
  BY <1>1, <1>3 DEF ToDue
<1>5. KeepAlive + MaxGap \in Nat
  BY <1>1
<1> QED BY <1>2, <1>4, <1>5 DEF Pinging

\* What is left, by where the session is.
LeftCases ==
  /\ timer \in Nat /\ Len(inbox) \in Nat /\ Len(inbox) =< MaxInbox + 1
  /\ (inbox = <<>>) = (Len(inbox) = 0)
  /\ pc = "read" /\ Stuck => Left = SocketTimeout - timer + Rounds
  /\ pc = "read" /\ ~Stuck =>
       /\ Len(inbox) > 0
       /\ Left = SocketTimeout - timer + Rounds + SocketTimeout + Gaps(Len(inbox) - 1)
  /\ pc # "read" /\ inbox # <<>> => Left = Rounds + SocketTimeout + Gaps(Len(inbox)) - timer
  /\ pc # "read" /\ inbox = <<>> => Left = Pinging(timer, activity) /\ Left \in Nat /\ Left =< Rounds
  /\ pc # "read" => timer =< MaxGap
  /\ pc = "read" => timer =< SocketTimeout

LEMMA LeftIs == TypeInv /\ Queue /\ WaitInv /\ pc # "connect" => LeftCases
<1> SUFFICES ASSUME TypeInv, Queue, WaitInv, pc # "connect" PROVE LeftCases
  OBVIOUS
<1>1. /\ inbox \in Seq(Packets) /\ timer \in Nat /\ activity \in Activities
      /\ pc \in {"idle", "read", "write"}
  BY DEF TypeInv, Data
<1>2. /\ pc # "read" => timer =< MaxGap
      /\ pc = "read" => timer =< SocketTimeout
  BY <1>1 DEF WaitInv, TimerInv
<1>3. Len(inbox) \in Nat /\ (inbox = <<>>) = (Len(inbox) = 0)
  BY <1>1
<1>4. SocketTimeout - timer + Rounds \in Int
  BY <1>1, NoticeByIs, TimesAssumption
<1>5. pc = "read" => Left = SocketTimeout - timer + Rounds
                            + (IF Stuck THEN 0 ELSE SocketTimeout + Gaps(Len(inbox) - 1))
  BY DEF Left, Waiting
<1>6. pc # "read" /\ inbox # <<>> => Left = Rounds + SocketTimeout + Gaps(Len(inbox)) - timer
  BY DEF Left, Reading
<1>7. pc # "read" /\ inbox = <<>> => Left = Pinging(timer, activity) /\ Left \in Nat /\ Left =< Rounds
  BY <1>1, <1>2, PingingIs DEF Left
<1>8. pc = "read" /\ Stuck => Left = SocketTimeout - timer + Rounds
  BY <1>4, <1>5
<1>9. pc = "read" /\ ~Stuck =>
        /\ Len(inbox) > 0
        /\ Left = SocketTimeout - timer + Rounds + SocketTimeout + Gaps(Len(inbox) - 1)
  <2> SUFFICES ASSUME pc = "read", ~Stuck
               PROVE  /\ Len(inbox) > 0
                      /\ Left = SocketTimeout - timer + Rounds + SocketTimeout + Gaps(Len(inbox) - 1)
    OBVIOUS
  <2>1. Len(inbox) > 0 /\ Len(inbox) - 1 \in Nat
    BY <1>3 DEF Stuck
  <2>2. Gaps(Len(inbox) - 1) \in Nat
    BY <2>1, GapsGrow
  <2>3. Left = (SocketTimeout - timer + Rounds) + (SocketTimeout + Gaps(Len(inbox) - 1))
    BY <1>5
  <2> QED BY <1>4, <2>1, <2>2, <2>3, TimesAssumption
<1> QED BY <1>1, <1>2, <1>3, <1>6, <1>7, <1>8, <1>9 DEF Queue, LeftCases

\* As soon as anything comes there is no more left than the bound.
LEMMA LeftBound == TypeInv /\ Queue /\ WaitInv /\ pc # "connect" => Left \in Nat /\ Left =< NoticeBy
<1> SUFFICES ASSUME TypeInv, Queue, WaitInv, pc # "connect" PROVE Left \in Nat /\ Left =< NoticeBy
  OBVIOUS
<1>1. SocketTimeout \in Nat /\ MaxGap \in Nat /\ MaxInbox \in Nat /\ LeftCases
  BY LeftIs, TimesAssumption
<1>2. CASE pc = "read" /\ Stuck
  BY <1>1, <1>2, NoticeByIs DEF LeftCases
<1>3. CASE pc = "read" /\ ~Stuck
  <2>1. Len(inbox) - 1 \in Nat /\ Len(inbox) - 1 =< MaxInbox
    BY <1>1, <1>3 DEF LeftCases
  <2>2. Gaps(Len(inbox) - 1) \in Nat /\ Gaps(Len(inbox) - 1) =< Gaps(MaxInbox)
    BY <1>1, <2>1, GapsGrow
  <2>3. /\ Left = SocketTimeout - timer + Rounds + SocketTimeout + Gaps(Len(inbox) - 1)
        /\ timer \in Nat /\ timer =< SocketTimeout
    BY <1>1, <1>3 DEF LeftCases
  <2>4. \A s, t, r, g, h, k \in Nat :
          t =< s /\ g =< h => /\ s - t + r + s + g \in Nat
                              /\ s - t + r + s + g =< r + 2 * s + (h + k)
    OBVIOUS
  <2> QED BY <1>1, <2>2, <2>3, <2>4, NoticeByIs, Zenon
<1>4. CASE pc # "read" /\ inbox # <<>>
  <2>1. /\ Left = Rounds + SocketTimeout + Gaps(Len(inbox)) - timer
        /\ timer \in Nat /\ timer =< MaxGap
        /\ Len(inbox) \in Nat /\ Len(inbox) >= 1 /\ Len(inbox) =< MaxInbox + 1
    BY <1>1, <1>4 DEF LeftCases
  <2>2. Gaps(Len(inbox)) \in Nat /\ Gaps(Len(inbox)) =< Gaps(MaxInbox + 1)
    BY <1>1, <2>1, GapsGrow
  <2>3. Gaps(Len(inbox)) >= MaxGap
    <3>1. Len(inbox) - 1 \in Nat /\ (Len(inbox) - 1) + 1 = Len(inbox)
      BY <2>1
    <3>2. Gaps(Len(inbox) - 1) \in Nat /\ Gaps((Len(inbox) - 1) + 1) = Gaps(Len(inbox) - 1) + MaxGap
      BY <3>1, GapsGrow
    <3> QED BY <1>1, <3>1, <3>2
  <2>4. \A s, t, r, g, h, k \in Nat :
          t =< k /\ g >= k /\ g =< h => r + s + g - t \in Nat /\ r + s + g - t =< r + 2 * s + h
    OBVIOUS
  <2>5. Gaps(MaxInbox + 1) \in Nat
    BY <1>1, GapsGrow
  <2> QED BY <1>1, <2>1, <2>2, <2>3, <2>4, <2>5, NoticeByIs, Zenon
<1>5. CASE pc # "read" /\ inbox = <<>>
  BY <1>1, <1>5, NoticeByIs DEF LeftCases
<1> QED BY <1>2, <1>3, <1>4, <1>5

\* The same in the state after a step.
LEMMA LeftNext ==
  TypeInv /\ Queue /\ WaitInv /\ [Next]_vars =>
    /\ TypeInv' /\ Queue' /\ WaitInv'
    /\ pc' # "connect" => LeftCases' /\ Left' \in Nat /\ Left' =< NoticeBy
<1>1. TypeInv /\ Queue /\ WaitInv =>
        (pc # "connect" => LeftCases /\ Left \in Nat /\ Left =< NoticeBy)
  BY LeftIs, LeftBound
<1>2. (TypeInv /\ Queue /\ WaitInv)' =>
        (pc # "connect" => LeftCases /\ Left \in Nat /\ Left =< NoticeBy)'
  BY <1>1, PTL
<1>3. NoticeBy' = NoticeBy
  BY DEF NoticeBy
<1> QED BY <1>2, <1>3, NextTypeInv, NextQueue, NextWait

\* What is left goes down with every tick, and up with nothing but a packet that comes.
LEMMA NextSilent == TypeInv /\ Queue /\ WaitInv /\ SilentInv /\ [Next]_vars => SilentInv'
<1> SUFFICES ASSUME TypeInv, Queue, WaitInv, SilentInv, [Next]_vars, state' = "CONNECTED"
             PROVE  silence' + Left' =< NoticeBy
  BY LeftNext DEF SilentInv, NoticeBy
<1>t. Data /\ ConnInv /\ silence \in Nat
  BY DEF TypeInv, Data
<1>n. /\ KeepAlive \in Nat /\ MaxGap \in Nat /\ SocketTimeout \in Nat /\ Rounds \in Nat
      /\ NoticeBy \in Nat /\ Rounds + SocketTimeout =< NoticeBy
  BY NoticeByIs, TimesAssumption
<1>l. pc # "connect" => LeftCases /\ Left \in Nat
  BY LeftIs, LeftBound
<1>m. pc' # "connect" => LeftCases' /\ Left' \in Nat /\ Left' =< NoticeBy
  BY LeftNext
<1>c. state = "CONNECTED" => pc # "connect" /\ silence + Left =< NoticeBy
  BY <1>t DEF ConnInv, SilentInv
<1>d. pc' # "connect"
  <2>1. TypeInv'
    BY LeftNext
  <2> QED BY <2>1 DEF TypeInv, ConnInv
\* A step that leaves no more than there was, in no time.
<1>q. ASSUME state = "CONNECTED", silence' = silence, Left' =< Left
      PROVE  silence' + Left' =< NoticeBy
  BY <1>c, <1>d, <1>l, <1>m, <1>n, <1>q, <1>t
<1>1. CASE UNCHANGED vars \/ WriteDone \/ Break \/ (Publish /\ IsUp)
  <2>1. /\ UNCHANGED <<state, inbox, framed, activity, timer, silence>>
        /\ pc' = pc \/ (pc # "read" /\ pc' # "read")
    BY <1>1 DEF vars, session, broker, WriteDone, Break, Publish
  <2>2. Left' = Left
    BY <2>1 DEF Left, Stuck
  <2>3. Left' =< Left
    BY <1>c, <1>l, <2>1, <2>2
  <2> QED BY <1>q, <2>1, <2>3
<1>2. CASE LoopLost \/ (Publish /\ ~IsUp)
  <2>1. /\ UNCHANGED <<state, inbox, framed>> /\ state # "CONNECTED"
    BY <1>2 DEF LoopLost, Publish, Stop, Gone, session
  <2> QED BY <2>1
<1>3. CASE ConnectFails \/ Connect \/ ConnectTimeOut \/ LoopTimeOut \/ Disconnect
  BY <1>3, <1>t DEF ConnectFails, Connect, ConnectTimeOut, LoopTimeOut, Disconnect, Stop, Gone, Noticed, ConnInv
<1>4. CASE ConnectAnswer
  <2>1. /\ pc = "connect" /\ pc' = "idle" /\ inbox' = Tail(inbox) /\ UNCHANGED silence
    BY <1>4 DEF ConnectAnswer, ToIdle, Stop, Gone, broker
  <2>2. inbox' = <<>>
    BY <1>t, <1>4, <2>1 DEF ConnectAnswer, ConnInv, Data
  <2>3. silence' =< SocketTimeout
    BY <1>n, <1>t, <2>1 DEF WaitInv, Data
  <2>4. Left' =< Rounds /\ Left' \in Nat
    BY <1>m, <2>1, <2>2 DEF LeftCases
  <2>5. \A a, b, r, s, n \in Nat : a =< s /\ b =< r /\ r + s =< n => a + b =< n
    OBVIOUS
  <2>6. silence' \in Nat
    BY <1>t, <2>1
  <2> QED BY <1>n, <2>3, <2>4, <2>5, <2>6, Zenon
<1>5. CASE inbox = <<>> /\ (LoopPing \/ Loop)
  <2>1. /\ pc = "idle" /\ pc' = "idle" /\ timer' = 0 /\ UNCHANGED <<session, silence>>
        /\ \/ Due /\ ~activity.ping /\ activity' = Pinged
           \/ ~Due /\ activity' = activity
    BY <1>5 DEF LoopPing, Loop, Poll, ReadWhatCame, ToIdle, broker
  <2>2. state = "CONNECTED" /\ inbox = <<>> /\ inbox' = <<>> /\ silence' = silence
    BY <1>5, <2>1 DEF session
  <2>3. Left = Pinging(timer, activity) /\ timer \in Nat /\ timer =< MaxGap
    BY <1>l, <2>1, <2>2 DEF LeftCases
  <2>4. Left' = Pinging(0, activity')
    BY <1>m, <2>1, <2>2 DEF LeftCases, Pinging, ToDue, Oldest
  <2>5. activity \in Activities /\ activity.in \in Nat /\ activity.out \in Nat
    BY <1>t, Aged DEF Data
  <2>6. /\ Due => Oldest(activity) > KeepAlive
        /\ ~Due => Oldest(activity) =< KeepAlive
    BY <1>n, <2>5 DEF Due, Oldest
  <2>7. CASE Due /\ ~activity.ping /\ activity' = Pinged
    BY <1>q, <2>2, <2>3, <2>4, <2>5, <2>6, <2>7, PingingIs, PingedIs
  <2>8. CASE ~Due /\ activity' = activity
    <3>1. Left' = Left
      BY <2>3, <2>4, <2>5, <2>6, <2>8, PingingIs
    <3> QED BY <1>c, <1>l, <1>q, <2>2, <3>1
  <2> QED BY <2>1, <2>7, <2>8
<1>6. CASE (inbox # <<>> /\ (LoopPing \/ Loop)) \/ ReadOn
  <2>1. /\ inbox # <<>> /\ UNCHANGED silence /\ (\E a, t : Read(a, t))
        /\ pc = "idle" \/ (pc = "read" /\ ~Stuck)
    BY <1>6 DEF LoopPing, Loop, ReadOn, Poll, ReadWhatCame, broker, Stuck
  <2>2. state = "CONNECTED"
    BY <2>1 DEF Read, ReadFramed, ReadMisframed, Stop, Gone
  <2>3. /\ pc' \in {"idle", "read"} /\ timer' = 0
        /\ pc' = "read" => Stuck'
        /\ pc' = "idle" => Len(inbox') < Len(inbox)
    BY <2>1, ReadDrops
  <2>n. PICK n : n = Len(inbox) - 1
    OBVIOUS
  <2>4. n \in Nat /\ Len(inbox) = n + 1 /\ Gaps(n) \in Nat /\ Gaps(n + 1) = Gaps(n) + MaxGap
    <3>1. inbox \in Seq(Packets)
      BY <1>t DEF Data
    <3>2. n \in Nat /\ Len(inbox) = n + 1
      BY <2>1, <2>n, <3>1
    <3> QED BY <3>2, GapsGrow
  <2>5. Rounds + SocketTimeout + Gaps(n) =< Left
    <3>1. CASE pc = "idle"
      <4>1. Left = Rounds + SocketTimeout + (Gaps(n) + MaxGap) - timer /\ timer \in Nat /\ timer =< MaxGap
        BY <1>l, <2>1, <2>4, <3>1 DEF LeftCases
      <4> QED BY <1>n, <2>4, <4>1
    <3>2. CASE pc = "read" /\ ~Stuck
      <4>1. /\ Left = SocketTimeout - timer + Rounds + SocketTimeout + Gaps(n)
            /\ timer \in Nat /\ timer =< SocketTimeout
        BY <1>l, <2>n, <3>2 DEF LeftCases
      <4> QED BY <1>n, <2>4, <4>1
    <3> QED BY <2>1, <3>1, <3>2
  <2>6. Left' =< Rounds + SocketTimeout + Gaps(n)
    <3>1. CASE pc' = "read"
      <4>1. Left' = SocketTimeout - 0 + Rounds
        BY <1>m, <2>3, <3>1 DEF LeftCases, Rounds
      <4> QED BY <1>n, <2>4, <4>1
    <3>2. CASE pc' = "idle" /\ inbox' = <<>>
      <4>1. Left' =< Rounds /\ Left' \in Nat
        BY <1>m, <3>2 DEF LeftCases, Rounds
      <4> QED BY <1>n, <2>4, <4>1
    <3>3. CASE pc' = "idle" /\ inbox' # <<>>
      <4>1. Left' = Rounds + SocketTimeout + Gaps(Len(inbox')) - 0 /\ Len(inbox') \in Nat
        BY <1>m, <2>3, <3>3 DEF LeftCases, Rounds, Gaps
      <4>2. Len(inbox') =< n
        BY <2>3, <2>4, <3>3, <4>1
      <4>3. Gaps(Len(inbox')) \in Nat /\ Gaps(Len(inbox')) =< Gaps(n)
        BY <2>4, <4>1, <4>2, GapsGrow
      <4> QED BY <1>n, <2>4, <4>1, <4>3
    <3> QED BY <2>3, <3>1, <3>2, <3>3
  <2>7. Left' =< Left
    BY <1>c, <1>d, <1>l, <1>m, <1>n, <2>2, <2>4, <2>5, <2>6
  <2> QED BY <1>q, <2>1, <2>2, <2>7
<1>7. CASE ReadTimeOut
  <2>1. /\ pc = "read" /\ Stuck /\ pc' = "idle" /\ inbox' = <<>> /\ UNCHANGED <<state, silence>>
    BY <1>7 DEF ReadTimeOut, ToIdle, Stuck, broker
  <2>2. Left = SocketTimeout - timer + Rounds /\ timer \in Nat /\ timer =< SocketTimeout
    BY <1>l, <2>1 DEF LeftCases
  <2>3. Left' =< Rounds /\ Left' \in Nat
    BY <1>m, <2>1 DEF LeftCases, Rounds
  <2>4. Left' =< Left
    BY <1>n, <2>2, <2>3
  <2> QED BY <1>q, <2>1, <2>4
<1>8. CASE ConnAck \/ Send \/ PingResp \/ TheRest
  <2>1. silence' = 0
    BY <1>8 DEF ConnAck, Send, PingResp, Arrive, TheRest
  <2> QED BY <1>d, <1>m, <1>n, <2>1
<1>9. CASE Tick /\ ~HeldUp
  <2>1. /\ UNCHANGED <<pc, state, link, inbox, framed>> /\ timer' = timer + 1
        /\ silence' \in {0, silence + 1}
        /\ pc \in {"idle", "write"} => timer < MaxGap
        /\ pc = "read" => timer < SocketTimeout
        /\ state = "CONNECTED"
    BY <1>9, <1>n, <1>t DEF Tick, HeldUp, session, Data
  <2>2. pc \in {"idle", "read", "write"} /\ LeftCases /\ LeftCases' /\ Left \in Nat /\ Left' \in Nat
    BY <1>c, <1>d, <1>l, <1>m, <1>t, <2>1 DEF Data
  <2>3. Left' =< Left - 1
    <3>1. CASE pc = "read"
      <4>1. Stuck' = Stuck
        BY <2>1 DEF Stuck
      <4>2. Left = Waiting(timer, Len(inbox), Stuck) /\ Left' = Waiting(timer + 1, Len(inbox), Stuck)
        BY <2>1, <3>1, <4>1 DEF Left, Waiting, Rounds, Gaps
      <4> DEFINE more == IF Stuck THEN 0 ELSE SocketTimeout + Gaps(Len(inbox) - 1)
      <4>3. more \in Nat
        <5>1. ~Stuck => Len(inbox) - 1 \in Nat
          BY <2>2, <3>1 DEF LeftCases
        <5>2. ~Stuck => Gaps(Len(inbox) - 1) \in Nat
          BY <5>1, GapsGrow
        <5> QED BY <1>n, <5>2
      <4>4. Left = SocketTimeout - timer + Rounds + more /\ Left' = SocketTimeout - (timer + 1) + Rounds + more
        BY <4>2 DEF Waiting
      <4>5. timer \in Nat
        BY <2>2 DEF LeftCases
      <4> HIDE DEF more
      <4> QED BY <1>n, <4>3, <4>4, <4>5
    <3>2. CASE pc # "read" /\ inbox # <<>>
      <4>1. /\ Left = Rounds + SocketTimeout + Gaps(Len(inbox)) - timer
            /\ Left' = Rounds + SocketTimeout + Gaps(Len(inbox)) - (timer + 1)
        BY <2>1, <3>2 DEF Left, Reading, Rounds, Gaps
      <4>2. timer \in Nat /\ Gaps(Len(inbox)) \in Nat
        BY <2>2, GapsGrow DEF LeftCases
      <4> QED BY <1>n, <4>1, <4>2
    <3>3. CASE pc # "read" /\ inbox = <<>>
      <4>1. link # "none"
        BY <1>t, <2>1 DEF ConnInv
      <4>2. activity' = Activity(Older(activity.in, KeepAlive + 1),
                                 Older(activity.out, KeepAlive + 1), activity.ping)
        BY <1>9, <4>1 DEF Tick
      <4>3. Left = Pinging(timer, activity) /\ Left' = Pinging(timer + 1, activity')
        BY <2>1, <3>3 DEF Left, Pinging, ToDue, Oldest
      <4>4. timer \in Nat /\ activity \in Activities
        BY <1>t DEF Data
      <4> QED BY <2>1, <2>2, <3>3, <4>2, <4>3, <4>4, PingingTick
    <3> QED BY <2>2, <3>1, <3>2, <3>3
  <2>4. \A s, t, a, b, n \in Nat : s + a =< n /\ b =< a - 1 /\ t \in {0, s + 1} => t + b =< n
    OBVIOUS
  <2>5. silence' \in Nat
    BY <1>t, <2>1
  <2> QED BY <1>c, <1>n, <1>t, <2>1, <2>2, <2>3, <2>4, <2>5, Zenon
<1>10. CASE Tick /\ HeldUp
  <2>1. /\ UNCHANGED <<pc, state, link, inbox, framed, timer>> /\ pc = "write"
        /\ silence' \in {0, silence} /\ state = "CONNECTED"
    BY <1>10 DEF Tick, HeldUp, session
  <2>2. LeftCases /\ LeftCases' /\ Left \in Nat /\ Left' \in Nat
    BY <1>c, <1>d, <1>l, <1>m, <2>1
  <2>3. Left' =< Left
    <3>1. CASE inbox # <<>>
      <4>1. Left' = Left
        BY <2>1, <3>1 DEF Left, Reading, Rounds, Gaps
      <4> QED BY <2>2, <4>1
    <3>2. CASE inbox = <<>>
      <4>1. link # "none"
        BY <1>t, <2>1 DEF ConnInv
      <4>2. activity' = Activity(Older(activity.in, KeepAlive + 1),
                                 Older(activity.out, KeepAlive + 1), activity.ping)
        BY <1>10, <4>1 DEF Tick
      <4>3. Left = Pinging(timer, activity) /\ Left' = Pinging(timer, activity')
        BY <2>1, <3>2 DEF Left, Pinging, ToDue, Oldest
      <4>4. timer \in Nat /\ timer =< MaxGap /\ activity \in Activities
        BY <1>t, <2>1, <2>2 DEF Data, LeftCases
      <4> QED BY <4>2, <4>3, <4>4, PingingHeld
    <3> QED BY <3>1, <3>2
  <2>4. silence' \in Nat /\ silence' =< silence /\ silence \in Nat
    BY <1>n, <1>t, <2>1 DEF Data
  <2>5. silence + Left =< NoticeBy
    BY <1>c, <2>1
  <2>6. \A s, t, a, b, n \in Nat : s + a =< n /\ b =< a /\ t =< s => t + b =< n
    OBVIOUS
  <2>7. NoticeBy \in Nat
    BY <1>n
  <2> QED BY <2>2, <2>3, <2>4, <2>5, <2>6, <2>7, Zenon
<1> QED BY <1>1, <1>2, <1>3, <1>4, <1>5, <1>6, <1>7, <1>8, <1>9, <1>10 DEF Next

\* A broker that has gone silent is noticed in bounded time, whatever it had sent, wherever
\* in a packet it stopped and however long the time-outs are.
THEOREM SilentBrokerAlwaysNoticed == Spec => []SilentBrokerNoticed
<1>1. Init => Queue /\ WaitInv /\ SilentInv
  BY TimesAssumption DEF Init, Queue, WaitInv, TimerInv, SilentInv
<1>2. TypeInv /\ Queue /\ WaitInv /\ SilentInv => SilentBrokerNoticed
  <2> SUFFICES ASSUME TypeInv, Queue, WaitInv, SilentInv, state = "CONNECTED"
               PROVE  silence =< NoticeBy
    BY DEF SilentBrokerNoticed
  <2>1. pc # "connect" /\ silence \in Nat
    BY DEF TypeInv, Data, ConnInv
  <2>2. Left \in Nat /\ silence + Left =< NoticeBy /\ NoticeBy \in Nat
    BY <2>1, LeftBound, NoticeByIs, TimesAssumption DEF SilentInv
  <2> QED BY <2>1, <2>2
<1> QED BY <1>1, <1>2, InitTypeInv, NextTypeInv, NextQueue, NextWait, NextSilent, PTL DEF Spec
=============================================================================
