----------------------------- MODULE EthSocket ------------------------------
(***************************************************************************)
(* The W5500's sockets and those who share them: w5500/src/utility/        *)
(* socket.c, a TCP client (EthernetClient.c) and a TCP server              *)
(* (EthernetServer.c) whose connections the main loop reads.               *)
(*                                                                         *)
(* The receive buffer of a socket is a window on the stream of its         *)
(* connection: the chip takes bytes in while there is room behind RX_RD,   *)
(* the code reads ahead of RX_RD with a pointer of its own and moves RX_RD *)
(* up only now and then (Sock_RECV), from two cached numbers, RX_RSR and   *)
(* RX_inc.  Pointers count from the opening of the socket, and a byte is   *)
(* known by its place in the stream: so none can be taken for another.     *)
(* External: the chip and the peers.  FIN_WAIT stands for the states of a  *)
(* close under way.  Sending and UDP are left out.                         *)
(***************************************************************************)
EXTENDS Integers, Sequences, FiniteSets

CONSTANTS
  NumSockets,       \* MAX_SOCK_NUM
  BufSize,          \* SSIZE
  RecvAt, IncMod,   \* 250, and 256 for the uint8_t RX_inc
  MaxLen,           \* bound: bytes asked for by one read
  MaxBytes          \* bound: bytes of one connection

ASSUME SizesAssumption ==
  /\ NumSockets \in Nat \ {0} /\ BufSize \in Nat \ {0}
  /\ RecvAt \in Nat \ {0} /\ IncMod \in Nat /\ RecvAt =< IncMod
  /\ MaxLen \in Nat \ {0} /\ MaxBytes \in Nat

Sockets == 0 .. NumSockets - 1
None == NumSockets                       \* sockindex of an object without a socket

VARIABLES
  status,           \* SnSR
  received,         \* how many bytes came since the socket was opened
  returned,         \* the chip's RX_RD
  RX_RSR, RX_RD, RX_inc,                 \* state[s]
  server_port,      \* eth_server_port[s] is the server's port
  client,           \* sockindex of the client
  connecting,       \* the client waits in connect_ip
  served,           \* the connection the server's user works on
  out               \* what the last read returned

chip  == <<status, received, returned>>
cache == <<RX_RSR, RX_RD, RX_inc>>
users == <<server_port, client, connecting, served>>
vars  == <<chip, cache, users, out>>

RSR(s) == received[s] - returned[s]      \* the chip's RX_RSR register

-----------------------------------------------------------------------------
(* socket.c: taking a socket.                                              *)

\* The first one that is closed, else the first one that is closing.
In(st, snsr) == {s \in Sockets : st[s] = snsr}
Lowest(S) == CHOOSE s \in S : \A t \in S : s =< t
Free(st) == IF In(st, "CLOSED") # {} THEN Lowest(In(st, "CLOSED"))
            ELSE IF In(st, "FIN_WAIT") # {} THEN Lowest(In(st, "FIN_WAIT"))
            ELSE None

Anew(s) ==
  /\ received' = [received EXCEPT ![s] = 0]
  /\ returned' = [returned EXCEPT ![s] = 0]
  /\ RX_RD' = [RX_RD EXCEPT ![s] = 0]
  /\ RX_inc' = [RX_inc EXCEPT ![s] = 0]

\* The count cached for the last user stays.
SlipFresh(s, counts) == Anew(s) /\ RX_RSR' = counts

\* socketBegin's last half: the chip's buffer and the cached numbers start anew.
Fresh(s, counts) == Anew(s) /\ RX_RSR' = [counts EXCEPT ![s] = 0]

-----------------------------------------------------------------------------
(* socket.c: reading.                                                      *)

Available(s) == IF RX_RSR[s] = 0 THEN RSR(s) - RX_inc[s] ELSE RX_RSR[s]

\* read_data: the n bytes that lie behind the code's own pointer.
ReadData(s, n) == [i \in 1 .. n |-> RX_RD[s] + i]

RecvNow(inc, rest) == inc >= RecvAt \/ rest = 0

\* W5100_socketRecv for len bytes.  Nothing read leaves only the cached count.
Recv(s, len) ==
  LET cached == IF RX_RSR[s] < len THEN RSR(s) - RX_inc[s] ELSE RX_RSR[s]
      n      == IF cached > len THEN len ELSE cached
      inc    == RX_inc[s] + n
      rest   == cached - n
  IN
  /\ RX_RSR' = [RX_RSR EXCEPT ![s] = rest]
  /\ IF cached = 0
     THEN UNCHANGED <<out, RX_RD, RX_inc, returned>>
     ELSE /\ out' = ReadData(s, n)
          /\ RX_RD' = [RX_RD EXCEPT ![s] = @ + n]
          /\ IF RecvNow(inc, rest)
             THEN /\ RX_inc' = [RX_inc EXCEPT ![s] = 0]
                  /\ returned' = [returned EXCEPT ![s] = RX_RD'[s]]
             ELSE /\ RX_inc' = [RX_inc EXCEPT ![s] = inc % IncMod]
                  /\ UNCHANGED returned
  /\ UNCHANGED <<status, received, users>>

\* W5100_socketRecvAvailable.
Look(s) == RX_RSR' = [RX_RSR EXCEPT ![s] = Available(s)]

\* Sock_DISCON.
Disconnected(s) == IF status[s] \in {"ESTABLISHED", "CLOSE_WAIT"} THEN "FIN_WAIT" ELSE "CLOSED"

-----------------------------------------------------------------------------
(* EthernetClient.c                                                        *)

\* The main loop does one thing at a time: it waits in a connect, it handles a
\* request, or it turns to the client or the server.
Idle == ~connecting /\ served = None

\* connect_ip: an old socket is disconnected and forgotten, a new one taken.
Connect ==
  /\ Idle
  /\ LET after == IF client # None /\ status[client] # "CLOSED"
                  THEN [status EXCEPT ![client] = Disconnected(client)] ELSE status
         s == Free(after)
     IN /\ client' = s
        /\ IF s = None
           THEN /\ status' = after
                /\ UNCHANGED <<received, returned, cache, server_port, connecting>>
           ELSE /\ status' = [after EXCEPT ![s] = "SYNSENT"]
                /\ server_port' = [server_port EXCEPT ![s] = FALSE]
                /\ connecting' = TRUE
                /\ Fresh(s, RX_RSR)
  /\ UNCHANGED <<served, out>>

\* Its wait ends: connected, or refused and the socket's index kept.
Connected ==
  /\ connecting /\ status[client] \in {"ESTABLISHED", "CLOSE_WAIT", "CLOSED"}
  /\ connecting' = FALSE
  /\ UNCHANGED <<chip, cache, server_port, client, served, out>>

ConnectTimeOut ==
  /\ connecting
  /\ status' = [status EXCEPT ![client] = "CLOSED"]
  /\ client' = None /\ connecting' = FALSE
  /\ UNCHANGED <<received, returned, cache, server_port, served, out>>

ClientAvailable ==
  /\ Idle /\ client # None
  /\ Look(client)
  /\ UNCHANGED <<chip, RX_RD, RX_inc, users, out>>

ClientRead ==
  /\ Idle /\ client # None
  /\ \E len \in 1 .. MaxLen : Recv(client, len)

\* stop: closed in the end, gracefully or after a second by force.
ClientStop ==
  /\ Idle /\ client # None
  /\ status' = [status EXCEPT ![client] = "CLOSED"]
  /\ client' = None
  /\ UNCHANGED <<received, returned, cache, server_port, connecting, served, out>>

-----------------------------------------------------------------------------
(* EthernetServer.c, and httpd.c as its user.                              *)

Ours    == {s \in Sockets : server_port[s]}
Open    == {s \in Ours : status[s] \in {"ESTABLISHED", "CLOSE_WAIT"}}
HasData == {s \in Open : Available(s) > 0}
Over    == {s \in Open \ HasData : status[s] = "CLOSE_WAIT"}

\* available: the connections the peer has closed and that are read are closed, the
\* last of those with data is handed out, and a socket is opened to listen if none
\* does.
ServerAvailable ==
  /\ Idle
  /\ served' = IF HasData = {} THEN None
               ELSE CHOOSE s \in HasData : \A t \in HasData : t =< s
  /\ LET after == [s \in Sockets |-> IF s \in Over THEN "FIN_WAIT" ELSE status[s]]
         ports == [s \in Sockets |-> server_port[s] /\ status[s] # "CLOSED"]
         looks == [s \in Sockets |-> IF s \in Open THEN Available(s) ELSE RX_RSR[s]]
         s == Free(after)
     IN IF (\E t \in Ours : status[t] = "LISTEN") \/ s = None
        THEN /\ status' = after
             /\ server_port' = ports
             /\ RX_RSR' = looks
             /\ UNCHANGED <<received, returned, RX_RD, RX_inc>>
        ELSE /\ \/ /\ status' = [after EXCEPT ![s] = "LISTEN"]
                   /\ server_port' = [ports EXCEPT ![s] = TRUE]
                \/ /\ status' = [after EXCEPT ![s] = "CLOSED"]    \* the chip has not opened it
                   /\ server_port' = ports
             /\ Fresh(s, looks)
  /\ UNCHANGED <<client, connecting, out>>

ServedRead ==
  /\ served # None
  /\ \E len \in 1 .. MaxLen : Recv(served, len)

ServedStop ==
  /\ served # None
  /\ status' = [status EXCEPT ![served] = "CLOSED"]
  /\ served' = None
  /\ UNCHANGED <<received, returned, cache, server_port, client, connecting, out>>

-----------------------------------------------------------------------------
(* The chip and the peers.                                                 *)

Establish(s) ==
  /\ status[s] \in {"SYNSENT", "LISTEN"}
  /\ status' = [status EXCEPT ![s] = "ESTABLISHED"]
  /\ UNCHANGED <<received, returned, cache, users, out>>

\* A byte is taken in if there is room: else the peer's window is shut.
Arrive(s) ==
  /\ status[s] = "ESTABLISHED" /\ RSR(s) < BufSize /\ received[s] < MaxBytes
  /\ received' = [received EXCEPT ![s] = @ + 1]
  /\ UNCHANGED <<status, returned, cache, users, out>>

PeerCloses(s) ==
  /\ status[s] = "ESTABLISHED"
  /\ status' = [status EXCEPT ![s] = "CLOSE_WAIT"]
  /\ UNCHANGED <<received, returned, cache, users, out>>

\* Refused, reset, given up, or a close that is done.
ChipCloses(s) ==
  /\ status[s] \notin {"CLOSED", "LISTEN"}
  /\ status' = [status EXCEPT ![s] = "CLOSED"]
  /\ UNCHANGED <<received, returned, cache, users, out>>

-----------------------------------------------------------------------------
Init ==
  /\ status = [s \in Sockets |-> "CLOSED"]
  /\ received = [s \in Sockets |-> 0]
  /\ returned = [s \in Sockets |-> 0]
  /\ RX_RSR = [s \in Sockets |-> 0] /\ RX_RD = [s \in Sockets |-> 0]
  /\ RX_inc = [s \in Sockets |-> 0]
  /\ server_port = [s \in Sockets |-> FALSE]
  /\ client = None /\ connecting = FALSE /\ served = None
  /\ out = <<>>

Next ==
  \/ Connect \/ Connected \/ ConnectTimeOut
  \/ ClientAvailable \/ ClientRead \/ ClientStop
  \/ ServerAvailable \/ ServedRead \/ ServedStop
  \/ \E s \in Sockets : Establish(s) \/ Arrive(s) \/ PeerCloses(s) \/ ChipCloses(s)

Spec == Init /\ [][Next]_vars

\* The main loop asks the server on every turn, however often the client connects in
\* between; a connect returns within its time-out; what handles a request stops the
\* connection in the end.
FairSpec ==
  Spec /\ SF_vars(ServerAvailable) /\ WF_vars(Connected \/ ConnectTimeOut)
       /\ WF_vars(ServedStop)

-----------------------------------------------------------------------------
(* Properties                                                              *)

TypeOK ==
  /\ status \in [Sockets -> {"CLOSED", "SYNSENT", "LISTEN", "ESTABLISHED", "CLOSE_WAIT", "FIN_WAIT"}]
  /\ received \in [Sockets -> Nat]
  /\ returned \in [Sockets -> Nat] /\ RX_RD \in [Sockets -> Nat]
  /\ RX_RSR \in [Sockets -> Nat] /\ RX_inc \in [Sockets -> 0 .. IncMod - 1]
  /\ server_port \in [Sockets -> BOOLEAN]
  /\ client \in Sockets \cup {None} /\ served \in Sockets \cup {None}
  /\ connecting \in BOOLEAN
  /\ connecting => client \in Sockets
  /\ out \in Seq(Nat)

\* How the cached numbers hang together: the code reads RX_inc bytes ahead of the
\* chip, and counts no byte that is not there.
CacheSound ==
  \A s \in Sockets :
    /\ RX_RD[s] = returned[s] + RX_inc[s]
    /\ RX_RD[s] + RX_RSR[s] =< received[s]
    /\ RX_RSR[s] = 0 => RX_inc[s] = 0

Unread == [s \in Sockets |-> [i \in 1 .. received[s] - RX_RD[s] |-> RX_RD[s] + i]]

Streams == INSTANCE ByteStream WITH Bytes <- 1 .. MaxBytes, unread <- Unread

\* Each socket is a stream: no byte is lost, read twice or made up, and none of the
\* connection that had the socket before is read.
ImplementsByteStream == Streams!Spec

=============================================================================
