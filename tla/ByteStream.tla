----------------------------- MODULE ByteStream -----------------------------
(***************************************************************************)
(* What the receiving half of the socket layer promises its callers: for   *)
(* every socket a first-in first-out stream of bytes, empty when the       *)
(* socket is opened, from which a read takes one or more of the oldest.    *)
(***************************************************************************)
EXTENDS Naturals, Sequences

CONSTANTS Sockets, Bytes

VARIABLES
  unread,           \* bytes received on each socket and not read
  out               \* what the last read returned

streamVars == <<unread, out>>

Init == unread = [s \in Sockets |-> <<>>] /\ out = <<>>

Open(s) ==
  /\ unread' = [unread EXCEPT ![s] = <<>>]
  /\ UNCHANGED out

Arrive(s) ==
  /\ \E b \in Bytes : unread' = [unread EXCEPT ![s] = Append(@, b)]
  /\ UNCHANGED out

Read(s) ==
  \E n \in 1 .. Len(unread[s]) :
    /\ out' = SubSeq(unread[s], 1, n)
    /\ unread' = [unread EXCEPT ![s] = SubSeq(@, n + 1, Len(@))]

Next == \E s \in Sockets : Open(s) \/ Arrive(s) \/ Read(s)
Spec == Init /\ [][Next]_streamVars
=============================================================================
