---------------------------- MODULE W5500Proofs ----------------------------
(***************************************************************************)
(* Proofs about the sockets and the DHCP client of the W5500 port.  Of     *)
(* EthSocket, for every number of sockets, size of a buffer and distance   *)
(* of Sock_RECVs: that the numbers W5100_socketRecv caches agree with the  *)
(* chip, and that each socket is therefore a stream of bytes.  Of Dhcp,    *)
(* for any servers, times, time-outs and numbers of answers in flight: the *)
(* types, the chip's address, the server a REQUEST names, and that a lease *)
(* is not renewed late.                                                    *)
(***************************************************************************)
EXTENDS EthSocket, Dhcp, SequenceTheorems, WellFoundedInduction, TLAPS

Counters ==
  /\ received \in [Sockets -> Nat] /\ returned \in [Sockets -> Nat]
  /\ RX_RD \in [Sockets -> Nat] /\ RX_RSR \in [Sockets -> Nat]
  /\ RX_inc \in [Sockets -> 0 .. IncMod - 1]

UsersType ==
  /\ status \in [Sockets -> {"CLOSED", "SYNSENT", "LISTEN", "ESTABLISHED", "CLOSE_WAIT", "FIN_WAIT"}]
  /\ server_port \in [Sockets -> BOOLEAN]
  /\ client \in Sockets \cup {None} /\ served \in Sockets \cup {None}
  /\ connecting \in BOOLEAN
  /\ connecting => client \in Sockets

CacheInv == Counters /\ CacheSound
IInv     == UsersType /\ CacheInv /\ out \in Seq(Nat)

\* Counts that could be cached.
Honest(counts) ==
  /\ counts \in [Sockets -> Nat]
  /\ \A s \in Sockets : /\ RX_RD[s] + counts[s] =< received[s]
                        /\ counts[s] = 0 => RX_inc[s] = 0

LEMMA Typed == IInv => TypeOK
BY DEF IInv, UsersType, CacheInv, Counters, TypeOK

LEMMA SocketNumbers == Sockets \subseteq Nat /\ Sockets = 0 .. NumSockets - 1 /\ None \notin Sockets
BY SizesAssumption DEF Sockets, None

-----------------------------------------------------------------------------
(* Choosing a socket.                                                      *)

LEMMA Least ==
  ASSUME NEW S, S \subseteq Nat, S # {}
  PROVE  \E s \in S : \A t \in S : s =< t
<1>1. PICK s \in S : \A t \in S : ~(<<t, s>> \in OpToRel(<, Nat))
  BY NatLessThanWellFounded, WFMin, Zenon
<1>2. \A a, b \in Nat : <<a, b>> \in OpToRel(<, Nat) <=> a < b
  BY Zenon DEF OpToRel
<1>3. \A t \in S : ~(t < s)
  BY <1>1, <1>2
<1> QED BY <1>3

LEMMA Greatest ==
  ASSUME NEW n \in Nat, NEW S, S \subseteq 0 .. n, S # {}
  PROVE  \E s \in S : \A t \in S : t =< s
<1> DEFINE T == {m \in Nat : n - m \in S}
<1>1. T \subseteq Nat /\ T # {}
  <2>1. PICK s \in S : s \in 0 .. n
    OBVIOUS
  <2>2. n - s \in Nat /\ n - (n - s) = s
    BY <2>1
  <2> QED BY <2>2
<1>2. PICK m \in T : \A t \in T : m =< t
  <2> HIDE DEF T
  <2> QED BY <1>1, Least
<1>3. \A t \in S : t =< n - m
  <2> TAKE t \in S
  <2>1. n - t \in Nat /\ n - (n - t) = t /\ t \in Int
    OBVIOUS
  <2>2. n - t \in T
    BY <2>1
  <2> QED BY <1>2, <2>2, <2>1
<1> QED BY <1>2, <1>3

\* socketBegin finds a socket or none (socket.c 95-121).
LEMMA FreeSocket ==
  ASSUME NEW st
  PROVE  Free(st) \in Sockets \cup {None}
<1>1. \A S \in SUBSET Sockets : S # {} => Lowest(S) \in S
  <2> TAKE S \in SUBSET Sockets
  <2> HAVE S # {}
  <2>1. \E s \in S : \A t \in S : s =< t
    BY Least, SocketNumbers
  <2> QED BY <2>1 DEF Lowest
<1>2. In(st, "CLOSED") \in SUBSET Sockets /\ In(st, "FIN_WAIT") \in SUBSET Sockets
  BY DEF In
<1> QED BY <1>1, <1>2 DEF Free

-----------------------------------------------------------------------------
(* The stream a socket's numbers stand for.                                *)

Between(a, r) == [i \in 1 .. r - a |-> a + i]

\* Its oldest bytes, what is left without them, and one more byte.
LEMMA StreamOf ==
  ASSUME NEW a \in Nat, NEW r \in Nat, a =< r
  PROVE  /\ Between(a, r) \in Seq(Nat) /\ Len(Between(a, r)) = r - a
         /\ \A n \in 1 .. r - a :
              /\ SubSeq(Between(a, r), 1, n) = [i \in 1 .. n |-> a + i]
              /\ SubSeq(Between(a, r), n + 1, r - a) = Between(a + n, r)
         /\ Append(Between(a, r), r + 1) = Between(a, r + 1)
<1>1. \A b, q \in Nat : b =< q => /\ Between(b, q) \in Seq(Nat) /\ Len(Between(b, q)) = q - b
                                  /\ \A i \in 1 .. q - b : Between(b, q)[i] = b + i
  <2> TAKE b, q \in Nat
  <2> HAVE b =< q
  <2>1. q - b \in Nat /\ \A i \in 1 .. q - b : b + i \in Nat
    OBVIOUS
  <2> QED BY <2>1 DEF Between
<1> DEFINE u == Between(a, r)
<1>2. u \in Seq(Nat) /\ Len(u) = r - a /\ r - a \in Nat /\ \A i \in 1 .. r - a : u[i] = a + i
  BY <1>1
<1>3. ASSUME NEW n \in 1 .. r - a
      PROVE  SubSeq(u, 1, n) = [i \in 1 .. n |-> a + i]
  <2> HIDE DEF u
  <2>1. /\ SubSeq(u, 1, n) \in Seq(Nat) /\ Len(SubSeq(u, 1, n)) = n
        /\ \A i \in 1 .. n : SubSeq(u, 1, n)[i] = u[i]
    BY <1>2
  <2>2. \A i \in 1 .. n : u[i] = a + i /\ a + i \in Nat
    BY <1>2
  <2>3. /\ [i \in 1 .. n |-> a + i] \in Seq(Nat) /\ Len([i \in 1 .. n |-> a + i]) = n
    BY <2>2
  <2>4. \A i \in 1 .. Len(SubSeq(u, 1, n)) : SubSeq(u, 1, n)[i] = [j \in 1 .. n |-> a + j][i]
    BY <2>1, <2>2
  <2> QED BY <2>1, <2>3, <2>4, SeqEqual
<1>4. ASSUME NEW n \in 1 .. r - a
      PROVE  SubSeq(u, n + 1, r - a) = Between(a + n, r)
  <2> DEFINE v == SubSeq(u, n + 1, r - a)
             w == Between(a + n, r)
  <2>1. r - (a + n) = r - a - n /\ r - a - n \in Nat /\ a + n \in Nat /\ a + n =< r
    BY <1>2
  <2>2. /\ w \in Seq(Nat) /\ Len(w) = r - (a + n)
        /\ \A i \in 1 .. r - (a + n) : w[i] = a + n + i
    BY <1>1, <2>1
  <2>3. v \in Seq(Nat) /\ Len(v) = r - a - n /\ \A i \in 1 .. r - a - n : v[i] = u[n + i]
    <3> HIDE DEF u
    <3> QED BY <1>2, <2>1
  <2>4. \A i \in 1 .. r - a - n : n + i \in 1 .. r - a /\ u[n + i] = a + n + i
    <3> HIDE DEF u
    <3>1. \A i \in 1 .. r - a - n : n + i \in 1 .. r - a /\ a + (n + i) = a + n + i
      OBVIOUS
    <3> QED BY <1>2, <3>1
  <2>5. \A i \in 1 .. Len(v) : v[i] = w[i]
    <3> HIDE DEF v, w, u
    <3> QED BY <2>1, <2>2, <2>3, <2>4
  <2>6. Len(v) = Len(w)
    <3> HIDE DEF v, w, u
    <3> QED BY <2>1, <2>2, <2>3
  <2> HIDE DEF v, w
  <2>7. v = w
    BY <2>2, <2>3, <2>5, <2>6, SeqEqual
  <2> QED BY <2>7 DEF v, w
<1>5. Append(u, r + 1) = Between(a, r + 1)
  <2> DEFINE w == Between(a, r + 1)
  <2>1. r + 1 \in Nat /\ a =< r + 1 /\ (r + 1) - a = r - a + 1 /\ r - a \in Nat
    OBVIOUS
  <2>2. /\ w \in Seq(Nat) /\ Len(w) = r - a + 1
        /\ \A i \in 1 .. r - a + 1 : w[i] = a + i
    BY <1>1, <2>1
  <2> HIDE DEF u, w
  <2>3. /\ Append(u, r + 1) \in Seq(Nat) /\ Len(Append(u, r + 1)) = r - a + 1
        /\ (\A i \in 1 .. r - a : Append(u, r + 1)[i] = u[i])
        /\ Append(u, r + 1)[r - a + 1] = r + 1
    BY <1>2, <2>1, AppendProperties
  <2>4. \A i \in 1 .. Len(Append(u, r + 1)) : Append(u, r + 1)[i] = w[i]
    BY <1>2, <2>1, <2>2, <2>3
  <2>5. Append(u, r + 1) = w
    BY <2>2, <2>3, <2>4, SeqEqual
  <2> QED BY <2>5 DEF w
<1> QED BY <1>2, <1>3, <1>4, <1>5

LEMMA UnreadOf ==
  ASSUME CacheInv, NEW s \in Sockets
  PROVE  /\ received[s] \in Nat /\ RX_RD[s] \in Nat /\ RX_RD[s] =< received[s]
         /\ Unread[s] = Between(RX_RD[s], received[s])
<1>1. received[s] \in Nat /\ RX_RD[s] \in Nat /\ RX_RSR[s] \in Nat
      /\ RX_RD[s] + RX_RSR[s] =< received[s]
  BY DEF CacheInv, Counters, CacheSound
<1>2. Unread[s] = Between(RX_RD[s], received[s])
  BY DEF Unread, Between
<1> QED BY <1>1, <1>2

\* What leaves the numbers alone leaves the stream alone.
LEMMA SameUnread ==
  ASSUME UNCHANGED <<received, RX_RD>>
  PROVE  Unread' = Unread
BY DEF Unread

\* A socket taken anew is empty, whatever its last user left.
LEMMA FreshStep ==
  ASSUME Counters, CacheSound, NEW s \in Sockets, NEW counts, Honest(counts), Fresh(s, counts)
  PROVE  /\ CacheInv'
         /\ Unread' = [Unread EXCEPT ![s] = <<>>]
<1>1. /\ received' = [received EXCEPT ![s] = 0] /\ returned' = [returned EXCEPT ![s] = 0]
      /\ RX_RD' = [RX_RD EXCEPT ![s] = 0] /\ RX_inc' = [RX_inc EXCEPT ![s] = 0]
      /\ RX_RSR' = [counts EXCEPT ![s] = 0]
  BY DEF Fresh, Anew
<1>2. 0 \in 0 .. IncMod - 1
  BY SizesAssumption
<1>3. Counters'
  BY <1>1, <1>2 DEF Counters, Honest
<1>4. CacheSound'
  <2> SUFFICES ASSUME NEW t \in Sockets
               PROVE  /\ RX_RD'[t] = returned'[t] + RX_inc'[t]
                      /\ RX_RD'[t] + RX_RSR'[t] =< received'[t]
                      /\ RX_RSR'[t] = 0 => RX_inc'[t] = 0
    BY DEF CacheSound
  <2>1. CASE t = s
    BY <1>1, <2>1 DEF Counters, Honest
  <2>2. CASE t # s
    <3>1. /\ received'[t] = received[t] /\ returned'[t] = returned[t] /\ RX_RD'[t] = RX_RD[t]
          /\ RX_inc'[t] = RX_inc[t] /\ RX_RSR'[t] = counts[t]
      BY <1>1, <2>2 DEF Counters, Honest
    <3> QED BY <3>1 DEF CacheSound, Honest
  <2> QED BY <2>1, <2>2
<1>5. Unread' = [Unread EXCEPT ![s] = <<>>]
  <2>1. Unread' = [t \in Sockets |-> [i \in 1 .. received'[t] - RX_RD'[t] |-> RX_RD'[t] + i]]
    BY DEF Unread
  <2>2. \A t \in Sockets : Unread'[t] = [Unread EXCEPT ![s] = <<>>][t]
    <3> TAKE t \in Sockets
    <3>1. CASE t = s
      <4>1. received'[t] = 0 /\ RX_RD'[t] = 0
        BY <1>1, <3>1 DEF Counters
      <4>2. Unread'[t] = [i \in 1 .. 0 - 0 |-> 0 + i]
        BY <2>1, <4>1
      <4> QED BY <3>1, <4>2 DEF Unread
    <3>2. CASE t # s
      <4>1. received'[t] = received[t] /\ RX_RD'[t] = RX_RD[t]
        BY <1>1, <3>2 DEF Counters
      <4> QED BY <2>1, <3>2, <4>1 DEF Unread
    <3> QED BY <3>1, <3>2
  <2> QED BY <2>1, <2>2 DEF Unread
<1> QED BY <1>3, <1>4, <1>5 DEF CacheInv

\* How many bytes W5100_socketRecv takes, and what is cached then (socket.c 322-366).
LEMMA RecvCounts ==
  ASSUME NEW received_s \in Nat, NEW returned_s \in Nat, NEW rsr \in Nat, NEW ahead \in 0 .. IncMod - 1,
         NEW len \in Nat \ {0}, returned_s + ahead + rsr =< received_s, rsr = 0 => ahead = 0
  PROVE  LET cached == IF rsr < len THEN received_s - returned_s - ahead ELSE rsr
             n      == IF cached > len THEN len ELSE cached
             inc    == ahead + n
             rest   == cached - n
         IN /\ cached = 0 => rsr = 0 /\ rest = 0
            /\ cached # 0 => n \in 1 .. received_s - (returned_s + ahead)
            /\ n \in Nat /\ rest \in Nat /\ inc \in Nat
            /\ returned_s + inc + rest =< received_s
            /\ returned_s + inc = returned_s + ahead + n
            /\ ~RecvNow(inc, rest) => rest # 0 /\ inc \in 0 .. IncMod - 1
<1> DEFINE cached == IF rsr < len THEN received_s - returned_s - ahead ELSE rsr
           n      == IF cached > len THEN len ELSE cached
           inc    == ahead + n
           rest   == cached - n
<1>1. cached \in Nat /\ returned_s + ahead + cached =< received_s /\ (cached = 0 => rsr = 0)
  BY SizesAssumption
<1> HIDE DEF cached
<1>2. n \in Nat /\ n =< cached /\ (cached # 0 => n > 0) /\ ahead \in Nat
  BY <1>1, SizesAssumption
<1> HIDE DEF n
<1>3. /\ rest \in Nat /\ inc \in Nat /\ returned_s + inc + rest =< received_s
      /\ returned_s + inc = returned_s + ahead + n
      /\ cached = 0 => rest = 0
      /\ cached # 0 => n \in 1 .. received_s - (returned_s + ahead)
  BY <1>1, <1>2
<1> HIDE DEF inc, rest
<1>4. ASSUME ~RecvNow(inc, rest)
      PROVE  rest # 0 /\ inc \in 0 .. IncMod - 1
  BY SizesAssumption, <1>3, <1>4 DEF RecvNow
<1> QED BY <1>1, <1>2, <1>3, <1>4 DEF cached, n, inc, rest

LEMMA Within == \A inc \in 0 .. IncMod - 1 : inc % IncMod = inc
BY SizesAssumption

\* Reading keeps the cached numbers sound, and takes the oldest bytes of the stream.
LEMMA RecvStep ==
  ASSUME CacheInv, NEW s \in Sockets, NEW len \in Nat \ {0}, Recv(s, len), out \in Seq(Nat)
  PROVE  CacheInv' /\ out' \in Seq(Nat) /\ (Streams!Read(s) \/ UNCHANGED <<Unread, out>>)
<1>n. /\ received[s] \in Nat /\ RX_RD[s] \in Nat /\ returned[s] \in Nat /\ RX_RSR[s] \in Nat
      /\ RX_inc[s] \in 0 .. IncMod - 1 /\ RX_RD[s] = returned[s] + RX_inc[s]
      /\ returned[s] + RX_inc[s] + RX_RSR[s] =< received[s] /\ (RX_RSR[s] = 0 => RX_inc[s] = 0)
  BY DEF CacheInv, Counters, CacheSound
<1> DEFINE cached == IF RX_RSR[s] < len THEN received[s] - returned[s] - RX_inc[s] ELSE RX_RSR[s]
           n      == IF cached > len THEN len ELSE cached
           inc    == RX_inc[s] + n
           rest   == cached - n
<1>1. /\ cached = 0 => RX_RSR[s] = 0 /\ rest = 0
      /\ cached # 0 => n \in 1 .. received[s] - RX_RD[s]
      /\ n \in Nat /\ rest \in Nat /\ inc \in Nat
      /\ returned[s] + inc + rest =< received[s]
      /\ returned[s] + inc = RX_RD[s] + n
      /\ ~RecvNow(inc, rest) => rest # 0 /\ inc \in 0 .. IncMod - 1
  <2>1. received[s] - (returned[s] + RX_inc[s]) = received[s] - RX_RD[s]
    BY <1>n
  <2>2. /\ cached = 0 => RX_RSR[s] = 0 /\ rest = 0
        /\ cached # 0 => n \in 1 .. received[s] - (returned[s] + RX_inc[s])
        /\ n \in Nat /\ rest \in Nat /\ inc \in Nat
        /\ returned[s] + inc + rest =< received[s]
        /\ returned[s] + inc = returned[s] + RX_inc[s] + n
        /\ ~RecvNow(inc, rest) => rest # 0 /\ inc \in 0 .. IncMod - 1
    BY <1>n, RecvCounts, Zenon
  <2> HIDE DEF cached, n, inc, rest
  <2> QED BY <1>n, <2>1, <2>2
<1>2. /\ RX_RSR' = [RX_RSR EXCEPT ![s] = rest]
      /\ UNCHANGED received
      /\ cached = 0 => UNCHANGED <<out, RX_RD, RX_inc, returned>>
      /\ cached # 0 =>
           /\ out' = ReadData(s, n)
           /\ RX_RD' = [RX_RD EXCEPT ![s] = RX_RD[s] + n]
           /\ RecvNow(inc, rest) => /\ RX_inc' = [RX_inc EXCEPT ![s] = 0]
                                    /\ returned' = [returned EXCEPT ![s] = RX_RD'[s]]
           /\ ~RecvNow(inc, rest) => /\ RX_inc' = [RX_inc EXCEPT ![s] = inc % IncMod]
                                     /\ UNCHANGED returned
  BY DEF Recv, RSR, chip
<1> HIDE DEF cached, n, inc, rest
<1>m. /\ RX_RD[s] \in Nat /\ received[s] \in Nat /\ RX_RD[s] =< received[s]
      /\ n \in Nat /\ rest \in Nat
  BY <1>1, <1>n, UnreadOf
<1>s. RX_RD[s] + n \in Nat /\ RX_RD[s] + n = RX_RD[s] + n + 0
  BY <1>m
<1>3. CASE cached = 0
  <2>1. RX_RSR' = RX_RSR
    BY <1>1, <1>2, <1>3 DEF CacheInv, Counters
  <2> QED BY <1>2, <1>3, <2>1, SameUnread DEF CacheInv, Counters, CacheSound
<1>4. CASE cached # 0
  <2>1. n \in 1 .. received[s] - RX_RD[s] /\ RX_RD[s] + n + rest =< received[s]
    BY <1>1, <1>4
  <2>2. /\ RX_RD' = [RX_RD EXCEPT ![s] = RX_RD[s] + n] /\ RX_RD'[s] = RX_RD[s] + n
    BY <1>2, <1>4 DEF CacheInv, Counters
  <2>3. PICK ahead \in 0 .. IncMod - 1, r \in Nat :
          /\ RX_inc' = [RX_inc EXCEPT ![s] = ahead] /\ returned' = [returned EXCEPT ![s] = r]
          /\ RX_RD[s] + n = r + ahead /\ (rest = 0 => ahead = 0)
    <3>1. CASE RecvNow(inc, rest)
      <4>1. 0 \in 0 .. IncMod - 1
        BY SizesAssumption
      <4>2. /\ RX_inc' = [RX_inc EXCEPT ![s] = 0]
            /\ returned' = [returned EXCEPT ![s] = RX_RD[s] + n]
        BY <1>2, <1>4, <2>2, <3>1
      <4> QED BY <1>s, <4>1, <4>2
    <3>2. CASE ~RecvNow(inc, rest)
      <4>1. inc % IncMod = inc
        BY <1>1, <3>2, Within
      <4>2. /\ RX_inc' = [RX_inc EXCEPT ![s] = inc]
            /\ returned' = [returned EXCEPT ![s] = returned[s]]
        BY <1>2, <1>4, <3>2, <4>1 DEF CacheInv, Counters
      <4> QED BY <1>n, <1>1, <3>2, <4>2
    <3> QED BY <3>1, <3>2
  <2>4. Counters'
    BY <1>2, <1>m, <1>s, <2>2, <2>3 DEF CacheInv, Counters
  <2>5. CacheSound'
    <3> SUFFICES ASSUME NEW t \in Sockets
                 PROVE  /\ RX_RD'[t] = returned'[t] + RX_inc'[t]
                        /\ RX_RD'[t] + RX_RSR'[t] =< received'[t]
                        /\ RX_RSR'[t] = 0 => RX_inc'[t] = 0
      BY DEF CacheSound
    <3>1. CASE t = s
      <4>1. /\ RX_RD'[t] = RX_RD[s] + n /\ RX_inc'[t] = ahead /\ returned'[t] = r /\ RX_RSR'[t] = rest
            /\ received'[t] = received[s]
        BY <1>2, <2>2, <2>3, <3>1 DEF CacheInv, Counters
      <4> QED BY <2>1, <2>3, <4>1
    <3>2. CASE t # s
      <4>1. /\ received'[t] = received[t] /\ returned'[t] = returned[t] /\ RX_RD'[t] = RX_RD[t]
            /\ RX_inc'[t] = RX_inc[t] /\ RX_RSR'[t] = RX_RSR[t]
        BY <1>2, <2>2, <2>3, <3>2 DEF CacheInv, Counters
      <4> QED BY <4>1 DEF CacheInv, CacheSound
    <3> QED BY <3>1, <3>2
  <2>6. /\ out' = SubSeq(Unread[s], 1, n)
        /\ n \in 1 .. Len(Unread[s])
        /\ Unread'[s] = SubSeq(Unread[s], n + 1, Len(Unread[s]))
    <3>1. /\ Unread[s] = Between(RX_RD[s], received[s]) /\ RX_RD[s] =< received[s]
          /\ Len(Unread[s]) = received[s] - RX_RD[s]
      BY <1>n, UnreadOf, StreamOf
    <3>2. Unread'[s] = Between(RX_RD[s] + n, received[s])
      BY <1>2, <2>2 DEF Unread, Between
    <3>3. out' = [i \in 1 .. n |-> RX_RD[s] + i]
      BY <1>2, <1>4 DEF ReadData
    <3>4. /\ SubSeq(Between(RX_RD[s], received[s]), 1, n) = [i \in 1 .. n |-> RX_RD[s] + i]
          /\ SubSeq(Between(RX_RD[s], received[s]), n + 1, received[s] - RX_RD[s])
               = Between(RX_RD[s] + n, received[s])
      <4> DEFINE a == RX_RD[s]
                 q == received[s]
      <4>1. a \in Nat /\ q \in Nat /\ a =< q /\ n \in 1 .. q - a
        BY <1>m, <2>1
      <4> HIDE DEF a, q
      <4>2. \A m \in 1 .. q - a :
              /\ SubSeq(Between(a, q), 1, m) = [i \in 1 .. m |-> a + i]
              /\ SubSeq(Between(a, q), m + 1, q - a) = Between(a + m, q)
        BY <4>1, StreamOf
      <4>3. /\ SubSeq(Between(a, q), 1, n) = [i \in 1 .. n |-> a + i]
            /\ SubSeq(Between(a, q), n + 1, q - a) = Between(a + n, q)
        BY <4>1, <4>2
      <4> QED BY <4>3 DEF a, q
    <3> QED BY <2>1, <3>1, <3>2, <3>3, <3>4
  <2>7. out' \in Seq(Nat)
    <3>1. out' = [i \in 1 .. n |-> RX_RD[s] + i] /\ n \in Nat
      BY <1>1, <1>2, <1>4 DEF ReadData
    <3>2. \A i \in 1 .. n : RX_RD[s] + i \in Nat
      BY <1>m
    <3> QED BY <3>1, <3>2
  <2>8. \A t \in Sockets : t # s => Unread'[t] = Unread[t]
    <3> TAKE t \in Sockets
    <3> HAVE t # s
    <3>1. received'[t] = received[t] /\ RX_RD'[t] = RX_RD[t]
      BY <1>2, <2>2 DEF CacheInv, Counters
    <3> QED BY <3>1 DEF Unread
  <2>9. Unread' = [Unread EXCEPT ![s] = SubSeq(Unread[s], n + 1, Len(Unread[s]))]
    BY <2>6, <2>8 DEF Unread
  <2>10. Streams!Read(s)
    BY <2>6, <2>9 DEF Streams!Read
  <2> QED BY <2>4, <2>5, <2>7, <2>10 DEF CacheInv
<1> QED BY <1>3, <1>4

-----------------------------------------------------------------------------
(* Every step.                                                             *)

LEMMA InitInv == Init => IInv /\ Streams!Init
<1> SUFFICES ASSUME Init PROVE IInv /\ Streams!Init
  OBVIOUS
<1>1. UsersType
  BY Zenon DEF Init, UsersType
<1>2. out \in Seq(Nat)
  BY DEF Init
<1>3. Counters /\ CacheSound
  BY SizesAssumption DEF Init, Counters, CacheSound
<1>4. Streams!Init
  BY DEF Init, Streams!Init, Unread
<1> QED BY <1>1, <1>2, <1>3, <1>4 DEF IInv, CacheInv

\* The cached counts themselves, and those a look at a socket leaves.
LEMMA LooksHonest ==
  ASSUME CacheInv, NEW looks \in [Sockets -> Int],
         \A s \in Sockets : looks[s] \in {RX_RSR[s], Available(s)}
  PROVE  Honest(looks)
<1> SUFFICES ASSUME NEW s \in Sockets
             PROVE  /\ looks[s] \in Nat /\ RX_RD[s] + looks[s] =< received[s]
                    /\ looks[s] = 0 => RX_inc[s] = 0
  BY DEF Honest
<1>1. /\ received[s] \in Nat /\ returned[s] \in Nat /\ RX_RD[s] \in Nat /\ RX_RSR[s] \in Nat
      /\ RX_inc[s] \in Nat /\ RX_RD[s] = returned[s] + RX_inc[s]
      /\ RX_RD[s] + RX_RSR[s] =< received[s] /\ (RX_RSR[s] = 0 => RX_inc[s] = 0)
  BY SizesAssumption DEF CacheInv, Counters, CacheSound
<1>2. CASE looks[s] = RX_RSR[s]
  BY <1>1, <1>2
<1>3. CASE looks[s] = Available(s)
  BY <1>1, <1>3 DEF Available, RSR
<1> QED BY <1>2, <1>3

LEMMA AvailableType ==
  ASSUME CacheInv, NEW s \in Sockets
  PROVE  Available(s) \in Int
BY SizesAssumption DEF CacheInv, Counters, Available, RSR

\* Counting afresh changes no number the stream depends on.
LEMMA Counted ==
  ASSUME CacheInv, NEW looks, Honest(looks), RX_RSR' = looks,
         UNCHANGED <<received, returned, RX_RD, RX_inc>>
  PROVE  CacheInv' /\ Unread' = Unread
BY SameUnread DEF CacheInv, Counters, CacheSound, Honest

\* Every step keeps the invariant, and is a step of the streams or none of theirs.
LEMMA NextStep ==
  ASSUME IInv, [Next]_vars
  PROVE  IInv' /\ (Streams!Next \/ UNCHANGED <<Unread, out>>)
<1>i. UsersType /\ CacheInv /\ out \in Seq(Nat)
  BY DEF IInv
<1> DEFINE Goal == IInv' /\ (Streams!Next \/ UNCHANGED <<Unread, out>>)
<1>a. ASSUME UsersType', CacheInv', UNCHANGED <<Unread, out>> PROVE Goal
  BY <1>a, <1>i DEF IInv
<1>o. ASSUME UsersType', CacheInv', UNCHANGED out, NEW s \in Sockets,
             Unread' = [Unread EXCEPT ![s] = <<>>]
      PROVE  Goal
  BY <1>o, <1>i DEF IInv, Streams!Next, Streams!Open
<1>h. Honest(RX_RSR)
  BY <1>i DEF CacheInv, Counters, CacheSound, Honest
<1>n. None \notin Sockets
  BY SocketNumbers
<1>0. CASE UNCHANGED vars
  <2>1. UsersType' /\ CacheInv' /\ UNCHANGED <<received, RX_RD, out>>
    BY <1>0, <1>i DEF vars, chip, cache, users, UsersType, CacheInv, Counters, CacheSound
  <2> QED BY <1>a, <2>1, SameUnread
<1>1. CASE Connect
  <2>1. PICK s, after : /\ s = Free(after) /\ client' = s
                        /\ after \in [Sockets -> {"CLOSED", "SYNSENT", "LISTEN", "ESTABLISHED",
                                                  "CLOSE_WAIT", "FIN_WAIT"}]
                        /\ IF s = None
                           THEN /\ status' = after
                                /\ UNCHANGED <<received, returned, cache, server_port, connecting>>
                           ELSE /\ status' = [after EXCEPT ![s] = "SYNSENT"]
                                /\ server_port' = [server_port EXCEPT ![s] = FALSE]
                                /\ connecting' = TRUE
                                /\ Fresh(s, RX_RSR)
                        /\ UNCHANGED <<served, out>>
    <3> DEFINE st == IF client # None /\ status[client] # "CLOSED"
                     THEN [status EXCEPT ![client] = Disconnected(client)] ELSE status
    <3>1. st \in [Sockets -> {"CLOSED", "SYNSENT", "LISTEN", "ESTABLISHED", "CLOSE_WAIT", "FIN_WAIT"}]
      BY <1>i DEF UsersType, Disconnected
    <3> QED BY <1>1, <3>1 DEF Connect
  <2>2. s \in Sockets \cup {None}
    BY <2>1, FreeSocket
  <2>3. CASE s = None
    <3>1. ~connecting
      BY <1>1 DEF Connect, Idle
    <3>2. UsersType'
      BY <1>i, <2>1, <2>3, <3>1 DEF UsersType
    <3> QED BY <1>a, <1>i, <2>1, <2>3, <3>2, SameUnread DEF cache, CacheInv, Counters, CacheSound
  <2>4. CASE s # None
    <3>1. UsersType'
      BY <1>i, <2>1, <2>2, <2>4 DEF UsersType
    <3>2. CacheInv' /\ Unread' = [Unread EXCEPT ![s] = <<>>]
      BY <1>h, <1>i, <2>1, <2>2, <2>4, FreshStep DEF CacheInv
    <3> QED BY <1>o, <2>1, <2>2, <2>4, <3>1, <3>2
  <2> QED BY <2>3, <2>4
<1>2. CASE Connected \/ ConnectTimeOut \/ ClientStop \/ ServedStop
  <2>1. UNCHANGED <<received, returned, RX_RSR, RX_RD, RX_inc, out>>
    BY <1>2 DEF Connected, ConnectTimeOut, ClientStop, ServedStop, chip, cache
  <2>2. UsersType'
    <3>1. CASE Connected
      BY <1>i, <3>1 DEF Connected, chip, UsersType
    <3>2. CASE ConnectTimeOut
      BY <1>i, <3>2 DEF ConnectTimeOut, UsersType
    <3>3. CASE ClientStop
      BY <1>i, <3>3 DEF ClientStop, UsersType, Idle
    <3>4. CASE ServedStop
      BY <1>i, <3>4 DEF ServedStop, UsersType
    <3> QED BY <1>2, <3>1, <3>2, <3>3, <3>4
  <2> QED BY <1>a, <1>h, <1>i, <2>1, <2>2, Counted
<1>3. CASE ClientAvailable
  <2>1. client \in Sockets
    BY <1>3, <1>i DEF ClientAvailable, UsersType
  <2> DEFINE looks == [RX_RSR EXCEPT ![client] = Available(client)]
  <2>2. looks \in [Sockets -> Int] /\ \A s \in Sockets : looks[s] \in {RX_RSR[s], Available(s)}
    BY <1>i, <2>1, AvailableType DEF CacheInv, Counters
  <2>3. Honest(looks)
    <3> HIDE DEF looks
    <3> QED BY <1>i, <2>2, LooksHonest
  <2>4. UsersType' /\ RX_RSR' = looks /\ UNCHANGED <<received, returned, RX_RD, RX_inc, out>>
    BY <1>3, <1>i DEF ClientAvailable, Look, chip, users, UsersType
  <2> HIDE DEF looks
  <2> QED BY <1>a, <1>i, <2>3, <2>4, Counted
<1>4. CASE ClientRead \/ ServedRead
  <2>1. PICK s \in Sockets, len \in 1 .. MaxLen : Recv(s, len)
    BY <1>4, <1>i DEF ClientRead, ServedRead, UsersType
  <2>2. len \in Nat \ {0}
    BY SizesAssumption
  <2>3. CacheInv' /\ out' \in Seq(Nat) /\ (Streams!Read(s) \/ UNCHANGED <<Unread, out>>)
    BY <1>i, <2>1, <2>2, RecvStep
  <2>4. UsersType'
    BY <1>i, <2>1 DEF Recv, users, UsersType
  <2> QED BY <2>3, <2>4 DEF IInv, Streams!Next
<1>5. CASE ServerAvailable
  <2> DEFINE after == [s \in Sockets |-> IF s \in Over THEN "FIN_WAIT" ELSE status[s]]
             ports == [s \in Sockets |-> server_port[s] /\ status[s] # "CLOSED"]
             looks == [s \in Sockets |-> IF s \in Open THEN Available(s) ELSE RX_RSR[s]]
             s     == Free(after)
  <2>1. served' \in Sockets \cup {None}
    <3>1. HasData \subseteq 0 .. NumSockets - 1 /\ HasData \subseteq Sockets
      BY SocketNumbers DEF HasData, Open, Ours
    <3>2. NumSockets - 1 \in Nat
      BY SizesAssumption
    <3>3. HasData # {} => \E u \in HasData : \A t \in HasData : t =< u
      BY <3>1, <3>2, Greatest
    <3> QED BY <1>5, <3>1, <3>3 DEF ServerAvailable
  <2>2. looks \in [Sockets -> Int] /\ \A t \in Sockets : looks[t] \in {RX_RSR[t], Available(t)}
    <3>1. \A t \in Sockets : RX_RSR[t] \in Int /\ Available(t) \in Int
      BY <1>i, AvailableType DEF CacheInv, Counters
    <3> QED BY <3>1
  <2>3. Honest(looks)
    <3> HIDE DEF looks
    <3> QED BY <1>i, <2>2, LooksHonest
  <2>4. /\ after \in [Sockets -> {"CLOSED", "SYNSENT", "LISTEN", "ESTABLISHED", "CLOSE_WAIT", "FIN_WAIT"}]
        /\ ports \in [Sockets -> BOOLEAN]
    BY <1>i, Zenon DEF UsersType
  <2>5. s \in Sockets \cup {None}
    BY FreeSocket
  <2>6. /\ UNCHANGED <<client, connecting, out>>
        /\ \/ /\ status' = after /\ server_port' = ports /\ RX_RSR' = looks
              /\ UNCHANGED <<received, returned, RX_RD, RX_inc>>
           \/ /\ s # None
              /\ status' \in {[after EXCEPT ![s] = "LISTEN"], [after EXCEPT ![s] = "CLOSED"]}
              /\ server_port' \in {[ports EXCEPT ![s] = TRUE], ports}
              /\ Fresh(s, looks)
    BY <1>5, Zenon DEF ServerAvailable
  <2> HIDE DEF after, ports, looks, s
  <2>7. CASE status' = after /\ server_port' = ports /\ RX_RSR' = looks
             /\ UNCHANGED <<received, returned, RX_RD, RX_inc>>
    <3>1. UsersType'
      BY <1>i, <2>1, <2>4, <2>6, <2>7 DEF UsersType
    <3> QED BY <1>a, <1>i, <2>3, <2>6, <2>7, <3>1, Counted
  <2>8. CASE /\ s # None
             /\ status' \in {[after EXCEPT ![s] = "LISTEN"], [after EXCEPT ![s] = "CLOSED"]}
             /\ server_port' \in {[ports EXCEPT ![s] = TRUE], ports}
             /\ Fresh(s, looks)
    <3>1. UsersType'
      BY <1>i, <2>1, <2>4, <2>6, <2>8 DEF UsersType
    <3>2. s \in Sockets
      BY <2>5, <2>8
    <3>3. CacheInv' /\ Unread' = [Unread EXCEPT ![s] = <<>>]
      BY <1>i, <2>3, <2>8, <3>2, FreshStep DEF CacheInv
    <3> QED BY <1>o, <2>6, <3>1, <3>2, <3>3
  <2> QED BY <2>6, <2>7, <2>8
<1>6. CASE \E s \in Sockets : Establish(s) \/ PeerCloses(s) \/ ChipCloses(s)
  <2>1. UNCHANGED <<received, returned, RX_RSR, RX_RD, RX_inc, out>>
    BY <1>6 DEF Establish, PeerCloses, ChipCloses, cache
  <2>2. UsersType'
    BY <1>6, <1>i DEF Establish, PeerCloses, ChipCloses, users, UsersType
  <2> QED BY <1>a, <1>h, <1>i, <2>1, <2>2, Counted
<1>7. CASE \E s \in Sockets : Arrive(s)
  <2>1. PICK s \in Sockets : Arrive(s)
    BY <1>7
  <2>2. /\ received[s] < MaxBytes /\ received' = [received EXCEPT ![s] = received[s] + 1]
        /\ UNCHANGED <<status, returned, RX_RSR, RX_RD, RX_inc, users, out>>
    BY <2>1 DEF Arrive, cache
  <2>3. UsersType'
    BY <1>i, <2>2 DEF users, UsersType
  <2>4. received[s] \in Nat /\ received[s] + 1 \in Nat
    BY <1>i DEF CacheInv, Counters
  <2>5. CacheInv'
    <3>1. Counters'
      BY <1>i, <2>2, <2>4 DEF CacheInv, Counters
    <3>2. ASSUME NEW t \in Sockets
          PROVE  received[t] \in Nat /\ received'[t] \in Nat /\ received[t] =< received'[t]
                 /\ RX_RD[t] \in Nat /\ RX_RSR[t] \in Nat
      BY <1>i, <2>2, <2>4 DEF CacheInv, Counters
    <3>3. CacheSound'
      BY <1>i, <2>2, <3>2 DEF CacheInv, CacheSound
    <3> QED BY <3>1, <3>3 DEF CacheInv
  <2>6. Streams!Arrive(s)
    <3> DEFINE a == RX_RD[s]
               q == received[s]
    <3>1. a \in Nat /\ q \in Nat /\ a =< q /\ Unread[s] = Between(a, q)
      BY <1>i, UnreadOf
    <3>2. Unread'[s] = Between(a, q + 1)
      BY <1>i, <2>2 DEF Unread, Between, CacheInv, Counters
    <3>3. \A t \in Sockets : t # s => Unread'[t] = Unread[t]
      BY <1>i, <2>2 DEF Unread, CacheInv, Counters
    <3>4. q + 1 \in 1 .. MaxBytes
      BY <2>2, <2>4, SizesAssumption
    <3> HIDE DEF a, q
    <3>5. Unread'[s] = Append(Unread[s], q + 1)
      <4>1. Append(Between(a, q), q + 1) = Between(a, q + 1)
        BY <3>1, StreamOf, Zenon
      <4> QED BY <3>1, <3>2, <4>1
    <3>6. Unread' = [Unread EXCEPT ![s] = Append(Unread[s], q + 1)]
      BY <3>3, <3>5 DEF Unread
    <3> QED BY <2>2, <3>4, <3>6 DEF Streams!Arrive
  <2> QED BY <1>i, <2>2, <2>3, <2>5, <2>6 DEF IInv, Streams!Next
<1> QED BY <1>0, <1>1, <1>2, <1>3, <1>4, <1>5, <1>6, <1>7 DEF Next

LEMMA Inductive == Spec => []IInv
<1>1. IInv /\ [Next]_vars => IInv'
  BY NextStep
<1> QED BY <1>1, InitInv, PTL DEF Spec

\* Every variable has its type; no index of a socket is
\* one that is not there.
THEOREM TypeCorrect == Spec => []TypeOK
BY Inductive, Typed, PTL

\* The numbers W5100_socketRecv caches (socket.c 322-366) agree with the chip: the code
\* never counts a byte that is not there, nor forgets how far ahead of RX_RD it reads.
THEOREM CacheAlwaysSound == Spec => []CacheSound
<1>1. IInv => CacheSound
  BY DEF IInv, CacheInv
<1> QED BY <1>1, Inductive, PTL

\* Each socket is a stream of bytes (socket.c 322-366): none is lost, read twice, made up
\* or left over from the socket's last user, whoever takes and frees it.
THEOREM SocketsAreStreams == Spec => ImplementsByteStream
<1>1. IInv /\ [Next]_vars => [Streams!Next]_<<Unread, out>>
  BY NextStep
<1> QED
  BY <1>1, Inductive, InitInv, PTL DEF Spec, ImplementsByteStream, Streams!Spec, Streams!streamVars


-----------------------------------------------------------------------------
(* The DHCP client, which shares no state with the sockets.                *)

-----------------------------------------------------------------------------
(* Types.                                                                  *)

\* Half seconds.
LEMMA Halves ==
  ASSUME NEW n \in Nat
  PROVE  /\ n \div Sec \in Nat /\ n % Sec \in Nat
         /\ n = Sec * (n \div Sec) + (n % Sec)
         /\ n % Sec < Sec
BY Z3 DEF Sec

LEMMA CountedDown ==
  ASSUME NEW n \in Nat, NEW e \in Nat
  PROVE  /\ CountDown(n, e) \in Nat
         /\ CountDown(n, e) = 0 \/ CountDown(n, e) = n - e
BY DEF CountDown

LEMMA Times ==
  ASSUME NEW l \in Nat, NEW a \in Nat, NEW b \in Nat
  PROVE  /\ TimesOf(l, a, b).lease \in Nat /\ TimesOf(l, a, b).t1 \in Nat
         /\ TimesOf(l, a, b).t2 \in Nat
<1> DEFINE term == IF l = 0 THEN DefaultLease ELSE l
<1>1. term \in Nat
  BY TimesAssumption, BoundsAssumption
<1>2. term \div 2 \in Nat /\ term - term \div 8 \in Nat
  BY <1>1
<1> QED BY <1>1, <1>2 DEF TimesOf

LEMMA ReturnType ==
  ASSUME LeaseTypeOK, NEW call \in Requests, NEW ok \in BOOLEAN, Return(call, ok),
         local' \in Servers \cup {NoAddress}
  PROVE  /\ pc' \in {"idle", "rebind_test"} /\ rc' \in 0 .. 4
         /\ address' \in Servers \cup {NoAddress} /\ spent' \in Nat /\ waited' \in Nat
BY DEF LeaseTypeOK, Return, RcOf, Cleared, Requests

LEMMA StartType ==
  ASSUME LeaseTypeOK, NEW call \in Requests,
         NEW first \in {"START", "REREQUEST"}, StartRequest(call, first),
         local' \in Servers \cup {NoAddress}
  PROVE  /\ pc' \in {"idle", "rebind_test"} \cup Requests /\ rc' \in 0 .. 4
         /\ state' \in {"START", "REREQUEST"}
         /\ xid0' \in Nat /\ xid' \in Nat
         /\ address' \in Servers \cup {NoAddress} /\ spent' \in Nat /\ waited' \in Nat
<1>0. PICK x \in Xids : xid' = x /\ xid0' = x
  BY DEF StartRequest
<1>1. state' = first /\ xid' \in Nat /\ xid0' \in Nat
  BY <1>0, BoundsAssumption DEF StartRequest
<1>2. CASE Return(call, FALSE)
  BY <1>1, <1>2, ReturnType
<1>3. CASE pc' = call /\ spent' = 0 /\ waited' = 0 /\ address' = Cleared(call) /\ UNCHANGED rc
  BY <1>1, <1>3 DEF Cleared, LeaseTypeOK
<1> QED BY <1>2, <1>3, Zenon DEF StartRequest

LEMMA NothingType == Nothing \in Questions
BY DEF Nothing, Discover, Questions

LEMMA EndType ==
  ASSUME LeaseTypeOK, pc \in Requests, NEW x \in Nat, NEW m \in Questions,
         EndIteration(x, m),
         state' \in {"START", "DISCOVER", "REQUEST", "REREQUEST", "LEASED"},
         local' \in Servers \cup {NoAddress}
  PROVE  /\ pc' \in {"idle", "rebind_test"} \cup Requests /\ rc' \in 0 .. 4
         /\ xid' \in Nat /\ since' \in Nat /\ sent' \in Questions
         /\ address' \in Servers \cup {NoAddress} /\ spent' \in Nat /\ waited' \in Nat
<1>1. CASE state' = "LEASED" \/ spent > Timeout
  <2>1. /\ Return(pc, state' = "LEASED") /\ xid' = x + 1 /\ since' = 0 /\ sent' = Nothing
        /\ (state' = "LEASED") \in BOOLEAN
    BY <1>1 DEF EndIteration
  <2>2. /\ pc' \in {"idle", "rebind_test"} /\ rc' \in 0 .. 4
        /\ address' \in Servers \cup {NoAddress} /\ spent' \in Nat /\ waited' \in Nat
    BY <2>1, ReturnType, Zenon
  <2> QED BY <2>1, <2>2, NothingType
<1>2. CASE ~(state' = "LEASED" \/ spent > Timeout)
  BY <1>2 DEF EndIteration, LeaseTypeOK
<1> QED BY <1>1, <1>2

LEMMA InitType == LeaseInit => LeaseTypeOK
BY NothingType DEF LeaseInit, LeaseTypeOK

LEMMA NextType == LeaseTypeOK /\ [LeaseNext]_leaseVars => LeaseTypeOK'
<1> SUFFICES ASSUME LeaseTypeOK, [LeaseNext]_leaseVars PROVE LeaseTypeOK'
  OBVIOUS
<1>0. CASE UNCHANGED leaseVars
  BY <1>0 DEF LeaseTypeOK, leaseVars, ids, params, timers, env
<1>1. CASE BeginWithDHCP
  <2>1. NoAddress \in Servers \cup {NoAddress} /\ "begin" \in Requests
    BY DEF Requests
  <2> QED BY <1>1, <2>1, StartType DEF BeginWithDHCP, LeaseTypeOK, env
<1>2. CASE CheckLease
  <2>1. /\ renew' \in Nat /\ rebind' \in Nat /\ since' \in Nat
    BY <1>2, Halves, CountedDown DEF CheckLease, LeaseTypeOK, Remainder
  <2>2. CASE renew' = 0 /\ state = "LEASED"
    <3>1. /\ StartRequest("renew", "REREQUEST") /\ "renew" \in Requests
          /\ local' \in Servers \cup {NoAddress}
      BY <1>2, <2>2 DEF CheckLease, Requests, params, LeaseTypeOK
    <3> QED
      BY <1>2, <2>1, <2>2, <3>1, StartType
         DEF CheckLease, LeaseTypeOK, params, env
  <2>3. CASE ~(renew' = 0 /\ state = "LEASED")
    BY <1>2, <2>1, <2>3
       DEF CheckLease, LeaseTypeOK, params, env, ids
  <2> QED BY <2>2, <2>3
<1>3. CASE RebindTest
  <2>1. CASE rebind = 0 /\ state \in {"LEASED", "START"}
    <3>1. /\ StartRequest("rebind", "START") /\ "rebind" \in Requests
          /\ local' \in Servers \cup {NoAddress}
      BY <1>3, <2>1 DEF RebindTest, Requests
    <3> QED BY <1>3, <2>1, <3>1, StartType DEF RebindTest, LeaseTypeOK, env
  <2>2. CASE ~(rebind = 0 /\ state \in {"LEASED", "START"})
    BY <1>3, <2>2 DEF RebindTest, LeaseTypeOK, ids, env
  <2> QED BY <2>1, <2>2
<1>4. CASE SendDiscover
  BY <1>4
     DEF SendDiscover, Discover, Questions, LeaseTypeOK, params,
         timers, env
<1>5. CASE SendRerequest
  BY <1>5
     DEF SendRerequest, Request, Questions, LeaseTypeOK, params,
         timers, env
<1>6. CASE Ignore
  <2>1. net' \subseteq Answers
    BY <1>6 DEF Ignore, LeaseTypeOK
  <2>2. /\ EndIteration(xid, sent) /\ xid \in Nat /\ state' = state /\ local' = local
        /\ pc \in Requests /\ sent \in Questions
    BY <1>6 DEF Ignore, params, LeaseTypeOK
  <2> QED BY <1>6, <2>1, <2>2, EndType DEF Ignore, LeaseTypeOK, params
<1>7. CASE Receive
  <2>1. PICK m \in net : Received(m)
    BY <1>7 DEF Receive
  <2>2. m \in Answers /\ net \subseteq Answers
    BY DEF LeaseTypeOK
  <2>3. /\ m.lease \in Nat /\ m.t1 \in Nat /\ m.t2 \in Nat /\ m.xid \in Nat
        /\ m.from \in Servers /\ m.type \in {"OFFER", "ACK", "NAK"}
    BY <2>2, TimesAssumption, BoundsAssumption DEF Answers
  <2>4. /\ net' \subseteq Answers
        /\ local' \in Servers \cup {NoAddress} /\ server' \in Servers \cup {NoAddress}
    BY <2>1, <2>2, <2>3 DEF Received, YourAddr, LeaseTypeOK
  <2>5. /\ lease' \in Nat /\ t1' \in Nat /\ t2' \in Nat /\ renew' \in Nat /\ rebind' \in Nat
        /\ state' \in {"START", "DISCOVER", "REQUEST", "REREQUEST", "LEASED"}
    <3>1. /\ Brought(m.lease, lease) \in Nat /\ Brought(m.t1, t1) \in Nat
          /\ Brought(m.t2, t2) \in Nat
      BY <2>3 DEF Brought, LeaseTypeOK
    <3> QED BY <1>7, <2>1, <2>3, <3>1, Times DEF Received, Receive, LeaseTypeOK
  <2>6. PICK x \in Nat, q \in Questions : EndIteration(x, q)
    <3>1. Request(m.xid, local', server') \in Questions
      BY <2>3, <2>4 DEF Request, Questions
    <3> QED BY <2>1, <2>3, <3>1 DEF Received, LeaseTypeOK
  <2> QED BY <1>7, <2>4, <2>5, <2>6, EndType DEF Receive, LeaseTypeOK
<1>8. CASE ResponseTimeOut
  <2>1. /\ EndIteration(xid, sent) /\ xid \in Nat /\ state' = "START" /\ local' = local
        /\ pc \in Requests /\ sent \in Questions
    BY <1>8 DEF ResponseTimeOut, params, LeaseTypeOK
  <2> QED
    BY <1>8, <2>1, EndType DEF ResponseTimeOut, LeaseTypeOK, params, env
<1>9. CASE Wait
  BY <1>9 DEF Wait, LeaseTypeOK, ids, params, timers, env
<1>10. CASE HalfSecond
  BY <1>10 DEF HalfSecond, LeaseTypeOK, ids, params, env
<1>11. ASSUME NEW s \in Servers, Answer(s) PROVE LeaseTypeOK'
  <2>1. PICK type \in {"OFFER", "ACK", "NAK"}, l \in Leases, a \in T1s, b \in T2s :
          net' = net \cup {[type |-> type, from |-> s, xid |-> sent.xid,
                            lease |-> l, t1 |-> a, t2 |-> b]}
    BY <1>11 DEF Answer
  <2>2. bound' \subseteq Servers
    BY <1>11 DEF Answer, LeaseTypeOK
  <2>3. net' \subseteq Answers
    BY <2>1, TimesAssumption, BoundsAssumption
       DEF LeaseTypeOK, Answers, Questions
  <2> QED
    BY <1>11, <2>2, <2>3
       DEF Answer, LeaseTypeOK, ids, params, timers
<1>12. CASE Lose
  BY <1>12 DEF Lose, LeaseTypeOK, ids, params, timers
<1> QED
  BY <1>0, <1>1, <1>2, <1>3, <1>4, <1>5, <1>6, <1>7, <1>8, <1>9, <1>10, <1>11, <1>12
     DEF LeaseNext, Loop

\* Every variable has its type.
THEOREM LeaseTypeCorrect == LeaseSpec => []LeaseTypeOK
BY InitType, NextType, PTL DEF LeaseSpec

-----------------------------------------------------------------------------
(* The address, and who granted it.                                        *)

\* An ACK in flight is from a server that has granted its address.  What was leased is
\* such an address, and so is what the caller of a renewal is about to use.
GrantInv ==
  /\ AddressIsGranted
  /\ \A m \in net : m.type = "ACK" => m.from \in bound
  /\ pc \in Requests => state # "LEASED"
  /\ rc \in NewLease /\ pc = "rebind_test" => local \in bound

\* A request that returns, with a lease or without.
LEMMA ReturnGrant ==
  ASSUME GrantInv, NEW call \in Requests, NEW ok \in BOOLEAN, Return(call, ok),
         ok => local' \in bound, bound' = bound
  PROVE  /\ AddressIsGranted'
         /\ pc' \notin Requests
         /\ rc' \in NewLease /\ pc' = "rebind_test" => local' \in bound'
<1>1. CASE ok
  BY <1>1 DEF GrantInv, AddressIsGranted, Return, RcOf, NewLease, Cleared, Requests
<1>2. CASE ~ok
  BY <1>2 DEF GrantInv, AddressIsGranted, Return, RcOf, NewLease, Cleared, Requests
<1> QED BY <1>1, <1>2

LEMMA StartGrant ==
  ASSUME GrantInv, NEW call \in Requests, NEW first \in {"START", "REREQUEST"},
         StartRequest(call, first), UNCHANGED env
  PROVE  GrantInv'
<1>1. CASE Return(call, FALSE)
  <2>1. /\ AddressIsGranted' /\ pc' \notin Requests
        /\ rc' \in NewLease /\ pc' = "rebind_test" => local' \in bound'
    BY <1>1, ReturnGrant, Zenon DEF env
  <2> QED BY <2>1 DEF GrantInv, env
<1>2. CASE pc' = call /\ address' = Cleared(call) /\ UNCHANGED rc
  BY <1>2
     DEF GrantInv, AddressIsGranted, StartRequest, Cleared, env, Requests
<1> QED BY <1>1, <1>2, Zenon DEF StartRequest

LEMMA EndGrant ==
  ASSUME GrantInv, pc \in Requests, NEW x, NEW q, EndIteration(x, q),
         state' = "LEASED" => local' \in bound, bound' = bound,
         \A m \in net' : m \in net
  PROVE  GrantInv'
<1>1. CASE state' = "LEASED" \/ spent > Timeout
  <2>1. Return(pc, state' = "LEASED") /\ (state' = "LEASED") \in BOOLEAN
    BY <1>1, Zenon DEF EndIteration
  <2>2. /\ AddressIsGranted' /\ pc' \notin Requests
        /\ rc' \in NewLease /\ pc' = "rebind_test" => local' \in bound'
    BY <2>1, ReturnGrant, Zenon
  <2> QED BY <2>2 DEF GrantInv
<1>2. CASE ~(state' = "LEASED" \/ spent > Timeout)
  BY <1>2 DEF EndIteration, GrantInv, AddressIsGranted, Requests
<1> QED BY <1>1, <1>2

LEMMA NextGrant == LeaseTypeOK /\ GrantInv /\ [LeaseNext]_leaseVars => GrantInv'
<1> SUFFICES ASSUME LeaseTypeOK, GrantInv, [LeaseNext]_leaseVars PROVE GrantInv'
  OBVIOUS
<1>0. CASE UNCHANGED leaseVars
  BY <1>0 DEF GrantInv, AddressIsGranted, leaseVars, params, env
<1>1. CASE BeginWithDHCP
  BY <1>1, StartGrant, Zenon DEF BeginWithDHCP, Requests
<1>2. CASE CheckLease
  <2>1. CASE renew' = 0 /\ state = "LEASED"
    BY <1>2, <2>1, StartGrant, Zenon DEF CheckLease, Requests
  <2>2. CASE ~(renew' = 0 /\ state = "LEASED")
    BY <1>2, <2>2
       DEF CheckLease, GrantInv, AddressIsGranted, NewLease, Requests, env
  <2> QED BY <2>1, <2>2
<1>3. CASE RebindTest
  <2>1. CASE rebind = 0 /\ state \in {"LEASED", "START"}
    BY <1>3, <2>1, StartGrant, Zenon DEF RebindTest, Requests
  <2>2. CASE ~(rebind = 0 /\ state \in {"LEASED", "START"})
    BY <1>3, <2>2
       DEF RebindTest, GrantInv, AddressIsGranted, Requests, env
  <2> QED BY <2>1, <2>2
<1>4. CASE SendDiscover
  BY <1>4
     DEF SendDiscover, GrantInv, AddressIsGranted, Requests, env
<1>5. CASE SendRerequest
  BY <1>5
     DEF SendRerequest, GrantInv, AddressIsGranted, Requests, env
<1>6. CASE Ignore
  <2>1. pc \in Requests /\ EndIteration(xid, sent) /\ state' # "LEASED" /\ bound' = bound
        /\ \A m \in net' : m \in net
    BY <1>6 DEF Ignore
  <2> QED BY <2>1, EndGrant, Zenon
<1>7. CASE Receive
  <2>1. PICK m \in net : Received(m)
    BY <1>7 DEF Receive
  <2>2. state' = "LEASED" => m.type = "ACK"
    BY <1>7, <2>1 DEF Received, Receive
  <2>3. state' = "LEASED" => local' \in bound
    BY <2>1, <2>2 DEF GrantInv, Received, YourAddr
  <2>4. PICK x, q : EndIteration(x, q)
    BY <2>1 DEF Received
  <2>5. pc \in Requests /\ bound' = bound /\ \A n \in net' : n \in net
    BY <1>7, <2>1 DEF Receive, Received
  <2> QED BY <2>3, <2>4, <2>5, EndGrant, Zenon
<1>8. CASE ResponseTimeOut
  <2>1. pc \in Requests /\ EndIteration(xid, sent) /\ state' # "LEASED" /\ bound' = bound
        /\ \A m \in net' : m \in net
    BY <1>8 DEF ResponseTimeOut, env
  <2> QED BY <2>1, EndGrant, Zenon
<1>9. CASE Wait
  BY <1>9 DEF Wait, GrantInv, AddressIsGranted, params, env
<1>10. CASE HalfSecond
  BY <1>10
     DEF HalfSecond, GrantInv, AddressIsGranted, params, Requests,
         env
<1>11. ASSUME NEW s \in Servers, Answer(s) PROVE GrantInv'
  BY <1>11 DEF Answer, GrantInv, AddressIsGranted, params
<1>12. CASE Lose
  BY <1>12 DEF Lose, GrantInv, AddressIsGranted, params
<1> QED
  BY <1>0, <1>1, <1>2, <1>3, <1>4, <1>5, <1>6, <1>7, <1>8, <1>9, <1>10, <1>11, <1>12
     DEF LeaseNext, Loop

\* The address given to the chip (Ethernet.c 48 and 151) was granted, however late, often
\* and out of order the answers come, and whatever they say.
THEOREM AddressAlwaysGranted == LeaseSpec => []AddressIsGranted
<1>1. LeaseInit => GrantInv
  BY DEF LeaseInit, GrantInv, AddressIsGranted, Requests
<1>2. GrantInv => AddressIsGranted
  BY DEF GrantInv
<1> QED BY <1>1, <1>2, InitType, NextType, NextGrant, PTL DEF LeaseSpec

-----------------------------------------------------------------------------
(* The lease and the chip.                                                 *)

\* In checkLease a lease is either the old one, which the chip uses, or one that a
\* renewal has just brought and that maintain is about to give to the chip.
UseInv ==
  /\ ChipUsesTheLease
  /\ pc = "rebind_test" /\ state = "LEASED" => rc = 2 \/ (rc = 0 /\ address = local)

\* A request that returns, with a lease or without.
LEMMA ReturnUse ==
  ASSUME NEW call \in Requests, Return(call, state' = "LEASED")
  PROVE  UseInv'
<1>1. CASE state' = "LEASED"
  BY <1>1 DEF UseInv, ChipUsesTheLease, Return, RcOf, NewLease, Requests
<1>2. CASE state' # "LEASED"
  BY <1>2 DEF UseInv, ChipUsesTheLease
<1> QED BY <1>1, <1>2

LEMMA EndUse ==
  ASSUME pc \in Requests, NEW x, NEW q, EndIteration(x, q)
  PROVE  UseInv'
<1>1. CASE state' = "LEASED" \/ spent > Timeout
  BY <1>1, ReturnUse, Zenon DEF EndIteration
<1>2. CASE ~(state' = "LEASED" \/ spent > Timeout)
  BY <1>2 DEF UseInv, ChipUsesTheLease
<1> QED BY <1>1, <1>2

LEMMA NextUse == GrantInv /\ UseInv /\ [LeaseNext]_leaseVars => UseInv'
<1> SUFFICES ASSUME GrantInv, UseInv, [LeaseNext]_leaseVars PROVE UseInv'
  OBVIOUS
<1>0. CASE UNCHANGED leaseVars
  BY <1>0 DEF UseInv, ChipUsesTheLease, leaseVars, params
<1>1. CASE BeginWithDHCP
  BY <1>1 DEF BeginWithDHCP, StartRequest, UseInv, ChipUsesTheLease
<1>2. CASE CheckLease
  <2>1. CASE renew' = 0 /\ state = "LEASED"
    BY <1>2, <2>1 DEF CheckLease, StartRequest, UseInv, ChipUsesTheLease
  <2>2. CASE ~(renew' = 0 /\ state = "LEASED")
    BY <1>2, <2>2 DEF CheckLease, UseInv, ChipUsesTheLease, params
  <2> QED BY <2>1, <2>2
<1>3. CASE RebindTest
  <2>1. CASE rebind = 0 /\ state \in {"LEASED", "START"}
    BY <1>3, <2>1 DEF RebindTest, StartRequest, UseInv, ChipUsesTheLease
  <2>2. CASE ~(rebind = 0 /\ state \in {"LEASED", "START"})
    BY <1>3, <2>2 DEF RebindTest, UseInv, ChipUsesTheLease, NewLease
  <2> QED BY <2>1, <2>2
<1>4. CASE SendDiscover
  BY <1>4 DEF SendDiscover, UseInv, ChipUsesTheLease
<1>5. CASE SendRerequest
  BY <1>5 DEF SendRerequest, UseInv, ChipUsesTheLease
<1>6. CASE Ignore
  BY <1>6, EndUse, Zenon DEF Ignore
<1>7. CASE Receive
  <2>1. PICK m \in net : Received(m)
    BY <1>7 DEF Receive
  <2>2. PICK x, q : EndIteration(x, q)
    BY <2>1 DEF Received
  <2> QED BY <1>7, <2>2, EndUse, Zenon DEF Receive
<1>8. CASE ResponseTimeOut
  BY <1>8, EndUse, Zenon DEF ResponseTimeOut
<1>9. CASE Wait
  BY <1>9 DEF Wait, UseInv, ChipUsesTheLease, params
<1>10. CASE HalfSecond
  BY <1>10 DEF HalfSecond, UseInv, ChipUsesTheLease, params
<1>11. ASSUME NEW s \in Servers, Answer(s) PROVE UseInv'
  BY <1>11 DEF Answer, UseInv, ChipUsesTheLease, params
<1>12. CASE Lose
  BY <1>12 DEF Lose, UseInv, ChipUsesTheLease, params
<1> QED
  BY <1>0, <1>1, <1>2, <1>3, <1>4, <1>5, <1>6, <1>7, <1>8, <1>9, <1>10, <1>11, <1>12
     DEF LeaseNext, Loop

\* Whatever a renewal, a rebinding or another begin_dhcp ends with, the chip is given the
\* address of the lease (Ethernet.c 36-48 and 143-151).
THEOREM ChipAlwaysUsesTheLease == LeaseSpec => []ChipUsesTheLease
<1>1. LeaseInit => UseInv
  BY DEF LeaseInit, UseInv, ChipUsesTheLease
<1>2. UseInv => ChipUsesTheLease
  BY DEF UseInv
<1>3. LeaseInit => GrantInv
  BY DEF LeaseInit, GrantInv, AddressIsGranted, Requests
<1> QED BY <1>1, <1>2, <1>3, InitType, NextType, NextGrant, NextUse, PTL DEF LeaseSpec

-----------------------------------------------------------------------------
(* The time.                                                               *)

\* While leased, what the counter has lost since the ACK and the remainder kept are the
\* time that has passed: the checks do not lose any.
ClockInv ==
  /\ pc \in Requests => held = 0
  /\ pc \notin Requests /\ state = "LEASED" =>
       renew =< t1 /\ held = Sec * (t1 - renew) + since

LEMMA NextClock ==
  LeaseTypeOK /\ GrantInv /\ ClockInv /\ [LeaseNext]_leaseVars => ClockInv'
<1> SUFFICES ASSUME LeaseTypeOK, GrantInv, ClockInv, [LeaseNext]_leaseVars PROVE ClockInv'
  OBVIOUS
<1>0. CASE UNCHANGED leaseVars
  BY <1>0 DEF ClockInv, leaseVars, params, timers
<1>1. CASE BeginWithDHCP
  BY <1>1 DEF BeginWithDHCP, StartRequest, ClockInv
<1>2. CASE CheckLease
  <2>1. CASE renew' = 0 /\ state = "LEASED"
    BY <1>2, <2>1 DEF CheckLease, StartRequest, ClockInv
  <2>2. CASE state # "LEASED" /\ ~(renew' = 0 /\ state = "LEASED")
    BY <1>2, <2>2 DEF CheckLease, ClockInv, Requests
  <2>3. CASE state = "LEASED" /\ renew' # 0
    <3> DEFINE elapsed == since \div Sec
    <3>1. /\ pc' = "rebind_test" /\ state' = state /\ t1' = t1 /\ held' = held
          /\ pc \notin Requests
      BY <1>2, <2>3 DEF CheckLease, params, Requests
    <3>2. /\ elapsed \in Nat /\ since % Sec \in Nat
          /\ since = Sec * elapsed + (since % Sec)
          /\ renew \in Nat /\ t1 \in Nat /\ held \in Nat
      BY Halves DEF LeaseTypeOK
    <3>3. renew =< t1 /\ held = Sec * (t1 - renew) + since
      BY <2>3, <3>1 DEF ClockInv
    <3>4. CASE elapsed >= 1
      <4>1. renew' = CountDown(renew, elapsed) /\ since' = since % Sec
        BY <1>2, <3>4 DEF CheckLease, Remainder
      <4>2. renew' = renew - elapsed
        BY <2>3, <3>2, <4>1, CountedDown
      <4>3. renew' =< t1' /\ held' = Sec * (t1' - renew') + since'
        BY <3>1, <3>2, <3>3, <4>1, <4>2 DEF Sec
      <4> QED BY <3>1, <4>3 DEF ClockInv, Requests
    <3>5. CASE ~(elapsed >= 1)
      <4>1. renew' = renew /\ since' = since
        BY <1>2, <3>5 DEF CheckLease
      <4> QED BY <3>1, <3>3, <4>1 DEF ClockInv, Requests
    <3> QED BY <3>4, <3>5
  <2> QED BY <2>1, <2>2, <2>3
<1>3. CASE RebindTest
  BY <1>3 DEF RebindTest, StartRequest, ClockInv, Requests
<1>4. CASE SendDiscover
  BY <1>4 DEF SendDiscover, ClockInv, timers
<1>5. CASE SendRerequest
  BY <1>5 DEF SendRerequest, ClockInv, timers
<1>6. CASE Ignore
  BY <1>6 DEF Ignore, ClockInv
<1>7. CASE Receive
  <2>1. PICK m \in net : Received(m)
    BY <1>7 DEF Receive
  <2>2. held' = 0
    BY <1>7 DEF Receive, ClockInv
  <2>3. CASE state' = "LEASED"
    <3>1. state = "REQUEST" /\ m.type = "ACK"
      BY <1>7, <2>1, <2>3 DEF Receive, Received
    <3>2. renew' = t1'
      BY <2>1, <3>1 DEF Received
    <3>3. PICK x, q : EndIteration(x, q)
      BY <2>1 DEF Received
    <3>4. since' = 0
      BY <2>3, <3>3 DEF EndIteration
    <3>5. t1' \in Nat
      BY <1>7, NextType DEF LeaseTypeOK, LeaseNext, Loop
    <3>6. \A n \in Nat : n =< n /\ 0 = Sec * (n - n) + 0
      BY DEF Sec
    <3> QED BY <2>2, <3>2, <3>4, <3>5, <3>6 DEF ClockInv
  <2>4. CASE state' # "LEASED"
    BY <2>2, <2>4 DEF ClockInv
  <2> QED BY <2>3, <2>4
<1>8. CASE ResponseTimeOut
  BY <1>8 DEF ResponseTimeOut, ClockInv
<1>9. CASE Wait
  BY <1>9 DEF Wait, ClockInv, timers
<1>10. CASE HalfSecond
  <2>1. /\ since \in Nat /\ renew \in Nat /\ t1 \in Nat /\ held \in Nat
    BY DEF LeaseTypeOK
  <2> QED
    BY <1>10, <2>1 DEF HalfSecond, ClockInv, params, Requests, Sec
<1>11. ASSUME NEW s \in Servers, Answer(s) PROVE ClockInv'
  BY <1>11 DEF Answer, ClockInv, params, timers
<1>12. CASE Lose
  BY <1>12 DEF Lose, ClockInv, params, timers
<1> QED
  BY <1>0, <1>1, <1>2, <1>3, <1>4, <1>5, <1>6, <1>7, <1>8, <1>9, <1>10, <1>11, <1>12
     DEF LeaseNext, Loop

\* A check that comes when T1 is over finds the counter at zero.
LEMMA RenewStep ==
  LeaseTypeOK /\ ClockInv /\ [LeaseNext]_leaseVars =>
    (pc = "idle" /\ pc' # "idle" /\ state = "LEASED" /\ held >= Sec * t1
       => state' # "LEASED")
<1> SUFFICES ASSUME LeaseTypeOK, ClockInv, [LeaseNext]_leaseVars,
                    pc = "idle", pc' # "idle",
                    state = "LEASED", held >= Sec * t1, state' = "LEASED"
             PROVE  FALSE
  OBVIOUS
<1>1. CheckLease
  <2>1. "idle" \notin Requests
    BY DEF Requests
  <2>2. ~BeginWithDHCP
    BY DEF BeginWithDHCP, StartRequest
  <2>3. ~RebindTest /\ ~Loop /\ ~Wait
    BY <2>1
       DEF RebindTest, Loop, SendDiscover, SendRerequest,
           Ignore, Receive, ResponseTimeOut, Wait
  <2> QED
    BY <2>2, <2>3 DEF LeaseNext, HalfSecond, Answer, Lose, leaseVars
<1> DEFINE elapsed == since \div Sec
<1>2. renew' # 0
  BY <1>1 DEF CheckLease, StartRequest
<1>3. /\ elapsed \in Nat /\ since % Sec \in Nat
      /\ since = Sec * elapsed + (since % Sec)
      /\ since % Sec < Sec /\ renew \in Nat /\ t1 \in Nat /\ held \in Nat
  BY Halves DEF LeaseTypeOK
<1>4. Sec * (t1 - renew) + since >= Sec * t1
  BY DEF ClockInv, Requests
<1>5. renew =< elapsed
  BY <1>3, <1>4 DEF Sec
<1>6. CASE elapsed >= 1
  <2>1. renew' = CountDown(renew, elapsed)
    BY <1>1, <1>6 DEF CheckLease
  <2>2. renew < elapsed * 2
    BY <1>3, <1>5, <1>6
  <2> QED BY <1>2, <2>1, <2>2 DEF CountDown
<1>7. CASE ~(elapsed >= 1)
  BY <1>1, <1>2, <1>3, <1>5, <1>7 DEF CheckLease
<1> QED BY <1>6, <1>7

\* No check renews late (Dhcp.c 463-496), however far apart the checks are.
THEOREM NeverRenewedLate == LeaseSpec => RenewNotLate
<1>1. LeaseInit => GrantInv /\ ClockInv
  BY DEF LeaseInit, GrantInv, ClockInv, AddressIsGranted, Requests
<1>2. [][LeaseTypeOK /\ ClockInv /\ [LeaseNext]_leaseVars]_(leaseVars)
        => RenewNotLate
  BY RenewStep, PTL DEF RenewNotLate
<1> QED BY <1>1, <1>2, InitType, NextType, NextGrant, NextClock, PTL DEF LeaseSpec
=============================================================================
