---------------------------- MODULE LcdListProofs ----------------------------
(***************************************************************************)
(* Proofs about LcdList for every number of nodes: the list from head to   *)
(* tail is one chain of the nodes in use, whatever walks remove from it,   *)
(* an add finds a node, no block is lost, and the list is the sequence of  *)
(* items DisplayItems speaks of.                                           *)
(***************************************************************************)
EXTENDS LcdList, FiniteSetTheorems, SequenceTheorems, WellFoundedInduction, TLAPS

-----------------------------------------------------------------------------
(* The nodes from the head on.                                             *)

\* Every non-empty set of naturals has a least element: induction on places.
LEMMA LeastNat ==
  ASSUME NEW S \in SUBSET Nat, S # {}
  PROVE  \E m \in S : \A n \in S : m <= n
<1> DEFINE R == {ss \in Nat \X Nat : ss[1] < ss[2]}
<1>1. IsWellFoundedOn(R, Nat)
  BY NatLessThanWellFounded DEF OpToRel
<1> HIDE DEF R
<1>2. PICK m \in S : \A n \in S : ~ (<<n, m>> \in R)
  BY <1>1, WFMin
<1>3. \A n \in S : ~ (n < m)
  BY <1>2 DEF R
<1> QED BY <1>3

\* What holds of 0 and of each successor holds of every number.
LEMMA Induction ==
  ASSUME NEW T \in SUBSET Nat, 0 \in T, \A n \in T : n + 1 \in T
  PROVE  T = Nat
<1>1. SUFFICES ASSUME T # Nat PROVE FALSE
  OBVIOUS
<1>2. PICK m \in Nat \ T : \A n \in Nat \ T : m <= n
  <2>1. Nat \ T \in SUBSET Nat /\ Nat \ T # {}
    BY <1>1
  <2> QED BY <2>1, LeastNat
<1>3. m - 1 \in Nat /\ (m - 1) + 1 = m
  BY <1>2
<1>4. m - 1 \in T
  BY <1>2, <1>3
<1> QED BY <1>2, <1>3, <1>4

\* Following next from a node is a function of the number of steps.
Follows(f, n, a, g) == f = [k \in 1 .. n |-> IF k = 1 THEN a ELSE g[f[k - 1]].next]

LEMMA FollowsExists ==
  ASSUME NEW a, NEW g
  PROVE  \A n \in Nat : \E f : Follows(f, n, a, g)
<1> DEFINE T == {n \in Nat : \E f : Follows(f, n, a, g)}
<1>1. 0 \in T
  <2>1. Follows([k \in 1 .. 0 |-> a], 0, a, g)
    BY DEF Follows
  <2> QED BY <2>1
<1>2. ASSUME NEW n \in T PROVE n + 1 \in T
  <2>1. n \in Nat
    OBVIOUS
  <2>2. PICK f : Follows(f, n, a, g)
    OBVIOUS
  <2> DEFINE h == [k \in 1 .. n + 1 |-> IF k = 1 THEN a ELSE g[f[k - 1]].next]
  <2>3. \A k \in 1 .. n : f[k] = IF k = 1 THEN a ELSE g[f[k - 1]].next
    BY <2>2 DEF Follows
  <2>4. \A k \in 1 .. n + 1 : k # 1 => k - 1 \in 1 .. n /\ k - 1 \in 1 .. n + 1
    BY <2>1
  <2>5. \A k \in 1 .. n : k \in 1 .. n + 1 /\ h[k] = f[k]
    BY <2>1, <2>3
  <2>6. \A k \in 1 .. n + 1 : h[k] = IF k = 1 THEN a ELSE g[h[k - 1]].next
    BY <2>4, <2>5
  <2>7. h = [k \in 1 .. n + 1 |-> IF k = 1 THEN a ELSE g[h[k - 1]].next]
    <3> HIDE DEF h
    <3>1. h = [k \in 1 .. n + 1 |-> h[k]]
      BY DEF h
    <3> QED BY <2>6, <3>1
  <2>8. Follows(h, n + 1, a, g)
    BY <2>7 DEF Follows
  <2> QED BY <2>1, <2>8
<1> HIDE DEF T
<1>3. T = Nat
  BY <1>1, <1>2, Induction DEF T
<1> QED BY <1>3 DEF T

LEMMA AtIs == \A k \in 1 .. NodeNum : At[k] = IF k = 1 THEN list.head ELSE node[At[k - 1]].next
<1>1. \E f : f = [k \in 1 .. NodeNum |-> IF k = 1 THEN list.head ELSE node[f[k - 1]].next]
  <2>1. NodeNum \in Nat
    BY NodeNumAssumption
  <2>2. \E f : Follows(f, NodeNum, list.head, node)
    BY <2>1, FollowsExists
  <2> QED BY <2>2 DEF Follows
<1>2. At = [k \in 1 .. NodeNum |-> IF k = 1 THEN list.head ELSE node[At[k - 1]].next]
  BY <1>1 DEF At
<1> QED BY <1>2

\* s is the list from head to tail, in the order of next and of prev: the nodes in use.
Links(s) ==
  /\ s \in Seq(Nodes) /\ Len(s) = list.len
  /\ \A i, j \in 1 .. Len(s) : s[i] = s[j] => i = j
  /\ list_node_stat = {s[k] : k \in 1 .. Len(s)}
  /\ s = <<>> => list.head = NULL /\ list.tail = NULL
  /\ s # <<>> => /\ s[1] = list.head /\ s[Len(s)] = list.tail
                 /\ node[s[1]].prev = NULL /\ node[s[Len(s)]].next = NULL
  /\ \A k \in 1 .. Len(s) - 1 : node[s[k]].next = s[k + 1] /\ node[s[k + 1]].prev = s[k]

\* The two pointers of a node, and the types of the list.
ListType ==
  /\ list \in [head : Ptrs, tail : Ptrs, len : Nat]
  /\ node \in [Nodes -> [prev : Ptrs, next : Ptrs, val : Items]]
  /\ list_node_stat \subseteq Nodes

LEMMA NodesCounted == IsFiniteSet(Nodes) /\ Cardinality(Nodes) = NodeNum
<1>1. 0 \in Int /\ NodeNum - 1 \in Int /\ 0 <= NodeNum - 1 /\ (NodeNum - 1) - 0 + 1 = NodeNum
  BY NodeNumAssumption
<1>2. /\ IsFiniteSet(0 .. NodeNum - 1)
      /\ Cardinality(0 .. NodeNum - 1) = IF 0 > NodeNum - 1 THEN 0 ELSE (NodeNum - 1) - 0 + 1
  BY <1>1, FS_Interval
<1> QED BY <1>1, <1>2 DEF Nodes

LEMMA PlacesCounted ==
  ASSUME NEW n \in Nat
  PROVE  IsFiniteSet(1 .. n) /\ Cardinality(1 .. n) = n
<1>1. 1 \in Int /\ n \in Int
  OBVIOUS
<1>2. IsFiniteSet(1 .. n) /\ Cardinality(1 .. n) = IF 1 > n THEN 0 ELSE n - 1 + 1
  BY <1>1, FS_Interval, Zenon
<1> QED BY <1>2

\* A list without repetition is no longer than the set it is taken from.
LEMMA Pigeons ==
  ASSUME NEW S, IsFiniteSet(S), NEW s \in Seq(S), \A i, j \in 1 .. Len(s) : s[i] = s[j] => i = j
  PROVE  Len(s) <= Cardinality(S)
<1>1. Len(s) \in Nat /\ Cardinality(S) \in Nat
  BY FS_CardinalityType
<1>2. IsFiniteSet(1 .. Len(s)) /\ Cardinality(1 .. Len(s)) = Len(s)
  BY <1>1, PlacesCounted
<1>3. s \in [1 .. Len(s) -> S]
  OBVIOUS
<1>4. Cardinality(S) < Cardinality(1 .. Len(s)) => \E i, j \in 1 .. Len(s) : i # j /\ s[i] = s[j]
  BY <1>2, <1>3, FS_PigeonHole
<1> QED BY <1>1, <1>2, <1>4

\* The chain is the list's At.
LEMMA LinksUnique ==
  ASSUME NEW s, Links(s)
  PROVE  /\ Len(s) \in 0 .. NodeNum
         /\ \A k \in 1 .. Len(s) : At[k] = s[k]
<1>1. s \in Seq(Nodes) /\ Len(s) \in Nat /\ NodeNum \in Nat
  BY NodeNumAssumption DEF Links
<1>2. Len(s) <= NodeNum
  BY NodesCounted, Pigeons DEF Links
<1> DEFINE Bad == {k \in 1 .. Len(s) : At[k] # s[k]}
<1>3. SUFFICES ASSUME Bad # {} PROVE FALSE
  BY <1>1, <1>2
<1>4. PICK k \in Bad : \A j \in Bad : k <= j
  <2>1. Bad \in SUBSET Nat
    BY <1>1
  <2> HIDE DEF Bad
  <2> QED BY <1>3, <2>1, LeastNat
<1>5. k \in 1 .. Len(s) /\ k \in 1 .. NodeNum /\ At[k] # s[k] /\ s # <<>>
  BY <1>1, <1>2
<1>6. CASE k = 1
  BY <1>5, <1>6, AtIs DEF Links
<1>7. CASE k # 1
  <2>1. k - 1 \in 1 .. Len(s) - 1 /\ k - 1 \in 1 .. Len(s) /\ (k - 1) + 1 = k /\ ~(k <= k - 1)
    BY <1>1, <1>5, <1>7
  <2>2. At[k - 1] = s[k - 1]
    BY <1>4, <2>1
  <2>3. node[s[k - 1]].next = s[k]
    BY <2>1 DEF Links
  <2>4. At[k] = node[At[k - 1]].next
    BY <1>5, <1>7, AtIs
  <2> QED BY <1>5, <2>2, <2>3, <2>4
<1> QED BY <1>6, <1>7

\* Without a free node the list has as many nodes as there are.
LEMMA FreeMeansShort ==
  ASSUME NEW s, Links(s), FreeNodes = {}
  PROVE  Len(s) = NodeNum
<1>1. s \in Seq(Nodes) /\ Len(s) \in Nat /\ Len(s) <= NodeNum /\ NodeNum \in Nat
  BY LinksUnique, NodeNumAssumption DEF Links
<1>2. Nodes = {s[k] : k \in 1 .. Len(s)}
  BY <1>1 DEF Links, FreeNodes
<1>3. IsFiniteSet(1 .. Len(s)) /\ Cardinality(1 .. Len(s)) = Len(s)
  BY <1>1, PlacesCounted
<1>4. s \in Surjection(1 .. Len(s), Nodes)
  BY <1>1, <1>2 DEF Surjection
<1>5. Cardinality(Nodes) <= Cardinality(1 .. Len(s))
  BY <1>3, <1>4, FS_Surjection
<1> QED BY <1>1, <1>3, <1>5, NodesCounted

\* A list with one more node at its end, and one without its j-th.
Cut(s, j) == [i \in 1 .. Len(s) - 1 |-> IF i < j THEN s[i] ELSE s[i + 1]]

LEMMA Longer ==
  ASSUME NEW S, NEW s \in Seq(S), NEW x \in S
  PROVE  /\ Append(s, x) \in Seq(S) /\ Len(Append(s, x)) = Len(s) + 1 /\ Append(s, x) # <<>>
         /\ \A i \in 1 .. Len(s) : Append(s, x)[i] = s[i]
         /\ Append(s, x)[Len(s) + 1] = x
OBVIOUS

LEMMA Shorter ==
  ASSUME NEW S, NEW s \in Seq(S), NEW j \in 1 .. Len(s)
  PROVE  /\ Cut(s, j) \in Seq(S) /\ Len(Cut(s, j)) = Len(s) - 1
         /\ \A i \in 1 .. Len(s) - 1 :
              /\ Cut(s, j)[i] = IF i < j THEN s[i] ELSE s[i + 1]
              /\ i \in 1 .. Len(s) /\ i + 1 \in 1 .. Len(s)
<1>1. \A i \in 1 .. Len(s) - 1 : i \in 1 .. Len(s) /\ i + 1 \in 1 .. Len(s)
  OBVIOUS
<1>2. Len(s) - 1 \in Nat
  OBVIOUS
<1>3. Cut(s, j) \in [1 .. Len(s) - 1 -> S]
  BY <1>1 DEF Cut
<1>4. Cut(s, j) \in Seq(S)
  BY <1>2, <1>3
<1>5. Len(Cut(s, j)) = Len(s) - 1
  BY <1>2, <1>3, <1>4
<1> QED BY <1>1, <1>4, <1>5 DEF Cut

\* list_rpush adds its node to the chain, and moves no value.
LEMMA PushLinks ==
  ASSUME ListType, NEW s, Links(s), NEW n \in FreeNodes, NEW val \in Items, list_rpush(n, val)
  PROVE  /\ ListType' /\ Links(Append(s, n))'
         /\ node'[n].val = val
         /\ \A k \in 1 .. Len(s) : node'[s[k]].val = node[s[k]].val
<1> DEFINE old == list.tail
           rec == [prev |-> IF list.len = 0 THEN NULL ELSE old, next |-> NULL, val |-> val]
           new == [node EXCEPT ![n] = rec]
           t == Append(s, n)
<1>1. /\ s \in Seq(Nodes) /\ Len(s) \in Nat /\ Len(s) = list.len
      /\ node \in [Nodes -> [prev : Ptrs, next : Ptrs, val : Items]]
      /\ list_node_stat = {s[k] : k \in 1 .. Len(s)} /\ list_node_stat \subseteq Nodes
      /\ list.head \in Ptrs /\ list.tail \in Ptrs
  BY DEF Links, ListType
<1>2. n \in Nodes /\ \A k \in 1 .. Len(s) : s[k] # n
  BY <1>1 DEF FreeNodes
<1>3. rec \in [prev : Ptrs, next : Ptrs, val : Items]
  BY <1>1 DEF Ptrs
<1>4. /\ t \in Seq(Nodes) /\ Len(t) = Len(s) + 1 /\ t # <<>>
      /\ \A i \in 1 .. Len(s) : t[i] = s[i]
      /\ t[Len(s) + 1] = n
  BY <1>1, <1>2, Longer
<1>5. /\ list' = [head |-> IF list.len = 0 THEN n ELSE list.head, tail |-> n, len |-> list.len + 1]
      /\ list_node_stat' = list_node_stat \cup {n}
      /\ node' = IF list.len = 0 THEN new ELSE [new EXCEPT ![old].next = n]
  BY DEF list_rpush
<1>6. list.len > 0 => /\ old \in Nodes /\ old # n /\ old = s[Len(s)] /\ Len(s) \in 1 .. Len(s)
  BY <1>1, <1>2 DEF Links
\* What the push writes.
<1>7. /\ node' \in [Nodes -> [prev : Ptrs, next : Ptrs, val : Items]]
      /\ node'[n] = rec
      /\ list.len > 0 => /\ node'[old].next = n
                         /\ node'[old].prev = node[old].prev /\ node'[old].val = node[old].val
      /\ \A m \in Nodes : m # n /\ (list.len > 0 => m # old) => node'[m] = node[m]
  <2> HIDE DEF rec
  <2>1. new \in [Nodes -> [prev : Ptrs, next : Ptrs, val : Items]]
    BY <1>1, <1>2, <1>3
  <2>2. new[n] = rec /\ \A m \in Nodes : m # n => new[m] = node[m]
    BY <1>1, <1>2
  <2> HIDE DEF new
  <2>3. CASE list.len = 0
    BY <1>1, <1>2, <1>5, <2>1, <2>2, <2>3
  <2>4. CASE list.len # 0
    <3>1. old \in Nodes /\ old # n /\ list.len > 0
      BY <1>1, <1>6, <2>4
    <3>2. node' = [new EXCEPT ![old] = [new[old] EXCEPT !.next = n]]
      BY <1>5, <2>4
    <3>3. [new[old] EXCEPT !.next = n] \in [prev : Ptrs, next : Ptrs, val : Items]
      BY <1>2, <2>1, <3>1 DEF Ptrs
    <3>4. /\ [new[old] EXCEPT !.next = n].next = n
          /\ [new[old] EXCEPT !.next = n].prev = new[old].prev
          /\ [new[old] EXCEPT !.next = n].val = new[old].val
      BY <2>1, <3>1
    <3> HIDE DEF old
    <3>5. node' \in [Nodes -> [prev : Ptrs, next : Ptrs, val : Items]]
      BY <2>1, <3>1, <3>2, <3>3
    <3>6. /\ node'[old] = [new[old] EXCEPT !.next = n]
          /\ \A m \in Nodes : m # old => node'[m] = new[m]
      BY <2>1, <3>1, <3>2
    <3> QED BY <1>2, <2>2, <3>1, <3>4, <3>5, <3>6
  <2> QED BY <2>3, <2>4
<1>8. /\ rec.next = NULL /\ rec.val = val
      /\ rec.prev = IF list.len = 0 THEN NULL ELSE old
  OBVIOUS
<1> HIDE DEF rec, t
\* Its consequences for each node of the chain.
<1>9. \A k \in 1 .. Len(s) : /\ node'[s[k]].val = node[s[k]].val
                             /\ node'[s[k]].prev = node[s[k]].prev
                             /\ k < Len(s) => node'[s[k]].next = node[s[k]].next
  <2> TAKE k \in 1 .. Len(s)
  <2>1. s[k] \in Nodes /\ s[k] # n /\ list.len > 0
    BY <1>1, <1>2
  <2>2. k < Len(s) => s[k] # old
    BY <1>1, <1>6, <2>1 DEF Links
  <2>3. CASE s[k] = old
    BY <1>7, <2>1, <2>2, <2>3
  <2>4. CASE s[k] # old
    BY <1>7, <2>1, <2>4
  <2> QED BY <2>3, <2>4
<1>10. ListType'
  BY <1>1, <1>2, <1>5, <1>7 DEF ListType, Ptrs
<1>11. Links(t)'
  <2>1. t \in Seq(Nodes) /\ Len(t) = list'.len
    BY <1>1, <1>4, <1>5
  <2>2. \A i, j \in 1 .. Len(t) : t[i] = t[j] => i = j
    <3>1. \A i \in 1 .. Len(t) : i \in 1 .. Len(s) \/ i = Len(s) + 1
      BY <1>1, <1>4
    <3> QED BY <1>2, <1>4, <3>1 DEF Links
  <2>3. list_node_stat' = {t[k] : k \in 1 .. Len(t)}
    <3>1. \A i \in 1 .. Len(s) + 1 : i \in 1 .. Len(s) \/ i = Len(s) + 1
      BY <1>1
    <3>2. \A i \in 1 .. Len(s) : i \in 1 .. Len(s) + 1
      BY <1>1
    <3>3. Len(s) + 1 \in 1 .. Len(s) + 1
      BY <1>1
    <3> QED BY <1>1, <1>4, <1>5, <3>1, <3>2, <3>3
  <2>4. t[1] = list'.head /\ t[Len(t)] = list'.tail
    <3>1. list'.head = IF list.len = 0 THEN n ELSE list.head
      BY <1>5
    <3>2. list'.tail = n
      BY <1>5
    <3> QED BY <1>1, <1>4, <3>1, <3>2 DEF Links
  <2>5. node'[t[Len(t)]].next = NULL
    BY <1>4, <1>7, <1>8
  <2>6. node'[t[1]].prev = NULL
    <3>1. CASE Len(s) = 0
      BY <1>1, <1>4, <1>7, <1>8, <3>1
    <3>2. CASE Len(s) # 0
      <4>1. 1 \in 1 .. Len(s) /\ s # <<>>
        BY <1>1, <3>2
      <4> QED BY <1>4, <1>9, <4>1 DEF Links
    <3> QED BY <3>1, <3>2
  <2>7. ASSUME NEW k \in 1 .. Len(t) - 1
        PROVE  node'[t[k]].next = t[k + 1] /\ node'[t[k + 1]].prev = t[k]
    <3>1. k \in 1 .. Len(s) /\ t[k] = s[k] /\ list.len > 0
      BY <1>1, <1>4
    <3>2. CASE k = Len(s)
      BY <1>1, <1>4, <1>6, <1>7, <1>8, <3>1, <3>2
    <3>3. CASE k # Len(s)
      <4>1. k \in 1 .. Len(s) - 1 /\ k + 1 \in 1 .. Len(s) /\ k < Len(s)
        BY <1>1, <3>1, <3>3
      <4>2. node[s[k]].next = s[k + 1] /\ node[s[k + 1]].prev = s[k]
        BY <4>1 DEF Links
      <4> QED BY <1>4, <1>9, <3>1, <4>1, <4>2
    <3> QED BY <3>2, <3>3
  <2> QED BY <1>4, <2>1, <2>2, <2>3, <2>4, <2>5, <2>6, <2>7 DEF Links
<1> QED BY <1>7, <1>8, <1>9, <1>10, <1>11 DEF t

\* The neighbours of the j-th node.
LEMMA Neighbours ==
  ASSUME NEW s, Links(s), NEW j \in 1 .. Len(s)
  PROVE  /\ node[s[j]].prev = IF j = 1 THEN NULL ELSE s[j - 1]
         /\ node[s[j]].next = IF j = Len(s) THEN NULL ELSE s[j + 1]
         /\ s[j] \in Nodes /\ s[j] # NULL
<1>1. s \in Seq(Nodes) /\ Len(s) \in Nat /\ s # <<>> /\ s[j] \in Nodes
  BY DEF Links
<1>4. node[s[j]].prev = IF j = 1 THEN NULL ELSE s[j - 1]
  <2>1. CASE j = 1
    BY <1>1, <2>1 DEF Links
  <2>2. CASE j # 1
    <3>1. j - 1 \in 1 .. Len(s) - 1 /\ (j - 1) + 1 = j
      BY <1>1, <2>2
    <3> QED BY <2>2, <3>1 DEF Links
  <2> QED BY <2>1, <2>2
<1>5. node[s[j]].next = IF j = Len(s) THEN NULL ELSE s[j + 1]
  <2>1. j # Len(s) => j \in 1 .. Len(s) - 1
    BY <1>1
  <2> QED BY <1>1, <2>1 DEF Links
<1> QED BY <1>1, <1>4, <1>5, NullAssumption

\* list_remove takes the node out of the chain, and moves no other value.
LEMMA RemoveLinks ==
  ASSUME ListType, NEW s, Links(s), NEW j \in 1 .. Len(s), list_remove(s[j])
  PROVE  /\ ListType' /\ Links(Cut(s, j))'
         /\ \A k \in 1 .. Len(s) : k # j => node'[s[k]].val = node[s[k]].val
<1> DEFINE n == s[j]
           p == node[n].prev
           q == node[n].next
           a == IF p = NULL THEN node ELSE [node EXCEPT ![p].next = q]
           b == IF q = NULL THEN a ELSE [a EXCEPT ![q].prev = p]
           t == Cut(s, j)
           Recs == [prev : Ptrs, next : Ptrs, val : Items]
<1>1. /\ s \in Seq(Nodes) /\ Len(s) \in Nat /\ Len(s) = list.len /\ s # <<>>
      /\ node \in [Nodes -> Recs]
      /\ list_node_stat = {s[k] : k \in 1 .. Len(s)} /\ list_node_stat \subseteq Nodes
      /\ list.head \in Ptrs /\ list.tail \in Ptrs
      /\ \A k, i \in 1 .. Len(s) : s[k] = s[i] => k = i
      /\ \A k \in 1 .. Len(s) : s[k] \in Nodes
  BY DEF Links, ListType
<1>2. /\ p = IF j = 1 THEN NULL ELSE s[j - 1]
      /\ q = IF j = Len(s) THEN NULL ELSE s[j + 1]
      /\ n \in Nodes /\ n # NULL
  BY Neighbours
<1>3. /\ t \in Seq(Nodes) /\ Len(t) = Len(s) - 1
      /\ \A i \in 1 .. Len(s) - 1 :
           /\ t[i] = IF i < j THEN s[i] ELSE s[i + 1]
           /\ i \in 1 .. Len(s) /\ i + 1 \in 1 .. Len(s)
  BY <1>1, Shorter
<1>4. /\ list' = [head |-> IF p = NULL THEN q ELSE list.head,
                  tail |-> IF q = NULL THEN p ELSE list.tail, len |-> list.len - 1]
      /\ list_node_stat' = list_node_stat \ {n}
      /\ node' = [b EXCEPT ![n] = Blank]
  BY DEF list_remove
<1>5. /\ j # 1 => p \in Nodes /\ p # NULL /\ p # n /\ j - 1 \in 1 .. Len(s)
      /\ j # Len(s) => q \in Nodes /\ q # NULL /\ q # n /\ j + 1 \in 1 .. Len(s)
      /\ j # 1 /\ j # Len(s) => p # q
      /\ p \in Ptrs /\ q \in Ptrs
  <2>1. j # 1 => j - 1 \in 1 .. Len(s) /\ j - 1 # j
    BY <1>1
  <2>2. j # Len(s) => j + 1 \in 1 .. Len(s) /\ j + 1 # j /\ j + 1 # j - 1
    BY <1>1
  <2> HIDE DEF p, q
  <2>3. j # 1 => p \in Nodes /\ p # NULL /\ p # n
    BY <1>1, <1>2, <2>1, NullAssumption
  <2>4. j # Len(s) => q \in Nodes /\ q # NULL /\ q # n
    BY <1>1, <1>2, <2>2, NullAssumption
  <2> QED BY <1>1, <1>2, <2>1, <2>2, <2>3, <2>4 DEF Ptrs
\* What the removal writes.
<1>6. /\ a \in [Nodes -> Recs]
      /\ j # 1 => a[p].next = q /\ a[p].prev = node[p].prev /\ a[p].val = node[p].val
      /\ \A m \in Nodes : (j # 1 => m # p) => a[m] = node[m]
  <2> HIDE DEF p, q
  <2>1. CASE j = 1
    BY <1>1, <1>2, <2>1
  <2>2. CASE j # 1
    <3>1. a = [node EXCEPT ![p] = [node[p] EXCEPT !.next = q]]
      BY <1>5, <2>2
    <3>2. /\ [node[p] EXCEPT !.next = q] \in Recs
          /\ [node[p] EXCEPT !.next = q].next = q
          /\ [node[p] EXCEPT !.next = q].prev = node[p].prev
          /\ [node[p] EXCEPT !.next = q].val = node[p].val
      BY <1>1, <1>5, <2>2
    <3> HIDE DEF a
    <3> QED BY <1>1, <1>5, <2>2, <3>1, <3>2
  <2> QED BY <2>1, <2>2
<1>7. /\ b \in [Nodes -> Recs]
      /\ j # Len(s) => b[q].prev = p /\ b[q].next = a[q].next /\ b[q].val = a[q].val
      /\ \A m \in Nodes : (j # Len(s) => m # q) => b[m] = a[m]
  <2> HIDE DEF p, q, a
  <2>1. CASE j = Len(s)
    BY <1>2, <1>6, <2>1
  <2>2. CASE j # Len(s)
    <3>1. b = [a EXCEPT ![q] = [a[q] EXCEPT !.prev = p]]
      BY <1>5, <2>2
    <3>2. /\ [a[q] EXCEPT !.prev = p] \in Recs
          /\ [a[q] EXCEPT !.prev = p].prev = p
          /\ [a[q] EXCEPT !.prev = p].next = a[q].next
          /\ [a[q] EXCEPT !.prev = p].val = a[q].val
      BY <1>5, <1>6, <2>2
    <3> HIDE DEF b
    <3> QED BY <1>5, <1>6, <2>2, <3>1, <3>2
  <2> QED BY <2>1, <2>2
<1>8. Blank \in Recs
  BY NodeNumAssumption DEF Blank, Ptrs, Items, Ids, Nodes
<1>9. node' \in [Nodes -> Recs] /\ \A m \in Nodes : m # n => node'[m] = b[m]
  <2> HIDE DEF p, q, a, b, n
  <2> QED BY <1>2, <1>4, <1>7, <1>8
<1> HIDE DEF p, q, a, b, t
\* Its consequences for each other node of the chain.
<1>10. \A k \in 1 .. Len(s) : k # j =>
         /\ s[k] \in Nodes /\ s[k] # n
         /\ node'[s[k]].val = node[s[k]].val
         /\ node'[s[k]].next = IF k = j - 1 THEN q ELSE node[s[k]].next
         /\ node'[s[k]].prev = IF k = j + 1 THEN p ELSE node[s[k]].prev
  <2> SUFFICES ASSUME NEW k \in 1 .. Len(s), k # j
               PROVE  /\ s[k] \in Nodes /\ s[k] # n
                      /\ node'[s[k]].val = node[s[k]].val
                      /\ node'[s[k]].next = IF k = j - 1 THEN q ELSE node[s[k]].next
                      /\ node'[s[k]].prev = IF k = j + 1 THEN p ELSE node[s[k]].prev
    OBVIOUS
  <2>1. s[k] \in Nodes /\ s[k] # n /\ node'[s[k]] = b[s[k]]
    BY <1>1, <1>9
  <2>2. (j # 1 /\ s[k] = p) <=> k = j - 1
    <3>1. j # 1 => p = s[j - 1] /\ j - 1 \in 1 .. Len(s)
      BY <1>2, <1>5
    <3>2. k = j - 1 => j # 1
      BY <1>1
    <3> QED BY <1>1, <3>1, <3>2
  <2>3. (j # Len(s) /\ s[k] = q) <=> k = j + 1
    <3>1. j # Len(s) => q = s[j + 1] /\ j + 1 \in 1 .. Len(s)
      BY <1>2, <1>5
    <3>2. k = j + 1 => j # Len(s)
      BY <1>1
    <3> QED BY <1>1, <3>1, <3>2
  <2>4. k # j - 1 \/ k # j + 1
    BY <1>1
  <2>5. CASE k = j - 1
    BY <1>6, <1>7, <2>1, <2>2, <2>3, <2>4, <2>5
  <2>6. CASE k = j + 1
    BY <1>6, <1>7, <2>1, <2>2, <2>3, <2>4, <2>6
  <2>7. CASE k # j - 1 /\ k # j + 1
    BY <1>6, <1>7, <2>1, <2>2, <2>3, <2>7
  <2> QED BY <2>5, <2>6, <2>7
<1>11. ListType'
  <2>1. list' \in [head : Ptrs, tail : Ptrs, len : Nat]
    BY <1>1, <1>4, <1>5
  <2> QED BY <1>1, <1>4, <1>9, <2>1 DEF ListType
<1>12. Links(t)'
  <2>1. t \in Seq(Nodes) /\ Len(t) = list'.len
    BY <1>1, <1>3, <1>4
  <2>i. \A i \in 1 .. Len(t) : \E k \in 1 .. Len(s) :
          k # j /\ t[i] = s[k] /\ k = IF i < j THEN i ELSE i + 1
    BY <1>1, <1>3
  <2>2. \A i, k \in 1 .. Len(t) : t[i] = t[k] => i = k
    BY <1>1, <1>3
  <2>3. list_node_stat' = {t[k] : k \in 1 .. Len(t)}
    <3>1. \A k \in 1 .. Len(s) : k # j => \E i \in 1 .. Len(t) : t[i] = s[k]
      <4> SUFFICES ASSUME NEW k \in 1 .. Len(s), k # j PROVE \E i \in 1 .. Len(t) : t[i] = s[k]
        OBVIOUS
      <4>1. CASE k < j
        <5>1. k \in 1 .. Len(s) - 1
          BY <1>1, <4>1
        <5> QED BY <1>3, <4>1, <5>1
      <4>2. CASE ~(k < j)
        <5>1. k - 1 \in 1 .. Len(s) - 1 /\ ~(k - 1 < j) /\ (k - 1) + 1 = k
          BY <1>1, <4>2
        <5> QED BY <1>3, <5>1
      <4> QED BY <4>1, <4>2
    <3>2. list_node_stat' = {s[k] : k \in {i \in 1 .. Len(s) : i # j}}
      BY <1>1, <1>4 DEF n
    <3>3. \A i \in 1 .. Len(t) : t[i] \in list_node_stat'
      BY <2>i, <3>2
    <3>4. \A m \in list_node_stat' : \E i \in 1 .. Len(t) : t[i] = m
      BY <3>1, <3>2
    <3> QED BY <3>3, <3>4
  <2>4. t = <<>> => list'.head = NULL /\ list'.tail = NULL
    <3> SUFFICES ASSUME t = <<>> PROVE list'.head = NULL /\ list'.tail = NULL
      OBVIOUS
    <3>1. Len(s) = 1 /\ j = 1
      BY <1>1, <1>3
    <3> QED BY <1>2, <1>4, <3>1
  <2>5. t # <<>> => t[1] = list'.head /\ node'[t[1]].prev = NULL
    <3> SUFFICES ASSUME t # <<>> PROVE t[1] = list'.head /\ node'[t[1]].prev = NULL
      OBVIOUS
    <3>1. Len(s) > 1 /\ 1 \in 1 .. Len(s) - 1
      BY <1>1, <1>3
    <3>2. CASE j = 1
      <4>1. t[1] = s[2] /\ 2 \in 1 .. Len(s) /\ q = s[2] /\ p = NULL /\ 2 = j + 1
        BY <1>1, <1>2, <1>3, <3>1, <3>2
      <4> QED BY <1>4, <1>10, <3>2, <4>1
    <3>3. CASE j # 1
      <4>1. t[1] = s[1] /\ 1 \in 1 .. Len(s) /\ p # NULL /\ 1 # j + 1 /\ 1 # j
        BY <1>1, <1>3, <1>5, <3>1, <3>3
      <4>2. list'.head = s[1] /\ node[s[1]].prev = NULL
        BY <1>1, <1>4, <4>1 DEF Links
      <4> QED BY <1>10, <4>1, <4>2
    <3> QED BY <3>2, <3>3
  <2>6. t # <<>> => t[Len(t)] = list'.tail /\ node'[t[Len(t)]].next = NULL
    <3> SUFFICES ASSUME t # <<>> PROVE t[Len(t)] = list'.tail /\ node'[t[Len(t)]].next = NULL
      OBVIOUS
    <3>1. Len(s) > 1 /\ Len(t) = Len(s) - 1 /\ Len(t) \in 1 .. Len(s) - 1 /\ Len(t) + 1 = Len(s)
      BY <1>1, <1>3
    <3>2. CASE j = Len(s)
      <4>1. t[Len(t)] = s[j - 1] /\ j - 1 \in 1 .. Len(s) /\ j - 1 # j /\ p = s[j - 1] /\ q = NULL
        BY <1>1, <1>2, <1>3, <3>1, <3>2
      <4> QED BY <1>4, <1>10, <4>1
    <3>3. CASE j # Len(s)
      <4>1. t[Len(t)] = s[Len(s)] /\ Len(s) \in 1 .. Len(s) /\ q # NULL /\ Len(s) # j - 1
        BY <1>1, <1>3, <1>5, <3>1, <3>3
      <4>2. list'.tail = s[Len(s)] /\ node[s[Len(s)]].next = NULL
        BY <1>1, <1>4, <4>1 DEF Links
      <4> QED BY <1>10, <3>3, <4>1, <4>2
    <3> QED BY <3>2, <3>3
  <2>7. ASSUME NEW k \in 1 .. Len(t) - 1
        PROVE  node'[t[k]].next = t[k + 1] /\ node'[t[k + 1]].prev = t[k]
    <3>1. /\ k \in 1 .. Len(s) - 1 /\ k + 1 \in 1 .. Len(s) - 1 /\ k \in Nat /\ (k + 1) + 1 = k + 2
          /\ k \in 1 .. Len(s) /\ k + 1 \in 1 .. Len(s) /\ k + 2 \in 1 .. Len(s)
      BY <1>1, <1>3
    <3>2. /\ node[s[k]].next = s[k + 1] /\ node[s[k + 1]].prev = s[k]
          /\ node[s[k + 1]].next = s[k + 2] /\ node[s[k + 2]].prev = s[k + 1]
      BY <3>1 DEF Links
    <3>3. /\ t[k] = IF k < j THEN s[k] ELSE s[k + 1]
          /\ t[k + 1] = IF k + 1 < j THEN s[k + 1] ELSE s[k + 2]
      BY <1>3, <3>1
    <3>4. CASE k + 1 < j
      <4>1. k < j /\ k # j /\ k + 1 # j /\ k # j - 1 /\ k + 1 # j + 1
        BY <3>1, <3>4
      <4> QED BY <1>10, <3>1, <3>2, <3>3, <3>4, <4>1
    <3>5. CASE k + 1 = j
      <4>1. k < j /\ ~(k + 1 < j) /\ k # j /\ k = j - 1 /\ k + 2 = j + 1 /\ k + 2 # j /\ j # 1 /\ j # Len(s)
        BY <1>1, <3>1, <3>5
      <4>2. p = s[k] /\ q = s[k + 2]
        BY <1>2, <4>1
      <4> QED BY <1>10, <3>1, <3>3, <4>1, <4>2
    <3>6. CASE k + 1 > j
      <4>1. ~(k < j) /\ ~(k + 1 < j) /\ k + 1 # j /\ k + 2 # j /\ k + 1 # j - 1 /\ k + 2 # j + 1
        BY <3>1, <3>6
      <4> QED BY <1>10, <3>1, <3>2, <3>3, <4>1
    <3> QED BY <3>1, <3>4, <3>5, <3>6
  <2> QED BY <2>1, <2>2, <2>3, <2>4, <2>5, <2>6, <2>7 DEF Links
<1> QED BY <1>10, <1>11, <1>12 DEF t

-----------------------------------------------------------------------------
(* The inductive invariant.                                                *)

Walks == {"delete", "delete_all", "convert"}

CallType ==
  /\ list_id_table \subseteq Ids
  /\ heap \in Nat
  /\ pc \in {"idle", "recheck", "push", "show"} \cup Walks
  /\ it \in Ptrs
  /\ cur \in [op : {"add", "alpha", "delete", "shown"}, val : Items]

\* Which calls are under way where.
CallInv ==
  /\ BlocksAccountedFor
  /\ pc \in {"push", "recheck"} => cur.op \in {"add", "alpha"}
  /\ pc \notin Walks => it = NULL

\* No two items have one id, an id that is shown has its bit set, and an add that is
\* about to push has set the bit of an id nobody shows.
IdsKept(s) ==
  /\ \A i, k \in 1 .. Len(s) : node[s[i]].val.id = node[s[k]].val.id => i = k
  /\ \A k \in 1 .. Len(s) : node[s[k]].val.id \in list_id_table
  /\ pc = "push" => /\ cur.val.id \in list_id_table
                    /\ \A k \in 1 .. Len(s) : node[s[k]].val.id # cur.val.id

\* A walk stands at the j-th node, or past the last, and knows of those it has passed.
Passed(n) ==
  /\ pc = "delete" => node[n].val.id # cur.val.id
  /\ pc = "convert" => ~node[n].val.auto_del
  /\ pc # "delete_all"

StandsAt(s, j) ==
  /\ it = IF j = Len(s) + 1 THEN NULL ELSE s[j]
  /\ \A i \in 1 .. j - 1 : Passed(s[i])

Chain(s) ==
  /\ Links(s)
  /\ IdsKept(s)
  /\ pc \in Walks => \E j \in 1 .. Len(s) + 1 : StandsAt(s, j)

IInv == ListType /\ CallType /\ CallInv /\ \E s : Chain(s)

LEMMA InitIInv == Init => IInv
<1> SUFFICES ASSUME Init PROVE IInv
  OBVIOUS
<1> USE NodeNumAssumption, NullAssumption DEF Init
<1>0. Blank \in [prev : Ptrs, next : Ptrs, val : Items]
  BY DEF Blank, Ptrs, Items, Ids, Nodes
<1>1. ListType
  BY <1>0 DEF ListType, Ptrs
<1>2. CallType
  <2>1. Blank.val \in Items
    BY <1>0
  <2> QED BY <2>1 DEF CallType, Ptrs, Walks
<1>3. CallInv
  BY DEF CallInv, BlocksAccountedFor, Walks
<1>4. Chain(<<>>)
  BY DEF Chain, Links, IdsKept, Walks
<1> QED BY <1>1, <1>2, <1>3, <1>4 DEF IInv

\* A walk starts at the first node.
LEMMA StartStands ==
  ASSUME NEW s, Chain(s), it' = list.head, UNCHANGED listVars
  PROVE  /\ StandsAt(s, 1)' /\ 1 \in 1 .. Len(s) + 1 /\ Links(s)'
<1>1. s \in Seq(Nodes) /\ Len(s) \in Nat /\ Links(s)
  BY DEF Chain, Links
<1>2. it' = IF 1 = Len(s) + 1 THEN NULL ELSE s[1]
  BY <1>1 DEF Links
<1> QED BY <1>1, <1>2 DEF StandsAt, Links, listVars

\* What stands at a node stands at one of the chain.
LEMMA Standing ==
  ASSUME NEW s, Chain(s), pc \in Walks
  PROVE  \E j \in 1 .. Len(s) + 1 :
           /\ StandsAt(s, j)
           /\ it # NULL => j \in 1 .. Len(s) /\ it = s[j]
           /\ it = NULL => j = Len(s) + 1
<1>1. PICK j \in 1 .. Len(s) + 1 : StandsAt(s, j)
  BY DEF Chain
<1>2. s \in Seq(Nodes) /\ Len(s) \in Nat
  BY DEF Chain, Links
<1>3. j # Len(s) + 1 => j \in 1 .. Len(s) /\ s[j] # NULL
  BY <1>2, NullAssumption
<1> QED BY <1>1, <1>3 DEF StandsAt

\* A walk goes on from a node it leaves where it is.
LEMMA AdvanceStands ==
  ASSUME NEW s, Chain(s), NEW j \in 1 .. Len(s), StandsAt(s, j), it = s[j], Passed(it), Advance,
         UNCHANGED <<listVars, cur>>
  PROVE  StandsAt(s, j + 1)' /\ j + 1 \in 1 .. Len(s) + 1 /\ Links(s)'
<1>1. s \in Seq(Nodes) /\ Len(s) \in Nat /\ Links(s)
  BY DEF Chain, Links
<1>2. it' = IF j + 1 = Len(s) + 1 THEN NULL ELSE s[j + 1]
  BY <1>1, Neighbours DEF Advance
<1>3. \A i \in 1 .. (j + 1) - 1 : i \in 1 .. j - 1 \/ i = j
  BY <1>1
<1>4. \A i \in 1 .. (j + 1) - 1 : Passed(s[i])
  BY <1>3 DEF StandsAt
<1>5. UNCHANGED <<node, pc, cur>>
  BY DEF listVars, Advance
<1>6. \A i \in 1 .. (j + 1) - 1 : Passed(s[i])'
  BY <1>4, <1>5 DEF Passed
<1> QED BY <1>1, <1>2, <1>6 DEF StandsAt, Links, listVars

\* A walk goes on from a node that it removes.
LEMMA RemoveStands ==
  ASSUME ListType, NEW s, Chain(s), NEW j \in 1 .. Len(s), StandsAt(s, j), it = s[j], Advance,
         list_remove(it), UNCHANGED cur
  PROVE  StandsAt(Cut(s, j), j)' /\ j \in 1 .. Len(Cut(s, j)) + 1
<1>1. s \in Seq(Nodes) /\ Len(s) \in Nat /\ Links(s)
  BY DEF Chain, Links
<1> DEFINE t == Cut(s, j)
<1>2. /\ Len(t) = Len(s) - 1
      /\ \A i \in 1 .. Len(s) - 1 : t[i] = IF i < j THEN s[i] ELSE s[i + 1]
  BY <1>1, Shorter
<1> HIDE DEF t
<1>3. it' = IF j = Len(t) + 1 THEN NULL ELSE t[j]
  <2>1. it' = IF j = Len(s) THEN NULL ELSE s[j + 1]
    BY <1>1, Neighbours DEF Advance
  <2>2. j # Len(s) => j \in 1 .. Len(s) - 1 /\ ~(j < j)
    BY <1>1
  <2> QED BY <1>1, <1>2, <2>1, <2>2
<1>4. \A i \in 1 .. j - 1 : Passed(t[i])'
  <2> TAKE i \in 1 .. j - 1
  <2>1. i \in 1 .. Len(s) - 1 /\ i \in 1 .. Len(s) /\ i # j /\ i < j
    BY <1>1
  <2>2. t[i] = s[i] /\ Passed(s[i]) /\ node'[s[i]].val = node[s[i]].val
    BY <1>1, <1>2, <2>1, RemoveLinks DEF StandsAt
  <2>3. UNCHANGED <<pc, cur>>
    BY DEF Advance
  <2> QED BY <2>2, <2>3 DEF Passed
<1>5. j \in 1 .. Len(t) + 1
  BY <1>1, <1>2
<1> QED BY <1>3, <1>4, <1>5 DEF StandsAt, t

\* Ids stay apart when one item goes, and when none does.
LEMMA CutIds ==
  ASSUME ListType, NEW s, Chain(s), NEW j \in 1 .. Len(s), list_remove(s[j]), pc' # "push",
         \/ list_id_table' = list_id_table
         \/ list_id_table' = list_id_table \ {node[s[j]].val.id}
  PROVE  IdsKept(Cut(s, j))'
<1>1. s \in Seq(Nodes) /\ Len(s) \in Nat /\ Links(s) /\ IdsKept(s)
  BY DEF Chain, Links
<1> DEFINE t == Cut(s, j)
<1>2. /\ t \in Seq(Nodes) /\ Len(t) = Len(s) - 1
      /\ \A i \in 1 .. Len(s) - 1 : /\ t[i] = IF i < j THEN s[i] ELSE s[i + 1]
                                    /\ i \in 1 .. Len(s) /\ i + 1 \in 1 .. Len(s)
  BY <1>1, Shorter
<1>3. \A k \in 1 .. Len(s) : k # j => node'[s[k]].val = node[s[k]].val
  BY <1>1, RemoveLinks
<1> HIDE DEF t
<1> DEFINE old(i) == IF i < j THEN i ELSE i + 1
<1>4. \A i \in 1 .. Len(t) : /\ old(i) \in 1 .. Len(s) /\ old(i) # j /\ t[i] = s[old(i)]
                             /\ node'[t[i]].val = node[s[old(i)]].val
  BY <1>1, <1>2, <1>3
<1>5. \A i, k \in 1 .. Len(t) : old(i) = old(k) => i = k
  BY <1>1, <1>2
<1> HIDE DEF old
<1>6. \A i, k \in 1 .. Len(t) : node'[t[i]].val.id = node'[t[k]].val.id => i = k
  <2> SUFFICES ASSUME NEW i \in 1 .. Len(t), NEW k \in 1 .. Len(t),
                      node'[t[i]].val.id = node'[t[k]].val.id
               PROVE  i = k
    OBVIOUS
  <2>1. node[s[old(i)]].val.id = node[s[old(k)]].val.id /\ old(i) \in 1 .. Len(s) /\ old(k) \in 1 .. Len(s)
    BY <1>4
  <2>2. old(i) = old(k)
    BY <1>1, <2>1 DEF IdsKept
  <2> QED BY <1>5, <2>2
<1>7. \A k \in 1 .. Len(t) : node'[t[k]].val.id \in list_id_table'
  BY <1>1, <1>4 DEF IdsKept
<1> QED BY <1>6, <1>7 DEF IdsKept, t

\* The counters in a state whose list has n items.
LEMMA CallIs == CallInv <=>
  /\ heap = 2 * list.len
            + (IF pc \in {"push", "recheck"} \/ (pc = "delete" /\ cur.op \in {"add", "alpha"})
               THEN 1 ELSE 0)
  /\ iterators = IF pc \in Walks THEN 1 ELSE 0
  /\ pc \in {"push", "recheck"} => cur.op \in {"add", "alpha"}
  /\ pc \notin Walks => it = NULL
BY DEF CallInv, BlocksAccountedFor, Walks

\* With an add about to push there is room: every item shown has another id.
LEMMA PushHasRoom ==
  ASSUME IInv, pc = "push"
  PROVE  FreeNodes # {}
<1> SUFFICES ASSUME FreeNodes = {} PROVE FALSE
  OBVIOUS
<1>1. PICK s : Chain(s)
  BY DEF IInv
<1>2. s \in Seq(Nodes) /\ Links(s) /\ IdsKept(s) /\ Len(s) \in Nat
  BY <1>1 DEF Chain, Links
<1>3. Len(s) = NodeNum
  BY <1>2, FreeMeansShort
<1> DEFINE ids == [k \in 1 .. Len(s) |-> node[s[k]].val.id]
           Rest == Nodes \ {cur.val.id}
<1>4. \A k \in 1 .. Len(s) : node[s[k]].val.id \in Rest
  <2>1. \A n \in Nodes : node[n].val.id \in Nodes
    BY DEF IInv, ListType, Items, Ids
  <2> QED BY <1>2, <2>1 DEF IdsKept
<1>5. ids \in Seq(Rest) /\ Len(ids) = Len(s)
  <2> HIDE DEF Rest
  <2>1. ids \in [1 .. Len(s) -> Rest]
    BY <1>4
  <2> QED BY <1>2, <2>1
<1>6. \A i, k \in 1 .. Len(ids) : ids[i] = ids[k] => i = k
  BY <1>2, <1>5 DEF IdsKept
<1>7. cur.val.id \in Nodes
  BY DEF IInv, CallType, Items, Ids
<1>8. IsFiniteSet(Rest) /\ Cardinality(Rest) = NodeNum - 1
  BY <1>7, NodesCounted, FS_RemoveElement
<1>9. Len(ids) <= NodeNum - 1
  <2> HIDE DEF ids, Rest
  <2> QED BY <1>5, <1>6, <1>8, Pigeons
<1> QED BY <1>3, <1>5, <1>9, NodeNumAssumption

LEMMA PushInv == IInv /\ Push => IInv'
<1> SUFFICES ASSUME IInv, Push PROVE IInv'
  OBVIOUS
<1>1. PICK s : Chain(s)
  BY DEF IInv
<1>2. s \in Seq(Nodes) /\ Links(s) /\ IdsKept(s) /\ Len(s) \in Nat /\ Len(s) = list.len
  BY <1>1 DEF Chain, Links
<1>3. ListType /\ CallType /\ CallInv /\ pc = "push"
  BY DEF IInv, Push
<1>4. FreeNodes # {} /\ NewNode \in FreeNodes
  <2>1. FreeNodes # {}
    BY <1>3, PushHasRoom
  <2>2. FreeNodes \in SUBSET Nat
    BY NodeNumAssumption DEF FreeNodes, Nodes
  <2>3. \E n \in FreeNodes : \A m \in FreeNodes : n <= m
    BY <2>1, <2>2, LeastNat
  <2> QED BY <2>1, <2>3 DEF NewNode
<1>n. PICK n \in FreeNodes : n = NewNode
  BY <1>4
<1> DEFINE t == Append(s, n)
<1>5. /\ list_rpush(n, cur.val) /\ heap' = heap + 1
      /\ pc' \in {"show", "idle"} /\ (pc' = "show" => cur.op = "alpha")
      /\ UNCHANGED <<list_id_table, iterators, it, cur>>
  BY <1>4, <1>n DEF Push
<1>6. cur.val \in Items
  BY <1>3 DEF CallType
<1>7. /\ ListType' /\ Links(t)' /\ node'[n].val = cur.val
      /\ \A k \in 1 .. Len(s) : node'[s[k]].val = node[s[k]].val
  BY <1>2, <1>3, <1>4, <1>5, <1>6, PushLinks
<1>8. /\ t \in Seq(Nodes) /\ Len(t) = Len(s) + 1
      /\ \A i \in 1 .. Len(s) : t[i] = s[i]
      /\ t[Len(s) + 1] = n
  BY <1>2, Longer DEF FreeNodes
<1> HIDE DEF t
<1>9. \A k \in 1 .. Len(t) :
        \/ k \in 1 .. Len(s) /\ node'[t[k]].val = node[s[k]].val
        \/ k = Len(s) + 1 /\ node'[t[k]].val = cur.val
  BY <1>2, <1>7, <1>8
<1>10. IdsKept(t)'
  <2>1. \A k \in 1 .. Len(t) : node'[t[k]].val.id \in list_id_table'
    BY <1>2, <1>3, <1>5, <1>9 DEF IdsKept
  <2>2. \A i, k \in 1 .. Len(t) : node'[t[i]].val.id = node'[t[k]].val.id => i = k
    <3> SUFFICES ASSUME NEW i \in 1 .. Len(t), NEW k \in 1 .. Len(t),
                        node'[t[i]].val.id = node'[t[k]].val.id
                 PROVE  i = k
      OBVIOUS
    <3>1. \A m \in 1 .. Len(s) : node[s[m]].val.id # cur.val.id
      BY <1>2, <1>3 DEF IdsKept
    <3>2. \A l, m \in 1 .. Len(s) : node[s[l]].val.id = node[s[m]].val.id => l = m
      BY <1>2 DEF IdsKept
    <3> QED BY <1>9, <3>1, <3>2
  <2> QED BY <1>5, <2>1, <2>2 DEF IdsKept
<1>11. Chain(t)'
  BY <1>5, <1>7, <1>10 DEF Chain, Walks
<1>12. CallType'
  BY <1>3, <1>5 DEF CallType, Walks
<1>13. CallInv'
  <2>1. list'.len = list.len + 1 /\ list.len \in Nat
    BY <1>3, <1>5 DEF list_rpush, ListType
  <2>2. heap' = 2 * list'.len
    BY <1>3, <1>5, <2>1, CallIs
  <2>3. iterators' = 0 /\ it' = NULL
    BY <1>3, <1>5, CallIs DEF Walks
  <2> QED BY <1>5, <2>2, <2>3 DEF CallInv, BlocksAccountedFor, Walks
<1> QED BY <1>7, <1>11, <1>12, <1>13 DEF IInv

\* Steps that leave the list alone.
LEMMA SameList ==
  ASSUME IInv, NEW s, Chain(s), UNCHANGED listVars, CallType', CallInv',
         (\A k \in 1 .. Len(s) : node[s[k]].val.id \in list_id_table'),
         pc' = "push" => /\ cur'.val.id \in list_id_table'
                         /\ \A k \in 1 .. Len(s) : node[s[k]].val.id # cur'.val.id,
         pc' \in Walks => \E j \in 1 .. Len(s) + 1 : StandsAt(s, j)'
  PROVE  IInv'
<1>1. UNCHANGED <<list, node, list_node_stat>>
  BY DEF listVars
<1>2. ListType' /\ Links(s)'
  BY <1>1 DEF IInv, ListType, Chain, Links
<1>3. IdsKept(s)'
  BY <1>1 DEF Chain, IdsKept
<1>4. Chain(s)'
  BY <1>2, <1>3 DEF Chain
<1> QED BY <1>2, <1>4 DEF IInv

LEMMA AddInv == ASSUME NEW op \in {"add", "alpha"}, NEW val \in Items PROVE IInv /\ Add(op, val) => IInv'
<1> SUFFICES ASSUME IInv, Add(op, val) PROVE IInv'
  OBVIOUS
<1>1. PICK s : Chain(s)
  BY DEF IInv
<1>2. ListType /\ CallType /\ CallInv /\ pc = "idle" /\ list.len \in Nat /\ heap = 2 * list.len /\ iterators = 0
      /\ it = NULL
  BY CallIs DEF IInv, Add, ListType, Walks
<1>3. /\ cur' = [op |-> op, val |-> val] /\ heap' = heap + 1 /\ UNCHANGED listVars
      /\ cur'.op = op /\ cur'.val = val /\ list' = list
  BY DEF Add, listVars
<1>4. \A k \in 1 .. Len(s) : node[s[k]].val.id \in list_id_table
  BY <1>1 DEF Chain, IdsKept
<1>5. CASE val.id \in list_id_table
  <2>1. pc' = "delete" /\ it' = list.head /\ iterators' = 1 /\ UNCHANGED list_id_table
    BY <1>2, <1>5 DEF Add, CheckId, StartWalk
  <2>2. \E j \in 1 .. Len(s) + 1 : StandsAt(s, j)'
    BY <1>1, <1>3, <2>1, StartStands
  <2>3. CallType'
    BY <1>2, <1>3, <2>1 DEF CallType, ListType, Walks
  <2>4. CallInv'
    BY <1>2, <1>3, <2>1 DEF CallInv, BlocksAccountedFor, Walks
  <2> QED BY <1>1, <1>3, <1>4, <2>1, <2>2, <2>3, <2>4, SameList
<1>6. CASE val.id \notin list_id_table
  <2>1. pc' = "push" /\ list_id_table' = list_id_table \cup {val.id} /\ UNCHANGED <<iterators, it>>
    BY <1>6 DEF Add, CheckId
  <2>2. CallType'
    BY <1>2, <1>3, <2>1 DEF CallType, Walks, Items
  <2>3. CallInv'
    BY <1>2, <1>3, <2>1 DEF CallInv, BlocksAccountedFor, Walks
  <2>4. pc' \notin Walks
    BY <2>1 DEF Walks
  <2> QED BY <1>1, <1>3, <1>4, <1>6, <2>1, <2>2, <2>3, <2>4, SameList
<1> QED BY <1>5, <1>6

\* The steps before a walk, and the walks' starts.
LEMMA CallsInv == IInv /\ (Recheck \/ PushNoMemory \/ (\E id \in Ids : Delete(id)) \/ DeleteAll \/ Show \/ Convert) => IInv'
<1> SUFFICES ASSUME IInv,
                    Recheck \/ PushNoMemory \/ (\E id \in Ids : Delete(id)) \/ DeleteAll \/ Show \/ Convert
             PROVE  IInv'
  OBVIOUS
<1>1. PICK s : Chain(s)
  BY DEF IInv
<1>2. /\ ListType /\ CallType /\ CallInv /\ list.len \in Nat /\ heap \in Nat
      /\ heap = 2 * list.len
                + (IF pc \in {"push", "recheck"} \/ (pc = "delete" /\ cur.op \in {"add", "alpha"})
                   THEN 1 ELSE 0)
      /\ iterators = IF pc \in Walks THEN 1 ELSE 0
      /\ pc \in {"push", "recheck"} => cur.op \in {"add", "alpha"}
      /\ pc \notin Walks => it = NULL
  BY CallIs DEF IInv, ListType
<1>3. UNCHANGED listVars /\ list' = list
  BY DEF Recheck, PushNoMemory, Delete, DeleteAll, Show, Convert, listVars
<1>4. \A k \in 1 .. Len(s) : node[s[k]].val.id \in list_id_table
  BY <1>1 DEF Chain, IdsKept
<1>5. CASE Recheck
  <2>1. /\ pc = "recheck" /\ pc' = "push" /\ cur.val.id \notin list_id_table
        /\ list_id_table' = list_id_table \cup {cur.val.id}
        /\ UNCHANGED <<iterators, heap, it, cur>>
    BY <1>5 DEF Recheck
  <2>2. CallType'
    BY <1>2, <2>1 DEF CallType, Items
  <2>3. CallInv'
    BY <1>2, <1>3, <2>1 DEF CallInv, BlocksAccountedFor, Walks
  <2>4. pc' \notin Walks
    BY <2>1 DEF Walks
  <2> QED BY <1>1, <1>3, <1>4, <2>1, <2>2, <2>3, <2>4, SameList
<1>6. CASE PushNoMemory
  <2>1. pc = "push" /\ pc' = "idle" /\ heap' = heap - 1 /\ UNCHANGED <<list_id_table, iterators, it, cur>>
    BY <1>6 DEF PushNoMemory
  <2>2. CallType'
    BY <1>2, <2>1 DEF CallType
  <2>3. CallInv'
    BY <1>2, <1>3, <2>1 DEF CallInv, BlocksAccountedFor, Walks
  <2>4. pc' \notin Walks /\ pc' # "push"
    BY <2>1 DEF Walks
  <2> QED BY <1>1, <1>3, <1>4, <2>1, <2>2, <2>3, <2>4, SameList
<1>7. CASE (\E id \in Ids : Delete(id)) \/ DeleteAll \/ Show \/ Convert
  <2>1. /\ pc \in {"idle", "show"} /\ pc' \in Walks /\ it' = list.head /\ iterators' = iterators + 1
        /\ UNCHANGED <<list_id_table, heap>>
        /\ pc' = "delete" => cur'.op \in {"delete", "shown"}
    BY <1>2, <1>7 DEF Delete, DeleteAll, Show, Convert, StartWalk, Walks, CallType
  <2>2. cur' \in [op : {"add", "alpha", "delete", "shown"}, val : Items]
    <3>1. CASE \E id \in Ids : Delete(id)
      BY <3>1 DEF Delete, Items
    <3>2. CASE Show
      BY <1>2, <3>2 DEF Show, CallType
    <3>3. CASE DeleteAll \/ Convert
      BY <1>2, <3>3 DEF DeleteAll, Convert, CallType
    <3> QED BY <1>7, <3>1, <3>2, <3>3
  <2>3. CallType'
    BY <1>2, <2>1, <2>2 DEF CallType, ListType, Walks
  <2>4. CallInv'
    BY <1>2, <1>3, <2>1 DEF CallInv, BlocksAccountedFor, Walks
  <2>5. \E j \in 1 .. Len(s) + 1 : StandsAt(s, j)'
    BY <1>1, <1>3, <2>1, StartStands
  <2>6. pc' # "push"
    BY <2>1 DEF Walks
  <2> QED BY <1>1, <1>3, <1>4, <2>1, <2>3, <2>4, <2>5, <2>6, SameList
<1> QED BY <1>5, <1>6, <1>7

\* The steps of a walk that removes nothing, and its end.
LEMMA PassInv == IInv /\ (DeletePasses \/ DeleteEnds \/ DeleteAllEnds \/ ConvertEnds) => IInv'
<1> SUFFICES ASSUME IInv, DeletePasses \/ DeleteEnds \/ DeleteAllEnds \/ ConvertEnds PROVE IInv'
  OBVIOUS
<1>1. PICK s : Chain(s)
  BY DEF IInv
<1>2. /\ ListType /\ CallType /\ CallInv /\ list.len \in Nat /\ heap \in Nat
      /\ heap = 2 * list.len
                + (IF pc \in {"push", "recheck"} \/ (pc = "delete" /\ cur.op \in {"add", "alpha"})
                   THEN 1 ELSE 0)
      /\ iterators = IF pc \in Walks THEN 1 ELSE 0
  BY CallIs DEF IInv, ListType
<1>3. pc \in Walks
  BY DEF DeletePasses, DeleteEnds, DeleteAllEnds, ConvertEnds, Walks
<1>4. PICK j \in 1 .. Len(s) + 1 :
        /\ StandsAt(s, j)
        /\ it # NULL => j \in 1 .. Len(s) /\ it = s[j]
        /\ it = NULL => j = Len(s) + 1
  BY <1>1, <1>3, Standing
<1>5. /\ s \in Seq(Nodes) /\ Len(s) \in Nat /\ Links(s)
      /\ \A k \in 1 .. Len(s) : node[s[k]].val.id \in list_id_table /\ s[k] \in Nodes
  BY <1>1 DEF Chain, Links, IdsKept
<1>6. CASE DeletePasses
  <2>1. /\ pc = "delete" /\ it # NULL /\ Passed(it) /\ Advance /\ UNCHANGED listVars
        /\ UNCHANGED <<list_id_table, heap, cur, pc, iterators, list>>
    BY <1>6 DEF DeletePasses, Passed, Advance, listVars
  <2>2. j \in 1 .. Len(s) /\ it = s[j]
    BY <1>4, <2>1
  <2>3. StandsAt(s, j + 1)' /\ j + 1 \in 1 .. Len(s) + 1
    BY <1>1, <1>4, <2>1, <2>2, AdvanceStands
  <2>4. CallType'
    <3>1. it' \in Ptrs
      BY <1>5, <2>2, <2>1, Neighbours DEF Advance, Ptrs
    <3> QED BY <1>2, <2>1, <3>1 DEF CallType
  <2>5. CallInv'
    BY <1>2, <1>3, <2>1 DEF CallInv, BlocksAccountedFor, Walks
  <2>6. pc' # "push"
    BY <2>1
  <2> QED BY <1>1, <1>5, <2>1, <2>3, <2>4, <2>5, <2>6, SameList
<1>7. CASE DeleteEnds
  <2>1. /\ pc = "delete" /\ it = NULL /\ list_id_table' = list_id_table \ {cur.val.id}
        /\ iterators' = iterators - 1 /\ it' = NULL /\ pc' = AfterDelete
        /\ UNCHANGED <<heap, cur, list>> /\ UNCHANGED listVars
    BY <1>7 DEF DeleteEnds, EndWalk, listVars
  <2>2. \A k \in 1 .. Len(s) : node[s[k]].val.id # cur.val.id
    BY <1>4, <1>5, <2>1 DEF StandsAt, Passed
  <2>3. \A k \in 1 .. Len(s) : node[s[k]].val.id \in list_id_table'
    BY <1>5, <2>1, <2>2
  <2>4. CallType'
    BY <1>2, <2>1 DEF CallType, AfterDelete, Ptrs
  <2>5. CallInv'
    BY <1>2, <1>3, <2>1 DEF CallInv, BlocksAccountedFor, Walks, AfterDelete, CallType
  <2>6. pc' \notin Walks /\ pc' # "push"
    BY <2>1 DEF AfterDelete, Walks
  <2> QED BY <1>1, <2>1, <2>3, <2>4, <2>5, <2>6, SameList
<1>8. CASE ConvertEnds
  <2>1. /\ pc = "convert" /\ iterators' = iterators - 1 /\ it' = NULL /\ pc' = "idle"
        /\ UNCHANGED <<list_id_table, heap, cur, list>> /\ UNCHANGED listVars
    BY <1>8 DEF ConvertEnds, EndWalk, listVars
  <2>4. CallType'
    BY <1>2, <2>1 DEF CallType, Ptrs
  <2>5. CallInv'
    BY <1>2, <1>3, <2>1 DEF CallInv, BlocksAccountedFor, Walks
  <2>6. pc' \notin Walks /\ pc' # "push"
    BY <2>1 DEF Walks
  <2> QED BY <1>1, <1>5, <2>1, <2>4, <2>5, <2>6, SameList
\* A walk that deletes all has left nothing behind it.
<1>9. CASE DeleteAllEnds
  <2>1. /\ pc = "delete_all" /\ it = NULL /\ list_id_table' = {} /\ list_node_stat' = {}
        /\ iterators' = iterators - 1 /\ it' = NULL /\ pc' = "idle"
        /\ UNCHANGED <<heap, cur, list, node>>
    BY <1>9 DEF DeleteAllEnds, EndWalk
  <2>2. s = <<>>
    <3>1. j = Len(s) + 1 /\ \A i \in 1 .. j - 1 : FALSE
      BY <1>4, <2>1 DEF StandsAt, Passed
    <3>2. 1 \notin 1 .. Len(s)
      BY <1>5, <3>1
    <3> QED BY <1>5, <3>2
  <2>3. Chain(<<>>)'
    BY <1>5, <2>1, <2>2 DEF Chain, Links, IdsKept, Walks
  <2>4. CallType' /\ ListType'
    BY <1>2, <2>1 DEF CallType, ListType, Ptrs
  <2>5. CallInv'
    BY <1>2, <1>3, <2>1 DEF CallInv, BlocksAccountedFor, Walks
  <2> QED BY <2>3, <2>4, <2>5 DEF IInv
<1> QED BY <1>6, <1>7, <1>8, <1>9

\* The steps of a walk that remove the node at hand.
LEMMA RemoveInv == IInv /\ (DeleteFinds \/ DeleteAllNext \/ ConvertNext) => IInv'
<1> SUFFICES ASSUME IInv, DeleteFinds \/ DeleteAllNext \/ ConvertNext PROVE IInv'
  OBVIOUS
<1>1. PICK s : Chain(s)
  BY DEF IInv
<1>2. /\ ListType /\ CallType /\ CallInv /\ list.len \in Nat /\ heap \in Nat
      /\ heap = 2 * list.len
                + (IF pc \in {"push", "recheck"} \/ (pc = "delete" /\ cur.op \in {"add", "alpha"})
                   THEN 1 ELSE 0)
      /\ iterators = IF pc \in Walks THEN 1 ELSE 0
  BY CallIs DEF IInv, ListType
<1>3. pc \in Walks /\ it # NULL
  BY DEF DeleteFinds, DeleteAllNext, ConvertNext, Walks
<1>4. PICK j \in 1 .. Len(s) : StandsAt(s, j) /\ it = s[j]
  BY <1>1, <1>3, Standing
<1>5. /\ s \in Seq(Nodes) /\ Len(s) \in Nat /\ Links(s) /\ Len(s) = list.len /\ list.len >= 1
      /\ \A k \in 1 .. Len(s) : node[s[k]].val.id \in list_id_table /\ s[k] \in Nodes
  BY <1>1, <1>4 DEF Chain, Links, IdsKept
<1>6. node[it].next \in Ptrs
  BY <1>4, <1>5, Neighbours DEF Ptrs
<1>7. list_remove(it) => ListType' /\ Links(Cut(s, j))' /\ list'.len = list.len - 1
  <2>1. list_remove(it) => list'.len = list.len - 1
    BY DEF list_remove
  <2> QED BY <1>2, <1>4, <1>5, <2>1, RemoveLinks
<1>8. CASE DeleteFinds
  <2>1. /\ pc = "delete" /\ node[it].val.id = cur.val.id /\ list_remove(it) /\ heap' = heap - 2
        /\ list_id_table' = list_id_table \ {cur.val.id}
        /\ iterators' = iterators - 1 /\ it' = NULL /\ pc' = AfterDelete /\ UNCHANGED cur
    BY <1>8 DEF DeleteFinds, EndWalk
  <2>2. pc' \notin Walks /\ pc' # "push"
    BY <2>1 DEF AfterDelete, Walks
  <2>3. IdsKept(Cut(s, j))'
    BY <1>1, <1>2, <1>4, <2>1, <2>2, CutIds
  <2>4. Chain(Cut(s, j))'
    BY <1>7, <2>1, <2>2, <2>3 DEF Chain
  <2>5. CallType'
    BY <1>2, <1>5, <2>1 DEF CallType, AfterDelete, Ptrs
  <2>6. CallInv'
    BY <1>2, <1>3, <1>5, <1>7, <2>1 DEF CallInv, BlocksAccountedFor, Walks, AfterDelete, CallType
  <2> QED BY <1>7, <2>1, <2>4, <2>5, <2>6 DEF IInv
<1>9. CASE (DeleteAllNext \/ ConvertNext) /\ list_remove(it)
  <2>1. /\ pc \in {"delete_all", "convert"} /\ heap' = heap - 2 /\ Advance /\ pc' = pc
        /\ UNCHANGED <<list_id_table, cur, iterators>> /\ it' = node[it].next
    <3>1. CASE DeleteAllNext
      BY <3>1 DEF DeleteAllNext, Advance
    <3>2. CASE ConvertNext
      <4>1. list' # list
        BY <1>2, <1>7, <1>9
      <4> QED BY <3>2, <4>1 DEF ConvertNext, Advance, listVars
    <3> QED BY <1>9, <3>1, <3>2
  <2>2. pc' \in Walks /\ pc' # "push"
    BY <2>1 DEF Walks
  <2>3. IdsKept(Cut(s, j))'
    BY <1>1, <1>2, <1>4, <1>9, <2>1, <2>2, CutIds
  <2>s. StandsAt(Cut(s, j), j)' /\ j \in 1 .. Len(Cut(s, j)) + 1
    BY <1>1, <1>2, <1>4, <1>9, <2>1, RemoveStands
  <2>4. Chain(Cut(s, j))'
    BY <1>7, <1>9, <2>3, <2>s DEF Chain
  <2>5. CallType'
    BY <1>2, <1>5, <1>6, <2>1 DEF CallType
  <2>6. CallInv'
    BY <1>2, <1>3, <1>5, <1>7, <1>9, <2>1 DEF CallInv, BlocksAccountedFor, Walks
  <2> QED BY <1>7, <1>9, <2>4, <2>5, <2>6 DEF IInv
<1>10. CASE ConvertNext /\ ~list_remove(it)
  <2>1. /\ pc = "convert" /\ ~node[it].val.auto_del /\ Advance /\ UNCHANGED listVars
        /\ UNCHANGED <<list_id_table, cur, heap, pc, iterators, list>> /\ it' = node[it].next
    BY <1>10 DEF ConvertNext, Advance, listVars
  <2>2. Passed(it)
    BY <2>1 DEF Passed
  <2>3. StandsAt(s, j + 1)' /\ j + 1 \in 1 .. Len(s) + 1
    BY <1>1, <1>4, <2>1, <2>2, AdvanceStands
  <2>4. CallType'
    BY <1>2, <1>6, <2>1 DEF CallType
  <2>5. CallInv'
    BY <1>2, <1>3, <2>1 DEF CallInv, BlocksAccountedFor, Walks
  <2>6. pc' # "push"
    BY <2>1
  <2> QED BY <1>1, <1>5, <2>1, <2>3, <2>4, <2>5, <2>6, SameList
<1> QED BY <1>8, <1>9, <1>10 DEF DeleteAllNext

LEMMA NextIInv == IInv /\ [Next]_vars => IInv'
<1> SUFFICES ASSUME IInv, [Next]_vars PROVE IInv'
  OBVIOUS
<1>1. CASE UNCHANGED vars
  <2>1. PICK s : Chain(s)
    BY DEF IInv
  <2>2. UNCHANGED <<listVars, list, node, list_node_stat, list_id_table, iterators, heap, pc, it, cur>>
    BY <1>1 DEF vars, listVars
  <2>3. Chain(s)'
    BY <2>1, <2>2 DEF Chain, Links, IdsKept, StandsAt, Passed
  <2> QED BY <2>2, <2>3 DEF IInv, ListType, CallType, CallInv, BlocksAccountedFor
<1>2. CASE Calls
  <2>1. [id |-> NodeNum - 1, auto_del |-> TRUE] \in Items
    BY NodeNumAssumption DEF Items, Ids, Nodes
  <2> QED BY <1>2, <2>1, AddInv, CallsInv DEF Calls, DisplayAlpha
<1>3. CASE Steps
  BY <1>3, CallsInv, PushInv, PassInv, RemoveInv DEF Steps
<1> QED BY <1>1, <1>2, <1>3 DEF Next

\* The list, its ids, its walks and the heap keep their invariant for every number of nodes.
THEOREM Inductive == Spec => []IInv
BY InitIInv, NextIInv, PTL DEF Spec

-----------------------------------------------------------------------------
(* What the invariant says.                                                *)

\* Every variable of the list has its type.
THEOREM TypeCorrect == Spec => []TypeOK
<1>1. IInv => TypeOK
  <2> SUFFICES ASSUME IInv PROVE TypeOK
    OBVIOUS
  <2>1. PICK s : Chain(s)
    BY DEF IInv
  <2>2. list.len \in 0 .. NodeNum
    BY <2>1, LinksUnique DEF Chain, Links
  <2>3. list \in [head : Ptrs, tail : Ptrs, len : 0 .. NodeNum]
    BY <2>2 DEF IInv, ListType
  <2>4. iterators \in {0, 1}
    BY CallIs DEF IInv
  <2> QED BY <2>3, <2>4 DEF TypeOK, IInv, ListType, CallType, Walks
<1> QED BY <1>1, Inductive, PTL

\* Whatever walks have removed, the nodes in use are linked both ways from head to tail,
\* and a walk stands at one of them (list.c and list_node.c).
THEOREM AlwaysWellLinked == Spec => []WellLinked
<1>1. IInv => WellLinked
  <2> SUFFICES ASSUME IInv PROVE WellLinked
    OBVIOUS
  <2>1. PICK s : Chain(s)
    BY DEF IInv
  <2>2. /\ s \in Seq(Nodes) /\ Len(s) \in Nat /\ Links(s) /\ list.len = Len(s)
        /\ \A k \in 1 .. Len(s) : At[k] = s[k] /\ s[k] \in Nodes /\ s[k] # NULL
    BY <2>1, LinksUnique, NullAssumption DEF Chain, Links
  <2>3. (list.len = 0) <=> (s = <<>>)
    BY <2>2
  <2>4. s # <<>> => /\ 1 \in 1 .. Len(s) /\ Len(s) \in 1 .. Len(s)
                    /\ list.head = s[1] /\ list.tail = s[Len(s)] /\ list.head # NULL /\ list.tail # NULL
                    /\ node[s[1]].prev = NULL /\ node[s[Len(s)]].next = NULL
    <3>1. s # <<>> => 1 \in 1 .. Len(s) /\ Len(s) \in 1 .. Len(s)
      BY <2>2
    <3> QED BY <2>2, <3>1 DEF Links
  <2>5. \A k \in 2 .. list.len : node[At[k]].prev = At[k - 1]
    <3> TAKE k \in 2 .. list.len
    <3>1. k \in 1 .. Len(s) /\ k - 1 \in 1 .. Len(s) /\ k - 1 \in 1 .. Len(s) - 1 /\ (k - 1) + 1 = k
      BY <2>2
    <3>2. node[s[k]].prev = s[k - 1]
      BY <2>2, <3>1 DEF Links
    <3> QED BY <2>2, <3>1, <3>2
  <2>6. list_node_stat = {At[k] : k \in 1 .. list.len}
    <3>1. list_node_stat = {s[k] : k \in 1 .. Len(s)}
      BY <2>2 DEF Links
    <3> QED BY <2>2, <3>1
  <2>7. it \in list_node_stat \cup {NULL}
    <3>1. CASE pc \in Walks
      <4>1. it = NULL \/ \E j \in 1 .. Len(s) : it = s[j]
        BY <2>1, <3>1, Standing
      <4> QED BY <2>2, <4>1 DEF Links
    <3>2. CASE pc \notin Walks
      BY <3>2, CallIs DEF IInv
    <3> QED BY <3>1, <3>2
  <2>8. list.len > 0 => At[list.len] = list.tail /\ node[list.tail].next = NULL /\ node[list.head].prev = NULL
    BY <2>2, <2>3, <2>4
  <2>9. s = <<>> => list.head = NULL /\ list.tail = NULL
    BY <2>2 DEF Links
  <2> QED BY <2>3, <2>4, <2>5, <2>6, <2>7, <2>8, <2>9 DEF WellLinked
<1> QED BY <1>1, Inductive, PTL

\* The items that are shown are the values along the chain.
LEMMA ShownIs ==
  ASSUME ListType, NEW s, Links(s)
  PROVE  Shown \in Seq(Items) /\ Len(Shown) = Len(s) /\ \A k \in 1 .. Len(s) : Shown[k] = node[s[k]].val
<1>0. s \in Seq(Nodes) /\ list.len = Len(s)
  BY DEF Links
<1>1. /\ s \in Seq(Nodes) /\ Len(s) \in Nat /\ list.len = Len(s)
      /\ \A k \in 1 .. Len(s) : At[k] = s[k] /\ s[k] \in Nodes
  BY <1>0, LinksUnique
<1>2. \A k \in 1 .. list.len : node[At[k]].val \in Items
  BY <1>1 DEF ListType
<1>3. Shown \in [1 .. Len(s) -> Items]
  BY <1>1, <1>2 DEF Shown
<1>4. Shown \in Seq(Items) /\ Len(Shown) = Len(s)
  BY <1>1, <1>3
<1> QED BY <1>1, <1>4 DEF Shown

\* An add always finds a node, whatever went without giving its id back (lcd_dis.c 20-31).
THEOREM AddAlwaysFindsANode == Spec => []AddFindsANode
<1>1. IInv => AddFindsANode
  <2> SUFFICES ASSUME IInv PROVE AddFindsANode
    OBVIOUS
  <2>1. PICK s : Chain(s)
    BY DEF IInv
  <2>2. \A k \in 1 .. list.len : Shown[k].id \in list_id_table
    BY <2>1, ShownIs DEF IInv, Chain, IdsKept, Links
  <2> QED BY <2>2, PushHasRoom DEF AddFindsANode
<1> QED BY <1>1, Inductive, PTL

\* Every block belongs to an item or to the call under way.
THEOREM BlocksAlwaysAccountedFor == Spec => []BlocksAccountedFor
<1>1. IInv => BlocksAccountedFor
  BY DEF IInv, CallInv
<1> QED BY <1>1, Inductive, PTL

\* An auto_del item is gone when the frame that draws it is done (face_cb.c).
THEOREM AlwaysDrawnOnce == Spec => DrawnOnce
<1>1. IInv /\ [Next]_vars =>
        (pc = "convert" /\ pc' = "idle" => \A k \in 1 .. list.len : ~Shown[k].auto_del)
  <2> SUFFICES ASSUME IInv, [Next]_vars, pc = "convert", pc' = "idle", NEW k \in 1 .. list.len
               PROVE  ~Shown[k].auto_del
    OBVIOUS
  <2>1. PICK s : Chain(s)
    BY DEF IInv
  <2>2. it = NULL
    BY DEF Next, vars, Calls, Steps, Add, Delete, DeleteAll, DisplayAlpha, Convert, Recheck, PushNoMemory,
       Push, DeletePasses, DeleteFinds, DeleteEnds, DeleteAllNext, DeleteAllEnds, Show, ConvertNext,
       ConvertEnds, Advance
  <2>3. Links(s) /\ list.len = Len(s) /\ Len(s) \in Nat
    <3>1. Links(s) /\ list.len = Len(s) /\ s \in Seq(Nodes)
      BY <2>1 DEF Chain, Links
    <3> QED BY <3>1
  <2>4. StandsAt(s, Len(s) + 1)
    BY <2>1, <2>2, Standing DEF Walks
  <2>5. ~node[s[k]].val.auto_del
    BY <2>3, <2>4 DEF StandsAt, Passed
  <2> QED BY <2>3, <2>5, ShownIs DEF IInv
<1>2. [][IInv /\ [Next]_vars]_vars => DrawnOnce
  BY <1>1, PTL DEF DrawnOnce
<1> QED BY <1>2, Inductive, PTL DEF Spec

-----------------------------------------------------------------------------
(* The list implements DisplayItems.                                       *)

\* Without of the abstract list is Cut.
LEMMA WithoutIsCut ==
  ASSUME NEW S, NEW s \in Seq(S), NEW j \in 1 .. Len(s)
  PROVE  Display!Without(s, j) = Cut(s, j)
<1> DEFINE a == SubSeq(s, 1, j - 1)
           b == SubSeq(s, j + 1, Len(s))
<1>1. Len(s) \in Nat /\ j \in Nat /\ j <= Len(s) /\ j >= 1
  OBVIOUS
<1>2. /\ a \in Seq(S) /\ Len(a) = j - 1
      /\ \A i \in 1 .. j - 1 : a[i] = s[i]
  BY <1>1
<1>3. /\ b \in Seq(S) /\ Len(b) = Len(s) - j
      /\ \A i \in 1 .. Len(s) - j : b[i] = s[j + i]
  BY <1>1
<1> HIDE DEF a, b
<1>4. /\ a \o b \in Seq(S) /\ Len(a \o b) = Len(s) - 1
      /\ \A i \in 1 .. Len(s) - 1 : (a \o b)[i] = IF i < j THEN s[i] ELSE s[i + 1]
  <2>1. /\ a \o b \in Seq(S) /\ Len(a \o b) = Len(a) + Len(b)
        /\ \A i \in 1 .. Len(a) + Len(b) : (a \o b)[i] = IF i <= Len(a) THEN a[i] ELSE b[i - Len(a)]
    BY <1>2, <1>3, ConcatProperties
  <2>2. ASSUME NEW i \in 1 .. Len(s) - 1
        PROVE  (a \o b)[i] = IF i < j THEN s[i] ELSE s[i + 1]
    <3>1. i \in 1 .. Len(a) + Len(b)
      BY <1>1, <1>2, <1>3
    <3>2. CASE i < j
      <4>1. i \in 1 .. j - 1 /\ i <= Len(a)
        BY <1>1, <1>2, <3>2
      <4> QED BY <1>2, <2>1, <3>1, <3>2, <4>1
    <3>3. CASE ~(i < j)
      <4>1. ~(i <= Len(a)) /\ i - Len(a) \in 1 .. Len(s) - j /\ j + (i - Len(a)) = i + 1
        BY <1>1, <1>2, <3>3
      <4> QED BY <1>3, <2>1, <3>1, <3>3, <4>1
    <3> QED BY <3>2, <3>3
  <2> QED BY <1>1, <1>2, <1>3, <2>1, <2>2
<1>5. /\ Cut(s, j) \in Seq(S) /\ Len(Cut(s, j)) = Len(s) - 1
      /\ \A i \in 1 .. Len(s) - 1 : Cut(s, j)[i] = IF i < j THEN s[i] ELSE s[i + 1]
  BY Shorter
<1>6. a \o b = Cut(s, j)
  BY <1>4, <1>5, SeqEqual
<1> QED BY <1>6 DEF Display!Without, a, b

\* The items of the state after a step.
LEMMA ShownNext == (\A s : ListType /\ Links(s) =>
  Shown \in Seq(Items) /\ Len(Shown) = Len(s) /\ \A k \in 1 .. Len(s) : Shown[k] = node[s[k]].val)'
<1>1. \A s : ListType /\ Links(s) =>
        Shown \in Seq(Items) /\ Len(Shown) = Len(s) /\ \A k \in 1 .. Len(s) : Shown[k] = node[s[k]].val
  BY ShownIs
<1> QED BY <1>1, PTL

\* A push adds an item of a new id at the end.
LEMMA PushAdds == IInv /\ Push => Display!Add
<1> SUFFICES ASSUME IInv, Push PROVE Display!Add
  OBVIOUS
<1>1. PICK s : Chain(s)
  BY DEF IInv
<1>2. ListType /\ Links(s) /\ IdsKept(s) /\ pc = "push" /\ cur.val \in Items
  BY <1>1 DEF IInv, Chain, CallType, Push
<1>3. /\ Shown \in Seq(Items) /\ Len(Shown) = Len(s)
      /\ \A k \in 1 .. Len(s) : Shown[k] = node[s[k]].val
  BY <1>2, ShownIs
<1>4. PICK n \in FreeNodes : list_rpush(n, cur.val)
  <2>1. FreeNodes # {} /\ FreeNodes \in SUBSET Nat
    BY <1>2, PushHasRoom, NodeNumAssumption DEF FreeNodes, Nodes
  <2>2. \E n \in FreeNodes : \A m \in FreeNodes : n <= m
    BY <2>1, LeastNat
  <2>3. NewNode \in FreeNodes
    BY <2>2 DEF NewNode
  <2> QED BY <2>1, <2>3 DEF Push
<1>5. /\ ListType' /\ Links(Append(s, n))' /\ node'[n].val = cur.val
      /\ \A k \in 1 .. Len(s) : node'[s[k]].val = node[s[k]].val
  BY <1>2, <1>4, PushLinks
<1>6. /\ Len(Append(s, n)) = Len(s) + 1 /\ Len(s) \in Nat
      /\ \A i \in 1 .. Len(s) : Append(s, n)[i] = s[i]
      /\ Append(s, n)[Len(s) + 1] = n
  <2>1. s \in Seq(Nodes) /\ n \in Nodes
    BY <1>2 DEF Links, FreeNodes
  <2> QED BY <2>1, Longer
<1>7. /\ Shown' \in Seq(Items) /\ Len(Shown') = Len(s) + 1
      /\ \A k \in 1 .. Len(s) + 1 : Shown'[k] = node'[Append(s, n)[k]].val
  BY <1>5, <1>6, ShownNext
<1>8. /\ Append(Shown, cur.val) \in Seq(Items) /\ Len(Append(Shown, cur.val)) = Len(s) + 1
      /\ \A k \in 1 .. Len(s) : Append(Shown, cur.val)[k] = Shown[k]
      /\ Append(Shown, cur.val)[Len(s) + 1] = cur.val
  BY <1>2, <1>3, Longer
<1>9. \A k \in 1 .. Len(s) + 1 : Shown'[k] = Append(Shown, cur.val)[k]
  <2> TAKE k \in 1 .. Len(s) + 1
  <2>1. CASE k = Len(s) + 1
    BY <1>5, <1>6, <1>7, <1>8, <2>1
  <2>2. CASE k # Len(s) + 1
    <3>1. k \in 1 .. Len(s)
      BY <1>6, <2>2
    <3> QED BY <1>3, <1>5, <1>6, <1>7, <1>8, <3>1
  <2> QED BY <2>1, <2>2
<1>10. Shown' = Append(Shown, cur.val)
  BY <1>6, <1>7, <1>8, <1>9, SeqEqual
<1>11. cur.val.id \notin Display!IdsOf(Shown)
  <2>1. DOMAIN Shown = 1 .. Len(s)
    BY <1>3
  <2> QED BY <1>2, <1>3, <2>1 DEF Display!IdsOf, IdsKept
<1> QED BY <1>2, <1>10, <1>11 DEF Display!Add, Display!Items, Items

\* A removal drops one item.
LEMMA RemoveDrops == IInv /\ pc \in Walks /\ it # NULL /\ list_remove(it) => Display!Drop
<1> SUFFICES ASSUME IInv, pc \in Walks, it # NULL, list_remove(it) PROVE Display!Drop
  OBVIOUS
<1>1. PICK s : Chain(s)
  BY DEF IInv
<1>2. PICK j \in 1 .. Len(s) : it = s[j]
  BY <1>1, Standing
<1>3. ListType /\ Links(s) /\ s \in Seq(Nodes)
  BY <1>1 DEF IInv, Chain, Links
<1>4. /\ ListType' /\ Links(Cut(s, j))'
      /\ \A k \in 1 .. Len(s) : k # j => node'[s[k]].val = node[s[k]].val
  BY <1>2, <1>3, RemoveLinks
<1>5. /\ Shown \in Seq(Items) /\ Len(Shown) = Len(s)
      /\ \A k \in 1 .. Len(s) : Shown[k] = node[s[k]].val
  BY <1>3, ShownIs
<1>6. /\ Len(Cut(s, j)) = Len(s) - 1
      /\ \A i \in 1 .. Len(s) - 1 : /\ Cut(s, j)[i] = IF i < j THEN s[i] ELSE s[i + 1]
                                    /\ i \in 1 .. Len(s) /\ i + 1 \in 1 .. Len(s)
  BY <1>3, Shorter
<1>7. /\ Shown' \in Seq(Items) /\ Len(Shown') = Len(s) - 1
      /\ \A k \in 1 .. Len(s) - 1 : Shown'[k] = node'[Cut(s, j)[k]].val
  BY <1>4, <1>6, ShownNext
<1>8. /\ Cut(Shown, j) \in Seq(Items) /\ Len(Cut(Shown, j)) = Len(s) - 1
      /\ \A i \in 1 .. Len(s) - 1 : Cut(Shown, j)[i] = IF i < j THEN Shown[i] ELSE Shown[i + 1]
  BY <1>5, Shorter
<1>9. \A k \in 1 .. Len(s) - 1 : Shown'[k] = Cut(Shown, j)[k]
  <2> TAKE k \in 1 .. Len(s) - 1
  <2>2. CASE k < j
    <3>1. k # j /\ k \in 1 .. Len(s)
      BY <1>3, <2>2
    <3> QED BY <1>4, <1>5, <1>6, <1>7, <1>8, <2>2, <3>1
  <2>3. CASE ~(k < j)
    <3>1. k + 1 # j /\ k + 1 \in 1 .. Len(s)
      BY <1>3, <2>3
    <3> QED BY <1>4, <1>5, <1>6, <1>7, <1>8, <2>3, <3>1
  <2> QED BY <2>2, <2>3
<1>10. Shown' = Cut(Shown, j)
  BY <1>7, <1>8, <1>9, SeqEqual
<1>11. j \in DOMAIN Shown /\ Display!Without(Shown, j) = Cut(Shown, j)
  BY <1>5, WithoutIsCut
<1> QED BY <1>10, <1>11 DEF Display!Drop

\* The linked list, with its walks and its pools, is a sequence of items in which no id
\* comes twice: a push adds one, and every other step that is seen takes one away.
THEOREM Refinement == Spec => ImplementsDisplayItems
<1>1. Init => Display!Init
  BY DEF Init, Display!Init, Shown
<1>2. IInv /\ [Next]_vars => [Display!Add \/ Display!Drop]_Shown
  <2> SUFFICES ASSUME IInv, [Next]_vars PROVE Display!Add \/ Display!Drop \/ UNCHANGED Shown
    OBVIOUS
  <2>s. UNCHANGED <<list, node>> => UNCHANGED Shown
    BY DEF Shown, At
  <2>1. CASE UNCHANGED vars \/ Calls
    <3>1. UNCHANGED <<list, node>>
      BY <2>1 DEF vars, listVars, Calls, Add, DisplayAlpha, Delete, DeleteAll, Convert
    <3> QED BY <2>s, <3>1
  <2>2. CASE Push
    BY <2>2, PushAdds
  <2>3. CASE DeleteFinds \/ DeleteAllNext \/ (ConvertNext /\ list_remove(it))
    <3>1. pc \in Walks /\ it # NULL /\ list_remove(it)
      BY <2>3 DEF DeleteFinds, DeleteAllNext, ConvertNext, Walks
    <3> QED BY <3>1, RemoveDrops
  <2>4. CASE \/ Recheck \/ PushNoMemory \/ DeletePasses \/ DeleteEnds \/ DeleteAllEnds \/ Show
             \/ ConvertEnds \/ (ConvertNext /\ ~list_remove(it))
    <3>1. UNCHANGED <<list, node>>
      BY <2>4 DEF listVars, Recheck, PushNoMemory, DeletePasses, DeleteEnds, DeleteAllEnds, Show,
         ConvertEnds, ConvertNext
    <3> QED BY <2>s, <3>1
  <2> QED BY <2>1, <2>2, <2>3, <2>4 DEF Next, Steps
<1> QED BY <1>1, <1>2, Inductive, PTL DEF Spec, ImplementsDisplayItems, Display!Spec
=============================================================================
