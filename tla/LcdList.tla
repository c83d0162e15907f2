------------------------------ MODULE LcdList -------------------------------
(***************************************************************************)
(* The list of strings and pictures that MF1 draws over the camera image:  *)
(* face_lib/lcd_dis.c, its users in face_lib/face_cb.c, and the doubly     *)
(* linked list of components/utils/list it is built on, with the static    *)
(* pools of nodes and iterators.                                           *)
(*                                                                         *)
(* The calls come one after the other (all on core 0).  A walk through the *)
(* list is one step per node, because it removes nodes as it goes.  The    *)
(* contents a freed node keeps are forgotten: WellLinked shows that no     *)
(* walk stands at one.  An id is one below CONFIG_LIST_NODE_MAX_NUM, as    *)
(* all callers pass.  An item is its id and its auto_del; what is drawn,   *)
(* and where, is left out.                                                 *)
(*                                                                         *)
(* External: malloc, which may fail.                                       *)
(* Definitions named Slip... are not the code but mistakes one could make. *)
(***************************************************************************)
EXTENDS Naturals, Sequences

CONSTANTS
  NodeNum,          \* CONFIG_LIST_NODE_MAX_NUM (of CONFIG_LIST_MAX_NUM = 1 list)
  NULL

ASSUME NodeNumAssumption == NodeNum \in Nat \ {0}

Nodes == 0 .. NodeNum - 1
Ids   == Nodes
ASSUME NullAssumption == NULL \notin Nodes

Items == [id : Ids, auto_del : BOOLEAN]
Ptrs  == Nodes \cup {NULL}

VARIABLES
  list,             \* [head, tail, len]
  node,             \* per node [prev, next, val]
  list_node_stat,   \* nodes in use
  list_id_table,    \* ids whose bit is set
  iterators,        \* iterators in use
  heap,             \* blocks of lcd_dis_t, dis_str_t and dis_pic_t in use
  pc, it,           \* the call under way, and next of its iterator
  cur               \* [op, val]: the item a call adds, or whose id it deletes

listVars == <<list, node, list_node_stat>>
vars == <<listVars, list_id_table, iterators, heap, pc, it, cur>>

LIST_ITERATOR_MAX_NUM == 2

-----------------------------------------------------------------------------
(* list_rpush and list_remove                                              *)

Blank == [prev |-> NULL, next |-> NULL, val |-> [id |-> 0, auto_del |-> FALSE]]

\* malloc_list_node takes the lowest free node.
FreeNodes == Nodes \ list_node_stat
NewNode   == CHOOSE n \in FreeNodes : \A m \in FreeNodes : n <= m

slip_list_rpush(n, val) ==               \* next as in list_lpush
  LET old == list.tail
      new == [node EXCEPT ![n] = [prev |-> IF list.len = 0 THEN NULL ELSE old,
                                  next |-> list.head, val |-> val]]
  IN  /\ node' = IF list.len = 0 THEN new ELSE [new EXCEPT ![old].next = n]
      /\ list' = [head |-> IF list.len = 0 THEN n ELSE list.head,
                  tail |-> n, len |-> list.len + 1]
      /\ list_node_stat' = list_node_stat \cup {n}

list_rpush(n, val) ==
  LET old == list.tail
      new == [node EXCEPT ![n] = [prev |-> IF list.len = 0 THEN NULL ELSE old,
                                  next |-> NULL, val |-> val]]
  IN  /\ node' = IF list.len = 0 THEN new ELSE [new EXCEPT ![old].next = n]
      /\ list' = [head |-> IF list.len = 0 THEN n ELSE list.head,
                  tail |-> n, len |-> list.len + 1]
      /\ list_node_stat' = list_node_stat \cup {n}

slip_list_remove(n) ==                   \* the tail is not moved back
  LET p == node[n].prev
      q == node[n].next
      a == IF p = NULL THEN node ELSE [node EXCEPT ![p].next = q]
      b == IF q = NULL THEN a ELSE [a EXCEPT ![q].prev = p]
  IN  /\ node' = [b EXCEPT ![n] = Blank]
      /\ list' = [list EXCEPT !.head = IF p = NULL THEN q ELSE @, !.len = @ - 1]
      /\ list_node_stat' = list_node_stat \ {n}

list_remove(n) ==
  LET p == node[n].prev
      q == node[n].next
      a == IF p = NULL THEN node ELSE [node EXCEPT ![p].next = q]
      b == IF q = NULL THEN a ELSE [a EXCEPT ![q].prev = p]
  IN  /\ node' = [b EXCEPT ![n] = Blank]
      /\ list' = [head |-> IF p = NULL THEN q ELSE list.head,
                  tail |-> IF q = NULL THEN p ELSE list.tail,
                  len  |-> list.len - 1]
      /\ list_node_stat' = list_node_stat \ {n}

\* A walk: it begins at the head, and takes the next node before it may remove the
\* one at hand.  Without a free iterator there would be none (TypeOK: there is one).
StartWalk(walk) ==
  /\ iterators < LIST_ITERATOR_MAX_NUM
  /\ iterators' = iterators + 1
  /\ it' = list.head
  /\ pc' = walk

EndWalk(then) ==
  /\ iterators' = iterators - 1
  /\ it' = NULL
  /\ pc' = then

Advance == it' = node[it].next /\ UNCHANGED <<pc, iterators>>

-----------------------------------------------------------------------------
(* lcd_dis_list_add_str, lcd_dis_list_add_pic                              *)

SlipCheckId(val) ==                      \* an id in use is taken once more
  /\ list_id_table' = list_id_table \cup {val.id}
  /\ pc' = "push"
  /\ UNCHANGED <<iterators, it>>

\* lcd_dis_list_check_id: the bit of a free id is set; an id in use is deleted first.
CheckId(val) ==
  IF val.id \in list_id_table
  THEN StartWalk("delete") /\ UNCHANGED list_id_table
  ELSE /\ list_id_table' = list_id_table \cup {val.id}
       /\ pc' = "push"
       /\ UNCHANGED <<iterators, it>>

\* malloc gives no memory: NULL is returned and nothing has changed.
Add(op, val) ==
  /\ pc = "idle"
  /\ cur' = [op |-> op, val |-> val]
  /\ heap' = heap + 1
  /\ CheckId(val)
  /\ UNCHANGED listVars

Recheck ==
  /\ pc = "recheck"
  /\ cur.val.id \notin list_id_table
  /\ list_id_table' = list_id_table \cup {cur.val.id}
  /\ pc' = "push"
  /\ UNCHANGED <<listVars, iterators, heap, it, cur>>

\* The block for the string or picture is not to be had: the id stays taken.
PushNoMemory ==
  /\ pc = "push"
  /\ heap' = heap - 1
  /\ pc' = "idle"
  /\ UNCHANGED <<listVars, list_id_table, iterators, it, cur>>

\* Without a free node NULL is returned, and the block of the string stays allocated.
Push ==
  /\ pc = "push"
  /\ IF FreeNodes = {}
     THEN pc' = "idle" /\ UNCHANGED <<heap, listVars>>
     ELSE /\ heap' = heap + 1
          /\ list_rpush(NewNode, cur.val)
          /\ pc' = IF cur.op = "alpha" THEN "show" ELSE "idle"
  /\ UNCHANGED <<list_id_table, iterators, it, cur>>

-----------------------------------------------------------------------------
(* lcd_dis_list_del_by_id, lcd_dis_list_del_all                            *)

Delete(id) ==
  /\ pc = "idle"
  /\ cur' = [op |-> "delete", val |-> [id |-> id, auto_del |-> FALSE]]
  /\ StartWalk("delete")
  /\ UNCHANGED <<listVars, list_id_table, heap>>

AfterDelete == IF cur.op = "delete" \/ cur.op = "shown" THEN "idle" ELSE "recheck"

DeletePasses ==
  /\ pc = "delete" /\ it # NULL
  /\ node[it].val.id # cur.val.id
  /\ Advance
  /\ UNCHANGED <<listVars, list_id_table, heap, cur>>

DeleteFinds ==
  /\ pc = "delete" /\ it # NULL
  /\ node[it].val.id = cur.val.id
  /\ list_remove(it)
  /\ heap' = heap - 2
  /\ list_id_table' = list_id_table \ {cur.val.id}
  /\ EndWalk(AfterDelete)
  /\ UNCHANGED cur

\* The item may have been an auto_del one and gone: its bit is cleared all the same.
DeleteEnds ==
  /\ pc = "delete" /\ it = NULL
  /\ list_id_table' = list_id_table \ {cur.val.id}
  /\ EndWalk(AfterDelete)
  /\ UNCHANGED <<listVars, heap, cur>>

DeleteAll ==
  /\ pc = "idle"
  /\ StartWalk("delete_all")
  /\ UNCHANGED <<listVars, list_id_table, heap, cur>>

DeleteAllNext ==
  /\ pc = "delete_all" /\ it # NULL
  /\ list_remove(it)
  /\ heap' = heap - 2
  /\ Advance
  /\ UNCHANGED <<list_id_table, cur>>

\* list_id_table and list_node_stat are cleared as a whole.
DeleteAllEnds ==
  /\ pc = "delete_all" /\ it = NULL
  /\ list_id_table' = {}
  /\ list_node_stat' = {}
  /\ EndWalk("idle")
  /\ UNCHANGED <<list, node, heap, cur>>

-----------------------------------------------------------------------------
(* face_cb.c                                                               *)

\* lcd_display_image_alpha: the picture is added, drawn at once and deleted.
DisplayAlpha == Add("alpha", [id |-> NodeNum - 1, auto_del |-> TRUE])

Show ==
  /\ pc = "show"
  /\ cur' = [cur EXCEPT !.op = "shown"]
  /\ StartWalk("delete")
  /\ UNCHANGED <<listVars, list_id_table, heap>>

\* lcd_convert_cb: the items are drawn, those with auto_del for the last time.
Convert ==
  /\ pc = "idle" /\ list.len # 0
  /\ StartWalk("convert")
  /\ UNCHANGED <<listVars, list_id_table, heap, cur>>

SlipConvertNext ==                       \* the block is not freed
  /\ pc = "convert" /\ it # NULL
  /\ Advance
  /\ IF node[it].val.auto_del THEN list_remove(it) ELSE UNCHANGED listVars
  /\ UNCHANGED <<list_id_table, cur, heap>>

SlipConvertSkips ==                      \* the node after one that is removed is passed over
  /\ pc = "convert" /\ it # NULL
  /\ it' = IF node[it].val.auto_del /\ node[it].next # NULL
           THEN node[node[it].next].next ELSE node[it].next
  /\ IF node[it].val.auto_del
     THEN list_remove(it) /\ heap' = heap - 2
     ELSE UNCHANGED <<listVars, heap>>
  /\ UNCHANGED <<list_id_table, cur, pc, iterators>>

\* The bit of an item that goes stays set.
ConvertNext ==
  /\ pc = "convert" /\ it # NULL
  /\ Advance
  /\ IF node[it].val.auto_del
     THEN list_remove(it) /\ heap' = heap - 2
     ELSE UNCHANGED <<listVars, heap>>
  /\ UNCHANGED <<list_id_table, cur>>

ConvertEnds ==
  /\ pc = "convert" /\ it = NULL
  /\ EndWalk("idle")
  /\ UNCHANGED <<listVars, list_id_table, heap, cur>>

-----------------------------------------------------------------------------
\* lcd_dis_list_init
Init ==
  /\ list = [head |-> NULL, tail |-> NULL, len |-> 0]
  /\ node = [n \in Nodes |-> Blank]
  /\ list_node_stat = {} /\ list_id_table = {}
  /\ iterators = 0 /\ heap = 0
  /\ pc = "idle" /\ it = NULL
  /\ cur = [op |-> "delete", val |-> Blank.val]

Calls == \/ \E val \in Items : Add("add", val)
         \/ \E id \in Ids : Delete(id)
         \/ DeleteAll \/ DisplayAlpha \/ Convert

Steps == \/ Recheck \/ PushNoMemory \/ Push
         \/ DeletePasses \/ DeleteFinds \/ DeleteEnds
         \/ DeleteAllNext \/ DeleteAllEnds
         \/ Show \/ ConvertNext \/ ConvertEnds

Next == Calls \/ Steps

Spec == Init /\ [][Next]_vars

\* A call that was made runs on to its end.
FairSpec == Spec /\ WF_vars(Steps)

-----------------------------------------------------------------------------
(* Properties                                                              *)

\* Every variable has its type.
TypeOK ==
  /\ list \in [head : Ptrs, tail : Ptrs, len : 0 .. NodeNum]
  /\ node \in [Nodes -> [prev : Ptrs, next : Ptrs, val : Items]]
  /\ list_node_stat \subseteq Nodes /\ list_id_table \subseteq Ids
  /\ iterators \in {0, 1} /\ heap \in Nat
  /\ pc \in {"idle", "recheck", "push", "show", "delete", "delete_all", "convert"}
  /\ it \in Ptrs
  /\ cur \in [op : {"add", "alpha", "delete", "shown"}, val : Items]

\* The k-th node from the head.
At[k \in 1 .. NodeNum] == IF k = 1 THEN list.head ELSE node[At[k - 1]].next

Shown == [k \in 1 .. list.len |-> node[At[k]].val]

\* From head to tail there are len nodes, exactly those in use, each linked back to
\* the one before it, and a walk stands at one of them, whatever it has removed.
WellLinked ==
  /\ list.len = 0 <=> list.head = NULL
  /\ list.len = 0 <=> list.tail = NULL
  /\ list.len > 0 => /\ At[list.len] = list.tail
                     /\ node[list.tail].next = NULL
                     /\ node[list.head].prev = NULL
  /\ \A k \in 2 .. list.len : node[At[k]].prev = At[k - 1]
  /\ list_node_stat = {At[k] : k \in 1 .. list.len}
  /\ it \in list_node_stat \cup {NULL}

\* An add always finds a node, though auto_del items go without giving their id back:
\* every id that is shown has its bit set, so it is deleted before it comes again.
AddFindsANode ==
  /\ {Shown[k].id : k \in 1 .. list.len} \subseteq list_id_table
  /\ pc = "push" => FreeNodes # {}

\* Every block of the heap belongs to an item of the list or to the call under way,
\* and the iterator to a walk.
BlocksAccountedFor ==
  /\ heap = 2 * list.len
            + (IF pc \in {"push", "recheck"} \/ (pc = "delete" /\ cur.op \in {"add", "alpha"})
               THEN 1 ELSE 0)
  /\ iterators = IF pc \in {"delete", "delete_all", "convert"} THEN 1 ELSE 0

\* An auto_del item is drawn by one frame: none is left when the frame's walk ends.
DrawnOnce ==
  [][pc = "convert" /\ pc' = "idle" => \A k \in 1 .. list.len : ~Shown[k].auto_del]_vars

\* The list of nodes is the sequence of items its callers think of.
Display == INSTANCE DisplayItems WITH shown <- Shown
ImplementsDisplayItems == Display!Spec

\* Every call returns: no walk goes round in circles.
CallsReturn == pc # "idle" ~> pc = "idle"
=============================================================================
