---------------------------- MODULE DisplayItems ----------------------------
(***************************************************************************)
(* What the display list of MF1 promises its callers (face_lib/lcd_dis.h): *)
(* a sequence of items in the order in which they were added, with at most *)
(* one item per id.  Items come at the end and go one at a time.           *)
(***************************************************************************)
EXTENDS Naturals, Sequences

CONSTANTS Ids

Items == [id : Ids, auto_del : BOOLEAN]

VARIABLE shown

IdsOf(s) == {s[i].id : i \in DOMAIN s}

Without(s, k) == SubSeq(s, 1, k - 1) \o SubSeq(s, k + 1, Len(s))

Init == shown = <<>>

Add  == \E x \in Items : x.id \notin IdsOf(shown) /\ shown' = Append(shown, x)
Drop == \E k \in DOMAIN shown : shown' = Without(shown, k)

Spec == Init /\ [][Add \/ Drop]_shown
=============================================================================
