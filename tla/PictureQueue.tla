---------------------------- MODULE PictureQueue ----------------------------
(***************************************************************************)
(* What core 0 may expect of core1.c: a bounded first-in first-out line of *)
(* face pictures.  A picture is taken or dropped when it is offered; one   *)
(* that was taken is sent, whole, after all those taken before it and      *)
(* before all those taken after it.  One picture is sent while up to       *)
(* Capacity wait.                                                          *)
(***************************************************************************)
EXTENDS Naturals, Sequences

CONSTANTS Pictures, Capacity

VARIABLE pending      \* the pictures taken and not yet sent, oldest first

Init == pending = <<>>

Take(p) ==
  /\ Len(pending) =< Capacity
  /\ pending' = Append(pending, p)

Sent ==
  /\ pending # <<>>
  /\ pending' = Tail(pending)

Next == Sent \/ \E p \in Pictures : Take(p)

Spec == Init /\ [][Next]_pending
=============================================================================
