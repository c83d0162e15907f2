------------------------------- MODULE FaceDB -------------------------------
(***************************************************************************)
(* What the face store of MF1 promises to whoever enrols, deletes and      *)
(* looks up faces, said without flash pages, RAM copies or write order: a  *)
(* table of Slots, each empty, holding one complete face, or damaged.      *)
(*                                                                         *)
(* Every operation is atomic.  A power cut during an operation is visible  *)
(* only as the operation having happened or not, with two exceptions that  *)
(* the table admits openly: a cut while a face is being added may damage   *)
(* faces that lie in the same sector (Damage), and a cut while the header  *)
(* page is being rewritten may lose the whole table (Clear), never a part  *)
(* of it.                                                                  *)
(*                                                                         *)
(* FaceStore.tla, the translation of src/flash.c, is shown to implement    *)
(* this module.                                                            *)
(***************************************************************************)
EXTENDS Naturals

CONSTANTS
  Slots,    \* the slot numbers, 0 .. FACE_DATA_MAX_COUNT - 1
  Faces,    \* the complete faces: records with a field uid
  None,     \* an empty slot
  Damaged,  \* a slot whose face can no longer be read
  SameSector(_, _)   \* slots that are erased together

VARIABLE db

TypeOK == db \in [Slots -> Faces \cup {None, Damaged}]

Init == TypeOK

\* A new face goes into the lowest empty slot.
Enrol(s, f) ==
  /\ db[s] = None
  /\ \A t \in Slots : t < s => db[t] # None
  /\ db' = [db EXCEPT ![s] = f]

\* A readable face is removed, and nothing else changes.
Delete(s) ==
  /\ db[s] \in Faces
  /\ db' = [db EXCEPT ![s] = None]

Clear == db' = [s \in Slots |-> None]

\* Some faces in the sector of an empty slot can no longer be read.
Damage(s) ==
  /\ db[s] = None
  /\ \E S \in SUBSET {t \in Slots : SameSector(t, s) /\ db[t] # None} :
       db' = [t \in Slots |-> IF t \in S THEN Damaged ELSE db[t]]

Next ==
  \/ \E s \in Slots, f \in Faces : Enrol(s, f)
  \/ \E s \in Slots : Delete(s) \/ Damage(s)
  \/ Clear

Spec == Init /\ [][Next]_db
=============================================================================
