---------------------------- MODULE FlashProofs ----------------------------
(***************************************************************************)
(* Proofs about what MF1 keeps in flash.  Of FaceStore, for every number   *)
(* of slots and every set of uids: the inductive invariant IInv, the       *)
(* invariants that follow from it, and the implementation of FaceDB.  Of   *)
(* BoardCfg, for every set of settings and any number of presses: the      *)
(* settings that are confirmed, and that a press is reported once.         *)
(***************************************************************************)
EXTENDS FaceStore, BoardCfg, FiniteSetTheorems, WellFoundedInduction, TLAPS

-----------------------------------------------------------------------------
(* Numbers and sets of slots                                               *)

\* Every non-empty set of naturals has a least element: why the loop of
\* get_face_id (flash.c 25-44) ends at the lowest clear bit.
LEMMA LeastNat ==
  ASSUME NEW S \in SUBSET Nat, S # {}
  PROVE  \E m \in S : \A n \in S : m <= n
<1> DEFINE R == {ss \in Nat \X Nat : ss[1] < ss[2]}
<1>1. IsWellFoundedOn(R, Nat)
  BY NatLessThanWellFounded DEF OpToRel
<1> HIDE DEF R
<1>2. PICK m \in S : \A n \in S : ~ (<<n, m>> \in R)
  BY <1>1, WFMin
<1>3. \A n \in S : ~ (n < m)
  BY <1>2 DEF R
<1>4. QED
  BY <1>3

\* get_face_id returns a free slot, and the lowest one, whenever one is free.
LEMMA FaceIdIsLowestFree ==
  ASSUME NEW info, FreeSlots(info) # {}
  PROVE  /\ get_face_id(info) \in Slots \ info.index
         /\ \A t \in Slots : t < get_face_id(info) => t \in info.index
<1>1. FreeSlots(info) \in SUBSET Nat
  BY NAssumption DEF FreeSlots, Slots
<1>2. \E s \in FreeSlots(info) : \A t \in FreeSlots(info) : s <= t
  BY <1>1, LeastNat
<1>3. /\ get_face_id(info) \in FreeSlots(info)
      /\ \A t \in FreeSlots(info) : get_face_id(info) <= t
  BY <1>2 DEF get_face_id
<1>4. QED
  BY <1>1, <1>3, NAssumption DEF FreeSlots, Slots

\* A set of slots is finite and has at most N elements.
LEMMA SlotSets ==
  ASSUME NEW S \in SUBSET Slots
  PROVE  IsFiniteSet(S) /\ Cardinality(S) \in 0 .. N
<1>1. IsFiniteSet(Slots) /\ Cardinality(Slots) = N
  BY FS_Interval, NAssumption DEF Slots
<1>2. QED
  BY <1>1, FS_Subset, FS_CardinalityType, NAssumption

\* Adding a free slot, or removing a used one, changes the count by one.
LEMMA SlotCounts ==
  ASSUME NEW S \in SUBSET Slots, NEW s \in Slots
  PROVE  /\ s \notin S => Cardinality(S \cup {s}) = Cardinality(S) + 1
         /\ s \in S => Cardinality(S \ {s}) = Cardinality(S) - 1
BY SlotSets, FS_AddElement, FS_RemoveElement

-----------------------------------------------------------------------------
(* The inductive invariant                                                 *)

\* What RAM says about itself at every point: the count, the header word, and
\* the uids of the slots in use.
RamInv ==
  /\ g_face_save_info.number = Cardinality(g_face_save_info.index)
  /\ g_face_save_info.hdr <=> (chip /\ pc # "off")
  /\ pc = "off" => g_face_save_info.index = {}
  /\ \A s \in g_face_save_info.index : uid_table[s] = UidOf(rec, s)

\* While no header write is pending, RAM and flash agree on the slots in use.
AgreeInv ==
  pc \in {"idle", "write_record"} /\ chip =>
    head.hdr /\ head.index = g_face_save_info.index

\* What each pending write is going to do, and to which state of the flash.
RecordInv ==
  pc = "write_record" =>
    /\ cur.face \in Faces
    /\ cur.slot \notin g_face_save_info.index
    /\ \A t \in Slots : t < cur.slot => t \in g_face_save_info.index
    /\ uid_table[cur.slot] = cur.face.uid

SaveInv ==
  pc = "write_save" =>
    /\ cur.face \in Faces
    /\ cur.slot \in g_face_save_info.index
    /\ rec[cur.slot] = cur.face
    /\ \A t \in Slots : t < cur.slot => t \in g_face_save_info.index
    /\ chip => head.hdr /\ head.index = g_face_save_info.index \ {cur.slot}

DeleteInv ==
  pc = "write_delete" =>
    /\ cur.slot \notin g_face_save_info.index
    /\ rec[cur.slot] \in Faces
    /\ chip => head.hdr /\ head.index = g_face_save_info.index \cup {cur.slot}

EmptyInv ==
  /\ pc \in {"write_init", "write_all"} => g_face_save_info.index = {}
  /\ pc = "write_init" => chip /\ ~head.hdr

IInv ==
  /\ TypeOK
  /\ RamInv
  /\ AgreeInv
  /\ RecordInv
  /\ SaveInv
  /\ DeleteInv
  /\ EmptyInv
-----------------------------------------------------------------------------
(* The initial states                                                      *)

\* A header with no bit set holds the table of no faces.
LEMMA EmptyTable ==
  /\ \A b \in BOOLEAN : Empty(b) \in Headers
  /\ Cardinality({}) = 0
  /\ 0 \in Slots
<1>1. 0 \in 0 .. N /\ 0 \in Slots
  BY NAssumption DEF Slots
<1>2. QED
  BY <1>1, FS_EmptySet DEF Empty, Headers

\* The initial states satisfy the invariant, whatever the flash holds.
LEMMA InitInv == Init => IInv
<1> SUFFICES ASSUME Init PROVE IInv
  OBVIOUS
<1>1. TypeOK
  <2>1. g_face_save_info \in Headers
    BY EmptyTable DEF Init
  <2>2. cur \in [slot : Slots, face : Faces \cup {Dirty}]
    BY EmptyTable DEF Init
  <2>3. uid_table \in [Slots -> Uids \cup {NoUid}] /\ flash_all_face_have_ir_fea \in 0 .. 1
    BY DEF Init
  <2>4. chip \in BOOLEAN /\ head \in Headers /\ rec \in [Slots -> Faces \cup {Dirty}]
    BY DEF Init
  <2>5. QED
    BY <2>1, <2>2, <2>3, <2>4 DEF Init, TypeOK
<1>2. RamInv
  BY EmptyTable DEF Init, RamInv, Empty
<1>3. AgreeInv /\ RecordInv /\ SaveInv /\ DeleteInv /\ EmptyInv
  BY DEF Init, AgreeInv, RecordInv, SaveInv, DeleteInv, EmptyInv
<1>4. QED
  BY <1>1, <1>2, <1>3 DEF IInv

-----------------------------------------------------------------------------
(* One lemma per action                                                    *)

\* A boot that does not know the chip keeps the invariant (flash.c 303-307).
LEMMA BootUnknownChipInv ==
  ASSUME IInv, BootUnknownChip
  PROVE  IInv'
<1> USE DEF IInv
<1>1. TypeOK'
  BY DEF BootUnknownChip, TypeOK, flashVars, ramVars
<1>2. RamInv'
  BY DEF BootUnknownChip, TypeOK, RamInv, flashVars, ramVars
<1>3. AgreeInv'
  BY DEF BootUnknownChip, TypeOK, RamInv, AgreeInv, flashVars, ramVars
<1>4. (RecordInv /\ SaveInv /\ DeleteInv /\ EmptyInv)'
  BY DEF BootUnknownChip, TypeOK, RamInv, AgreeInv, RecordInv, SaveInv, DeleteInv, EmptyInv, flashVars, ramVars
<1>5. QED
  BY <1>1, <1>2, <1>3, <1>4

\* A boot that finds a good header keeps it (flash.c 309-338).
LEMMA BootHeaderOkInv ==
  ASSUME IInv, BootHeaderOk
  PROVE  IInv'
<1> USE DEF IInv
<1>1. TypeOK'
  BY SlotSets DEF BootHeaderOk, TypeOK, flashVars, Headers, UidOf, flash_isall_have_ir, Faces
<1>2. RamInv'
  BY DEF BootHeaderOk, TypeOK, RamInv, flashVars, Headers, UidOf
<1>3. AgreeInv'
  BY DEF BootHeaderOk, TypeOK, RamInv, AgreeInv, flashVars, Headers
<1>4. (RecordInv /\ SaveInv /\ DeleteInv /\ EmptyInv)'
  BY DEF BootHeaderOk, TypeOK, RamInv, AgreeInv, RecordInv, SaveInv, DeleteInv, EmptyInv, flashVars, Headers
<1>5. QED
  BY <1>1, <1>2, <1>3, <1>4

\* A boot that finds none keeps it (flash.c 339-348).
LEMMA BootNoHeaderInv ==
  ASSUME IInv, BootNoHeader
  PROVE  IInv'
<1> USE DEF IInv
<1>1. TypeOK'
  BY EmptyTable DEF BootNoHeader, TypeOK, flashVars
<1>2. RamInv'
  BY EmptyTable DEF BootNoHeader, TypeOK, RamInv, flashVars, Empty
<1>3. AgreeInv'
  BY DEF BootNoHeader, TypeOK, RamInv, AgreeInv, flashVars, Empty
<1>4. (RecordInv /\ SaveInv /\ DeleteInv /\ EmptyInv)'
  BY DEF BootNoHeader, TypeOK, RamInv, AgreeInv, RecordInv, SaveInv, DeleteInv, EmptyInv, flashVars, Empty
<1>5. QED
  BY <1>1, <1>2, <1>3, <1>4

\* So does the write of the new empty header (flash.c 345).
LEMMA WriteInitInv ==
  ASSUME IInv, WriteInit
  PROVE  IInv'
<1> USE DEF IInv
<1>1. TypeOK'
  BY DEF WriteInit, TypeOK, Headers, flash_isall_have_ir
<1>2. RamInv'
  BY DEF WriteInit, TypeOK, RamInv, EmptyInv
<1>3. AgreeInv'
  BY DEF WriteInit, TypeOK, RamInv, AgreeInv, EmptyInv
<1>4. (RecordInv /\ SaveInv /\ DeleteInv /\ EmptyInv)'
  BY DEF WriteInit, TypeOK, RamInv, AgreeInv, RecordInv, SaveInv, DeleteInv, EmptyInv, EmptyInv
<1>5. QED
  BY <1>1, <1>2, <1>3, <1>4

\* A power cut in any write keeps it: what may be torn is a header page or one record.
LEMMA PowerCutInv ==
  ASSUME IInv, PowerCut
  PROVE  IInv'
<1> USE DEF IInv
<1>1. TypeOK'
  <2>1. head' \in Headers /\ rec' \in [Slots -> Faces \cup {Dirty}]
    <3>1. Blank(head) \in Headers
      BY DEF TypeOK, Headers, Blank
    <3>2. CASE TornHeader
      BY <3>1, <3>2 DEF TypeOK, TornHeader
    <3>3. CASE TornRecord
      BY <3>3 DEF TypeOK, TornRecord
    <3>4. QED
      BY <3>2, <3>3 DEF PowerCut, TypeOK, flashVars
  <2>2. g_face_save_info' \in Headers
    BY EmptyTable DEF PowerCut
  <2>3. cur' \in [slot : Slots, face : Faces \cup {Dirty}]
    BY EmptyTable DEF PowerCut
  <2>4. /\ uid_table' \in [Slots -> Uids \cup {NoUid}]
        /\ flash_all_face_have_ir_fea' \in 0 .. 1
        /\ pc' = "off"
        /\ chip' \in BOOLEAN
    BY DEF PowerCut, TypeOK
  <2>5. QED
    BY <2>1, <2>2, <2>3, <2>4 DEF TypeOK
<1>2. RamInv'
  BY EmptyTable DEF PowerCut, TypeOK, RamInv, Empty
<1>3. AgreeInv'
  BY DEF PowerCut, TypeOK, RamInv, AgreeInv, Empty
<1>4. (RecordInv /\ SaveInv /\ DeleteInv /\ EmptyInv)'
  BY DEF PowerCut, TypeOK, RamInv, AgreeInv, RecordInv, SaveInv, DeleteInv, EmptyInv, Empty
<1>5. QED
  BY <1>1, <1>2, <1>3, <1>4

\* The start of a save keeps it (flash.c 132-169).
LEMMA SaveInvStep ==
  ASSUME IInv, NEW f \in Faces, Save(f)
  PROVE  IInv'
<1> USE DEF IInv
<1>1. TypeOK'
  BY FaceIdIsLowestFree DEF Save, TypeOK, flashVars, Faces
<1>2. RamInv'
  BY FaceIdIsLowestFree DEF Save, TypeOK, RamInv, flashVars
<1>3. AgreeInv'
  BY FaceIdIsLowestFree DEF Save, TypeOK, RamInv, AgreeInv, flashVars, Faces
<1>4. (RecordInv /\ SaveInv /\ DeleteInv /\ EmptyInv)'
  BY FaceIdIsLowestFree DEF Save, TypeOK, RamInv, AgreeInv, RecordInv, SaveInv, DeleteInv, EmptyInv, flashVars, Faces
<1>5. QED
  BY <1>1, <1>2, <1>3, <1>4

\* The write of a new record keeps it: its slot is not in use (flash.c 171-173).
LEMMA WriteRecordInv ==
  ASSUME IInv, WriteRecord
  PROVE  IInv'
<1> USE DEF IInv
<1>0. /\ g_face_save_info'.index = g_face_save_info.index \cup {cur.slot}
      /\ g_face_save_info'.index \in SUBSET Slots
      /\ g_face_save_info'.number = Cardinality(g_face_save_info'.index)
  <2>1. /\ g_face_save_info'.index = g_face_save_info.index \cup {cur.slot}
        /\ g_face_save_info'.number = g_face_save_info.number + 1
        /\ cur.slot \in Slots \ g_face_save_info.index
        /\ g_face_save_info.index \in SUBSET Slots
    BY DEF WriteRecord, TypeOK, Headers, RecordInv
  <2>2. QED
    BY <2>1, SlotCounts DEF RamInv
<1>1. TypeOK'
  <2>1. g_face_save_info' \in Headers
    BY SlotSets, <1>0 DEF WriteRecord, TypeOK, Headers
  <2>2. QED
    BY <2>1 DEF WriteRecord, TypeOK
<1>2. RamInv'
  <2>1. \A s \in g_face_save_info'.index : uid_table'[s] = UidOf(rec', s)
    BY DirtyAssumption DEF WriteRecord, TypeOK, Headers, RamInv, RecordInv, UidOf
  <2>2. QED
    BY <1>0, <2>1 DEF WriteRecord, TypeOK, RamInv, Headers
<1>3. AgreeInv'
  BY DEF WriteRecord, TypeOK, RamInv, AgreeInv, Headers
<1>4. (RecordInv /\ SaveInv /\ DeleteInv /\ EmptyInv)'
  BY DEF WriteRecord, TypeOK, RamInv, AgreeInv, RecordInv, SaveInv, DeleteInv, EmptyInv, Headers
<1>5. QED
  BY <1>1, <1>2, <1>3, <1>4

\* The header write that ends a save keeps it (flash.c 174-179).
LEMMA WriteSaveInv ==
  ASSUME IInv, WriteSave
  PROVE  IInv'
<1> USE DEF IInv
<1>1. TypeOK'
  BY DEF WriteSave, TypeOK, flash_isall_have_ir
<1>2. RamInv'
  BY DEF WriteSave, TypeOK, RamInv
<1>3. AgreeInv'
  BY DEF WriteSave, TypeOK, RamInv, AgreeInv
<1>4. (RecordInv /\ SaveInv /\ DeleteInv /\ EmptyInv)'
  BY DEF WriteSave, TypeOK, RamInv, AgreeInv, RecordInv, SaveInv, DeleteInv, EmptyInv
<1>5. QED
  BY <1>1, <1>2, <1>3, <1>4

\* The start of a delete keeps it (flash.c 109-117).
LEMMA DeleteInvStep ==
  ASSUME IInv, NEW u \in Uids, Delete(u)
  PROVE  IInv'
<1> USE DEF IInv
<1>1. TypeOK'
  <2>1. PICK s \in g_face_save_info.index :
          /\ g_face_save_info' = [g_face_save_info EXCEPT !.number = @ - 1,
                                                          !.index = @ \ {s}]
          /\ cur' = [slot |-> s, face |-> Dirty]
    BY DEF Delete, flash_get_id_by_uid
  <2>2. g_face_save_info.index \in SUBSET Slots /\ s \in Slots
    BY DEF TypeOK, Headers
  <2>3. g_face_save_info.number - 1 = Cardinality(g_face_save_info.index \ {s})
    BY <2>1, <2>2, SlotCounts DEF RamInv
  <2>4. g_face_save_info' \in Headers
    <3>1. g_face_save_info.index \ {s} \in SUBSET Slots
      BY <2>2
    <3>2. g_face_save_info.number - 1 \in 0 .. N
      BY <2>3, <3>1, SlotSets
    <3>3. QED
      BY <2>1, <3>1, <3>2 DEF TypeOK, Headers
  <2>5. QED
    BY <2>1, <2>2, <2>4 DEF Delete, TypeOK, flashVars
<1>2. RamInv'
  BY SlotCounts DEF Delete, TypeOK, RamInv, flashVars, Headers, flash_get_id_by_uid
<1>3. AgreeInv'
  BY NoUidAssumption DEF Delete, TypeOK, RamInv, AgreeInv, flashVars, Headers, flash_get_id_by_uid, UidOf
<1>4. (RecordInv /\ SaveInv /\ DeleteInv /\ EmptyInv)'
  BY NoUidAssumption DEF Delete, TypeOK, RamInv, AgreeInv, RecordInv, SaveInv, DeleteInv, EmptyInv, flashVars, Headers, flash_get_id_by_uid, UidOf
<1>5. QED
  BY <1>1, <1>2, <1>3, <1>4

\* The header write that ends a delete keeps it (flash.c 118).
LEMMA WriteDeleteInv ==
  ASSUME IInv, WriteDelete
  PROVE  IInv'
<1> USE DEF IInv
<1>1. TypeOK'
  BY DEF WriteDelete, TypeOK
<1>2. RamInv'
  BY DEF WriteDelete, TypeOK, RamInv, DeleteInv
<1>3. AgreeInv'
  BY DEF WriteDelete, TypeOK, RamInv, AgreeInv
<1>4. (RecordInv /\ SaveInv /\ DeleteInv /\ EmptyInv)'
  BY DEF WriteDelete, TypeOK, RamInv, AgreeInv, RecordInv, SaveInv, DeleteInv, EmptyInv
<1>5. QED
  BY <1>1, <1>2, <1>3, <1>4

\* The start of a delete of all faces keeps it (flash.c 123-126).
LEMMA DeleteAllInv ==
  ASSUME IInv, DeleteAll
  PROVE  IInv'
<1> USE DEF IInv
<1>1. TypeOK'
  <2>1. g_face_save_info.hdr \in BOOLEAN
    BY DEF TypeOK, Headers
  <2>2. g_face_save_info' \in Headers
    BY <2>1, EmptyTable DEF DeleteAll
  <2>3. QED
    BY <2>2 DEF DeleteAll, TypeOK, flashVars
<1>2. RamInv'
  BY EmptyTable DEF DeleteAll, TypeOK, RamInv, flashVars, Empty
<1>3. AgreeInv'
  BY DEF DeleteAll, TypeOK, RamInv, AgreeInv, flashVars, Empty
<1>4. (RecordInv /\ SaveInv /\ DeleteInv /\ EmptyInv)'
  BY DEF DeleteAll, TypeOK, RamInv, AgreeInv, RecordInv, SaveInv, DeleteInv, EmptyInv, flashVars, Empty
<1>5. QED
  BY <1>1, <1>2, <1>3, <1>4

\* The header write that ends it keeps it (flash.c 127).
LEMMA WriteAllInv ==
  ASSUME IInv, WriteAll
  PROVE  IInv'
<1> USE DEF IInv
<1>1. TypeOK'
  BY DEF WriteAll, TypeOK
<1>2. RamInv'
  BY DEF WriteAll, TypeOK, RamInv, EmptyInv
<1>3. AgreeInv'
  BY DEF WriteAll, TypeOK, RamInv, AgreeInv, EmptyInv
<1>4. (RecordInv /\ SaveInv /\ DeleteInv /\ EmptyInv)'
  BY DEF WriteAll, TypeOK, RamInv, AgreeInv, RecordInv, SaveInv, DeleteInv, EmptyInv, EmptyInv
<1>5. QED
  BY <1>1, <1>2, <1>3, <1>4

\* Every reachable state satisfies the inductive invariant.
THEOREM Inductive == Spec => []IInv
<1>1. IInv /\ [Next]_vars => IInv'
  <2> SUFFICES ASSUME IInv, [Next]_vars PROVE IInv'
    OBVIOUS
  <2>1. CASE UNCHANGED vars
    BY <2>1 DEF vars, flashVars, ramVars, IInv, TypeOK, RamInv, AgreeInv, RecordInv,
                SaveInv, DeleteInv, EmptyInv, flash_get_face_info, UidOf
  <2>2. CASE Next
    BY <2>2, BootUnknownChipInv, BootHeaderOkInv, BootNoHeaderInv, WriteInitInv,
       PowerCutInv, SaveInvStep, WriteRecordInv, WriteSaveInv, DeleteInvStep,
       WriteDeleteInv, DeleteAllInv, WriteAllInv
       DEF Next
  <2>3. QED
    BY <2>1, <2>2
<1>2. QED
  BY InitInv, <1>1, PTL DEF Spec
-----------------------------------------------------------------------------
(* The invariants of FaceStore                                             *)

\* Every value stays in its type: no count leaves 0 .. N, whatever order of
\* calls, power cuts and boots (flash.c as a whole).
THEOREM TypeCorrect == Spec => []TypeOK
<1>1. IInv => TypeOK
  BY DEF IInv
<1>2. QED
  BY Inductive, <1>1, PTL

\* Between calls a reboot would find the table RAM holds (flash.c 109-180
\* against 309-348).
THEOREM RamMirrorsFlashAlways == Spec => []RamMirrorsFlash
<1>1. IInv => RamMirrorsFlash
  BY DEF IInv, RamInv, AgreeInv, RamMirrorsFlash
<1>2. QED
  BY Inductive, <1>1, PTL

\* A uid query answers what a scan of the flash would (flash.c 90-107).
THEOREM LookupMatchesFlashAlways == Spec => []LookupMatchesFlash
<1>1. IInv => LookupMatchesFlash
  <2> SUFFICES ASSUME IInv, pc = "idle", chip, NEW u \in Uids
               PROVE  LET hits == {s \in head.index : UidOf(rec, s) = u}
                      IN  flash_get_id_by_uid(u) = {s \in hits : \A t \in hits : s <= t}
    BY DEF LookupMatchesFlash
  <2>1. {s \in g_face_save_info.index : uid_table[s] = u}
          = {s \in head.index : UidOf(rec, s) = u}
    BY DEF IInv, RamInv, AgreeInv
  <2>2. QED
    BY <2>1 DEF flash_get_id_by_uid
<1>2. QED
  BY Inductive, <1>1, PTL

-----------------------------------------------------------------------------
(* FaceStore implements FaceDB                                             *)

\* Where no header page names the slots, or none is named, the table is empty.
LEMMA StoredEmpty ==
  /\ ~head.hdr \/ head.index = {} => Stored = [s \in Slots |-> None]
  /\ (~head.hdr \/ head.index = {} => Stored = [s \in Slots |-> None])'
BY DEF Stored

\* The write of a new face's record is invisible: its bit is not set yet.
LEMMA RecordIsInvisible ==
  ASSUME IInv, chip, WriteRecord
  PROVE  Stored' = Stored
<1>1. cur.slot \notin head.index
  BY DEF IInv, AgreeInv, RecordInv, WriteRecord
<1>2. QED
  BY <1>1 DEF WriteRecord, Stored, IInv, TypeOK

\* One that is cut damages faces of its sector at most.
LEMMA TornRecordDamages ==
  ASSUME IInv, chip, TornRecord
  PROVE  DB!Damage(cur.slot)
<1>1. /\ head.hdr /\ cur.slot \in Slots /\ cur.slot \notin head.index
      /\ rec \in [Slots -> Faces \cup {Dirty}] /\ head.index \in SUBSET Slots
  BY DEF TornRecord, IInv, TypeOK, Headers, AgreeInv, RecordInv
<1>2. PICK r \in Faces \cup {Dirty}, erased \in SUBSET {t \in Slots : SameSector(t, cur.slot)} :
        rec' = [t \in Slots |-> IF t = cur.slot THEN r
                               ELSE IF t \in erased THEN Dirty ELSE rec[t]]
  BY DEF TornRecord
<1> DEFINE S == erased \cap head.index
<1>3. head' = head
  BY DEF TornRecord
<1>4. \A t \in Slots : Stored[t] # None <=> t \in head.index
  BY <1>1, DirtyAssumption DEF Stored
<1>5. Stored' = [t \in Slots |-> IF t \in S THEN Dirty ELSE Stored[t]]
  BY <1>1, <1>2, <1>3 DEF Stored
<1>6. S \in SUBSET {t \in Slots : SameSector(t, cur.slot) /\ Stored[t] # None}
  BY <1>1, <1>4
<1>7. Stored[cur.slot] = None
  BY <1>1 DEF Stored
<1> HIDE DEF S
<1>8. QED
  BY <1>5, <1>6, <1>7 DEF DB!Damage

\* The header page written at the end of a save enrols the face.
LEMMA SaveEnrols ==
  ASSUME IInv, chip, pc = "write_save", head' = g_face_save_info, rec' = rec
  PROVE  DB!Enrol(cur.slot, cur.face) /\ cur.slot \in Slots /\ cur.face \in Faces
<1>1. /\ head.hdr /\ g_face_save_info.hdr
      /\ cur.slot \in Slots /\ cur.face \in Faces
      /\ rec[cur.slot] = cur.face
      /\ head.index = g_face_save_info.index \ {cur.slot}
      /\ cur.slot \in g_face_save_info.index
      /\ \A t \in Slots : t < cur.slot => t \in g_face_save_info.index
  BY DEF IInv, TypeOK, RamInv, SaveInv
<1>2. Stored' = [Stored EXCEPT ![cur.slot] = cur.face]
  BY <1>1 DEF Stored
<1>3. Stored[cur.slot] = None
  BY <1>1 DEF Stored
<1>4. \A t \in Slots : t < cur.slot => Stored[t] # None
  <2> SUFFICES ASSUME NEW t \in Slots, t < cur.slot PROVE Stored[t] # None
    OBVIOUS
  <2>1. t # cur.slot
    BY <1>1, NAssumption DEF Slots
  <2>2. Stored[t] = rec[t]
    BY <1>1, <2>1 DEF Stored
  <2>3. QED
    BY <2>2, DirtyAssumption DEF IInv, TypeOK
<1>5. QED
  BY <1>1, <1>2, <1>3, <1>4 DEF DB!Enrol

\* The header page written by a delete removes one readable face.
LEMMA DeleteDeletes ==
  ASSUME IInv, chip, pc = "write_delete", head' = g_face_save_info, rec' = rec
  PROVE  DB!Delete(cur.slot) /\ cur.slot \in Slots
<1>1. /\ head.hdr /\ g_face_save_info.hdr
      /\ cur.slot \in Slots /\ rec[cur.slot] \in Faces
      /\ head.index = g_face_save_info.index \cup {cur.slot}
      /\ cur.slot \notin g_face_save_info.index
  BY DEF IInv, TypeOK, RamInv, DeleteInv
<1>2. Stored' = [Stored EXCEPT ![cur.slot] = None]
  BY <1>1 DEF Stored
<1>3. Stored[cur.slot] \in Faces
  BY <1>1 DEF Stored
<1>4. QED
  BY <1>1, <1>2, <1>3 DEF DB!Delete

\* The empty header page written by a delete of all, or by a first start, clears.
LEMMA EmptyClears ==
  ASSUME IInv, pc \in {"write_init", "write_all"}, head' = g_face_save_info
  PROVE  DB!Clear
<1>1. head'.index = {}
  BY DEF IInv, EmptyInv
<1>2. QED
  BY <1>1, StoredEmpty DEF DB!Clear

\* A cut header write is the write, or nothing, or loses the whole table.
LEMMA TornHeaderImplements ==
  ASSUME IInv, chip, TornHeader
  PROVE  DB!Next \/ Stored' = Stored
<1>1. CASE head' = head
  BY <1>1 DEF TornHeader, Stored
<1>2. CASE head' = Blank(head)
  <2>1. ~head'.hdr
    BY <1>2 DEF Blank, IInv, TypeOK, Headers
  <2>2. DB!Clear
    BY <2>1, StoredEmpty DEF DB!Clear
  <2>3. QED
    BY <2>2 DEF DB!Next
<1>3. CASE head' = g_face_save_info
  <2>1. CASE pc \in {"write_init", "write_all"}
    BY <1>3, <2>1, EmptyClears DEF DB!Next
  <2>2. CASE pc = "write_save"
    BY <1>3, <2>2, SaveEnrols DEF DB!Next, TornHeader
  <2>3. CASE pc = "write_delete"
    BY <1>3, <2>3, DeleteDeletes DEF DB!Next, TornHeader
  <2>4. QED
    BY <2>1, <2>2, <2>3 DEF TornHeader
<1>4. QED
  BY <1>1, <1>2, <1>3 DEF TornHeader

\* FaceStore implements FaceDB: what a reboot would load changes only by
\* whole operations, in every run that knows the chip (flash.c 109-180 and 292-355).
THEOREM Refinement == Spec => ImplementsFaceDB
<1>1. Init => DB!Init
  <2> SUFFICES ASSUME Init PROVE DB!Init
    OBVIOUS
  <2>1. \A s \in Slots : Stored[s] \in Faces \cup {None, Dirty}
    BY DEF Init, Stored
  <2>2. QED
    BY <2>1 DEF Stored, DB!Init, DB!TypeOK
<1>2. IInv /\ [Next]_vars => [chip => DB!Next]_Stored
  <2> SUFFICES ASSUME IInv, [Next]_vars, chip PROVE DB!Next \/ Stored' = Stored
    OBVIOUS
  <2>1. CASE UNCHANGED flashVars
    BY <2>1 DEF flashVars, Stored
  <2>2. CASE WriteInit
    BY <2>2, EmptyClears DEF WriteInit, DB!Next
  <2>3. CASE WriteRecord
    BY <2>3, RecordIsInvisible
  <2>4. CASE WriteSave
    BY <2>4, SaveEnrols DEF WriteSave, DB!Next
  <2>5. CASE WriteDelete
    BY <2>5, DeleteDeletes DEF WriteDelete, DB!Next
  <2>6. CASE WriteAll
    BY <2>6, EmptyClears DEF WriteAll, DB!Next
  <2>7. CASE TornHeader
    BY <2>7, TornHeaderImplements
  <2>8. CASE TornRecord
    <3>1. cur.slot \in Slots
      BY DEF IInv, TypeOK
    <3>2. QED
      BY <2>8, <3>1, TornRecordDamages DEF DB!Next
  <2>9. QED
    BY <2>1, <2>2, <2>3, <2>4, <2>5, <2>6, <2>7, <2>8
       DEF Next, vars, ramVars, PowerCut, BootUnknownChip, BootHeaderOk, BootNoHeader,
           Save, Delete, DeleteAll
<1>3. QED
  BY Inductive, <1>1, <1>2, PTL DEF Spec, ImplementsFaceDB

-----------------------------------------------------------------------------
(* The board configuration and the key.                                    *)

\* Every press that the flag still holds has not been reported.  A press that came
\* after update_key_state saw the key up may have lost its flag, but not its count.
PressInv ==
  /\ presses \in 0 .. MaxPresses /\ reports \in Nat
  /\ reports =< presses
  /\ g_gpio_flag => reports + 1 =< presses
  /\ core \in {"key1", "key1set"} => g_gpio_flag
  /\ core = "key1set" /\ pin = "down" => reports + 2 =< presses
  /\ core = "key2" /\ pin = "down" => reports + 1 =< presses

\* What the device works on and what it writes are configurations, and settings
\* are confirmed only when flash and RAM agree.
CfgInv ==
  /\ flash \in Cfgs \cup {Bad}
  /\ core \in {"off", "write", "loop", "key1", "key1set", "key2", "act", "uart"}
  /\ IF core = "off" THEN g_board_cfg = NoCfg ELSE g_board_cfg \in Cfgs
  /\ core = "write" => data \in [job : {"boot", "reset", "notify"}, cfg : Cfgs]
  /\ core = "write" => acked = NoCfg \/ misread
  /\ core = "write" /\ data.job = "notify" => data.cfg = g_board_cfg
  /\ acked \in Cfgs \cup {NoCfg} /\ misread \in BOOLEAN
  /\ AckedSettingsLast

\* The variables of the key have their types.
KeyInv ==
  /\ pin \in {"up", "down"} /\ g_gpio_flag \in BOOLEAN /\ later \in BOOLEAN
  /\ g_gpio_age \in 0 .. LongAge
  /\ g_key_press \in BOOLEAN /\ g_key_long_press \in BOOLEAN

BoardInv == PressInv /\ CfgInv /\ KeyInv

\* The default settings are a configuration.
LEMMA DefaultIsACfg == flash_cfg_set_default \in Cfgs
BY SoftsAssumption, NotifiesAssumption DEF flash_cfg_set_default, Cfgs

\* The initial states satisfy the invariant.
LEMMA BoardInitInv == BoardInit => BoardInv
<1> SUFFICES ASSUME BoardInit PROVE BoardInv
  OBVIOUS
<1>1. PressInv
  BY MaxPressesAssumption DEF BoardInit, PressInv
<1>2. CfgInv
  BY DEF BoardInit, CfgInv, AckedSettingsLast
<1>3. KeyInv
  <2>1. g_gpio_age \in 0 .. LongAge
    BY DEF BoardInit, LongAge
  <2> QED BY <2>1 DEF BoardInit, KeyInv
<1> QED BY <1>1, <1>2, <1>3 DEF BoardInv

\* No step reports a press more often than it came.
LEMMA NextPress == PressInv /\ KeyInv /\ [BoardNext]_boardVars => PressInv'
<1> SUFFICES ASSUME PressInv, KeyInv, [BoardNext]_boardVars PROVE PressInv'
  OBVIOUS
<1> USE MaxPressesAssumption DEF PressInv
<1>1. CASE Boot \/ BootFails
  BY <1>1 DEF Boot, BootFails, keyVars, evtVars
<1>2. CASE WriteOk
  BY <1>2 DEF WriteOk, AfterWrite, keyVars, evtVars
<1>3. CASE WriteFails
  BY <1>3 DEF WriteFails, AfterWrite, keyVars, evtVars
<1>4. CASE PowerLoss
  BY <1>4 DEF PowerLoss
<1>5. CASE Press
  BY <1>5 DEF Press, evtVars
<1>6. CASE Release
  BY <1>6 DEF Release, evtVars
<1>7. CASE Tick
  BY <1>7 DEF Tick, evtVars
<1>8. CASE Key0
  BY <1>8 DEF Key0
<1>9. CASE Key1
  BY <1>9 DEF Key1, KeyInv, keyVars, evtVars
<1>10. CASE Key1Set
  BY <1>10 DEF Key1Set
<1>11. CASE Key2
  BY <1>11 DEF Key2
<1>12. CASE Act
  BY <1>12 DEF Act, keyVars
<1>13. CASE NoCommand
  BY <1>13 DEF NoCommand, keyVars, evtVars
<1>14. CASE \E n \in Notifies : SetNotify(n)
  BY <1>14 DEF SetNotify, keyVars, evtVars
<1>15. CASE UNCHANGED boardVars
  BY <1>15 DEF boardVars, keyVars, evtVars
<1> QED
  BY <1>1, <1>2, <1>3, <1>4, <1>5, <1>6, <1>7, <1>8, <1>9, <1>10, <1>11, <1>12, <1>13,
     <1>14, <1>15 DEF BoardNext

\* No step runs or saves anything but a configuration, or changes flash or RAM under
\* settings that are confirmed.
LEMMA NextCfg == CfgInv /\ [BoardNext]_boardVars => CfgInv'
<1> SUFFICES ASSUME CfgInv, [BoardNext]_boardVars PROVE CfgInv'
  OBVIOUS
<1> USE DefaultIsACfg, BadAssumption DEF CfgInv, AckedSettingsLast
<1>1. CASE Boot
  BY <1>1 DEF Boot
<1>9. CASE BootFails
  BY <1>9 DEF BootFails
<1>2. CASE WriteOk
  <2>1. /\ data \in [job : {"boot", "reset", "notify"}, cfg : Cfgs]
        /\ core' \in {"loop", "uart"}
    BY <1>2 DEF WriteOk, AfterWrite
  <2>2. CASE data.job = "notify"
    BY <1>2, <2>1, <2>2 DEF WriteOk
  <2>3. CASE data.job # "notify"
    BY <1>2, <2>1, <2>3 DEF WriteOk
  <2> QED BY <2>2, <2>3
<1>3. CASE WriteFails
  BY <1>3 DEF WriteFails, AfterWrite
<1>4. CASE PowerLoss
  BY <1>4 DEF PowerLoss
<1>5. CASE \/ Press \/ Release \/ Tick \/ Key0 \/ Key1
           \/ Key1Set \/ Key2 \/ NoCommand
  <2>1. /\ UNCHANGED cfgVars
        /\ core' \in {"off", "write", "loop", "key1", "key1set", "key2", "act", "uart"}
        /\ core' = "off" <=> core = "off"
        /\ core' = "write" <=> core = "write"
    BY <1>5
       DEF Press, Release, Tick, Key0, Key1, Key1Set,
           Key2, NoCommand
  <2> QED BY <2>1 DEF cfgVars
<1>6. CASE Act
  BY <1>6 DEF Act
<1>7. ASSUME NEW n \in Notifies, SetNotify(n)
      PROVE  CfgInv'
  <2>1. g_board_cfg' \in Cfgs
    BY <1>7 DEF SetNotify, Cfgs
  <2> QED BY <1>7, <2>1 DEF SetNotify
<1>8. CASE UNCHANGED boardVars
  BY <1>8 DEF boardVars, cfgVars
<1> QED BY <1>1, <1>2, <1>3, <1>4, <1>5, <1>6, <1>7, <1>8, <1>9 DEF BoardNext

\* The variables of the key keep their types.
LEMMA NextKey == KeyInv /\ [BoardNext]_boardVars => KeyInv'
<1> SUFFICES ASSUME KeyInv, [BoardNext]_boardVars PROVE KeyInv'
  OBVIOUS
<1>1. CASE UNCHANGED <<keyVars, g_key_press, g_key_long_press>>
  BY <1>1 DEF KeyInv, keyVars
<1>2. CASE PowerLoss \/ Press \/ Release
  <2>1. g_gpio_age' \in 0 .. LongAge
    <3>1. g_gpio_age' \in {0, LongAge, g_gpio_age}
      BY <1>2 DEF PowerLoss, Press, Release
    <3>2. g_gpio_age \in 0 .. LongAge
      BY DEF KeyInv
    <3> QED BY <3>1, <3>2 DEF LongAge
  <2> QED
    BY <1>2, <2>1 DEF KeyInv, PowerLoss, Press, Release, evtVars
<1>4. CASE Tick
  BY <1>4 DEF KeyInv, Tick, Min2, LongAge, evtVars
<1>3. CASE Key0 \/ Key1Set \/ Key2 \/ Act
  BY <1>3 DEF KeyInv, Key0, Key1Set, Key2, Act, keyVars
<1> QED
  BY <1>1, <1>2, <1>3, <1>4
     DEF BoardNext, Boot, BootFails, WriteOk, WriteFails, Key1,
         NoCommand, SetNotify, boardVars, evtVars

\* The invariant holds in every reachable state.
THEOREM BoardInductive == BoardSpec => []BoardInv
<1>1. BoardInv /\ [BoardNext]_boardVars => BoardInv'
  BY NextPress, NextCfg, NextKey DEF BoardInv
<1> QED BY BoardInitInv, <1>1, PTL DEF BoardSpec

\* Every variable keeps its type: the device never works on a configuration that
\* failed the checks (flash.c 464-496, main.c 254-264).
THEOREM BoardTypeCorrect == BoardSpec => []BoardTypeOK
<1>1. BoardInv => BoardTypeOK
  BY DEF BoardInv, PressInv, CfgInv, KeyInv, BoardTypeOK
<1> QED BY <1>1, BoardInductive, PTL

\* Confirmed settings survive every power cut, and every start that can read them,
\* until the next save (flash.c 464-516, main.c 254-264).
THEOREM AckedSettingsAlwaysLast == BoardSpec => []AckedSettingsLast
<1>1. BoardInv => AckedSettingsLast
  BY DEF BoardInv, CfgInv
<1> QED BY <1>1, BoardInductive, PTL

\* A press is reported at most once, wherever the interrupt comes.
THEOREM OneReportPerPressAlways == BoardSpec => []OneReportPerPress
<1>1. BoardInv => OneReportPerPress
  BY DEF BoardInv, PressInv, OneReportPerPress
<1> QED BY <1>1, BoardInductive, PTL
=============================================================================
