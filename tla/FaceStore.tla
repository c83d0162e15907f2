----------------------------- MODULE FaceStore -----------------------------
(***************************************************************************)
(* The face store of MF1, src/projects/MF1/main/src/flash.c.               *)
(*                                                                         *)
(* Faces live in two places of the SPI flash: one record per slot, and one *)
(* header page with a bitmap of the slots in use.  RAM holds a copy of the *)
(* header page (g_face_save_info) and of every record's uid (uid_table).   *)
(* The main loop is the only caller, so calls do not overlap; but the      *)
(* power can be cut at any point, and between two flash writes is where    *)
(* the order of the writes matters.  Each operation is therefore one       *)
(* action per flash write: the action that starts it carries everything    *)
(* the code does before its first write, pc says which write is pending,   *)
(* and the action that performs the write carries the rest.                *)
(*                                                                         *)
(* A definition named slip_... or Slip... is not the code: it is a mistake *)
(* one could make in the definition after it, kept to show that the        *)
(* property it names would notice.                                         *)
(*                                                                         *)
(* flash_update_face_info has no caller in the firmware and is left out.   *)
(*                                                                         *)
(* External: the w25qxx driver.  A record write that is cut leaves any     *)
(* bytes in its slot, and may leave the other slots of the sector erased.  *)
(* A header write that is cut leaves the old page, the new one, or one     *)
(* whose header word is wrong.  The last is an assumption: the page has no *)
(* checksum, and a torn one with a good first word would be believed.      *)
(***************************************************************************)
EXTENDS Naturals, FiniteSets

CONSTANTS
  N,         \* FACE_DATA_MAX_COUNT
  PerSector, \* records in a sector of the flash
  Uids,     \* the uids a face is saved under: the caller's, or the cycle
            \* counter's when the caller passes none
  NoUid,    \* the uid read from erased flash, or a zeroed uid_table entry
  Dirty,    \* a record whose index word is not its slot number
  None      \* an empty slot of the abstract table

ASSUME NAssumption == N \in Nat \ {0} /\ PerSector \in Nat \ {0}
ASSUME NoUidAssumption == NoUid \notin Uids

Slots == 0 .. N - 1

\* Records that are erased together.
SameSector(s, t) == s \div PerSector = t \div PerSector

\* face_fea_t.stat: the features a record carries (0 rgb, 1 ir, 2 both).
Stats == 0 .. 2

\* face_info_t, without the fields no decision in flash.c depends on.
Faces == [uid : Uids, stat : Stats]

ASSUME DirtyAssumption == Dirty \notin Faces /\ None \notin Faces /\ Dirty # None

\* face_save_info_t: hdr says that the header word is FACE_HEADER.
Headers == [hdr : BOOLEAN, number : 0 .. N, index : SUBSET Slots]

VARIABLES
  chip,       \* the device ids read at this start were supported ones
  head,       \* flash: the header page at DATA_ADDRESS
  rec,        \* flash: the records at FACE_DATA_ADDERSS
  g_face_save_info,
  uid_table,
  flash_all_face_have_ir_fea,
  pc,         \* the pending flash write, "idle" between calls, "off" without power
  cur         \* the slot and the face of the call in progress

flashVars == <<head, rec>>
ramVars   == <<g_face_save_info, uid_table, flash_all_face_have_ir_fea>>
vars      == <<chip, flashVars, ramVars, pc, cur>>

-----------------------------------------------------------------------------
(* Helpers of flash.c                                                      *)

Blank(h) == [h EXCEPT !.hdr = FALSE]

Empty(isHdr) == [hdr |-> isHdr, number |-> 0, index |-> {}]

\* get_face_id: the lowest clear bit, where the code returns -1 if none is.
FreeSlots(info) == Slots \ info.index

\* Slip (for ImplementsFaceDB): take the count of faces for the next slot.
slip_get_face_id(info) == info.number

get_face_id(info) ==
  CHOOSE s \in FreeSlots(info) : \A t \in FreeSlots(info) : s <= t

\* flash_get_face_info returns 0: the record's index word is its slot.
flash_get_face_info(r, s) == r[s] # Dirty

\* flash_isall_have_ir, as written: 0 at once for a readable rgb-only face,
\* otherwise 1 if some record was unreadable.
RgbOnly(info, r) ==
  {s \in info.index : flash_get_face_info(r, s) /\ r[s].stat = 0}

Unreadable(info, r) == {s \in info.index : ~flash_get_face_info(r, s)}

flash_isall_have_ir(info, r) ==
  IF RgbOnly(info, r) = {} /\ Unreadable(info, r) # {} THEN 1 ELSE 0

\* flash_init_uid_table(0): the uid field of every record, used or not.
UidOf(r, s) == IF r[s] = Dirty THEN NoUid ELSE r[s].uid

\* flash_get_id_by_uid: the lowest used slot with this uid in uid_table, as
\* a set that is empty where the code returns 0.
flash_get_id_by_uid(u) ==
  LET hits == {s \in g_face_save_info.index : uid_table[s] = u}
  IN  {s \in hits : \A t \in hits : s <= t}

\* flash_get_saved_feature_sha256: 0 error, otherwise 1, also with no face.
flash_get_saved_feature_sha256(info, r) ==
  IF \E s \in info.index : ~flash_get_face_info(r, s) \/ r[s].stat = 1 THEN 0 ELSE 1

-----------------------------------------------------------------------------
(* Power                                                                   *)

\* The header page is blank, as shipped, or carries a table, whose records may
\* be damaged and whose number field need not agree with its bits.
Init ==
  /\ chip = FALSE
  /\ head \in Headers /\ (~head.hdr => head = Empty(FALSE))
  /\ rec \in [Slots -> Faces \cup {Dirty}]
  /\ g_face_save_info = Empty(FALSE)
  /\ uid_table = [s \in Slots |-> NoUid]
  /\ flash_all_face_have_ir_fea = 0
  /\ pc = "off"
  /\ cur = [slot |-> 0, face |-> Dirty]

\* flash_init reads ids it does not know and returns before reading a page; it
\* tells nobody, and the device goes on with an empty table, whatever flash holds.
BootUnknownChip ==
  /\ pc = "off"
  /\ chip' = FALSE
  /\ pc' = "idle"
  /\ UNCHANGED <<flashVars, ramVars, cur>>

\* flash_init with a good header: number is recounted, in RAM only.
BootHeaderOk ==
  /\ pc = "off" /\ head.hdr
  /\ chip' = TRUE
  /\ g_face_save_info' = [head EXCEPT !.number = Cardinality(head.index)]
  /\ uid_table' = [s \in Slots |-> UidOf(rec, s)]
  /\ flash_all_face_have_ir_fea' = flash_isall_have_ir(head, rec)
  /\ pc' = "idle"
  /\ UNCHANGED <<flashVars, cur>>

\* flash_init without one: an empty table, whose header page is to be written.
BootNoHeader ==
  /\ pc = "off" /\ ~head.hdr
  /\ chip' = TRUE
  /\ g_face_save_info' = Empty(TRUE)
  /\ pc' = "write_init"
  /\ UNCHANGED <<flashVars, uid_table, flash_all_face_have_ir_fea, cur>>

WriteInit ==
  /\ pc = "write_init"
  /\ head' = g_face_save_info
  /\ uid_table' = [s \in Slots |-> NoUid]
  /\ flash_all_face_have_ir_fea' = flash_isall_have_ir(g_face_save_info, rec)
  /\ pc' = "idle"
  /\ UNCHANGED <<chip, rec, g_face_save_info, cur>>

\* A power cut or a reset, with a write possibly under way.
TornHeader ==
  /\ pc \in {"write_init", "write_save", "write_delete", "write_all"}
  /\ head' \in {head, g_face_save_info, Blank(head)}
  /\ UNCHANGED rec

TornRecord ==
  /\ pc = "write_record"
  /\ \E r \in Faces \cup {Dirty}, erased \in SUBSET {t \in Slots : SameSector(t, cur.slot)} :
       rec' = [t \in Slots |-> IF t = cur.slot THEN r
                              ELSE IF t \in erased THEN Dirty ELSE rec[t]]
  /\ UNCHANGED head

PowerCut ==
  /\ pc # "off"
  /\ TornHeader \/ TornRecord \/ (pc = "idle" /\ UNCHANGED flashVars)
  /\ g_face_save_info' = Empty(FALSE)
  /\ uid_table' = [s \in Slots |-> NoUid]
  /\ flash_all_face_have_ir_fea' = 0
  /\ pc' = "off"
  /\ cur' = [slot |-> 0, face |-> Dirty]
  /\ UNCHANGED chip

-----------------------------------------------------------------------------
(* flash_save_face_info                                                    *)

\* Slip (for LookupMatchesFlash): the uid goes into the record only.
SlipSaveForgetsUidTable(f) ==
  /\ pc = "idle"
  /\ FreeSlots(g_face_save_info) # {}
  /\ cur' = [slot |-> get_face_id(g_face_save_info), face |-> f]
  /\ pc' = "write_record"
  /\ UNCHANGED <<chip, flashVars, ramVars>>

\* Choose the slot, fill uid_table and the record to be written.
Save(f) ==
  /\ pc = "idle"
  /\ FreeSlots(g_face_save_info) # {}      \* get_face_id err: nothing changes
  /\ LET s == get_face_id(g_face_save_info)
     IN  /\ uid_table' = [uid_table EXCEPT ![s] = f.uid]
         /\ cur' = [slot |-> s, face |-> f]
  /\ pc' = "write_record"
  /\ UNCHANGED <<chip, flashVars, g_face_save_info, flash_all_face_have_ir_fea>>

\* The record goes first; then the RAM header counts it.
WriteRecord ==
  /\ pc = "write_record"
  /\ rec' = [rec EXCEPT ![cur.slot] = cur.face]
  /\ g_face_save_info' = [g_face_save_info EXCEPT !.number = @ + 1,
                                                  !.index = @ \cup {cur.slot}]
  /\ pc' = "write_save"
  /\ UNCHANGED <<chip, head, uid_table, flash_all_face_have_ir_fea, cur>>

WriteSave ==
  /\ pc = "write_save"
  /\ head' = g_face_save_info
  /\ flash_all_face_have_ir_fea' = flash_isall_have_ir(g_face_save_info, rec)
  /\ pc' = "idle"
  /\ UNCHANGED <<chip, rec, g_face_save_info, uid_table, cur>>

-----------------------------------------------------------------------------
(* flash_delete_face_info, flash_delete_face_all                           *)

\* The id comes from flash_get_id_by_uid, the one way the protocol has to
\* name a face; number = 0 makes the code return at once.
Delete(u) ==
  /\ pc = "idle"
  /\ g_face_save_info.number # 0
  /\ \E s \in flash_get_id_by_uid(u) :
       /\ g_face_save_info' = [g_face_save_info EXCEPT !.number = @ - 1,
                                                       !.index = @ \ {s}]
       /\ cur' = [slot |-> s, face |-> Dirty]
  /\ pc' = "write_delete"
  /\ UNCHANGED <<chip, flashVars, uid_table, flash_all_face_have_ir_fea>>

\* Slip (for RamMirrorsFlash): the face is deleted in RAM only.
SlipDeleteInRamOnly ==
  /\ pc = "write_delete"
  /\ uid_table' = [uid_table EXCEPT ![cur.slot] = NoUid]
  /\ pc' = "idle"
  /\ UNCHANGED <<chip, flashVars, g_face_save_info, flash_all_face_have_ir_fea, cur>>

WriteDelete ==
  /\ pc = "write_delete"
  /\ head' = g_face_save_info
  /\ uid_table' = [uid_table EXCEPT ![cur.slot] = NoUid]
  /\ pc' = "idle"
  /\ UNCHANGED <<chip, rec, g_face_save_info, flash_all_face_have_ir_fea, cur>>

DeleteAll ==
  /\ pc = "idle"
  /\ g_face_save_info' = Empty(g_face_save_info.hdr)
  /\ pc' = "write_all"
  /\ UNCHANGED <<chip, flashVars, uid_table, flash_all_face_have_ir_fea, cur>>

WriteAll ==
  /\ pc = "write_all"
  /\ head' = g_face_save_info
  /\ uid_table' = [s \in Slots |-> NoUid]
  /\ pc' = "idle"
  /\ UNCHANGED <<chip, rec, g_face_save_info, flash_all_face_have_ir_fea, cur>>

-----------------------------------------------------------------------------
Next ==
  \/ BootUnknownChip \/ BootHeaderOk \/ BootNoHeader \/ PowerCut
  \/ WriteInit \/ WriteRecord \/ WriteSave \/ WriteDelete \/ WriteAll
  \/ \E f \in Faces : Save(f)
  \/ \E u \in Uids : Delete(u)
  \/ DeleteAll

Spec == Init /\ [][Next]_vars

-----------------------------------------------------------------------------
(* Properties                                                              *)

\* The type invariant.
TypeOK ==
  /\ chip \in BOOLEAN
  /\ head \in Headers
  /\ rec \in [Slots -> Faces \cup {Dirty}]
  /\ g_face_save_info \in Headers
  /\ uid_table \in [Slots -> Uids \cup {NoUid}]
  /\ flash_all_face_have_ir_fea \in 0 .. 1
  /\ pc \in {"off", "idle", "write_init", "write_record", "write_save",
            "write_delete", "write_all"}
  /\ cur \in [slot : Slots, face : Faces \cup {Dirty}]

\* Between calls the RAM bitmap is the one a reboot would read back, and
\* number, which the code only increments and decrements, counts its bits
\* (so flash_delete_face_info's "no pic" test and the count that the protocol
\* reports are right): flash.c 109-180 against flash_init 309-348.
RamMirrorsFlash ==
  pc = "idle" =>
    /\ g_face_save_info.number = Cardinality(g_face_save_info.index)
    /\ chip => /\ g_face_save_info.hdr /\ head.hdr
               /\ g_face_save_info.index = head.index

\* The answer to a uid query, which the code takes from uid_table, is the one
\* a scan of the flash records would give: uid_table follows every save,
\* delete and reboot, whatever was interrupted before (flash.c 90-107).
LookupMatchesFlash ==
  pc = "idle" /\ chip =>
    \A u \in Uids :
      LET hits == {s \in head.index : UidOf(rec, s) = u}
      IN  flash_get_id_by_uid(u) = {s \in hits : \A t \in hits : s <= t}

\* The table a reboot would load, as FaceDB sees it.
Stored ==
  [s \in Slots |-> IF head.hdr /\ s \in head.index THEN rec[s] ELSE None]

DB == INSTANCE FaceDB WITH db <- Stored, Damaged <- Dirty

\* Whatever the power does, what a reboot would load changes only by whole
\* operations of FaceDB: no bit of the header page ever names a record that
\* was not written completely first (the write order of flash.c 171-174), no
\* operation touches another face's slot, no lost or repeated step shows.  This
\* holds of the runs that knew the chip: one that did not writes record 0 over
\* the face there, and then a header page that no start will believe (303-307).
ImplementsFaceDB == DB!Init /\ [][chip => DB!Next]_Stored

\* What the comment "check is all face have ir feature" (flash.c 176 and 351)
\* says of the flag it sets: with faces stored, and an ir feature in every one
\* of them, the flag is set.
AllHaveIr(info, r) ==
  info.index # {} /\ \A s \in info.index : r[s] # Dirty /\ r[s].stat # 0

IrFlagAsCommented ==
  [][BootHeaderOk \/ WriteSave =>
       (AllHaveIr(g_face_save_info', rec') => flash_all_face_have_ir_fea' = 1)]_vars

\* What the comment above flash_get_saved_feature_sha256 (flash.c 357-359,
\* "2 no feature store") says of its result when no face is stored.
ShaCodeAsCommented ==
  pc = "idle" /\ g_face_save_info.index = {} =>
    flash_get_saved_feature_sha256(g_face_save_info, rec) = 2
=============================================================================
