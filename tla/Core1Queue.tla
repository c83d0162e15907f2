----------------------------- MODULE Core1Queue -----------------------------
(***************************************************************************)
(* The two cores of MF1 around q_core1 (src/core1.c).                      *)
(*                                                                         *)
(* Core 0 (send_jpeg_to_core1, called for every frame by lcd_convert_cb)   *)
(* compresses it, gives up if ten wait already, puts it into three heap    *)
(* blocks and queues the task under a spinlock.  Core 1 (core1_function)   *)
(* takes a task under the same lock, sends its bytes and frees the blocks. *)
(* The count that core 0 looks at first is read without the lock.          *)
(*                                                                         *)
(* External: the queue library (q_init with room for Capacity, first in    *)
(* first out, no overwriting): its records and its counter are two pieces  *)
(* of memory, so a push or a pop is two steps that another core could get  *)
(* between, if the lock let it.  malloc may fail at any time.              *)
(*                                                                         *)
(* A task is a handle; blocks[t] says which of its three blocks are        *)
(* allocated.  Definitions named Slip... are not the code but mistakes one *)
(* could make.                                                             *)
(***************************************************************************)
EXTENDS Naturals, Sequences

CONSTANTS
  Pictures,
  Tasks,            \* what malloc may return for a task
  NoTask,           \* NULL
  Capacity,         \* records of the queue: 10 in main.c
  PicLen            \* bound: bytes of a picture

ASSUME CapacityAssumption == Capacity \in Nat \ {0}
ASSUME PicLenAssumption == PicLen \in Nat \ {0}
ASSUME NoTaskAssumption == NoTask \notin Tasks

Parts == {"task", "upload", "jpeg"}    \* net_task_t, upload_face_pic_t, jpeg_addr

VARIABLES
  lock,             \* q_core1_lock: "free" or its holder
  ring, cnt,        \* q_core1: the records and the counter
  blocks, picture,  \* the heap: allocated parts and contents of each task
  pc0, jpeg_buf, task0, reg0, queue_stat,          \* core 0
  pc1, task1, reg1, have_pic, sent                 \* core 1

core0 == <<pc0, jpeg_buf, task0, reg0, queue_stat>>
core1 == <<pc1, task1, reg1, have_pic, sent>>
vars  == <<lock, ring, cnt, blocks, picture, core0, core1>>

Queued == {ring[i] : i \in 1 .. Len(ring)}

-----------------------------------------------------------------------------
(* Core 0: send_jpeg_to_core1                                              *)

\* jpeg_compress into the static jpeg_buf (if it fails nothing else happens).
Encode(p) ==
  /\ pc0 = "idle"
  /\ jpeg_buf' = p
  /\ pc0' = "count"
  /\ UNCHANGED <<lock, ring, cnt, blocks, picture, task0, reg0, queue_stat, core1>>

SlipCheckCount ==                        \* room for one more than there is
  /\ pc0 = "count"
  /\ pc0' = IF cnt > Capacity THEN "idle" ELSE "malloc_task"
  /\ UNCHANGED <<lock, ring, cnt, blocks, picture, jpeg_buf, task0, reg0, queue_stat, core1>>

\* q_getCount without the lock: too many wait, drop this one.
CheckCount ==
  /\ pc0 = "count"
  /\ pc0' = IF cnt >= Capacity THEN "idle" ELSE "malloc_task"
  /\ UNCHANGED <<lock, ring, cnt, blocks, picture, jpeg_buf, task0, reg0, queue_stat, core1>>

MallocTask ==
  /\ pc0 = "malloc_task"
  /\ \/ /\ pc0' = "idle"
        /\ UNCHANGED <<task0, blocks>>
     \/ \E t \in Tasks :
          /\ blocks[t] = {}
          /\ task0' = t
          /\ blocks' = [blocks EXCEPT ![t] = {"task"}]
          /\ pc0' = "malloc_upload"
  /\ UNCHANGED <<lock, ring, cnt, picture, jpeg_buf, reg0, queue_stat, core1>>

MallocUpload ==
  /\ pc0 = "malloc_upload"
  /\ \/ /\ blocks' = [blocks EXCEPT ![task0] = {}]
        /\ task0' = NoTask
        /\ pc0' = "idle"
     \/ /\ blocks' = [blocks EXCEPT ![task0] = @ \cup {"upload"}]
        /\ pc0' = "malloc_jpeg"
        /\ UNCHANGED task0
  /\ UNCHANGED <<lock, ring, cnt, picture, jpeg_buf, reg0, queue_stat, core1>>

SlipMallocJpeg ==                        \* the task is forgotten in the error path
  /\ pc0 = "malloc_jpeg"
  /\ \/ /\ blocks' = [blocks EXCEPT ![task0] = @ \ {"upload"}]
        /\ task0' = NoTask
        /\ pc0' = "idle"
        /\ UNCHANGED picture
     \/ /\ blocks' = [blocks EXCEPT ![task0] = @ \cup {"jpeg"}]
        /\ picture' = [picture EXCEPT ![task0] = jpeg_buf]
        /\ pc0' = "lock"
        /\ UNCHANGED task0
  /\ UNCHANGED <<lock, ring, cnt, jpeg_buf, reg0, queue_stat, core1>>

\* With the memcpy of the picture.
MallocJpeg ==
  /\ pc0 = "malloc_jpeg"
  /\ \/ /\ blocks' = [blocks EXCEPT ![task0] = @ \ {"upload", "task"}]
        /\ task0' = NoTask
        /\ pc0' = "idle"
        /\ UNCHANGED picture
     \/ /\ blocks' = [blocks EXCEPT ![task0] = @ \cup {"jpeg"}]
        /\ picture' = [picture EXCEPT ![task0] = jpeg_buf]
        /\ pc0' = "lock"
        /\ UNCHANGED task0
  /\ UNCHANGED <<lock, ring, cnt, jpeg_buf, reg0, queue_stat, core1>>

SlipLock0 ==                             \* the lock is not waited for
  /\ pc0 = "lock"
  /\ lock' = "core0"
  /\ pc0' = "push"
  /\ UNCHANGED <<ring, cnt, blocks, picture, jpeg_buf, task0, reg0, queue_stat, core1>>

Lock0 ==
  /\ pc0 = "lock" /\ lock = "free"
  /\ lock' = "core0"
  /\ pc0' = "push"
  /\ UNCHANGED <<ring, cnt, blocks, picture, jpeg_buf, task0, reg0, queue_stat, core1>>

\* q_push: refused when full, else the record and then the counter.
PushRecord ==
  /\ pc0 = "push"
  /\ queue_stat' = (cnt < Capacity)
  /\ IF cnt < Capacity
     THEN /\ ring' = Append(ring, task0)
          /\ reg0' = cnt
          /\ pc0' = "pushcount"
     ELSE /\ pc0' = "unlock"
          /\ UNCHANGED <<ring, reg0>>
  /\ UNCHANGED <<lock, cnt, blocks, picture, jpeg_buf, task0, core1>>

PushCount ==
  /\ pc0 = "pushcount"
  /\ cnt' = reg0 + 1
  /\ pc0' = "unlock"
  /\ UNCHANGED <<lock, ring, blocks, picture, jpeg_buf, task0, reg0, queue_stat, core1>>

\* What could not be queued is freed.
Unlock0 ==
  /\ pc0 = "unlock"
  /\ lock' = "free"
  /\ blocks' = IF queue_stat THEN blocks ELSE [blocks EXCEPT ![task0] = {}]
  /\ task0' = NoTask
  /\ pc0' = "idle"
  /\ UNCHANGED <<ring, cnt, picture, jpeg_buf, reg0, queue_stat, core1>>

-----------------------------------------------------------------------------
(* Core 1: core1_function                                                  *)

Lock1 ==
  /\ pc1 = "lock" /\ lock = "free"
  /\ lock' = "core1"
  /\ pc1' = "pop"
  /\ UNCHANGED <<ring, cnt, blocks, picture, core0, task1, reg1, have_pic, sent>>

\* if (!q_isEmpty) q_pop: the oldest record, then the counter.
SlipPopRecord ==                         \* the newest record
  /\ pc1 = "pop"
  /\ IF cnt = 0
     THEN /\ pc1' = "unlock"
          /\ UNCHANGED <<ring, task1, reg1>>
     ELSE /\ task1' = ring[Len(ring)]
          /\ ring' = SubSeq(ring, 1, Len(ring) - 1)
          /\ reg1' = cnt
          /\ pc1' = "popcount"
  /\ UNCHANGED <<lock, cnt, blocks, picture, core0, have_pic, sent>>

PopRecord ==
  /\ pc1 = "pop"
  /\ IF cnt = 0
     THEN /\ pc1' = "unlock"
          /\ UNCHANGED <<ring, task1, reg1>>
     ELSE /\ task1' = Head(ring)
          /\ ring' = Tail(ring)
          /\ reg1' = cnt
          /\ pc1' = "popcount"
  /\ UNCHANGED <<lock, cnt, blocks, picture, core0, have_pic, sent>>

PopCount ==
  /\ pc1 = "popcount"
  /\ cnt' = reg1 - 1
  /\ have_pic' = TRUE
  /\ pc1' = "unlock"
  /\ UNCHANGED <<lock, ring, blocks, picture, core0, task1, reg1, sent>>

\* Unlock; with a picture start sending it, else look again.
Unlock1 ==
  /\ pc1 = "unlock"
  /\ lock' = "free"
  /\ pc1' = IF have_pic THEN "send" ELSE "lock"
  /\ have_pic' = FALSE
  /\ sent' = 0
  /\ UNCHANGED <<ring, cnt, blocks, picture, core0, task1, reg1>>

SlipSendByte ==                          \* the last byte is never reached
  /\ pc1 = "send"
  /\ sent' = IF sent + 1 < PicLen THEN sent + 1 ELSE sent
  /\ pc1' = "send"
  /\ UNCHANGED <<lock, ring, cnt, blocks, picture, core0, task1, reg1, have_pic>>

\* while (sent < total) one byte more.
SendByte ==
  /\ pc1 = "send"
  /\ sent' = sent + 1
  /\ pc1' = IF sent' < PicLen THEN "send" ELSE "free"
  /\ UNCHANGED <<lock, ring, cnt, blocks, picture, core0, task1, reg1, have_pic>>

FreeTask ==
  /\ pc1 = "free"
  /\ blocks' = [blocks EXCEPT ![task1] = @ \ Parts]
  /\ task1' = NoTask
  /\ pc1' = "lock"
  /\ UNCHANGED <<lock, ring, cnt, picture, core0, reg1, have_pic, sent>>

-----------------------------------------------------------------------------
Init ==
  /\ lock = "free" /\ ring = <<>> /\ cnt = 0
  /\ blocks = [t \in Tasks |-> {}]
  /\ picture \in [Tasks -> Pictures]     \* the heap's contents at the start
  /\ jpeg_buf \in Pictures
  /\ pc0 = "idle" /\ task0 = NoTask /\ reg0 = 0 /\ queue_stat = FALSE
  /\ pc1 = "lock" /\ task1 = NoTask /\ reg1 = 0 /\ have_pic = FALSE /\ sent = 0

Core0Holding == PushRecord \/ PushCount \/ Unlock0
Core0 ==
  \/ \E p \in Pictures : Encode(p)
  \/ CheckCount \/ MallocTask \/ MallocUpload \/ MallocJpeg \/ Lock0 \/ Core0Holding

Core1Running == PopRecord \/ PopCount \/ Unlock1 \/ SendByte \/ FreeTask
Core1 == Lock1 \/ Core1Running

Next == Core0 \/ Core1
Spec == Init /\ [][Next]_vars

\* A core that runs goes on running, and core 1, which spins on the lock, gets it
\* if it is free again and again: core 0 holds it for one push and then has a
\* whole frame to run and to compress before it asks for it once more.
FairSpec ==
  /\ Spec
  /\ WF_vars(Core0Holding)
  /\ WF_vars(Core1Running) /\ SF_vars(Lock1)

-----------------------------------------------------------------------------
(* Properties                                                              *)

\* The program counters at which a core holds a task.
HasTask0 == {"malloc_upload", "malloc_jpeg", "lock", "push", "pushcount", "unlock"}
HasTask1 == {"popcount", "unlock", "send", "free"}

\* Every variable has its type; a core that works on a task has one; the counter
\* and the bytes sent stay within the queue and the picture.
TypeOK ==
  /\ lock \in {"free", "core0", "core1"}
  /\ ring \in Seq(Tasks) /\ cnt \in 0 .. Capacity
  /\ blocks \in [Tasks -> SUBSET Parts] /\ picture \in [Tasks -> Pictures]
  /\ pc0 \in {"idle", "count", "malloc_task"} \cup HasTask0
  /\ pc1 \in {"lock", "pop"} \cup HasTask1
  /\ task0 \in Tasks \cup {NoTask} /\ task1 \in Tasks \cup {NoTask}
  /\ pc0 \in HasTask0 => task0 \in Tasks
  /\ pc1 \in {"popcount", "send", "free"} => task1 \in Tasks
  /\ queue_stat \in BOOLEAN /\ have_pic \in BOOLEAN
  /\ jpeg_buf \in Pictures
  /\ reg0 \in 0 .. Capacity /\ reg1 \in 0 .. Capacity /\ sent \in 0 .. PicLen

\* A picture that passed the unlocked look at the counter always finds room in the
\* queue: nobody else pushes, and core 1 only makes room.
PushNeverRefused == pc0 = "unlock" => queue_stat

\* Whenever neither core is inside the lock the counter is the number of records.
CountIsRecords == lock = "free" => cnt = Len(ring)

\* The blocks a task should have: all of them while it waits in the queue or core 1
\* works on it, as many as malloc gave while core 0 builds it, else none.
Due(t) ==
  IF t \in Queued \/ (t = task1 /\ pc1 \in {"popcount", "unlock", "send", "free"})
  THEN Parts
  ELSE IF t # task0 THEN {}
  ELSE IF pc0 = "malloc_upload" THEN {"task"}
  ELSE IF pc0 = "malloc_jpeg" THEN {"task", "upload"}
  ELSE Parts

\* No block leaks on any of the error paths, and no block is freed while a core or
\* the queue still points to it.
BlocksAccountedFor == \A t \in Tasks : blocks[t] = Due(t)

\* The line of pictures as core 0 and the receiver of the bytes see it.  A picture
\* is in it once its push has counted and until its last byte is sent.
InHand   == IF pc1 \in {"popcount", "send"} \/ (pc1 = "unlock" /\ have_pic) THEN 1 ELSE 0
Waiting  == IF pc0 = "pushcount" THEN Len(ring) - 1 ELSE Len(ring)
Order(i) == IF i = InHand THEN task1 ELSE ring[i - InHand]
Line     == [i \in 1 .. InHand + Waiting |-> picture[Order(i)]]

Queue == INSTANCE PictureQueue WITH pending <- Line

\* The two cores together are a bounded first-in first-out line: no picture is lost,
\* sent twice, sent in the wrong order or overwritten while it waits.
ImplementsPictureQueue == Queue!Spec

\* A picture that was queued is sent and its memory returned in the end.
QueuedEventuallyFreed == \A t \in Tasks : t \in Queued ~> blocks[t] = {}
=============================================================================
