-------------------------- MODULE Core1QueueProofs --------------------------
(***************************************************************************)
(* Proofs about Core1Queue for every capacity, number of tasks, length of  *)
(* picture and set of pictures.                                            *)
(***************************************************************************)
EXTENDS Core1Queue, SequenceTheorems, TLAPS

\* Each core is inside the lock exactly at its program counters between taking it
\* and giving it back.
LockHeld ==
  /\ lock = "core0" <=> pc0 \in {"push", "pushcount", "unlock"}
  /\ lock = "core1" <=> pc1 \in {"pop", "popcount", "unlock"}

\* How the counter and the records differ in the middle of a push and of a pop, and
\* a picture being sent has bytes left.
CountInv ==
  /\ pc0 = "pushcount" => Len(ring) = cnt + 1 /\ reg0 = cnt
  /\ pc1 = "popcount"  => cnt = Len(ring) + 1 /\ reg1 = cnt
  /\ pc0 # "pushcount" /\ pc1 # "popcount" => cnt = Len(ring)
  /\ pc1 = "send" => sent < PicLen

\* Room seen before the first malloc is still there at the push.
RoomInv ==
  /\ pc0 \in {"malloc_task", "malloc_upload", "malloc_jpeg", "lock", "push", "pushcount"}
       => cnt < Capacity
  /\ pc0 \in {"pushcount", "unlock"} => queue_stat

\* A task is at one place only: being built by core 0, once in the queue, or in the
\* hands of core 1.
PlaceInv ==
  /\ \A i, j \in 1 .. Len(ring) : ring[i] = ring[j] => i = j
  /\ task1 \notin Queued
  /\ pc0 \notin HasTask0 => task0 = NoTask
  /\ pc0 \in {"malloc_upload", "malloc_jpeg", "lock", "push"} =>
       task0 \notin Queued /\ task0 # task1
  /\ pc0 = "pushcount" => task0 = ring[Len(ring)]
  /\ pc0 = "unlock" => task0 \in Queued
  /\ pc1 \in {"lock", "pop"} => task1 = NoTask
  /\ pc1 = "unlock" => (have_pic <=> task1 # NoTask)
  /\ have_pic => pc1 = "unlock"

IInv == TypeOK /\ LockHeld /\ CountInv /\ RoomInv /\ PlaceInv /\ BlocksAccountedFor

-----------------------------------------------------------------------------
(* What a push and a pop do to the set of queued tasks                     *)

\* A push adds one task.
LEMMA QueuedAppend ==
  ASSUME NEW s \in Seq(Tasks), NEW t \in Tasks
  PROVE  /\ Append(s, t) \in Seq(Tasks)
         /\ Len(Append(s, t)) = Len(s) + 1
         /\ \A i \in 1 .. Len(s) : Append(s, t)[i] = s[i]
         /\ Append(s, t)[Len(s) + 1] = t
         /\ {Append(s, t)[i] : i \in 1 .. Len(Append(s, t))}
              = {s[i] : i \in 1 .. Len(s)} \cup {t}
<1> DEFINE a == Append(s, t)
<1>1. /\ a \in Seq(Tasks) /\ Len(a) = Len(s) + 1 /\ Len(s) \in Nat
      /\ \A i \in 1 .. Len(s) : a[i] = s[i]
      /\ a[Len(s) + 1] = t
  OBVIOUS
<1>2. {a[i] : i \in 1 .. Len(a)} = {s[i] : i \in 1 .. Len(s)} \cup {t}
  <2> HIDE DEF a
  <2>1. \A i \in 1 .. Len(a) : i \in 1 .. Len(s) \/ i = Len(s) + 1
    BY <1>1
  <2>2. Len(s) + 1 \in 1 .. Len(a) /\ \A i \in 1 .. Len(s) : i \in 1 .. Len(a)
    BY <1>1
  <2> QED BY <1>1, <2>1, <2>2
<1> QED BY <1>1, <1>2

\* A pop takes the first task, which is queued nowhere else.
LEMMA QueuedTail ==
  ASSUME NEW s \in Seq(Tasks), s # <<>>,
         \A i, j \in 1 .. Len(s) : s[i] = s[j] => i = j
  PROVE  /\ Tail(s) \in Seq(Tasks) /\ Head(s) \in Tasks /\ Head(s) = s[1]
         /\ Len(s) = Len(Tail(s)) + 1 /\ Len(Tail(s)) \in Nat
         /\ \A i \in 1 .. Len(Tail(s)) : Tail(s)[i] = s[i + 1]
         /\ {s[i] : i \in 1 .. Len(s)}
              = {Tail(s)[i] : i \in 1 .. Len(Tail(s))} \cup {Head(s)}
         /\ Head(s) \notin {Tail(s)[i] : i \in 1 .. Len(Tail(s))}
         /\ \A i, j \in 1 .. Len(Tail(s)) : Tail(s)[i] = Tail(s)[j] => i = j
<1> DEFINE a == Tail(s)
<1>1. /\ a \in Seq(Tasks) /\ Head(s) \in Tasks /\ Head(s) = s[1]
      /\ Len(s) = Len(a) + 1 /\ Len(a) \in Nat
      /\ \A i \in 1 .. Len(a) : a[i] = s[i + 1]
  OBVIOUS
<1>h. HIDE DEF a
<1>2. \A i \in 1 .. Len(a) : i + 1 \in 1 .. Len(s) /\ i + 1 # 1
  BY <1>1
<1>3. 1 \in 1 .. Len(s) /\ \A i \in 1 .. Len(s) : i = 1 \/ (i - 1 \in 1 .. Len(a) /\ s[i] = a[i - 1])
  BY <1>1
<1>4. {s[i] : i \in 1 .. Len(s)} = {a[i] : i \in 1 .. Len(a)} \cup {Head(s)}
  <2>1. ASSUME NEW i \in 1 .. Len(s)
        PROVE  s[i] \in {a[k] : k \in 1 .. Len(a)} \cup {Head(s)}
    <3>1. CASE i = 1
      BY <1>1, <3>1
    <3>2. CASE i - 1 \in 1 .. Len(a) /\ s[i] = a[i - 1]
      BY <3>2
    <3> QED BY <1>3, <3>1, <3>2
  <2>2. ASSUME NEW i \in 1 .. Len(a)
        PROVE  a[i] \in {s[k] : k \in 1 .. Len(s)}
    BY <1>1, <1>2
  <2>3. Head(s) \in {s[k] : k \in 1 .. Len(s)}
    BY <1>1, <1>3
  <2> QED BY <2>1, <2>2, <2>3
<1>5. Head(s) \notin {a[i] : i \in 1 .. Len(a)}
  BY <1>1, <1>2, <1>3
<1>6. \A i, j \in 1 .. Len(a) : a[i] = a[j] => i = j
  <2> TAKE i, j \in 1 .. Len(a)
  <2> HAVE a[i] = a[j]
  <2>1. i + 1 = j + 1
    BY <1>1, <1>2
  <2> QED BY <2>1
<1> QED BY <1>1, <1>4, <1>5, <1>6 DEF a

-----------------------------------------------------------------------------
(* The invariant                                                           *)

\* The initial states satisfy the invariant.
LEMMA InitInv == Init => IInv
<1> SUFFICES ASSUME Init PROVE IInv
  OBVIOUS
<1>1. ring \in Seq(Tasks) /\ Len(ring) = 0 /\ Queued = {}
  BY DEF Init, Queued
<1>2. TypeOK
  <2>1. 0 \in 0 .. Capacity /\ 0 \in 0 .. PicLen
    BY CapacityAssumption, PicLenAssumption
  <2>2. blocks \in [Tasks -> SUBSET Parts] /\ picture \in [Tasks -> Pictures]
    BY DEF Init
  <2> QED BY <1>1, <2>1, <2>2 DEF Init, TypeOK, HasTask0, HasTask1
<1>3. LockHeld /\ CountInv /\ RoomInv
  BY <1>1, PicLenAssumption DEF Init, LockHeld, CountInv, RoomInv
<1>4. PlaceInv
  BY <1>1 DEF Init, PlaceInv, HasTask0
<1>5. BlocksAccountedFor
  BY <1>1, NoTaskAssumption DEF Init, BlocksAccountedFor, Due
<1> QED BY <1>2, <1>3, <1>4, <1>5 DEF IInv

\* What core 0 does before it holds the lock.
LEMMA BuildInv ==
  ASSUME IInv,
         \/ \E p \in Pictures : Encode(p)
         \/ CheckCount \/ MallocTask \/ MallocUpload \/ MallocJpeg
  PROVE  IInv'
<1>0. Queued' = Queued /\ UNCHANGED <<lock, ring, cnt, pc1, task1, reg1, have_pic, sent>>
  BY DEF Encode, CheckCount, MallocTask, MallocUpload, MallocJpeg, core1, Queued
<1>1. CASE \E p \in Pictures : Encode(p)
  <2>1. TypeOK'
    BY <1>0, <1>1 DEF IInv, TypeOK, Encode, HasTask0, HasTask1
  <2> QED
    BY <1>0, <1>1, <2>1 DEF IInv, TypeOK, LockHeld, CountInv, RoomInv, PlaceInv,
       BlocksAccountedFor, Due, Encode, HasTask0
<1>2. CASE CheckCount
  <2>1. TypeOK'
    BY <1>0, <1>2 DEF IInv, TypeOK, CheckCount, HasTask0, HasTask1
  <2>2. RoomInv'
    BY <1>0, <1>2, CapacityAssumption DEF IInv, TypeOK, RoomInv, CheckCount
  <2> QED
    BY <1>0, <1>2, <2>1, <2>2 DEF IInv, LockHeld, CountInv, PlaceInv,
       BlocksAccountedFor, Due, CheckCount, HasTask0
<1>3. CASE MallocTask
  <2>1. TypeOK'
    BY <1>0, <1>3 DEF IInv, TypeOK, MallocTask, HasTask0, HasTask1, Parts
  <2>2. LockHeld' /\ CountInv' /\ RoomInv'
    BY <1>0, <1>3 DEF IInv, LockHeld, CountInv, RoomInv, MallocTask
  <2>3. CASE UNCHANGED <<task0, blocks>>
    <3>1. /\ pc0 = "malloc_task" /\ task0 = NoTask
          /\ pc0' = "idle" \/ (pc0' = "malloc_upload" /\ task0' \in Tasks)
      BY <1>3 DEF IInv, PlaceInv, MallocTask, HasTask0
    <3>2. pc0' = "idle"
      BY <2>3, <3>1, NoTaskAssumption
    <3>3. PlaceInv'
      BY <1>0, <2>3, <3>1, <3>2 DEF IInv, PlaceInv, HasTask0
    <3>4. BlocksAccountedFor'
      BY <1>0, <2>3, <3>1, <3>2, NoTaskAssumption DEF IInv, BlocksAccountedFor, Due
    <3> QED BY <2>1, <2>2, <3>3, <3>4 DEF IInv
  <2>4. ASSUME NEW t \in Tasks, blocks[t] = {}, task0' = t,
               blocks' = [blocks EXCEPT ![t] = {"task"}], pc0' = "malloc_upload"
        PROVE  PlaceInv' /\ BlocksAccountedFor'
    <3>1. t \notin Queued /\ t # task1
      BY <2>4, NoTaskAssumption
         DEF IInv, TypeOK, PlaceInv, BlocksAccountedFor, Due, HasTask1, Parts
    <3>2. PlaceInv'
      BY <1>0, <2>4, <3>1 DEF IInv, PlaceInv, HasTask0
    <3>3. task0 = NoTask
      BY <1>3 DEF IInv, PlaceInv, MallocTask, HasTask0
    <3>4. ASSUME NEW u \in Tasks
          PROVE  blocks'[u] = Due(u)'
      <4>1. CASE u = t
        BY <1>0, <2>4, <3>1, <4>1 DEF IInv, TypeOK, Due
      <4>2. CASE u # t
        BY <1>0, <2>4, <3>3, <4>2, NoTaskAssumption DEF IInv, TypeOK, BlocksAccountedFor, Due
      <4> QED BY <4>1, <4>2
    <3> QED BY <3>2, <3>4 DEF BlocksAccountedFor
  <2> QED BY <1>3, <2>1, <2>2, <2>3, <2>4 DEF IInv, MallocTask
<1>4. CASE MallocUpload
  <2>1. TypeOK'
    BY <1>0, <1>4 DEF IInv, TypeOK, MallocUpload, HasTask0, HasTask1, Parts
  <2>2. LockHeld' /\ CountInv' /\ RoomInv'
    BY <1>0, <1>4 DEF IInv, LockHeld, CountInv, RoomInv, MallocUpload
  <2>3. PlaceInv'
    BY <1>0, <1>4 DEF IInv, PlaceInv, MallocUpload, HasTask0
  <2>4. ASSUME NEW t \in Tasks
        PROVE  blocks'[t] = Due(t)'
    <3>1. /\ pc0 = "malloc_upload" /\ task0 \in Tasks
          /\ task0 \notin Queued /\ task0 # task1
      BY <1>4 DEF IInv, TypeOK, PlaceInv, MallocUpload, HasTask0
    <3>2. blocks[task0] = {"task"}
      BY <3>1 DEF IInv, BlocksAccountedFor, Due
    <3>3. CASE t = task0
      BY <1>0, <1>4, <3>1, <3>2, <3>3, NoTaskAssumption DEF IInv, TypeOK, Due, MallocUpload, Parts
    <3>4. CASE t # task0
      BY <1>0, <1>4, <3>1, <3>4, NoTaskAssumption
         DEF IInv, TypeOK, BlocksAccountedFor, Due, MallocUpload
    <3> QED BY <3>3, <3>4
  <2> QED BY <2>1, <2>2, <2>3, <2>4 DEF IInv, BlocksAccountedFor
<1>5. CASE MallocJpeg
  <2>1. TypeOK'
    BY <1>0, <1>5 DEF IInv, TypeOK, MallocJpeg, HasTask0, HasTask1, Parts
  <2>2. LockHeld' /\ CountInv' /\ RoomInv'
    BY <1>0, <1>5 DEF IInv, LockHeld, CountInv, RoomInv, MallocJpeg
  <2>3. PlaceInv'
    BY <1>0, <1>5 DEF IInv, PlaceInv, MallocJpeg, HasTask0
  <2>4. ASSUME NEW t \in Tasks
        PROVE  blocks'[t] = Due(t)'
    <3>1. /\ pc0 = "malloc_jpeg" /\ task0 \in Tasks
          /\ task0 \notin Queued /\ task0 # task1
      BY <1>5 DEF IInv, TypeOK, PlaceInv, MallocJpeg, HasTask0
    <3>2. blocks[task0] = {"task", "upload"}
      BY <3>1 DEF IInv, BlocksAccountedFor, Due
    <3>3. CASE t = task0
      BY <1>0, <1>5, <3>1, <3>2, <3>3, NoTaskAssumption DEF IInv, TypeOK, Due, MallocJpeg, Parts
    <3>4. CASE t # task0
      BY <1>0, <1>5, <3>1, <3>4, NoTaskAssumption
         DEF IInv, TypeOK, BlocksAccountedFor, Due, MallocJpeg
    <3> QED BY <3>3, <3>4
  <2> QED BY <2>1, <2>2, <2>3, <2>4 DEF IInv, BlocksAccountedFor
<1> QED BY <1>1, <1>2, <1>3, <1>4, <1>5

\* Core 0 takes the lock, pushes, counts and gives the lock back.
LEMMA PushInv == IInv /\ (Lock0 \/ Core0Holding) => IInv'
<1> SUFFICES ASSUME IInv, Lock0 \/ Core0Holding PROVE IInv'
  OBVIOUS
<1>0. UNCHANGED <<picture, jpeg_buf, pc1, task1, reg1, have_pic, sent>>
  BY DEF Lock0, Core0Holding, PushRecord, PushCount, Unlock0, core1
<1>1. CASE Lock0
  <2>1. Queued' = Queued /\ UNCHANGED <<ring, cnt, blocks, task0, reg0, queue_stat>>
    BY <1>1 DEF Lock0, Queued
  <2>2. TypeOK'
    BY <1>0, <1>1, <2>1 DEF IInv, TypeOK, Lock0, HasTask0, HasTask1
  <2>3. LockHeld' /\ CountInv' /\ RoomInv'
    BY <1>0, <1>1, <2>1 DEF IInv, LockHeld, CountInv, RoomInv, Lock0
  <2>4. PlaceInv' /\ BlocksAccountedFor'
    BY <1>0, <1>1, <2>1 DEF IInv, PlaceInv, BlocksAccountedFor, Due, Lock0, HasTask0
  <2> QED BY <2>2, <2>3, <2>4 DEF IInv
<1>2. CASE PushRecord
  <2>1. /\ cnt < Capacity /\ ring' = Append(ring, task0) /\ reg0' = cnt
        /\ pc0 = "push" /\ pc0' = "pushcount" /\ queue_stat' = TRUE
        /\ UNCHANGED <<lock, cnt, blocks, task0>>
    BY <1>2 DEF IInv, RoomInv, PushRecord
  <2>2. /\ ring \in Seq(Tasks) /\ task0 \in Tasks /\ pc1 \notin {"pop", "popcount", "unlock"}
        /\ task0 \notin Queued /\ task0 # task1 /\ Len(ring) = cnt
    BY <2>1 DEF IInv, TypeOK, LockHeld, CountInv, PlaceInv, HasTask0
  <2>3. /\ ring' \in Seq(Tasks) /\ Len(ring') = Len(ring) + 1
        /\ \A i \in 1 .. Len(ring) : ring'[i] = ring[i]
        /\ ring'[Len(ring) + 1] = task0
        /\ Queued' = Queued \cup {task0}
    BY <2>1, <2>2, QueuedAppend DEF Queued
  <2>4. TypeOK'
    BY <1>0, <2>1, <2>3 DEF IInv, TypeOK, HasTask0, HasTask1
  <2>5. LockHeld' /\ CountInv' /\ RoomInv'
    BY <1>0, <2>1, <2>2, <2>3 DEF IInv, LockHeld, CountInv, RoomInv
  <2>6. \A i, j \in 1 .. Len(ring') : ring'[i] = ring'[j] => i = j
    <3>1. \A i \in 1 .. Len(ring') : i \in 1 .. Len(ring) \/ i = Len(ring) + 1
      BY <2>2, <2>3
    <3>2. \A i \in 1 .. Len(ring) : ring[i] # task0
      BY <2>2 DEF Queued
    <3> QED BY <2>3, <3>1, <3>2 DEF IInv, PlaceInv
  <2>7. PlaceInv'
    BY <1>0, <2>1, <2>2, <2>3, <2>6 DEF IInv, PlaceInv, HasTask0
  <2>8. BlocksAccountedFor'
    BY <1>0, <2>1, <2>2, <2>3 DEF IInv, BlocksAccountedFor, Due
  <2> QED BY <2>4, <2>5, <2>7, <2>8 DEF IInv
<1>3. CASE PushCount
  <2>1. /\ Queued' = Queued /\ UNCHANGED <<lock, ring, blocks, task0, reg0, queue_stat>>
        /\ pc0 = "pushcount" /\ pc0' = "unlock" /\ cnt' = reg0 + 1
    BY <1>3 DEF PushCount, Queued
  <2>2. /\ pc1 \notin {"pop", "popcount", "unlock"} /\ Len(ring) = cnt + 1 /\ reg0 = cnt
        /\ cnt \in Nat /\ cnt < Capacity /\ task0 = ring[Len(ring)]
    BY <2>1 DEF IInv, TypeOK, LockHeld, CountInv, RoomInv, PlaceInv
  <2>3. task0 \in Queued
    BY <2>2 DEF Queued
  <2>4. queue_stat
    BY <2>1 DEF IInv, RoomInv
  <2>5. TypeOK'
    BY <1>0, <2>1, <2>2, CapacityAssumption DEF IInv, TypeOK, HasTask0, HasTask1
  <2>6. LockHeld' /\ CountInv' /\ RoomInv'
    BY <1>0, <2>1, <2>2, <2>4 DEF IInv, LockHeld, CountInv, RoomInv
  <2>7. PlaceInv' /\ BlocksAccountedFor'
    BY <1>0, <2>1, <2>2, <2>3 DEF IInv, PlaceInv, BlocksAccountedFor, Due, HasTask0
  <2> QED BY <2>5, <2>6, <2>7 DEF IInv
<1>4. CASE Unlock0
  <2>1. /\ Queued' = Queued /\ UNCHANGED <<ring, cnt, blocks, reg0, queue_stat>>
        /\ pc0 = "unlock" /\ pc0' = "idle" /\ task0' = NoTask /\ lock' = "free"
    BY <1>4 DEF IInv, RoomInv, Unlock0, Queued
  <2>2. pc1 \notin {"pop", "popcount", "unlock"} /\ task0 \in Queued
    BY <2>1 DEF IInv, LockHeld, PlaceInv
  <2>3. TypeOK'
    BY <1>0, <2>1 DEF IInv, TypeOK, HasTask0, HasTask1
  <2>4. LockHeld' /\ CountInv' /\ RoomInv'
    BY <1>0, <2>1, <2>2 DEF IInv, LockHeld, CountInv, RoomInv
  <2>5. PlaceInv' /\ BlocksAccountedFor'
    BY <1>0, <2>1, <2>2, NoTaskAssumption DEF IInv, PlaceInv, BlocksAccountedFor, Due, HasTask0
  <2> QED BY <2>3, <2>4, <2>5 DEF IInv
<1> QED BY <1>1, <1>2, <1>3, <1>4 DEF Core0Holding

\* Core 1 takes the lock, pops, counts and gives the lock back.
LEMMA PopInv == IInv /\ (Lock1 \/ PopRecord \/ PopCount \/ Unlock1) => IInv'
<1> SUFFICES ASSUME IInv, Lock1 \/ PopRecord \/ PopCount \/ Unlock1 PROVE IInv'
  OBVIOUS
<1>0. UNCHANGED <<blocks, picture, pc0, jpeg_buf, task0, reg0, queue_stat>>
  BY DEF Lock1, PopRecord, PopCount, Unlock1, core0
<1>1. CASE Lock1
  <2>1. Queued' = Queued /\ UNCHANGED <<ring, cnt, task1, reg1, have_pic, sent>>
    BY <1>1 DEF Lock1, Queued
  <2>2. TypeOK'
    BY <1>0, <1>1, <2>1 DEF IInv, TypeOK, Lock1, HasTask0, HasTask1
  <2>3. LockHeld' /\ CountInv' /\ RoomInv'
    BY <1>0, <1>1, <2>1 DEF IInv, LockHeld, CountInv, RoomInv, Lock1
  <2>4. PlaceInv'
    BY <1>0, <1>1, <2>1 DEF IInv, PlaceInv, Lock1, HasTask0
  <2>5. BlocksAccountedFor'
    BY <1>0, <1>1, <2>1 DEF IInv, BlocksAccountedFor, Due, Lock1
  <2> QED BY <2>2, <2>3, <2>4, <2>5 DEF IInv
<1>2. CASE PopRecord /\ cnt = 0
  <2>1. /\ Queued' = Queued /\ UNCHANGED <<lock, ring, cnt, task1, reg1, have_pic, sent>>
        /\ pc1 = "pop" /\ pc1' = "unlock"
    BY <1>2 DEF PopRecord, Queued
  <2>2. task1 = NoTask /\ ~have_pic
    BY <2>1 DEF IInv, TypeOK, PlaceInv
  <2>3. TypeOK'
    BY <1>0, <2>1 DEF IInv, TypeOK, HasTask0, HasTask1
  <2>4. LockHeld' /\ CountInv' /\ RoomInv'
    BY <1>0, <2>1 DEF IInv, LockHeld, CountInv, RoomInv
  <2>5. PlaceInv'
    BY <1>0, <2>1, <2>2 DEF IInv, PlaceInv, HasTask0
  <2>6. BlocksAccountedFor'
    BY <1>0, <2>1, <2>2, NoTaskAssumption DEF IInv, BlocksAccountedFor, Due
  <2> QED BY <2>3, <2>4, <2>5, <2>6 DEF IInv
<1>3. CASE PopRecord /\ cnt # 0
  <2>1. /\ task1' = Head(ring) /\ ring' = Tail(ring) /\ reg1' = cnt
        /\ pc1 = "pop" /\ pc1' = "popcount" /\ UNCHANGED <<lock, cnt, have_pic, sent>>
    BY <1>3 DEF PopRecord
  <2>2. /\ pc0 \notin {"push", "pushcount", "unlock"} /\ ring \in Seq(Tasks)
        /\ task1 = NoTask /\ ~have_pic /\ cnt = Len(ring)
    BY <2>1 DEF IInv, TypeOK, LockHeld, CountInv, PlaceInv
  <2>3. ring # <<>>
    BY <1>3, <2>2
  <2>4. \A i, j \in 1 .. Len(ring) : ring[i] = ring[j] => i = j
    BY DEF IInv, PlaceInv
  <2>a. /\ Tail(ring) \in Seq(Tasks) /\ Head(ring) \in Tasks
        /\ Len(ring) = Len(Tail(ring)) + 1 /\ Len(Tail(ring)) \in Nat
        /\ {ring[i] : i \in 1 .. Len(ring)}
             = {Tail(ring)[i] : i \in 1 .. Len(Tail(ring))} \cup {Head(ring)}
        /\ Head(ring) \notin {Tail(ring)[i] : i \in 1 .. Len(Tail(ring))}
        /\ \A i, j \in 1 .. Len(Tail(ring)) : Tail(ring)[i] = Tail(ring)[j] => i = j
    BY <2>2, <2>3, <2>4, QueuedTail
  <2>5. /\ ring' \in Seq(Tasks) /\ task1' \in Tasks
        /\ Len(ring) = Len(ring') + 1 /\ Len(ring') \in Nat
        /\ Queued = Queued' \cup {task1'} /\ task1' \notin Queued'
        /\ \A i, j \in 1 .. Len(ring') : ring'[i] = ring'[j] => i = j
    <3>1. Queued' = {Tail(ring)[i] : i \in 1 .. Len(Tail(ring))}
      BY <2>1 DEF Queued
    <3>2. Queued = {Tail(ring)[i] : i \in 1 .. Len(Tail(ring))} \cup {Head(ring)}
      BY <2>a DEF Queued
    <3>3. \A i, j \in 1 .. Len(ring') : ring'[i] = ring'[j] => i = j
      BY <2>1, <2>a
    <3> QED BY <2>1, <2>a, <3>1, <3>2, <3>3
  <2>6. TypeOK'
    BY <1>0, <2>1, <2>5 DEF IInv, TypeOK, HasTask0, HasTask1
  <2>7. LockHeld' /\ CountInv' /\ RoomInv'
    BY <1>0, <2>1, <2>2, <2>5 DEF IInv, LockHeld, CountInv, RoomInv
  <2>8. PlaceInv'
    BY <1>0, <2>1, <2>2, <2>5 DEF IInv, PlaceInv, HasTask0
  <2>9. BlocksAccountedFor'
    BY <1>0, <2>1, <2>2, <2>5, NoTaskAssumption DEF IInv, BlocksAccountedFor, Due
  <2> QED BY <2>6, <2>7, <2>8, <2>9 DEF IInv
<1>4. CASE PopCount
  <2>1. /\ Queued' = Queued /\ UNCHANGED <<lock, ring, task1, reg1, sent>>
        /\ pc1 = "popcount" /\ pc1' = "unlock" /\ cnt' = reg1 - 1 /\ have_pic' = TRUE
    BY <1>4 DEF PopCount, Queued
  <2>2. /\ pc0 \notin {"push", "pushcount", "unlock"} /\ task1 \in Tasks
        /\ cnt = Len(ring) + 1 /\ reg1 = cnt /\ Len(ring) \in Nat /\ cnt \in 0 .. Capacity
    BY <2>1 DEF IInv, TypeOK, LockHeld, CountInv
  <2>3. cnt' = Len(ring) /\ cnt' \in 0 .. Capacity /\ (cnt < Capacity => cnt' < Capacity)
    BY <2>1, <2>2, CapacityAssumption
  <2>4. TypeOK'
    BY <1>0, <2>1, <2>2, <2>3 DEF IInv, TypeOK, HasTask0, HasTask1
  <2>5. LockHeld' /\ CountInv' /\ RoomInv'
    BY <1>0, <2>1, <2>2, <2>3 DEF IInv, LockHeld, CountInv, RoomInv
  <2>6. PlaceInv'
    BY <1>0, <2>1, <2>2, NoTaskAssumption DEF IInv, PlaceInv, HasTask0
  <2>7. BlocksAccountedFor'
    BY <1>0, <2>1, <2>2 DEF IInv, BlocksAccountedFor, Due
  <2> QED BY <2>4, <2>5, <2>6, <2>7 DEF IInv
<1>5. CASE Unlock1
  <2>1. /\ Queued' = Queued /\ UNCHANGED <<ring, cnt, task1, reg1>>
        /\ pc1 = "unlock" /\ pc1' = (IF have_pic THEN "send" ELSE "lock")
        /\ lock' = "free" /\ have_pic' = FALSE /\ sent' = 0
    BY <1>5 DEF Unlock1, Queued
  <2>2. /\ pc0 \notin {"push", "pushcount", "unlock"}
        /\ have_pic <=> task1 # NoTask
        /\ task1 \in Tasks \cup {NoTask} /\ have_pic \in BOOLEAN
    BY <2>1 DEF IInv, TypeOK, LockHeld, PlaceInv
  <2>3. 0 \in 0 .. PicLen
    BY PicLenAssumption
  <2>4. TypeOK'
    BY <1>0, <2>1, <2>2, <2>3 DEF IInv, TypeOK, HasTask0, HasTask1
  <2>5. LockHeld' /\ CountInv' /\ RoomInv'
    BY <1>0, <2>1, <2>2, PicLenAssumption DEF IInv, LockHeld, CountInv, RoomInv
  <2>6. PlaceInv'
    BY <1>0, <2>1, <2>2 DEF IInv, PlaceInv, HasTask0
  <2>7. BlocksAccountedFor'
    BY <1>0, <2>1, <2>2, NoTaskAssumption DEF IInv, BlocksAccountedFor, Due
  <2> QED BY <2>4, <2>5, <2>6, <2>7 DEF IInv
<1> QED BY <1>1, <1>2, <1>3, <1>4, <1>5

\* Core 1 sends and frees.
LEMMA SendInv == IInv /\ (SendByte \/ FreeTask) => IInv'
<1> SUFFICES ASSUME IInv, SendByte \/ FreeTask PROVE IInv'
  OBVIOUS
<1>0. /\ Queued' = Queued
      /\ UNCHANGED <<lock, ring, cnt, picture, core0, reg1, have_pic>>
  BY DEF SendByte, FreeTask, Queued
<1>1. UNCHANGED <<pc0, jpeg_buf, task0, reg0, queue_stat>>
  BY <1>0 DEF core0
<1>2. CASE SendByte
  <2>1. /\ pc1 = "send" /\ sent' = sent + 1 /\ UNCHANGED <<blocks, task1>>
        /\ pc1' = (IF sent' < PicLen THEN "send" ELSE "free")
    BY <1>2 DEF SendByte
  <2>2. sent' \in 0 .. PicLen
    BY <2>1, PicLenAssumption DEF IInv, TypeOK, CountInv
  <2>3. TypeOK'
    BY <1>0, <1>1, <2>1, <2>2 DEF IInv, TypeOK, HasTask0, HasTask1
  <2>4. LockHeld' /\ CountInv' /\ RoomInv'
    BY <1>0, <1>1, <2>1 DEF IInv, LockHeld, CountInv, RoomInv
  <2>5. PlaceInv'
    BY <1>0, <1>1, <2>1 DEF IInv, PlaceInv, HasTask0
  <2>6. BlocksAccountedFor'
    BY <1>0, <1>1, <2>1 DEF IInv, BlocksAccountedFor, Due
  <2> QED BY <2>3, <2>4, <2>5, <2>6 DEF IInv
<1>3. CASE FreeTask
  <2>1. /\ pc1 = "free" /\ pc1' = "lock" /\ task1' = NoTask /\ sent' = sent
        /\ blocks' = [blocks EXCEPT ![task1] = @ \ Parts]
    BY <1>3 DEF FreeTask
  <2>2. /\ task1 \in Tasks /\ task1 \notin Queued /\ ~have_pic
        /\ task1 = task0 => pc0 \in {"pushcount", "unlock"}
    BY <2>1, NoTaskAssumption DEF IInv, TypeOK, PlaceInv, HasTask0
  <2>3. task1 # task0
    BY <2>2 DEF IInv, TypeOK, PlaceInv, CountInv, Queued
  <2>4. TypeOK'
    BY <1>0, <1>1, <2>1 DEF IInv, TypeOK, HasTask0, HasTask1
  <2>5. LockHeld' /\ CountInv' /\ RoomInv'
    BY <1>0, <1>1, <2>1 DEF IInv, LockHeld, CountInv, RoomInv
  <2>6. PlaceInv'
    BY <1>0, <1>1, <2>1, <2>2, NoTaskAssumption DEF IInv, TypeOK, PlaceInv, HasTask0, Queued
  <2>7. ASSUME NEW t \in Tasks
        PROVE  blocks'[t] = Due(t)'
    <3>1. CASE t = task1
      BY <1>0, <1>1, <2>1, <2>2, <2>3, <3>1, NoTaskAssumption DEF IInv, TypeOK, Due
    <3>2. CASE t # task1
      BY <1>0, <1>1, <2>1, <2>2, <3>2, NoTaskAssumption
         DEF IInv, TypeOK, BlocksAccountedFor, Due
    <3> QED BY <3>1, <3>2
  <2> QED BY <2>4, <2>5, <2>6, <2>7 DEF IInv, BlocksAccountedFor
<1> QED BY <1>2, <1>3

-----------------------------------------------------------------------------
(* The safety theorems                                                     *)

\* Every step preserves the invariant.
LEMMA NextInv == IInv /\ [Next]_vars => IInv'
<1> SUFFICES ASSUME IInv, [Next]_vars PROVE IInv'
  OBVIOUS
<1>1. CASE UNCHANGED vars
  <2>1. /\ TypeOK' = TypeOK /\ LockHeld' = LockHeld /\ CountInv' = CountInv
        /\ RoomInv' = RoomInv /\ PlaceInv' = PlaceInv
        /\ BlocksAccountedFor' = BlocksAccountedFor
    BY <1>1 DEF vars, core0, core1, TypeOK, LockHeld, CountInv, RoomInv, PlaceInv,
       BlocksAccountedFor, Due, Queued
  <2> QED BY <2>1 DEF IInv
<1>2. CASE Core0
  BY <1>2, BuildInv, PushInv DEF Core0
<1>3. CASE Core1
  BY <1>3, PopInv, SendInv DEF Core1, Core1Running
<1> QED BY <1>1, <1>2, <1>3 DEF Next

\* The invariant holds in every reachable state.
THEOREM Inductive == Spec => []IInv
<1> QED BY InitInv, NextInv, PTL DEF Spec

\* Every variable keeps its type; counter and bytes sent stay in range.
THEOREM TypeCorrect == Spec => []TypeOK
<1>1. IInv => TypeOK
  BY DEF IInv
<1> QED BY <1>1, Inductive, PTL

\* A push after the unlocked look at the counter always finds room.
THEOREM PushAlwaysFindsRoom == Spec => []PushNeverRefused
<1>1. IInv => PushNeverRefused
  BY DEF IInv, RoomInv, PushNeverRefused
<1> QED BY <1>1, Inductive, PTL

\* The spinlock keeps counter and records in step.
THEOREM CountAlwaysRecords == Spec => []CountIsRecords
<1>1. IInv => CountIsRecords
  BY DEF IInv, LockHeld, CountInv, CountIsRecords
<1> QED BY <1>1, Inductive, PTL

\* No block of a task leaks or is freed while something points to it.
THEOREM BlocksAlwaysAccountedFor == Spec => []BlocksAccountedFor
<1>1. IInv => BlocksAccountedFor
  BY DEF IInv
<1> QED BY <1>1, Inductive, PTL

-----------------------------------------------------------------------------
(* Refinement                                                              *)

\* The line is a sequence of pictures, one longer than the queue at most, and its
\* length is that of the queue and the hand of core 1.
LEMMA LineIsALine ==
  ASSUME IInv
  PROVE  /\ InHand \in {0, 1} /\ Waiting \in Nat /\ Waiting =< Capacity
         /\ InHand = 1 => task1 \in Tasks
         /\ Line \in Seq(Pictures) /\ Len(Line) = InHand + Waiting
         /\ \A i \in 1 .. InHand + Waiting :
              Order(i) \in Tasks /\ Line[i] = picture[Order(i)]
<1>1. ring \in Seq(Tasks) /\ Len(ring) \in Nat /\ cnt \in Nat /\ cnt =< Capacity
  BY CapacityAssumption DEF IInv, TypeOK
<1>2. InHand \in {0, 1} /\ (InHand = 1 => task1 \in Tasks)
  BY DEF IInv, TypeOK, PlaceInv, InHand
<1>3. Waiting \in Nat /\ Waiting =< Len(ring) /\ Waiting =< Capacity
  BY <1>1, CapacityAssumption DEF IInv, CountInv, RoomInv, Waiting
<1>4. ASSUME NEW i \in 1 .. InHand + Waiting
      PROVE  Order(i) \in Tasks
  <2>1. CASE i = InHand
    BY <1>2, <2>1 DEF Order
  <2>2. CASE i # InHand
    <3>1. i - InHand \in 1 .. Len(ring)
      BY <1>1, <1>2, <1>3, <2>2
    <3> QED BY <1>1, <2>2, <3>1 DEF Order
  <2> QED BY <2>1, <2>2
<1>5. picture \in [Tasks -> Pictures]
  BY DEF IInv, TypeOK
<1>6. Line \in [1 .. InHand + Waiting -> Pictures]
  BY <1>4, <1>5 DEF Line
<1>7. InHand + Waiting \in Nat
  BY <1>2, <1>3
<1>8. Line \in Seq(Pictures) /\ Len(Line) = InHand + Waiting
  BY <1>6, <1>7
<1> QED BY <1>2, <1>3, <1>4, <1>8 DEF Line

\* A step that changes neither the length of the line nor what is at its places is
\* no step of the line.
LEMMA SameLine ==
  ASSUME InHand' = InHand, Waiting' = Waiting,
         \A i \in 1 .. InHand + Waiting : picture'[Order(i)'] = picture[Order(i)]
  PROVE  Line' = Line
BY DEF Line

\* Core 0 changes the line only by counting a push, which takes one picture.
LEMMA Core0Line == IInv /\ Core0 => UNCHANGED Line \/ \E p \in Pictures : Queue!Take(p)
<1> SUFFICES ASSUME IInv, Core0
             PROVE  UNCHANGED Line \/ \E p \in Pictures : Queue!Take(p)
  OBVIOUS
<1>0. UNCHANGED <<pc1, task1, have_pic>> /\ InHand' = InHand
  BY DEF Core0, Core0Holding, Encode, CheckCount, MallocTask, MallocUpload, MallocJpeg, Lock0,
     PushRecord, PushCount, Unlock0, core1, InHand
<1>1. CASE \/ \E p \in Pictures : Encode(p)
           \/ CheckCount \/ MallocTask \/ MallocUpload \/ Lock0 \/ Unlock0
  <2>1. UNCHANGED <<ring, picture>> /\ pc0 # "pushcount" /\ pc0' # "pushcount"
    BY <1>1 DEF Encode, CheckCount, MallocTask, MallocUpload, Lock0, Unlock0
  <2> QED BY <1>0, <2>1, SameLine DEF Waiting, Order
<1>2. CASE MallocJpeg
  <2>1. /\ ring' = ring /\ pc0 = "malloc_jpeg" /\ pc0' # "pushcount"
        /\ \/ picture' = picture
           \/ picture' = [picture EXCEPT ![task0] = jpeg_buf]
    BY <1>2 DEF MallocJpeg
  <2>2. Waiting' = Waiting /\ (\A i : Order(i)' = Order(i)) /\ Waiting = Len(ring)
    BY <1>0, <2>1 DEF Waiting, Order
  <2>3. ASSUME NEW i \in 1 .. InHand + Waiting
        PROVE  picture'[Order(i)] = picture[Order(i)]
    <3>1. Order(i) \in Queued \/ Order(i) = task1
      <4>1. CASE i = InHand
        BY <4>1 DEF Order
      <4>2. CASE i # InHand
        <5>1. i - InHand \in 1 .. Len(ring)
          BY <2>2, <4>2, LineIsALine DEF IInv
        <5> QED BY <4>2, <5>1 DEF Order, Queued
      <4> QED BY <4>1, <4>2
    <3>2. task0 \notin Queued /\ task0 # task1
      BY <2>1 DEF IInv, PlaceInv
    <3>3. Order(i) # task0 /\ Order(i) \in Tasks
      BY <3>1, <3>2, LineIsALine
    <3> QED BY <2>1, <3>3 DEF IInv, TypeOK
  <2> QED BY <1>0, <2>2, <2>3, SameLine
<1>3. CASE PushRecord
  <2>1. /\ ring' = Append(ring, task0) /\ picture' = picture
        /\ pc0 = "push" /\ pc0' = "pushcount"
    BY <1>3 DEF IInv, RoomInv, PushRecord
  <2>2. ring \in Seq(Tasks) /\ task0 \in Tasks /\ Len(ring) \in Nat
    BY <2>1 DEF IInv, TypeOK, HasTask0
  <2>3. Len(ring') = Len(ring) + 1 /\ \A i \in 1 .. Len(ring) : ring'[i] = ring[i]
    BY <2>1, <2>2, QueuedAppend
  <2>4. Waiting' = Waiting /\ Waiting = Len(ring)
    BY <2>1, <2>2, <2>3 DEF Waiting
  <2>5. ASSUME NEW i \in 1 .. InHand + Waiting
        PROVE  Order(i)' = Order(i)
    <3>1. CASE i = InHand
      BY <1>0, <3>1 DEF Order
    <3>2. CASE i # InHand
      <4>1. i - InHand \in 1 .. Len(ring)
        BY <2>4, <3>2, LineIsALine DEF IInv
      <4>2. ring'[i - InHand] = ring[i - InHand]
        BY <2>3, <4>1
      <4> QED BY <1>0, <3>2, <4>2 DEF Order
    <3> QED BY <3>1, <3>2
  <2> QED BY <1>0, <2>1, <2>4, <2>5, SameLine
<1>4. CASE PushCount
  <2>1. UNCHANGED <<ring, picture>> /\ pc0 = "pushcount" /\ pc0' = "unlock"
    BY <1>4 DEF PushCount
  <2>2. /\ Len(ring) = cnt + 1 /\ cnt \in Nat /\ cnt < Capacity /\ Capacity \in Nat
        /\ picture \in [Tasks -> Pictures] /\ ring \in Seq(Tasks)
    BY <2>1, CapacityAssumption DEF IInv, TypeOK, CountInv, RoomInv
  <2>3. Waiting = cnt /\ Waiting' = cnt + 1 /\ \A i : Order(i)' = Order(i)
    BY <1>0, <2>1, <2>2 DEF Waiting, Order
  <2>4. /\ InHand \in {0, 1} /\ Line \in Seq(Pictures) /\ Len(Line) = InHand + cnt
        /\ \A i \in 1 .. InHand + cnt : Line[i] = picture[Order(i)]
    BY <2>3, LineIsALine
  <2> DEFINE n == InHand + cnt + 1
             p == picture[Order(n)]
  <2>5. p \in Pictures
    <3>1. n # InHand /\ n - InHand = Len(ring) /\ Len(ring) \in 1 .. Len(ring)
      BY <2>2, <2>4
    <3>2. Order(n) = ring[Len(ring)] /\ ring[Len(ring)] \in Tasks
      BY <2>2, <3>1 DEF Order
    <3> QED BY <2>2, <3>2
  <2>6. Line' = [i \in 1 .. n |-> picture[Order(i)]]
    <3>1. InHand' + Waiting' = n
      BY <1>0, <2>2, <2>3, <2>4
    <3> QED BY <2>1, <2>3, <3>1 DEF Line
  <2>7. Line' = Append(Line, p)
    <3>1. Append(Line, p) = [i \in 1 .. n |-> IF i = n THEN p ELSE Line[i]]
      <4>1. Len(Line) + 1 = n
        BY <2>2, <2>4
      <4> QED BY <2>4, <2>5, <4>1
    <3>2. \A i \in 1 .. n : i # n => i \in 1 .. InHand + cnt
      BY <2>2, <2>4
    <3>3. \A i \in 1 .. n : picture[Order(i)] = IF i = n THEN p ELSE Line[i]
      BY <2>4, <3>2
    <3> QED BY <2>6, <3>1, <3>3
  <2>8. Len(Line) =< Capacity
    BY <2>2, <2>4
  <2> QED BY <2>5, <2>7, <2>8 DEF Queue!Take
<1> QED BY <1>1, <1>2, <1>3, <1>4 DEF Core0, Core0Holding

\* Core 1 changes the line only by the last byte of a picture, which sends the first.
LEMMA Core1Line == IInv /\ Core1 => UNCHANGED Line \/ Queue!Sent
<1> SUFFICES ASSUME IInv, Core1 PROVE UNCHANGED Line \/ Queue!Sent
  OBVIOUS
<1>0. /\ UNCHANGED <<picture, pc0>>
      /\ InHand \in {0, 1} /\ Waiting \in Nat
  BY LineIsALine DEF Core1, Core1Running, Lock1, PopRecord, PopCount, Unlock1, SendByte,
     FreeTask, core0
<1>1. CASE Lock1 \/ PopCount \/ Unlock1 \/ (PopRecord /\ cnt = 0)
  <2>1. UNCHANGED <<ring, task1>>
    BY <1>1 DEF Lock1, PopCount, Unlock1, PopRecord
  <2>2. InHand' = InHand
    <3>1. CASE Lock1 \/ (PopRecord /\ cnt = 0)
      BY <3>1 DEF IInv, PlaceInv, Lock1, PopRecord, InHand
    <3>2. CASE PopCount
      BY <3>2 DEF PopCount, InHand
    <3>3. CASE Unlock1
      BY <3>3 DEF IInv, TypeOK, Unlock1, InHand
    <3> QED BY <1>1, <3>1, <3>2, <3>3
  <2> QED BY <1>0, <2>1, <2>2, SameLine DEF Waiting, Order
<1>2. CASE PopRecord /\ cnt # 0
  <2>1. /\ task1' = Head(ring) /\ ring' = Tail(ring) /\ pc1 = "pop" /\ pc1' = "popcount"
    BY <1>2 DEF PopRecord
  <2>2. /\ pc0 \notin {"push", "pushcount", "unlock"} /\ ring \in Seq(Tasks) /\ ring # <<>>
        /\ \A i, j \in 1 .. Len(ring) : ring[i] = ring[j] => i = j
    <3>1. cnt = Len(ring) /\ ring \in Seq(Tasks)
      BY <2>1 DEF IInv, TypeOK, LockHeld, CountInv
    <3> QED BY <1>2, <2>1, <3>1 DEF IInv, LockHeld, PlaceInv
  <2>3. /\ task1' = ring[1] /\ Len(ring) = Len(ring') + 1 /\ Len(ring') \in Nat
        /\ \A i \in 1 .. Len(ring') : ring'[i] = ring[i + 1]
    BY <2>1, <2>2, QueuedTail
  <2>4. InHand = 0 /\ InHand' = 1 /\ Waiting = Len(ring) /\ Waiting' = Len(ring')
    BY <1>0, <2>1, <2>2 DEF InHand, Waiting
  <2>5. InHand' + Waiting' = InHand + Waiting
    BY <2>3, <2>4
  <2>6. ASSUME NEW i \in 1 .. InHand + Waiting
        PROVE  Order(i)' = Order(i)
    <3>1. Order(i) = ring[i] /\ i \in 1 .. Len(ring)
      BY <2>3, <2>4 DEF Order
    <3>2. CASE i = 1
      BY <2>3, <2>4, <3>1, <3>2 DEF Order
    <3>3. CASE i # 1
      <4>1. i - 1 \in 1 .. Len(ring') /\ (i - 1) + 1 = i
        BY <2>3, <3>1, <3>3
      <4>2. ring'[i - 1] = ring[i]
        BY <2>3, <4>1
      <4> QED BY <2>4, <3>1, <3>3, <4>2 DEF Order
    <3> QED BY <3>2, <3>3
  <2> QED BY <1>0, <2>5, <2>6 DEF Line
<1>3. CASE SendByte /\ pc1' = "send"
  <2>1. UNCHANGED <<ring, task1>> /\ InHand' = InHand
    BY <1>3 DEF SendByte, InHand
  <2> QED BY <1>0, <2>1, SameLine DEF Waiting, Order
<1>4. CASE SendByte /\ pc1' # "send"
  <2>1. UNCHANGED <<ring, task1>> /\ pc1 = "send" /\ pc1' = "free" /\ have_pic' = have_pic
    BY <1>4 DEF SendByte
  <2>2. InHand = 1 /\ InHand' = 0 /\ Waiting' = Waiting
    BY <1>0, <2>1 DEF InHand, Waiting
  <2>3. /\ Line \in Seq(Pictures) /\ Len(Line) = 1 + Waiting
        /\ \A i \in 1 .. 1 + Waiting : Line[i] = picture[Order(i)]
    BY <2>2, LineIsALine
  <2>4. Line' = [i \in 1 .. Waiting |-> picture[ring[i]]]
    <3>1. Line' = [i \in 1 .. Waiting |-> picture[Order(i)']]
      BY <1>0, <2>2 DEF Line
    <3>2. \A i \in 1 .. Waiting : Order(i)' = ring[i]
      BY <1>0, <2>1, <2>2 DEF Order
    <3> QED BY <3>1, <3>2
  <2>5. Tail(Line) = [i \in 1 .. Waiting |-> Line[i + 1]]
    <3>1. Len(Line) - 1 = Waiting /\ Line # <<>>
      BY <1>0, <2>3
    <3>2. /\ Tail(Line) \in Seq(Pictures) /\ Len(Tail(Line)) = Len(Line) - 1
          /\ \A i \in 1 .. Len(Tail(Line)) : Tail(Line)[i] = Line[i + 1]
      BY <2>3, <3>1, HeadTailProperties
    <3>3. Tail(Line) = [i \in 1 .. Waiting |-> Tail(Line)[i]]
      BY <3>1, <3>2, LenProperties
    <3> QED BY <3>1, <3>2, <3>3
  <2>6. \A i \in 1 .. Waiting : Line[i + 1] = picture[ring[i]]
    <3> TAKE i \in 1 .. Waiting
    <3>1. i + 1 \in 1 .. 1 + Waiting /\ i + 1 # 1 /\ (i + 1) - 1 = i
      BY <1>0
    <3>2. Order(i + 1) = ring[i]
      BY <2>2, <3>1 DEF Order
    <3> QED BY <2>3, <3>1, <3>2
  <2>7. Line' = Tail(Line) /\ Line # <<>>
    BY <1>0, <2>3, <2>4, <2>5, <2>6
  <2> QED BY <2>7 DEF Queue!Sent
<1>5. CASE FreeTask
  <2>1. ring' = ring /\ InHand = 0 /\ InHand' = 0
    BY <1>5 DEF FreeTask, InHand
  <2>2. ASSUME NEW i \in 1 .. InHand + Waiting
        PROVE  Order(i)' = Order(i)
    BY <1>0, <2>1 DEF Order
  <2> QED BY <1>0, <2>1, <2>2, SameLine DEF Waiting
<1> QED BY <1>1, <1>2, <1>3, <1>4, <1>5 DEF Core1, Core1Running

\* The two cores, the lock, the counter and the heap together are a bounded
\* first-in first-out line of pictures.
THEOREM Refinement == Spec => ImplementsPictureQueue
<1>1. Init => Queue!Init
  <2> SUFFICES ASSUME Init PROVE Line = <<>>
    BY DEF Queue!Init
  <2>1. InHand = 0 /\ Waiting = 0
    BY DEF Init, InHand, Waiting
  <2> QED BY <2>1 DEF Line
<1>2. IInv /\ [Next]_vars => [Queue!Next]_Line
  <2> SUFFICES ASSUME IInv, [Next]_vars PROVE [Queue!Next]_Line
    OBVIOUS
  <2>1. CASE UNCHANGED vars
    BY <2>1 DEF vars, core0, core1, Line, InHand, Waiting, Order
  <2>2. CASE Core0
    BY <2>2, Core0Line DEF Queue!Next
  <2>3. CASE Core1
    BY <2>3, Core1Line DEF Queue!Next
  <2> QED BY <2>1, <2>2, <2>3 DEF Next
<1> QED BY <1>1, <1>2, Inductive, PTL DEF Spec, ImplementsPictureQueue, Queue!Spec
=============================================================================
