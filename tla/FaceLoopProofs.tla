--------------------------- MODULE FaceLoopProofs ---------------------------
(***************************************************************************)
(* Proofs about FaceLoop for every number of faces, every interval and     *)
(* time-out: the two orders (the host's and the key's), the recording in   *)
(* time and the door that is held open.                                    *)
(***************************************************************************)
EXTENDS FaceLoop, TLAPS

\* The orders and the flags of the code agree.
OrderInv ==
  /\ owed \in [proto : {0, 1}, key : {0, 1}]
  /\ proto_record_flag <=> owed.proto = 1
  /\ g_key_press => owed.key = 1

\* A record request's age and limit are numbers, and so are the faces.
AgeInv ==
  /\ record_age \in Nat /\ time_out_s \in Nat
  /\ stored \in 0 .. FACE_DATA_MAX_COUNT

\* The pin and the flag agree, and the age of an open relay is less than a second
\* away from the seconds the code counts.
DoorInv ==
  /\ relay_pin <=> relay_open_flag
  /\ relay_s \in Nat /\ relay_age \in Nat
  /\ relay_s =< RelayOpenS
  /\ relay_pin => relay_age + 1 >= 2 * relay_s + (IF half THEN 1 ELSE 0)

IInv == OrderInv /\ AgeInv /\ DoorInv

\* The initial states satisfy the invariant.
LEMMA InitInv == Init => IInv
<1> SUFFICES ASSUME Init PROVE IInv
  OBVIOUS
<1>1. OrderInv
  BY DEF Init, OrderInv
<1>2. AgeInv
  BY FaceDataAssumption DEF Init, AgeInv
<1>3. DoorInv
  BY RelayAssumption DEF Init, DoorInv
<1> QED BY <1>1, <1>2, <1>3 DEF IInv

\* A face in view ends the host's order or the key's when it ends the flag.
LEMMA NextOrder == OrderInv /\ [Next]_vars => OrderInv'
<1> SUFFICES ASSUME OrderInv, [Next]_vars PROVE OrderInv'
  OBVIOUS
<1>1. CASE UNCHANGED <<proto_record_flag, g_key_press, owed>>
  BY <1>1 DEF OrderInv
<1>2. CASE DetectedForHost
  <2>1. CASE EndRecord /\ (UNCHANGED g_key_press \/ g_key_press' = FALSE)
    BY <1>2, <2>1 DEF DetectedForHost, ForHost, EndRecord, OrderInv
  <2>2. CASE NotRecorded /\ UNCHANGED g_key_press
    BY <2>2 DEF NotRecorded, OrderInv
  <2>3. CASE NotRecorded /\ g_key_press' = FALSE
    BY <2>3 DEF NotRecorded, OrderInv
  <2> QED
    BY <1>2, <2>1, <2>2, <2>3 DEF DetectedForHost, Recorded
<1>3. CASE DetectedForKey
  BY <1>3 DEF DetectedForKey, OrderInv, recVars
<1>4. CASE Refresh
  BY <1>4 DEF Refresh, EndRecord, OrderInv
<1>5. ASSUME NEW press \in {"none", "short", "long"}, Key(press)
      PROVE  OrderInv'
  BY <1>5 DEF Key, OrderInv, recVars
<1>6. ASSUME NEW t \in RecordTimeouts, RecordCommand(t)
      PROVE  OrderInv'
  BY <1>6 DEF RecordCommand, OrderInv
<1> QED
  BY <1>1, <1>2, <1>3, <1>4, <1>5, <1>6
     DEF Next, Loop, Faces, Uart, Scans, Callbacks, LoopTop, Passed, QrScan, Relay, NoCommand,
         ScanCommand, BadScanCommand, ReconCommand, PictureCommand, Jpeg, LibCalls, LibReturns,
         Tick, vars, recVars, orderVars

\* Ages and limits stay numbers.
LEMMA NextAge == AgeInv /\ [Next]_vars => AgeInv'
<1> SUFFICES ASSUME AgeInv, [Next]_vars PROVE AgeInv'
  OBVIOUS
<1> USE FaceDataAssumption
<1>1. CASE UNCHANGED <<recVars, stored>>
  BY <1>1 DEF AgeInv, recVars
<1>2. CASE Tick
  BY <1>2 DEF Tick, Older, Min2, RecordCap, AgeInv, orderVars
<1>3. CASE DetectedForHost
  BY <1>3 DEF DetectedForHost, Recorded, NotRecorded, HasRoom, EndRecord, AgeInv
<1>4. CASE Refresh
  BY <1>4 DEF Refresh, EndRecord, AgeInv
<1>5. ASSUME NEW t \in RecordTimeouts, RecordCommand(t)
      PROVE  AgeInv'
  BY <1>5, RecordAssumption DEF RecordCommand, AgeInv
<1>6. CASE DetectedForKey
  BY <1>6 DEF DetectedForKey, HasRoom, recVars, AgeInv
<1>7. ASSUME NEW press \in {"none", "short", "long"}, Key(press)
      PROVE  AgeInv'
  BY <1>7 DEF Key, recVars, AgeInv
<1> QED
  BY <1>1, <1>2, <1>3, <1>4, <1>5, <1>6, <1>7
     DEF Next, Loop, Faces, Uart, Scans, Callbacks, LoopTop, Passed, QrScan, orderVars,
         Relay, NoCommand, ScanCommand, BadScanCommand, ReconCommand, PictureCommand, Jpeg,
         LibCalls, LibReturns, vars

\* A second counts only when the clock has gone through the whole of it, the first
\* one excepted.
LEMMA NextDoor == DoorInv /\ [Next]_vars => DoorInv'
<1> SUFFICES ASSUME DoorInv, [Next]_vars PROVE DoorInv'
  OBVIOUS
<1>1. CASE UNCHANGED <<half, relayVars>>
  BY <1>1 DEF DoorInv, relayVars
<1>2. CASE Tick
  <2>1. CASE relay_pin
    <3>1. relay_age' = IF relay_age + 1 < 2 * RelayOpenS THEN relay_age + 1 ELSE 2 * RelayOpenS
      BY <1>2, <2>1 DEF Tick, Older, Min2, RelayCap
    <3>4. /\ half' <=> ~half
          /\ relay_pin' = relay_pin /\ relay_open_flag' = relay_open_flag
      BY <1>2 DEF Tick
    <3>2. CASE half
      <4>1. relay_s' = IF relay_s + 1 < RelayOpenS THEN relay_s + 1 ELSE RelayOpenS
        BY <1>2, <2>1, <3>2 DEF Tick, Min2, DoorInv
      <4>2. ~half'
        BY <3>2, <3>4
      <4> QED BY <2>1, <3>1, <3>2, <3>4, <4>1, <4>2, RelayAssumption DEF DoorInv
    <3>3. CASE ~half
      <4>1. relay_s' = relay_s
        BY <1>2, <3>3 DEF Tick
      <4>2. half'
        BY <3>3, <3>4
      <4> QED BY <2>1, <3>1, <3>3, <3>4, <4>1, <4>2, RelayAssumption DEF DoorInv
    <3> QED BY <3>2, <3>3
  <2>2. CASE ~relay_pin
    BY <1>2, <2>2, RelayAssumption DEF Tick, Older, DoorInv
  <2> QED BY <2>1, <2>2
<1>3. ASSUME NEW known \in BOOLEAN, Passed(known)
      PROVE  DoorInv'
  BY <1>3, RelayAssumption DEF Passed, DoorInv, relayVars
<1>4. CASE Relay
  BY <1>4, RelayAssumption DEF Relay, DoorInv
<1> QED
  BY <1>1, <1>2, <1>3, <1>4
     DEF Next, Loop, Faces, Uart, Scans, Callbacks, LoopTop, DetectedForHost, DetectedForKey,
         QrScan, Key, NoCommand, RecordCommand, ScanCommand, BadScanCommand, ReconCommand,
         PictureCommand, Jpeg, LibCalls, Refresh, LibReturns, vars

\* The invariant holds in every reachable state.
THEOREM Inductive == Spec => []IInv
<1>1. IInv /\ [Next]_vars => IInv'
  BY NextOrder, NextAge, NextDoor DEF IInv
<1> QED BY InitInv, <1>1, PTL DEF Spec

\* A record request is pending exactly while the host is owed its final answer
\* (face_cb.c 196-206, 262-269 and 317-364).
THEOREM PendingAlwaysIffOwed == Spec => []PendingIffOwed
<1>1. IInv => PendingIffOwed
  BY DEF IInv, OrderInv, PendingIffOwed
<1> QED BY <1>1, Inductive, PTL

\* A press records one face at most (face_cb.c 370-411, board.c 66-92).
THEOREM PressAlwaysRecordsOnce == Spec => []PressRecordsOnce
<1>1. IInv => PressRecordsOnce
  BY DEF IInv, OrderInv, PressRecordsOnce
<1> QED BY <1>1, Inductive, PTL

\* No face is recorded for the host after its time-out (face_cb.c 321-329).
THEOREM RecordedAlwaysInTime == Spec => RecordedInTime
<1>1. IInv /\ [Next]_vars
        => [stored' > stored /\ owed'.proto < owed.proto => record_age =< 2 * time_out_s + 1]_vars
  <2> SUFFICES ASSUME IInv, Next, stored' > stored, owed'.proto < owed.proto
               PROVE  record_age =< 2 * time_out_s + 1
    BY DEF vars
  <2>1. DetectedForHost /\ stored' # stored
    <3>1. stored' # stored /\ owed' # owed /\ owed'.proto # owed.proto
      BY NextAge, NextOrder DEF IInv, OrderInv, AgeInv
    <3>2. ~DetectedForKey
      BY <3>1 DEF DetectedForKey, IInv, OrderInv
    <3>3. ASSUME NEW press \in {"none", "short", "long"}, Key(press) PROVE FALSE
      BY <3>1, <3>3 DEF Key, IInv, OrderInv
    <3> QED
      BY <3>1, <3>2, <3>3
         DEF Next, Loop, Faces, Uart, Scans, Callbacks, LoopTop, Passed, QrScan,
             Relay, NoCommand, RecordCommand, ScanCommand, BadScanCommand, ReconCommand,
             PictureCommand, Jpeg, LibCalls, Refresh, LibReturns, Tick, orderVars
  <2>2. ~RecordExpired
    BY <2>1 DEF DetectedForHost, Recorded, NotRecorded
  <2> QED BY <2>2 DEF RecordExpired, IInv, AgeInv
<1> QED BY <1>1, Inductive, PTL DEF Spec, RecordedInTime

\* The door stays open for relay_open_s less one second (main.c 66-89 and 389-398).
THEOREM RelayAlwaysHeldOpen == Spec => RelayHeldOpen
<1>1. IInv /\ [Next]_vars
        => [relay_pin /\ ~relay_pin' => relay_age > 2 * (RelayOpenS - 1)]_vars
  <2> SUFFICES ASSUME IInv, Next, relay_pin, ~relay_pin'
               PROVE  relay_age > 2 * (RelayOpenS - 1)
    BY DEF vars
  <2>1. Relay
    BY DEF Next, Loop, Faces, Uart, Scans, Callbacks, LoopTop, DetectedForHost, DetectedForKey,
           Passed, QrScan, Key, NoCommand, RecordCommand, ScanCommand, BadScanCommand,
           ReconCommand, PictureCommand, Jpeg, LibCalls, Refresh, LibReturns, Tick, relayVars
  <2>2. relay_s >= RelayOpenS
    BY <2>1 DEF Relay
  <2> QED BY <2>2, RelayAssumption DEF IInv, DoorInv
<1> QED BY <1>1, Inductive, PTL DEF Spec, RelayHeldOpen

-----------------------------------------------------------------------------
(* The types.                                                              *)

FlowType ==
  /\ pc \in {"top", "lib", "detected", "passed", "qr", "key", "relay", "uart", "jpeg"}
  /\ left \in 0 .. MaxFaces /\ (left > 0 <=> pc \in {"detected", "passed"})

FlagType ==
  /\ auto_out_fea \in BOOLEAN /\ half \in BOOLEAN
  /\ proto_start_face_recon_flag \in BOOLEAN /\ g_key_press \in BOOLEAN
  /\ proto_record_flag \in BOOLEAN /\ proto_scan_qrcode_flag \in BOOLEAN
  /\ jpeg_recv_start_flag \in BOOLEAN
  /\ relay_pin \in BOOLEAN /\ relay_open_flag \in BOOLEAN

TimeType ==
  /\ time_out_s \in RecordTimeouts \cup {0} /\ record_age \in 0 .. RecordCap
  /\ scan_time_out_s \in ScanTimeouts \cup {0} /\ scan_age \in 0 .. ScanCap
  /\ relay_age \in 0 .. RelayCap /\ pass_age \in 0 .. OutInterval

LEMMA InitTypes == Init => FlowType /\ FlagType /\ TimeType
<1> SUFFICES ASSUME Init PROVE FlowType /\ FlagType /\ TimeType
  OBVIOUS
<1>1. FlowType
  BY FacesAssumption DEF Init, FlowType
<1>2. FlagType
  BY Zenon DEF Init, FlagType
<1>3. TimeType
  BY RelayAssumption, IntervalAssumption
     DEF Init, TimeType, RecordCap, ScanCap, RelayCap, Min2, MaxIntSeconds
<1> QED BY <1>1, <1>2, <1>3

LEMMA NextFlow == FlowType /\ [Next]_vars => FlowType'
<1> SUFFICES ASSUME FlowType, [Next]_vars PROVE FlowType'
  OBVIOUS
<1> USE FacesAssumption DEF FlowType
<1>1. CASE UNCHANGED <<pc, left>>
  BY <1>1
<1>2. ASSUME pc \in {"detected", "passed"}, NextFace PROVE FlowType'
  BY <1>2 DEF NextFace
<1>3. ASSUME LastFace PROVE FlowType'
  BY <1>3 DEF LastFace
<1>4. CASE Faces
  BY <1>4, <1>2, <1>3 DEF Faces, DetectedForHost, DetectedForKey, Passed, ForHost, Recorded
<1>5. ASSUME NEW callback \in {"detected", "passed"}, NEW faces \in 1 .. MaxFaces,
             LibCalls(callback, faces)
      PROVE  FlowType'
  BY <1>5 DEF LibCalls
<1>6. ASSUME left' = left, pc \notin {"detected", "passed"},
             pc' \in {"top", "lib", "qr", "key", "relay", "uart", "jpeg"}
      PROVE  FlowType'
  BY <1>6
<1>7. CASE LoopTop \/ LibReturns \/ QrScan \/ Relay \/ Jpeg
  BY <1>7, <1>6 DEF LoopTop, LibReturns, QrScan, Relay, Jpeg
<1>8. CASE Uart \/ \E press \in {"none", "short", "long"} : Key(press)
  BY <1>8, <1>6 DEF Key, Uart, NoCommand, RecordCommand, Scans, ScanCommand, BadScanCommand,
       ReconCommand, PictureCommand
<1>9. CASE Refresh \/ Tick \/ UNCHANGED vars
  BY <1>9, <1>1 DEF Refresh, Tick, vars
<1> QED BY <1>4, <1>5, <1>7, <1>8, <1>9 DEF Next, Loop, Callbacks

LEMMA NextFlags == FlagType /\ [Next]_vars => FlagType'
<1> SUFFICES ASSUME FlagType, [Next]_vars PROVE FlagType'
  OBVIOUS
<1> USE DEF FlagType, recVars, scanVars, relayVars, orderVars, modeVars
<1>1. CASE DetectedForHost
  BY <1>1, Zenon DEF DetectedForHost, Recorded, NotRecorded, EndRecord
<1>2. CASE DetectedForKey
  BY <1>2, Zenon DEF DetectedForKey
<1>3. ASSUME NEW known \in BOOLEAN, Passed(known) PROVE FlagType'
  <2>1. CASE UNCHANGED relayVars
    BY <1>3, <2>1, Zenon DEF Passed
  <2>2. CASE \/ relay_pin' = TRUE /\ relay_open_flag' = TRUE
             \/ UNCHANGED <<relay_pin, relay_open_flag>>
    BY <1>3, <2>2, Zenon DEF Passed
  <2> QED BY <1>3, <2>1, <2>2, Zenon DEF Passed
<1>4. CASE LoopTop \/ LibReturns \/ Refresh \/ UNCHANGED vars
  BY <1>4, Zenon DEF LoopTop, LibReturns, Refresh, EndRecord, vars
<1>5. CASE QrScan
  <2>1. proto_scan_qrcode_flag' \in BOOLEAN
    BY <1>5, Zenon DEF QrScan
  <2> QED BY <1>5, <2>1, Zenon DEF QrScan
<1>6. CASE Relay
  <2>1. relay_pin' \in BOOLEAN /\ relay_open_flag' \in BOOLEAN
    BY <1>6, Zenon DEF Relay
  <2> QED BY <1>6, <2>1, Zenon DEF Relay
<1>7. CASE Jpeg
  BY <1>7, Zenon DEF Jpeg
<1>8. ASSUME NEW press \in {"none", "short", "long"}, Key(press) PROVE FlagType'
  BY <1>8, Zenon DEF Key
<1>9. CASE Uart
  <2>1. CASE NoCommand \/ PictureCommand \/ BadScanCommand
    BY <2>1, Zenon DEF NoCommand, PictureCommand, BadScanCommand
  <2>2. ASSUME NEW t, RecordCommand(t) PROVE FlagType'
    BY <2>2, Zenon DEF RecordCommand
  <2>3. ASSUME NEW t, ScanCommand(t) PROVE FlagType'
    BY <2>3, Zenon DEF ScanCommand
  <2>4. ASSUME NEW stat \in BOOLEAN, ReconCommand(stat) PROVE FlagType'
    BY <2>4, Zenon DEF ReconCommand
  <2> QED BY <1>9, <2>1, <2>2, <2>3, <2>4, Zenon DEF Uart, Scans
<1>10. ASSUME NEW callback, NEW faces, LibCalls(callback, faces) PROVE FlagType'
  BY <1>10, Zenon DEF LibCalls
<1>11. CASE Tick
  BY <1>11, Zenon DEF Tick
<1> QED
  BY <1>1, <1>2, <1>3, <1>4, <1>5, <1>6, <1>7, <1>8, <1>9, <1>10, <1>11 DEF Next, Loop, Faces, Callbacks

LEMMA NextTimes == TimeType /\ [Next]_vars => TimeType'
<1> SUFFICES ASSUME TimeType, [Next]_vars PROVE TimeType'
  OBVIOUS
<1> USE RecordAssumption, ScanAssumption, RelayAssumption, IntervalAssumption
<1>n. /\ time_out_s \in Nat /\ record_age \in Nat /\ scan_time_out_s \in Nat /\ scan_age \in Nat
      /\ RecordCap \in Nat /\ ScanCap \in Nat /\ RelayCap \in Nat
  BY DEF TimeType, RecordCap, ScanCap, RelayCap, Min2, MaxIntSeconds
<1>1. ASSUME UNCHANGED <<time_out_s, scan_time_out_s, relay_age, pass_age>>,
             record_age' \in {record_age, 0}, scan_age' \in {scan_age, 0}
      PROVE  TimeType'
  BY <1>1, <1>n DEF TimeType, RecordCap, ScanCap, RelayCap
<1>2. CASE Tick
  <2>2. /\ record_age' \in 0 .. RecordCap /\ scan_age' \in 0 .. ScanCap /\ relay_age' \in 0 .. RelayCap
    <3>1. \A counted, age, cap : Older(counted, age, cap) \in {Min2(age + 1, cap), 0}
      BY DEF Older
    <3>2. \A age, cap \in Nat : Min2(age + 1, cap) \in 0 .. cap /\ 0 \in 0 .. cap
      BY DEF Min2
    <3>3. relay_age \in Nat
      BY <1>n DEF TimeType
    <3>4. /\ record_age' \in {Min2(record_age + 1, RecordCap), 0}
          /\ scan_age' \in {Min2(scan_age + 1, ScanCap), 0}
          /\ relay_age' \in {Min2(relay_age + 1, RelayCap), 0}
      BY <1>2, <3>1 DEF Tick
    <3> QED BY <1>n, <3>2, <3>3, <3>4
  <2>3. pass_age' \in 0 .. OutInterval
    BY <1>2 DEF Tick, Min2, TimeType
  <2>4. RecordCap' = RecordCap /\ ScanCap' = ScanCap /\ RelayCap' = RelayCap
        /\ UNCHANGED <<time_out_s, scan_time_out_s>>
    BY <1>2 DEF Tick, RecordCap, ScanCap, RelayCap
  <2> QED BY <2>2, <2>3, <2>4 DEF TimeType
<1>3. ASSUME NEW known \in BOOLEAN, Passed(known) PROVE TimeType'
  <2>1. /\ UNCHANGED <<recVars, scanVars>> /\ pass_age' \in {pass_age, 0} /\ relay_age' \in {relay_age, 0}
    BY <1>3 DEF Passed, relayVars
  <2> QED BY <1>n, <2>1 DEF TimeType, recVars, scanVars, RecordCap, ScanCap, RelayCap
<1>4. CASE Relay
  <2>1. /\ UNCHANGED <<recVars, scanVars, pass_age>> /\ relay_age' \in {relay_age, 0}
    BY <1>4 DEF Relay
  <2> QED BY <1>n, <2>1 DEF TimeType, recVars, scanVars, RecordCap, ScanCap, RelayCap
<1>5. ASSUME NEW t \in RecordTimeouts, RecordCommand(t) PROVE TimeType'
  <2>1. time_out_s' = t /\ record_age' = 0 /\ UNCHANGED <<scanVars, relayVars>>
    BY <1>5 DEF RecordCommand
  <2> QED BY <2>1 DEF TimeType, scanVars, relayVars, RecordCap, ScanCap, RelayCap
<1>6. ASSUME NEW t \in ScanTimeouts, ScanCommand(t) PROVE TimeType'
  <2>1. scan_time_out_s' = t /\ scan_age' = 0 /\ UNCHANGED <<recVars, relayVars>>
    BY <1>6 DEF ScanCommand
  <2>2. ScanCap' \in Nat
    BY <2>1 DEF ScanCap, Min2, MaxIntSeconds
  <2> QED BY <2>1, <2>2 DEF TimeType, recVars, relayVars, RecordCap, RelayCap
<1>7. CASE DetectedForHost \/ DetectedForKey \/ Refresh
  BY <1>7, <1>1 DEF DetectedForHost, DetectedForKey, Refresh, Recorded, NotRecorded, EndRecord,
       recVars, scanVars, relayVars
<1>8. CASE LoopTop \/ LibReturns \/ QrScan \/ Jpeg \/ UNCHANGED vars
  BY <1>8, <1>1 DEF LoopTop, LibReturns, QrScan, Jpeg, vars, recVars, scanVars, relayVars
<1>9. CASE NoCommand \/ BadScanCommand \/ PictureCommand \/ (\E stat \in BOOLEAN : ReconCommand(stat))
           \/ (\E press \in {"none", "short", "long"} : Key(press))
  BY <1>9, <1>1 DEF NoCommand, BadScanCommand, PictureCommand, ReconCommand, Key,
       recVars, scanVars, relayVars
<1>10. ASSUME NEW callback, NEW faces, LibCalls(callback, faces) PROVE TimeType'
  BY <1>10, <1>1 DEF LibCalls, recVars, scanVars, relayVars
<1> QED
  BY <1>2, <1>3, <1>4, <1>5, <1>6, <1>7, <1>8, <1>9, <1>10 DEF Next, Loop, Faces, Uart, Scans, Callbacks

\* Every variable has its type.
THEOREM TypeCorrect == Spec => []TypeOK
<1>1. IInv /\ FlowType /\ FlagType /\ TimeType => TypeOK
  BY RelayAssumption
     DEF IInv, OrderInv, AgeInv, DoorInv, FlowType, FlagType, TimeType, TypeOK
<1> QED BY <1>1, InitTypes, NextFlow, NextFlags, NextTimes, Inductive, PTL DEF Spec

=============================================================================
