------------------------------ MODULE FaceLoop ------------------------------
(***************************************************************************)
(* The main loop of MF1 (src/main.c) around face recognition: recording a  *)
(* face for the host or for a press of the key (face_lib/face_cb.c), the   *)
(* door relay (src/main.c), the QR scan (src/user_cmd.c, maix_qrcode.c).   *)
(*                                                                         *)
(* One pass of the loop runs the face library, unless a picture or a QR    *)
(* code is awaited, then the QR scan, the key, the relay and the commands  *)
(* of the host.  The library calls detected_face_cb, pass_face_cb and      *)
(* lcd_refresh_cb as often as it likes, each with up to MaxFaces faces.    *)
(*                                                                         *)
(* Time goes on between any two steps.  A tick is half a second: the code  *)
(* compares seconds, which it truncates before subtracting (relay) or      *)
(* after (recording), and microseconds (QR scan).  The times it keeps are  *)
(* ages here, counted while the code may still read them and zero after.   *)
(*                                                                         *)
(* The build modelled is the one with one camera and the key that records  *)
(* a face.  External: the face library, and the host's protocol, which     *)
(* calls protocol_record_face.  A feature store is its number of faces     *)
(* here (FaceStore has its detail); update_key_state is its outcome        *)
(* (BoardCfg), the picture its begin and end (UartRecv).                   *)
(* Definitions named Slip... are not the code but mistakes one could make. *)
(***************************************************************************)
EXTENDS Integers

CONSTANTS
  FACE_DATA_MAX_COUNT,
  RelayOpenS,        \* cfg.relay_open_s
  OutInterval,       \* cfg.out_interval_ms, in ticks; 0: no interval
  RecordTimeouts,    \* time_out_s of a record request, in seconds
  ScanTimeouts,      \* time_out_s of a QR scan, in seconds
  MaxFaces           \* bound: faces in one callback

MaxIntSeconds == 2147          \* seconds whose microseconds fit in an int

ASSUME FaceDataAssumption == FACE_DATA_MAX_COUNT \in Nat
ASSUME RelayAssumption == RelayOpenS \in Nat
ASSUME IntervalAssumption == OutInterval \in Nat
ASSUME RecordAssumption == RecordTimeouts \subseteq Nat
ASSUME ScanAssumption == ScanTimeouts \subseteq 0 .. 2 * MaxIntSeconds
ASSUME FacesAssumption == MaxFaces \in Nat

VARIABLES
  auto_out_fea,                \* fixed at start
  pc, left,                    \* where the loop is, faces left in a callback
  half,                        \* the clock is in the second half of a second
  stored,                      \* faces in flash
  proto_start_face_recon_flag, g_key_press,
  proto_record_flag, time_out_s, record_age,
  proto_scan_qrcode_flag, scan_time_out_s, scan_age,
  jpeg_recv_start_flag,
  relay_pin, relay_open_flag,
  relay_s,                     \* now in s - last_open_relay_time_in_s, at most RelayOpenS
  relay_age, pass_age,
  owed                         \* [proto, key]: faces ordered and not answered yet

recVars   == <<proto_record_flag, time_out_s, record_age>>
scanVars  == <<proto_scan_qrcode_flag, scan_time_out_s, scan_age>>
relayVars == <<relay_pin, relay_open_flag, relay_s, relay_age, pass_age>>
orderVars == <<stored, g_key_press, owed>>
modeVars  == <<auto_out_fea, proto_start_face_recon_flag, jpeg_recv_start_flag>>
vars == <<pc, left, half, recVars, scanVars, relayVars, orderVars, modeVars>>

Min2(a, b) == IF a < b THEN a ELSE b
Older(counted, age, cap) == IF counted THEN Min2(age + 1, cap) ELSE 0

\* Ages beyond which the comparisons do not change any more.
RecordCap == 2 * time_out_s + 2
ScanCap   == 2 * Min2(scan_time_out_s, MaxIntSeconds) + 1
RelayCap  == 2 * RelayOpenS

Tick ==
  /\ half' = ~half
  /\ record_age' = Older(proto_record_flag, record_age, RecordCap)
  /\ scan_age' = Older(proto_scan_qrcode_flag /\ scan_time_out_s =< MaxIntSeconds, scan_age, ScanCap)
  /\ relay_age' = Older(relay_pin, relay_age, RelayCap)
  /\ relay_s' = IF half /\ relay_open_flag THEN Min2(relay_s + 1, RelayOpenS) ELSE relay_s
  /\ pass_age' = Min2(pass_age + 1, OutInterval)
  /\ UNCHANGED <<pc, left, proto_record_flag, time_out_s, proto_scan_qrcode_flag, scan_time_out_s,
                 relay_pin, relay_open_flag, orderVars, modeVars>>

-----------------------------------------------------------------------------
(* face_lib_run and its callbacks                                          *)

LoopTop ==
  /\ pc = "top"
  /\ pc' = IF jpeg_recv_start_flag \/ proto_scan_qrcode_flag THEN "qr" ELSE "lib"
  /\ UNCHANGED <<left, half, recVars, scanVars, relayVars, orderVars, modeVars>>

LibReturns ==
  /\ pc = "lib"
  /\ pc' = "qr"
  /\ UNCHANGED <<left, half, recVars, scanVars, relayVars, orderVars, modeVars>>

\* detected_face_cb and pass_face_cb go face by face, or return at once.
LibCalls(callback, faces) ==
  /\ pc = "lib" /\ proto_start_face_recon_flag
  /\ pc' = callback
  /\ left' = faces
  /\ UNCHANGED <<half, recVars, scanVars, relayVars, orderVars, modeVars>>

NextFace ==
  /\ left' = left - 1
  /\ pc' = IF left = 1 THEN "lib" ELSE pc

LastFace ==
  /\ left' = 0
  /\ pc' = "lib"

\* (now - proto_record_start_time) / 1000 / 1000 > time_out_s
RecordExpired == record_age \div 2 > time_out_s

\* A final answer to the record request.
EndRecord ==
  /\ proto_record_flag' = FALSE /\ record_age' = 0
  /\ owed' = [owed EXCEPT !.proto = @ - 1]

HasRoom == stored < FACE_DATA_MAX_COUNT

\* A face while the host waits for one.
ForHost == pc = "detected" /\ proto_record_flag

Recorded ==
  /\ ~RecordExpired /\ HasRoom
  /\ EndRecord /\ NextFace
  /\ stored' = stored + 1 /\ g_key_press' = FALSE

NotRecorded == ~RecordExpired /\ UNCHANGED <<stored, owed, proto_record_flag, record_age>>

SlipDetectedForHost ==                   \* lcd_refresh_cb is left to notice the timeout
  /\ ForHost
  /\ EndRecord /\ NextFace
  /\ HasRoom /\ stored' = stored + 1 /\ g_key_press' = FALSE
  /\ UNCHANGED <<half, time_out_s, scanVars, relayVars, modeVars>>

SlipDetectedStays ==                     \* the request stays after its face is recorded
  /\ ForHost
  /\ ~RecordExpired /\ HasRoom /\ NextFace
  /\ stored' = stored + 1 /\ g_key_press' = FALSE
  /\ owed' = [owed EXCEPT !.proto = @ - 1]
  /\ UNCHANGED <<proto_record_flag, record_age>>
  /\ UNCHANGED <<half, time_out_s, scanVars, relayVars, modeVars>>

\* It is recorded if it looks to the front.  A full flash is told to the host and the
\* request stays; that and the timeout leave the callback, before the press of the
\* key is dropped.
DetectedForHost ==
  /\ ForHost
  /\ \/ RecordExpired /\ EndRecord /\ LastFace /\ UNCHANGED <<stored, g_key_press>>
     \/ Recorded
     \/ NotRecorded /\ ~HasRoom /\ LastFace /\ UNCHANGED g_key_press
     \/ NotRecorded /\ NextFace /\ g_key_press' = FALSE
  /\ UNCHANGED <<half, time_out_s, scanVars, relayVars, modeVars>>

SlipDetectedForKey ==                    \* a press records every face in view
  /\ pc = "detected" /\ ~proto_record_flag
  /\ IF g_key_press /\ HasRoom
     THEN stored' = stored + 1 /\ owed' = [owed EXCEPT !.key = @ - 1] /\ NextFace
     ELSE UNCHANGED <<stored, owed>> /\ IF g_key_press THEN LastFace ELSE NextFace
  /\ UNCHANGED <<half, g_key_press, recVars, scanVars, relayVars, modeVars>>

\* A face while nobody waits for one: a press of the key records it, if the library
\* gives its feature, and is dropped then and when it does not.
DetectedForKey ==
  /\ pc = "detected" /\ ~proto_record_flag
  /\ \/ g_key_press /\ ~HasRoom /\ LastFace /\ UNCHANGED <<stored, owed, g_key_press>>
     \/ /\ g_key_press /\ HasRoom /\ NextFace /\ g_key_press' = FALSE
        /\ stored' = stored + 1 /\ owed' = [owed EXCEPT !.key = @ - 1]
     \/ NextFace /\ g_key_press' = FALSE /\ UNCHANGED <<stored, owed>>
  /\ UNCHANGED <<half, recVars, scanVars, relayVars, modeVars>>

SlipPassed(known) ==                     \* a relay that is open is not opened again
  /\ pc = "passed"
  /\ NextFace
  /\ IF pass_age < OutInterval
     THEN UNCHANGED relayVars
     ELSE /\ pass_age' = 0
          /\ IF (auto_out_fea \/ known) /\ ~relay_open_flag
             THEN /\ relay_pin' = TRUE /\ relay_open_flag' = TRUE
                  /\ relay_s' = 0 /\ relay_age' = 0
             ELSE relay_age' = 0 /\ UNCHANGED <<relay_pin, relay_open_flag, relay_s>>
  /\ UNCHANGED <<half, recVars, scanVars, orderVars, modeVars>>

SlipPassedFlag(known) ==                 \* only the pin is set
  /\ pc = "passed"
  /\ NextFace
  /\ IF pass_age < OutInterval
     THEN UNCHANGED relayVars
     ELSE /\ pass_age' = 0
          /\ IF auto_out_fea \/ known
             THEN relay_pin' = TRUE /\ relay_s' = 0 /\ relay_age' = 0 /\ UNCHANGED relay_open_flag
             ELSE UNCHANGED <<relay_pin, relay_open_flag, relay_s, relay_age>>
  /\ UNCHANGED <<half, recVars, scanVars, orderVars, modeVars>>

\* face_pass_callback: at most once in out_interval_ms, for a face of any score; a
\* score above out_threshold, or auto_out_fea, opens the relay.
Passed(known) ==
  /\ pc = "passed"
  /\ NextFace
  /\ IF pass_age < OutInterval
     THEN UNCHANGED relayVars
     ELSE /\ pass_age' = 0
          /\ IF auto_out_fea \/ known
             THEN /\ relay_pin' = TRUE /\ relay_open_flag' = TRUE
                  /\ relay_s' = 0 /\ relay_age' = 0
             ELSE UNCHANGED <<relay_pin, relay_open_flag, relay_s, relay_age>>
  /\ UNCHANGED <<half, recVars, scanVars, orderVars, modeVars>>

\* lcd_refresh_cb
Refresh ==
  /\ pc = "lib" /\ proto_record_flag /\ RecordExpired
  /\ EndRecord
  /\ UNCHANGED <<pc, left, half, time_out_s, scanVars, relayVars, stored, g_key_press, modeVars>>

-----------------------------------------------------------------------------
(* The rest of the loop                                                    *)

\* qrcode_scan: microseconds that do not fit in an int are negative, and compared as
\* unsigned they are never reached.
ScanExpired == scan_time_out_s =< MaxIntSeconds /\ scan_age > 2 * scan_time_out_s

SlipQrScan ==                            \* the time starts again with every image
  /\ pc = "qr"
  /\ pc' = "key"
  /\ proto_scan_qrcode_flag' \in
       IF proto_scan_qrcode_flag /\ ~ScanExpired THEN BOOLEAN ELSE {FALSE}
  /\ scan_age' = 0
  /\ UNCHANGED <<left, half, recVars, scan_time_out_s, relayVars, orderVars, modeVars>>

\* proto_qrcode_scan_loop: a timeout, a code or no code.
QrScan ==
  /\ pc = "qr"
  /\ pc' = "key"
  /\ proto_scan_qrcode_flag' \in
       IF proto_scan_qrcode_flag /\ ~ScanExpired THEN BOOLEAN ELSE {FALSE}
  /\ scan_age' = IF proto_scan_qrcode_flag' THEN scan_age ELSE 0
  /\ UNCHANGED <<left, half, recVars, scan_time_out_s, relayVars, orderVars, modeVars>>

\* update_key_state; a long press deletes all faces.
Key(press) ==
  /\ pc = "key"
  /\ pc' = "relay"
  /\ g_key_press' = (press = "short")
  /\ owed' = [owed EXCEPT !.key = IF press = "short" THEN 1 ELSE 0]
  /\ stored' = IF press = "long" THEN 0 ELSE stored
  /\ UNCHANGED <<left, half, recVars, scanVars, relayVars, modeVars>>

\* Process relay open: the seconds are truncated before they are subtracted.
Relay ==
  /\ pc = "relay"
  /\ pc' = "uart"
  /\ IF relay_open_flag /\ relay_s >= RelayOpenS
     THEN relay_pin' = FALSE /\ relay_open_flag' = FALSE /\ relay_s' = 0 /\ relay_age' = 0
     ELSE UNCHANGED <<relay_pin, relay_open_flag, relay_s, relay_age>>
  /\ UNCHANGED <<left, half, pass_age, recVars, scanVars, orderVars, modeVars>>

NoCommand ==
  /\ pc = "uart"
  /\ pc' = "jpeg"
  /\ UNCHANGED <<left, half, recVars, scanVars, relayVars, orderVars, modeVars>>

\* protocol_record_face: a new request takes the place of one that is pending.
RecordCommand(t) ==
  /\ pc = "uart"
  /\ pc' = "jpeg"
  /\ proto_record_flag' = TRUE /\ time_out_s' = t /\ record_age' = 0
  /\ owed' = [owed EXCEPT !.proto = 1]
  /\ UNCHANGED <<left, half, scanVars, relayVars, stored, g_key_press, modeVars>>

\* proto_scan_qrcode
ScanCommand(t) ==
  /\ pc = "uart"
  /\ pc' = "jpeg"
  /\ proto_scan_qrcode_flag' = TRUE /\ scan_time_out_s' = t /\ scan_age' = 0
  /\ UNCHANGED <<left, half, recVars, relayVars, orderVars, modeVars>>

\* One without time_out_s: its answer ends a scan under way.
BadScanCommand ==
  /\ pc = "uart"
  /\ pc' = "jpeg"
  /\ proto_scan_qrcode_flag' = FALSE /\ scan_age' = 0
  /\ UNCHANGED <<left, half, recVars, scan_time_out_s, relayVars, orderVars, modeVars>>

\* proto_set_face_recognition_stat
ReconCommand(stat) ==
  /\ pc = "uart"
  /\ pc' = "jpeg"
  /\ proto_start_face_recon_flag' = stat
  /\ UNCHANGED <<left, half, recVars, scanVars, relayVars, orderVars, auto_out_fea, jpeg_recv_start_flag>>

\* A command that asks for a picture.
PictureCommand ==
  /\ pc = "uart"
  /\ pc' = "jpeg"
  /\ jpeg_recv_start_flag' = TRUE
  /\ UNCHANGED <<left, half, recVars, scanVars, relayVars, orderVars, auto_out_fea, proto_start_face_recon_flag>>

\* The picture is there, or too late, or neither.
Jpeg ==
  /\ pc = "jpeg"
  /\ pc' = "top"
  /\ jpeg_recv_start_flag' \in {FALSE, jpeg_recv_start_flag}
  /\ UNCHANGED <<left, half, recVars, scanVars, relayVars, orderVars, auto_out_fea, proto_start_face_recon_flag>>

-----------------------------------------------------------------------------
Init ==
  /\ auto_out_fea \in BOOLEAN
  /\ pc = "top" /\ left = 0 /\ half \in BOOLEAN
  /\ stored \in 0 .. FACE_DATA_MAX_COUNT
  /\ proto_start_face_recon_flag = TRUE /\ g_key_press = FALSE
  /\ proto_record_flag = FALSE /\ time_out_s = 0 /\ record_age = 0
  /\ proto_scan_qrcode_flag = FALSE /\ scan_time_out_s = 0 /\ scan_age = 0
  /\ jpeg_recv_start_flag = FALSE
  /\ relay_pin = FALSE /\ relay_open_flag = FALSE
  /\ relay_s = 0 /\ relay_age = 0 /\ pass_age = OutInterval
  /\ owed = [proto |-> 0, key |-> 0]

Faces == \/ DetectedForHost
         \/ DetectedForKey
         \/ \E known \in BOOLEAN : Passed(known)

Scans == \E t \in ScanTimeouts : ScanCommand(t)

Uart == \/ NoCommand
        \/ \E t \in RecordTimeouts : RecordCommand(t)
        \/ Scans \/ BadScanCommand
        \/ \E stat \in BOOLEAN : ReconCommand(stat)
        \/ PictureCommand

Loop == \/ LoopTop \/ Faces \/ QrScan
        \/ \E press \in {"none", "short", "long"} : Key(press)
        \/ Relay \/ Uart \/ Jpeg

Callbacks == \/ \E callback \in {"detected", "passed"}, faces \in 1 .. MaxFaces :
                  LibCalls(callback, faces)
             \/ Refresh

Next == Loop \/ Callbacks \/ LibReturns \/ Tick

Spec == Init /\ [][Next]_vars

\* The loop and the clock go on; the library returns from face_lib_run sooner or
\* later, however many callbacks it makes (the watchdog resets the chip otherwise).
FairSpec == Spec /\ WF_vars(Loop) /\ SF_vars(LibReturns) /\ WF_vars(Tick)

-----------------------------------------------------------------------------
(* Properties                                                              *)

\* Every variable has its type.
TypeOK ==
  /\ auto_out_fea \in BOOLEAN /\ half \in BOOLEAN
  /\ pc \in {"top", "lib", "detected", "passed", "qr", "key", "relay", "uart", "jpeg"}
  /\ left \in 0 .. MaxFaces /\ (left > 0 <=> pc \in {"detected", "passed"})
  /\ stored \in 0 .. FACE_DATA_MAX_COUNT
  /\ proto_start_face_recon_flag \in BOOLEAN /\ g_key_press \in BOOLEAN
  /\ proto_record_flag \in BOOLEAN /\ time_out_s \in RecordTimeouts \cup {0}
  /\ record_age \in 0 .. RecordCap
  /\ proto_scan_qrcode_flag \in BOOLEAN /\ scan_time_out_s \in ScanTimeouts \cup {0}
  /\ scan_age \in 0 .. ScanCap
  /\ jpeg_recv_start_flag \in BOOLEAN
  /\ relay_pin \in BOOLEAN /\ relay_open_flag \in BOOLEAN
  /\ relay_s \in 0 .. RelayOpenS /\ relay_age \in 0 .. RelayCap
  /\ pass_age \in 0 .. OutInterval
  /\ owed \in [proto : Int, key : Int]

\* A record request is pending exactly while the host is owed its final answer:
\* none is dropped, none answered twice, through timeouts, full flash, QR scans and
\* pictures in between (a request that replaces another takes over its answer).
PendingIffOwed ==
  /\ owed.proto \in {0, 1}
  /\ proto_record_flag <=> owed.proto = 1

\* A press records one face at most, and only in the pass of the loop after it: a
\* press during a QR scan records nobody after the scan.
PressRecordsOnce == owed.key \in {0, 1} /\ (g_key_press => owed.key = 1)

\* No face is recorded for the host after time_out_s, truncated: not either when
\* the library was not run meanwhile.
RecordedInTime ==
  [][stored' > stored /\ owed'.proto < owed.proto
       => record_age =< 2 * time_out_s + 1]_vars

\* The door stays open for relay_open_s after the last face that opened it, less the
\* second that truncation may take away.
RelayHeldOpen ==
  [][relay_pin /\ ~relay_pin' => relay_age > 2 * (RelayOpenS - 1)]_vars

\* The door closes again unless faces keep passing.
RelayCloses == []<>~relay_pin \/ []<><<\E known \in BOOLEAN : Passed(known)>>_vars

\* A QR scan ends, so faces are recognized again, unless the host starts scans without
\* end or asks for more seconds than an int of microseconds holds.
ScanEnds ==
  \/ []<>(~proto_scan_qrcode_flag \/ scan_time_out_s > MaxIntSeconds)
  \/ []<><<Scans>>_vars
=============================================================================
