------------------------------ MODULE UartRecv ------------------------------
(***************************************************************************)
(* The serial protocol receiver of MF1: the receive interrupt of           *)
(* uart_recv/uart_recv.c against the end of the main loop in src/main.c.   *)
(*                                                                         *)
(* The interrupt takes one byte at a time, in JSON mode into               *)
(* cJSON_recv_buf and in picture mode into jpeg_recv_buf, and shares       *)
(* start_recv_flag and recv_cur_pos between the two.  The main loop parses *)
(* a finished JSON frame, switches the mode for a picture, and ends the    *)
(* wait for the picture when it has arrived or after ten seconds.  An      *)
(* interrupt may come between any two assignments of the main loop that    *)
(* the interrupt reads or writes, so those are separate steps (pc).        *)
(*                                                                         *)
(* External: protocol_prase (parses a frame, runs the command, answers)    *)
(* and protocol_cal_pic_fea (uses the picture, answers) of the face        *)
(* library; the host, which sends one command and waits for the answer,    *)
(* sends the picture once it is asked for it, may stop in the middle of    *)
(* it, and may go on sending it after the device has given up.             *)
(*                                                                         *)
(* Bytes are classes: the markers in hex (7b is the opening brace), and    *)
(* the data bytes of commands and pictures, which are told apart           *)
(* (DataAssumption).  A command fits cJSON_recv_buf and a picture fits     *)
(* jpeg_recv_buf, which is the larger one (LenAssumption).  The position   *)
(* left by an abandoned picture is one of jpeg_recv_buf, and the interrupt *)
(* goes on with it in cJSON_recv_buf: an access outside a buffer is the    *)
(* action IsrOverrun, and what the program does after it is undefined, so  *)
(* that a behaviour of the model ends there.                               *)
(* Definitions named Slip... are not the code but mistakes one could make. *)
(***************************************************************************)
EXTENDS Naturals, Sequences

CONSTANTS
  Pictures,         \* data bytes of pictures
  Plain,            \* data bytes of commands that want no picture
  PicLen,           \* bytes of a picture between its markers
  PROTOCOL_BUF_LEN, \* of cJSON_recv_buf, 3 KB in the source
  JPEG_BUF_LEN,     \* of jpeg_recv_buf, 30 KB in the source
  MaxCmds           \* bound: commands the host sends in one behaviour

ASSUME MaxCmdsAssumption == MaxCmds \in Nat

CalPic == "cal_pic"                    \* the data byte of the picture command
Cmds   == Plain \cup {CalPic}
Zero   == "0"                          \* a byte the memset left
Marks  == {"7b", "0d", "0a", "ff", "d8", "d9", "aa", "55", Zero}
Bytes  == Pictures \cup Cmds \cup Marks

\* A command with its markers fits cJSON_recv_buf, a picture with its own jpeg_recv_buf.
ASSUME LenAssumption ==
  /\ PicLen \in Nat \ {0}
  /\ PROTOCOL_BUF_LEN \in Nat /\ PROTOCOL_BUF_LEN >= 5
  /\ JPEG_BUF_LEN \in Nat /\ JPEG_BUF_LEN >= PicLen + 4
\* No picture holds a marker or the text of a command, no command holds a marker.
ASSUME DataAssumption == Pictures \cap Cmds = {} /\ (Pictures \cup Cmds) \cap Marks = {}

VARIABLES
  pkt_fix,                             \* configured framing, fixed at start
  recv_over_flag, jpeg_recv_start_flag, recv_jpeg_flag, start_recv_flag,
  recv_cur_pos, last_data, jpeg_recv_len,
  cJSON_recv_buf, cJSON_prase_buf, jpeg_recv_buf,
  expired,                             \* ten seconds since jpeg_recv_start_time
  pc,                                  \* where the main loop is
  open,                                \* a picture was asked for and not answered
  cut,                                 \* ghost: since a picture was abandoned before its
                                       \* end, no JSON frame has ended
  overrun,                             \* ghost: a buffer was accessed outside its bounds
  host                                 \* [phase, out, cmd, pic, n]

isrVars  == <<recv_jpeg_flag, start_recv_flag, recv_cur_pos, last_data, jpeg_recv_len,
              cut, overrun>>
bufVars  == <<cJSON_recv_buf, cJSON_prase_buf, jpeg_recv_buf>>
mainVars == <<jpeg_recv_start_flag, expired, open>>
vars     == <<pkt_fix, recv_over_flag, isrVars, bufVars, mainVars, pc, host>>

-----------------------------------------------------------------------------
(* Markers and frames: protocol_init_device                                *)

g_pkt_head ==
  IF pkt_fix
  THEN [json_start |-> <<"aa", "55">>, json_end |-> <<"55", "aa">>,
        jpeg_start |-> <<"aa", "55">>, jpeg_end |-> <<"55", "aa">>]
  ELSE [json_start |-> <<"7b">>,        json_end |-> <<"0d", "0a">>,
        jpeg_start |-> <<"ff", "d8">>, jpeg_end |-> <<"ff", "d9">>]

\* What the host sends, and what the device should hand on of it: in the fixed
\* framing the picture without its markers.
JsonText(c)  == g_pkt_head.json_start \o <<c>>
JsonFrame(c) == JsonText(c) \o g_pkt_head.json_end
Body(p)      == [i \in 1 .. PicLen |-> p]
JpegFrame(p) == g_pkt_head.jpeg_start \o Body(p) \o g_pkt_head.jpeg_end
JpegText(p)  == IF pkt_fix THEN Body(p) ELSE JpegFrame(p)

\* buf[pos] = b; what lies beyond stays, what was never written is zero.
WriteAt(buf, pos, b) ==
  LET len == IF Len(buf) > pos THEN Len(buf) ELSE pos + 1
  IN  [i \in 1 .. len |-> IF i = pos + 1 THEN b
                          ELSE IF i <= Len(buf) THEN buf[i] ELSE Zero]

\* The C string at the start of a buffer.
Text(buf) ==
  LET ends == {i \in 1 .. Len(buf) : buf[i] = Zero}
  IN  IF ends = {} THEN buf
      ELSE SubSeq(buf, 1, (CHOOSE i \in ends : \A j \in ends : i <= j) - 1)

\* recv_cur_pos has just passed the last byte of an end marker.  (At pos = 1 the code
\* looks at the byte before the buffer: IsrOverrun.)
AtEnd(buf, pos, b, marker, len) ==
  b = marker[2] /\ ((pos >= 2 /\ buf[pos - 1] = marker[1]) \/ pos > len - 1)

-----------------------------------------------------------------------------
(* The interrupt: protocol_port_recv_cb for one byte                       *)

SlipIsrJpegData(b) ==                    \* picture mode is not left at the end
  /\ recv_jpeg_flag /\ start_recv_flag /\ recv_cur_pos < JPEG_BUF_LEN
  /\ jpeg_recv_buf' = WriteAt(jpeg_recv_buf, recv_cur_pos, b)
  /\ recv_cur_pos' = recv_cur_pos + 1
  /\ IF AtEnd(jpeg_recv_buf', recv_cur_pos', b, g_pkt_head.jpeg_end, JPEG_BUF_LEN)
     THEN /\ start_recv_flag' = FALSE
          /\ jpeg_recv_len' = IF pkt_fix THEN recv_cur_pos' - 2 ELSE recv_cur_pos'
     ELSE UNCHANGED <<start_recv_flag, jpeg_recv_len>>
  /\ UNCHANGED <<recv_jpeg_flag, recv_over_flag, last_data, cJSON_recv_buf, cJSON_prase_buf,
                 cut, overrun>>

SlipJpegLen(b) ==                        \* the end marker is counted into the picture
  /\ recv_jpeg_flag /\ start_recv_flag /\ recv_cur_pos < JPEG_BUF_LEN
  /\ jpeg_recv_buf' = WriteAt(jpeg_recv_buf, recv_cur_pos, b)
  /\ recv_cur_pos' = recv_cur_pos + 1
  /\ IF AtEnd(jpeg_recv_buf', recv_cur_pos', b, g_pkt_head.jpeg_end, JPEG_BUF_LEN)
     THEN start_recv_flag' = FALSE /\ recv_jpeg_flag' = FALSE /\ jpeg_recv_len' = recv_cur_pos'
     ELSE UNCHANGED <<start_recv_flag, recv_jpeg_flag, jpeg_recv_len>>
  /\ UNCHANGED <<recv_over_flag, last_data, cJSON_recv_buf, cJSON_prase_buf, cut, overrun>>

IsrJpegData(b) ==
  /\ recv_jpeg_flag /\ start_recv_flag /\ recv_cur_pos < JPEG_BUF_LEN
  /\ jpeg_recv_buf' = WriteAt(jpeg_recv_buf, recv_cur_pos, b)
  /\ recv_cur_pos' = recv_cur_pos + 1
  /\ IF AtEnd(jpeg_recv_buf', recv_cur_pos', b, g_pkt_head.jpeg_end, JPEG_BUF_LEN)
     THEN /\ start_recv_flag' = FALSE
          /\ recv_jpeg_flag' = FALSE
          /\ jpeg_recv_len' = IF pkt_fix THEN recv_cur_pos' - 2 ELSE recv_cur_pos'
     ELSE UNCHANGED <<start_recv_flag, recv_jpeg_flag, jpeg_recv_len>>
  /\ UNCHANGED <<recv_over_flag, last_data, cJSON_recv_buf, cJSON_prase_buf, cut, overrun>>

SlipIsrJpegStart(b) ==                   \* the position is not set back
  /\ recv_jpeg_flag /\ ~start_recv_flag
  /\ start_recv_flag' = (<<last_data, b>> = g_pkt_head.jpeg_start)
  /\ last_data' = IF start_recv_flag' THEN Zero ELSE b
  /\ UNCHANGED <<recv_cur_pos, jpeg_recv_buf, recv_over_flag, recv_jpeg_flag,
                 jpeg_recv_len, cJSON_recv_buf, cJSON_prase_buf, cut, overrun>>

IsrJpegStart(b) ==
  /\ recv_jpeg_flag /\ ~start_recv_flag
  /\ IF <<last_data, b>> = g_pkt_head.jpeg_start
     THEN /\ start_recv_flag' = TRUE
          /\ last_data' = Zero
          /\ IF pkt_fix
             THEN recv_cur_pos' = 0 /\ UNCHANGED jpeg_recv_buf
             ELSE /\ recv_cur_pos' = 2
                  /\ jpeg_recv_buf' = WriteAt(WriteAt(jpeg_recv_buf, 0, "ff"), 1, "d8")
     ELSE /\ last_data' = b
          /\ UNCHANGED <<start_recv_flag, recv_cur_pos, jpeg_recv_buf>>
  /\ UNCHANGED <<recv_over_flag, recv_jpeg_flag, jpeg_recv_len, cJSON_recv_buf,
                 cJSON_prase_buf, cut, overrun>>

IsrJsonData(b) ==
  /\ ~recv_jpeg_flag /\ start_recv_flag /\ recv_cur_pos < PROTOCOL_BUF_LEN
  /\ recv_cur_pos' = recv_cur_pos + 1
  /\ LET buf == WriteAt(cJSON_recv_buf, recv_cur_pos, b)
     IN  IF AtEnd(buf, recv_cur_pos', b, g_pkt_head.json_end, PROTOCOL_BUF_LEN)
         THEN /\ cJSON_prase_buf' = SubSeq(buf, 1, recv_cur_pos' - 2)
              /\ cJSON_recv_buf' = <<>>
              /\ recv_over_flag' = TRUE
              /\ start_recv_flag' = FALSE
              /\ cut' = FALSE
         ELSE /\ cJSON_recv_buf' = buf
              /\ UNCHANGED <<cJSON_prase_buf, recv_over_flag, start_recv_flag, cut>>
  /\ UNCHANGED <<recv_jpeg_flag, last_data, jpeg_recv_len, jpeg_recv_buf, overrun>>

\* cJSON_recv_buf[recv_cur_pos++] or jpeg_recv_buf[recv_cur_pos++] beyond the buffer,
\* or cJSON_recv_buf[recv_cur_pos - 2] before it, which may look like an end marker.
IsrOverrun(b) ==
  /\ start_recv_flag
  /\ \/ recv_jpeg_flag /\ recv_cur_pos >= JPEG_BUF_LEN
     \/ ~recv_jpeg_flag /\ recv_cur_pos >= PROTOCOL_BUF_LEN
     \/ ~recv_jpeg_flag /\ recv_cur_pos = 0 /\ b = g_pkt_head.json_end[2]
  /\ overrun' = TRUE
  /\ UNCHANGED <<recv_over_flag, recv_jpeg_flag, start_recv_flag, recv_cur_pos, last_data,
                 jpeg_recv_len, bufVars, cut>>

SlipIsrJsonStart(b) ==                   \* the position is not set back
  /\ ~recv_jpeg_flag /\ ~start_recv_flag
  /\ start_recv_flag' = (IF pkt_fix THEN <<last_data, b>> = g_pkt_head.json_start
                                    ELSE <<b>> = g_pkt_head.json_start)
  /\ last_data' = IF pkt_fix THEN b ELSE last_data
  /\ UNCHANGED <<recv_cur_pos, cJSON_recv_buf, recv_over_flag, recv_jpeg_flag,
                 jpeg_recv_len, cJSON_prase_buf, jpeg_recv_buf, cut, overrun>>

IsrJsonStart(b) ==
  /\ ~recv_jpeg_flag /\ ~start_recv_flag
  /\ LET found == IF pkt_fix THEN <<last_data, b>> = g_pkt_head.json_start
                             ELSE <<b>> = g_pkt_head.json_start
     IN  IF found
         THEN /\ start_recv_flag' = TRUE
              /\ recv_cur_pos' = Len(g_pkt_head.json_start)
              /\ cJSON_recv_buf' = g_pkt_head.json_start
              /\ last_data' = IF pkt_fix THEN Zero ELSE last_data
         ELSE /\ last_data' = IF pkt_fix THEN b ELSE last_data
              /\ UNCHANGED <<start_recv_flag, recv_cur_pos, cJSON_recv_buf>>
  /\ UNCHANGED <<recv_over_flag, recv_jpeg_flag, jpeg_recv_len, cJSON_prase_buf,
                 jpeg_recv_buf, cut, overrun>>

Isr(b) ==
  IsrJpegData(b) \/ IsrJpegStart(b) \/ IsrJsonData(b) \/ IsrJsonStart(b) \/ IsrOverrun(b)

-----------------------------------------------------------------------------
(* The host (external)                                                     *)

HostCommand(c) ==
  /\ host.phase = "idle" /\ host.n < MaxCmds
  /\ host' = [host EXCEPT !.phase = "command", !.out = JsonFrame(c), !.cmd = c, !.n = @ + 1]
  /\ UNCHANGED <<pkt_fix, recv_over_flag, isrVars, bufVars, mainVars, pc>>

\* One byte over the wire, taken by the interrupt.
HostByte ==
  /\ host.out # <<>>
  /\ Isr(Head(host.out))
  /\ host' = [host EXCEPT !.out = Tail(@)]
  /\ UNCHANGED <<pkt_fix, mainVars, pc>>

\* The host stops in the middle of what is left of a picture.
HostStops ==
  /\ host.phase \in {"picture", "tail"} /\ host.out # <<>>
  /\ host' = [host EXCEPT !.out = <<>>]
  /\ UNCHANGED <<pkt_fix, recv_over_flag, isrVars, bufVars, mainVars, pc>>

\* Whatever was left of an abandoned picture is out: the next command may start.
HostIdle ==
  /\ host.phase = "tail" /\ host.out = <<>>
  /\ host' = [host EXCEPT !.phase = "idle"]
  /\ UNCHANGED <<pkt_fix, recv_over_flag, isrVars, bufVars, mainVars, pc>>

\* The host's view of an answer: go on with the picture p, or be done.
Answered(picture) ==
  IF picture = Zero THEN [host EXCEPT !.phase = "tail"]
  ELSE [host EXCEPT !.phase = "picture", !.out = JpegFrame(picture), !.pic = picture]

-----------------------------------------------------------------------------
(* The main loop                                                           *)

Goto(label) == pc' = label

\* if (recv_over_flag) ...
LoopTop ==
  /\ pc = "loop"
  /\ Goto(IF recv_over_flag THEN "parse" ELSE "jpeg")
  /\ UNCHANGED <<pkt_fix, recv_over_flag, isrVars, bufVars, mainVars, host>>

\* protocol_prase reads the frame: only a well-formed command starts anything.
Parse ==
  /\ pc = "parse"
  /\ Goto(IF Text(cJSON_prase_buf) = JsonText(CalPic) THEN "start1" ELSE "answer")
  /\ UNCHANGED <<pkt_fix, recv_over_flag, isrVars, bufVars, mainVars, host>>

\* protocol_start_recv_jpeg, as far as the interrupt can tell its parts apart.
StartRecv1 ==
  /\ pc = "start1"
  /\ jpeg_recv_start_flag' = TRUE
  /\ open' = TRUE
  /\ Goto("start2")
  /\ UNCHANGED <<pkt_fix, recv_over_flag, isrVars, bufVars, expired, host>>

StartRecv2 ==
  /\ pc = "start2"
  /\ recv_jpeg_flag' = TRUE
  /\ Goto("start3")
  /\ UNCHANGED <<pkt_fix, recv_over_flag, start_recv_flag, recv_cur_pos, last_data,
                 jpeg_recv_len, cut, overrun, bufVars, mainVars, host>>

StartRecv3 ==
  /\ pc = "start3"
  /\ jpeg_recv_len' = 0
  /\ expired' = FALSE                     \* jpeg_recv_start_time = now
  /\ Goto("ask")
  /\ UNCHANGED <<pkt_fix, recv_over_flag, recv_jpeg_flag, start_recv_flag, recv_cur_pos,
                 last_data, cut, overrun, bufVars, jpeg_recv_start_flag, open, host>>

\* protocol_prase sends its answer: a request for the picture, a result, or an error.
\* The host takes the first answer after its command for the answer to it.
Answer ==
  /\ pc \in {"ask", "answer"}
  /\ \E p \in IF pc = "ask" THEN Pictures ELSE {Zero} :
       host' = IF host.phase = "command" /\ host.out = <<>> THEN Answered(p) ELSE host
  /\ Goto("clear")
  /\ UNCHANGED <<pkt_fix, recv_over_flag, isrVars, bufVars, mainVars>>

SlipClearFlag ==                         \* the frame stays to be parsed
  /\ pc = "clear"
  /\ Goto("jpeg")
  /\ UNCHANGED <<pkt_fix, recv_over_flag, isrVars, bufVars, mainVars, host>>

\* recv_over_flag = 0, whatever came in meanwhile.
ClearFlag ==
  /\ pc = "clear"
  /\ recv_over_flag' = FALSE
  /\ Goto("jpeg")
  /\ UNCHANGED <<pkt_fix, isrVars, bufVars, mainVars, host>>

SlipCheckJpeg ==                         \* only a finished picture ends the wait
  /\ pc = "jpeg"
  /\ Goto(IF jpeg_recv_start_flag THEN "check" ELSE "loop")
  /\ UNCHANGED <<pkt_fix, recv_over_flag, isrVars, bufVars, mainVars, host>>

\* if (jpeg_recv_start_flag) and the ten seconds have passed or not.
CheckJpeg ==
  /\ pc = "jpeg"
  /\ Goto(IF ~jpeg_recv_start_flag THEN "loop" ELSE IF expired THEN "abort1" ELSE "check")
  /\ UNCHANGED <<pkt_fix, recv_over_flag, isrVars, bufVars, mainVars, host>>

SlipAbort1 ==                            \* the interrupt is left in picture mode
  /\ pc = "abort1"
  /\ jpeg_recv_start_flag' = FALSE
  /\ Goto("abort2")
  /\ UNCHANGED <<pkt_fix, recv_over_flag, isrVars, bufVars, expired, open, host>>

\* protocol_stop_recv_jpeg: the mode is left first, then the length is cleared.
Abort1 ==
  /\ pc = "abort1"
  /\ jpeg_recv_start_flag' = FALSE
  /\ recv_jpeg_flag' = FALSE
  /\ cut' = (cut \/ recv_jpeg_flag)
  /\ Goto("abort2")
  /\ UNCHANGED <<pkt_fix, recv_over_flag, start_recv_flag, recv_cur_pos, last_data,
                 jpeg_recv_len, overrun, bufVars, expired, open, host>>

Abort2 ==
  /\ pc = "abort2"
  /\ jpeg_recv_len' = 0
  /\ Goto("timeout")
  /\ UNCHANGED <<pkt_fix, recv_over_flag, recv_jpeg_flag, start_recv_flag, recv_cur_pos,
                 last_data, cut, overrun, bufVars, mainVars, host>>

\* protocol_send_cal_pic_result(7, "timeout to recv jpeg file").
AnswerTimeout ==
  /\ pc = "timeout"
  /\ open' = FALSE
  /\ host' = IF host.phase = "picture" THEN Answered(Zero) ELSE host
  /\ Goto("check")
  /\ UNCHANGED <<pkt_fix, recv_over_flag, isrVars, bufVars, jpeg_recv_start_flag, expired>>

\* if (jpeg_recv_len != 0), after an abort as well.
CheckLen ==
  /\ pc = "check"
  /\ Goto(IF jpeg_recv_len # 0 THEN "cal" ELSE "loop")
  /\ UNCHANGED <<pkt_fix, recv_over_flag, isrVars, bufVars, mainVars, host>>

\* protocol_cal_pic_fea and its answer.
CalPicFea ==
  /\ pc = "cal"
  /\ open' = FALSE
  /\ host' = IF host.phase = "picture" THEN Answered(Zero) ELSE host
  /\ Goto("done")
  /\ UNCHANGED <<pkt_fix, recv_over_flag, isrVars, bufVars, jpeg_recv_start_flag, expired>>

JpegDone ==
  /\ pc = "done"
  /\ jpeg_recv_len' = 0
  /\ jpeg_recv_start_flag' = FALSE
  /\ Goto("loop")
  /\ UNCHANGED <<pkt_fix, recv_over_flag, recv_jpeg_flag, start_recv_flag, recv_cur_pos,
                 last_data, cut, overrun, bufVars, expired, open, host>>

\* Time passes the ten seconds of the wait in progress.
Tick ==
  /\ jpeg_recv_start_flag /\ ~expired
  /\ expired' = TRUE
  /\ UNCHANGED <<pkt_fix, recv_over_flag, isrVars, bufVars, jpeg_recv_start_flag, open, pc,
                 host>>

Main ==
  \/ LoopTop \/ Parse \/ StartRecv1 \/ StartRecv2 \/ StartRecv3 \/ Answer \/ ClearFlag
  \/ CheckJpeg \/ Abort1 \/ Abort2 \/ AnswerTimeout \/ CheckLen \/ CalPicFea \/ JpegDone

-----------------------------------------------------------------------------
Init ==
  /\ pkt_fix \in BOOLEAN
  /\ recv_over_flag = FALSE /\ jpeg_recv_start_flag = FALSE
  /\ recv_jpeg_flag = FALSE /\ start_recv_flag = FALSE
  /\ recv_cur_pos = 0 /\ last_data = Zero /\ jpeg_recv_len = 0
  /\ cJSON_recv_buf = <<>> /\ cJSON_prase_buf = <<>> /\ jpeg_recv_buf = <<>>
  /\ expired = FALSE
  /\ pc = "loop"
  /\ open = FALSE
  /\ cut = FALSE /\ overrun = FALSE
  /\ host = [phase |-> "idle", out |-> <<>>, cmd |-> Zero, pic |-> Zero, n |-> 0]

\* Nothing is known of the program after it has written into somebody else's memory.
Undefined == overrun /\ UNCHANGED vars

Next ==
  \/ /\ ~overrun
     /\ \/ Main
        \/ Tick
        \/ \E c \in Cmds : HostCommand(c)
        \/ HostByte \/ HostStops \/ HostIdle
  \/ Undefined

Spec == Init /\ [][Next]_vars

\* The main loop never blocks, and time passes.  Nothing is assumed of the host.
FairSpec == Spec /\ WF_vars(~overrun /\ Main) /\ WF_vars(~overrun /\ Tick)

-----------------------------------------------------------------------------
(* Properties                                                              *)

\* Every variable has its type.
TypeOK ==
  /\ {pkt_fix, recv_over_flag, jpeg_recv_start_flag, recv_jpeg_flag, start_recv_flag,
      expired, open, cut, overrun} \subseteq BOOLEAN
  /\ recv_cur_pos \in Nat /\ jpeg_recv_len \in 0 .. JPEG_BUF_LEN
  /\ last_data \in Bytes
  /\ {cJSON_recv_buf, cJSON_prase_buf, jpeg_recv_buf} \subseteq Seq(Bytes)
  /\ host.phase \in {"idle", "command", "picture", "tail"}
  /\ host.out \in Seq(Bytes) /\ host.cmd \in Bytes /\ host.pic \in Bytes

\* Where the one position of both buffers may leave them: never in a picture, nor in
\* a command that begins with its own start marker, however many pictures were
\* abandoned before.  It can only in the JSON frame the interrupt takes the rest of an
\* abandoned picture for, until that frame ends (and there it does).
WritesInBounds == overrun => cut /\ ~recv_jpeg_flag

\* The interrupt is in picture mode only during a wait for a picture that is still
\* to be answered: otherwise the device would be deaf to commands for good.
PictureModeOnlyInAWait == recv_jpeg_flag => jpeg_recv_start_flag /\ open

\* A request for a picture is answered at most once: by the timeout or by the
\* result, whichever way the last byte and the ten seconds race each other.
JpegAnsweredOnce == pc \in {"timeout", "cal"} => open

\* What protocol_cal_pic_fea gets is the picture the host sent for this request,
\* whole and without bytes of the frames before it.
PictureIntact ==
  pc = "cal" => SubSeq(jpeg_recv_buf, 1, jpeg_recv_len) = JpegText(host.pic)

\* protocol_prase takes a frame for a command only if the host has just sent that
\* command, whole, and waits for its answer: no command is run twice, and what is
\* left of an abandoned picture is never taken for one.
CommandIsWaitedFor ==
  \A c \in Cmds :
    pc = "parse" /\ Text(cJSON_prase_buf) = JsonText(c) =>
      host.phase = "command" /\ host.out = <<>> /\ host.cmd = c

\* Every request for a picture is answered in the end, whatever the host does, unless
\* the program has left its buffers.
PictureEventuallyAnswered == open ~> ~open \/ overrun
=============================================================================
