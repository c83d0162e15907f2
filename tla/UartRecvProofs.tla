--------------------------- MODULE UartRecvProofs ---------------------------
(***************************************************************************)
(* Proofs about UartRecv for every set of pictures and commands, pictures  *)
(* and buffers of any length, both framings, and any number of commands:   *)
(* the inductive invariant IInv and the invariants it implies.             *)
(*                                                                         *)
(* The frame the host is sending tells, by what is left of it, where the   *)
(* receiver is in it, unless it is lost: then what it has in its buffer    *)
(* can never become the text of a command.  IInv holds until a buffer is   *)
(* left; Outside is what is known then.                                    *)
(***************************************************************************)
EXTENDS UartRecv, SequenceTheorems, WellFoundedInduction, TLAPS

-----------------------------------------------------------------------------
(* The inductive invariant                                                 *)

\* s is what is left of the frame f.
Suffix(s, f) ==
  Len(s) =< Len(f) /\ \A i \in 1 .. Len(s) : s[i] = f[i + Len(f) - Len(s)]

\* The frames, byte by byte (lemma Frames): what the host sends for a command and
\* for a picture in the fixed framing and in the other one, and what is left of them
\* after the markers.
CmdText(fix, c)  == IF fix THEN <<"aa", "55", c>> ELSE <<"7b", c>>
CmdFrame(fix, c) == IF fix THEN <<"aa", "55", c, "55", "aa">> ELSE <<"7b", c, "0d", "0a">>
PicByte(p, fix, n) ==                    \* the byte of a picture with n bytes left
  IF n = 1 THEN IF fix THEN "aa" ELSE "d9"
  ELSE IF n = 2 THEN IF fix THEN "55" ELSE "ff"
  ELSE IF n = PicLen + 3 THEN IF fix THEN "55" ELSE "d8"
  ELSE IF n = PicLen + 4 THEN IF fix THEN "aa" ELSE "ff"
  ELSE p
PicFrame(fix, p) == [i \in 1 .. PicLen + 4 |-> PicByte(p, fix, PicLen + 5 - i)]
PicText(fix, p)  == IF fix THEN [i \in 1 .. PicLen |-> p] ELSE PicFrame(fix, p)

\* Where the data of a picture start in jpeg_recv_buf, and what belongs at place i.
JpegBase == IF pkt_fix THEN 0 ELSE 2
Stored(i) == PicFrame(pkt_fix, host.pic)[IF pkt_fix THEN i + 2 ELSE i]

Types ==
  /\ pkt_fix \in BOOLEAN /\ recv_over_flag \in BOOLEAN /\ jpeg_recv_start_flag \in BOOLEAN
  /\ recv_jpeg_flag \in BOOLEAN /\ start_recv_flag \in BOOLEAN
  /\ expired \in BOOLEAN /\ open \in BOOLEAN /\ cut \in BOOLEAN /\ overrun \in BOOLEAN
  /\ recv_cur_pos \in Nat
  /\ jpeg_recv_len \in 0 .. JPEG_BUF_LEN
  /\ last_data \in Bytes
  /\ cJSON_recv_buf \in Seq(Bytes) /\ cJSON_prase_buf \in Seq(Bytes)
  /\ jpeg_recv_buf \in Seq(Bytes)
  /\ pc \in {"loop", "parse", "start1", "start2", "start3", "ask", "answer", "clear", "jpeg",
             "abort1", "abort2", "timeout", "check", "cal", "done"}
  /\ host \in [phase : {"idle", "command", "picture", "tail"}, out : Seq(Bytes),
               cmd : Bytes, pic : Bytes, n : Nat]

\* What is still to come over the wire is the rest of a command, or of a picture.
HostInv ==
  /\ host.phase = "idle" => host.out = <<>>
  /\ host.phase = "command" => host.cmd \in Cmds /\ Suffix(host.out, CmdFrame(pkt_fix, host.cmd))
  /\ host.phase \in {"picture", "tail"} /\ host.out # <<>> =>
       host.pic \in Pictures /\ Suffix(host.out, PicFrame(pkt_fix, host.pic))

Starting == pc \in {"start1", "start2", "start3", "ask"}

\* Where the main loop, the mode of the interrupt and the host are in a request.
ModeInv ==
  /\ recv_jpeg_flag => /\ jpeg_recv_start_flag /\ open
                       /\ pc \notin {"start2", "abort2", "timeout", "cal", "done"}
  /\ open <=> host.phase = "picture" \/ pc \in {"start2", "start3", "ask"}
  /\ Starting => host.phase = "command" /\ host.out = <<>>
  /\ pc \in {"start2", "start3", "ask", "abort1"} => jpeg_recv_start_flag
  /\ pc \in {"start3", "ask"} => recv_jpeg_flag
  /\ pc \in {"abort2", "timeout"} => ~jpeg_recv_start_flag
  /\ pc \in {"abort1", "abort2", "timeout", "cal"} => open
  /\ jpeg_recv_start_flag => open \/ pc = "done"

\* A length tells that the picture of this request is there, until it is answered.
LenInv ==
  /\ jpeg_recv_len # 0 =>
       \/ pc = "done"
       \/ /\ host.phase = "picture" /\ ~recv_jpeg_flag
          /\ SubSeq(jpeg_recv_buf, 1, jpeg_recv_len) = PicText(pkt_fix, host.pic)
  /\ pc = "cal" => jpeg_recv_len # 0
  /\ pc = "timeout" => jpeg_recv_len = 0

\* In picture mode the interrupt has stored what the host has sent.
JpegInv ==
  recv_jpeg_flag /\ host.phase = "picture" =>
    IF start_recv_flag
    THEN /\ recv_cur_pos >= JpegBase
         /\ host.out # <<>> =>
              /\ recv_cur_pos + Len(host.out) = JpegBase + PicLen + 2
              /\ recv_cur_pos =< Len(jpeg_recv_buf)
              /\ \A i \in 1 .. recv_cur_pos : jpeg_recv_buf[i] = Stored(i)
    ELSE /\ Len(host.out) \in {0, PicLen + 3, PicLen + 4}
         /\ Len(host.out) = PicLen + 3 => last_data = IF pkt_fix THEN "aa" ELSE "ff"

\* The receiver has the first part of the command the host is sending.
InSync ==
  /\ host.phase = "command"
  /\ Len(cJSON_recv_buf) = recv_cur_pos
  /\ recv_cur_pos + Len(host.out) = Len(CmdFrame(pkt_fix, host.cmd))
  /\ \A i \in 1 .. recv_cur_pos : cJSON_recv_buf[i] = CmdFrame(pkt_fix, host.cmd)[i]

\* What the receiver has is no command, whatever comes.
Foul ==
  /\ recv_cur_pos > 0
  /\ \/ cJSON_recv_buf = <<>>
     \/ /\ Len(cJSON_recv_buf) = recv_cur_pos
        /\ \/ cJSON_recv_buf[1] # IF pkt_fix THEN "aa" ELSE "7b"
           \/ pkt_fix /\ recv_cur_pos >= 3 /\ cJSON_recv_buf[3] \in Pictures

\* The picture was abandoned right after its start marker, which the fixed framing
\* takes for that of a command too: what comes next decides.
BetweenMarkers ==
  /\ pkt_fix
  /\ \/ host.phase # "command" /\ Len(host.out) \in {0, PicLen + 2}
     \/ host.phase = "command" /\ Len(host.out) = 5 /\ recv_cur_pos = 2
  /\ \/ recv_cur_pos = 0 /\ cJSON_recv_buf = <<>>
     \/ recv_cur_pos = 2 /\ cJSON_recv_buf = <<"aa", "55">>

\* In JSON mode a frame in progress is the command that is being sent, or none, and
\* it is that command unless a picture was abandoned.
JsonInv ==
  /\ ~overrun
  /\ recv_jpeg_flag \/ ~start_recv_flag => cJSON_recv_buf = <<>>
  /\ ~recv_jpeg_flag /\ start_recv_flag =>
       /\ host.phase # "command" => Len(host.out) =< PicLen + 2
       /\ InSync \/ Foul \/ BetweenMarkers
       /\ (InSync /\ recv_cur_pos > 0) \/ cut
       /\ host.phase = "command" /\ Len(host.out) = 1 =>
            /\ recv_cur_pos >= 1 /\ Len(cJSON_recv_buf) = recv_cur_pos
            /\ cJSON_recv_buf[recv_cur_pos] = IF pkt_fix THEN "55" ELSE "0d"
  /\ host.phase = "command" /\ host.out = <<>> => ~start_recv_flag
  /\ pkt_fix /\ start_recv_flag => last_data = Zero
  /\ pkt_fix /\ ~start_recv_flag /\ Len(host.out) = 2 => last_data # "aa"
  /\ ~recv_jpeg_flag /\ host.phase # "command" /\ Len(host.out) >= PicLen + 3 => cut

\* The frame in cJSON_prase_buf will be, or is being, taken for a command.
Pending ==
  \/ pc = "parse"
  \/ recv_over_flag /\ pc \notin {"start1", "start2", "start3", "ask", "answer", "clear"}

ParseInv ==
  Pending => \A c \in Cmds : Text(cJSON_prase_buf) = CmdText(pkt_fix, c) =>
               host.phase = "command" /\ host.out = <<>> /\ host.cmd = c

IInv == Types /\ HostInv /\ ModeInv /\ LenInv /\ JpegInv /\ JsonInv /\ ParseInv

\* An abandoned picture has taken the interrupt out of a buffer.
Outside == overrun /\ cut /\ ~recv_jpeg_flag /\ Types /\ ModeInv /\ LenInv /\ ParseInv

-----------------------------------------------------------------------------
(* Sequences, buffers and frames                                           *)

\* Short sequences, put together.
LEMMA ShortSequences ==
  ASSUME NEW S, NEW a \in S, NEW b \in S, NEW d \in S, NEW e \in S, NEW f \in S,
         NEW t \in Seq(S)
  PROVE  /\ Len(t) = 2 /\ t[1] = a /\ t[2] = b => t = <<a, b>>
         /\ Len(t) = 3 /\ t[1] = a /\ t[2] = b /\ t[3] = d => t = <<a, b, d>>
         /\ Len(t) = 4 /\ t[1] = a /\ t[2] = b /\ t[3] = d /\ t[4] = e => t = <<a, b, d, e>>
         /\ Len(t) = 5 /\ t[1] = a /\ t[2] = b /\ t[3] = d /\ t[4] = e /\ t[5] = f
              => t = <<a, b, d, e, f>>
OBVIOUS

LEMMA Singleton ==
  ASSUME NEW S, NEW t \in Seq(S), Len(t) = 1
  PROVE  t = <<t[1]>>
OBVIOUS

LEMMA Concatenations ==
  /\ \A a, b \in Bytes : <<a>> \o <<b>> = <<a, b>>
  /\ \A a, b, d \in Bytes : <<a, b>> \o <<d>> = <<a, b, d>>
  /\ \A a, b, d, e \in Bytes : <<a, b>> \o <<d, e>> = <<a, b, d, e>>
  /\ \A a, b, d, e, f \in Bytes : <<a, b, d>> \o <<e, f>> = <<a, b, d, e, f>>
<1>1. ASSUME NEW a \in Bytes, NEW b \in Bytes
      PROVE  <<a>> \o <<b>> = <<a, b>>
  <2> DEFINE l == <<a>> \o <<b>>
  <2>1. <<a>> \in Seq(Bytes) /\ <<b>> \in Seq(Bytes) /\ Len(<<a>>) = 1 /\ Len(<<b>>) = 1
    OBVIOUS
  <2>2. Len(l) = 2 /\ l \in Seq(Bytes)
    BY <2>1
  <2>3. l[1] = a /\ l[2] = b
    BY <2>1
  <2>4. l = <<a, b>>
    <3> HIDE DEF l
    <3> QED BY <2>2, <2>3, ShortSequences
  <2> QED BY <2>4
<1>2. ASSUME NEW a \in Bytes, NEW b \in Bytes, NEW d \in Bytes
      PROVE  <<a, b>> \o <<d>> = <<a, b, d>>
  <2> DEFINE l == <<a, b>> \o <<d>>
  <2>1. <<a, b>> \in Seq(Bytes) /\ <<d>> \in Seq(Bytes) /\ Len(<<a, b>>) = 2 /\ Len(<<d>>) = 1
    OBVIOUS
  <2>2. Len(l) = 3 /\ l \in Seq(Bytes)
    BY <2>1
  <2>3. l[1] = a /\ l[2] = b /\ l[3] = d
    BY <2>1
  <2>4. l = <<a, b, d>>
    <3> HIDE DEF l
    <3> QED BY <2>2, <2>3, ShortSequences
  <2> QED BY <2>4
<1>3. ASSUME NEW a \in Bytes, NEW b \in Bytes, NEW d \in Bytes, NEW e \in Bytes
      PROVE  <<a, b>> \o <<d, e>> = <<a, b, d, e>>
  <2> DEFINE l == <<a, b>> \o <<d, e>>
  <2>1. <<a, b>> \in Seq(Bytes) /\ <<d, e>> \in Seq(Bytes) /\ Len(<<a, b>>) = 2 /\ Len(<<d, e>>) = 2
    OBVIOUS
  <2>2. Len(l) = 4 /\ l \in Seq(Bytes)
    BY <2>1
  <2>3. l[1] = a /\ l[2] = b /\ l[3] = d /\ l[4] = e
    BY <2>1
  <2>4. l = <<a, b, d, e>>
    <3> HIDE DEF l
    <3> QED BY <2>2, <2>3, ShortSequences
  <2> QED BY <2>4
<1>4. ASSUME NEW a \in Bytes, NEW b \in Bytes, NEW d \in Bytes, NEW e \in Bytes, NEW f \in Bytes
      PROVE  <<a, b, d>> \o <<e, f>> = <<a, b, d, e, f>>
  <2> DEFINE l == <<a, b, d>> \o <<e, f>>
  <2>1. <<a, b, d>> \in Seq(Bytes) /\ <<e, f>> \in Seq(Bytes) /\ Len(<<a, b, d>>) = 3 /\ Len(<<e, f>>) = 2
    OBVIOUS
  <2>2. Len(l) = 5 /\ l \in Seq(Bytes)
    BY <2>1
  <2>3. l[1] = a /\ l[2] = b /\ l[3] = d /\ l[4] = e /\ l[5] = f
    BY <2>1
  <2>4. l = <<a, b, d, e, f>>
    <3> HIDE DEF l
    <3> QED BY <2>2, <2>3, ShortSequences
  <2> QED BY <2>4
<1> QED BY <1>1, <1>2, <1>3, <1>4

Put(a, b, c, d, e) == <<a, b>> \o Body(c) \o <<d, e>>
Framed(a, b, c, d, e) ==
  [i \in 1 .. PicLen + 4 |->
     IF i = PicLen + 4 THEN e ELSE IF i = PicLen + 3 THEN d
     ELSE IF i = 2 THEN b ELSE IF i = 1 THEN a ELSE c]

\* A picture and its markers, put together.
LEMMA PictureFrame ==
  \A a, b, c, d, e \in Bytes : Put(a, b, c, d, e) = Framed(a, b, c, d, e)
<1> SUFFICES ASSUME NEW a \in Bytes, NEW b \in Bytes, NEW c \in Bytes, NEW d \in Bytes,
                    NEW e \in Bytes
             PROVE  Put(a, b, c, d, e) = Framed(a, b, c, d, e)
  OBVIOUS
<1> DEFINE body == Body(c)
           l == <<a, b>> \o body
           m == l \o <<d, e>>
           f == Framed(a, b, c, d, e)
<1>0. PicLen \in Nat /\ PicLen >= 1
  BY LenAssumption
<1>1. body \in Seq(Bytes) /\ Len(body) = PicLen /\ \A i \in 1 .. PicLen : body[i] = c
  BY <1>0 DEF Body
<1>2. /\ <<a, b>> \in Seq(Bytes) /\ Len(<<a, b>>) = 2 /\ <<a, b>>[1] = a /\ <<a, b>>[2] = b
      /\ <<d, e>> \in Seq(Bytes) /\ Len(<<d, e>>) = 2 /\ <<d, e>>[1] = d /\ <<d, e>>[2] = e
  OBVIOUS
<1> HIDE DEF body
<1>3. /\ l \in Seq(Bytes) /\ Len(l) = PicLen + 2
      /\ \A i \in 1 .. PicLen + 2 : l[i] = IF i =< 2 THEN <<a, b>>[i] ELSE body[i - 2]
  <2>1. 2 + PicLen = PicLen + 2
    BY <1>0
  <2> QED BY <1>1, <1>2, <2>1, ConcatProperties
<1> HIDE DEF l
<1>4. /\ m \in Seq(Bytes) /\ Len(m) = PicLen + 4
      /\ \A i \in 1 .. PicLen + 4 : m[i] = IF i =< PicLen + 2 THEN l[i]
                                           ELSE <<d, e>>[i - (PicLen + 2)]
  <2>1. PicLen + 2 + 2 = PicLen + 4
    BY <1>0
  <2> QED BY <1>2, <1>3, <2>1, ConcatProperties
<1> HIDE DEF m
<1>5. /\ f \in Seq(Bytes) /\ Len(f) = PicLen + 4
      /\ \A i \in 1 .. PicLen + 4 :
           f[i] = IF i = PicLen + 4 THEN e ELSE IF i = PicLen + 3 THEN d
                  ELSE IF i = 2 THEN b ELSE IF i = 1 THEN a ELSE c
  BY <1>0 DEF Framed
<1> HIDE DEF f
<1>6. ASSUME NEW i \in 1 .. PicLen + 4
      PROVE  m[i] = f[i]
  <2>1. CASE i =< 2
    <3>1. m[i] = <<a, b>>[i] /\ i \in {1, 2}
      BY <1>0, <1>3, <1>4, <2>1
    <3> QED BY <1>0, <1>2, <1>5, <3>1
  <2>2. CASE i > 2 /\ i =< PicLen + 2
    <3>1. m[i] = body[i - 2] /\ i - 2 \in 1 .. PicLen
      BY <1>0, <1>3, <1>4, <2>2
    <3> QED BY <1>0, <1>1, <1>5, <2>2, <3>1
  <2>3. CASE i > PicLen + 2
    <3>1. m[i] = <<d, e>>[i - (PicLen + 2)] /\ i \in {PicLen + 3, PicLen + 4}
      BY <1>0, <1>4, <2>3
    <3>2. CASE i = PicLen + 3
      <4>1. i - (PicLen + 2) = 1
        BY <1>0, <3>2
      <4> QED BY <1>0, <1>2, <1>5, <3>1, <3>2, <4>1
    <3>3. CASE i = PicLen + 4
      <4>1. i - (PicLen + 2) = 2
        BY <1>0, <3>3
      <4> QED BY <1>0, <1>2, <1>5, <3>1, <3>3, <4>1
    <3> QED BY <3>1, <3>2, <3>3
  <2> QED BY <1>0, <2>1, <2>2, <2>3
<1>7. m = f
  BY <1>4, <1>5, <1>6, SeqEqual
<1> QED BY <1>7 DEF l, m, body, f, Put

\* The frames, byte by byte.
LEMMA Frames ==
  ASSUME NEW c \in Bytes, pkt_fix \in BOOLEAN
  PROVE  /\ JsonText(c) = CmdText(pkt_fix, c) /\ JsonFrame(c) = CmdFrame(pkt_fix, c)
         /\ JpegFrame(c) = PicFrame(pkt_fix, c) /\ JpegText(c) = PicText(pkt_fix, c)
<1>0. /\ "aa" \in Bytes /\ "55" \in Bytes /\ "7b" \in Bytes /\ "0d" \in Bytes
      /\ "0a" \in Bytes /\ "ff" \in Bytes /\ "d8" \in Bytes /\ "d9" \in Bytes
  BY DEF Bytes, Marks
<1>1. CASE pkt_fix
  <2>1. /\ g_pkt_head.json_start = <<"aa", "55">> /\ g_pkt_head.json_end = <<"55", "aa">>
        /\ g_pkt_head.jpeg_start = <<"aa", "55">> /\ g_pkt_head.jpeg_end = <<"55", "aa">>
    BY <1>1 DEF g_pkt_head
  <2>2. /\ <<"aa", "55">> \o <<c>> = <<"aa", "55", c>>
        /\ <<"aa", "55", c>> \o <<"55", "aa">> = <<"aa", "55", c, "55", "aa">>
    BY <1>0, Concatenations
  <2>3. JsonText(c) = <<"aa", "55", c>>
    BY <2>1, <2>2 DEF JsonText
  <2>4. JsonFrame(c) = <<"aa", "55", c, "55", "aa">>
    BY <2>1, <2>2, <2>3 DEF JsonFrame
  <2>5. JpegFrame(c) = Framed("aa", "55", c, "55", "aa")
    <3>1. Put("aa", "55", c, "55", "aa") = Framed("aa", "55", c, "55", "aa")
      BY <1>0, PictureFrame
    <3> QED BY <2>1, <3>1 DEF JpegFrame, Put
  <2>6. JpegFrame(c) = PicFrame(pkt_fix, c)
    BY <1>1, <2>5, LenAssumption DEF Framed, PicFrame, PicByte
  <2>7. JpegText(c) = PicText(pkt_fix, c)
    BY <1>1 DEF PicText, JpegText, Body
  <2> QED
    BY <1>1, <2>3, <2>4, <2>6, <2>7 DEF CmdText, CmdFrame
<1>2. CASE ~pkt_fix
  <2>1. /\ g_pkt_head.json_start = <<"7b">> /\ g_pkt_head.json_end = <<"0d", "0a">>
        /\ g_pkt_head.jpeg_start = <<"ff", "d8">> /\ g_pkt_head.jpeg_end = <<"ff", "d9">>
    BY <1>2 DEF g_pkt_head
  <2>2. /\ <<"7b">> \o <<c>> = <<"7b", c>>
        /\ <<"7b", c>> \o <<"0d", "0a">> = <<"7b", c, "0d", "0a">>
    BY <1>0, Concatenations
  <2>3. JsonText(c) = <<"7b", c>>
    BY <2>1, <2>2 DEF JsonText
  <2>4. JsonFrame(c) = <<"7b", c, "0d", "0a">>
    BY <2>1, <2>2, <2>3 DEF JsonFrame
  <2>5. JpegFrame(c) = Framed("ff", "d8", c, "ff", "d9")
    <3>1. Put("ff", "d8", c, "ff", "d9") = Framed("ff", "d8", c, "ff", "d9")
      BY <1>0, PictureFrame
    <3> QED BY <2>1, <3>1 DEF JpegFrame, Put
  <2>6. JpegFrame(c) = PicFrame(pkt_fix, c)
    BY <1>2, <2>5, LenAssumption DEF Framed, PicFrame, PicByte
  <2>7. JpegText(c) = PicText(pkt_fix, c)
    BY <1>2, <2>6 DEF PicText, JpegText
  <2> QED
    BY <1>2, <2>3, <2>4, <2>6, <2>7 DEF CmdText, CmdFrame
<1> QED BY <1>1, <1>2

\* The markers, the data bytes and what a data byte is not.
LEMMA DataBytes ==
  /\ Cmds \subseteq Bytes /\ Pictures \subseteq Bytes /\ Marks \subseteq Bytes
  /\ CalPic \in Cmds
  /\ \A d \in Cmds \cup Pictures : d \notin {"7b", "0d", "0a", "ff", "d8", "d9", "aa", "55", Zero}
  /\ Cmds \cap Pictures = {}
BY DataAssumption DEF Bytes, Cmds, Marks

\* A write keeps a buffer a sequence of bytes, puts the byte at its place and leaves
\* the others.
LEMMA Writing ==
  ASSUME NEW buf \in Seq(Bytes), NEW pos \in Nat, NEW b \in Bytes
  PROVE  /\ WriteAt(buf, pos, b) \in Seq(Bytes)
         /\ Len(WriteAt(buf, pos, b)) >= pos + 1
         /\ Len(buf) =< pos => Len(WriteAt(buf, pos, b)) = pos + 1
         /\ WriteAt(buf, pos, b)[pos + 1] = b
         /\ \A i \in 1 .. Len(buf) : i # pos + 1 => WriteAt(buf, pos, b)[i] = buf[i]
         /\ \A i \in 1 .. pos : i > Len(buf) => WriteAt(buf, pos, b)[i] = Zero
<1> DEFINE len == IF Len(buf) > pos THEN Len(buf) ELSE pos + 1
           w == WriteAt(buf, pos, b)
<1>1. len \in Nat /\ len >= pos + 1 /\ len >= Len(buf)
  OBVIOUS
<1>2. Zero \in Bytes
  BY DEF Bytes, Marks
<1>3. w = [i \in 1 .. len |-> IF i = pos + 1 THEN b
                              ELSE IF i <= Len(buf) THEN buf[i] ELSE Zero]
  BY DEF WriteAt
<1> HIDE DEF len, w
<1>4. w \in Seq(Bytes) /\ Len(w) = len
  BY <1>1, <1>2, <1>3
<1>5. \A i \in 1 .. len : w[i] = IF i = pos + 1 THEN b
                                 ELSE IF i <= Len(buf) THEN buf[i] ELSE Zero
  BY <1>3
<1>6. w[pos + 1] = b
  BY <1>1, <1>5
<1>7. \A i \in 1 .. Len(buf) : i # pos + 1 => w[i] = buf[i]
  BY <1>1, <1>5
<1>8. \A i \in 1 .. pos : i > Len(buf) => w[i] = Zero
  BY <1>1, <1>5
<1>9. Len(w) >= pos + 1 /\ (Len(buf) =< pos => Len(w) = pos + 1)
  BY <1>4 DEF len
<1> QED BY <1>4, <1>6, <1>7, <1>8, <1>9 DEF w

\* A nonempty set of naturals has a least element.
LEMMA LeastNat ==
  ASSUME NEW S \in SUBSET Nat, S # {}
  PROVE  \E m \in S : \A k \in S : m =< k
<1> DEFINE R == OpToRel(<, Nat)
<1>1. IsWellFoundedOn(R, Nat)
  BY NatLessThanWellFounded
<1>2. PICK m \in S : \A k \in Nat : <<k, m>> \in R => k \notin S
  BY <1>1, WFMin
<1>3. ASSUME NEW k \in S
      PROVE  m =< k
  <2>1. k \in Nat /\ m \in Nat
    OBVIOUS
  <2>2. CASE k < m
    <3>1. <<k, m>> \in R
      BY <2>1, <2>2 DEF OpToRel
    <3> QED BY <2>1, <3>1, <1>2
  <2> QED BY <2>1, <2>2
<1> QED BY <1>3

\* The C string at the start of a buffer is a prefix of the buffer.
LEMMA TextIsAPrefix ==
  ASSUME NEW buf \in Seq(Bytes)
  PROVE  /\ Text(buf) \in Seq(Bytes) /\ Len(Text(buf)) =< Len(buf)
         /\ \A i \in 1 .. Len(Text(buf)) : Text(buf)[i] = buf[i]
<1> DEFINE ends == {i \in 1 .. Len(buf) : buf[i] = Zero}
<1>1. CASE ends = {}
  <2>1. Text(buf) = buf
    BY <1>1 DEF Text
  <2> QED BY <2>1
<1>2. CASE ends # {}
  <2>1. PICK m \in ends : \A j \in ends : m =< j
    <3>1. ends \in SUBSET Nat
      OBVIOUS
    <3> QED BY <1>2, <3>1, LeastNat
  <2> DEFINE e == CHOOSE i \in ends : \A j \in ends : i <= j
  <2>2. e \in ends
    BY <2>1
  <2>3. Text(buf) = SubSeq(buf, 1, e - 1)
    BY <1>2 DEF Text
  <2>4. e \in 1 .. Len(buf)
    BY <2>2
  <2> HIDE DEF e, ends
  <2> QED BY <2>3, <2>4
<1> QED BY <1>1, <1>2

\* A sequence is empty when its length is zero.
LEMMA EmptySequence ==
  ASSUME NEW S, NEW s \in Seq(S)
  PROVE  s = <<>> <=> Len(s) = 0
OBVIOUS

\* What is left of a frame: its first byte, and what is left after it.
LEMMA NextOfSuffix ==
  ASSUME NEW S, NEW s \in Seq(S), NEW f \in Seq(S), Suffix(s, f), s # <<>>
  PROVE  /\ Head(s) = f[Len(f) - Len(s) + 1]
         /\ Suffix(Tail(s), f) /\ Tail(s) \in Seq(S) /\ Len(Tail(s)) = Len(s) - 1
         /\ Len(s) >= 1 /\ Len(s) =< Len(f)
<1>1. Len(s) \in Nat /\ Len(s) >= 1 /\ Len(f) \in Nat /\ Len(s) =< Len(f)
  BY DEF Suffix
<1>2. /\ Len(Tail(s)) = Len(s) - 1 /\ Tail(s) \in Seq(S)
      /\ \A i \in 1 .. Len(s) - 1 : Tail(s)[i] = s[i + 1]
  BY <1>1
<1>3. \A i \in 1 .. Len(s) : s[i] = f[i + Len(f) - Len(s)]
  BY DEF Suffix
<1>4. ASSUME NEW i \in 1 .. Len(s) - 1
      PROVE  Tail(s)[i] = f[i + Len(f) - (Len(s) - 1)]
  <2>1. Tail(s)[i] = s[i + 1] /\ i + 1 \in 1 .. Len(s)
    BY <1>1, <1>2
  <2>2. (i + 1) + Len(f) - Len(s) = i + Len(f) - (Len(s) - 1)
    BY <1>1
  <2> QED BY <2>1, <2>2, <1>3
<1>5. Head(s) = s[1] /\ 1 + Len(f) - Len(s) = Len(f) - Len(s) + 1
  BY <1>1
<1> QED BY <1>1, <1>2, <1>3, <1>4, <1>5 DEF Suffix

\* A whole frame is what is left of itself, and nothing is left of any frame.
LEMMA Suffixes ==
  ASSUME NEW S, NEW f \in Seq(S)
  PROVE  Suffix(f, f) /\ Suffix(<<>>, f)
BY DEF Suffix

\* The frames and the texts are sequences of bytes of these lengths.
LEMMA FrameLengths ==
  ASSUME NEW fix \in BOOLEAN, NEW c \in Bytes
  PROVE  /\ CmdText(fix, c) \in Seq(Bytes) /\ CmdFrame(fix, c) \in Seq(Bytes)
         /\ PicFrame(fix, c) \in Seq(Bytes)
         /\ Len(CmdText(fix, c)) = IF fix THEN 3 ELSE 2
         /\ Len(CmdFrame(fix, c)) = IF fix THEN 5 ELSE 4
         /\ Len(PicFrame(fix, c)) = PicLen + 4
<1>0. /\ "aa" \in Bytes /\ "55" \in Bytes /\ "7b" \in Bytes /\ "0d" \in Bytes
      /\ "0a" \in Bytes /\ "ff" \in Bytes /\ "d8" \in Bytes /\ "d9" \in Bytes
  BY DEF Bytes, Marks
<1>1. PicFrame(fix, c) \in Seq(Bytes) /\ Len(PicFrame(fix, c)) = PicLen + 4
  <2>1. PicLen + 4 \in Nat /\ \A n : PicByte(c, fix, n) \in Bytes
    BY <1>0, LenAssumption DEF PicByte
  <2> QED BY <2>1 DEF PicFrame
<1>2. CASE fix
  <2>1. CmdText(fix, c) = <<"aa", "55", c>> /\ CmdFrame(fix, c) = <<"aa", "55", c, "55", "aa">>
    BY <1>2 DEF CmdText, CmdFrame
  <2>2. <<"aa", "55", c>> \in Seq(Bytes) /\ Len(<<"aa", "55", c>>) = 3
    BY <1>0
  <2>3. /\ <<"aa", "55", c, "55", "aa">> \in Seq(Bytes)
        /\ Len(<<"aa", "55", c, "55", "aa">>) = 5
    BY <1>0
  <2> QED BY <1>1, <1>2, <2>1, <2>2, <2>3
<1>3. CASE ~fix
  BY <1>0, <1>1, <1>3 DEF CmdText, CmdFrame
<1> QED BY <1>2, <1>3

\* Where in its frame the receiver is, by the number n of bytes that are left of it.
CmdByte(c, fix, n) ==
  IF n = 3 THEN c
  ELSE IF fix THEN IF n \in {5, 1} THEN "aa" ELSE "55"
  ELSE IF n = 4 THEN "7b" ELSE IF n = 2 THEN "0d" ELSE "0a"

LEMMA CommandBytes ==
  ASSUME NEW fix \in BOOLEAN, NEW c \in Bytes, NEW n \in 1 .. 5
  PROVE  /\ fix => CmdFrame(fix, c)[6 - n] = CmdByte(c, fix, n)
         /\ ~fix /\ n =< 4 => CmdFrame(fix, c)[5 - n] = CmdByte(c, fix, n)
<1>1. n \in {1, 2, 3, 4, 5}
  OBVIOUS
<1>2. CASE fix
  BY <1>1, <1>2 DEF CmdFrame, CmdByte
<1>3. CASE ~fix
  BY <1>1, <1>3 DEF CmdFrame, CmdByte
<1> QED BY <1>2, <1>3

LEMMA PictureBytes ==
  ASSUME NEW fix, NEW p, NEW n \in 1 .. PicLen + 4
  PROVE  PicFrame(fix, p)[PicLen + 5 - n] = PicByte(p, fix, n)
<1>1. PicLen + 5 - n \in 1 .. PicLen + 4 /\ PicLen + 5 - (PicLen + 5 - n) = n
  BY LenAssumption
<1> QED BY <1>1 DEF PicFrame

-----------------------------------------------------------------------------
(* The interrupt takes one byte                                            *)

\* What is common to the four parts of the interrupt: the byte that comes, told by
\* how many are left of its frame, and what is left after it.
LEMMA OneByte ==
  ASSUME Types, HostInv, HostByte
  PROVE  /\ pkt_fix' = pkt_fix /\ pc' = pc /\ open' = open /\ expired' = expired
         /\ jpeg_recv_start_flag' = jpeg_recv_start_flag
         /\ Head(host.out) \in Bytes
         /\ Len(host.out) \in Nat \ {0} /\ Len(host'.out) = Len(host.out) - 1
         /\ host.out # <<>> /\ (host'.out = <<>> <=> Len(host.out) = 1)
         /\ host' \in [phase : {"idle", "command", "picture", "tail"}, out : Seq(Bytes),
                       cmd : Bytes, pic : Bytes, n : Nat]
         /\ host'.phase = host.phase /\ host'.cmd = host.cmd /\ host'.pic = host.pic
         /\ host.phase \in {"command", "picture", "tail"}
         /\ host.phase = "command" =>
              /\ host.cmd \in Cmds /\ Len(host.out) =< (IF pkt_fix THEN 5 ELSE 4)
              /\ Head(host.out) =
                   IF pkt_fix THEN CmdFrame(pkt_fix, host.cmd)[6 - Len(host.out)]
                              ELSE CmdFrame(pkt_fix, host.cmd)[5 - Len(host.out)]
         /\ host.phase # "command" =>
              /\ host.pic \in Pictures /\ Len(host.out) =< PicLen + 4
              /\ Head(host.out) = PicFrame(pkt_fix, host.pic)[PicLen + 5 - Len(host.out)]
         /\ HostInv'
<1> DEFINE out == host.out
<1>1. /\ out # <<>> /\ host' = [host EXCEPT !.out = Tail(out)]
      /\ pkt_fix' = pkt_fix /\ pc' = pc /\ open' = open /\ expired' = expired
      /\ jpeg_recv_start_flag' = jpeg_recv_start_flag
  BY DEF HostByte, mainVars
<1>2. /\ out \in Seq(Bytes) /\ host.cmd \in Bytes /\ host.pic \in Bytes /\ pkt_fix \in BOOLEAN
      /\ host \in [phase : {"idle", "command", "picture", "tail"}, out : Seq(Bytes),
                   cmd : Bytes, pic : Bytes, n : Nat]
  BY DEF Types
<1>3. /\ Tail(out) \in Seq(Bytes) /\ Len(Tail(out)) = Len(out) - 1 /\ Len(out) \in Nat
      /\ Len(out) >= 1 /\ Head(out) \in Bytes /\ (Tail(out) = <<>> <=> Len(out) = 1)
  <2>1. Len(out) \in Nat /\ Len(out) >= 1
    BY <1>1, <1>2
  <2>2. Tail(out) \in Seq(Bytes) /\ Len(Tail(out)) = Len(out) - 1 /\ Head(out) \in Bytes
    BY <1>2, <2>1
  <2>3. Tail(out) = <<>> <=> Len(Tail(out)) = 0
    BY <2>2, EmptySequence
  <2> QED BY <2>1, <2>2, <2>3
<1>4. /\ host'.out = Tail(out) /\ host'.phase = host.phase /\ host'.cmd = host.cmd
      /\ host'.pic = host.pic
      /\ host' \in [phase : {"idle", "command", "picture", "tail"}, out : Seq(Bytes),
                    cmd : Bytes, pic : Bytes, n : Nat]
  BY <1>1, <1>2, <1>3
<1>5. host.phase \in {"command", "picture", "tail"}
  BY <1>1, <1>2 DEF HostInv
<1>6. CASE host.phase = "command"
  <2> DEFINE f == CmdFrame(pkt_fix, host.cmd)
  <2>1. f \in Seq(Bytes) /\ Len(f) = IF pkt_fix THEN 5 ELSE 4
    BY <1>2, FrameLengths
  <2>2. host.cmd \in Cmds /\ Suffix(out, f)
    BY <1>6 DEF HostInv
  <2> HIDE DEF f
  <2>3. /\ Head(out) = f[Len(f) - Len(out) + 1] /\ Suffix(Tail(out), f) /\ Len(out) =< Len(f)
    BY <1>1, <1>2, <2>1, <2>2, NextOfSuffix
  <2>4. Len(f) - Len(out) + 1 = IF pkt_fix THEN 6 - Len(out) ELSE 5 - Len(out)
    BY <1>2, <1>3, <2>1
  <2>5. Head(out) = IF pkt_fix THEN f[6 - Len(out)] ELSE f[5 - Len(out)]
    BY <2>3, <2>4
  <2>6. Len(out) =< (IF pkt_fix THEN 5 ELSE 4) /\ Len(out) \in Nat \ {0}
    BY <1>3, <2>1, <2>3
  <2>8. host.cmd \in Cmds /\ Suffix(Tail(out), CmdFrame(pkt_fix, host.cmd))
    BY <2>2, <2>3 DEF f
  <2>9. HostInv'
    BY <1>1, <1>4, <1>6, <2>8 DEF HostInv
  <2> QED BY <1>1, <1>3, <1>4, <1>5, <1>6, <2>2, <2>5, <2>6, <2>9 DEF f
<1>7. CASE host.phase \in {"picture", "tail"}
  <2> DEFINE f == PicFrame(pkt_fix, host.pic)
  <2>1. f \in Seq(Bytes) /\ Len(f) = PicLen + 4 /\ PicLen \in Nat
    BY <1>2, FrameLengths, LenAssumption
  <2>2. host.pic \in Pictures /\ Suffix(out, f)
    BY <1>1, <1>7 DEF HostInv
  <2> HIDE DEF f
  <2>3. /\ Head(out) = f[Len(f) - Len(out) + 1] /\ Suffix(Tail(out), f) /\ Len(out) =< Len(f)
    BY <1>1, <1>2, <2>1, <2>2, NextOfSuffix
  <2>4. /\ Len(f) - Len(out) + 1 = PicLen + 5 - Len(out)
        /\ Len(out) \in Nat \ {0} /\ Len(out) =< PicLen + 4
    BY <1>3, <2>1, <2>3
  <2>5. Suffix(Tail(out), PicFrame(pkt_fix, host.pic))
    BY <2>3 DEF f
  <2>6. HostInv'
    BY <1>1, <1>4, <1>7, <2>2, <2>5 DEF HostInv
  <2>7. host.phase # "command" /\ Head(out) = f[PicLen + 5 - Len(out)]
    BY <1>7, <2>3, <2>4
  <2> QED BY <1>1, <1>3, <1>4, <1>5, <2>2, <2>4, <2>6, <2>7 DEF f
<1> QED BY <1>5, <1>6, <1>7

\* The byte that comes, by the number of bytes left.
LEMMA TheByte ==
  ASSUME Types, HostInv, HostByte
  PROVE  /\ host.phase = "command" =>
              Head(host.out) = CmdByte(host.cmd, pkt_fix, Len(host.out))
         /\ host.phase # "command" =>
              Head(host.out) = PicByte(host.pic, pkt_fix, Len(host.out))
<1> DEFINE n == Len(host.out)
<1>1. /\ host.cmd \in Bytes /\ host.pic \in Bytes /\ pkt_fix \in BOOLEAN
      /\ n \in Nat /\ n >= 1
  BY OneByte DEF Types
<1>2. CASE host.phase = "command"
  <2>1. /\ n =< (IF pkt_fix THEN 5 ELSE 4)
        /\ Head(host.out) = IF pkt_fix THEN CmdFrame(pkt_fix, host.cmd)[6 - n]
                                       ELSE CmdFrame(pkt_fix, host.cmd)[5 - n]
    BY <1>2, OneByte
  <2> HIDE DEF n
  <2>2. n \in 1 .. 5 /\ (~pkt_fix => n =< 4)
    BY <1>1, <2>1
  <2>3. Head(host.out) = CmdByte(host.cmd, pkt_fix, n)
    BY <1>1, <2>1, <2>2, CommandBytes
  <2> QED BY <1>2, <2>3 DEF n
<1>3. CASE host.phase # "command"
  <2>1. n =< PicLen + 4 /\ Head(host.out) = PicFrame(pkt_fix, host.pic)[PicLen + 5 - n]
    BY <1>3, OneByte
  <2> HIDE DEF n
  <2>2. n \in 1 .. PicLen + 4
    BY <1>1, <2>1, LenAssumption
  <2>3. PicFrame(pkt_fix, host.pic)[PicLen + 5 - n] = PicByte(host.pic, pkt_fix, n)
    BY <2>2, PictureBytes
  <2> QED BY <1>3, <2>1, <2>3 DEF n
<1> QED BY <1>2, <1>3

\* A byte that ends no frame leaves what is known of the frame to be parsed.
LEMMA ByteParse ==
  ASSUME IInv, HostByte, recv_over_flag' = recv_over_flag,
         cJSON_prase_buf' = cJSON_prase_buf
  PROVE  ParseInv'
<1>1. pc' = pc /\ pkt_fix' = pkt_fix /\ host.out # <<>>
  BY OneByte DEF IInv
<1>2. Pending' <=> Pending
  BY <1>1 DEF Pending
<1>3. ASSUME Pending, NEW c \in Cmds, Text(cJSON_prase_buf) = CmdText(pkt_fix, c)
      PROVE  FALSE
  BY <1>1, <1>3 DEF IInv, ParseInv
<1> QED BY <1>1, <1>2, <1>3 DEF ParseInv

\* A byte moves nothing of the main loop, and comes only when no request is starting.
LEMMA ByteMode ==
  ASSUME IInv, HostByte, recv_jpeg_flag' => recv_jpeg_flag
  PROVE  ModeInv' /\ ~Starting /\ (recv_jpeg_flag => host.phase = "picture")
<1>1. /\ pc' = pc /\ open' = open /\ jpeg_recv_start_flag' = jpeg_recv_start_flag
      /\ host.out # <<>> /\ host'.phase = host.phase
  BY OneByte DEF IInv
<1>2. ~Starting
  BY <1>1 DEF IInv, ModeInv
<1>3. ModeInv'
  BY <1>1, <1>2 DEF IInv, ModeInv, Starting
<1>4. recv_jpeg_flag => host.phase = "picture"
  BY <1>2 DEF IInv, ModeInv, Starting
<1> QED BY <1>2, <1>3, <1>4

\* A byte of the picture, or the last one of its end marker.
LEMMA JpegDataByte ==
  ASSUME IInv, HostByte, IsrJpegData(Head(host.out))
  PROVE  IInv'
<1> DEFINE b == Head(host.out)
           n == Len(host.out)
           pos == recv_cur_pos
           w == WriteAt(jpeg_recv_buf, pos, b)
           end == AtEnd(w, pos + 1, b, g_pkt_head.jpeg_end, JPEG_BUF_LEN)
<1>1. /\ recv_jpeg_flag /\ start_recv_flag /\ cut' = cut /\ overrun' = overrun
      /\ jpeg_recv_buf' = w /\ recv_cur_pos' = pos + 1
      /\ IF end THEN /\ start_recv_flag' = FALSE /\ recv_jpeg_flag' = FALSE
                     /\ jpeg_recv_len' = IF pkt_fix THEN (pos + 1) - 2 ELSE pos + 1
                ELSE UNCHANGED <<start_recv_flag, recv_jpeg_flag, jpeg_recv_len>>
      /\ UNCHANGED <<recv_over_flag, last_data, cJSON_recv_buf, cJSON_prase_buf>>
  BY DEF IsrJpegData
<1>2. Types /\ HostInv /\ ModeInv /\ LenInv /\ JpegInv /\ JsonInv
  BY DEF IInv
<1>3. /\ pkt_fix' = pkt_fix /\ pc' = pc /\ open' = open /\ expired' = expired
      /\ jpeg_recv_start_flag' = jpeg_recv_start_flag
      /\ b \in Bytes /\ n \in Nat /\ n >= 1 /\ Len(host'.out) = n - 1 /\ host.out # <<>>
      /\ (host'.out = <<>> <=> n = 1)
      /\ host'.phase = host.phase /\ host'.pic = host.pic
      /\ HostInv' /\ PicLen \in Nat /\ PicLen >= 1
  BY <1>2, OneByte, LenAssumption
<1>4. ModeInv' /\ host.phase = "picture" /\ pc \notin {"cal", "timeout", "done"}
  BY <1>1, <1>2, ByteMode DEF ModeInv
<1>5. ParseInv'
  BY <1>1, ByteParse
<1>6. /\ host.pic \in Pictures /\ host.pic \in Bytes /\ n =< PicLen + 4
      /\ b = PicFrame(pkt_fix, host.pic)[PicLen + 5 - n]
      /\ b = PicByte(host.pic, pkt_fix, n)
  BY <1>2, <1>4, OneByte, TheByte, DataBytes
<1>7. /\ pos \in Nat /\ jpeg_recv_buf \in Seq(Bytes) /\ pkt_fix \in BOOLEAN
      /\ pos >= JpegBase /\ pos + n = JpegBase + PicLen + 2 /\ pos =< Len(jpeg_recv_buf)
      /\ \A i \in 1 .. pos : jpeg_recv_buf[i] = Stored(i)
  BY <1>1, <1>2, <1>3, <1>4 DEF JpegInv, Types
<1>8. /\ w \in Seq(Bytes) /\ pos + 1 =< Len(w) /\ w[pos + 1] = b
      /\ \A i \in 1 .. Len(jpeg_recv_buf) : i # pos + 1 => w[i] = jpeg_recv_buf[i]
  <2>1. /\ w \in Seq(Bytes) /\ w[pos + 1] = b /\ Len(w) >= pos + 1
        /\ \A i \in 1 .. Len(jpeg_recv_buf) : i # pos + 1 => w[i] = jpeg_recv_buf[i]
    BY <1>3, <1>7, Writing
  <2> HIDE DEF w, b, pos
  <2> QED BY <1>7, <2>1
<1> HIDE DEF b, n, pos, w
<1>9. Stored(pos + 1) = b
  <2>1. CASE pkt_fix
    <3>1. pos + 1 + 2 = PicLen + 5 - n
      BY <1>3, <1>7, <2>1 DEF JpegBase
    <3> QED BY <1>6, <2>1, <3>1 DEF Stored
  <2>2. CASE ~pkt_fix
    <3>1. pos + 1 = PicLen + 5 - n
      BY <1>3, <1>7, <2>2 DEF JpegBase
    <3> QED BY <1>6, <2>2, <3>1 DEF Stored
  <2> QED BY <2>1, <2>2
<1>10. \A i \in 1 .. pos + 1 : w[i] = Stored(i)
  <2>1. ASSUME NEW i \in 1 .. pos + 1
        PROVE  w[i] = Stored(i)
    <3>1. CASE i = pos + 1
      BY <1>8, <1>9, <3>1
    <3>2. CASE i # pos + 1
      BY <1>7, <1>8, <3>2
    <3> QED BY <3>1, <3>2
  <2> QED BY <2>1
<1>11. end <=> n = 1
  <2>1. g_pkt_head.jpeg_end = IF pkt_fix THEN <<"55", "aa">> ELSE <<"ff", "d9">>
    BY DEF g_pkt_head
  <2>2. host.pic \notin {"aa", "d9"}
    BY <1>6, DataBytes
  <2>3. n =< PicLen + 2
    BY <1>3, <1>7 DEF JpegBase
  <2>4. CASE n = 1
    <3>1. pos \in 1 .. pos + 1 /\ pos + 1 >= 2
      BY <1>3, <1>7, <2>4 DEF JpegBase
    <3>2. w[pos] = Stored(pos)
      BY <1>10, <3>1
    <3>3. Stored(pos) = PicFrame(pkt_fix, host.pic)[PicLen + 5 - 2]
      <4>1. (IF pkt_fix THEN pos + 2 ELSE pos) = PicLen + 5 - 2
        BY <1>3, <1>7, <2>4 DEF JpegBase
      <4> QED BY <4>1 DEF Stored
    <3>4. PicFrame(pkt_fix, host.pic)[PicLen + 5 - 2] = IF pkt_fix THEN "55" ELSE "ff"
      <4>1. 2 \in 1 .. PicLen + 4
        BY <1>3
      <4>2. PicFrame(pkt_fix, host.pic)[PicLen + 5 - 2] = PicByte(host.pic, pkt_fix, 2)
        BY <4>1, PictureBytes
      <4> QED BY <4>2 DEF PicByte
    <3>5. b = IF pkt_fix THEN "aa" ELSE "d9"
      BY <1>6, <2>4 DEF PicByte
    <3>6. (pos + 1) - 1 = pos
      BY <1>7
    <3> QED BY <2>1, <2>4, <3>1, <3>2, <3>3, <3>4, <3>5, <3>6 DEF AtEnd
  <2>5. CASE n # 1
    <3>1. n # PicLen + 3 /\ n # PicLen + 4
      BY <1>3, <2>3
    <3>2. b # IF pkt_fix THEN "aa" ELSE "d9"
      BY <1>6, <2>2, <2>5, <3>1 DEF PicByte
    <3> QED BY <2>1, <2>5, <3>2 DEF AtEnd
  <2> QED BY <2>4, <2>5
<1> HIDE DEF end
<1>12. JsonInv'
  <2>1. cJSON_recv_buf' = <<>>
    BY <1>1, <1>2 DEF JsonInv
  <2>2. recv_jpeg_flag' \/ ~start_recv_flag'
    BY <1>1
  <2>3. host'.phase # "command"
    BY <1>3, <1>4
  <2>4. pkt_fix' /\ start_recv_flag' => last_data' = Zero
    BY <1>1, <1>2, <1>3 DEF JsonInv
  <2>5. ~start_recv_flag' => Len(host'.out) # 2
    <3>1. CASE n = 1
      BY <1>3, <3>1
    <3>2. CASE n # 1
      BY <1>1, <1>11, <3>2
    <3> QED BY <3>1, <3>2
  <2>6. ~overrun' /\ ~(Len(host'.out) >= PicLen + 3)
    <3>1. ~(n - 1 >= PicLen + 3)
      BY <1>3, <1>7 DEF JpegBase
    <3> QED BY <1>1, <1>2, <1>3, <3>1 DEF JsonInv
  <2> QED BY <2>1, <2>2, <2>3, <2>4, <2>5, <2>6 DEF JsonInv
<1>13. CASE n = 1
  <2>1. /\ start_recv_flag' = FALSE /\ recv_jpeg_flag' = FALSE
        /\ jpeg_recv_len' = IF pkt_fix THEN PicLen ELSE PicLen + 4
        /\ pos + 1 = IF pkt_fix THEN PicLen + 2 ELSE PicLen + 4
    BY <1>1, <1>3, <1>7, <1>11, <1>13 DEF JpegBase
  <2>2. SubSeq(jpeg_recv_buf', 1, jpeg_recv_len') = PicText(pkt_fix', host'.pic)
    <3> DEFINE len == IF pkt_fix THEN PicLen ELSE PicLen + 4
               l == SubSeq(w, 1, len)
               t == PicText(pkt_fix, host.pic)
    <3>1. len \in Nat /\ len >= 1 /\ len =< pos + 1 /\ len =< Len(w)
      BY <1>3, <1>7, <1>8, <2>1
    <3>2. l \in Seq(Bytes) /\ Len(l) = len /\ \A i \in 1 .. len : l[i] = w[i]
      BY <1>8, <3>1
    <3>3. t \in Seq(Bytes) /\ Len(t) = len
      <4>1. PicFrame(pkt_fix, host.pic) \in Seq(Bytes) /\ Len(PicFrame(pkt_fix, host.pic)) = PicLen + 4
        BY <1>6, <1>7, FrameLengths
      <4>2. /\ [i \in 1 .. PicLen |-> host.pic] \in Seq(Bytes)
            /\ Len([i \in 1 .. PicLen |-> host.pic]) = PicLen
        BY <1>3, <1>6
      <4> QED BY <4>1, <4>2 DEF PicText
    <3>4. ASSUME NEW i \in 1 .. len
          PROVE  w[i] = t[i]
      <4>1. w[i] = Stored(i)
        BY <1>7, <1>10, <3>1
      <4>2. CASE pkt_fix
        <5>1. i \in 1 .. PicLen /\ i + 2 = PicLen + 5 - (PicLen + 3 - i)
          BY <1>3, <4>2
        <5>2. PicLen + 3 - i \in 1 .. PicLen + 4 /\ PicLen + 3 - i \in 3 .. PicLen + 2
          BY <1>3, <5>1
        <5>3. PicFrame(pkt_fix, host.pic)[i + 2] = PicByte(host.pic, pkt_fix, PicLen + 3 - i)
          BY <5>1, <5>2, PictureBytes
        <5>4. PicByte(host.pic, pkt_fix, PicLen + 3 - i) = host.pic
          BY <1>3, <5>2 DEF PicByte
        <5>5. t[i] = host.pic
          BY <4>2, <5>1 DEF PicText
        <5> QED BY <4>1, <4>2, <5>3, <5>4, <5>5 DEF Stored
      <4>3. CASE ~pkt_fix
        BY <4>1, <4>3 DEF Stored, PicText
      <4> QED BY <4>2, <4>3
    <3>5. jpeg_recv_buf' = w /\ jpeg_recv_len' = len /\ pkt_fix' = pkt_fix /\ host'.pic = host.pic
      BY <1>1, <1>3, <2>1
    <3> HIDE DEF len, t
    <3>6. l = t
      <4> HIDE DEF l
      <4>1. Len(l) = Len(t) /\ \A i \in 1 .. Len(l) : l[i] = t[i]
        BY <3>2, <3>3, <3>4
      <4> QED BY <3>2, <3>3, <4>1, SeqEqual
    <3>7. t = PicText(pkt_fix', host'.pic)
      BY <3>5 DEF t
    <3> QED BY <3>5, <3>6, <3>7 DEF l
  <2>3. LenInv'
    BY <1>3, <1>4, <2>1, <2>2 DEF LenInv
  <2>4. JpegInv'
    BY <2>1 DEF JpegInv
  <2>5. Types'
    <3>1. recv_cur_pos' \in Nat /\ jpeg_recv_len' \in 0 .. JPEG_BUF_LEN
      BY <1>1, <1>7, <2>1, LenAssumption
    <3>2. cut' \in BOOLEAN /\ overrun' \in BOOLEAN
      BY <1>1, <1>2 DEF Types
    <3>3. /\ cJSON_recv_buf' \in Seq(Bytes) /\ cJSON_prase_buf' \in Seq(Bytes)
          /\ jpeg_recv_buf' \in Seq(Bytes) /\ last_data' \in Bytes /\ recv_over_flag' \in BOOLEAN
      BY <1>1, <1>2, <1>8 DEF Types
    <3> QED BY <1>2, <1>3, <2>1, <3>1, <3>2, <3>3, OneByte DEF Types
  <2> QED BY <1>3, <1>4, <1>5, <1>12, <2>3, <2>4, <2>5 DEF IInv
<1>14. CASE n # 1
  <2>1. /\ start_recv_flag' = start_recv_flag /\ recv_jpeg_flag' = recv_jpeg_flag
        /\ jpeg_recv_len' = jpeg_recv_len
    BY <1>1, <1>11, <1>14
  <2>2. LenInv'
    BY <1>1, <1>2, <1>3, <1>4, <2>1 DEF LenInv
  <2>3. JpegBase' = JpegBase /\ \A i : Stored(i)' = Stored(i)
    BY <1>3 DEF JpegBase, Stored
  <2>4. JpegInv'
    BY <1>1, <1>3, <1>4, <1>7, <1>8, <1>10, <2>1, <2>3 DEF JpegInv, JpegBase
  <2>5. Types'
    <3>1. recv_cur_pos' \in Nat
      BY <1>1, <1>7
    <3> QED BY <1>1, <1>2, <1>3, <1>8, <2>1, <3>1, OneByte DEF Types
  <2> QED BY <1>3, <1>4, <1>5, <1>12, <2>2, <2>4, <2>5 DEF IInv
<1> QED BY <1>13, <1>14

\* A byte of the start marker of the picture.
LEMMA JpegStartByte ==
  ASSUME IInv, HostByte, IsrJpegStart(Head(host.out))
  PROVE  IInv'
<1> DEFINE b == Head(host.out)
           n == Len(host.out)
           w == WriteAt(WriteAt(jpeg_recv_buf, 0, "ff"), 1, "d8")
           found == <<last_data, b>> = g_pkt_head.jpeg_start
<1>1. /\ recv_jpeg_flag /\ ~start_recv_flag /\ cut' = cut /\ overrun' = overrun
      /\ IF found
         THEN /\ start_recv_flag' = TRUE /\ last_data' = Zero
              /\ IF pkt_fix THEN recv_cur_pos' = 0 /\ jpeg_recv_buf' = jpeg_recv_buf
                            ELSE recv_cur_pos' = 2 /\ jpeg_recv_buf' = w
         ELSE /\ last_data' = b
              /\ UNCHANGED <<start_recv_flag, recv_cur_pos, jpeg_recv_buf>>
      /\ UNCHANGED <<recv_over_flag, recv_jpeg_flag, jpeg_recv_len, cJSON_recv_buf,
                     cJSON_prase_buf>>
  BY DEF IsrJpegStart
<1>2. Types /\ HostInv /\ ModeInv /\ LenInv /\ JpegInv /\ JsonInv
  BY DEF IInv
<1>3. /\ pkt_fix' = pkt_fix /\ pc' = pc /\ open' = open /\ expired' = expired
      /\ jpeg_recv_start_flag' = jpeg_recv_start_flag
      /\ b \in Bytes /\ n \in Nat /\ n >= 1 /\ Len(host'.out) = n - 1 /\ host.out # <<>>
      /\ (host'.out = <<>> <=> n = 1)
      /\ host'.phase = host.phase /\ host'.pic = host.pic
      /\ HostInv' /\ PicLen \in Nat /\ PicLen >= 1
  BY <1>2, OneByte, LenAssumption
<1>4. ModeInv' /\ host.phase = "picture" /\ pc \notin {"cal", "timeout", "done"}
  BY <1>1, <1>2, ByteMode DEF ModeInv
<1>5. ParseInv'
  BY <1>1, ByteParse
<1>6. b = PicByte(host.pic, pkt_fix, n) /\ n \in {PicLen + 3, PicLen + 4}
      /\ (n = PicLen + 3 => last_data = IF pkt_fix THEN "aa" ELSE "ff")
  <2>1. b = PicByte(host.pic, pkt_fix, n)
    BY <1>2, <1>4, TheByte
  <2>2. /\ n \in {0, PicLen + 3, PicLen + 4}
        /\ (n = PicLen + 3 => last_data = IF pkt_fix THEN "aa" ELSE "ff")
    BY <1>1, <1>2, <1>4 DEF JpegInv
  <2>3. n # 0
    BY <1>3
  <2> QED BY <2>1, <2>2, <2>3
<1> HIDE DEF b, n
<1>7. (found <=> n = PicLen + 3)
      /\ (n = PicLen + 4 => b = IF pkt_fix THEN "aa" ELSE "ff")
  <2>1. g_pkt_head.jpeg_start = IF pkt_fix THEN <<"aa", "55">> ELSE <<"ff", "d8">>
    BY DEF g_pkt_head
  <2>2. CASE n = PicLen + 3
    <3>1. b = IF pkt_fix THEN "55" ELSE "d8"
      BY <1>3, <1>6, <2>2 DEF PicByte
    <3> QED BY <1>3, <1>6, <2>1, <2>2, <3>1
  <2>3. CASE n = PicLen + 4
    <3>1. b = IF pkt_fix THEN "aa" ELSE "ff"
      BY <1>3, <1>6, <2>3 DEF PicByte
    <3> QED BY <1>3, <1>6, <2>1, <2>3, <3>1
  <2> QED BY <1>6, <2>2, <2>3
<1> HIDE DEF found
<1>8. jpeg_recv_len = 0 /\ cJSON_recv_buf = <<>>
  BY <1>1, <1>2, <1>4 DEF LenInv, JsonInv
<1>9. LenInv'
  BY <1>1, <1>3, <1>4, <1>8 DEF LenInv
<1>10. CASE n = PicLen + 3
  <2>1. /\ start_recv_flag' = TRUE /\ last_data' = Zero /\ recv_cur_pos' = JpegBase
        /\ jpeg_recv_buf' \in Seq(Bytes) /\ recv_cur_pos' =< Len(jpeg_recv_buf')
        /\ (~pkt_fix => jpeg_recv_buf'[1] = "ff" /\ jpeg_recv_buf'[2] = "d8")
    <3>1. CASE pkt_fix
      BY <1>1, <1>2, <1>7, <1>10, <3>1 DEF JpegBase, Types
    <3>2. CASE ~pkt_fix
      <4> DEFINE v == WriteAt(jpeg_recv_buf, 0, "ff")
      <4>1. "ff" \in Bytes /\ "d8" \in Bytes /\ jpeg_recv_buf \in Seq(Bytes)
        BY <1>2 DEF Types, Bytes, Marks
      <4>2. v \in Seq(Bytes) /\ Len(v) >= 1 /\ v[1] = "ff"
        <5>1. v \in Seq(Bytes) /\ v[0 + 1] = "ff" /\ Len(v) >= 0 + 1
          BY <4>1, Writing
        <5> QED BY <5>1
      <4> HIDE DEF v
      <4>3. /\ WriteAt(v, 1, "d8") \in Seq(Bytes) /\ WriteAt(v, 1, "d8")[1 + 1] = "d8"
            /\ Len(WriteAt(v, 1, "d8")) >= 1 + 1
        BY <4>1, <4>2, Writing
      <4>4. \A i \in 1 .. Len(v) : i # 1 + 1 => WriteAt(v, 1, "d8")[i] = v[i]
        BY <4>1, <4>2, Writing
      <4>5. w \in Seq(Bytes) /\ Len(w) >= 2 /\ w[1] = "ff" /\ w[2] = "d8"
        <5>1. Len(v) \in Nat /\ 1 \in 1 .. Len(v)
          BY <4>2
        <5>2. w = WriteAt(v, 1, "d8")
          BY DEF v
        <5> HIDE DEF w
        <5> QED BY <4>2, <4>3, <4>4, <5>1, <5>2
      <4> HIDE DEF w
      <4> QED BY <1>1, <1>7, <1>10, <3>2, <4>5 DEF JpegBase
    <3> QED BY <3>1, <3>2
  <2>2. JpegInv'
    <3>1. JpegBase' = JpegBase /\ JpegBase \in {0, 2}
      BY <1>3 DEF JpegBase
    <3>2. Len(host'.out) = PicLen + 2
      BY <1>3, <1>10
    <3>3. \A i \in 1 .. recv_cur_pos' : jpeg_recv_buf'[i] = Stored(i)'
      <4>1. CASE pkt_fix
        BY <2>1, <4>1 DEF JpegBase
      <4>2. CASE ~pkt_fix
        <5>1. \A i : Stored(i)' = Stored(i)
          BY <1>3 DEF Stored
        <5>2. 1 .. recv_cur_pos' = {1, 2}
          BY <2>1, <4>2 DEF JpegBase
        <5>3. /\ PicFrame(pkt_fix, host.pic)[PicLen + 5 - (PicLen + 4)] = "ff"
              /\ PicFrame(pkt_fix, host.pic)[PicLen + 5 - (PicLen + 3)] = "d8"
          <6>1. PicLen + 4 \in 1 .. PicLen + 4 /\ PicLen + 3 \in 1 .. PicLen + 4
            BY <1>3
          <6>2. /\ PicFrame(pkt_fix, host.pic)[PicLen + 5 - (PicLen + 4)]
                     = PicByte(host.pic, pkt_fix, PicLen + 4)
                /\ PicFrame(pkt_fix, host.pic)[PicLen + 5 - (PicLen + 3)]
                     = PicByte(host.pic, pkt_fix, PicLen + 3)
            BY <6>1, PictureBytes
          <6> QED BY <1>3, <4>2, <6>2 DEF PicByte
        <5>4. PicLen + 5 - (PicLen + 4) = 1 /\ PicLen + 5 - (PicLen + 3) = 2
          BY <1>3
        <5>5. Stored(1) = "ff" /\ Stored(2) = "d8"
          BY <4>2, <5>3, <5>4 DEF Stored
        <5> QED BY <2>1, <4>2, <5>1, <5>2, <5>5
      <4> QED BY <4>1, <4>2
    <3>4. recv_cur_pos' + Len(host'.out) = JpegBase' + PicLen' + 2 /\ recv_cur_pos' >= JpegBase'
      BY <1>3, <2>1, <3>1, <3>2
    <3> QED BY <2>1, <3>3, <3>4 DEF JpegInv
  <2>3. JsonInv'
    <3>1. ~overrun' /\ recv_jpeg_flag' /\ start_recv_flag' /\ last_data' = Zero
          /\ cJSON_recv_buf' = <<>> /\ host'.phase # "command"
      BY <1>1, <1>2, <1>3, <1>4, <1>8, <2>1 DEF JsonInv
    <3> QED BY <3>1 DEF JsonInv
  <2>4. Types'
    <3>1. recv_cur_pos' \in Nat /\ Zero \in Bytes
      BY <2>1 DEF JpegBase, Bytes, Marks
    <3> QED BY <1>1, <1>2, <1>3, <2>1, <3>1, OneByte DEF Types
  <2> QED BY <1>3, <1>4, <1>5, <1>9, <2>2, <2>3, <2>4 DEF IInv
<1>11. CASE n = PicLen + 4
  <2>1. /\ last_data' = b /\ start_recv_flag' = start_recv_flag
        /\ recv_cur_pos' = recv_cur_pos /\ jpeg_recv_buf' = jpeg_recv_buf
    BY <1>1, <1>3, <1>7, <1>11
  <2>2. b = IF pkt_fix THEN "aa" ELSE "ff"
    BY <1>7, <1>11
  <2>3. Len(host'.out) = PicLen + 3
    BY <1>3, <1>11
  <2>4. JpegInv'
    BY <1>1, <1>3, <2>1, <2>2, <2>3 DEF JpegInv
  <2>5. JsonInv'
    <3>1. cJSON_recv_buf' = <<>> /\ recv_jpeg_flag' /\ ~start_recv_flag' /\ ~overrun'
      BY <1>1, <1>2, <1>8, <2>1 DEF JsonInv
    <3>2. Len(host'.out) # 2
      BY <1>3, <2>3
    <3> QED BY <3>1, <3>2 DEF JsonInv
  <2>6. Types'
    BY <1>1, <1>2, <1>3, <2>1, OneByte DEF Types
  <2> QED BY <1>3, <1>4, <1>5, <1>9, <2>4, <2>5, <2>6 DEF IInv
<1> QED BY <1>6, <1>10, <1>11

\* A buffer whose C string is the text of a command starts with that text.
LEMMA CommandText ==
  ASSUME NEW fix \in BOOLEAN, NEW c \in Cmds, NEW buf \in Seq(Bytes),
         Text(buf) = CmdText(fix, c)
  PROVE  /\ fix => Len(buf) >= 3 /\ buf[1] = "aa" /\ buf[3] = c
         /\ ~fix => Len(buf) >= 2 /\ buf[1] = "7b" /\ buf[2] = c
<1> DEFINE t == Text(buf)
<1>1. /\ t \in Seq(Bytes) /\ Len(t) =< Len(buf)
      /\ \A i \in 1 .. Len(t) : t[i] = buf[i]
  BY TextIsAPrefix
<1>2. c \in Bytes
  BY DataBytes
<1>3. Len(t) = IF fix THEN 3 ELSE 2
  BY <1>2, FrameLengths
<1>4. CASE fix
  <2>1. t[1] = "aa" /\ t[3] = c
    BY <1>4 DEF CmdText
  <2> HIDE DEF t
  <2> QED BY <1>1, <1>3, <1>4, <2>1
<1>5. CASE ~fix
  <2>1. t[1] = "7b" /\ t[2] = c
    BY <1>5 DEF CmdText
  <2> HIDE DEF t
  <2> QED BY <1>1, <1>3, <1>5, <2>1
<1> QED BY <1>4, <1>5

\* A byte in a JSON frame.
LEMMA JsonDataByte ==
  ASSUME IInv, HostByte, IsrJsonData(Head(host.out))
  PROVE  IInv'
<1> DEFINE b == Head(host.out)
           n == Len(host.out)
           pos == recv_cur_pos
           buf == cJSON_recv_buf
           w == WriteAt(buf, pos, b)
           end == AtEnd(w, pos + 1, b, g_pkt_head.json_end, PROTOCOL_BUF_LEN)
           start1 == IF pkt_fix THEN "aa" ELSE "7b"
           f == CmdFrame(pkt_fix, host.cmd)
<1>1. /\ ~recv_jpeg_flag /\ start_recv_flag /\ recv_cur_pos' = pos + 1
      /\ overrun' = overrun /\ cut' = IF end THEN FALSE ELSE cut
      /\ IF end THEN /\ cJSON_prase_buf' = SubSeq(w, 1, (pos + 1) - 2)
                     /\ cJSON_recv_buf' = <<>>
                     /\ recv_over_flag' = TRUE /\ start_recv_flag' = FALSE
                ELSE /\ cJSON_recv_buf' = w
                     /\ UNCHANGED <<cJSON_prase_buf, recv_over_flag, start_recv_flag>>
      /\ UNCHANGED <<recv_jpeg_flag, last_data, jpeg_recv_len, jpeg_recv_buf>>
  BY DEF IsrJsonData
<1>2. Types /\ HostInv /\ ModeInv /\ LenInv /\ JpegInv /\ JsonInv
  BY DEF IInv
<1>3. /\ pkt_fix' = pkt_fix /\ pc' = pc /\ open' = open /\ expired' = expired
      /\ jpeg_recv_start_flag' = jpeg_recv_start_flag
      /\ b \in Bytes /\ n \in Nat /\ n >= 1 /\ Len(host'.out) = n - 1
      /\ (host'.out = <<>> <=> n = 1)
      /\ host'.phase = host.phase /\ host'.pic = host.pic /\ host'.cmd = host.cmd
      /\ host.phase \in {"command", "picture", "tail"}
      /\ HostInv' /\ PicLen \in Nat /\ PicLen >= 1 /\ PicLen' = PicLen
  BY <1>2, OneByte, LenAssumption
<1>4. ModeInv'
  BY <1>1, ByteMode
<1>5. /\ pos \in Nat /\ buf \in Seq(Bytes) /\ pkt_fix \in BOOLEAN
      /\ host.phase # "command" => n =< PicLen + 2
      /\ InSync \/ Foul \/ BetweenMarkers
      /\ (InSync /\ pos > 0) \/ cut
      /\ ~overrun
      /\ host.phase = "command" /\ n = 1 =>
           pos >= 1 /\ Len(buf) = pos /\ buf[pos] = IF pkt_fix THEN "55" ELSE "0d"
      /\ pkt_fix => last_data = Zero
  BY <1>1, <1>2 DEF JsonInv, Types
<1>6. /\ host.phase = "command" =>
           host.cmd \in Cmds /\ n =< (IF pkt_fix THEN 5 ELSE 4)
           /\ b = CmdByte(host.cmd, pkt_fix, n)
      /\ host.phase # "command" =>
           host.pic \in Pictures /\ n =< PicLen + 4 /\ b = PicByte(host.pic, pkt_fix, n)
  BY <1>2, OneByte, TheByte
<1>7. LenInv' /\ JpegInv'
  BY <1>1, <1>2, <1>3 DEF LenInv, JpegInv
<1> HIDE DEF b, n, pos, buf
<1>8. Len(buf) =< pos
  <2>1. CASE InSync
    BY <1>5, <2>1 DEF InSync, buf, pos
  <2>2. CASE Foul
    BY <1>5, <2>2 DEF Foul, buf, pos
  <2>3. CASE BetweenMarkers
    <3>1. \/ pos = 0 /\ buf = <<>>
          \/ pos = 2 /\ buf = <<"aa", "55">>
      BY <2>3 DEF BetweenMarkers, buf, pos
    <3>2. Len(<<>>) = 0 /\ Len(<<"aa", "55">>) = 2
      OBVIOUS
    <3>3. Len(buf) = pos
      BY <3>1, <3>2
    <3> QED BY <1>5, <3>3
  <2> QED BY <1>5, <2>1, <2>2, <2>3
<1>9. /\ w \in Seq(Bytes) /\ Len(w) = pos + 1 /\ w[pos + 1] = b
      /\ \A i \in 1 .. Len(buf) : w[i] = buf[i]
      /\ \A i \in 1 .. pos : i > Len(buf) => w[i] = Zero
  <2>1. /\ w \in Seq(Bytes) /\ (Len(buf) =< pos => Len(w) = pos + 1) /\ w[pos + 1] = b
        /\ \A i \in 1 .. Len(buf) : i # pos + 1 => w[i] = buf[i]
        /\ \A i \in 1 .. pos : i > Len(buf) => w[i] = Zero
    BY <1>3, <1>5, Writing
  <2>2. \A i \in 1 .. Len(buf) : i # pos + 1
    BY <1>5, <1>8
  <2> HIDE DEF w
  <2> QED BY <1>8, <2>1, <2>2
<1> HIDE DEF w
<1>10. g_pkt_head.json_end = IF pkt_fix THEN <<"55", "aa">> ELSE <<"0d", "0a">>
  BY DEF g_pkt_head
<1>11. ASSUME end
       PROVE  pos >= 1 /\ b = IF pkt_fix THEN "aa" ELSE "0a"
  BY <1>5, <1>10, <1>11, LenAssumption DEF AtEnd
<1>12. ASSUME host.phase = "command", n = 1
       PROVE  end
  <2>1. pos >= 1 /\ Len(buf) = pos /\ buf[pos] = IF pkt_fix THEN "55" ELSE "0d"
    BY <1>5, <1>12
  <2>2. b = IF pkt_fix THEN "aa" ELSE "0a"
    BY <1>6, <1>12 DEF CmdByte
  <2>3. w[pos] = buf[pos] /\ (pos + 1) - 1 = pos /\ pos + 1 >= 2
    BY <1>5, <1>9, <2>1
  <2> QED BY <1>10, <2>1, <2>2, <2>3 DEF AtEnd
<1>13. ASSUME end
       PROVE  /\ cJSON_prase_buf' \in Seq(Bytes) /\ Len(cJSON_prase_buf') = pos - 1
              /\ \A i \in 1 .. pos - 1 : cJSON_prase_buf'[i] = w[i]
  <2>1. cJSON_prase_buf' = SubSeq(w, 1, pos - 1)
    <3>1. (pos + 1) - 2 = pos - 1
      BY <1>5
    <3> QED BY <1>1, <1>13, <3>1
  <2>2. pos - 1 \in Nat /\ pos - 1 =< Len(w)
    BY <1>5, <1>9, <1>11, <1>13
  <2> QED BY <1>9, <2>1, <2>2
<1> HIDE DEF end
<1>14. ASSUME InSync
       PROVE  /\ ~end => InSync'
              /\ end => \A c \in Cmds : Text(cJSON_prase_buf') = CmdText(pkt_fix, c) =>
                          host.phase = "command" /\ n = 1 /\ host.cmd = c
  <2>1. host.phase = "command" /\ host.cmd \in Cmds /\ host.cmd \in Bytes
    BY <1>6, <1>14, DataBytes DEF InSync
  <2>2. /\ Len(buf) = pos /\ pos + n = IF pkt_fix THEN 5 ELSE 4
        /\ \A i \in 1 .. pos : buf[i] = f[i]
    BY <1>5, <1>14, <2>1, FrameLengths DEF InSync, buf, pos, n
  <2>3. b = f[pos + 1]
    <3>1. b = IF pkt_fix THEN f[6 - n] ELSE f[5 - n]
      BY <1>2, <2>1, OneByte DEF b, n
    <3>2. pos + 1 = IF pkt_fix THEN 6 - n ELSE 5 - n
      BY <1>3, <1>5, <2>2
    <3> QED BY <3>1, <3>2
  <2>4. \A i \in 1 .. pos + 1 : w[i] = f[i]
    <3>1. ASSUME NEW i \in 1 .. pos + 1
          PROVE  w[i] = f[i]
      <4>1. CASE i = pos + 1
        BY <1>9, <2>3, <4>1
      <4>2. CASE i # pos + 1
        BY <1>5, <1>9, <2>2, <4>2
      <4> QED BY <4>1, <4>2
    <3> QED BY <3>1
  <2>5. ASSUME ~end
        PROVE  InSync'
    <3>1. cJSON_recv_buf' = w /\ recv_cur_pos' = pos + 1
      BY <1>1, <2>5
    <3>2. f' = f /\ Len(f) = IF pkt_fix THEN 5 ELSE 4
      BY <1>3, <1>5, <2>1, FrameLengths
    <3>3. recv_cur_pos' + Len(host'.out) = Len(f')
      BY <1>3, <1>5, <2>2, <3>1, <3>2
    <3>4. Len(cJSON_recv_buf') = recv_cur_pos'
      BY <1>9, <3>1
    <3>5. \A i \in 1 .. recv_cur_pos' : cJSON_recv_buf'[i] = f'[i]
      BY <2>4, <3>1, <3>2
    <3> QED BY <1>3, <2>1, <3>3, <3>4, <3>5 DEF InSync
  <2>6. ASSUME end, NEW c \in Cmds, Text(cJSON_prase_buf') = CmdText(pkt_fix, c)
        PROVE  n = 1 /\ host.cmd = c
    <3>1. /\ pkt_fix => Len(cJSON_prase_buf') >= 3 /\ cJSON_prase_buf'[3] = c
          /\ ~pkt_fix => Len(cJSON_prase_buf') >= 2 /\ cJSON_prase_buf'[2] = c
      BY <1>5, <1>13, <2>6, CommandText
    <3>2. CASE pkt_fix
      <4>1. pos - 1 >= 3
        BY <1>13, <2>6, <3>1, <3>2
      <4>2. n = 1
        BY <1>3, <1>5, <2>2, <3>2, <4>1
      <4>3. cJSON_prase_buf'[3] = f[3]
        BY <1>5, <1>13, <2>4, <2>6, <4>1
      <4>4. f[3] = host.cmd
        BY <3>2 DEF CmdFrame
      <4> QED BY <3>1, <3>2, <4>2, <4>3, <4>4
    <3>3. CASE ~pkt_fix
      <4>1. pos - 1 >= 2
        BY <1>13, <2>6, <3>1, <3>3
      <4>2. n = 1
        BY <1>3, <1>5, <2>2, <3>3, <4>1
      <4>3. cJSON_prase_buf'[2] = f[2]
        BY <1>5, <1>13, <2>4, <2>6, <4>1
      <4>4. f[2] = host.cmd
        BY <3>3 DEF CmdFrame
      <4> QED BY <3>1, <3>3, <4>2, <4>3, <4>4
    <3> QED BY <3>2, <3>3
  <2> QED BY <2>1, <2>5, <2>6
<1>15. ASSUME Foul
       PROVE  /\ ~end => Foul'
              /\ end => \A c \in Cmds : Text(cJSON_prase_buf') # CmdText(pkt_fix, c)
  <2>1. /\ pos >= 1
        /\ \/ buf = <<>>
           \/ /\ Len(buf) = pos
              /\ buf[1] # start1 \/ (pkt_fix /\ pos >= 3 /\ buf[3] \in Pictures)
    BY <1>5, <1>15 DEF Foul, buf, pos
  <2>2. w[1] # start1 \/ (pkt_fix /\ pos >= 3 /\ w[3] \in Pictures)
    <3>1. CASE buf = <<>>
      <4>1. Len(buf) = 0 /\ 1 \in 1 .. pos
        BY <1>5, <2>1, <3>1
      <4>2. w[1] = Zero
        BY <1>9, <4>1
      <4> QED BY <4>2 DEF Zero
    <3>2. CASE Len(buf) = pos
      <4>1. w[1] = buf[1] /\ (pos >= 3 => w[3] = buf[3])
        BY <1>5, <1>9, <2>1, <3>2
      <4>2. buf # <<>>
        BY <1>5, <2>1, <3>2, EmptySequence
      <4> QED BY <2>1, <4>1, <4>2
    <3> QED BY <2>1, <3>1, <3>2
  <2>3. ASSUME ~end
        PROVE  Foul'
    <3>1. cJSON_recv_buf' = w /\ recv_cur_pos' = pos + 1
      BY <1>1, <2>3
    <3>2. recv_cur_pos' > 0 /\ Len(cJSON_recv_buf') = recv_cur_pos'
      BY <1>5, <1>9, <3>1
    <3>3. pos >= 3 => recv_cur_pos' >= 3
      BY <1>5, <3>1
    <3> QED BY <1>3, <2>2, <3>1, <3>2, <3>3 DEF Foul
  <2>4. ASSUME end, NEW c \in Cmds, Text(cJSON_prase_buf') = CmdText(pkt_fix, c)
        PROVE  FALSE
    <3>1. /\ pkt_fix => /\ Len(cJSON_prase_buf') >= 3 /\ cJSON_prase_buf'[1] = "aa"
                        /\ cJSON_prase_buf'[3] = c
          /\ ~pkt_fix => Len(cJSON_prase_buf') >= 2 /\ cJSON_prase_buf'[1] = "7b"
      BY <1>5, <1>13, <2>4, CommandText
    <3>2. pos - 1 >= 2 /\ (pkt_fix => pos - 1 >= 3)
      BY <1>5, <1>13, <2>4, <3>1
    <3>3. cJSON_prase_buf'[1] = w[1] /\ (pkt_fix => cJSON_prase_buf'[3] = w[3])
      BY <1>5, <1>13, <2>4, <3>2
    <3>4. w[1] = start1
      BY <3>1, <3>3
    <3>5. pkt_fix /\ w[3] \in Pictures /\ w[3] = c
      BY <2>2, <3>1, <3>3, <3>4
    <3> QED BY <3>5, DataBytes
  <2> QED BY <2>3, <2>4
<1>16. ASSUME BetweenMarkers
       PROVE  /\ ~end => Foul'
              /\ end => \A c \in Cmds : Text(cJSON_prase_buf') # CmdText(pkt_fix, c)
  <2>1. /\ pkt_fix
        /\ \/ host.phase # "command" /\ n = PicLen + 2
           \/ host.phase = "command" /\ n = 5 /\ pos = 2
        /\ \/ pos = 0 /\ buf = <<>>
           \/ pos = 2 /\ buf = <<"aa", "55">>
    BY <1>3, <1>16 DEF BetweenMarkers, buf, pos, n
  <2>2. CASE host.phase # "command" /\ n = PicLen + 2
    <3>1. b = host.pic /\ host.pic \in Pictures /\ host.pic # "aa"
      BY <1>3, <1>6, <2>2, DataBytes DEF PicByte
    <3>2. ~end
      BY <1>11, <2>1, <3>1
    <3>3. cJSON_recv_buf' = w /\ recv_cur_pos' = pos + 1
      BY <1>1, <3>2
    <3>4. /\ recv_cur_pos' > 0 /\ Len(cJSON_recv_buf') = recv_cur_pos'
          /\ pkt_fix' = pkt_fix
      BY <1>3, <1>5, <1>9, <3>3
    <3>5. CASE pos = 0
      <4>1. w[1] = b /\ w[1] # start1
        BY <1>9, <2>1, <3>1, <3>5
      <4>2. cJSON_recv_buf'[1] # IF pkt_fix' THEN "aa" ELSE "7b"
        BY <3>3, <3>4, <4>1
      <4> QED BY <3>2, <3>4, <4>2 DEF Foul
    <3>6. CASE pos = 2
      <4>1. w[3] \in Pictures /\ recv_cur_pos' >= 3
        BY <1>9, <3>1, <3>3, <3>6
      <4>2. pkt_fix' /\ cJSON_recv_buf'[3] \in Pictures'
        BY <2>1, <3>3, <3>4, <4>1
      <4> QED BY <3>2, <3>4, <4>1, <4>2 DEF Foul
    <3> QED BY <2>1, <3>2, <3>5, <3>6
  <2>3. CASE host.phase = "command" /\ n = 5 /\ pos = 2
    <3>1. b = "aa" /\ buf = <<"aa", "55">>
      BY <1>6, <2>1, <2>3 DEF CmdByte
    <3>2. w[2] = "55"
      BY <1>9, <3>1
    <3>3. end
      BY <1>10, <2>1, <2>3, <3>1, <3>2 DEF end, AtEnd
    <3>4. Len(cJSON_prase_buf') = 1
      BY <1>13, <2>3, <3>3
    <3>5. ASSUME NEW c \in Cmds, Text(cJSON_prase_buf') = CmdText(pkt_fix, c)
          PROVE  FALSE
      <4>1. pkt_fix /\ cJSON_prase_buf' \in Seq(Bytes)
        BY <1>13, <2>1, <3>3
      <4>2. pkt_fix => Len(cJSON_prase_buf') >= 3
        BY <1>5, <3>5, <4>1, CommandText
      <4> QED BY <3>4, <4>1, <4>2
    <3> QED BY <3>3, <3>5
  <2> QED BY <2>1, <2>2, <2>3
<1>17. ASSUME end, NEW c \in Cmds, Text(cJSON_prase_buf') = CmdText(pkt_fix, c)
       PROVE  host.phase = "command" /\ n = 1 /\ host.cmd = c
  BY <1>5, <1>14, <1>15, <1>16, <1>17
<1>18. ParseInv'
  <2>1. CASE end
    BY <1>3, <1>17, <2>1 DEF ParseInv
  <2>2. CASE ~end
    BY <1>1, <2>2, ByteParse
  <2> QED BY <2>1, <2>2
<1>19. JsonInv'
  <2>1. CASE end
    <3>1. cJSON_recv_buf' = <<>> /\ start_recv_flag' = FALSE /\ last_data' = last_data
      BY <1>1, <2>1
    <3>2. pkt_fix => last_data # "aa"
      BY <1>5 DEF Zero
    <3>3. ~overrun' /\ ~(host'.phase # "command" /\ Len(host'.out) >= PicLen' + 3)
      <4>1. host.phase # "command" => ~(n - 1 >= PicLen + 3)
        BY <1>3, <1>5
      <4> QED BY <1>1, <1>3, <1>5, <4>1
    <3> QED BY <1>3, <3>1, <3>2, <3>3 DEF JsonInv
  <2>2. CASE ~end
    <3>1. /\ cJSON_recv_buf' = w /\ start_recv_flag' = start_recv_flag
          /\ last_data' = last_data /\ recv_cur_pos' = pos + 1
          /\ recv_jpeg_flag' = recv_jpeg_flag
      BY <1>1, <2>2
    <3>2. InSync' \/ Foul' \/ BetweenMarkers'
      BY <1>5, <1>14, <1>15, <1>16, <2>2
    <3>3. /\ host'.phase # "command" => Len(host'.out) =< PicLen' + 2
          /\ ~(host'.phase # "command" /\ Len(host'.out) >= PicLen' + 3)
      <4>1. host.phase # "command" => n - 1 =< PicLen + 2 /\ ~(n - 1 >= PicLen + 3)
        BY <1>3, <1>5
      <4> QED BY <1>3, <4>1
    <3>6. ((InSync' /\ recv_cur_pos' > 0) \/ cut') /\ ~overrun'
      <4>1. cut' = cut /\ recv_cur_pos' > 0
        BY <1>1, <1>5, <2>2
      <4> QED BY <1>1, <1>5, <1>14, <2>2, <4>1
    <3>4. ~(host.phase = "command" /\ n = 1)
      BY <1>12, <2>2
    <3>5. ASSUME host'.phase = "command", Len(host'.out) = 1
          PROVE  /\ recv_cur_pos' >= 1 /\ Len(cJSON_recv_buf') = recv_cur_pos'
                 /\ cJSON_recv_buf'[recv_cur_pos'] = IF pkt_fix' THEN "55" ELSE "0d"
      <4>1. n = 2 /\ host.phase = "command"
        <5>1. n \in Nat /\ host.phase = "command"
          BY <1>3, <3>5
        <5>2. n - 1 = 1
          BY <1>3, <3>5
        <5> QED BY <5>1, <5>2
      <4>2. b = IF pkt_fix THEN "55" ELSE "0d"
        BY <1>6, <4>1 DEF CmdByte
      <4> QED BY <1>3, <1>5, <1>9, <3>1, <4>2
    <3> QED BY <1>1, <1>3, <1>5, <3>1, <3>2, <3>3, <3>4, <3>5, <3>6 DEF JsonInv
  <2> QED BY <2>1, <2>2
<1>20. Types'
  <2>1. recv_cur_pos' \in Nat /\ cut' \in BOOLEAN
    <3>1. cut \in BOOLEAN
      BY <1>2 DEF Types
    <3>2. cut' \in BOOLEAN
      <4>1. CASE end
        BY <1>1, <4>1
      <4>2. CASE ~end
        BY <1>1, <3>1, <4>2
      <4> QED BY <4>1, <4>2
    <3>3. recv_cur_pos' = pos + 1 /\ pos \in Nat
      BY <1>1, <1>5
    <3>4. recv_cur_pos' \in Nat
      BY <3>3
    <3> QED BY <3>2, <3>4
  <2>2. CASE end
    <3>1. /\ cJSON_prase_buf' \in Seq(Bytes) /\ cJSON_recv_buf' \in Seq(Bytes)
          /\ recv_over_flag' \in BOOLEAN /\ start_recv_flag' \in BOOLEAN
      <4>1. cJSON_recv_buf' = <<>> /\ recv_over_flag' = TRUE /\ start_recv_flag' = FALSE
        BY <1>1, <2>2
      <4>2. <<>> \in Seq(Bytes)
        OBVIOUS
      <4> QED BY <1>13, <2>2, <4>1, <4>2
    <3> QED BY <1>1, <1>2, <1>3, <2>1, <3>1, OneByte DEF Types
  <2>3. CASE ~end
    BY <1>1, <1>2, <1>3, <1>9, <2>1, <2>3, OneByte DEF Types
  <2> QED BY <2>2, <2>3
<1> QED BY <1>3, <1>4, <1>7, <1>18, <1>19, <1>20 DEF IInv

\* A byte outside a frame, or the last one of the start marker of a JSON frame.
LEMMA JsonStartByte ==
  ASSUME IInv, HostByte, IsrJsonStart(Head(host.out))
  PROVE  IInv'
<1> DEFINE b == Head(host.out)
           n == Len(host.out)
           found == IF pkt_fix THEN <<last_data, b>> = g_pkt_head.json_start
                               ELSE <<b>> = g_pkt_head.json_start
<1>1. /\ ~recv_jpeg_flag /\ ~start_recv_flag /\ cut' = cut /\ overrun' = overrun
      /\ IF found
         THEN /\ start_recv_flag' = TRUE
              /\ recv_cur_pos' = Len(g_pkt_head.json_start)
              /\ cJSON_recv_buf' = g_pkt_head.json_start
              /\ last_data' = IF pkt_fix THEN Zero ELSE last_data
         ELSE /\ last_data' = IF pkt_fix THEN b ELSE last_data
              /\ UNCHANGED <<start_recv_flag, recv_cur_pos, cJSON_recv_buf>>
      /\ UNCHANGED <<recv_over_flag, recv_jpeg_flag, jpeg_recv_len, cJSON_prase_buf,
                     jpeg_recv_buf>>
  BY DEF IsrJsonStart
<1>2. Types /\ HostInv /\ ModeInv /\ LenInv /\ JpegInv /\ JsonInv
  BY DEF IInv
<1>3. /\ pkt_fix' = pkt_fix /\ pc' = pc /\ open' = open /\ expired' = expired
      /\ jpeg_recv_start_flag' = jpeg_recv_start_flag
      /\ b \in Bytes /\ n \in Nat /\ n >= 1 /\ Len(host'.out) = n - 1
      /\ (host'.out = <<>> <=> n = 1)
      /\ host'.phase = host.phase /\ host'.pic = host.pic /\ host'.cmd = host.cmd
      /\ host.phase \in {"command", "picture", "tail"}
      /\ HostInv' /\ PicLen \in Nat /\ PicLen >= 1 /\ PicLen' = PicLen
  BY <1>2, OneByte, LenAssumption
<1>4. ModeInv'
  BY <1>1, ByteMode
<1>5. ParseInv'
  BY <1>1, ByteParse
<1>6. LenInv' /\ JpegInv'
  BY <1>1, <1>2, <1>3 DEF LenInv, JpegInv
<1>7. /\ host.phase = "command" =>
           host.cmd \in Cmds /\ n =< (IF pkt_fix THEN 5 ELSE 4)
           /\ b = CmdByte(host.cmd, pkt_fix, n)
      /\ host.phase # "command" =>
           host.pic \in Pictures /\ n =< PicLen + 4 /\ b = PicByte(host.pic, pkt_fix, n)
  BY <1>2, OneByte, TheByte
<1>8. /\ cJSON_recv_buf = <<>> /\ pkt_fix \in BOOLEAN
      /\ pkt_fix /\ n = 2 => last_data # "aa"
      /\ host.phase # "command" /\ n >= PicLen + 3 => cut
      /\ ~overrun
  BY <1>1, <1>2 DEF JsonInv, Types
<1> HIDE DEF b, n
<1>9. g_pkt_head.json_start = IF pkt_fix THEN <<"aa", "55">> ELSE <<"7b">>
  BY DEF g_pkt_head
<1>10. ASSUME found
       PROVE  IF host.phase = "command" THEN n = 4 ELSE n = PicLen + 3 /\ pkt_fix
  <2>1. CASE pkt_fix
    <3>1. last_data = "aa" /\ b = "55"
      BY <1>9, <1>10, <2>1
    <3>2. CASE host.phase = "command"
      <4>1. n \in {2, 4}
        <5>1. n \in {1, 2, 3, 4, 5}
          BY <1>3, <1>7, <2>1, <3>2
        <5> QED BY <1>7, <2>1, <3>1, <3>2, <5>1, DataBytes DEF CmdByte
      <4> QED BY <1>8, <2>1, <3>1, <3>2, <4>1
    <3>3. CASE host.phase # "command"
      <4>1. n = 2 \/ n = PicLen + 3
        BY <1>7, <2>1, <3>1, <3>3, DataBytes DEF PicByte
      <4> QED BY <1>8, <2>1, <3>1, <3>3, <4>1
    <3> QED BY <3>2, <3>3
  <2>2. CASE ~pkt_fix
    <3>1. b = "7b"
      BY <1>9, <1>10, <2>2
    <3>2. CASE host.phase = "command"
      BY <1>3, <1>7, <2>2, <3>1, <3>2, DataBytes DEF CmdByte
    <3>3. CASE host.phase # "command"
      BY <1>3, <1>7, <2>2, <3>1, <3>3, DataBytes DEF PicByte
    <3> QED BY <3>2, <3>3
  <2> QED BY <2>1, <2>2
<1> HIDE DEF found
<1>11. CASE found
  <2>1. /\ host.phase = "command" => Len(host'.out) = 3
        /\ host.phase # "command" => Len(host'.out) = PicLen + 2 /\ cut
    BY <1>3, <1>8, <1>10, <1>11
  <2>2. /\ recv_cur_pos' = (IF pkt_fix THEN 2 ELSE 1)
        /\ cJSON_recv_buf' = (IF pkt_fix THEN <<"aa", "55">> ELSE <<"7b">>)
        /\ start_recv_flag' = TRUE /\ (pkt_fix => last_data' = Zero)
        /\ last_data' \in {Zero, last_data} /\ ~recv_jpeg_flag'
    <3>1. Len(<<"aa", "55">>) = 2 /\ Len(<<"7b">>) = 1
      OBVIOUS
    <3> QED BY <1>1, <1>9, <1>11, <3>1
  <2>3. Len(cJSON_recv_buf') = recv_cur_pos'
    BY <2>2
  <2>4. InSync' \/ BetweenMarkers'
    <3>1. CASE host.phase = "command"
      <4> DEFINE f == CmdFrame(pkt_fix, host.cmd)
      <4>1. f' = f /\ Len(f) = IF pkt_fix THEN 5 ELSE 4
        BY <1>3, <1>7, <1>8, <3>1, DataBytes, FrameLengths
      <4>2. recv_cur_pos' + Len(host'.out) = Len(f')
        <5>1. Len(host'.out) = 3
          BY <2>1, <3>1
        <5>2. recv_cur_pos' = IF pkt_fix THEN 2 ELSE 1
          BY <2>2
        <5>3. Len(f') = IF pkt_fix THEN 5 ELSE 4
          BY <4>1
        <5> HIDE DEF f
        <5>4. recv_cur_pos' + 3 = Len(f')
          BY <5>2, <5>3
        <5> QED BY <5>1, <5>4
      <4>3. \A i \in 1 .. recv_cur_pos' : cJSON_recv_buf'[i] = f[i]
        <5>1. CASE pkt_fix
          <6>1. 1 .. recv_cur_pos' = {1, 2}
            BY <2>2, <5>1
          <6> QED BY <2>2, <5>1, <6>1 DEF CmdFrame
        <5>2. CASE ~pkt_fix
          <6>1. 1 .. recv_cur_pos' = {1}
            BY <2>2, <5>2
          <6> QED BY <2>2, <5>2, <6>1 DEF CmdFrame
        <5> QED BY <5>1, <5>2
      <4> HIDE DEF f
      <4>4. InSync'
        BY <1>3, <2>3, <3>1, <4>1, <4>2, <4>3 DEF InSync, f
      <4> QED BY <4>4
    <3>2. CASE host.phase # "command"
      BY <1>3, <1>10, <1>11, <2>1, <2>2, <3>2 DEF BetweenMarkers
    <3> QED BY <3>1, <3>2
  <2>5. JsonInv'
    <3>1. /\ Len(host'.out) # 1 \/ host'.phase # "command"
          /\ host'.phase # "command" => Len(host'.out) =< PicLen' + 2
          /\ host'.phase # "command" => cut'
          /\ ~overrun'
      BY <1>1, <1>3, <1>8, <2>1
    <3>2. host'.phase = "command" => host'.out # <<>>
      <4>1. Len(<<>>) = 0
        OBVIOUS
      <4> QED BY <1>3, <2>1, <4>1
    <3>3. (InSync' /\ recv_cur_pos' > 0) \/ cut'
      <4>1. recv_cur_pos' > 0
        BY <2>2
      <4>2. host'.phase = "command" => InSync'
        BY <1>3, <2>1, <2>4 DEF BetweenMarkers
      <4> QED BY <3>1, <4>1, <4>2
    <3> QED BY <1>3, <2>1, <2>2, <2>4, <3>1, <3>2, <3>3 DEF JsonInv
  <2>6. Types'
    <3>1. recv_cur_pos' \in Nat /\ last_data' \in Bytes
      BY <1>2, <2>2 DEF Types, Bytes, Marks
    <3>2. cJSON_recv_buf' \in Seq(Bytes)
      <4>1. "aa" \in Bytes /\ "55" \in Bytes /\ "7b" \in Bytes
        BY DEF Bytes, Marks
      <4> QED BY <2>2, <4>1
    <3> QED BY <1>1, <1>2, <1>3, <2>2, <3>1, <3>2, OneByte DEF Types
  <2> QED BY <1>3, <1>4, <1>5, <1>6, <2>5, <2>6 DEF IInv
<1>12. CASE ~found
  <2>1. /\ last_data' = (IF pkt_fix THEN b ELSE last_data)
        /\ start_recv_flag' = FALSE /\ recv_cur_pos' = recv_cur_pos
        /\ cJSON_recv_buf' = <<>>
    BY <1>1, <1>8, <1>12
  <2>2. pkt_fix /\ n = 3 => b # "aa"
    BY <1>3, <1>7, DataBytes DEF CmdByte, PicByte
  <2>3. JsonInv'
    <3>1. ASSUME Len(host'.out) = 2
          PROVE  n = 3
      <4>1. n - 1 = 2
        BY <1>3, <3>1
      <4>2. n \in Nat
        BY <1>3
      <4> QED BY <4>1, <4>2
    <3>2. ~overrun' /\ (host'.phase # "command" /\ Len(host'.out) >= PicLen' + 3 => cut')
      BY <1>1, <1>3, <1>8
    <3> QED BY <1>3, <2>1, <2>2, <3>1, <3>2 DEF JsonInv
  <2>4. Types'
    BY <1>1, <1>2, <1>3, <2>1, OneByte DEF Types
  <2> QED BY <1>3, <1>4, <1>5, <1>6, <2>3, <2>4 DEF IInv
<1> QED BY <1>11, <1>12

\* An access outside a buffer: of cJSON_recv_buf, in the frame of an abandoned picture.
LEMMA OverrunByte ==
  ASSUME IInv, HostByte, IsrOverrun(Head(host.out))
  PROVE  Outside'
<1> DEFINE n == Len(host.out)
<1>1. /\ start_recv_flag
      /\ \/ recv_jpeg_flag /\ recv_cur_pos >= JPEG_BUF_LEN
         \/ ~recv_jpeg_flag /\ recv_cur_pos >= PROTOCOL_BUF_LEN
         \/ ~recv_jpeg_flag /\ recv_cur_pos = 0
      /\ overrun' = TRUE
      /\ UNCHANGED <<recv_over_flag, recv_jpeg_flag, start_recv_flag, recv_cur_pos, last_data,
                     jpeg_recv_len, bufVars, cut>>
  BY DEF IsrOverrun
<1>2. Types /\ HostInv /\ ModeInv /\ LenInv /\ JpegInv /\ JsonInv
  BY DEF IInv
<1>3. /\ pkt_fix' = pkt_fix /\ pc' = pc /\ open' = open /\ expired' = expired
      /\ jpeg_recv_start_flag' = jpeg_recv_start_flag
      /\ n \in Nat /\ n >= 1 /\ host.out # <<>>
      /\ host'.phase = host.phase /\ host'.pic = host.pic
  BY <1>2, OneByte
<1>4. ModeInv' /\ (recv_jpeg_flag => host.phase = "picture")
  BY <1>1, ByteMode
<1>5. ParseInv'
  BY <1>1, ByteParse DEF bufVars
<1>6. LenInv'
  BY <1>1, <1>2, <1>3 DEF LenInv, bufVars
<1>7. Types'
  BY <1>1, <1>2, <1>3, OneByte DEF Types, bufVars
<1> HIDE DEF n
<1>8. recv_cur_pos \in Nat /\ PicLen \in Nat /\ JPEG_BUF_LEN \in Nat
      /\ JPEG_BUF_LEN >= PicLen + 4 /\ PROTOCOL_BUF_LEN \in Nat /\ PROTOCOL_BUF_LEN >= 5
  BY <1>2, LenAssumption DEF Types
<1>9. ~recv_jpeg_flag
  <2>1. ASSUME recv_jpeg_flag
        PROVE  FALSE
    <3>1. recv_cur_pos + n = JpegBase + PicLen + 2 /\ recv_cur_pos >= JPEG_BUF_LEN
      BY <1>1, <1>2, <1>3, <1>4, <2>1 DEF JpegInv, n
    <3>2. JpegBase \in {0, 2}
      BY DEF JpegBase
    <3> QED BY <1>3, <1>8, <3>1, <3>2
  <2> QED BY <2>1
<1>10. cut
  <2>1. ASSUME InSync, recv_cur_pos > 0
        PROVE  FALSE
    <3>1. recv_cur_pos + n = Len(CmdFrame(pkt_fix, host.cmd))
      BY <2>1 DEF InSync, n
    <3>2. Len(CmdFrame(pkt_fix, host.cmd)) =< 5
      <4>1. host.cmd \in Bytes /\ pkt_fix \in BOOLEAN
        BY <1>2 DEF Types
      <4>2. Len(CmdFrame(pkt_fix, host.cmd)) = IF pkt_fix THEN 5 ELSE 4
        BY <4>1, FrameLengths
      <4> HIDE DEF CmdFrame
      <4> QED BY <4>2
    <3>3. recv_cur_pos >= PROTOCOL_BUF_LEN
      BY <1>1, <1>9, <2>1
    <3>4. recv_cur_pos + n =< 5
      BY <3>1, <3>2
    <3> QED BY <1>3, <1>8, <3>3, <3>4
  <2> QED BY <1>1, <1>2, <1>9, <2>1 DEF JsonInv
<1> QED BY <1>1, <1>4, <1>5, <1>6, <1>7, <1>9, <1>10 DEF Outside

\* The interrupt keeps the invariant, or leaves a buffer.
LEMMA NextByte == IInv /\ HostByte => IInv' \/ Outside'
BY JpegDataByte, JpegStartByte, JsonDataByte, JsonStartByte, OverrunByte DEF HostByte, Isr

-----------------------------------------------------------------------------
(* The host                                                                *)

\* The host starts a command: a receiver that waits between the markers of an
\* abandoned picture takes it as it comes, any other is in step or lost as before.
LEMMA NextCommand ==
  ASSUME IInv, NEW c \in Cmds, HostCommand(c)
  PROVE  IInv'
<1>1. /\ host.phase = "idle" /\ pkt_fix \in BOOLEAN /\ c \in Bytes
      /\ host' = [host EXCEPT !.phase = "command", !.out = JsonFrame(c), !.cmd = c,
                              !.n = host.n + 1]
      /\ UNCHANGED <<pkt_fix, recv_over_flag, isrVars, bufVars, mainVars, pc>>
  BY DataBytes DEF HostCommand, IInv, Types
<1>2. Types /\ HostInv /\ ModeInv /\ LenInv /\ JpegInv /\ JsonInv /\ ParseInv
  BY DEF IInv
<1>3. /\ JsonFrame(c) = CmdFrame(pkt_fix, c) /\ CmdFrame(pkt_fix, c) \in Seq(Bytes)
      /\ Len(CmdFrame(pkt_fix, c)) = IF pkt_fix THEN 5 ELSE 4
  BY <1>1, Frames, FrameLengths
<1>4. /\ host'.phase = "command" /\ host'.out = CmdFrame(pkt_fix, c) /\ host'.cmd = c
      /\ host.out = <<>> /\ Len(host'.out) = IF pkt_fix THEN 5 ELSE 4
      /\ host' \in [phase : {"idle", "command", "picture", "tail"}, out : Seq(Bytes),
                    cmd : Bytes, pic : Bytes, n : Nat]
  <2>1. host.out = <<>> /\ host \in [phase : {"idle", "command", "picture", "tail"},
                                    out : Seq(Bytes), cmd : Bytes, pic : Bytes, n : Nat]
    BY <1>1, <1>2 DEF Types, HostInv
  <2>2. host' = [host EXCEPT !.phase = "command", !.out = CmdFrame(pkt_fix, c), !.cmd = c,
                             !.n = host.n + 1]
    BY <1>1, <1>3
  <2>3. /\ host'.phase = "command" /\ host'.out = CmdFrame(pkt_fix, c) /\ host'.cmd = c
    BY <2>1, <2>2
  <2>4. host' \in [phase : {"idle", "command", "picture", "tail"}, out : Seq(Bytes),
                   cmd : Bytes, pic : Bytes, n : Nat]
    <3>1. host.n + 1 \in Nat /\ c \in Bytes /\ CmdFrame(pkt_fix, c) \in Seq(Bytes)
      BY <1>1, <1>3, <2>1
    <3> HIDE <1>1, <1>3
    <3> QED BY <2>1, <2>2, <3>1
  <2> QED BY <1>3, <2>1, <2>3, <2>4
<1>5. Types'
  BY <1>1, <1>2, <1>4 DEF Types, isrVars, bufVars, mainVars
<1>6. HostInv'
  BY <1>1, <1>3, <1>4, Suffixes DEF HostInv
<1>7. ~open /\ ~Starting /\ ModeInv'
  BY <1>1, <1>2, <1>4 DEF ModeInv, Starting, isrVars, mainVars
<1>8. ~recv_jpeg_flag /\ ~recv_jpeg_flag'
  BY <1>1, <1>2, <1>7 DEF ModeInv, isrVars
<1>9. LenInv'
  BY <1>1, <1>2 DEF LenInv, isrVars
<1>10. JpegInv'
  BY <1>8 DEF JpegInv
<1>11. ParseInv'
  BY <1>1, <1>2 DEF ParseInv, Pending, bufVars
<1>12. JsonInv'
  <2>1. UNCHANGED <<pkt_fix, start_recv_flag, recv_cur_pos, last_data, cJSON_recv_buf>>
    BY <1>1 DEF isrVars, bufVars
  <2>2. ASSUME start_recv_flag
        PROVE  InSync' \/ Foul' \/ BetweenMarkers'
    <3>1. InSync \/ Foul \/ BetweenMarkers
      BY <1>2, <1>8, <2>2 DEF JsonInv
    <3>3. ASSUME Foul
          PROVE  Foul'
      BY <2>1, <3>3 DEF Foul
    <3>4. ASSUME BetweenMarkers
          PROVE  InSync' \/ BetweenMarkers'
      <4>1. /\ pkt_fix
            /\ \/ recv_cur_pos = 0 /\ cJSON_recv_buf = <<>>
               \/ recv_cur_pos = 2 /\ cJSON_recv_buf = <<"aa", "55">>
        BY <3>4 DEF BetweenMarkers
      <4>2. CASE recv_cur_pos = 0 /\ cJSON_recv_buf = <<>>
        <5>1. CmdFrame(pkt_fix', host'.cmd) = CmdFrame(pkt_fix, c)
          BY <1>1, <1>4
        <5>2. Len(<<>>) = 0 /\ 1 .. 0 = {}
          OBVIOUS
        <5>3. /\ recv_cur_pos' = 0 /\ cJSON_recv_buf' = <<>> /\ Len(host'.out) = 5
              /\ Len(CmdFrame(pkt_fix', host'.cmd)) = 5
          BY <1>3, <1>4, <2>1, <4>1, <4>2, <5>1
        <5>4. Len(cJSON_recv_buf') = recv_cur_pos' /\ 1 .. recv_cur_pos' = {}
          BY <5>2, <5>3
        <5>5. recv_cur_pos' + Len(host'.out) = Len(CmdFrame(pkt_fix', host'.cmd))
          BY <5>3
        <5>6. InSync'
          BY <1>4, <5>4, <5>5 DEF InSync
        <5> QED BY <5>6
      <4>3. CASE recv_cur_pos = 2 /\ cJSON_recv_buf = <<"aa", "55">>
        BY <1>4, <2>1, <4>1, <4>3 DEF BetweenMarkers
      <4> QED BY <4>1, <4>2, <4>3
    <3>5. ~InSync
      BY <1>1 DEF InSync
    <3> QED BY <3>1, <3>3, <3>4, <3>5
  <2>5. ~overrun' /\ (start_recv_flag => cut')
    <3>1. ~InSync
      BY <1>1 DEF InSync
    <3> QED BY <1>1, <1>2, <1>8, <3>1 DEF JsonInv, isrVars
  <2>3. Len(host'.out) \notin {0, 1, 2}
    <3>1. CASE pkt_fix
      BY <1>4, <3>1
    <3>2. CASE ~pkt_fix
      BY <1>4, <3>2
    <3> QED BY <3>1, <3>2
  <2>4. host'.out # <<>>
    <3>1. Len(<<>>) = 0
      OBVIOUS
    <3> QED BY <2>3, <3>1
  <2> QED BY <1>2, <1>4, <1>8, <2>1, <2>2, <2>3, <2>4, <2>5 DEF JsonInv
<1> QED BY <1>2, <1>5, <1>6, <1>7, <1>9, <1>10, <1>11, <1>12 DEF IInv

\* The host stops in the middle of a picture, or has nothing left of it to send.
LEMMA NextStop ==
  ASSUME IInv, HostStops \/ HostIdle
  PROVE  IInv'
<1>1. /\ host.phase \in {"picture", "tail"} /\ host'.out = <<>> /\ host'.pic = host.pic
      /\ \/ host'.phase = host.phase
         \/ host.phase = "tail" /\ host'.phase = "idle"
      /\ host' \in [phase : {"idle", "command", "picture", "tail"}, out : Seq(Bytes),
                    cmd : Bytes, pic : Bytes, n : Nat]
      /\ UNCHANGED <<pkt_fix, recv_over_flag, isrVars, bufVars, mainVars, pc>>
  <2>1. host \in [phase : {"idle", "command", "picture", "tail"}, out : Seq(Bytes),
                  cmd : Bytes, pic : Bytes, n : Nat]
    BY DEF IInv, Types
  <2>2. CASE HostStops
    <3>1. host' = [host EXCEPT !.out = <<>>] /\ <<>> \in Seq(Bytes)
      BY <2>2 DEF HostStops
    <3>2. /\ host'.phase = host.phase /\ host'.out = <<>> /\ host'.pic = host.pic
          /\ host' \in [phase : {"idle", "command", "picture", "tail"}, out : Seq(Bytes),
                        cmd : Bytes, pic : Bytes, n : Nat]
      BY <2>1, <3>1
    <3> QED BY <2>2, <3>2 DEF HostStops
  <2>3. CASE HostIdle
    <3>1. host' = [host EXCEPT !.phase = "idle"]
      BY <2>3 DEF HostIdle
    <3>2. /\ host'.phase = "idle" /\ host'.out = host.out /\ host'.pic = host.pic
          /\ host' \in [phase : {"idle", "command", "picture", "tail"}, out : Seq(Bytes),
                        cmd : Bytes, pic : Bytes, n : Nat]
      BY <2>1, <3>1
    <3> QED BY <2>3, <3>2 DEF HostIdle
  <2> QED BY <2>2, <2>3
<1>2. Types /\ HostInv /\ ModeInv /\ LenInv /\ JpegInv /\ JsonInv /\ ParseInv
  BY DEF IInv
<1>3. Len(host'.out) = 0 /\ host.phase # "command" /\ host'.phase # "command"
  BY <1>1
<1>4. Types'
  BY <1>1, <1>2 DEF Types, isrVars, bufVars, mainVars
<1>5. HostInv'
  BY <1>1 DEF HostInv
<1>6. ModeInv'
  BY <1>1, <1>2 DEF ModeInv, Starting, isrVars, mainVars
<1>7. LenInv'
  BY <1>1, <1>2 DEF LenInv, isrVars, bufVars
<1>8. UNCHANGED <<pkt_fix, recv_jpeg_flag, start_recv_flag, recv_cur_pos, last_data,
                  cJSON_recv_buf, cut, overrun>>
  BY <1>1 DEF isrVars, bufVars
<1>9. Len(host.out) \in Nat /\ recv_cur_pos \in Nat
  BY <1>2 DEF Types
<1>10. JpegInv'
  <2>1. JpegBase' = JpegBase
    BY <1>8 DEF JpegBase
  <2>2. Len(host'.out) # PicLen' + 3
    BY <1>3, LenAssumption
  <2>3. host'.phase = "picture" => host.phase = "picture"
    BY <1>1
  <2> QED BY <1>1, <1>2, <1>3, <1>8, <2>1, <2>2, <2>3 DEF JpegInv
<1>11. JsonInv'
  <2>1. ASSUME ~recv_jpeg_flag, start_recv_flag
        PROVE  cut' /\ (Foul' \/ BetweenMarkers')
    <3>1. (InSync \/ Foul \/ BetweenMarkers) /\ (InSync \/ cut)
      BY <1>2, <1>3, <2>1 DEF JsonInv
    <3>2. ~InSync
      BY <1>3 DEF InSync
    <3>3. Foul => Foul'
      BY <1>8 DEF Foul
    <3>4. BetweenMarkers => BetweenMarkers'
      BY <1>3, <1>8 DEF BetweenMarkers
    <3> QED BY <1>8, <3>1, <3>2, <3>3, <3>4
  <2>2. Len(host'.out) =< PicLen' + 2 /\ ~(Len(host'.out) >= PicLen' + 3)
    BY <1>3, LenAssumption
  <2> QED BY <1>2, <1>3, <1>8, <1>9, <2>1, <2>2 DEF JsonInv
<1>12. ParseInv'
  BY <1>1, <1>2, <1>3 DEF ParseInv, Pending, bufVars
<1> QED BY <1>4, <1>5, <1>6, <1>7, <1>10, <1>11, <1>12 DEF IInv

-----------------------------------------------------------------------------
(* The main loop                                                           *)

HostType == [phase : {"idle", "command", "picture", "tail"}, out : Seq(Bytes),
             cmd : Bytes, pic : Bytes, n : Nat]

\* What the interrupt and the host have in hand does not depend on the rest.
LEMMA Quiet ==
  ASSUME HostInv, JpegInv, JsonInv, host' = host,
         UNCHANGED <<pkt_fix, recv_jpeg_flag, start_recv_flag, recv_cur_pos, last_data, cut,
                     overrun, bufVars>>
  PROVE  HostInv' /\ JpegInv' /\ JsonInv'
<1>1. HostInv'
  BY DEF HostInv
<1>2. JpegInv'
  BY DEF JpegInv, JpegBase, Stored, bufVars
<1>3. JsonInv'
  <2>1. (InSync' <=> InSync) /\ (Foul' <=> Foul) /\ (BetweenMarkers' <=> BetweenMarkers)
    BY DEF InSync, Foul, BetweenMarkers, bufVars
  <2> QED BY <2>1 DEF JsonInv, bufVars
<1> QED BY <1>1, <1>2, <1>3

\* The host takes an answer for the end of the request for a picture.
LEMMA RequestOver ==
  ASSUME Types, HostInv, JpegInv, JsonInv, host.phase = "picture", ~recv_jpeg_flag,
         host' = Answered(Zero),
         UNCHANGED <<pkt_fix, recv_jpeg_flag, start_recv_flag, recv_cur_pos, last_data, cut,
                     overrun, bufVars>>
  PROVE  HostInv' /\ JpegInv' /\ JsonInv' /\ host'.phase = "tail" /\ host' \in HostType
<1>1. /\ host'.phase = "tail" /\ host'.out = host.out /\ host'.pic = host.pic
      /\ host' \in HostType
  BY DEF Answered, Types, HostType
<1>2. HostInv'
  BY <1>1 DEF HostInv
<1>3. JpegInv'
  BY <1>1 DEF JpegInv
<1>4. JsonInv'
  <2>1. ~InSync /\ (Foul => Foul') /\ (BetweenMarkers => BetweenMarkers')
    BY <1>1 DEF InSync, Foul, BetweenMarkers, bufVars
  <2>2. host.phase # "command" /\ host'.phase # "command"
    BY <1>1
  <2> QED BY <1>1, <2>1, <2>2 DEF JsonInv, bufVars
<1> QED BY <1>1, <1>2, <1>3, <1>4

LEMMA NextLoopTop == IInv /\ LoopTop => IInv'
<1> SUFFICES ASSUME IInv, LoopTop PROVE IInv'
  OBVIOUS
<1>1. Types /\ HostInv /\ ModeInv /\ LenInv /\ JpegInv /\ JsonInv /\ ParseInv
  BY DEF IInv
<1>2. /\ pc = "loop" /\ pc' = IF recv_over_flag THEN "parse" ELSE "jpeg"
      /\ UNCHANGED <<pkt_fix, recv_over_flag, isrVars, bufVars, mainVars>> /\ host' = host
  BY DEF LoopTop, Goto
<1>3. HostInv' /\ JpegInv' /\ JsonInv'
  BY <1>1, <1>2, Quiet DEF isrVars
<1>4. Types'
  BY <1>1, <1>2 DEF Types, isrVars, bufVars, mainVars
<1>5. ModeInv' /\ LenInv'
  BY <1>1, <1>2 DEF ModeInv, LenInv, Starting, isrVars, bufVars, mainVars
<1>6. ParseInv'
  BY <1>1, <1>2 DEF ParseInv, Pending, bufVars
<1> QED BY <1>1, <1>3, <1>4, <1>5, <1>6 DEF IInv

LEMMA NextParse == IInv /\ Parse => IInv'
<1> SUFFICES ASSUME IInv, Parse PROVE IInv'
  OBVIOUS
<1>1. Types /\ HostInv /\ ModeInv /\ LenInv /\ JpegInv /\ JsonInv /\ ParseInv
  BY DEF IInv
<1>2. /\ pc = "parse"
      /\ pc' = IF Text(cJSON_prase_buf) = JsonText(CalPic) THEN "start1" ELSE "answer"
      /\ UNCHANGED <<pkt_fix, recv_over_flag, isrVars, bufVars, mainVars>> /\ host' = host
  BY DEF Parse, Goto
<1>3. HostInv' /\ JpegInv' /\ JsonInv'
  BY <1>1, <1>2, Quiet DEF isrVars
<1>4. Types'
  BY <1>1, <1>2 DEF Types, isrVars, bufVars, mainVars
<1>5. pc' = "start1" => host.phase = "command" /\ host.out = <<>>
  <2>1. JsonText(CalPic) = CmdText(pkt_fix, CalPic) /\ CalPic \in Cmds
    BY <1>1, Frames, DataBytes DEF Types
  <2> QED BY <1>1, <1>2, <2>1 DEF ParseInv, Pending
<1>6. ModeInv' /\ LenInv'
  <2>1. pc' \in {"start1", "answer"}
    BY <1>2
  <2> QED BY <1>1, <1>2, <1>5, <2>1 DEF ModeInv, LenInv, Starting, isrVars, bufVars, mainVars
<1>7. ParseInv'
  BY <1>2 DEF ParseInv, Pending
<1> QED BY <1>1, <1>3, <1>4, <1>6, <1>7 DEF IInv

\* While a wait for a picture begins, the host waits, and the interrupt has nothing.
LEMMA WhileStarting ==
  ASSUME IInv, Starting
  PROVE  /\ host.phase = "command" /\ host.out = <<>> /\ Len(host.out) = 0
         /\ ~start_recv_flag /\ cJSON_recv_buf = <<>> /\ jpeg_recv_len = 0
<1>1. host.phase = "command" /\ host.out = <<>>
  BY DEF IInv, ModeInv
<1>2. ~start_recv_flag /\ cJSON_recv_buf = <<>>
  BY <1>1 DEF IInv, JsonInv
<1>3. jpeg_recv_len = 0
  BY <1>1 DEF IInv, LenInv, Starting
<1> QED BY <1>1, <1>2, <1>3

LEMMA NextStartRecv1 == IInv /\ StartRecv1 => IInv'
<1> SUFFICES ASSUME IInv, StartRecv1 PROVE IInv'
  OBVIOUS
<1>1. Types /\ HostInv /\ ModeInv /\ LenInv /\ JpegInv /\ JsonInv /\ ParseInv
  BY DEF IInv
<1>2. /\ pc = "start1" /\ pc' = "start2" /\ jpeg_recv_start_flag' = TRUE /\ open' = TRUE
      /\ UNCHANGED <<pkt_fix, recv_over_flag, isrVars, bufVars, expired>> /\ host' = host
  BY DEF StartRecv1, Goto
<1>3. HostInv' /\ JpegInv' /\ JsonInv'
  BY <1>1, <1>2, Quiet DEF isrVars
<1>4. host.phase = "command" /\ host.out = <<>> /\ jpeg_recv_len = 0 /\ ~recv_jpeg_flag
  BY <1>1, <1>2, WhileStarting DEF ModeInv, Starting
<1>5. Types'
  BY <1>1, <1>2 DEF Types, isrVars, bufVars
<1>6. ModeInv' /\ LenInv'
  BY <1>2, <1>4 DEF ModeInv, LenInv, Starting, isrVars
<1>7. ParseInv'
  BY <1>2 DEF ParseInv, Pending
<1> QED BY <1>3, <1>5, <1>6, <1>7 DEF IInv

LEMMA NextStartRecv2 == IInv /\ StartRecv2 => IInv'
<1> SUFFICES ASSUME IInv, StartRecv2 PROVE IInv'
  OBVIOUS
<1>1. Types /\ HostInv /\ ModeInv /\ LenInv /\ JpegInv /\ JsonInv /\ ParseInv
  BY DEF IInv
<1>2. /\ pc = "start2" /\ pc' = "start3" /\ recv_jpeg_flag' = TRUE
      /\ UNCHANGED <<pkt_fix, recv_over_flag, start_recv_flag, recv_cur_pos, last_data,
                     jpeg_recv_len, cut, overrun, bufVars, mainVars>> /\ host' = host
  BY DEF StartRecv2, Goto
<1>3. /\ host.phase = "command" /\ host.out = <<>> /\ Len(host.out) = 0
      /\ ~start_recv_flag /\ cJSON_recv_buf = <<>> /\ jpeg_recv_len = 0
  BY <1>2, WhileStarting DEF Starting
<1>4. HostInv' /\ JpegInv' /\ JsonInv'
  BY <1>1, <1>2, <1>3 DEF HostInv, JpegInv, JsonInv, bufVars
<1>5. Types'
  BY <1>1, <1>2 DEF Types, bufVars, mainVars
<1>6. ModeInv' /\ LenInv'
  BY <1>1, <1>2, <1>3 DEF ModeInv, LenInv, Starting, mainVars
<1>7. ParseInv'
  BY <1>2 DEF ParseInv, Pending
<1> QED BY <1>4, <1>5, <1>6, <1>7 DEF IInv

LEMMA NextStartRecv3 == IInv /\ StartRecv3 => IInv'
<1> SUFFICES ASSUME IInv, StartRecv3 PROVE IInv'
  OBVIOUS
<1>1. Types /\ HostInv /\ ModeInv /\ LenInv /\ JpegInv /\ JsonInv /\ ParseInv
  BY DEF IInv
<1>2. /\ pc = "start3" /\ pc' = "ask" /\ jpeg_recv_len' = 0 /\ expired' = FALSE
      /\ UNCHANGED <<pkt_fix, recv_over_flag, recv_jpeg_flag, start_recv_flag, recv_cur_pos,
                     last_data, cut, overrun, bufVars, jpeg_recv_start_flag, open>>
      /\ host' = host
  BY DEF StartRecv3, Goto
<1>3. HostInv' /\ JpegInv' /\ JsonInv'
  BY <1>1, <1>2, Quiet
<1>4. Types'
  <2>1. jpeg_recv_len' \in 0 .. JPEG_BUF_LEN
    BY <1>2, LenAssumption
  <2> QED BY <1>1, <1>2, <2>1 DEF Types, bufVars
<1>5. ModeInv' /\ LenInv'
  BY <1>1, <1>2 DEF ModeInv, LenInv, Starting
<1>6. ParseInv'
  BY <1>2 DEF ParseInv, Pending
<1> QED BY <1>3, <1>4, <1>5, <1>6 DEF IInv

\* The host that is asked for a picture begins with it: the interrupt is outside a
\* frame and the whole picture is to come.
LEMMA NextAnswerAsk ==
  ASSUME IInv, Answer, pc = "ask"
  PROVE  IInv'
<1>1. Types /\ HostInv /\ ModeInv /\ LenInv /\ JpegInv /\ JsonInv /\ ParseInv
  BY DEF IInv
<1>2. /\ host.phase = "command" /\ host.out = <<>> /\ Len(host.out) = 0
      /\ ~start_recv_flag /\ cJSON_recv_buf = <<>> /\ jpeg_recv_len = 0 /\ recv_jpeg_flag
  BY <1>1, WhileStarting DEF Starting, ModeInv
<1>3. PICK p \in Pictures : host' = Answered(p)
  BY <1>2 DEF Answer
<1>4. /\ pc' = "clear"
      /\ UNCHANGED <<pkt_fix, recv_over_flag, isrVars, bufVars, mainVars>>
  BY DEF Answer, Goto
<1>5. p \in Bytes /\ p # Zero /\ pkt_fix \in BOOLEAN
  BY <1>1, DataBytes DEF Types, Zero
<1>6. /\ JpegFrame(p) = PicFrame(pkt_fix, p) /\ PicFrame(pkt_fix, p) \in Seq(Bytes)
      /\ Len(PicFrame(pkt_fix, p)) = PicLen + 4
  BY <1>5, Frames, FrameLengths
<1>7. host' = [host EXCEPT !.phase = "picture", !.out = PicFrame(pkt_fix, p), !.pic = p]
  BY <1>3, <1>5, <1>6 DEF Answered
<1>8. /\ host'.phase = "picture" /\ host'.out = PicFrame(pkt_fix, p) /\ host'.pic = p
      /\ host' \in HostType
  <2>1. host \in HostType
    BY <1>1 DEF Types, HostType
  <2> QED BY <1>5, <1>6, <1>7, <2>1 DEF HostType
<1>9. Len(host'.out) = PicLen + 4 /\ PicLen \in Nat
  BY <1>6, <1>8, LenAssumption
<1>10. Types'
  BY <1>1, <1>4, <1>8 DEF Types, HostType, isrVars, bufVars, mainVars
<1>11. HostInv'
  BY <1>4, <1>6, <1>8, Suffixes DEF HostInv
<1>12. ModeInv' /\ LenInv'
  BY <1>1, <1>2, <1>4, <1>8 DEF ModeInv, LenInv, Starting, isrVars, mainVars
<1>13. JpegInv' /\ JsonInv'
  <2>1. Len(host'.out) # PicLen' + 3 /\ Len(host'.out) # 2
    BY <1>9
  <2>2. JpegInv'
    BY <1>2, <1>4, <1>8, <1>9, <2>1 DEF JpegInv, isrVars
  <2>3. JsonInv'
    BY <1>1, <1>2, <1>4, <1>8, <2>1 DEF JsonInv, isrVars, bufVars
  <2> QED BY <2>2, <2>3
<1>14. ParseInv'
  BY <1>4 DEF ParseInv, Pending
<1> QED BY <1>10, <1>11, <1>12, <1>13, <1>14 DEF IInv

\* Any other answer ends the command, if the host waits for one.
LEMMA NextAnswer ==
  ASSUME IInv, Answer, pc = "answer"
  PROVE  IInv'
<1>1. Types /\ HostInv /\ ModeInv /\ LenInv /\ JpegInv /\ JsonInv /\ ParseInv
  BY DEF IInv
<1>2. /\ pc' = "clear"
      /\ UNCHANGED <<pkt_fix, recv_over_flag, isrVars, bufVars, mainVars>>
      /\ host' = IF host.phase = "command" /\ host.out = <<>> THEN Answered(Zero) ELSE host
  BY DEF Answer, Goto
<1>3. ParseInv'
  BY <1>2 DEF ParseInv, Pending
<1>4. CASE host.phase = "command" /\ host.out = <<>>
  <2>1. host' = [host EXCEPT !.phase = "tail"]
    BY <1>2, <1>4 DEF Answered
  <2>2. host'.phase = "tail" /\ host'.out = <<>> /\ host' \in HostType
    BY <1>1, <1>4, <2>1 DEF Types, HostType
  <2>3. ~start_recv_flag /\ cJSON_recv_buf = <<>> /\ ~open /\ ~recv_jpeg_flag
    <3>1. ~open
      BY <1>1, <1>4 DEF ModeInv
    <3>2. ~start_recv_flag
      BY <1>1, <1>4 DEF JsonInv
    <3> QED BY <1>1, <3>1, <3>2 DEF ModeInv, JsonInv
  <2>4. Types'
    BY <1>1, <1>2, <2>2 DEF Types, HostType, isrVars, bufVars, mainVars
  <2>5. ModeInv' /\ LenInv'
    BY <1>1, <1>2, <1>4, <2>2, <2>3 DEF ModeInv, LenInv, Starting, isrVars, mainVars
  <2>6. HostInv' /\ JpegInv'
    BY <1>2, <2>2, <2>3 DEF HostInv, JpegInv
  <2>7. JsonInv'
    <3>1. Len(host'.out) = 0 /\ ~(0 >= PicLen' + 3)
      BY <2>2, LenAssumption
    <3>2. ~overrun' /\ ~start_recv_flag' /\ cJSON_recv_buf' = <<>>
      BY <1>1, <1>2, <2>3 DEF JsonInv, isrVars, bufVars
    <3> QED BY <2>2, <3>1, <3>2 DEF JsonInv
  <2> QED BY <1>3, <2>4, <2>5, <2>6, <2>7 DEF IInv
<1>5. CASE ~(host.phase = "command" /\ host.out = <<>>)
  <2>1. host' = host
    BY <1>2, <1>5
  <2>2. HostInv' /\ JpegInv' /\ JsonInv'
    BY <1>1, <1>2, <2>1, Quiet DEF isrVars
  <2>3. Types'
    BY <1>1, <1>2, <2>1 DEF Types, isrVars, bufVars, mainVars
  <2>4. ModeInv' /\ LenInv'
    BY <1>1, <1>2, <2>1 DEF ModeInv, LenInv, Starting, isrVars, bufVars, mainVars
  <2> QED BY <1>3, <2>2, <2>3, <2>4 DEF IInv
<1> QED BY <1>4, <1>5

LEMMA NextClearFlag == IInv /\ ClearFlag => IInv'
<1> SUFFICES ASSUME IInv, ClearFlag PROVE IInv'
  OBVIOUS
<1>1. Types /\ HostInv /\ ModeInv /\ LenInv /\ JpegInv /\ JsonInv
  BY DEF IInv
<1>2. /\ pc = "clear" /\ pc' = "jpeg" /\ recv_over_flag' = FALSE
      /\ UNCHANGED <<pkt_fix, isrVars, bufVars, mainVars>> /\ host' = host
  BY DEF ClearFlag, Goto
<1>3. HostInv' /\ JpegInv' /\ JsonInv'
  BY <1>1, <1>2, Quiet DEF isrVars
<1>4. Types'
  BY <1>1, <1>2 DEF Types, isrVars, bufVars, mainVars
<1>5. ModeInv' /\ LenInv'
  BY <1>1, <1>2 DEF ModeInv, LenInv, Starting, isrVars, bufVars, mainVars
<1>6. ParseInv'
  BY <1>2 DEF ParseInv, Pending
<1> QED BY <1>3, <1>4, <1>5, <1>6 DEF IInv

LEMMA NextCheckJpeg == IInv /\ CheckJpeg => IInv'
<1> SUFFICES ASSUME IInv, CheckJpeg PROVE IInv'
  OBVIOUS
<1>1. Types /\ HostInv /\ ModeInv /\ LenInv /\ JpegInv /\ JsonInv /\ ParseInv
  BY DEF IInv
<1>2. /\ pc = "jpeg"
      /\ pc' = IF ~jpeg_recv_start_flag THEN "loop" ELSE IF expired THEN "abort1" ELSE "check"
      /\ UNCHANGED <<pkt_fix, recv_over_flag, isrVars, bufVars, mainVars>> /\ host' = host
  BY DEF CheckJpeg, Goto
<1>3. HostInv' /\ JpegInv' /\ JsonInv'
  BY <1>1, <1>2, Quiet DEF isrVars
<1>4. /\ pc' \in {"loop", "abort1", "check"}
      /\ pc' = "abort1" => jpeg_recv_start_flag /\ open
  BY <1>1, <1>2 DEF ModeInv
<1>5. Types'
  BY <1>1, <1>2, <1>4 DEF Types, isrVars, bufVars, mainVars
<1>6. ModeInv' /\ LenInv'
  BY <1>1, <1>2, <1>4 DEF ModeInv, LenInv, Starting, isrVars, bufVars, mainVars
<1>7. ParseInv'
  BY <1>1, <1>2, <1>4 DEF ParseInv, Pending, bufVars
<1> QED BY <1>3, <1>5, <1>6, <1>7 DEF IInv

\* The interrupt that was in a picture is in a JSON frame now: one that is no command,
\* or has not begun yet.
LEMMA NextAbort1 == IInv /\ Abort1 => IInv'
<1> SUFFICES ASSUME IInv, Abort1 PROVE IInv'
  OBVIOUS
<1>1. Types /\ HostInv /\ ModeInv /\ LenInv /\ JpegInv /\ JsonInv /\ ParseInv
  BY DEF IInv
<1>2. /\ pc = "abort1" /\ pc' = "abort2" /\ jpeg_recv_start_flag' = FALSE
      /\ recv_jpeg_flag' = FALSE /\ cut' = (cut \/ recv_jpeg_flag)
      /\ UNCHANGED <<pkt_fix, recv_over_flag, start_recv_flag, recv_cur_pos, last_data,
                     jpeg_recv_len, overrun, bufVars, expired, open>> /\ host' = host
  BY DEF Abort1, Goto
<1>3. open /\ host.phase = "picture"
  BY <1>1, <1>2 DEF ModeInv
<1>4. Types'
  BY <1>1, <1>2 DEF Types, bufVars
<1>5. ModeInv' /\ LenInv'
  BY <1>1, <1>2, <1>3 DEF ModeInv, LenInv, Starting, bufVars
<1>6. ParseInv'
  BY <1>1, <1>2 DEF ParseInv, Pending, bufVars
<1>7. CASE ~recv_jpeg_flag
  <2>1. recv_jpeg_flag' = recv_jpeg_flag /\ cut' = cut
    BY <1>1, <1>2, <1>7 DEF Types
  <2>2. HostInv' /\ JpegInv' /\ JsonInv'
    BY <1>1, <1>2, <2>1, Quiet
  <2> QED BY <1>4, <1>5, <1>6, <2>2 DEF IInv
<1>8. CASE recv_jpeg_flag
  <2>1. HostInv' /\ JpegInv'
    BY <1>1, <1>2 DEF HostInv, JpegInv
  <2>2. cJSON_recv_buf' = <<>>
    BY <1>1, <1>2, <1>8 DEF JsonInv, bufVars
  <2>3. ASSUME start_recv_flag
        PROVE  Len(host'.out) =< PicLen + 2 /\ (Foul' \/ BetweenMarkers')
    <3>1. /\ recv_cur_pos >= JpegBase
          /\ host.out # <<>> => recv_cur_pos + Len(host.out) = JpegBase + PicLen + 2
      BY <1>1, <1>3, <1>8, <2>3 DEF JpegInv
    <3>2. /\ recv_cur_pos \in Nat /\ Len(host.out) \in Nat /\ PicLen \in Nat
          /\ (host.out = <<>> <=> Len(host.out) = 0)
      BY <1>1, EmptySequence, LenAssumption DEF Types
    <3>3. JpegBase \in {0, 2} /\ (JpegBase = 0 => pkt_fix)
      BY DEF JpegBase
    <3>4. Len(host.out) =< PicLen + 2
      BY <3>1, <3>2, <3>3
    <3>5. CASE recv_cur_pos > 0
      <4>1. Foul'
        BY <1>2, <2>2, <3>5 DEF Foul
      <4> QED BY <1>2, <3>4, <4>1
    <3>6. CASE recv_cur_pos = 0
      <4>1. JpegBase = 0
        BY <3>1, <3>3, <3>6
      <4>2. Len(host.out) \in {0, PicLen + 2}
        <5>1. host.out # <<>> => 0 + Len(host.out) = 0 + PicLen + 2
          BY <3>1, <3>6, <4>1
        <5> QED BY <3>2, <5>1
      <4>3. BetweenMarkers'
        BY <1>2, <1>3, <2>2, <3>3, <3>6, <4>1, <4>2 DEF BetweenMarkers
      <4> QED BY <1>2, <3>4, <4>3
    <3> QED BY <3>2, <3>5, <3>6
  <2>4. JsonInv'
    BY <1>1, <1>2, <1>3, <1>8, <2>2, <2>3 DEF JsonInv
  <2> QED BY <1>4, <1>5, <1>6, <2>1, <2>4 DEF IInv
<1> QED BY <1>7, <1>8

LEMMA NextAbort2 == IInv /\ Abort2 => IInv'
<1> SUFFICES ASSUME IInv, Abort2 PROVE IInv'
  OBVIOUS
<1>1. Types /\ HostInv /\ ModeInv /\ LenInv /\ JpegInv /\ JsonInv /\ ParseInv
  BY DEF IInv
<1>2. /\ pc = "abort2" /\ pc' = "timeout" /\ jpeg_recv_len' = 0
      /\ UNCHANGED <<pkt_fix, recv_over_flag, recv_jpeg_flag, start_recv_flag, recv_cur_pos,
                     last_data, cut, overrun, bufVars, mainVars>> /\ host' = host
  BY DEF Abort2, Goto
<1>3. HostInv' /\ JpegInv' /\ JsonInv'
  BY <1>1, <1>2, Quiet
<1>4. Types'
  <2>1. jpeg_recv_len' \in 0 .. JPEG_BUF_LEN
    BY <1>2, LenAssumption
  <2> QED BY <1>1, <1>2, <2>1 DEF Types, bufVars, mainVars
<1>5. ModeInv' /\ LenInv'
  BY <1>1, <1>2 DEF ModeInv, LenInv, Starting, mainVars
<1>6. ParseInv'
  BY <1>1, <1>2 DEF ParseInv, Pending, bufVars
<1> QED BY <1>3, <1>4, <1>5, <1>6 DEF IInv

LEMMA NextAnswerTimeout == IInv /\ AnswerTimeout => IInv'
<1> SUFFICES ASSUME IInv, AnswerTimeout PROVE IInv'
  OBVIOUS
<1>1. Types /\ HostInv /\ ModeInv /\ LenInv /\ JpegInv /\ JsonInv /\ ParseInv
  BY DEF IInv
<1>2. /\ pc = "timeout" /\ pc' = "check" /\ open' = FALSE
      /\ host' = IF host.phase = "picture" THEN Answered(Zero) ELSE host
      /\ UNCHANGED <<pkt_fix, recv_over_flag, isrVars, bufVars, jpeg_recv_start_flag, expired>>
  BY DEF AnswerTimeout, Goto
<1>3. host.phase = "picture" /\ ~recv_jpeg_flag /\ ~jpeg_recv_start_flag /\ jpeg_recv_len = 0
  BY <1>1, <1>2 DEF ModeInv, LenInv
<1>4. HostInv' /\ JpegInv' /\ JsonInv' /\ host'.phase = "tail" /\ host' \in HostType
  BY <1>1, <1>2, <1>3, RequestOver DEF isrVars
<1>5. Types'
  BY <1>1, <1>2, <1>4 DEF Types, HostType, isrVars, bufVars
<1>6. ModeInv' /\ LenInv'
  BY <1>2, <1>3, <1>4 DEF ModeInv, LenInv, Starting, isrVars
<1>7. ParseInv'
  BY <1>1, <1>2, <1>3 DEF ParseInv, Pending, bufVars
<1> QED BY <1>4, <1>5, <1>6, <1>7 DEF IInv

LEMMA NextCheckLen == IInv /\ CheckLen => IInv'
<1> SUFFICES ASSUME IInv, CheckLen PROVE IInv'
  OBVIOUS
<1>1. Types /\ HostInv /\ ModeInv /\ LenInv /\ JpegInv /\ JsonInv /\ ParseInv
  BY DEF IInv
<1>2. /\ pc = "check" /\ pc' = IF jpeg_recv_len # 0 THEN "cal" ELSE "loop"
      /\ UNCHANGED <<pkt_fix, recv_over_flag, isrVars, bufVars, mainVars>> /\ host' = host
  BY DEF CheckLen, Goto
<1>3. HostInv' /\ JpegInv' /\ JsonInv'
  BY <1>1, <1>2, Quiet DEF isrVars
<1>4. /\ pc' \in {"cal", "loop"}
      /\ pc' = "cal" => jpeg_recv_len # 0 /\ open /\ ~recv_jpeg_flag
  BY <1>1, <1>2 DEF ModeInv, LenInv
<1>5. Types'
  BY <1>1, <1>2, <1>4 DEF Types, isrVars, bufVars, mainVars
<1>6. ModeInv' /\ LenInv'
  BY <1>1, <1>2, <1>4 DEF ModeInv, LenInv, Starting, isrVars, bufVars, mainVars
<1>7. ParseInv'
  BY <1>1, <1>2, <1>4 DEF ParseInv, Pending, bufVars
<1> QED BY <1>3, <1>5, <1>6, <1>7 DEF IInv

LEMMA NextCalPicFea == IInv /\ CalPicFea => IInv'
<1> SUFFICES ASSUME IInv, CalPicFea PROVE IInv'
  OBVIOUS
<1>1. Types /\ HostInv /\ ModeInv /\ LenInv /\ JpegInv /\ JsonInv /\ ParseInv
  BY DEF IInv
<1>2. /\ pc = "cal" /\ pc' = "done" /\ open' = FALSE
      /\ host' = IF host.phase = "picture" THEN Answered(Zero) ELSE host
      /\ UNCHANGED <<pkt_fix, recv_over_flag, isrVars, bufVars, jpeg_recv_start_flag, expired>>
  BY DEF CalPicFea, Goto
<1>3. host.phase = "picture" /\ ~recv_jpeg_flag
  BY <1>1, <1>2 DEF ModeInv
<1>4. HostInv' /\ JpegInv' /\ JsonInv' /\ host'.phase = "tail" /\ host' \in HostType
  BY <1>1, <1>2, <1>3, RequestOver DEF isrVars
<1>5. Types'
  BY <1>1, <1>2, <1>4 DEF Types, HostType, isrVars, bufVars
<1>6. ModeInv' /\ LenInv'
  BY <1>2, <1>3, <1>4 DEF ModeInv, LenInv, Starting, isrVars
<1>7. ParseInv'
  BY <1>1, <1>2, <1>3 DEF ParseInv, Pending, bufVars
<1> QED BY <1>4, <1>5, <1>6, <1>7 DEF IInv

LEMMA NextJpegDone == IInv /\ JpegDone => IInv'
<1> SUFFICES ASSUME IInv, JpegDone PROVE IInv'
  OBVIOUS
<1>1. Types /\ HostInv /\ ModeInv /\ LenInv /\ JpegInv /\ JsonInv /\ ParseInv
  BY DEF IInv
<1>2. /\ pc = "done" /\ pc' = "loop" /\ jpeg_recv_len' = 0 /\ jpeg_recv_start_flag' = FALSE
      /\ UNCHANGED <<pkt_fix, recv_over_flag, recv_jpeg_flag, start_recv_flag, recv_cur_pos,
                     last_data, cut, overrun, bufVars, expired, open>> /\ host' = host
  BY DEF JpegDone, Goto
<1>3. HostInv' /\ JpegInv' /\ JsonInv'
  BY <1>1, <1>2, Quiet
<1>4. Types'
  <2>1. jpeg_recv_len' \in 0 .. JPEG_BUF_LEN
    BY <1>2, LenAssumption
  <2> QED BY <1>1, <1>2, <2>1 DEF Types, bufVars
<1>5. ModeInv' /\ LenInv'
  BY <1>1, <1>2 DEF ModeInv, LenInv, Starting
<1>6. ParseInv'
  BY <1>1, <1>2 DEF ParseInv, Pending, bufVars
<1> QED BY <1>3, <1>4, <1>5, <1>6 DEF IInv

\* Time and steps that change nothing.
LEMMA NextTick == IInv /\ (Tick \/ UNCHANGED vars) => IInv'
<1> SUFFICES ASSUME IInv, Tick \/ UNCHANGED vars PROVE IInv'
  OBVIOUS
<1>1. Types /\ HostInv /\ ModeInv /\ LenInv /\ JpegInv /\ JsonInv /\ ParseInv
  BY DEF IInv
<1>2. /\ UNCHANGED <<pkt_fix, recv_over_flag, isrVars, bufVars, jpeg_recv_start_flag, open, pc>>
      /\ host' = host /\ expired' \in {TRUE, expired}
  BY DEF Tick, vars, mainVars
<1>3. HostInv' /\ JpegInv' /\ JsonInv'
  BY <1>1, <1>2, Quiet DEF isrVars
<1>4. Types'
  <2>1. expired' \in BOOLEAN
    BY <1>1, <1>2 DEF Types
  <2> QED BY <1>1, <1>2, <2>1 DEF Types, isrVars, bufVars
<1>5. ModeInv' /\ LenInv'
  BY <1>1, <1>2 DEF ModeInv, LenInv, Starting, isrVars, bufVars
<1>6. ParseInv'
  BY <1>1, <1>2 DEF ParseInv, Pending, bufVars
<1> QED BY <1>3, <1>4, <1>5, <1>6 DEF IInv

-----------------------------------------------------------------------------
(* The theorems                                                            *)

LEMMA InitInv == Init => IInv
<1> SUFFICES ASSUME Init PROVE IInv
  OBVIOUS
<1>1. Zero \in Bytes /\ <<>> \in Seq(Bytes) /\ Len(<<>>) = 0
  BY DEF Bytes, Marks
<1>2. host.phase = "idle" /\ host.out = <<>> /\ host \in HostType
  BY <1>1 DEF Init, HostType
<1>3. Types
  <2>1. recv_cur_pos \in Nat /\ jpeg_recv_len \in 0 .. JPEG_BUF_LEN
    BY LenAssumption DEF Init
  <2> QED BY <1>1, <1>2, <2>1 DEF Init, Types, HostType
<1>4. HostInv /\ ModeInv /\ LenInv /\ JpegInv
  BY <1>2 DEF Init, HostInv, ModeInv, Starting, LenInv, JpegInv
<1>5. JsonInv /\ ParseInv
  BY <1>1, <1>2, LenAssumption DEF Init, JsonInv, ParseInv, Pending
<1> QED BY <1>3, <1>4, <1>5 DEF IInv

LEMMA Step == (IInv \/ Outside) /\ [Next]_vars => (IInv \/ Outside)'
<1> SUFFICES ASSUME IInv \/ Outside, [Next]_vars PROVE IInv' \/ Outside'
  OBVIOUS
<1>0. CASE UNCHANGED vars
  <2>1. IInv => IInv'
    BY <1>0, NextTick
  <2>2. Outside => Outside'
    BY <1>0 DEF Outside, Types, ModeInv, Starting, LenInv, ParseInv, Pending, vars, isrVars,
       bufVars, mainVars
  <2> QED BY <2>1, <2>2
<1>1. CASE ~overrun /\ Next
  <2>0. IInv
    BY <1>1 DEF Outside
  <2>1. CASE Main
    <3>1. CASE Answer
      <4>1. pc \in {"ask", "answer"}
        BY <3>1 DEF Answer
      <4> QED BY <2>0, <3>1, <4>1, NextAnswerAsk, NextAnswer
    <3>2. CASE ~Answer
      BY <2>0, <2>1, <3>2, NextLoopTop, NextParse, NextStartRecv1, NextStartRecv2,
         NextStartRecv3, NextClearFlag, NextCheckJpeg, NextAbort1, NextAbort2,
         NextAnswerTimeout, NextCheckLen, NextCalPicFea, NextJpegDone DEF Main
    <3> QED BY <3>1, <3>2
  <2>2. CASE Tick
    BY <2>0, <2>2, NextTick
  <2>3. ASSUME NEW c \in Cmds, HostCommand(c)
        PROVE  IInv'
    BY <2>0, <2>3, NextCommand
  <2>4. CASE HostByte
    BY <2>0, <2>4, NextByte
  <2>5. CASE HostStops \/ HostIdle
    BY <2>0, <2>5, NextStop
  <2> QED BY <1>1, <2>1, <2>2, <2>3, <2>4, <2>5 DEF Next, Undefined
<1> QED BY <1>0, <1>1 DEF Next, Undefined

\* Where the host is in its frame tells where the interrupt and the main loop are
\* (uart_recv.c:25-134, main.c), whatever the byte or the step that comes next, until an
\* abandoned picture has taken the interrupt out of cJSON_recv_buf.
THEOREM Inductive == Spec => [](IInv \/ Outside)
BY InitInv, Step, PTL DEF Spec

\* The variables keep their types.
THEOREM TypeCorrect == Spec => []TypeOK
<1>1. IInv \/ Outside => TypeOK
  BY DEF IInv, Outside, Types, TypeOK
<1> QED BY <1>1, Inductive, PTL

\* With a command buffer of any size that holds a command, and a picture buffer of any
\* size that holds a picture, the position shared by both leaves a buffer only with the
\* rest of an abandoned picture and what follows it, before a JSON frame ends
\* (uart_recv.c:46, 90, 92).
THEOREM WritesAlwaysInBounds == Spec => []WritesInBounds
<1>1. IInv \/ Outside => WritesInBounds
  BY DEF IInv, JsonInv, Outside, WritesInBounds
<1> QED BY <1>1, Inductive, PTL

\* The interrupt is never left in picture mode when nobody waits for a picture
\* (protocol_stop_recv_jpeg, protocol_port_recv_cb).
THEOREM PictureModeAlwaysInAWait == Spec => []PictureModeOnlyInAWait
<1>1. IInv \/ Outside => PictureModeOnlyInAWait
  BY DEF IInv, Outside, ModeInv, PictureModeOnlyInAWait
<1> QED BY <1>1, Inductive, PTL

\* The timeout and the result never both answer the same request for a picture,
\* whichever way the last byte and the ten seconds race each other (main.c).
THEOREM JpegAlwaysAnsweredOnce == Spec => []JpegAnsweredOnce
<1>1. IInv \/ Outside => JpegAnsweredOnce
  BY DEF IInv, Outside, ModeInv, JpegAnsweredOnce
<1> QED BY <1>1, Inductive, PTL

\* The picture protocol_cal_pic_fea gets is the one the host sent for this request.
THEOREM PictureAlwaysIntact == Spec => []PictureIntact
<1>1. ASSUME IInv \/ Outside, pc = "cal"
      PROVE  SubSeq(jpeg_recv_buf, 1, jpeg_recv_len) = JpegText(host.pic)
  <2>1. SubSeq(jpeg_recv_buf, 1, jpeg_recv_len) = PicText(pkt_fix, host.pic)
    BY <1>1 DEF IInv, Outside, LenInv
  <2>2. JpegText(host.pic) = PicText(pkt_fix, host.pic)
    <3>1. host.pic \in Bytes /\ pkt_fix \in BOOLEAN
      BY <1>1 DEF IInv, Outside, Types
    <3> QED BY <3>1, Frames
  <2> QED BY <2>1, <2>2
<1>2. IInv \/ Outside => PictureIntact
  BY <1>1 DEF PictureIntact
<1> QED BY <1>2, Inductive, PTL

\* A frame that protocol_prase takes for a command is the command the host has just
\* sent, and the host waits for its answer.
THEOREM CommandAlwaysWaitedFor == Spec => []CommandIsWaitedFor
<1>1. ASSUME IInv \/ Outside, NEW c \in Cmds, pc = "parse", Text(cJSON_prase_buf) = JsonText(c)
      PROVE  host.phase = "command" /\ host.out = <<>> /\ host.cmd = c
  <2>1. JsonText(c) = CmdText(pkt_fix, c)
    BY <1>1, Frames, DataBytes DEF IInv, Outside, Types
  <2> QED BY <1>1, <2>1 DEF IInv, Outside, ParseInv, Pending
<1>2. IInv \/ Outside => CommandIsWaitedFor
  BY <1>1 DEF CommandIsWaitedFor
<1> QED BY <1>2, Inductive, PTL
=============================================================================
