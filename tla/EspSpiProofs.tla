---------------------------- MODULE EspSpiProofs ----------------------------
(***************************************************************************)
(* Proofs about EspSpi: that no call is carried out twice or out of order, *)
(* and that a call without mishap arrives, for every length of a message   *)
(* and every number of calls, tries, waits and resets.                     *)
(***************************************************************************)
EXTENDS EspSpi, SequenceTheorems, TLAPS

Chunks == [call : Nat, k : Nat, last : BOOLEAN]

DriverType ==
  /\ pc \in {"idle", "flush", "write", "confirm", "wait_answer", "read", "read_next"}
  /\ call \in 0 .. MaxCalls /\ chunks \in 1 .. MaxChunks /\ k \in 0 .. MaxChunks
  /\ pc \in {"flush", "write", "confirm"} => k \in 1 .. chunks
  /\ tries \in 0 .. MaxTries - 1 /\ polls \in 0 .. MaxPolls
  /\ patient \in BOOLEAN /\ wounded \in BOOLEAN

EspType ==
  /\ alive \in BOOLEAN /\ resets \in 0 .. MaxResets
  /\ rx \in {"READY", "BUSY", "CRC_PROCESSING", "ERROR"}
  /\ tx \in {"NODATA", "PREPARING", "READY"}
  /\ left \in 0 .. MaxChunks /\ (tx # "NODATA" => left > 0)
  /\ carried \in Seq(1 .. MaxCalls)
  /\ inbox \in Seq(Chunks)
  /\ staged \in [chunk : Chunks, good : BOOLEAN]

TypeInv == DriverType /\ EspType

Latest == Calls!Latest

\* What the ESP holds is newer than what it carried out.
FreshInv ==
  /\ Latest \in 0 .. call
  /\ \A i \in 1 .. Len(inbox) : inbox[i].call \in Latest + 1 .. call
  /\ rx = "CRC_PROCESSING" => staged.chunk.call \in Latest + 1 .. call
  /\ rx = "BUSY" => inbox # <<>>
  /\ ~alive => rx = "READY"

\* While chunks of a call are still to be sent, or sent again, the ESP does not have the
\* last one: it cannot have carried the call out.
Ends(c)  == c.call = call /\ c.last
NotOver  == Latest < call /\ \A i \in 1 .. Len(inbox) : ~Ends(inbox[i])
SendInv ==
  /\ pc \in {"flush", "write"} \/ (pc = "confirm" /\ k < chunks)
       => NotOver /\ (rx = "CRC_PROCESSING" => ~Ends(staged.chunk))
  /\ pc = "confirm" /\ rx \in {"CRC_PROCESSING", "ERROR"} => NotOver

IInv == TypeInv /\ FreshInv /\ SendInv

\* With no mishap the ESP has just the chunks sent so far.
Place(c, m, i) == Chunk(c, i, i = m)
Sent(c, m, n) == [i \in 1 .. n |-> Place(c, m, i)]
Arrived ==
  \/ rx = "BUSY" /\ inbox = Sent(call, chunks, chunks)
  \/ carried # <<>> /\ carried[Len(carried)] = call
CleanInv ==
  ~wounded =>
    /\ pc # "idle" => alive
    /\ pc \in {"flush", "write"} => rx \in {"READY", "ERROR"} /\ inbox = Sent(call, chunks, k - 1)
    /\ pc = "confirm" =>
         \/ /\ rx = "CRC_PROCESSING" /\ staged.chunk = Chunk(call, k, k = chunks)
            /\ inbox = Sent(call, chunks, k - 1)
         \/ rx = "ERROR" /\ inbox = Sent(call, chunks, k - 1)
         \/ rx = "READY" /\ k < chunks /\ inbox = Sent(call, chunks, k)
         \/ rx \in {"READY", "BUSY"} /\ k = chunks /\ Arrived
    /\ pc \in {"wait_answer", "read", "read_next"} => Arrived

-----------------------------------------------------------------------------
(* Chunks and what was carried out.                                        *)

LEMMA ChunkOf ==
  ASSUME NEW c \in Nat, NEW i \in Nat, NEW l \in BOOLEAN
  PROVE  /\ Chunk(c, i, l) \in Chunks
         /\ Chunk(c, i, l).call = c /\ Chunk(c, i, l).k = i /\ Chunk(c, i, l).last = l
BY DEF Chunk, Chunks

LEMMA NoChunkType == [chunk |-> NoChunk, good |-> FALSE] \in [chunk : Chunks, good : BOOLEAN]
BY ChunkOf DEF NoChunk

LEMMA SentOf ==
  ASSUME NEW c \in Nat, NEW m \in Nat
  PROVE  /\ Sent(c, m, 0) = <<>>
         /\ Message(c, m) = Sent(c, m, m)
         /\ \A n \in Nat : /\ Sent(c, m, n) \in Seq(Chunks) /\ Len(Sent(c, m, n)) = n
                           /\ Append(Sent(c, m, n), Place(c, m, n + 1)) = Sent(c, m, n + 1)
                           /\ n > 0 => Sent(c, m, n)[1].call = c
<1>1. Sent(c, m, 0) = <<>> /\ Message(c, m) = Sent(c, m, m)
  BY DEF Sent, Message, Place
<1>2. \A n \in Nat : /\ Sent(c, m, n) \in Seq(Chunks) /\ Len(Sent(c, m, n)) = n
                     /\ \A i \in 1 .. n : Sent(c, m, n)[i] = Place(c, m, i)
  <2> TAKE n \in Nat
  <2>1. \A i \in 1 .. n : Place(c, m, i) \in Chunks
    <3> TAKE i \in 1 .. n
    <3>1. i \in Nat
      OBVIOUS
    <3>2. (i = m) \in BOOLEAN
      OBVIOUS
    <3> QED BY <3>1, <3>2, ChunkOf, Zenon DEF Place
  <2> QED BY <2>1 DEF Sent
<1>3. ASSUME NEW n \in Nat
      PROVE  Append(Sent(c, m, n), Place(c, m, n + 1)) = Sent(c, m, n + 1)
  <2> DEFINE s == Sent(c, m, n)
             e == Place(c, m, n + 1)
             t == Sent(c, m, n + 1)
  <2>1. e \in Chunks /\ s \in Seq(Chunks) /\ Len(s) = n
    <3>1. n + 1 \in Nat /\ (n + 1 = m) \in BOOLEAN
      OBVIOUS
    <3> QED BY <1>2, <3>1, ChunkOf, Zenon DEF Place
  <2>2. t \in Seq(Chunks) /\ Len(t) = n + 1 /\ t[n + 1] = e /\ \A i \in 1 .. n : t[i] = s[i]
    BY <1>2
  <2> HIDE DEF s, e, t
  <2>3. /\ Append(s, e) \in Seq(Chunks) /\ Len(Append(s, e)) = n + 1
        /\ Append(s, e)[n + 1] = e /\ \A i \in 1 .. n : Append(s, e)[i] = s[i]
    BY <2>1, AppendProperties
  <2>4. \A i \in 1 .. Len(Append(s, e)) : Append(s, e)[i] = t[i]
    BY <2>2, <2>3
  <2>5. Append(s, e) = t
    BY <2>2, <2>3, <2>4, SeqEqual
  <2> QED BY <2>5 DEF s, e, t
<1>4. ASSUME NEW n \in Nat, n > 0
      PROVE  Sent(c, m, n)[1].call = c
  <2>1. Sent(c, m, n)[1] = Place(c, m, 1)
    BY <1>2, <1>4
  <2> QED BY <2>1 DEF Chunk, Place
<1> QED BY <1>1, <1>2, <1>3, <1>4

LEMMA LatestOf ==
  ASSUME NEW c \in 1 .. MaxCalls, carried \in Seq(1 .. MaxCalls), carried' = Append(carried, c)
  PROVE  /\ carried' \in Seq(1 .. MaxCalls) /\ Latest' = c
         /\ carried' # <<>> /\ carried'[Len(carried')] = c
<1>1. /\ carried' \in Seq(1 .. MaxCalls) /\ carried' # <<>>
      /\ Len(carried') = Len(carried) + 1 /\ carried'[Len(carried) + 1] = c
  BY AppendProperties
<1> QED BY <1>1 DEF Latest, Calls!Latest

-----------------------------------------------------------------------------
(* The types.                                                              *)

LEMMA InitInv == Init => IInv /\ CleanInv /\ Calls!Init
<1> SUFFICES ASSUME Init PROVE IInv /\ CleanInv /\ Calls!Init
  OBVIOUS
<1>1. DriverType
  <2>1. pc = "idle" /\ call = 0 /\ chunks = 1 /\ k = 0 /\ tries = 0 /\ polls = 0
    BY DEF Init
  <2>2. patient \in BOOLEAN /\ wounded \in BOOLEAN
    BY Zenon DEF Init
  <2> QED BY <2>1, <2>2, BoundsAssumption DEF DriverType
<1>2. EspType
  BY BoundsAssumption, NoChunkType DEF Init, EspType
<1>3. FreshInv
  BY DEF Init, FreshInv, Latest, Calls!Latest
<1>4. SendInv /\ CleanInv /\ Calls!Init
  BY DEF Init, SendInv, CleanInv, Calls!Init
<1> QED BY <1>1, <1>2, <1>3, <1>4 DEF IInv, TypeInv

LEMMA NextDriverType ==
  ASSUME DriverType, EspType, [Next]_vars
  PROVE  DriverType'
<1>n. /\ MaxChunks \in Nat \ {0} /\ MaxTries \in Nat \ {0} /\ MaxPolls \in Nat /\ MaxCalls \in Nat
      /\ call \in Nat /\ chunks \in Nat /\ k \in Nat /\ tries \in Nat /\ polls \in Nat
  BY BoundsAssumption DEF DriverType
<1>0. CASE UNCHANGED <<driver, wounded>>
  BY <1>0 DEF driver, DriverType
<1>s. ASSUME pc \in {"flush", "confirm"}, SentOrGivenUp, UNCHANGED <<call, chunks, polls, patient>>,
             wounded' \in BOOLEAN
      PROVE  DriverType'
  BY <1>n, <1>s DEF SentOrGivenUp, DriverType
<1>1. CASE Call
  <2>1. /\ call' \in 0 .. MaxCalls /\ chunks' \in 1 .. MaxChunks /\ k' = 1 /\ tries' = 0 /\ polls' = 0
        /\ pc' = "flush"
    BY <1>1, <1>n DEF Call
  <2>2. patient' \in BOOLEAN /\ wounded' \in BOOLEAN
    BY <1>1, Zenon DEF Call
  <2> QED BY <1>n, <2>1, <2>2 DEF DriverType
<1>2. CASE FlushReady
  BY <1>2 DEF FlushReady, DriverType
<1>3. CASE FlushTimeOut
  BY <1>3, <1>s DEF FlushTimeOut
<1>4. CASE WriteData
  BY <1>4 DEF WriteData, DriverType
<1>5. CASE Rejected
  <2>1. CASE tries + 1 < MaxTries
    BY <1>5, <1>n, <2>1 DEF Rejected, DriverType
  <2>2. CASE ~(tries + 1 < MaxTries)
    BY <1>5, <1>s, <2>2 DEF Rejected
  <2> QED BY <2>1, <2>2
<1>6. CASE Confirmed \/ ConfirmTimeOut
  BY <1>6, <1>s DEF Confirmed, ConfirmTimeOut, DriverType
<1>7. CASE WaitAnswer
  BY <1>7, <1>n DEF WaitAnswer, DriverType
<1>8. CASE ReadChunk
  BY <1>8, <1>n DEF ReadChunk, Fetch, DriverType
<1>9. CASE ReadNext
  BY <1>9 DEF ReadNext, DriverType
<1>10. CASE EspCheck \/ EspCarryOut \/ EspAnswer \/ EspBack
  BY <1>0, <1>10 DEF EspCheck, EspCarryOut, EspAnswer, EspBack
<1>11. CASE EspReset
  BY <1>11 DEF EspReset, driver, DriverType
<1>12. CASE UNCHANGED vars
  BY <1>0, <1>12 DEF vars
<1> QED BY <1>1, <1>2, <1>3, <1>4, <1>5, <1>6, <1>7, <1>8, <1>9, <1>10, <1>11, <1>12 DEF Next, Driver, Esp

\* A complete message is of a call that has not been carried out.
LEMMA CarryOutOf ==
  ASSUME IInv, EspCarryOut, Whole
  PROVE  /\ inbox[1].call \in Latest + 1 .. call /\ inbox[1].call \in 1 .. MaxCalls
         /\ carried' = Append(carried, inbox[1].call)
         /\ inbox = Message(inbox[1].call, Len(inbox)) /\ Len(inbox) \in Nat \ {0}
<1>1. inbox \in Seq(Chunks) /\ inbox # <<>>
  BY DEF IInv, TypeInv, EspType, FreshInv, EspCarryOut
<1>2. Len(inbox) \in Nat \ {0} /\ 1 \in 1 .. Len(inbox)
  BY <1>1
<1>3. inbox[1].call \in Latest + 1 .. call
  BY <1>2 DEF IInv, FreshInv
<1>4. Latest \in Nat /\ call \in 0 .. MaxCalls /\ MaxCalls \in Nat
  BY BoundsAssumption DEF IInv, TypeInv, DriverType, FreshInv
<1>5. inbox[1].call \in 1 .. MaxCalls
  BY <1>3, <1>4
<1> QED BY <1>2, <1>3, <1>5 DEF EspCarryOut, Whole

LEMMA NextEspType ==
  ASSUME IInv, [Next]_vars
  PROVE  EspType'
<1>t. DriverType /\ EspType
  BY DEF IInv, TypeInv
<1>n. MaxChunks \in Nat \ {0} /\ MaxResets \in Nat
  BY BoundsAssumption
<1>0. CASE UNCHANGED esp
  BY <1>0, <1>t DEF esp, EspType
<1>1. CASE WriteData
  <2>1. CASE ~alive
    BY <1>1, <1>t, <2>1 DEF WriteData, EspType
  <2>2. CASE alive
    <3>1. Chunk(call, k, k = chunks) \in Chunks
      <4>1. call \in Nat /\ k \in Nat
        BY <1>n, <1>t, BoundsAssumption DEF DriverType
      <4>2. (k = chunks) \in BOOLEAN
        OBVIOUS
      <4> QED BY <4>1, <4>2, ChunkOf, Zenon
    <3>2. staged' \in [chunk : Chunks, good : BOOLEAN]
      <4>1. PICK good \in BOOLEAN : staged' = [chunk |-> Chunk(call, k, k = chunks), good |-> good]
        BY <1>1, <2>2, Zenon DEF WriteData
      <4> QED BY <3>1, <4>1, Zenon
    <3>3. /\ rx' = "CRC_PROCESSING" /\ tx' = "NODATA" /\ left' = 0
          /\ UNCHANGED <<alive, resets, inbox, carried>>
      BY <1>1, <2>2 DEF WriteData
    <3> QED BY <1>n, <1>t, <3>2, <3>3 DEF EspType
  <2> QED BY <2>1, <2>2
<1>2. CASE ReadChunk
  BY <1>2, <1>n, <1>t DEF ReadChunk, Fetch, EspType
<1>3. CASE EspCheck
  <2>1. staged.chunk \in Chunks /\ inbox \in Seq(Chunks)
    BY <1>t DEF EspType
  <2>2. inbox' \in Seq(Chunks)
    BY <1>3, <2>1, AppendProperties DEF EspCheck
  <2>3. rx' \in {"READY", "BUSY", "ERROR"} /\ UNCHANGED <<alive, resets, tx, carried, left>>
        /\ staged' = [chunk |-> NoChunk, good |-> FALSE]
    BY <1>3 DEF EspCheck
  <2> QED BY <1>t, <2>2, <2>3, NoChunkType DEF EspType
<1>4. CASE EspCarryOut
  <2>1. inbox' = <<>> /\ rx' = "READY" /\ UNCHANGED <<alive, resets, staged>>
    BY <1>4 DEF EspCarryOut
  <2>2. CASE Whole
    <3>1. carried' \in Seq(1 .. MaxCalls)
      BY <1>4, <1>t, <2>2, CarryOutOf, LatestOf DEF EspType
    <3>2. tx' \in {"PREPARING", "READY"} /\ left' \in 1 .. MaxChunks
      BY <1>4, <2>2 DEF EspCarryOut
    <3> QED BY <1>n, <1>t, <2>1, <3>1, <3>2 DEF EspType
  <2>3. CASE ~Whole
    BY <1>4, <1>t, <2>1, <2>3 DEF EspCarryOut, EspType
  <2> QED BY <2>2, <2>3
<1>5. CASE EspAnswer \/ EspBack
  BY <1>5, <1>t DEF EspAnswer, EspBack, EspType
<1>6. CASE EspReset
  <2>1. /\ resets' \in 0 .. MaxResets /\ left' \in 0 .. MaxChunks
    BY <1>6, <1>n, <1>t DEF EspReset, EspType
  <2>2. /\ alive' = FALSE /\ rx' = "READY" /\ tx' = "NODATA" /\ inbox' = <<>> /\ carried' = carried
        /\ staged' \in [chunk : Chunks, good : BOOLEAN]
    BY <1>6, NoChunkType DEF EspReset
  <2>3. alive' \in BOOLEAN
    BY <2>2, Zenon
  <2>4. inbox' \in Seq(Chunks)
    BY <2>2
  <2> QED BY <1>t, <2>1, <2>2, <2>3, <2>4, Zenon DEF EspType
<1>7. CASE Call \/ FlushReady \/ FlushTimeOut \/ Rejected \/ Confirmed \/ ConfirmTimeOut \/ WaitAnswer \/ ReadNext
  BY <1>0, <1>7 DEF Call, FlushReady, FlushTimeOut, Rejected, Confirmed, ConfirmTimeOut, WaitAnswer, ReadNext
<1>8. CASE UNCHANGED vars
  BY <1>0, <1>8 DEF vars
<1> QED BY <1>1, <1>2, <1>3, <1>4, <1>5, <1>6, <1>7, <1>8 DEF Next, Driver, Esp

-----------------------------------------------------------------------------
(* What the ESP holds and has carried out.                                 *)

LEMMA NextFreshInv ==
  ASSUME IInv, [Next]_vars
  PROVE  FreshInv'
<1>f. /\ Latest \in 0 .. call
      /\ \A i \in 1 .. Len(inbox) : inbox[i].call \in Latest + 1 .. call
      /\ rx = "CRC_PROCESSING" => staged.chunk.call \in Latest + 1 .. call
      /\ rx = "BUSY" => inbox # <<>>
      /\ ~alive => rx = "READY"
  BY DEF IInv, FreshInv
<1>n. call \in Nat /\ k \in Nat /\ Latest \in Nat /\ inbox \in Seq(Chunks)
  BY <1>f, BoundsAssumption DEF IInv, TypeInv, DriverType, EspType
<1>l. carried' = carried => Latest' = Latest
  BY DEF Latest, Calls!Latest
<1>0. ASSUME UNCHANGED <<call, rx, staged, inbox, carried>>, alive' = alive \/ alive'
      PROVE  FreshInv'
  BY <1>0, <1>f, <1>l DEF FreshInv
<1>1. CASE Call
  <2>1. call' = call + 1 /\ UNCHANGED <<alive, rx, staged, inbox, carried>>
    BY <1>1 DEF Call, esp
  <2>2. \A c \in Latest + 1 .. call : c \in Latest + 1 .. call + 1
    BY <1>n
  <2>3. Latest \in 0 .. call + 1
    BY <1>n, <1>f
  <2> QED BY <1>f, <1>l, <2>1, <2>2, <2>3 DEF FreshInv
<1>2. CASE WriteData
  <2>1. CASE alive
    <3>1. Latest < call
      BY <1>2 DEF WriteData, IInv, SendInv, NotOver
    <3>2. staged'.chunk.call = call
      BY <1>2, <2>1 DEF WriteData, Chunk
    <3>3. rx' = "CRC_PROCESSING" /\ UNCHANGED <<alive, call, inbox, carried>>
      BY <1>2, <2>1 DEF WriteData
    <3>4. call \in Latest + 1 .. call
      BY <1>n, <3>1
    <3> QED BY <1>f, <1>l, <2>1, <3>2, <3>3, <3>4 DEF FreshInv
  <2>2. CASE ~alive
    BY <1>0, <1>2, <2>2 DEF WriteData
  <2> QED BY <2>1, <2>2
<1>3. CASE EspCheck
  <2>1. alive /\ rx = "CRC_PROCESSING" /\ UNCHANGED <<alive, call, carried>>
    BY <1>3 DEF EspCheck, driver
  <2>2. CASE staged.good
    <3>1. /\ inbox' = Append(inbox, staged.chunk) /\ rx' \in {"BUSY", "READY"}
      BY <1>3, <2>2 DEF EspCheck
    <3>2. staged.chunk \in Chunks
      BY DEF IInv, TypeInv, EspType
    <3>3. \A i \in 1 .. Len(inbox') : inbox'[i] = staged.chunk \/ (i \in 1 .. Len(inbox) /\ inbox'[i] = inbox[i])
      BY <1>n, <3>1, <3>2, AppendProperties
    <3>4. inbox' # <<>>
      BY <1>n, <3>1, <3>2, AppendProperties
    <3> QED BY <1>f, <1>l, <2>1, <3>1, <3>3, <3>4 DEF FreshInv
  <2>3. CASE ~staged.good
    <3>1. inbox' = inbox /\ rx' = "ERROR"
      BY <1>3, <2>3 DEF EspCheck
    <3> QED BY <1>f, <1>l, <2>1, <3>1 DEF FreshInv
  <2> QED BY <2>2, <2>3
<1>4. CASE EspCarryOut
  <2>1. inbox' = <<>> /\ rx' = "READY" /\ UNCHANGED <<call, alive>>
    BY <1>4 DEF EspCarryOut, driver
  <2>2. Latest' \in 0 .. call
    <3>1. CASE Whole
      <4>1. /\ inbox[1].call \in Latest + 1 .. call /\ inbox[1].call \in 1 .. MaxCalls
            /\ carried' = Append(carried, inbox[1].call)
        BY <1>4, <3>1, CarryOutOf
      <4>2. Latest' = inbox[1].call
        BY <4>1, LatestOf DEF IInv, TypeInv, EspType
      <4> QED BY <1>n, <4>1, <4>2
    <3>2. CASE ~Whole
      BY <1>4, <1>f, <1>l, <3>2 DEF EspCarryOut
    <3> QED BY <3>1, <3>2
  <2> QED BY <2>1, <2>2 DEF FreshInv
<1>5. CASE EspReset
  BY <1>5, <1>f, <1>l DEF EspReset, driver, FreshInv
<1>6. CASE EspAnswer \/ EspBack \/ ReadChunk
  BY <1>0, <1>6 DEF EspAnswer, EspBack, ReadChunk, Fetch, driver
<1>7. CASE FlushReady \/ FlushTimeOut \/ Rejected \/ Confirmed \/ ConfirmTimeOut \/ WaitAnswer \/ ReadNext
  BY <1>0, <1>7 DEF FlushReady, FlushTimeOut, Rejected, Confirmed, ConfirmTimeOut, WaitAnswer, ReadNext, esp
<1>8. CASE UNCHANGED vars
  BY <1>0, <1>8 DEF vars, driver, esp
<1> QED BY <1>1, <1>2, <1>3, <1>4, <1>5, <1>6, <1>7, <1>8 DEF Next, Driver, Esp

\* A call none of whose last chunks the ESP has.
Unsent == NotOver /\ (rx = "CRC_PROCESSING" => ~Ends(staged.chunk))

LEMMA NextSendInv ==
  ASSUME IInv, [Next]_vars
  PROVE  SendInv'
<1>s. /\ pc \in {"flush", "write"} \/ (pc = "confirm" /\ k < chunks) => Unsent
      /\ pc = "confirm" /\ rx \in {"CRC_PROCESSING", "ERROR"} => NotOver
  BY DEF IInv, SendInv, Unsent
<1>n. call \in Nat /\ k \in Nat /\ chunks \in Nat /\ Latest \in Nat /\ inbox \in Seq(Chunks)
  BY BoundsAssumption DEF IInv, TypeInv, DriverType, EspType, FreshInv
<1>k. pc \in {"flush", "write", "confirm"} => k =< chunks
  BY <1>n DEF IInv, TypeInv, DriverType
<1>u. Unsent' => SendInv'
  BY DEF Unsent, SendInv
<1>w. pc' \notin {"flush", "write", "confirm"} => SendInv'
  BY DEF SendInv
\* Nothing the ESP has changes.
<1>e. UNCHANGED <<call, rx, staged, inbox, carried>> => (Unsent => Unsent') /\ (NotOver => NotOver')
  BY DEF Unsent, NotOver, Ends, Latest, Calls!Latest
<1>g. ASSUME pc \in {"flush", "confirm"}, SentOrGivenUp, UNCHANGED <<call, esp>>,
             k = chunks \/ Unsent
      PROVE  SendInv'
  BY <1>e, <1>g, <1>u, <1>w DEF SentOrGivenUp, esp
<1>0. CASE UNCHANGED vars
  <2>1. UNCHANGED <<pc, k, chunks, call, rx, staged, inbox, carried>>
    BY <1>0 DEF vars, driver, esp
  <2> QED BY <1>s, <1>e, <2>1 DEF SendInv, Unsent
<1>1. CASE Call
  <2>1. call' = call + 1 /\ UNCHANGED <<rx, staged, inbox, carried>>
    BY <1>1 DEF Call, esp
  <2>2. Latest' = Latest /\ Latest =< call
    BY <1>n, <2>1 DEF Latest, Calls!Latest, IInv, FreshInv
  <2>3. \A c \in Latest + 1 .. call : c # call + 1
    BY <1>n
  <2>4. Latest' < call'
    BY <1>n, <2>1, <2>2
  <2> QED BY <1>u, <2>1, <2>3, <2>4 DEF IInv, FreshInv, Unsent, NotOver, Ends
<1>2. CASE FlushReady
  BY <1>2, <1>s, <1>e, <1>u DEF FlushReady, esp
<1>3. CASE FlushTimeOut
  BY <1>3, <1>s, <1>g DEF FlushTimeOut
<1>4. CASE WriteData
  <2>1. pc' = "confirm" /\ UNCHANGED <<call, chunks, k, inbox, carried>> /\ NotOver
    BY <1>4, <1>s DEF WriteData, Unsent
  <2>2. NotOver'
    BY <2>1 DEF NotOver, Ends, Latest, Calls!Latest
  <2>3. k < chunks /\ rx' = "CRC_PROCESSING" => ~Ends(staged.chunk)'
    <3>1. CASE alive
      <4>1. k < chunks => ~(k = chunks)
        BY <1>n
      <4>2. PICK good : staged' = [chunk |-> Chunk(call, k, k = chunks), good |-> good]
        BY <1>4, <3>1 DEF WriteData
      <4>3. staged'.chunk.last = (k = chunks)
        BY <4>2 DEF Chunk
      <4> QED BY <4>1, <4>3 DEF Ends
    <3>2. CASE ~alive
      <4>1. UNCHANGED <<rx, staged>>
        BY <1>4, <3>2 DEF WriteData
      <4> QED BY <1>4, <1>s, <2>1, <4>1 DEF WriteData, Unsent, Ends
    <3> QED BY <3>1, <3>2
  <2> QED BY <2>1, <2>2, <2>3 DEF SendInv
<1>5. CASE Rejected
  <2>1. NotOver /\ rx = "ERROR" /\ UNCHANGED <<call, esp>> /\ pc = "confirm"
    BY <1>5, <1>s DEF Rejected
  <2>2. Unsent
    BY <2>1 DEF Unsent
  <2>3. CASE SentOrGivenUp
    BY <1>g, <2>1, <2>2, <2>3
  <2>4. CASE ~SentOrGivenUp
    BY <1>5, <1>e, <1>u, <2>1, <2>2, <2>4 DEF Rejected, esp
  <2> QED BY <2>3, <2>4
<1>6. CASE Confirmed \/ ConfirmTimeOut
  <2>1. pc = "confirm" /\ SentOrGivenUp /\ UNCHANGED <<call, esp>>
    BY <1>6 DEF Confirmed, ConfirmTimeOut
  <2>2. k = chunks \/ Unsent
    BY <1>k, <1>n, <1>s, <2>1
  <2> QED BY <1>g, <2>1, <2>2
<1>7. CASE WaitAnswer \/ ReadChunk \/ ReadNext
  BY <1>7, <1>w DEF WaitAnswer, ReadChunk, Fetch, ReadNext
<1>8. CASE EspCheck
  <2>1. rx = "CRC_PROCESSING" /\ UNCHANGED <<pc, call, chunks, k, carried>>
    BY <1>8 DEF EspCheck, driver
  <2>2. Latest' = Latest
    BY <2>1 DEF Latest, Calls!Latest
  <2>3. CASE staged.good
    <3>1. inbox' = Append(inbox, staged.chunk) /\ rx' \in {"READY", "BUSY"} /\ staged.chunk \in Chunks
      BY <1>8, <2>3 DEF EspCheck, IInv, TypeInv, EspType
    <3>2. \A i \in 1 .. Len(inbox') : inbox'[i] = staged.chunk \/ (i \in 1 .. Len(inbox) /\ inbox'[i] = inbox[i])
      BY <1>n, <3>1, AppendProperties
    <3>3. Unsent => Unsent'
      BY <2>1, <2>2, <3>1, <3>2 DEF Unsent, NotOver, Ends
    <3> QED BY <1>s, <2>1, <3>1, <3>3 DEF SendInv, Unsent
  <2>4. CASE ~staged.good
    <3>1. inbox' = inbox /\ rx' = "ERROR"
      BY <1>8, <2>4 DEF EspCheck
    <3>2. (Unsent => Unsent') /\ (NotOver => NotOver')
      BY <2>1, <2>2, <3>1 DEF Unsent, NotOver, Ends
    <3> QED BY <1>s, <2>1, <3>1, <3>2 DEF SendInv, Unsent
  <2> QED BY <2>3, <2>4
<1>9. CASE EspCarryOut
  <2>1. inbox' = <<>> /\ rx' = "READY" /\ UNCHANGED <<pc, call, chunks, k>>
    BY <1>9 DEF EspCarryOut, driver
  <2>2. NotOver => Latest' < call
    <3>1. CASE ~Whole
      BY <1>9, <3>1 DEF EspCarryOut, NotOver, Latest, Calls!Latest
    <3>2. CASE Whole
      <4> SUFFICES ASSUME NotOver PROVE Latest' < call
        OBVIOUS
      <4> DEFINE c == inbox[1].call
                 n == Len(inbox)
      <4>1. /\ c \in Latest + 1 .. call /\ c \in 1 .. MaxCalls /\ carried' = Append(carried, c)
            /\ inbox = Message(c, n) /\ n \in Nat \ {0}
        BY <1>9, <3>2, CarryOutOf
      <4>2. Latest' = c
        <5> HIDE DEF c
        <5> QED BY <4>1, LatestOf DEF IInv, TypeInv, EspType
      <4>3. inbox[n].call = c /\ inbox[n].last
        <5> HIDE DEF c, n
        <5>1. inbox[n] = Chunk(c, n, n = n)
          BY <4>1 DEF Message
        <5>2. inbox[n].call = c /\ inbox[n].last = (n = n)
          BY <5>1 DEF Chunk
        <5> QED BY <5>2
      <4>4. n \in 1 .. Len(inbox)
        BY <4>1
      <4>5. c # call
        BY <4>3, <4>4 DEF NotOver, Ends
      <4> HIDE DEF c
      <4> QED BY <1>n, <4>1, <4>2, <4>5
    <3> QED BY <3>1, <3>2
  <2>3. Unsent => Unsent'
    BY <2>1, <2>2 DEF Unsent, NotOver
  <2> QED BY <1>s, <2>1, <2>3 DEF SendInv, Unsent
<1>10. CASE EspReset
  <2>1. inbox' = <<>> /\ rx' = "READY" /\ UNCHANGED <<pc, call, chunks, k, carried>>
    BY <1>10 DEF EspReset, driver
  <2>2. Unsent => Unsent'
    BY <2>1 DEF Unsent, NotOver, Latest, Calls!Latest
  <2> QED BY <1>s, <2>1, <2>2 DEF SendInv, Unsent
<1>11. CASE EspAnswer \/ EspBack
  <2>1. UNCHANGED <<pc, k, chunks, call, rx, staged, inbox, carried>>
    BY <1>11 DEF EspAnswer, EspBack, driver
  <2> QED BY <1>s, <1>e, <2>1 DEF SendInv, Unsent
<1> QED
  BY <1>0, <1>1, <1>2, <1>3, <1>4, <1>5, <1>6, <1>7, <1>8, <1>9, <1>10, <1>11 DEF Next, Driver, Esp

-----------------------------------------------------------------------------
(* A call without mishap.                                                  *)

LEMMA NextCleanInv ==
  ASSUME IInv, CleanInv, [Next]_vars
  PROVE  CleanInv'
<1> SUFFICES ASSUME ~wounded' PROVE CleanInv'
  BY DEF CleanInv
<1>t. DriverType /\ EspType
  BY DEF IInv, TypeInv
<1>n. /\ call \in Nat /\ k \in Nat /\ chunks \in Nat \ {0} /\ MaxChunks \in Nat \ {0}
      /\ pc \in {"flush", "write", "confirm"} => k \in 1 .. chunks
  BY <1>t, BoundsAssumption DEF DriverType
<1>m. call \in Nat /\ chunks \in Nat
  BY <1>n
<1>c. /\ alive => rx # "BUSY" \/ inbox # <<>>
      /\ ~wounded =>
           /\ pc # "idle" => alive
           /\ pc \in {"flush", "write"} => rx \in {"READY", "ERROR"} /\ inbox = Sent(call, chunks, k - 1)
           /\ pc = "confirm" =>
                \/ /\ rx = "CRC_PROCESSING" /\ staged.chunk = Chunk(call, k, k = chunks)
                   /\ inbox = Sent(call, chunks, k - 1)
                \/ rx = "ERROR" /\ inbox = Sent(call, chunks, k - 1)
                \/ rx = "READY" /\ k < chunks /\ inbox = Sent(call, chunks, k)
                \/ rx \in {"READY", "BUSY"} /\ k = chunks /\ Arrived
           /\ pc \in {"wait_answer", "read", "read_next"} => Arrived
  BY DEF CleanInv, IInv, FreshInv
<1>e. UNCHANGED <<call, chunks, rx, inbox, carried>> => Arrived' = Arrived
  BY DEF Arrived
<1>0. ASSUME UNCHANGED <<pc, k, wounded, call, chunks, alive, rx, staged, inbox, carried>>
      PROVE  CleanInv'
  BY <1>0, <1>c, <1>e DEF CleanInv
<1>1. CASE Call
  <2>1. /\ alive /\ rx \in {"READY", "ERROR"} /\ inbox = <<>>
        /\ pc' = "flush" /\ k' = 1 /\ UNCHANGED <<alive, rx, inbox>>
    BY <1>1 DEF Call, Quiet, RxReady, esp
  <2>2. call' \in Nat /\ chunks' \in Nat
    BY <1>1, <1>n DEF Call
  <2>3. Sent(call', chunks', k' - 1) = <<>>
    <3>1. k' - 1 = 0
      BY <2>1
    <3> QED BY <2>2, <3>1, SentOf
  <2> QED BY <2>1, <2>3 DEF CleanInv
<1>2. CASE FlushReady
  <2>1. pc = "flush" /\ pc' = "write" /\ UNCHANGED <<k, wounded, call, chunks, alive, rx, inbox>>
    BY <1>2 DEF FlushReady, esp
  <2> QED BY <1>c, <2>1 DEF CleanInv
<1>3. CASE FlushTimeOut \/ ConfirmTimeOut \/ EspReset
  BY <1>3 DEF FlushTimeOut, ConfirmTimeOut, EspReset
<1>4. CASE WriteData
  <2>1. /\ pc = "write" /\ pc' = "confirm" /\ ~wounded
        /\ UNCHANGED <<k, call, chunks, alive, inbox>>
    BY <1>4 DEF WriteData
  <2>2. alive /\ inbox = Sent(call, chunks, k - 1)
    BY <1>c, <2>1
  <2>3. rx' = "CRC_PROCESSING" /\ staged'.chunk = Chunk(call, k, k = chunks)
    BY <1>4, <2>2 DEF WriteData
  <2> QED BY <2>1, <2>2, <2>3 DEF CleanInv
<1>5. CASE Rejected
  <2>1. /\ pc = "confirm" /\ rx = "ERROR" /\ ~wounded
        /\ pc' = "write" /\ UNCHANGED <<k, call, chunks, alive, rx, inbox>>
    BY <1>5 DEF Rejected, esp
  <2>2. alive /\ inbox = Sent(call, chunks, k - 1)
    BY <1>c, <2>1
  <2> QED BY <2>1, <2>2 DEF CleanInv
<1>6. CASE Confirmed
  <2>1. /\ pc = "confirm" /\ rx \in {"READY", "BUSY"} /\ ~wounded /\ SentOrGivenUp
        /\ UNCHANGED <<call, chunks, alive, rx, inbox, carried>>
    BY <1>6 DEF Confirmed, esp
  <2>2. /\ alive
        /\ \/ rx = "READY" /\ k < chunks /\ inbox = Sent(call, chunks, k)
           \/ k = chunks /\ Arrived
    BY <1>c, <2>1
  <2>3. CASE k = chunks
    <3>1. Arrived /\ pc' = "wait_answer"
      BY <1>n, <2>1, <2>2, <2>3 DEF SentOrGivenUp
    <3> QED BY <1>e, <2>1, <2>2, <3>1 DEF CleanInv
  <2>4. CASE k # chunks
    <3>1. pc' = "flush" /\ k' = k + 1 /\ k' - 1 = k
      BY <1>n, <2>1, <2>4 DEF SentOrGivenUp
    <3> QED BY <2>1, <2>2, <2>4, <3>1 DEF CleanInv
  <2> QED BY <2>3, <2>4
<1>7. CASE WaitAnswer \/ ReadChunk \/ ReadNext
  <2>1. /\ pc \in {"wait_answer", "read", "read_next"}
        /\ pc' \in {"idle", "wait_answer", "read", "read_next"}
        /\ UNCHANGED <<wounded, call, chunks, alive, rx, inbox, carried>>
    <3>1. CASE WaitAnswer
      BY <3>1 DEF WaitAnswer, esp
    <3>2. CASE ReadChunk
      BY <3>2 DEF ReadChunk, Fetch
    <3>3. CASE ReadNext
      BY <3>3 DEF ReadNext, esp
    <3> QED BY <1>7, <3>1, <3>2, <3>3
  <2> QED BY <1>c, <1>e, <2>1 DEF CleanInv
<1>8. CASE EspCheck
  <2>1. /\ rx = "CRC_PROCESSING" /\ UNCHANGED <<pc, k, wounded, call, chunks, alive, carried>>
    BY <1>8 DEF EspCheck, driver
  <2>2. CASE pc = "confirm"
    <3>1. alive /\ staged.chunk = Chunk(call, k, k = chunks) /\ inbox = Sent(call, chunks, k - 1)
      BY <1>c, <2>1, <2>2
    <3>2. CASE staged.good
      <4>1. inbox' = Append(inbox, staged.chunk) /\ rx' = IF staged.chunk.last THEN "BUSY" ELSE "READY"
        BY <1>8, <3>2 DEF EspCheck
      <4>2. inbox' = Sent(call, chunks, k)
        <5>1. k - 1 \in Nat /\ (k - 1) + 1 = k
          BY <1>n, <2>2
        <5>2. Append(Sent(call, chunks, k - 1), Place(call, chunks, (k - 1) + 1))
                = Sent(call, chunks, (k - 1) + 1)
          BY <1>m, <5>1, SentOf
        <5>3. staged.chunk = Place(call, chunks, k)
          BY <3>1, Zenon DEF Place
        <5> QED BY <3>1, <4>1, <5>1, <5>2, <5>3
      <4>3. staged.chunk.last = (k = chunks)
        BY <3>1 DEF Chunk
      <4>4. CASE k = chunks
        <5>1. Arrived' /\ rx' = "BUSY"
          BY <2>1, <4>1, <4>2, <4>3, <4>4 DEF Arrived
        <5> QED BY <2>1, <2>2, <3>1, <4>4, <5>1 DEF CleanInv
      <4>5. CASE k # chunks
        <5>1. k < chunks
          BY <1>n, <2>2, <4>5
        <5> QED BY <2>1, <2>2, <3>1, <4>1, <4>2, <4>3, <4>5, <5>1 DEF CleanInv
      <4> QED BY <4>4, <4>5
    <3>3. CASE ~staged.good
      <4>1. inbox' = inbox /\ rx' = "ERROR"
        BY <1>8, <3>3 DEF EspCheck
      <4> QED BY <2>1, <2>2, <3>1, <4>1 DEF CleanInv
    <3> QED BY <3>2, <3>3
  <2>3. CASE pc \in {"wait_answer", "read", "read_next"}
    <3>1. alive /\ carried # <<>> /\ carried[Len(carried)] = call
      BY <1>c, <2>1, <2>3 DEF Arrived
    <3> QED BY <2>1, <2>3, <3>1 DEF CleanInv, Arrived
  <2>4. CASE pc = "idle"
    BY <2>1, <2>4 DEF CleanInv
  <2> QED BY <1>c, <1>t, <2>1, <2>2, <2>3, <2>4 DEF DriverType
<1>9. CASE EspCarryOut
  <2>1. /\ rx = "BUSY" /\ inbox' = <<>> /\ rx' = "READY"
        /\ UNCHANGED <<pc, k, wounded, call, chunks, alive>>
    BY <1>9 DEF EspCarryOut, driver
  <2>2. Arrived => carried' # <<>> /\ carried'[Len(carried')] = call
    <3> SUFFICES ASSUME Arrived PROVE carried' # <<>> /\ carried'[Len(carried')] = call
      OBVIOUS
    <3>1. ~(carried # <<>> /\ carried[Len(carried)] = call)
      <4> SUFFICES ASSUME carried # <<>>, carried[Len(carried)] = call PROVE FALSE
        OBVIOUS
      <4>1. Latest = call
        BY DEF Latest, Calls!Latest
      <4>2. inbox \in Seq(Chunks) /\ inbox # <<>>
        BY <1>t, <2>1 DEF EspType, IInv, FreshInv
      <4>3. 1 \in 1 .. Len(inbox)
        BY <4>2
      <4>4. inbox[1].call \in call + 1 .. call
        BY <4>1, <4>3 DEF IInv, FreshInv
      <4> QED BY <1>n, <4>4
    <3>2. inbox = Sent(call, chunks, chunks)
      BY <3>1 DEF Arrived
    <3>3. inbox = Message(call, chunks) /\ Len(inbox) = chunks /\ inbox[1].call = call
      <4>1. /\ Message(call, chunks) = Sent(call, chunks, chunks)
            /\ \A n \in Nat : Len(Sent(call, chunks, n)) = n /\ (n > 0 => Sent(call, chunks, n)[1].call = call)
        BY <1>m, SentOf
      <4>2. chunks \in Nat /\ chunks > 0
        BY <1>n
      <4> QED BY <3>2, <4>1, <4>2, Zenon
    <3>4. Whole
      BY <3>3 DEF Whole
    <3>5. carried' = Append(carried, call) /\ call \in 1 .. MaxCalls
      BY <1>9, <3>3, <3>4, CarryOutOf
    <3> QED BY <1>t, <3>5, LatestOf DEF EspType
  <2>3. CASE pc = "confirm"
    <3>1. alive /\ k = chunks /\ Arrived
      BY <1>c, <2>1, <2>3
    <3> QED BY <2>1, <2>2, <2>3, <3>1 DEF CleanInv, Arrived
  <2>4. CASE pc \in {"wait_answer", "read", "read_next"}
    <3>1. alive /\ Arrived
      BY <1>c, <2>1, <2>4
    <3> QED BY <2>1, <2>2, <2>4, <3>1 DEF CleanInv, Arrived
  <2>5. CASE pc = "idle"
    BY <2>1, <2>5 DEF CleanInv
  <2> QED BY <1>c, <1>t, <2>1, <2>3, <2>4, <2>5 DEF DriverType
<1>10. CASE EspAnswer
  BY <1>0, <1>10 DEF EspAnswer, driver
<1>11. CASE EspBack
  <2>1. pc = "idle"
    BY <1>11, <1>c DEF EspBack
  <2> QED BY <1>11, <2>1 DEF EspBack, driver, CleanInv
<1>12. CASE UNCHANGED vars
  BY <1>0, <1>12 DEF vars, driver, esp
<1> QED
  BY <1>1, <1>2, <1>3, <1>4, <1>5, <1>6, <1>7, <1>8, <1>9, <1>10, <1>11, <1>12 DEF Next, Driver, Esp

-----------------------------------------------------------------------------
LEMMA Inductive == Spec => []IInv
<1>1. IInv /\ [Next]_vars => IInv'
  BY NextDriverType, NextEspType, NextFreshInv, NextSendInv DEF IInv, TypeInv
<1> QED BY <1>1, InitInv, PTL DEF Spec

\* Every variable has its type.
THEOREM TypeCorrect == Spec => []TypeOK
<1>1. IInv => TypeOK
  BY DEF IInv, TypeInv, DriverType, EspType, TypeOK
<1> QED BY <1>1, Inductive, PTL

\* No call is carried out twice or out of order, although chunks are written again after a
\* rejection (espspi_proxy.c 173-184) and after nothing else (396-401).
THEOREM CarriesOutInOrder == Spec => ImplementsEspCall
<1>1. ASSUME IInv, [Next]_vars
      PROVE  [Calls!Next]_<<call, carried>>
  <2>1. CASE Call
    BY <2>1 DEF Call, esp, Calls!Next, Calls!Ask
  <2>2. CASE EspCarryOut
    <3>1. CASE Whole
      <4>1. /\ inbox[1].call \in Latest + 1 .. call /\ carried' = Append(carried, inbox[1].call)
        BY <1>1, <2>2, <3>1, CarryOutOf
      <4> QED BY <2>2, <4>1 DEF EspCarryOut, driver, Latest, Calls!Next, Calls!CarryOut
    <3>2. CASE ~Whole
      BY <2>2, <3>2 DEF EspCarryOut, driver
    <3> QED BY <3>1, <3>2
  <2>3. CASE FlushReady \/ FlushTimeOut \/ WriteData \/ Rejected \/ Confirmed \/ ConfirmTimeOut
             \/ WaitAnswer \/ ReadChunk \/ ReadNext \/ EspCheck \/ EspAnswer \/ EspReset \/ EspBack
             \/ UNCHANGED vars
    BY <2>3 DEF FlushReady, FlushTimeOut, WriteData, Rejected, Confirmed, ConfirmTimeOut, WaitAnswer,
         ReadChunk, Fetch, ReadNext, EspCheck, EspAnswer, EspReset, EspBack, vars, driver, esp
  <2> QED BY <1>1, <2>1, <2>2, <2>3 DEF Next, Driver, Esp
<1> QED BY <1>1, Inductive, InitInv, PTL DEF Spec, ImplementsEspCall, Calls!Spec, Calls!callVars

\* A call without mishap is with the ESP, whole, when its answer is waited for.
THEOREM CleanCallAlwaysArrives == Spec => []CleanCallArrives
<1>1. IInv /\ CleanInv /\ [Next]_vars => CleanInv'
  BY NextCleanInv
<1>2. IInv /\ CleanInv => CleanCallArrives
  <2>1. Message(call, chunks) = Sent(call, chunks, chunks)
    BY DEF Message, Sent, Place
  <2> QED BY <2>1 DEF CleanInv, CleanCallArrives, Arrived
<1> QED BY <1>1, <1>2, Inductive, InitInv, PTL DEF Spec

=============================================================================
