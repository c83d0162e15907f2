------------------------------- MODULE EspSpi -------------------------------
(***************************************************************************)
(* The SPI link to the ESP8285 (esp8285/wifi/utility): a call is a message *)
(* of one or more 32-byte chunks, each confirmed or rejected by the ESP's  *)
(* status register, and an answer of one or more chunks.  espspi_proxy.c   *)
(* moves chunks, espspi_drv.c builds messages and reads answers, every     *)
(* function of wifispi_drv.c and srvspi_drv.c is one call.                 *)
(*                                                                         *)
(* A chunk is its place in its call; what a parameter says is left out, so *)
(* whether an answer that was damaged is accepted is open.  A status whose *)
(* two halves do not match is read again and only costs time.  How long    *)
(* anything takes is open: a wait may time out whenever what it waits for  *)
(* is not there.                                                           *)
(*                                                                         *)
(* External: the ESP's firmware.  As the driver uses it, it is processing  *)
(* a chunk as soon as that is written, forgets an answer nobody fetched    *)
(* when a new chunk comes, appends chunks whose CRC is right to its        *)
(* message and, at the last one, carries out a message that is whole.  It  *)
(* may be slow, and may reset itself at any time.  That it knows a message *)
(* that is whole is assumed: a chunk carries neither its call nor its      *)
(* place (the call in Chunk is not on the line), so what an ESP does with  *)
(* the chunks of two calls that happen to look like one message is not in  *)
(* this module.                                                            *)
(***************************************************************************)
EXTENDS Naturals, Sequences

CONSTANTS
  MaxChunks,        \* bound: chunks of a message and of an answer
  MaxTries,         \* of one chunk: 10 in EspSpiProxy_flush
  MaxPolls,         \* further waits while PREPARING_DATA: 9 in startClient
  MaxCalls,         \* bound: calls made
  MaxResets         \* bound: resets of the ESP

ASSUME BoundsAssumption ==
  /\ MaxChunks \in Nat \ {0} /\ MaxTries \in Nat \ {0}
  /\ MaxPolls \in Nat /\ MaxCalls \in Nat /\ MaxResets \in Nat

VARIABLES
  pc,               \* where the driver is
  call, chunks,     \* the call under way (the calls so far) and its chunks
  k,                \* the chunk being sent, or the chunks of the answer read
  tries, polls,     \* loop counters
  patient,          \* a call that waits longer for its answer
  wounded,          \* something went wrong with this call, or before it
  alive, resets,    \* the ESP: it runs, resets so far
  rx, tx,           \* its status
  staged,           \* the chunk written to it, with what the line made of it
  inbox,            \* the chunks of the message it is receiving
  carried,          \* the calls carried out
  left              \* chunks of its answer to be fetched

driver == <<pc, call, chunks, k, tries, polls, patient>>
esp    == <<alive, resets, rx, tx, staged, inbox, carried, left>>
vars   == <<driver, wounded, esp>>

Chunk(c, i, last) == [call |-> c, k |-> i, last |-> last]
Message(c, n) == [i \in 1 .. n |-> Chunk(c, i, i = n)]

NoChunk == Chunk(0, 0, TRUE)
RxReady == alive /\ rx \in {"READY", "ERROR"}
Quiet   == RxReady /\ inbox = <<>>       \* nothing of an earlier call is left in it

-----------------------------------------------------------------------------
(* A command is sent: EspSpiDrv_sendCmd, _sendParam, _endCmd.              *)

\* (sendCmd waits for the ESP but does not look at the result.)
Call ==
  /\ pc = "idle" /\ call < MaxCalls
  /\ call' = call + 1
  /\ \E n \in 1 .. MaxChunks : chunks' = n
  /\ patient' \in BOOLEAN
  /\ k' = 1 /\ tries' = 0 /\ polls' = 0
  /\ pc' = "flush"
  /\ wounded' = ~Quiet
  /\ UNCHANGED esp

\* The next chunk, or the answer.
SentOrGivenUp ==
  /\ IF k = chunks THEN k' = 0 /\ pc' = "wait_answer" ELSE k' = k + 1 /\ pc' = "flush"
  /\ tries' = 0

\* EspSpiProxy_flush: the ESP is ready for the chunk.
FlushReady ==
  /\ pc = "flush" /\ RxReady
  /\ pc' = "write"
  /\ UNCHANGED <<call, chunks, k, tries, polls, patient, wounded, esp>>

\* It is not in time: the chunk is dropped without a word.
FlushTimeOut ==
  /\ pc = "flush" /\ ~RxReady
  /\ SentOrGivenUp
  /\ wounded' = TRUE
  /\ UNCHANGED <<call, chunks, polls, patient, esp>>

\* EspSpiProxy_writeData: the line may damage the chunk.
WriteData ==
  /\ pc = "write"
  /\ pc' = "confirm"
  /\ IF alive
     THEN /\ rx' = "CRC_PROCESSING"
          /\ tx' = "NODATA" /\ left' = 0
          /\ \E good \in BOOLEAN :
               staged' = [chunk |-> Chunk(call, k, k = chunks), good |-> good]
     ELSE UNCHANGED <<rx, tx, left, staged>>
  /\ UNCHANGED <<call, chunks, k, tries, polls, patient, wounded,
                 alive, resets, inbox, carried>>

SlipRejected ==                          \* tried again without end
  /\ pc = "confirm" /\ alive /\ rx = "ERROR"
  /\ pc' = "write"
  /\ UNCHANGED <<call, chunks, k, tries, polls, patient, wounded, esp>>

SlipRejectedOnce ==                      \* not tried again
  /\ pc = "confirm" /\ alive /\ rx = "ERROR"
  /\ SentOrGivenUp
  /\ UNCHANGED <<call, chunks, polls, patient, wounded, esp>>

\* EspSpiProxy_waitForSlaveRxConfirmation, returning 0: the chunk is written again,
\* ten times at most.
Rejected ==
  /\ pc = "confirm" /\ alive /\ rx = "ERROR"
  /\ IF tries + 1 < MaxTries
     THEN /\ tries' = tries + 1
          /\ pc' = "write"
          /\ UNCHANGED <<k, wounded>>
     ELSE /\ SentOrGivenUp
          /\ wounded' = TRUE
  /\ UNCHANGED <<call, chunks, polls, patient, esp>>

Confirmed ==
  /\ pc = "confirm" /\ alive /\ rx \in {"READY", "BUSY"}
  /\ SentOrGivenUp
  /\ UNCHANGED <<call, chunks, polls, patient, wounded, esp>>

SlipConfirmTimeOut ==                    \* the chunk is written again
  /\ pc = "confirm" /\ (~alive \/ rx = "CRC_PROCESSING")
  /\ IF tries + 1 < MaxTries
     THEN tries' = tries + 1 /\ pc' = "write" /\ UNCHANGED k
     ELSE SentOrGivenUp
  /\ wounded' = TRUE
  /\ UNCHANGED <<call, chunks, polls, patient, esp>>

\* "We can't retransmit in order not to replay old data, assume everything is ok."
ConfirmTimeOut ==
  /\ pc = "confirm" /\ (~alive \/ rx = "CRC_PROCESSING")
  /\ SentOrGivenUp
  /\ wounded' = TRUE
  /\ UNCHANGED <<call, chunks, polls, patient, esp>>

-----------------------------------------------------------------------------
(* The answer: EspSpiDrv_waitResponseCmd, _waitResponseCmd16, _Params.     *)

\* Data is there, or the wait ended without any, which nobody looks at: the driver
\* reads.  While the ESP is preparing data a patient call waits again.
WaitAnswer ==
  /\ pc = "wait_answer"
  /\ IF alive /\ tx = "PREPARING" /\ patient /\ polls < MaxPolls
     THEN polls' = polls + 1 /\ UNCHANGED pc
     ELSE pc' = "read" /\ UNCHANGED polls
  /\ UNCHANGED <<call, chunks, k, tries, patient, wounded, esp>>

\* EspSpiProxy_readByte fetches the next chunk, once, when the one before is used up.
Fetch ==
  IF alive /\ tx = "READY"
  THEN /\ left' = left - 1
       /\ tx' = IF left = 1 THEN "NODATA" ELSE "PREPARING"
  ELSE UNCHANGED <<left, tx>>

\* The answer ends with any byte that is not what it should be, or with the last one;
\* the call's buffers bound its length.
ReadChunk ==
  /\ pc = "read"
  /\ Fetch
  /\ \/ /\ pc' = "idle"
        /\ UNCHANGED k
     \/ /\ k + 1 < MaxChunks
        /\ k' = k + 1
        /\ pc' = "read_next"
  /\ UNCHANGED <<call, chunks, tries, polls, patient, wounded,
                 alive, resets, rx, staged, inbox, carried>>

\* Between two chunks of an answer it waits once, however that ends.
ReadNext ==
  /\ pc = "read_next"
  /\ pc' = "read"
  /\ UNCHANGED <<call, chunks, k, tries, polls, patient, wounded, esp>>

-----------------------------------------------------------------------------
(* The ESP.                                                                *)

\* It has looked at the CRC.
EspCheck ==
  /\ alive /\ rx = "CRC_PROCESSING"
  /\ IF staged.good
     THEN /\ inbox' = Append(inbox, staged.chunk)
          /\ rx' = IF staged.chunk.last THEN "BUSY" ELSE "READY"
     ELSE /\ rx' = "ERROR"
          /\ UNCHANGED inbox
  /\ staged' = [chunk |-> NoChunk, good |-> FALSE]
  /\ UNCHANGED <<driver, wounded, alive, resets, tx, carried, left>>

\* (Assumed of the ESP: the call is not on the line.)
Whole == inbox = Message(inbox[1].call, Len(inbox))

\* The message is complete: carried out if it is one.  The ESP may say that the
\* answer takes longer.
EspCarryOut ==
  /\ alive /\ rx = "BUSY"
  /\ IF Whole
     THEN /\ carried' = Append(carried, inbox[1].call)
          /\ tx' \in {"PREPARING", "READY"}
          /\ left' \in 1 .. MaxChunks
     ELSE UNCHANGED <<carried, tx, left>>
  /\ inbox' = <<>>
  /\ rx' = "READY"
  /\ UNCHANGED <<driver, wounded, alive, resets, staged>>

EspAnswer ==
  /\ alive /\ tx = "PREPARING"
  /\ tx' = "READY"
  /\ UNCHANGED <<driver, wounded, alive, resets, rx, staged, inbox, carried, left>>

\* It resets: what it had is gone, and its status makes no sense until it is back.
EspReset ==
  /\ alive /\ resets < MaxResets
  /\ alive' = FALSE /\ resets' = resets + 1
  /\ rx' = "READY" /\ tx' = "NODATA" /\ left' = 0
  /\ staged' = [chunk |-> NoChunk, good |-> FALSE]
  /\ inbox' = <<>>
  /\ wounded' = TRUE
  /\ UNCHANGED <<driver, carried>>

EspBack ==
  /\ ~alive
  /\ alive' = TRUE
  /\ UNCHANGED <<driver, wounded, resets, rx, tx, staged, inbox, carried, left>>

-----------------------------------------------------------------------------
Init ==
  /\ pc = "idle" /\ call = 0 /\ chunks = 1 /\ k = 0
  /\ tries = 0 /\ polls = 0 /\ patient = FALSE /\ wounded = FALSE
  /\ alive = TRUE /\ resets = 0
  /\ rx = "READY" /\ tx = "NODATA" /\ left = 0
  /\ staged = [chunk |-> NoChunk, good |-> FALSE]
  /\ inbox = <<>> /\ carried = <<>>

Driver ==
  \/ FlushReady \/ FlushTimeOut \/ WriteData
  \/ Rejected \/ Confirmed \/ ConfirmTimeOut
  \/ WaitAnswer \/ ReadChunk \/ ReadNext

Esp == EspCheck \/ EspCarryOut \/ EspAnswer \/ EspReset \/ EspBack

Next == Call \/ Driver \/ Esp
Spec == Init /\ [][Next]_vars

\* The driver runs and its waits end; the ESP need not do anything.
FairSpec == Spec /\ WF_vars(Driver)

-----------------------------------------------------------------------------
(* Properties                                                              *)

TypeOK ==
  /\ pc \in {"idle", "flush", "write", "confirm", "wait_answer", "read", "read_next"}
  /\ call \in 0 .. MaxCalls /\ chunks \in 1 .. MaxChunks /\ k \in 0 .. MaxChunks
  /\ pc \in {"flush", "write", "confirm"} => k \in 1 .. chunks
  /\ tries \in 0 .. MaxTries - 1 /\ polls \in 0 .. MaxPolls
  /\ patient \in BOOLEAN /\ wounded \in BOOLEAN
  /\ alive \in BOOLEAN /\ resets \in 0 .. MaxResets
  /\ rx \in {"READY", "BUSY", "CRC_PROCESSING", "ERROR"}
  /\ tx \in {"NODATA", "PREPARING", "READY"}
  /\ left \in 0 .. MaxChunks /\ (tx # "NODATA" => left > 0)
  /\ carried \in Seq(1 .. MaxCalls)

Calls == INSTANCE EspCall WITH asked <- call

\* The ESP carries out what it was asked to, at most once and in order, although
\* chunks are damaged and sent again, confirmations come too late and the ESP resets.
ImplementsEspCall == Calls!Spec

\* A call that finds the ESP quiet, none of whose waits runs out and none of whose
\* chunks is damaged ten times, has reached the ESP whole when the driver turns to
\* the answer.
CleanCallArrives ==
  pc \in {"wait_answer", "read", "read_next"} /\ ~wounded
    => \/ rx = "BUSY" /\ inbox = Message(call, chunks)
       \/ carried # <<>> /\ carried[Len(carried)] = call

\* Every call returns, whatever the line and the ESP do: the main loop is never held
\* up for good.
CallReturns == pc # "idle" ~> pc = "idle"
=============================================================================
