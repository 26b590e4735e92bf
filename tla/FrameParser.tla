----------------------------- MODULE FrameParser -----------------------------
(***************************************************************************)
(* Finding frames in the serial stream (spe/serial_handler.py, the parsing *)
(* half).  Chunks of bytes arrive as the reader thread happens to read     *)
(* them; three 0xAA bytes and a marker open a frame.  A status (CSV) frame *)
(* has a fixed length, a display (RCU) frame ends where the next sync      *)
(* begins or when the line has been quiet for a while.                     *)
(*                                                                         *)
(* A byte is one the parser knows, or data.  The lengths are parameters:   *)
(* the code's are a payload of 67, a trailer of 4 and a buffer of 4096.    *)
(***************************************************************************)
EXTENDS Naturals, Sequences, SequencesExt, FiniteSets, FiniteSetsExt

CONSTANTS
  Data,        \* the bytes that are neither sync nor marker
  Payload,     \* length of a status frame's payload
  Trailer,     \* length of what follows it: checksum and line end
  MaxBuffer,   \* _MAX_BUFFER
  Chunks,      \* what one read may return
  MaxReads     \* bound: reads since the buffer was last emptied

Sync == "AA"
Csv == "43"
Rcu == "6A"
Byte == {Sync, Csv, Rcu} \cup Data

ASSUME DataAssumption == Data \cap {Sync, Csv, Rcu} = {}
ASSUME LengthsAssumption == Payload \in Nat /\ Trailer \in Nat
ASSUME BufferAssumption == MaxBuffer \in Nat /\ MaxBuffer > 4 + Payload + Trailer
ASSUME ChunksAssumption == \A c \in Chunks : c \in Seq(Byte) /\ c # <<>>
ASSUME MaxReadsAssumption == MaxReads \in Nat

VARIABLES
  buf,    \* _buffer
  got,    \* the frames handed on since it was last emptied, oldest first
  (* history *)
  stream, \* all bytes since then
  reads   \* how many reads brought them

framing == <<buf, got, stream, reads>>

CsvFrame(payload) == [kind |-> "csv", payload |-> payload]
RcuFrame(payload) == [kind |-> "rcu", payload |-> payload]
Frames == [kind : {"csv", "rcu"}, payload : Seq(Byte)]
Total == 4 + Payload + Trailer

-----------------------------------------------------------------------------
(* The parser. *)

From(s, i) == SubSeq(s, i, Len(s))

Syncs(s, start) == {i \in start .. Len(s) - 2 :
                      s[i] = Sync /\ s[i + 1] = Sync /\ s[i + 2] = Sync}

(* Without a sync, the last three bytes may still be the start of one.     *)
(* Mutant of Kept: they are not kept.                                      *)
KeptNothing(s) == IF Len(s) > 3 THEN <<>> ELSE s
Kept(s) == IF Len(s) > 3 THEN From(s, Len(s) - 2) ELSE s

(* Mutant of AfterCsv: one byte too many is taken for the trailer.         *)
AfterCsvAndOne(b) == From(b, Total + 2)
AfterCsv(b) == From(b, Total + 1)

RcuEnd(b) == Min(Syncs(b, 5))

(* What is left of s once the bytes before its first sync are gone.        *)
Synced(s) == From(s, Min(Syncs(s, 1)))

(* The loop ends when the rest of a frame, or its head, has yet to come.   *)
Waits(s) ==
  \/ Syncs(s, 1) = {}
  \/ LET b == Synced(s)
     IN  \/ Len(b) < 4
         \/ b[4] = Csv /\ Len(b) < Total
         \/ b[4] = Rcu /\ Syncs(b, 5) = {}

(* Otherwise one turn of it takes a frame, or a byte that is no part of    *)
(* one.                                                                    *)
Frame(b) ==
  CASE b[4] = Csv -> <<CsvFrame(SubSeq(b, 5, 4 + Payload))>>
    [] b[4] = Rcu -> <<RcuFrame(SubSeq(b, 5, RcuEnd(b) - 1))>>
    [] OTHER -> <<>>
Rest(b) ==
  CASE b[4] = Csv -> AfterCsv(b)
    [] b[4] = Rcu -> From(b, RcuEnd(b))
    [] OTHER -> Tail(b)

(* _drain_buffer: the frames found in s, and what stays in the buffer.     *)
Drain[s \in Seq(Byte)] ==
  IF Waits(s)
  THEN [found |-> <<>>, left |-> IF Syncs(s, 1) = {} THEN Kept(s) ELSE Synced(s)]
  ELSE LET d == Drain[Rest(Synced(s))]
       IN  [found |-> Frame(Synced(s)) \o d.found, left |-> d.left]

-----------------------------------------------------------------------------
(* A chunk arrives (_ingest_chunk). *)

(* Mutant of Ingest: the buffer has no limit.                              *)
IngestAll(chunk) ==
  LET drained == Drain[buf \o chunk]
  IN  /\ reads < MaxReads
      /\ buf' = drained.left
      /\ got' = got \o drained.found
      /\ stream' = stream \o chunk
      /\ reads' = reads + 1

Ingest(chunk) ==
  LET full == buf \o chunk
      drained == Drain[full]
  IN  /\ reads < MaxReads
      /\ Len(full) <= MaxBuffer
      /\ buf' = drained.left
      /\ got' = got \o drained.found
      /\ stream' = stream \o chunk
      /\ reads' = reads + 1

EmptyBuffer == buf' = <<>> /\ stream' = <<>> /\ reads' = 0

(* A buffer that is stuck is emptied. *)
Overflow(chunk) ==
  /\ Len(buf \o chunk) > MaxBuffer
  /\ EmptyBuffer /\ got' = <<>>

(* Quiet for 0.3 s: an open display frame is taken to be over.  The bound  *)
(* ends here too: with its buffer empty the parser is as good as new.      *)
QuietFlush ==
  /\ Len(buf) >= 4
  /\ 1 \in Syncs(buf, 1) /\ buf[4] = Rcu
  /\ buf' = <<>>
  /\ got' = Append(got, RcuFrame(From(buf, 5)))
  /\ reads' = MaxReads
  /\ UNCHANGED stream

(* _open_port starts from an empty buffer. *)
Reopen ==
  /\ stream # <<>>
  /\ EmptyBuffer /\ got' = <<>>

FramesInit == buf = <<>> /\ got = <<>> /\ stream = <<>> /\ reads = 0

FramesNext ==
  \/ \E c \in Chunks : Ingest(c) \/ Overflow(c)
  \/ QuietFlush \/ Reopen

FramesSpec == FramesInit /\ [][FramesNext]_framing

-----------------------------------------------------------------------------

FramesTypeOK ==
  /\ buf \in Seq(Byte) /\ Len(buf) <= MaxBuffer
  /\ stream \in Seq(Byte) /\ reads \in 0 .. MaxReads
  /\ got \in Seq(Frames)

(* Where the reads happened to cut the stream makes no difference to the   *)
(* frames found in it; a flush may add the open one.                       *)
ChunksDoNotMatter ==
  LET whole == Drain[stream]
  IN  \/ got = whole.found /\ buf = whole.left
      \/ got = Append(whole.found, RcuFrame(From(whole.left, 5))) /\ buf = <<>>

(* A status frame as the amplifier sends it: no sync in the text, in what  *)
(* follows it or across them.                                              *)
Intact(f) ==
  /\ Len(f) = Total
  /\ SubSeq(f, 1, 4) = <<Sync, Sync, Sync, Csv>>
  /\ Syncs(f, 5) = {}

(* Whatever came before, the second of two intact status frames in a row   *)
(* is found: a torn frame costs the parser one good frame at most.         *)
Resynchronises ==
  LET n == Len(stream)
      last == SubSeq(stream, n - Total + 1, n)
  IN  /\ n >= 2 * Total
      /\ Intact(SubSeq(stream, n - 2 * Total + 1, n - Total)) /\ Intact(last)
      => got # <<>> /\ Last(got) = CsvFrame(SubSeq(last, 5, 4 + Payload))
=============================================================================
