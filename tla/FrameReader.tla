----------------------------- MODULE FrameReader -----------------------------
(***************************************************************************)
(* Finding frames in the BMS byte stream: FrameReader of                   *)
(* packages/bms-monitoring/src/frame.rs, fed by read_until of port.rs.     *)
(*                                                                         *)
(* The stream is any sequence of bytes cut into chunks anywhere.  The wire *)
(* constants are parameters: a header of four bytes, frames of 300 with    *)
(* the 8-bit sum of the others last.                                       *)
(***************************************************************************)
EXTENDS Integers, Sequences, Functions

CONSTANTS
  Bytes,      \* the byte values
  Modulus,    \* what the sum wraps at
  HEADER,     \* the header bytes
  FRAME_LEN,  \* the length of a frame
  MaxStream   \* how much the line delivers

ASSUME HeaderAssumption == HEADER \in Seq(Bytes) /\ Len(HEADER) \in Nat \ {0}
ASSUME LengthAssumption ==
  /\ FRAME_LEN \in Nat /\ FRAME_LEN > Len(HEADER)
  /\ Modulus \in Nat \ {0} /\ Bytes \subseteq Nat /\ MaxStream \in Nat

VARIABLES
  stream,            \* everything the line has delivered
  buffer,            \* what is not consumed yet
  draining,          \* the caller is taking frames; it reads again after None
  delivered,         \* the frames handed out
  frames_ok, frames_discarded, bytes_skipped, bytes_read

reader_vars == <<stream, buffer, draining, delivered, frames_ok, frames_discarded, bytes_skipped, bytes_read>>

-----------------------------------------------------------------------------
\* The wrapping sum of all bytes but the last.
checksum(frame) ==
  FoldFunction(LAMBDA x, y : (x + y) % Modulus, 0, SubSeq(frame, 1, FRAME_LEN - 1))

HeaderAt(bytes, i) ==
  /\ i + Len(HEADER) - 1 <= Len(bytes)
  /\ \A j \in DOMAIN HEADER : bytes[i + j - 1] = HEADER[j]

FrameAt(bytes, i) == SubSeq(bytes, i, i + FRAME_LEN - 1)

\* Bytes in front of the first header; all of them when there is none.
BeforeHeader(bytes) ==
  LET found == {i \in DOMAIN bytes : HeaderAt(bytes, i)}
  IN  IF found = {} THEN Len(bytes)
      ELSE (CHOOSE i \in found : \A j \in found : i <= j) - 1

HasHeader(bytes) == \E i \in DOMAIN bytes : HeaderAt(bytes, i)

\* What `step` decides about the front of the buffer.
Skippable(bytes) ==
  IF HasHeader(bytes) THEN BeforeHeader(bytes) ELSE Len(bytes) - (Len(HEADER) - 1)

Whole(bytes) == HeaderAt(bytes, 1) /\ Len(bytes) >= FRAME_LEN
Sound(bytes) == checksum(FrameAt(bytes, 1)) = bytes[FRAME_LEN]
Incomplete(bytes) == Skippable(bytes) <= 0 /\ ~Whole(bytes)

\* Mutant: a frame's last byte stays in the buffer.
drain_short(n) == buffer' = SubSeq(buffer, IF n = FRAME_LEN THEN n ELSE n + 1, Len(buffer))

drain(n) == buffer' = SubSeq(buffer, n + 1, Len(buffer))

\* The line delivers a chunk, once next_frame has returned None.
feed ==
  /\ ~draining
  /\ \E n \in 1..(MaxStream - Len(stream)) : \E chunk \in [1..n -> Bytes] :
       /\ stream' = stream \o chunk
       /\ buffer' = buffer \o chunk
       /\ bytes_read' = bytes_read + n
  /\ draining' = TRUE
  /\ UNCHANGED <<delivered, frames_ok, frames_discarded, bytes_skipped>>

\* Step::Skip: bytes that cannot start a frame; a header may still be cut off
\* at the end.
Skip ==
  /\ draining /\ Skippable(buffer) > 0
  /\ drain(Skippable(buffer))
  /\ bytes_skipped' = bytes_skipped + Skippable(buffer)
  /\ UNCHANGED <<stream, draining, delivered, frames_ok, frames_discarded, bytes_read>>

\* Step::Found.
Found ==
  /\ draining /\ Skippable(buffer) <= 0 /\ Whole(buffer) /\ Sound(buffer)
  /\ delivered' = Append(delivered, FrameAt(buffer, 1))
  /\ drain(FRAME_LEN)
  /\ frames_ok' = frames_ok + 1
  /\ UNCHANGED <<stream, draining, frames_discarded, bytes_skipped, bytes_read>>

\* Mutant: a bad frame is dropped whole.
BadChecksumWhole ==
  /\ draining /\ Skippable(buffer) <= 0 /\ Whole(buffer) /\ ~Sound(buffer)
  /\ drain(FRAME_LEN)
  /\ frames_discarded' = frames_discarded + 1
  /\ bytes_skipped' = bytes_skipped + FRAME_LEN
  /\ UNCHANGED <<stream, draining, delivered, frames_ok, bytes_read>>

\* Step::BadChecksum: resynchronise past this header only.
BadChecksum ==
  /\ draining /\ Skippable(buffer) <= 0 /\ Whole(buffer) /\ ~Sound(buffer)
  /\ drain(1)
  /\ frames_discarded' = frames_discarded + 1
  /\ bytes_skipped' = bytes_skipped + 1
  /\ UNCHANGED <<stream, draining, delivered, frames_ok, bytes_read>>

\* Mutant: a header cut off at the end is waited out in the loop.
DrainedAtHeader ==
  /\ draining /\ Skippable(buffer) <= 0 /\ HasHeader(buffer) /\ ~Whole(buffer)
  /\ draining' = FALSE
  /\ UNCHANGED <<stream, buffer, delivered, frames_ok, frames_discarded, bytes_skipped, bytes_read>>

\* Step::Incomplete: next_frame returns None.
Drained ==
  /\ draining /\ Incomplete(buffer)
  /\ draining' = FALSE
  /\ UNCHANGED <<stream, buffer, delivered, frames_ok, frames_discarded, bytes_skipped, bytes_read>>

ReaderInit ==
  /\ stream = <<>> /\ buffer = <<>> /\ draining = FALSE /\ delivered = <<>>
  /\ frames_ok = 0 /\ frames_discarded = 0 /\ bytes_skipped = 0 /\ bytes_read = 0

next_frame == Skip \/ Found \/ BadChecksum \/ Drained

ReaderNext == feed \/ next_frame

ReaderSpec == ReaderInit /\ [][ReaderNext]_reader_vars

\* The loop of next_frame runs on; nothing obliges the line to deliver.
ReaderFairSpec == ReaderSpec /\ WF_reader_vars(next_frame)
-----------------------------------------------------------------------------
(* Properties.                                                             *)

ReaderTypeOK ==
  /\ stream \in Seq(Bytes) /\ buffer \in Seq(Bytes) /\ delivered \in Seq(Seq(Bytes))
  /\ draining \in BOOLEAN
  /\ {frames_ok, frames_discarded, bytes_skipped, bytes_read} \subseteq Nat

(***************************************************************************)
(* Every byte read is in a delivered frame, counted as skipped or still in *)
(* the buffer: the counters account for the line exactly                   *)
(* (bytes_read, bytes_skipped, frames_ok).                                 *)
(***************************************************************************)
EveryByteCounted == bytes_read = FRAME_LEN * frames_ok + bytes_skipped + Len(buffer)

(***************************************************************************)
(* When next_frame returns None less than one frame stays behind, whatever *)
(* the line sent ("a reader that grows without bound is the bug").         *)
(***************************************************************************)
HoldsLessThanAFrame == ~draining => Len(buffer) < FRAME_LEN

\* Reference: the sound frames of a byte sequence, from the left and not
\* overlapping, are where nothing sound is missed.
SoundAt(bytes, i) ==
  HeaderAt(bytes, i) /\ checksum(FrameAt(bytes, i)) = bytes[i + FRAME_LEN - 1]
WholeAt(bytes, i) == i + FRAME_LEN - 1 <= Len(bytes)
Covers(start, i) == start <= i /\ i < start + FRAME_LEN
LeftmostFrames(starts, bytes) ==
  /\ \A k \in DOMAIN starts : WholeAt(bytes, starts[k]) /\ SoundAt(bytes, starts[k])
  /\ \A k, l \in DOMAIN starts : k < l => starts[k] + FRAME_LEN <= starts[l]
  /\ \A i \in 1..Len(bytes) :
       WholeAt(bytes, i) /\ SoundAt(bytes, i) => \E k \in DOMAIN starts : Covers(starts[k], i)

(***************************************************************************)
(* The frames delivered are those of the whole stream, in order, wherever  *)
(* the chunks were cut: a header split over two reads, a false header in   *)
(* the traffic between frames or a corrupt frame costs no sound frame that *)
(* does not overlap one delivered before it (step, and its comments on     *)
(* resynchronisation).                                                     *)
(***************************************************************************)
ChunksDoNotMatter ==
  ~draining =>
    \E starts \in [1..Len(delivered) -> 1..Len(stream)] :
      /\ LeftmostFrames(starts, stream)
      /\ \A k \in 1..Len(delivered) : delivered[k] = FrameAt(stream, starts[k])

(***************************************************************************)
(* next_frame returns: every pass of its loop consumes something or ends   *)
(* it.                                                                     *)
(***************************************************************************)
NextFrameReturns == draining ~> ~draining
=============================================================================
