--------------------------- MODULE MCBmsMonitoring ---------------------------
(***************************************************************************)
(* The two halves of bms-monitoring, one at work in a behaviour: the       *)
(* reader sees bytes and no time, the daemon time and whole frames.        *)
(*                                                                         *)
(* Frames of four bytes: a header of two, a code and the sum.  With three  *)
(* byte values a header occurs inside a frame, after a bad one, and split  *)
(* over any two chunks.  The daemon has the defaults of the unit in units  *)
(* of 15 s: a measurement every minute (4), a frame timeout and a POST     *)
(* timeout of half a minute (2), settings "daily" after 10.                *)
(***************************************************************************)
EXTENDS FrameReader, BmsMonitoring

VARIABLE half

vars == <<half, reader_vars, bms_vars>>

ThreeBytes == 0..2
TwoByteHeader == <<1, 2>>

\* A line that may lose either frame of a unit, with everything else that can
\* go wrong, and one that loses none.
NoisyLine == [bursts |-> SUBSET Kinds, faults |-> TRUE]
CleanLine == [bursts |-> {Kinds}, faults |-> FALSE]
BothLines == {NoisyLine, CleanLine}
OnlyClean == {CleanLine}

Init ==
  /\ half \in {"reader", "daemon"}
  /\ ReaderInit /\ BmsInit
  /\ half = "reader" => line = CleanLine /\ ~once

ReaderAt(step) == half = "reader" /\ step /\ UNCHANGED <<half, bms_vars>>
DaemonAt(step) == half = "daemon" /\ step /\ UNCHANGED <<half, reader_vars>>

Next == ReaderAt(ReaderNext) \/ DaemonAt(BmsNext)

Spec == Init /\ [][Next]_vars

\* As in ReaderFairSpec and BmsFairSpec.
FairSpec ==
  /\ Spec
  /\ WF_vars(ReaderAt(next_frame))
  /\ WF_vars(DaemonAt(Tick)) /\ WF_vars(DaemonAt(Daemon))
=============================================================================
