----------------------------- MODULE ClockQuorum -----------------------------
(***************************************************************************)
(* Which readings may be believed: the pure decision of                    *)
(* packages/time-correction/src/quorum.rs.                                 *)
(*                                                                         *)
(* A vector of readings is a function from its finite index set to         *)
(* seconds: neither `middle` nor the tolerance checks depend on the order. *)
(***************************************************************************)
EXTENDS Integers, FiniteSets, Functions

\* The element at len / 2 of the sorted readings: at most len / 2 readings
\* are smaller, more than len / 2 are not larger.
middle(values) ==
  LET half == Cardinality(DOMAIN values) \div 2
  IN  CHOOSE v \in Range(values) :
        /\ Cardinality({i \in DOMAIN values : values[i] < v}) <= half
        /\ Cardinality({i \in DOMAIN values : values[i] <= v}) > half

\* Mutant: the spread is taken in the order of the answers.
DisagreeInOrder(values, tolerance) ==
  \E i, j \in DOMAIN values : i < j /\ values[i] - values[j] > tolerance

\* newest - oldest > tolerance
Disagree(values, tolerance) ==
  \E i, j \in DOMAIN values : values[i] - values[j] > tolerance

\* The readings of one operator.  `operator` maps an index to its operator.
Own(readings, operator, name) ==
  [i \in {j \in DOMAIN readings : operator[j] = name} |-> readings[i]]

\* One vote per sampled entry, each the middle of its operator's readings.
votes(readings, operator) ==
  [i \in DOMAIN readings |-> middle(Own(readings, operator, operator[i]))]

\* The decision stands: something was sampled, no operator disagrees with
\* itself, no two votes disagree.  (That every sampled operator answered is
\* the caller's precondition: `run` fails on any failed pair first.)
Decidable(readings, operator, tolerance) ==
  /\ DOMAIN readings # {}
  /\ \A i \in DOMAIN readings :
       ~Disagree(Own(readings, operator, operator[i]), tolerance)
  /\ ~Disagree(votes(readings, operator), tolerance)

decide(readings, operator) == middle(votes(readings, operator))
=============================================================================
