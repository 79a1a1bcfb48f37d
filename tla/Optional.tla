------------------------------ MODULE Optional ------------------------------
(***************************************************************************)
(* Option values: None, and the combinators the producers use on them.     *)
(***************************************************************************)
EXTENDS Integers, Sequences, FiniteSets, SequencesExt, FiniteSetsExt

CONSTANT None   \* Option::None, and the null it becomes in a record

\* Option::map and Option::or.
Opt(x, F(_)) == IF x = None THEN None ELSE F(x)
Or(x, y) == IF x = None THEN y ELSE x

\* Iterator::filter_map: what it keeps, each at the place it had.
FilterMap(s, Keep(_), F(_)) == [i \in {j \in DOMAIN s : Keep(s[j])} |-> F(s[i])]

\* Iterator::position and Iterator::find: the place of the first element that
\* satisfies Test, or 0, and the element, or None.
Position(s, Test(_)) ==
  LET places == {i \in DOMAIN s : Test(s[i])} IN IF places = {} THEN 0 ELSE Min(places)
Find(s, Test(_)) ==
  LET i == Position(s, Test) IN IF i = 0 THEN None ELSE s[i]
=============================================================================
