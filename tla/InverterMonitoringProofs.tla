---------------------- MODULE InverterMonitoringProofs ----------------------
(***************************************************************************)
(* InverterMonitoring for every list of commands, every set of units and   *)
(* every lateness of their answers.                                        *)
(***************************************************************************)
EXTENDS InverterMonitoring, FiniteSetTheorems, TLAPS

\* Every command has its field.
Inv == DOMAIN fields = Commands

LEMMA YieldsFields == ASSUME NEW value, Inv, Yields(value) PROVE Inv'
  BY DEF Yields, PassEnds, Inv, Blank

LEMMA InitInv == InverterInit => Inv
  BY DEF InverterInit, Inv, Blank

LEMMA NextInv == Inv /\ [InverterNext]_inverter_vars => Inv'
<1> SUFFICES ASSUME Inv, [InverterNext]_inverter_vars PROVE Inv'
  OBVIOUS
<1>1. CASE SkipsUnsupported \/ read_frame \/ TimesOut
  BY <1>1, YieldsFields DEF SkipsUnsupported, read_frame, TimesOut
<1>2. CASE CycleEnds \/ Restarts
  BY <1>2 DEF CycleEnds, Restarts, Session, Inv, Blank
<1>3. CASE \/ write_request \/ Wakes \/ static_refresh_elapses \/ PortGone \/ Answers
           \/ UnitSwapped \/ UNCHANGED inverter_vars
  BY <1>3 DEF write_request, Wakes, static_refresh_elapses, PortGone, Answers, UnitSwapped,
              inverter_vars, Inv
<1> QED BY <1>1, <1>2, <1>3 DEF InverterNext, Daemon
-----------------------------------------------------------------------------
(* A session: where it is in its list, and what is on the line.            *)

Frame == [of : Commands, unit : Units, kind : {"payload", "nak", "noise"}]

SessionTypeOK ==
  /\ line \in Lines /\ unit \in Units \union {NoUnit}
  /\ pc \in {"connect", "poll", "publish", "refresh", "sleep", "exited"}
  /\ waiting \in BOOLEAN /\ missed \in BOOLEAN /\ lost \in Nat /\ silent \in Nat
  /\ pending \in Seq(Commands) /\ input \in Seq(Frame)
  /\ pending # <<>> => unit \in Units

\* Only what was not given up on is asked, and every pass begins at the first
\* command of its list.
Cursor ==
  /\ Asking => at \in DOMAIN Plan
  /\ pc \in {"publish", "sleep"} => at = 1
  /\ pc = "connect" => lost = 0
  /\ Asking /\ waiting => Plan[at] \notin unsupported
  /\ pc \in {"publish", "sleep"} => ~waiting

\* The live commands a pass is through with.
Polled(n) == {Live[i] : i \in 1..n}

\* Of these, the nulls are the ones given up on and the ones lost.
Counts(values, given_up, losses, n) ==
  Cardinality({c \in Polled(n) : values[c] = None})
    = Cardinality(given_up \intersect Polled(n)) + losses

Counted ==
  /\ pc = "poll" => Counts(fields, unsupported, lost, at - 1)
  /\ pc = "publish" => Counts(fields, unsupported, lost, Len(Live))

\* On a line where answers wait for no later request, an answer is one to the
\* command that is being asked.
Settled == line.late # "any" /\ ~line.faults

OnTheLine ==
  Settled =>
    /\ unit \in Units
    /\ line.late = "prompt" /\ ~waiting => pending = <<>>
    /\ Asking /\ waiting =>
         /\ Len(pending) + Len(input) <= 1
         /\ \A i \in 1..Len(pending) : pending[i] = Plan[at]
         /\ \A i \in 1..Len(input) : input[i] \in Answer(Plan[at], unit)
         /\ line.late = "prompt" /\ ~line.noisy => Len(pending) + Len(input) = 1
    /\ unsupported \intersect Implements[unit] = {}

\* On a quiet one, what the unit implements is there.
Quiet == Settled /\ line.late = "prompt" /\ ~line.noisy

Has(values, n) == \A i \in 1..n : Live[i] \in Implements[unit] => values[Live[i]] # None

Heard ==
  Quiet => /\ pc = "poll" => Has(fields, at - 1)
           /\ pc = "publish" => Has(fields, Len(Live))

\* So no cycle of it is silent.
Kept ==
  Quiet /\ ~once /\ Implements[unit] \intersect Range(Live) # {} => pc # "exited"

\* On any line: as long as nothing was missed since the daemon slept, nothing
\* else is asked or on its way, and what was read are the answers in turn.
InStep ==
  ~missed =>
    /\ pc # "exited" /\ ~waiting => pending = <<>>
    /\ Asking /\ waiting =>
         /\ Len(pending) + Len(input) <= 1
         /\ \A i \in 1..Len(pending) : pending[i] = Plan[at]
         /\ \A i \in 1..Len(input) : input[i].of = Plan[at]

Whole(values, given_up, n) ==
  \A i \in 1..n : Live[i] \notin given_up => values[Live[i]] # None /\ values[Live[i]].of = Live[i]

Clean ==
  ~missed => /\ pc = "poll" => Whole(fields, unsupported, at - 1)
             /\ pc = "publish" => Whole(fields, unsupported, Len(Live))

SessionInv ==
  Inv /\ SessionTypeOK /\ Cursor /\ Counted /\ OnTheLine /\ Heard /\ Kept /\ InStep /\ Clean

LEMMA Lists ==
  /\ Live \in Seq(Commands) /\ Len(Live) \in Nat \ {0} /\ DOMAIN Live = 1..Len(Live)
  /\ Static \in Seq(Commands) /\ Len(Static) \in Nat \ {0} /\ DOMAIN Static = 1..Len(Static)
  /\ \A i, j \in 1..Len(Live) : Live[i] = Live[j] => i = j
  /\ \A i \in 1..Len(Live) : Live[i] \in Range(Live) /\ Live[i] \in Commands
  /\ \A i \in 1..Len(Static) : Static[i] \notin Range(Live) /\ Static[i] \in Commands
  /\ Polled(Len(Live)) = Range(Live)
<1>1. /\ Live \in Seq(Commands) /\ Len(Live) \in Nat \ {0} /\ DOMAIN Live = 1..Len(Live)
      /\ Static \in Seq(Commands) /\ Len(Static) \in Nat \ {0} /\ DOMAIN Static = 1..Len(Static)
  BY CommandsAssumption
<1>2. \A i, j \in 1..Len(Live) : Live[i] = Live[j] => i = j
  BY <1>1, CommandsAssumption DEF IsInjective
<1>3. Polled(Len(Live)) = Range(Live)
  BY <1>1 DEF Polled, Range
<1>4. \A i \in 1..Len(Live) : Live[i] \in Range(Live) /\ Live[i] \in Commands
  BY <1>1 DEF Range
<1>5. \A i \in 1..Len(Static) : Static[i] \in Range(Static) /\ Static[i] \in Commands
  BY <1>1 DEF Range
<1>6. \A i \in 1..Len(Static) : Static[i] \notin Range(Live) /\ Static[i] \in Commands
  BY <1>5, CommandsAssumption
<1> QED BY <1>1, <1>2, <1>3, <1>4, <1>6

LEMMA PolledIsFinite == ASSUME NEW n \in 0..Len(Live) PROVE IsFiniteSet(Polled(n))
<1> DEFINE f == [i \in 1..n |-> Live[i]]
<1>1. f \in Surjection(1..n, Polled(n))
  BY DEF Surjection, Polled
<1>2. IsFiniteSet(1..n)
  BY Lists, FS_Interval
<1> HIDE DEF f
<1> QED BY <1>1, <1>2, FS_Surjection

\* The next command is not one of those before it.
LEMMA PolledNext ==
  ASSUME NEW n \in 1..Len(Live)
  PROVE  /\ n - 1 \in 0..Len(Live) /\ Live[n] \notin Polled(n - 1)
         /\ Polled(n) = Polled(n - 1) \union {Live[n]}
<1>1. n - 1 \in 0..Len(Live) /\ \A i \in 1..(n - 1) : i \in 1..Len(Live) /\ i # n
  BY Lists
<1>2. Live[n] \notin Polled(n - 1)
  BY <1>1, Lists DEF Polled
<1>3. 1..n = (1..(n - 1)) \union {n}
  BY Lists
<1>4. Polled(n) = Polled(n - 1) \union {Live[n]}
  BY <1>3 DEF Polled
<1> QED BY <1>1, <1>2, <1>4

(***************************************************************************)
(* One more command keeps the books: it has a value; or it is given up on; *)
(* or it is lost.                                                          *)
(***************************************************************************)
LEMMA CountsOneMore ==
  ASSUME NEW n \in 1..Len(Live), NEW f, DOMAIN f = Commands, NEW value,
         NEW U, NEW V, NEW k \in Nat, NEW l \in Nat,
         Counts(f, U, k, n - 1), V = U \/ V = U \union {Live[n]},
         \/ value # None /\ Live[n] \notin V /\ l = k
         \/ value = None /\ Live[n] \in V /\ l = k
         \/ value = None /\ Live[n] \notin V /\ l = k + 1
  PROVE  Counts([f EXCEPT ![Live[n]] = value], V, l, n)
<1> DEFINE P == Polled(n - 1)
           c0 == Live[n]
           g == [f EXCEPT ![c0] = value]
           N == {c \in P : f[c] = None}
           G == U \intersect P
           N1 == {c \in Polled(n) : g[c] = None}
           G1 == V \intersect Polled(n)
<1>1. c0 \notin P /\ Polled(n) = P \union {c0} /\ n - 1 \in 0..Len(Live)
  BY PolledNext
<1>2. IsFiniteSet(P)
  BY <1>1, PolledIsFinite
<1>3. c0 \in Commands
  BY Lists
<1> HIDE DEF c0, P
<1>4. g[c0] = value /\ \A c \in P : g[c] = f[c]
  <2>1. \A c \in P : c \in Commands
    BY <1>1, Lists DEF P, Polled
  <2> QED BY <1>1, <1>3, <2>1
<1> HIDE DEF g
<1>5. N1 = IF value = None THEN N \union {c0} ELSE N
  BY <1>1, <1>4
<1>6. G1 = IF c0 \in V THEN G \union {c0} ELSE G
  BY <1>1 DEF c0
<1>7. IsFiniteSet(N) /\ IsFiniteSet(G) /\ c0 \notin N /\ c0 \notin G
  BY <1>1, <1>2, FS_Subset
<1>8. Cardinality(N) = Cardinality(G) + k
  BY DEF Counts, P
<1> HIDE DEF N, G, N1, G1
<1>9. /\ Cardinality(N) \in Nat /\ Cardinality(N \union {c0}) = Cardinality(N) + 1
      /\ Cardinality(G) \in Nat /\ Cardinality(G \union {c0}) = Cardinality(G) + 1
  BY <1>7, FS_AddElement, FS_CardinalityType
<1>10. Cardinality(N1) = Cardinality(G1) + l
  BY <1>5, <1>6, <1>8, <1>9 DEF c0
<1> QED BY <1>10 DEF Counts, N1, G1, g, c0

\* Before the first command there is nothing to count.
LEMMA CountsNothing == ASSUME NEW f, NEW U PROVE Counts(f, U, 0, 0)
<1>1. Polled(0) = {}
  BY DEF Polled
<1>2. Cardinality({}) = 0
  BY FS_EmptySet
<1>3. {c \in Polled(0) : f[c] = None} = {} /\ U \intersect Polled(0) = {}
  BY <1>1
<1> QED BY <1>2, <1>3 DEF Counts

LEMMA PlanFacts ==
  ASSUME Asking
  PROVE  /\ Len(Plan) \in Nat \ {0} /\ DOMAIN Plan = 1..Len(Plan)
         /\ \A i \in 1..Len(Plan) : Plan[i] \in Commands
         /\ pc = "poll" => Plan = Live
BY Lists DEF Plan

(***************************************************************************)
(* A command that yields something leads to the next one, or to the end of *)
(* the pass.                                                               *)
(***************************************************************************)
LEMMA YieldsCases ==
  ASSUME NEW value, Yields(value), Asking, at \in DOMAIN Plan
  PROVE  \/ /\ at # Len(Plan) /\ at' = at + 1 /\ at + 1 \in DOMAIN Plan /\ pc' = pc
            /\ fields' = [fields EXCEPT ![Plan[at]] = value]
         \/ /\ pc = "poll" /\ at = Len(Live) /\ pc' = "publish" /\ at' = 1
            /\ fields' = [fields EXCEPT ![Plan[at]] = value]
         \/ pc = "connect" /\ pc' = "poll" /\ at' = 1
         \/ pc = "refresh" /\ pc' = "sleep" /\ at' = 1
<1>1. Len(Plan) \in Nat \ {0} /\ DOMAIN Plan = 1..Len(Plan) /\ (pc = "poll" => Plan = Live)
  BY PlanFacts
<1>2. CASE at # Len(Plan)
  <2>1. at' = at + 1 /\ pc' = pc /\ fields' = [fields EXCEPT ![Plan[at]] = value]
    BY <1>2 DEF Yields
  <2>2. at + 1 \in DOMAIN Plan
    BY <1>1, <1>2
  <2> QED BY <1>2, <2>1, <2>2
<1>3. CASE at = Len(Plan)
  <2>1. PassEnds([fields EXCEPT ![Plan[at]] = value])
    BY <1>3 DEF Yields
  <2>2. CASE pc = "poll"
    BY <1>1, <1>3, <2>1, <2>2 DEF PassEnds
  <2>3. CASE pc = "connect"
    BY <2>1, <2>3 DEF PassEnds
  <2>4. CASE pc = "refresh"
    BY <2>1, <2>4 DEF PassEnds
  <2> QED BY <2>2, <2>3, <2>4 DEF Asking
<1> QED BY <1>2, <1>3

LEMMA YieldsKeepsInv ==
  ASSUME SessionInv, Asking, NEW value, Yields(value), Inv',
         waiting' = FALSE, UNCHANGED <<line, once, unit, silent>>,
         pending' \in Seq(Commands), input' \in Seq(Frame), pending' # <<>> => unit \in Units,
         unsupported' = unsupported \/ unsupported' = unsupported \union {Plan[at]},
         lost' \in Nat, pc # "poll" => lost' = lost,
         pc = "poll" =>
           \/ value # None /\ Plan[at] \notin unsupported' /\ lost' = lost
           \/ value = None /\ Plan[at] \in unsupported' /\ lost' = lost
           \/ value = None /\ Plan[at] \notin unsupported' /\ lost' = lost + 1,
         Settled => /\ line.late = "prompt" => pending' = <<>>
                    /\ unsupported' \intersect Implements[unit] = {},
         Quiet /\ pc = "poll" /\ Plan[at] \in Implements[unit] => value # None,
         missed' \in BOOLEAN, missed => missed', ~missed' => pending' = <<>>,
         ~missed' /\ pc = "poll" /\ Plan[at] \notin unsupported' => value # None /\ value.of = Plan[at]
  PROVE  SessionInv'
<1> DEFINE values == [fields EXCEPT ![Plan[at]] = value]
<1>1. at \in DOMAIN Plan
  BY DEF SessionInv, Cursor
<1>2. \/ /\ at # Len(Plan) /\ at' = at + 1 /\ at + 1 \in DOMAIN Plan /\ pc' = pc /\ fields' = values
      \/ pc = "poll" /\ at = Len(Live) /\ pc' = "publish" /\ at' = 1 /\ fields' = values
      \/ pc = "connect" /\ pc' = "poll" /\ at' = 1
      \/ pc = "refresh" /\ pc' = "sleep" /\ at' = 1
  BY <1>1, YieldsCases
<1>3. SessionTypeOK'
  BY <1>2 DEF SessionInv, SessionTypeOK
<1>4. Cursor'
  <2>1. 1 \in DOMAIN Live /\ 1 \in DOMAIN Static
    BY Lists
  <2>2. CASE pc' = pc
    BY <1>2, <2>2 DEF SessionInv, Cursor, Asking, Plan
  <2>3. CASE pc = "connect" /\ pc' = "poll"
    BY <1>2, <2>1, <2>3 DEF SessionInv, Cursor, Asking, Plan
  <2>4. CASE pc' \in {"publish", "sleep"}
    BY <1>2, <2>4 DEF SessionInv, Cursor, Asking, Plan
  <2> QED BY <1>2, <2>2, <2>3, <2>4
<1>5. OnTheLine'
  BY DEF SessionInv, OnTheLine, Settled
<1>6. ASSUME pc = "poll"
      PROVE  /\ at \in 1..Len(Live) /\ Plan = Live
             /\ Counts(values, unsupported', lost', at)
             /\ Quiet => Has(values, at)
             /\ ~missed' => Whole(values, unsupported', at)
  <2>1. at \in 1..Len(Live) /\ Plan = Live
    BY <1>1, <1>6, PlanFacts
  <2>2. DOMAIN fields = Commands /\ lost \in Nat /\ Counts(fields, unsupported, lost, at - 1)
    BY <1>6 DEF SessionInv, Inv, SessionTypeOK, Counted
  <2>3. Counts(values, unsupported', lost', at)
    BY <1>6, <2>1, <2>2, CountsOneMore
  <2>4. ASSUME Quiet PROVE Has(values, at)
    <3> SUFFICES ASSUME NEW i \in 1..at, Live[i] \in Implements[unit] PROVE values[Live[i]] # None
      BY DEF Has
    <3>1. i \in 1..Len(Live) /\ Live[i] \in Commands
      BY <2>1, Lists
    <3>2. CASE i = at
      BY <1>6, <2>1, <2>2, <2>4, <3>1, <3>2
    <3>3. CASE i # at
      <4>1. i \in 1..(at - 1) /\ Live[i] # Live[at]
        BY <2>1, <3>1, <3>3, Lists
      <4>2. fields[Live[i]] # None
        BY <1>6, <2>4, <4>1 DEF SessionInv, Heard, Has
      <4> QED BY <2>1, <2>2, <3>1, <4>1, <4>2
    <3> QED BY <3>2, <3>3
  <2>5. ASSUME ~missed' PROVE Whole(values, unsupported', at)
    <3> SUFFICES ASSUME NEW i \in 1..at, Live[i] \notin unsupported'
                 PROVE  values[Live[i]] # None /\ values[Live[i]].of = Live[i]
      BY DEF Whole
    <3>1. i \in 1..Len(Live) /\ Live[i] \in Commands
      BY <2>1, Lists
    <3>2. CASE i = at
      BY <1>6, <2>1, <2>2, <2>5, <3>1, <3>2
    <3>3. CASE i # at
      <4>1. i \in 1..(at - 1) /\ Live[i] # Live[at] /\ Live[i] \notin unsupported /\ ~missed
        BY <2>1, <2>5, <3>1, <3>3, Lists
      <4>2. fields[Live[i]] # None /\ fields[Live[i]].of = Live[i]
        BY <1>6, <4>1 DEF SessionInv, Clean, Whole
      <4> QED BY <2>1, <2>2, <3>1, <4>1, <4>2
    <3> QED BY <3>2, <3>3
  <2> QED BY <2>1, <2>3, <2>4, <2>5
<1> HIDE DEF values
<1>7. Counted'
  <2>1. CASE pc = "poll" /\ pc' = pc
    <3>1. at' - 1 = at /\ fields' = values /\ Counts(values, unsupported', lost', at)
      BY <1>2, <1>6, <2>1
    <3>2. Counts(fields', unsupported', lost', at' - 1)
      BY <3>1
    <3> QED BY <2>1, <3>2 DEF Counted, Counts
  <2>2. CASE pc = "poll" /\ pc' = "publish"
    <3>1. fields' = values /\ Counts(values, unsupported', lost', Len(Live))
      BY <1>2, <1>6, <2>2
    <3> QED BY <2>2, <3>1 DEF Counted, Counts
  <2>3. CASE pc = "connect" /\ pc' = "poll"
    <3>1. at' - 1 = 0 /\ lost' = 0
      BY <1>2, <2>3 DEF SessionInv, Cursor
    <3>2. Counts(fields', unsupported', lost', at' - 1)
      BY <3>1, CountsNothing
    <3> QED BY <2>3, <3>2 DEF Counted, Counts
  <2>4. CASE pc' \in {"connect", "refresh", "sleep"}
    BY <2>4 DEF Counted
  <2> QED BY <1>2, <2>1, <2>2, <2>3, <2>4 DEF Asking
<1>8. Heard'
  <2>1. CASE pc = "poll" /\ pc' = pc
    <3>1. at' - 1 = at /\ fields' = values /\ (Quiet => Has(values, at))
      BY <1>2, <1>6, <2>1
    <3>2. Quiet => Has(fields', at' - 1)
      BY <3>1
    <3> QED BY <2>1, <3>2 DEF Heard, Has, Quiet, Settled
  <2>2. CASE pc = "poll" /\ pc' = "publish"
    <3>1. fields' = values /\ (Quiet => Has(values, Len(Live)))
      BY <1>2, <1>6, <2>2
    <3> QED BY <2>2, <3>1 DEF Heard, Has, Quiet, Settled
  <2>3. CASE pc = "connect" /\ pc' = "poll"
    <3>1. at' = 1
      BY <1>2, <2>3
    <3>2. 1..(at' - 1) = {}
      BY <3>1
    <3> QED BY <2>3, <3>2 DEF Heard, Has
  <2>4. CASE pc' \in {"connect", "refresh", "sleep"}
    BY <2>4 DEF Heard
  <2> QED BY <1>2, <2>1, <2>2, <2>3, <2>4 DEF Asking
<1>9. Kept'
  BY <1>2 DEF Kept, Asking
<1>10. InStep'
  BY DEF InStep
<1>11. Clean'
  <2>1. CASE pc = "poll" /\ pc' = pc
    <3>1. at' - 1 = at /\ fields' = values /\ (~missed' => Whole(values, unsupported', at))
      BY <1>2, <1>6, <2>1
    <3>2. ~missed' => Whole(fields', unsupported', at' - 1)
      BY <3>1
    <3> QED BY <2>1, <3>2 DEF Clean, Whole
  <2>2. CASE pc = "poll" /\ pc' = "publish"
    <3>1. fields' = values /\ (~missed' => Whole(values, unsupported', Len(Live)))
      BY <1>2, <1>6, <2>2
    <3> QED BY <2>2, <3>1 DEF Clean, Whole
  <2>3. CASE pc = "connect" /\ pc' = "poll"
    <3>1. at' = 1
      BY <1>2, <2>3
    <3>2. 1..(at' - 1) = {}
      BY <3>1
    <3> QED BY <2>3, <3>2 DEF Clean, Whole
  <2>4. CASE pc' \in {"connect", "refresh", "sleep"}
    BY <2>4 DEF Clean
  <2> QED BY <1>2, <2>1, <2>2, <2>3, <2>4 DEF Asking
<1> QED BY <1>3, <1>4, <1>5, <1>7, <1>8, <1>9, <1>10, <1>11 DEF SessionInv

LEMMA SessionInvInit == InverterInit => SessionInv
<1> SUFFICES ASSUME InverterInit PROVE SessionInv
  OBVIOUS
<1>0. <<>> \in Seq(Commands) /\ <<>> \in Seq(Frame) /\ 0 \in Nat
  OBVIOUS
<1>1. SessionTypeOK
  <2>1. pc \in {"connect", "poll", "publish", "refresh", "sleep", "exited"}
    BY DEF InverterInit
  <2> QED BY <1>0, <2>1, Zenon DEF InverterInit, SessionTypeOK
<1>2. Cursor
  BY Lists DEF InverterInit, Cursor, Asking, Plan
<1>3. OnTheLine
  BY DEF InverterInit, OnTheLine
<1>4. Counted /\ Heard /\ Kept
  BY DEF InverterInit, Counted, Heard, Kept
<1>5. InStep /\ Clean
  BY DEF InverterInit, InStep, Clean
<1> QED BY <1>1, <1>2, <1>3, <1>4, <1>5, InitInv DEF SessionInv

\* A new session starts with nothing asked and nothing on the line.
LEMMA RestartsKeepsInv == ASSUME SessionInv, Restarts, Inv' PROVE SessionInv'
<1>1. /\ pc' = "connect" /\ at' = 1 /\ waiting' = FALSE /\ pending' = <<>> /\ input' = <<>>
      /\ unsupported' = {} /\ lost' = 0 /\ silent' = 0 /\ unit' = unit /\ line' = line /\ once' = once
      /\ unit # NoUnit /\ missed' = FALSE
  BY DEF Restarts, Session
<1>2. SessionTypeOK'
  <2>0. <<>> \in Seq(Commands) /\ <<>> \in Seq(Frame) /\ 0 \in Nat
    OBVIOUS
  <2>1. pc' \in {"connect", "poll", "publish", "refresh", "sleep", "exited"}
    BY <1>1
  <2> QED BY <1>1, <2>0, <2>1, Zenon DEF SessionInv, SessionTypeOK
<1>3. Cursor'
  BY <1>1, Lists DEF Cursor, Asking, Plan
<1>4. OnTheLine'
  BY <1>1 DEF SessionInv, OnTheLine, Settled
<1>5. Counted' /\ Heard' /\ Kept'
  BY <1>1 DEF Counted, Heard, Kept
<1>6. InStep' /\ Clean'
  BY <1>1 DEF InStep, Clean
<1> QED BY <1>2, <1>3, <1>4, <1>5, <1>6 DEF SessionInv

\* The answer to what is asked joins the queue.
LEMMA AnswersKeepsInv == ASSUME SessionInv, Answers, Inv' PROVE SessionInv'
<1>1. /\ pending # <<>> /\ pending' = Tail(pending)
      /\ UNCHANGED <<line, once, unit, pc, at, waiting, unsupported, fields, lost, silent, missed>>
  BY DEF Answers
<1>2. unit \in Units /\ pending \in Seq(Commands) /\ input \in Seq(Frame)
  BY <1>1 DEF SessionInv, SessionTypeOK
<1>3. Head(pending) \in Commands /\ Head(pending) = pending[1]
      /\ Tail(pending) \in Seq(Commands) /\ Len(Tail(pending)) = Len(pending) - 1
      /\ Len(pending) \in Nat \ {0} /\ Len(input) \in Nat
      /\ \A i \in 1..(Len(pending) - 1) : Tail(pending)[i] = pending[i + 1]
  BY <1>1, <1>2
<1>4. CASE input' = input
  <2>0. line.noisy \/ input' # input \/ \E answer \in Answer(Head(pending), unit) : input' = Append(input, answer)
    BY DEF Answers
  <2>1. SessionTypeOK' /\ Cursor' /\ Counted' /\ Heard' /\ Kept'
    BY <1>1, <1>2, <1>3, <1>4 DEF SessionInv, SessionTypeOK, Cursor, Counted, Counts, Polled, Heard, Has, Kept,
      Quiet, Settled, Asking, Plan
  <2>3. InStep' /\ Clean'
    <3>1. Plan' = Plan /\ Asking' = Asking /\ Clean'
      BY <1>1 DEF Plan, Asking, SessionInv, Clean, Whole
    <3>2. ASSUME ~missed, Asking, waiting
          PROVE  /\ Len(pending') + Len(input) <= 1
                 /\ \A i \in 1..Len(pending') : pending'[i] = Plan[at]
                 /\ \A i \in 1..Len(input) : input[i].of = Plan[at]
      BY <1>1, <1>3, <3>2 DEF SessionInv, InStep
    <3>3. ~missed /\ pc # "exited" => waiting
      BY <1>1 DEF SessionInv, InStep
    <3> QED BY <1>1, <1>4, <3>1, <3>2, <3>3 DEF InStep
  <2>2. OnTheLine'
    <3>1. line.noisy
      <4> SUFFICES ASSUME NEW answer, input' = Append(input, answer) PROVE FALSE
        BY <1>4, <2>0
      <4>1. Len(Append(input, answer)) = Len(input) + 1
        BY <1>2, <1>3
      <4> QED BY <1>3, <1>4, <4>1
    <3>2. Plan' = Plan /\ Asking' = Asking /\ Settled' = Settled
      BY <1>1 DEF Plan, Asking, Settled
    <3> SUFFICES ASSUME Settled PROVE OnTheLine'
      BY <3>2 DEF OnTheLine
    <3>3. line.late = "prompt" /\ ~waiting => pending' = <<>>
      BY <1>1 DEF SessionInv, OnTheLine
    <3>4. ASSUME Asking, waiting
          PROVE  /\ Len(pending') + Len(input) <= 1
                 /\ \A i \in 1..Len(pending') : pending'[i] = Plan[at]
                 /\ \A i \in 1..Len(input) : input[i] \in Answer(Plan[at], unit)
      BY <1>1, <1>3, <3>4 DEF SessionInv, OnTheLine
    <3> QED BY <1>1, <1>2, <1>4, <3>1, <3>2, <3>3, <3>4 DEF SessionInv, OnTheLine, Answer
  <2> QED BY <2>1, <2>2, <2>3 DEF SessionInv
<1>5. ASSUME NEW answer \in Answer(Head(pending), unit), input' = Append(input, answer)
      PROVE  SessionInv'
  <2>1. answer \in Frame
    BY <1>2, <1>3 DEF Answer, Frame
  <2>2. /\ input' \in Seq(Frame) /\ Len(input') = Len(input) + 1
        /\ \A i \in 1..Len(input) : input'[i] = input[i]
        /\ input'[Len(input) + 1] = answer
    BY <1>2, <1>3, <1>5, <2>1
  <2>3. SessionTypeOK' /\ Cursor' /\ Counted' /\ Heard' /\ Kept'
    BY <1>1, <1>2, <1>3, <2>2 DEF SessionInv, SessionTypeOK, Cursor, Counted, Counts, Polled, Heard, Has, Kept,
      Quiet, Settled, Asking, Plan
  <2>4. OnTheLine'
    <3>2. Plan' = Plan /\ Asking' = Asking /\ Settled' = Settled
      BY <1>1 DEF Plan, Asking, Settled
    <3> SUFFICES ASSUME Settled PROVE OnTheLine'
      BY <3>2 DEF OnTheLine
    <3>3. line.late = "prompt" /\ ~waiting => pending' = <<>>
      BY <1>1 DEF SessionInv, OnTheLine
    <3>4. ASSUME Asking, waiting
          PROVE  /\ Len(pending') + Len(input') <= 1
                 /\ \A i \in 1..Len(pending') : pending'[i] = Plan[at]
                 /\ \A i \in 1..Len(input') : input'[i] \in Answer(Plan[at], unit)
                 /\ line.late = "prompt" /\ ~line.noisy => Len(pending') + Len(input') = 1
      <4>1. /\ Len(pending) + Len(input) <= 1
            /\ \A i \in 1..Len(pending) : pending[i] = Plan[at]
            /\ \A i \in 1..Len(input) : input[i] \in Answer(Plan[at], unit)
            /\ line.late = "prompt" /\ ~line.noisy => Len(pending) + Len(input) = 1
        BY <3>4 DEF SessionInv, OnTheLine
      <4>2. Len(pending') + Len(input') = Len(pending) + Len(input)
        BY <1>1, <1>3, <2>2
      <4>3. answer \in Answer(Plan[at], unit)
        BY <1>3, <4>1
      <4>4. \A i \in 1..Len(pending') : pending'[i] = Plan[at]
        BY <1>1, <1>3, <4>1
      <4>5. ASSUME NEW i \in 1..Len(input') PROVE input'[i] \in Answer(Plan[at], unit)
        <5>1. i \in 1..Len(input) \/ i = Len(input) + 1
          BY <1>3, <2>2
        <5> QED BY <2>2, <4>1, <4>3, <5>1
      <4> QED BY <4>1, <4>2, <4>4, <4>5
    <3> QED BY <1>1, <3>2, <3>3, <3>4 DEF SessionInv, OnTheLine, Answer
  <2>5. InStep' /\ Clean'
    <3>1. Plan' = Plan /\ Asking' = Asking /\ Clean'
      BY <1>1 DEF Plan, Asking, SessionInv, Clean, Whole
    <3>2. answer.of = pending[1]
      BY <1>3 DEF Answer
    <3>3. ASSUME ~missed, Asking, waiting
          PROVE  /\ Len(pending') + Len(input') <= 1
                 /\ \A i \in 1..Len(pending') : pending'[i] = Plan[at]
                 /\ \A i \in 1..Len(input') : input'[i].of = Plan[at]
      <4>1. /\ Len(pending) + Len(input) <= 1
            /\ \A i \in 1..Len(pending) : pending[i] = Plan[at]
            /\ \A i \in 1..Len(input) : input[i].of = Plan[at]
        BY <3>3 DEF SessionInv, InStep
      <4>2. Len(pending') + Len(input') = Len(pending) + Len(input) /\ answer.of = Plan[at]
        BY <1>1, <1>3, <2>2, <3>2, <4>1
      <4>3. \A i \in 1..Len(pending') : pending'[i] = Plan[at]
        BY <1>1, <1>3, <4>1
      <4>4. ASSUME NEW i \in 1..Len(input') PROVE input'[i].of = Plan[at]
        <5>1. i \in 1..Len(input) \/ i = Len(input) + 1
          BY <1>3, <2>2
        <5> QED BY <2>2, <4>1, <4>2, <5>1
      <4> QED BY <4>1, <4>2, <4>3, <4>4
    <3>4. ~missed /\ pc # "exited" => waiting
      BY <1>1 DEF SessionInv, InStep
    <3> QED BY <1>1, <3>1, <3>3, <3>4 DEF InStep
  <2> QED BY <2>3, <2>4, <2>5 DEF SessionInv
<1> QED BY <1>4, <1>5 DEF Answers

LEMMA LineFacts == SessionInv /\ Settled => line.late \in {"prompt", "settled"} /\ line.faults = FALSE
<1> SUFFICES ASSUME SessionInv, Settled PROVE line.late \in {"prompt", "settled"} /\ line.faults = FALSE
  OBVIOUS
<1>1. line \in [late : {"prompt", "settled", "any"}, noisy : BOOLEAN, faults : BOOLEAN]
  BY LinesAssumption DEF SessionInv, SessionTypeOK
<1>2. line.late \in {"prompt", "settled", "any"} /\ line.faults \in BOOLEAN
  BY <1>1
<1> QED BY <1>2 DEF Settled

\* A request finds the line empty, so that what comes is the answer to it.
LEMMA WriteKeepsInv == ASSUME SessionInv, write_request, Inv' PROVE SessionInv'
<1>1. /\ Asking /\ ~waiting /\ Plan[at] \notin unsupported
      /\ line.late = "settled" => pending = <<>>
      /\ input' = <<>> /\ waiting' = TRUE
      /\ pending' = IF unit # NoUnit /\ Len(pending) < MaxPending THEN Append(pending, Plan[at]) ELSE pending
      /\ UNCHANGED <<line, once, unit, pc, at, unsupported, fields, lost, silent, missed>>
  BY DEF write_request
<1>2. Plan' = Plan /\ Asking' = Asking /\ Settled' = Settled
  BY <1>1 DEF Plan, Asking, Settled
<1>3. Plan[at] \in Commands
  BY <1>1, PlanFacts DEF SessionInv, Cursor
<1>4. /\ unit \in Units \union {NoUnit} /\ pending \in Seq(Commands)
      /\ pending # <<>> => unit \in Units
  BY DEF SessionInv, SessionTypeOK
<1>5. SessionTypeOK'
  <2>1. pending' \in Seq(Commands) /\ (pending' # <<>> => unit \in Units)
    BY <1>1, <1>3, <1>4
  <2>2. <<>> \in Seq(Frame)
    OBVIOUS
  <2> QED BY <1>1, <2>1, <2>2, Zenon DEF SessionInv, SessionTypeOK
<1>6. Cursor'
  <2>1. pc \notin {"publish", "sleep"}
    BY <1>1 DEF Asking
  <2> QED BY <1>1, <1>2, <2>1 DEF SessionInv, Cursor
<1>7. Counted' /\ Heard' /\ Kept'
  BY <1>1 DEF SessionInv, Counted, Counts, Polled, Heard, Has, Kept, Quiet, Settled
<1>8. OnTheLine'
  <2> SUFFICES ASSUME Settled PROVE OnTheLine'
    BY <1>2 DEF OnTheLine
  <2>1. pending = <<>> /\ unit \in Units
    BY <1>1, LineFacts DEF SessionInv, OnTheLine
  <2>2. pending' = <<Plan[at]>>
    <3>1. unit # NoUnit /\ Len(pending) = 0 /\ MaxPending \in Nat \ {0}
      BY <2>1, NobodyAssumption, LinesAssumption
    <3>2. pending' = Append(pending, Plan[at])
      BY <1>1, <3>1
    <3> QED BY <2>1, <3>2
  <2>3. /\ Len(pending') = 1 /\ pending'[1] = Plan[at] /\ Len(input') = 0
    BY <1>1, <2>2
  <2>4. /\ Len(pending') + Len(input') = 1
        /\ \A i \in 1..Len(pending') : pending'[i] = Plan[at]
        /\ \A i \in 1..Len(input') : input'[i] \in Answer(Plan[at], unit)
    BY <2>3
  <2> QED BY <1>1, <1>2, <2>1, <2>4 DEF SessionInv, OnTheLine, Answer
<1>9. InStep' /\ Clean'
  <2>1. Clean'
    BY <1>1 DEF SessionInv, Clean, Whole
  <2>2. ASSUME ~missed
        PROVE  /\ Len(pending') + Len(input') <= 1
               /\ \A i \in 1..Len(pending') : pending'[i] = Plan[at]
    <3>1. pending = <<>>
      BY <1>1, <2>2 DEF SessionInv, InStep, Asking
    <3>2. pending' = <<Plan[at]>> \/ pending' = <<>>
      BY <1>1, <3>1
    <3>3. CASE pending' = <<Plan[at]>>
      <4>1. Len(pending') = 1 /\ pending'[1] = Plan[at] /\ Len(input') = 0
        BY <1>1, <3>3
      <4> QED BY <4>1
    <3>4. CASE pending' = <<>>
      <4>1. Len(pending') = 0 /\ Len(input') = 0
        BY <1>1, <3>4
      <4> QED BY <4>1
    <3> QED BY <3>2, <3>3, <3>4
  <2>3. \A i \in 1..Len(input') : input'[i].of = Plan[at]
    BY <1>1
  <2> QED BY <1>1, <1>2, <2>1, <2>2, <2>3 DEF InStep
<1> QED BY <1>5, <1>6, <1>7, <1>8, <1>9 DEF SessionInv

LEMMA SkipsKeepsInv == ASSUME SessionInv, SkipsUnsupported, Inv' PROVE SessionInv'
<1>1. /\ Asking /\ ~waiting /\ Plan[at] \in unsupported /\ Yields(None)
      /\ UNCHANGED <<line, once, unit, silent, waiting, unsupported, lost, pending, input, missed>>
  BY DEF SkipsUnsupported, line_vars
<1>2. /\ pending' \in Seq(Commands) /\ input' \in Seq(Frame) /\ (pending' # <<>> => unit \in Units)
      /\ lost \in Nat /\ waiting' = FALSE
  BY <1>1 DEF SessionInv, SessionTypeOK
<1>3. Settled => /\ line.late = "prompt" => pending' = <<>>
                 /\ unsupported' \intersect Implements[unit] = {}
  BY <1>1 DEF SessionInv, OnTheLine
<1>4. Quiet => Plan[at] \notin Implements[unit]
  BY <1>1 DEF Quiet, SessionInv, OnTheLine
<1>5. missed' \in BOOLEAN /\ missed' = missed /\ (~missed' => pending' = <<>>)
  BY <1>1 DEF SessionInv, SessionTypeOK, InStep, Asking
<1>6. ~missed' /\ pc = "poll" /\ Plan[at] \notin unsupported' => None # None /\ None.of = Plan[at]
  BY <1>1
<1>7. /\ pc = "poll" => None = None /\ Plan[at] \in unsupported' /\ lost' = lost
      /\ lost' \in Nat /\ (pc # "poll" => lost' = lost)
      /\ unsupported' = unsupported \/ unsupported' = unsupported \union {Plan[at]}
      /\ Quiet /\ pc = "poll" /\ Plan[at] \in Implements[unit] => None # None
      /\ UNCHANGED <<line, once, unit, silent>>
  BY <1>1, <1>2, <1>4
<1>8. missed => missed'
  BY <1>5
<1> QED BY <1>1, <1>2, <1>3, <1>5, <1>6, <1>7, <1>8, YieldsKeepsInv

LEMMA TimesOutKeepsInv == ASSUME SessionInv, TimesOut, Inv' PROVE SessionInv'
<1>1. /\ Asking /\ waiting /\ input = <<>> /\ (line.late = "prompt" => pending = <<>>)
      /\ lost' = (IF pc = "poll" THEN lost + 1 ELSE lost) /\ Yields(None) /\ waiting' = FALSE
      /\ missed' = TRUE
      /\ UNCHANGED <<line, once, unit, silent, unsupported, pending, input>>
  BY DEF TimesOut, line_vars
<1>2. /\ pending' \in Seq(Commands) /\ input' \in Seq(Frame) /\ (pending' # <<>> => unit \in Units)
      /\ lost \in Nat /\ lost' \in Nat
  BY <1>1 DEF SessionInv, SessionTypeOK
<1>3. Plan[at] \notin unsupported'
  BY <1>1 DEF SessionInv, Cursor
<1>4. Settled => /\ line.late = "prompt" => pending' = <<>>
                 /\ unsupported' \intersect Implements[unit] = {}
  BY <1>1 DEF SessionInv, OnTheLine
<1>5. ~Quiet
  <2> SUFFICES ASSUME Quiet PROVE FALSE
    OBVIOUS
  <2>1. Len(pending) + Len(input) = 1 /\ pending = <<>>
    BY <1>1 DEF Quiet, SessionInv, OnTheLine
  <2> QED BY <1>1, <2>1
<1> QED BY <1>1, <1>2, <1>3, <1>4, <1>5, YieldsKeepsInv

LEMMA ReadKeepsInv == ASSUME SessionInv, read_frame, Inv' PROVE SessionInv'
<1> DEFINE answer == Head(input)
           value == IF parses(Plan[at], answer) THEN [of |-> answer.of, unit |-> answer.unit] ELSE None
<1>1. /\ Asking /\ waiting /\ input # <<>> /\ Yields(value)
      /\ unsupported' = (IF is_nak(answer) THEN unsupported \union {Plan[at]} ELSE unsupported)
      /\ lost' = (IF pc = "poll" THEN lost + lost_with(answer) ELSE lost)
      /\ input' = Tail(input) /\ waiting' = FALSE /\ missed' = (missed \/ answer.kind = "noise")
      /\ UNCHANGED <<line, once, unit, silent, pending>>
  BY DEF read_frame
<1>2. /\ pending \in Seq(Commands) /\ input \in Seq(Frame) /\ (pending # <<>> => unit \in Units)
      /\ lost \in Nat
  BY DEF SessionInv, SessionTypeOK
<1>3. answer \in Frame /\ answer = input[1] /\ Tail(input) \in Seq(Frame) /\ Len(input) \in Nat \ {0}
  BY <1>1, <1>2
<1>4. Plan[at] \notin unsupported /\ at \in DOMAIN Plan
  BY <1>1 DEF SessionInv, Cursor
<1> HIDE DEF answer
<1>5. parses(Plan[at], answer) <=> value # None
  <2>1. [of |-> answer.of, unit |-> answer.unit] \in [of : Commands, unit : Units]
    BY <1>3 DEF Frame
  <2> QED BY <2>1, NobodyAssumption
<1> HIDE DEF value
<1>6. lost_with(answer) \in {0, 1}
  BY DEF lost_with
<1>7. lost' \in Nat
  BY <1>1, <1>2, <1>6
<1>8. answer.kind \in {"payload", "nak", "noise"}
  BY <1>3 DEF Frame
<1>9. ASSUME pc = "poll"
      PROVE  \/ value # None /\ Plan[at] \notin unsupported' /\ lost' = lost
             \/ value = None /\ Plan[at] \in unsupported' /\ lost' = lost
             \/ value = None /\ Plan[at] \notin unsupported' /\ lost' = lost + 1
  <2>1. CASE answer.kind = "nak"
    BY <1>1, <1>2, <1>5, <1>9, <2>1 DEF is_nak, parses, lost_with
  <2>2. CASE answer.kind = "noise"
    BY <1>1, <1>2, <1>4, <1>5, <1>9, <2>2 DEF is_nak, parses, lost_with
  <2>3. CASE answer.kind = "payload"
    BY <1>1, <1>2, <1>4, <1>5, <1>9, <2>3 DEF is_nak, lost_with
  <2> QED BY <1>8, <2>1, <2>2, <2>3
<1>10. Settled => answer \in Answer(Plan[at], unit)
  BY <1>1, <1>3 DEF SessionInv, OnTheLine
<1>11. Settled => /\ line.late = "prompt" => pending' = <<>>
                  /\ unsupported' \intersect Implements[unit] = {}
  <2> SUFFICES ASSUME Settled
               PROVE  pending' = <<>> /\ unsupported' \intersect Implements[unit] = {}
    OBVIOUS
  <2>1. Len(pending) + Len(input) <= 1 /\ unsupported \intersect Implements[unit] = {}
    BY <1>1 DEF SessionInv, OnTheLine
  <2>2. pending = <<>>
    BY <1>2, <1>3, <2>1
  <2>3. is_nak(answer) => Plan[at] \notin Implements[unit]
    BY <1>10 DEF is_nak, Answer
  <2> QED BY <1>1, <2>1, <2>2, <2>3
<1>12. ASSUME Quiet, pc = "poll", Plan[at] \in Implements[unit] PROVE value # None
  <2>1. answer = [of |-> Plan[at], unit |-> unit, kind |-> "payload"]
    BY <1>10, <1>12 DEF Quiet, Answer
  <2> QED BY <1>5, <2>1 DEF parses
<1>13. unsupported' = unsupported \/ unsupported' = unsupported \union {Plan[at]}
  BY <1>1
<1>14. missed' \in BOOLEAN /\ (missed => missed')
  BY <1>1 DEF SessionInv, SessionTypeOK
<1>15. ASSUME ~missed' PROVE pending' = <<>> /\ answer.of = Plan[at]
  BY <1>1, <1>2, <1>3, <1>14, <1>15 DEF SessionInv, InStep
<1>16. ASSUME ~missed', Plan[at] \notin unsupported'
       PROVE  value # None /\ value.of = Plan[at]
  <2>1. answer.kind = "payload" /\ answer.of = Plan[at]
    BY <1>1, <1>8, <1>15, <1>16 DEF is_nak
  <2>2. parses(Plan[at], answer)
    BY <2>1 DEF parses
  <2> QED BY <1>5, <2>1, <2>2 DEF value
<1> QED BY <1>1, <1>2, <1>3, <1>7, <1>9, <1>11, <1>12, <1>13, <1>14, <1>15, <1>16, YieldsKeepsInv

LEMMA SessionInvNext == SessionInv /\ [InverterNext]_inverter_vars => SessionInv'
<1> SUFFICES ASSUME SessionInv, [InverterNext]_inverter_vars PROVE SessionInv'
  OBVIOUS
<1>0. Inv'
  BY NextInv DEF SessionInv
<1>1. CASE SkipsUnsupported
  BY <1>0, <1>1, SkipsKeepsInv
<1>2. CASE write_request
  BY <1>0, <1>2, WriteKeepsInv
<1>3. CASE read_frame
  BY <1>0, <1>3, ReadKeepsInv
<1>4. CASE TimesOut
  BY <1>0, <1>4, TimesOutKeepsInv
<1>5. CASE CycleEnds
  <2>1. /\ pc = "publish" /\ silent' = (IF is_empty(fields) THEN silent + 1 ELSE 0)
        /\ pc' = (IF silent' >= MAX_SILENT_CYCLES \/ once THEN "exited" ELSE IF due THEN "refresh" ELSE "sleep")
        /\ UNCHANGED <<line, once, unit, at, waiting, unsupported, lost, pending, input, missed>>
    BY <1>5 DEF CycleEnds, line_vars
  <2>2. at = 1 /\ 1 \in DOMAIN Static
    BY <2>1, Lists DEF SessionInv, Cursor
  <2>3. waiting = FALSE
    BY <2>1 DEF SessionInv, SessionTypeOK, Cursor
  <2>4. pc' \in {"exited", "refresh", "sleep"} /\ silent' \in Nat
    BY <2>1 DEF SessionInv, SessionTypeOK
  <2>5. SessionTypeOK'
    BY <2>1, <2>4 DEF SessionInv, SessionTypeOK
  <2>6. Cursor'
    BY <2>1, <2>2, <2>3, <2>4 DEF Cursor, Asking, Plan
  <2>7. OnTheLine'
    BY <2>1, <2>3 DEF SessionInv, OnTheLine, Settled
  <2>8. Counted' /\ Heard'
    BY <2>4 DEF Counted, Heard
  <2>9. Kept'
    <3> SUFFICES ASSUME Quiet, ~once, Implements[unit] \intersect Range(Live) # {} PROVE pc' # "exited"
      BY <2>1 DEF Kept, Quiet, Settled
    <3>1. PICK c \in Range(Live) : c \in Implements[unit]
      OBVIOUS
    <3>2. PICK i \in 1..Len(Live) : c = Live[i]
      BY Lists DEF Range
    <3>3. fields[c] # None
      BY <2>1, <3>1, <3>2 DEF SessionInv, Heard, Has
    <3>4. silent' = 0
      BY <2>1, <3>3 DEF is_empty
    <3> QED BY <2>1, <3>4, LinesAssumption
  <2>10. InStep' /\ Clean'
    BY <2>1, <2>3, <2>4 DEF SessionInv, InStep, Clean
  <2> QED BY <1>0, <2>5, <2>6, <2>7, <2>8, <2>9, <2>10 DEF SessionInv
<1>6. CASE Wakes
  <2>1. /\ pc = "sleep" /\ pending = <<>> /\ pc' = "poll" /\ lost' = 0 /\ missed' = FALSE
        /\ UNCHANGED <<line, once, unit, at, waiting, unsupported, silent, pending, input>>
    BY <1>6 DEF Wakes, line_vars
  <2>2. at = 1 /\ 1 \in DOMAIN Live /\ at - 1 = 0 /\ 1..(at - 1) = {}
    BY <2>1, Lists DEF SessionInv, Cursor
  <2>3. waiting = FALSE
    BY <2>1 DEF SessionInv, SessionTypeOK, Cursor
  <2>4. SessionTypeOK'
    BY <2>1 DEF SessionInv, SessionTypeOK
  <2>5. Cursor'
    BY <2>1, <2>2, <2>3 DEF Cursor, Asking, Plan
  <2>6. OnTheLine'
    BY <2>1, <2>3 DEF SessionInv, OnTheLine, Settled
  <2>7. Counted'
    <3>1. Counts(fields', unsupported', lost', at' - 1)
      BY <2>1, <2>2, CountsNothing
    <3> QED BY <2>1, <3>1 DEF Counted, Counts
  <2>8. Heard' /\ Kept'
    BY <2>1, <2>2 DEF Heard, Has, Kept
  <2>9. InStep' /\ Clean'
    BY <2>1, <2>2, <2>3 DEF InStep, Clean, Whole
  <2> QED BY <1>0, <2>4, <2>5, <2>6, <2>7, <2>8, <2>9 DEF SessionInv
<1>7. CASE static_refresh_elapses \/ UNCHANGED inverter_vars
  <2>1. UNCHANGED <<line, once, unit, pc, at, waiting, unsupported, fields, lost, silent, pending, input, missed>>
    BY <1>7 DEF static_refresh_elapses, line_vars, inverter_vars
  <2>2. SessionTypeOK' /\ Cursor' /\ OnTheLine'
    BY <2>1 DEF SessionInv, SessionTypeOK, Cursor, OnTheLine, Settled, Answer, Asking, Plan
  <2>3. Counted' /\ Heard' /\ Kept'
    BY <2>1 DEF SessionInv, Counted, Counts, Polled, Heard, Has, Kept, Quiet, Settled
  <2>4. InStep' /\ Clean'
    BY <2>1 DEF SessionInv, InStep, Clean, Whole, Asking, Plan
  <2> QED BY <1>0, <2>2, <2>3, <2>4 DEF SessionInv
<1>8. CASE PortGone
  <2>1. /\ line.faults /\ pc' = "exited"
        /\ UNCHANGED <<line, once, unit, at, waiting, unsupported, lost, silent, pending, input, missed>>
    BY <1>8 DEF PortGone, line_vars
  <2>2. SessionTypeOK' /\ Cursor'
    BY <2>1 DEF SessionInv, SessionTypeOK, Cursor, Asking
  <2>3. OnTheLine' /\ Counted' /\ Heard' /\ Kept'
    BY <2>1 DEF OnTheLine, Settled, Counted, Heard, Kept, Quiet
  <2>4. InStep' /\ Clean'
    BY <2>1 DEF InStep, Clean, Asking
  <2> QED BY <1>0, <2>2, <2>3, <2>4 DEF SessionInv
<1>9. CASE Restarts
  BY <1>0, <1>9, RestartsKeepsInv
<1>10. CASE Answers
  BY <1>0, <1>10, AnswersKeepsInv
<1>11. CASE UnitSwapped
  <2>1. /\ line.faults /\ pending' = <<>> /\ unit' \in Units \union {NoUnit}
        /\ UNCHANGED <<line, once, pc, at, waiting, input, unsupported, fields, lost, silent, missed>>
    BY <1>11 DEF UnitSwapped
  <2>2. SessionTypeOK' /\ Cursor'
    BY <2>1 DEF SessionInv, SessionTypeOK, Cursor, Asking, Plan
  <2>3. OnTheLine' /\ Heard' /\ Kept'
    BY <2>1 DEF OnTheLine, Settled, Heard, Kept, Quiet
  <2>4. Counted'
    BY <2>1 DEF SessionInv, Counted, Counts, Polled
  <2>5. Clean'
    BY <2>1 DEF SessionInv, Clean, Whole
  <2>6. InStep'
    <3>1. Plan' = Plan /\ Asking' = Asking /\ Len(pending') = 0
      BY <2>1 DEF Plan, Asking
    <3>2. Len(input) \in Nat /\ Len(pending) \in Nat
      BY DEF SessionInv, SessionTypeOK
    <3> QED BY <2>1, <3>1, <3>2 DEF SessionInv, InStep
  <2> QED BY <1>0, <2>2, <2>3, <2>4, <2>5, <2>6 DEF SessionInv
<1> QED BY <1>1, <1>2, <1>3, <1>4, <1>5, <1>6, <1>7, <1>8, <1>9, <1>10, <1>11 DEF InverterNext, Daemon

LEMMA SessionInvAlways == InverterSpec => []SessionInv
BY SessionInvInit, SessionInvNext, PTL DEF InverterSpec

(***************************************************************************)
(* For any commands, lengths, units and delays: a cycle whose own answers  *)
(* all came in time and whole has every value it asked for, each of its    *)
(* own command, whatever went wrong before the daemon slept (tcflush of    *)
(* write_request, the one request at a time of poll_cycle).                *)
(***************************************************************************)
THEOREM LateAnswersStayInTheirPass == InverterSpec => []CleanCycleIsWhole
<1>1. SessionInv => CleanCycleIsWhole
  <2> SUFFICES ASSUME SessionInv, pc = "publish", ~missed, NEW c \in Range(Live) \ unsupported
               PROVE  fields[c] # None /\ fields[c].of = c
    BY DEF CleanCycleIsWhole
  <2>1. PICK i \in 1..Len(Live) : c = Live[i]
    BY Lists DEF Range
  <2> QED BY <2>1 DEF SessionInv, Clean, Whole
<1> QED BY <1>1, SessionInvAlways, PTL

(***************************************************************************)
(* For every list of commands and whatever the line does, the nulls of a   *)
(* published cycle are those a counter or a refusal explains (poll_cycle,  *)
(* discarded_frames).                                                      *)
(***************************************************************************)
THEOREM EveryNullIsCounted == InverterSpec => []NullsAreCounted
<1>1. SessionInv => NullsAreCounted
  BY Lists DEF SessionInv, Counted, Counts, NullsAreCounted
<1> QED BY <1>1, SessionInvAlways, PTL

(***************************************************************************)
(* On every line that settles before the next request, noisy or not, only  *)
(* what the unit does not implement is given up on (Response::Nak).        *)
(***************************************************************************)
THEOREM NothingIsGivenUpWrongly == InverterSpec => []GivenUpIsUnimplemented
<1>1. SessionInv => GivenUpIsUnimplemented
  BY DEF SessionInv, OnTheLine, Settled, GivenUpIsUnimplemented
<1> QED BY <1>1, SessionInvAlways, PTL

(***************************************************************************)
(* A unit that implements any live command and answers in time is kept,    *)
(* for every list and every MAX_SILENT_CYCLES (silent_cycles).             *)
(***************************************************************************)
THEOREM AnsweringUnitsAreKept == InverterSpec => []AnsweringUnitIsKept
<1>1. SessionInv => AnsweringUnitIsKept
  BY DEF SessionInv, Kept, Quiet, Settled, AnsweringUnitIsKept
<1> QED BY <1>1, SessionInvAlways, PTL
=============================================================================
