------------------------ MODULE TimeCorrectionProofs ------------------------
(***************************************************************************)
(* TimeCorrection for every configuration, any number of pairs, any chains *)
(* and any lies, after what quorum.rs guarantees for any number of         *)
(* readings.                                                               *)
(***************************************************************************)
EXTENDS TimeCorrection, NaturalsInduction, WellFoundedInduction, FiniteSetTheorems, TLAPS

(***************************************************************************)
(* Least-number principle, stated for a set.                               *)
(***************************************************************************)
LEMMA LeastNatural ==
  ASSUME NEW T \in SUBSET Nat, T # {}
  PROVE  \E m \in T : \A n \in T : m <= n
<1> DEFINE less == OpToRel(<, Nat)
<1>1. \A n, m \in Nat : n < m => <<n, m>> \in less
  BY DEF OpToRel
<1>2. IsWellFoundedOn(less, Nat)
  BY NatLessThanWellFounded
<1> HIDE DEF less
<1>3. PICK m \in T : \A n \in T : ~(<<n, m>> \in less)
  BY <1>2, WFMin
<1>4. \A n \in T : ~(n < m)
  BY <1>1, <1>3
<1> QED BY <1>4

(***************************************************************************)
(* Among finitely many readings one is the newest.                         *)
(***************************************************************************)
LEMMA NewestExists ==
  ASSUME NEW D, IsFiniteSet(D), D # {}, NEW values \in [D -> Int]
  PROVE  \E top \in D : \A i \in D : values[i] <= values[top]
<1> DEFINE upto(i) == {j \in D : values[j] <= values[i]}
           gap(i) == Cardinality(D) - Cardinality(upto(i))
           gaps == {gap(i) : i \in D}
<1>1. \A i \in D : /\ IsFiniteSet(upto(i)) /\ Cardinality(upto(i)) \in Nat
                   /\ Cardinality(upto(i)) <= Cardinality(D)
  <2> TAKE i \in D
  <2>1. upto(i) \in SUBSET D
    OBVIOUS
  <2> HIDE DEF upto
  <2> QED BY <2>1, FS_Subset, FS_CardinalityType
<1>2. \A i \in D : gap(i) \in Nat
  <2> HIDE DEF upto
  <2> QED BY <1>1, FS_CardinalityType
<1>3. gaps \in SUBSET Nat /\ gaps # {}
  <2> HIDE DEF gap
  <2> QED BY <1>2
<1>4. PICK g \in gaps : \A n \in gaps : g <= n
  <2> HIDE DEF gaps
  <2> QED BY <1>3, LeastNatural
<1>5. PICK top \in D : g = gap(top)
  <2> HIDE DEF gap
  <2> QED BY <1>4
<1>6. ASSUME NEW i \in D, ~(values[i] <= values[top]) PROVE FALSE
  <2>1. upto(top) \subseteq upto(i) /\ i \in upto(i) /\ i \notin upto(top)
    BY <1>6
  <2>2. Cardinality(upto(top)) < Cardinality(upto(i))
    <3> HIDE DEF upto
    <3>1. upto(top) \in SUBSET upto(i) /\ upto(top) # upto(i)
      BY <2>1
    <3> QED BY <3>1, <1>1, FS_Subset
  <2>3. g <= gap(i)
    <3> HIDE DEF gap
    <3> QED BY <1>4
  <2> HIDE DEF upto
  <2> QED BY <1>1, <1>5, <2>2, <2>3, FS_CardinalityType
<1> QED BY <1>6

(***************************************************************************)
(* `middle` returns one of the readings it is given: sorted[len / 2] never *)
(* leaves the slice and never averages (quorum.rs, middle).  Take the      *)
(* least reading that more than half do not exceed: the readings below it  *)
(* are at most half, or the newest of them would have been taken.          *)
(***************************************************************************)
LEMMA MiddleIsAReading ==
  ASSUME NEW D, IsFiniteSet(D), D # {}, NEW values \in [D -> Int]
  PROVE  \E i \in D : middle(values) = values[i]
<1> DEFINE half == Cardinality(D) \div 2
           below(v) == {i \in D : values[i] < v}
           upto(v) == {i \in D : values[i] <= v}
           rank(i) == Cardinality(upto(values[i]))
           high == {rank(i) : i \in {j \in D : rank(j) > half}}
<1>1. Cardinality(D) \in Nat /\ Cardinality(D) > half /\ half \in Nat
  <2>1. Cardinality(D) \in Nat /\ Cardinality(D) # 0
    BY FS_CardinalityType, FS_EmptySet
  <2> QED BY <2>1
<1>2. \A i \in D : IsFiniteSet(upto(values[i])) /\ rank(i) \in Nat
  <2> TAKE i \in D
  <2>1. upto(values[i]) \in SUBSET D
    OBVIOUS
  <2> HIDE DEF upto
  <2> QED BY <2>1, FS_Subset, FS_CardinalityType
<1>3. high \in SUBSET Nat /\ high # {}
  <2>1. PICK top \in D : \A i \in D : values[i] <= values[top]
    BY NewestExists
  <2>2. upto(values[top]) = D
    BY <2>1
  <2>3. rank(top) > half
    BY <1>1, <2>2
  <2> HIDE DEF rank, half
  <2> QED BY <1>2, <2>3
<1>4. PICK h \in high : \A n \in high : h <= n
  <2> HIDE DEF high
  <2> QED BY <1>3, LeastNatural
<1>5. PICK m \in D : h = rank(m) /\ rank(m) > half
  <2> HIDE DEF rank, half
  <2> QED BY <1>4
<1>6. Cardinality(below(values[m])) <= half
  <2> DEFINE B == below(values[m])
  <2>1. IsFiniteSet(B) /\ Cardinality(B) \in Nat
    <3>1. B \in SUBSET D
      OBVIOUS
    <3> HIDE DEF B
    <3> QED BY <3>1, FS_Subset, FS_CardinalityType
  <2> SUFFICES ASSUME ~(Cardinality(B) <= half) PROVE FALSE
    OBVIOUS
  <2>2. B # {}
    <3>1. Cardinality(B) # 0
      BY <1>1, <2>1
    <3> HIDE DEF B
    <3> QED BY <3>1, FS_EmptySet
  <2>3. PICK b \in B : \A i \in B : values[i] <= values[b]
    <3> DEFINE f == [i \in B |-> values[i]]
    <3>1. f \in [B -> Int] /\ \A i \in B : f[i] = values[i]
      OBVIOUS
    <3> HIDE DEF f, B
    <3>2. \E b \in B : \A i \in B : f[i] <= f[b]
      BY <2>1, <2>2, <3>1, NewestExists
    <3> QED BY <3>1, <3>2
  <2>4. upto(values[b]) = B
    BY <2>3
  <2>5. b \in D /\ m \in upto(values[m]) /\ m \notin B /\ B \in SUBSET upto(values[m])
    BY <2>3
  <2>6. rank(b) < rank(m)
    <3> HIDE DEF upto, B
    <3>1. B # upto(values[m])
      BY <2>5
    <3> QED BY <2>1, <2>4, <2>5, <3>1, <1>2, FS_Subset
  <2>7. rank(b) \in high
    <3>1. rank(b) > half
      <4> HIDE DEF half, upto, B
      <4> QED BY <1>1, <2>1, <2>4
    <3> HIDE DEF rank, half
    <3> QED BY <2>5, <3>1
  <2>8. rank(b) \in Nat /\ rank(m) \in Nat
    BY <1>2, <2>5
  <2>9. rank(m) <= rank(b)
    <3> HIDE DEF rank, high
    <3> QED BY <1>4, <1>5, <2>7
  <2> HIDE DEF rank
  <2> QED BY <2>6, <2>8, <2>9
<1>7. DOMAIN values = D /\ values[m] \in Range(values)
  BY DEF Range
<1>8. middle(values) = CHOOSE v \in Range(values) :
                         Cardinality(below(v)) <= half /\ Cardinality(upto(v)) > half
  BY <1>7 DEF middle
<1>9. middle(values) \in Range(values)
  <2>1. Cardinality(below(values[m])) <= half /\ Cardinality(upto(values[m])) > half
    BY <1>5, <1>6
  <2> HIDE DEF below, upto, half
  <2> QED BY <1>7, <1>8, <2>1
<1> QED BY <1>7, <1>9 DEF Range

(***************************************************************************)
(* The time `decide` believes is the vote of some sampled entry, and it is *)
(* within tolerance of a reading of every operator that was sampled.       *)
(***************************************************************************)
THEOREM DecidesNearEveryOperator ==
  ASSUME NEW D, IsFiniteSet(D), NEW readings \in [D -> Int], NEW operator,
         NEW tolerance \in Int, Decidable(readings, operator, tolerance)
  PROVE  /\ decide(readings, operator) \in Int
         /\ \E i \in D : decide(readings, operator) = readings[i]
         /\ \A i \in D : \E j \in D :
              /\ operator[j] = operator[i]
              /\ decide(readings, operator) - readings[j] <= tolerance
              /\ readings[j] - decide(readings, operator) <= tolerance
<1> DEFINE mine(i) == {j \in D : operator[j] = operator[i]}
           v == votes(readings, operator)
<1>0. DOMAIN readings = D /\ D # {}
  BY DEF Decidable
<1>1. \A i \in D : \E j \in D : operator[j] = operator[i] /\ v[i] = readings[j]
  <2> TAKE i \in D
  <2>1. mine(i) \in SUBSET D /\ i \in mine(i)
    OBVIOUS
  <2>2. IsFiniteSet(mine(i))
    <3> HIDE DEF mine
    <3> QED BY <2>1, FS_Subset
  <2>3. Own(readings, operator, operator[i]) \in [mine(i) -> Int]
        /\ \A j \in mine(i) : Own(readings, operator, operator[i])[j] = readings[j]
    BY <1>0 DEF Own
  <2>4. \E j \in mine(i) : middle(Own(readings, operator, operator[i]))
                             = Own(readings, operator, operator[i])[j]
    <3> HIDE DEF mine
    <3> QED BY <2>1, <2>2, <2>3, MiddleIsAReading
  <2>5. v[i] = middle(Own(readings, operator, operator[i]))
    BY <1>0 DEF votes
  <2> QED BY <2>3, <2>4, <2>5
<1>2. v \in [D -> Int]
  <2>1. v = [i \in D |-> v[i]]
    BY <1>0 DEF votes
  <2> HIDE DEF v
  <2> QED BY <1>1, <2>1
<1>3. PICK k \in D : middle(v) = v[k]
  <2> HIDE DEF v
  <2> QED BY <1>0, <1>2, MiddleIsAReading
<1>4. decide(readings, operator) = v[k]
  BY <1>3 DEF decide
<1>5. \A i \in D : v[k] - v[i] <= tolerance /\ v[i] - v[k] <= tolerance
  <2>1. ~Disagree(v, tolerance)
    BY DEF Decidable
  <2> HIDE DEF v
  <2> QED BY <2>1, <1>2 DEF Disagree
<1> HIDE DEF v
<1> QED BY <1>1, <1>2, <1>4, <1>5

-----------------------------------------------------------------------------
(***************************************************************************)
(* The inductive invariant.  TypeOK alone is not inductive: a thread that  *)
(* establishes keys dials found[try], which has to exist.  The readings    *)
(* carry what ask_pair checked, the later phases what `run` checked.       *)
(***************************************************************************)
ThreadOK(t) == t \in Thread /\ (t.pc = "ke" => t.try \in 1..Len(t.found))

Vouched(i, t) ==
  /\ t.seconds >= options.floor
  /\ accept(t.chains, t.seconds)
  /\ t.window = AcceptedWindow(t.chains, t.seconds)
  /\ Operator(i) \in Honest =>
       started - Skew <= t.seconds /\ t.seconds <= truth + Skew

Readings == [i \in DOMAIN thread |-> thread[i].seconds]
Operators == [i \in DOMAIN thread |-> pairs[i].server.operator]

Decided ==
  /\ \A i \in DOMAIN pairs : thread[i].pc = "ok"
  /\ Decidable(Readings, Operators, options.tolerance)
  /\ agreed = decide(Readings, Operators)
  /\ window = common_window({thread[i].window : i \in DOMAIN thread})

Inv ==
  /\ TypeOK
  /\ \A i \in DOMAIN pairs : ThreadOK(thread[i])
  /\ \A i \in DOMAIN pairs : thread[i].pc = "ok" => Vouched(i, thread[i])
  /\ phase # "idle" => started <= truth /\ outcome = "running"
  /\ phase = "idle" => pairs = <<>>
  /\ phase \in {"judging", "setting"} => Decided

-----------------------------------------------------------------------------
(* One thread.                                                             *)
LEMMA EmptyFound == <<>> \in Seq(Families) /\ "v4" \in Families /\ "v6" \in Families
  BY DEF Families

LEMMA FreshThreads ==
  ThreadOK(NewThread) /\ NewThread.pc = "start" /\ ThreadOK(Failed) /\ Failed.pc = "err"
<1>1. NewThread \in Thread /\ NewThread.pc = "start"
  BY EmptyFound DEF Thread, NewThread
<1>2. Failed \in Thread /\ Failed.pc = "err"
  BY <1>1 DEF Thread, Failed
<1> QED BY <1>1, <1>2 DEF ThreadOK

LEMMA AcceptedWindowType ==
  ASSUME NEW chains, NEW seconds PROVE AcceptedWindow(chains, seconds) \subseteq Instants
  BY DEF AcceptedWindow, intersect

LEMMA AnsweredThread ==
  ASSUME NEW chains \in SUBSET Chains, NEW seconds \in Int
  PROVE  LET t == Answered(chains, seconds)
         IN  /\ ThreadOK(t) /\ t.chains = chains /\ t.seconds = seconds
             /\ t.window = AcceptedWindow(chains, seconds)
<1> DEFINE t == Answered(chains, seconds)
<1>1. NewThread \in Thread
  BY FreshThreads DEF ThreadOK
<1>2. AcceptedWindow(chains, seconds) \in SUBSET Instants
  BY AcceptedWindowType
<1>3. t \in Thread /\ t.pc = "ok"
  BY <1>1, <1>2 DEF Answered, Thread
<1>4. /\ t.chains = chains /\ t.seconds = seconds
      /\ t.window = AcceptedWindow(chains, seconds)
  BY <1>1 DEF Answered, Thread
<1> QED BY <1>3, <1>4 DEF ThreadOK

LEMMA ResolvedThread ==
  ASSUME NEW t \in Thread, t.pc = "doh"
  PROVE  ThreadOK(Resolved(t)) /\ Resolved(t).pc # "ok"
<1>1. CASE t.found = <<>>
  BY <1>1, FreshThreads DEF Resolved
<1>2. CASE t.found # <<>> /\ t.hop = 1
  <2> DEFINE r == [t EXCEPT !.pc = "ke", !.try = 1]
  <2>1. Resolved(t) = r
    BY <1>2 DEF Resolved
  <2>2. r \in Thread /\ r.pc = "ke" /\ r.try = 1 /\ r.found = t.found
    BY DEF Thread
  <2>3. t.found \in Seq(Families)
    BY DEF Thread
  <2>4. 1 \in 1..Len(t.found)
    BY <1>2, <2>3
  <2> HIDE DEF r
  <2> QED BY <2>1, <2>2, <2>4 DEF ThreadOK
<1>3. CASE t.found # <<>> /\ t.hop # 1
  <2>1. SameFamily(t.found, t.key) \in Families
    BY <1>3 DEF SameFamily, Thread
  <2> QED BY <1>3, <2>1 DEF Resolved, ThreadOK, Thread
<1> QED BY <1>1, <1>2, <1>3

LEMMA NextTypeThread ==
  ASSUME NEW t \in Thread, t.pc = "doh"
  PROVE  ThreadOK(NextType(t)) /\ NextType(t).pc # "ok"
<1>1. CASE t.qtype = "A"
  BY <1>1 DEF NextType, ThreadOK, Thread
<1>2. CASE t.qtype # "A"
  BY <1>2, ResolvedThread DEF NextType
<1> QED BY <1>1, <1>2

LEMMA RecordedThread ==
  ASSUME NEW t \in Thread, NEW chain \in Chains
  PROVE  /\ record(t, chain) \in Thread
         /\ record(t, chain).pc = t.pc /\ record(t, chain).found = t.found
         /\ record(t, chain).try = t.try
  BY DEF record, Thread

(***************************************************************************)
(* A network call of one thread leaves that thread well-formed, and a      *)
(* reading vouched for.                                                    *)
(***************************************************************************)
LEMMA PairStep ==
  ASSUME Inv, phase = "asking", NEW i \in DOMAIN pairs, AskPair(i)
  PROVE  \E t : /\ thread' = [thread EXCEPT ![i] = t]
                /\ ThreadOK(t)
                /\ t.pc = "ok" => Vouched(i, t)
<1> DEFINE Goal == \E t : /\ thread' = [thread EXCEPT ![i] = t]
                          /\ ThreadOK(t)
                          /\ t.pc = "ok" => Vouched(i, t)
<1>1. /\ thread[i] \in Thread /\ ThreadOK(thread[i]) /\ thread \in [DOMAIN pairs -> Thread]
      /\ pairs[i].server \in TimeServer /\ pairs[i].resolver \in Resolver
      /\ options \in Options
  BY OptionsAssumption DEF Inv, TypeOK
<1>2. /\ pairs[i].server.name \in DOMAIN Presented /\ pairs[i].server.name \in DOMAIN Redirects
      /\ pairs[i].resolver.name \in DOMAIN Presented
  BY <1>1 DEF TimeServer, Resolver
<1>3. CASE PairStarts(i)
  <2>1. CASE thread' = [thread EXCEPT ![i].pc = "doh"]
    <3>1. thread' = [thread EXCEPT ![i] = [thread[i] EXCEPT !.pc = "doh"]]
      BY <2>1
    <3>2. ThreadOK([thread[i] EXCEPT !.pc = "doh"]) /\ [thread[i] EXCEPT !.pc = "doh"].pc = "doh"
      BY <1>1 DEF ThreadOK, Thread
    <3> QED BY <3>1, <3>2
  <2>2. CASE thread' = [thread EXCEPT ![i] = Failed]
    BY <2>2, FreshThreads
  <2> QED BY <1>3, <2>1, <2>2 DEF PairStarts
<1>4. CASE DohAnswers(i)
  <2>1. PICK chain \in Presented[pairs[i].resolver.name], n \in 1..MaxAnswers :
          thread' = [thread EXCEPT ![i] = NextType(
            [record(thread[i], chain) EXCEPT
               !.found = @ \o [j \in 1..n |-> FamilyOf(thread[i].qtype)]])]
    BY <1>4 DEF DohAnswers
  <2>2. chain \in Chains /\ n \in Nat
    BY <1>2, PeersAssumption, TimeAssumption
  <2> DEFINE more == [j \in 1..n |-> FamilyOf(thread[i].qtype)]
             t == [record(thread[i], chain) EXCEPT !.found = @ \o more]
  <2>3. more \in Seq(Families)
    BY <2>2 DEF FamilyOf, Families
  <2>4. t \in Thread /\ t.pc = "doh"
    <3>1. record(thread[i], chain) \in Thread /\ record(thread[i], chain).pc = "doh"
      BY <1>1, <1>4, <2>2, RecordedThread DEF DohAnswers
    <3> HIDE DEF more
    <3>2. record(thread[i], chain).found \o more \in Seq(Families)
      BY <2>3, <3>1 DEF Thread
    <3> QED BY <3>1, <3>2 DEF Thread
  <2> HIDE DEF t
  <2>5. ThreadOK(NextType(t)) /\ NextType(t).pc # "ok"
    BY <2>4, NextTypeThread
  <2> QED BY <2>1, <2>5 DEF t
<1>5. CASE DohFails(i)
  <2> DEFINE t == IF thread[i].try < Len(pairs[i].resolver.addresses)
                  THEN [thread[i] EXCEPT !.try = @ + 1] ELSE NextType(thread[i])
  <2>1. thread' = [thread EXCEPT ![i] = t] /\ thread[i].pc = "doh"
    BY <1>5 DEF DohFails
  <2>2. ThreadOK([thread[i] EXCEPT !.try = @ + 1]) /\ [thread[i] EXCEPT !.try = @ + 1].pc = "doh"
    <3>1. thread[i].try + 1 \in Nat
      BY <1>1 DEF Thread
    <3>2. [thread[i] EXCEPT !.try = @ + 1] \in Thread /\ [thread[i] EXCEPT !.try = @ + 1].pc = "doh"
      BY <1>1, <2>1, <3>1 DEF Thread
    <3> QED BY <3>2 DEF ThreadOK
  <2>3. ThreadOK(NextType(thread[i])) /\ NextType(thread[i]).pc # "ok"
    BY <1>1, <2>1, NextTypeThread
  <2>4. ThreadOK(t) /\ t.pc # "ok"
    BY <2>2, <2>3
  <2> HIDE DEF t
  <2> QED BY <2>1, <2>4
<1>6. CASE KeyEstablished(i)
  <2> DEFINE t == thread[i]
             keyed(chain) == [record(t, chain) EXCEPT !.key = t.found[t.try]]
             next(chain, redirect) ==
                CASE redirect = "none" ->
                       [keyed(chain) EXCEPT !.pc = "ntp", !.target = t.found[t.try]]
                  [] redirect \in Families ->
                       [keyed(chain) EXCEPT !.pc = "ntp", !.target = redirect]
                  [] redirect = "name" ->
                       [keyed(chain) EXCEPT !.pc = "doh", !.hop = 2, !.qtype = "A",
                                            !.try = 1, !.found = <<>>]
  <2>1. PICK chain \in Presented[pairs[i].server.name], redirect \in Redirects[pairs[i].server.name] :
          thread' = [thread EXCEPT ![i] = next(chain, redirect)]
    BY <1>6 DEF KeyEstablished
  <2>2. chain \in Chains /\ redirect \in Families \union {"none", "name"}
    BY <1>2, PeersAssumption
  <2>3. t.found[t.try] \in Families
    BY <1>1, <1>6 DEF KeyEstablished, ThreadOK, Thread
  <2>4. keyed(chain) \in Thread
    <3>1. record(t, chain) \in Thread
      BY <1>1, <2>2, RecordedThread
    <3> HIDE DEF t
    <3> QED BY <2>3, <3>1 DEF Thread
  <2>5. ThreadOK(next(chain, redirect)) /\ next(chain, redirect).pc # "ok"
    <3> HIDE DEF t, keyed
    <3>1. CASE redirect = "none"
      BY <2>3, <2>4, <3>1 DEF ThreadOK, Thread
    <3>2. CASE redirect \in Families
      BY <2>4, <3>2 DEF ThreadOK, Thread, Families
    <3>3. CASE redirect = "name"
      <4> DEFINE r == [keyed(chain) EXCEPT !.pc = "doh", !.hop = 2, !.qtype = "A",
                                           !.try = 1, !.found = <<>>]
      <4>1. next(chain, redirect) = r
        BY <3>3 DEF Families
      <4>2. r \in Thread /\ r.pc = "doh"
        BY <2>4, EmptyFound DEF Thread
      <4> HIDE DEF r, next
      <4> QED BY <4>1, <4>2 DEF ThreadOK
    <3> QED BY <2>2, <3>1, <3>2, <3>3
  <2> HIDE DEF next
  <2> QED BY <2>1, <2>5
<1>7. CASE KeyFails(i)
  <2> DEFINE t == IF thread[i].try < Len(thread[i].found)
                  THEN [thread[i] EXCEPT !.try = @ + 1] ELSE Failed
  <2>1. thread' = [thread EXCEPT ![i] = t] /\ thread[i].pc = "ke"
    BY <1>7 DEF KeyFails
  <2>2. ThreadOK(t) /\ t.pc # "ok"
    <3>1. CASE thread[i].try < Len(thread[i].found)
      <4> DEFINE r == [thread[i] EXCEPT !.try = @ + 1]
      <4>1. thread[i].try \in Nat /\ thread[i].try + 1 \in Nat /\ Len(thread[i].found) \in Nat
        BY <1>1 DEF Thread
      <4>2. r \in Thread /\ r.pc = "ke" /\ r.try = thread[i].try + 1 /\ r.found = thread[i].found
        BY <1>1, <2>1, <4>1 DEF Thread
      <4>3. t = r
        BY <3>1
      <4> HIDE DEF r, t
      <4> QED BY <3>1, <4>1, <4>2, <4>3 DEF ThreadOK
    <3>2. CASE ~(thread[i].try < Len(thread[i].found))
      BY <3>2, FreshThreads
    <3> QED BY <3>1, <3>2
  <2> HIDE DEF t
  <2> QED BY <2>1, <2>2
<1>8. CASE TimeArrives(i)
  <2>1. PICK seconds \in Reports(pairs[i].server.operator) :
          thread' = [thread EXCEPT ![i] =
             IF ~refuse_below_floor(seconds) /\ accept(thread[i].chains, seconds)
             THEN Answered(thread[i].chains, seconds) ELSE Failed]
    BY <1>8 DEF TimeArrives
  <2>2. truth \in Int /\ started \in Int /\ started <= truth /\ Skew \in Nat
    BY TimeAssumption DEF Inv, TypeOK
  <2>3. seconds \in Int
    BY <2>2, TimeAssumption DEF Reports
  <2>4. CASE ~refuse_below_floor(seconds) /\ accept(thread[i].chains, seconds)
    <3> DEFINE t == Answered(thread[i].chains, seconds)
    <3>1. /\ ThreadOK(t) /\ t.chains = thread[i].chains /\ t.seconds = seconds
          /\ t.window = AcceptedWindow(thread[i].chains, seconds)
      BY <1>1, <2>3, AnsweredThread DEF Thread
    <3>2. options.floor \in Int
      BY <1>1 DEF Options
    <3>3. Operator(i) \in Honest => started - Skew <= seconds /\ seconds <= truth + Skew
      BY <2>1, <2>2, <2>3 DEF Reports, Operator
    <3>4. seconds >= options.floor
      BY <2>3, <2>4, <3>2 DEF refuse_below_floor
    <3> HIDE DEF t
    <3>5. Vouched(i, t)
      BY <2>4, <3>1, <3>3, <3>4 DEF Vouched
    <3> QED BY <2>1, <2>4, <3>1, <3>5 DEF t
  <2>5. CASE ~(~refuse_below_floor(seconds) /\ accept(thread[i].chains, seconds))
    BY <2>1, <2>5, FreshThreads
  <2> QED BY <2>4, <2>5
<1>9. CASE TimeFails(i)
  BY <1>9, FreshThreads DEF TimeFails
<1> QED BY <1>3, <1>4, <1>5, <1>6, <1>7, <1>8, <1>9 DEF AskPair

-----------------------------------------------------------------------------
(* The draw.                                                               *)

(***************************************************************************)
(* `find` by name finds an entry: the entry it was given has that name.    *)
(***************************************************************************)
LEMMA FirstNamedIsAnEntry ==
  ASSUME NEW S, NEW entries \in Seq(S), NEW i \in DOMAIN entries
  PROVE  FirstNamed(entries, i) \in S
<1> DEFINE same == {j \in DOMAIN entries : entries[j].name = entries[i].name}
<1>1. same \in SUBSET Nat /\ same # {}
  OBVIOUS
<1>2. PICK m \in same : \A n \in same : m <= n
  <2> HIDE DEF same
  <2> QED BY <1>1, LeastNatural
<1>3. \A k \in 1..(m - 1) : entries[k].name # entries[i].name
  BY <1>2
<1>4. \E j \in DOMAIN entries :
        /\ entries[j].name = entries[i].name
        /\ \A k \in 1..(j - 1) : entries[k].name # entries[i].name
  BY <1>2, <1>3
<1> DEFINE first == CHOOSE j \in DOMAIN entries :
             /\ entries[j].name = entries[i].name
             /\ \A k \in 1..(j - 1) : entries[k].name # entries[i].name
<1>5. first \in DOMAIN entries
  BY <1>4
<1> HIDE DEF first
<1>6. entries[first] \in S
  BY <1>5
<1> QED BY <1>6 DEF FirstNamed, first

(***************************************************************************)
(* `choose` pairs finitely many configured servers with configured         *)
(* resolvers.                                                              *)
(***************************************************************************)
LEMMA ChosenPairs ==
  ASSUME NEW o \in Options, NEW chosen \in choose(o)
  PROVE  /\ IsFiniteSet(DOMAIN chosen)
         /\ \A i \in DOMAIN chosen : chosen[i] \in [server : TimeServer, resolver : Resolver]
<1>1. o.servers \in Seq(TimeServer) /\ o.resolvers \in Seq(Resolver) /\ o.sample \in Nat
  BY DEF Options
<1> DEFINE drawn(servers, draw) ==
             [i \in DOMAIN servers |->
                [server |-> servers[i], resolver |-> FirstNamed(o.resolvers, draw[i])]]
<1>a. PICK servers \in ChosenServers(o) :
        chosen \in {drawn(servers, draw) : draw \in sample(DOMAIN servers, DOMAIN o.resolvers)}
  BY DEF choose
<1>2. PICK draw \in sample(DOMAIN servers, DOMAIN o.resolvers) : chosen = drawn(servers, draw)
  BY <1>a
<1>3. IsFiniteSet(DOMAIN servers) /\ \A i \in DOMAIN servers : servers[i] \in TimeServer
  <2>1. CASE o.given
    <3>1. servers = Named(o)
      BY <1>a, <2>1 DEF ChosenServers
    <3>2. DOMAIN servers \in SUBSET (1..Len(o.servers))
      BY <1>1, <3>1 DEF Named
    <3>3. IsFiniteSet(1..Len(o.servers))
      <4>1. Len(o.servers) \in Int
        BY <1>1
      <4> QED BY <4>1, FS_Interval
    <3>4. IsFiniteSet(DOMAIN servers)
      BY <3>2, <3>3, FS_Subset
    <3> QED BY <1>1, <3>1, <3>4 DEF Named
  <2>2. CASE ~o.given
    <3>1. PICK d \in sample(1..o.sample, DOMAIN o.servers) :
            servers = [i \in 1..o.sample |-> o.servers[d[i]]]
      BY <1>a, <2>2 DEF ChosenServers
    <3>2. d \in [1..o.sample -> DOMAIN o.servers]
      BY DEF sample, Injection
    <3>3. IsFiniteSet(1..o.sample)
      BY <1>1, FS_Interval
    <3> QED BY <1>1, <3>1, <3>2, <3>3
  <2> QED BY <2>1, <2>2
<1>4. draw \in [DOMAIN servers -> DOMAIN o.resolvers]
  BY <1>2 DEF sample, Injection
<1>5. \A i \in DOMAIN servers : FirstNamed(o.resolvers, draw[i]) \in Resolver
  BY <1>1, <1>4, FirstNamedIsAnEntry
<1> QED BY <1>2, <1>3, <1>5

-----------------------------------------------------------------------------
(* The invariant.                                                          *)
LEMMA InitInv == Init => Inv
<1> SUFFICES ASSUME Init PROVE Inv
  OBVIOUS
<1>1. IsFiniteSet(DOMAIN pairs) /\ DOMAIN pairs = {} /\ thread \in [DOMAIN pairs -> Thread]
  BY FS_EmptySet DEF Init
<1> QED BY <1>1, TimeAssumption DEF Init, Inv, TypeOK

LEMMA EmptyFunction == ASSUME NEW S PROVE DOMAIN <<>> = {} /\ <<>> \in [{} -> S]
  OBVIOUS

LEMMA ZeroIsAnInteger == 0 \in Int
  OBVIOUS

\* A run that ends leaves nothing behind that the invariant speaks of.
LEMMA EndsInv ==
  ASSUME Inv, NEW how \in {"refused", "failed", "killed", "dry run", "stood down", "set", "none"},
         Ends(how), options' = options, truth' \in Int, clock' \in Int
  PROVE  Inv'
<1>1. pairs' = <<>> /\ thread' = <<>>
  BY DEF Ends
<1>2. DOMAIN pairs' = {} /\ thread' \in [DOMAIN pairs' -> Thread]
  BY <1>1, EmptyFunction, Zenon
<1>3. IsFiniteSet(DOMAIN pairs') /\ \A i \in DOMAIN pairs' : FALSE
  BY <1>2, FS_EmptySet
<1>4. phase' = "idle" /\ outcome' = how /\ window' = {} /\ options' \in OptionSets
  BY DEF Ends, Inv, TypeOK
<1>a. agreed' \in Int /\ started' \in Int
  <2>1. agreed' = 0 /\ started' = 0
    BY DEF Ends
  <2> QED BY <2>1, ZeroIsAnInteger, Zenon
<1>5. TypeOK'
  <2>1. options' \in OptionSets /\ window' \subseteq Instants
    BY <1>4
  <2>2. /\ phase' \in {"idle", "asking", "judging", "setting"}
        /\ outcome' \in {"none", "running", "refused", "failed", "killed", "dry run",
                         "stood down", "set"}
    BY <1>4
  <2> QED BY <1>2, <1>3, <1>a, <2>1, <2>2, Zenon DEF TypeOK
<1> QED BY <1>1, <1>3, <1>4, <1>5 DEF Inv

LEMMA NextInv == Inv /\ [Next]_vars => Inv'
<1> SUFFICES ASSUME Inv, [Next]_vars PROVE Inv'
  OBVIOUS
<1>0. options \in Options /\ truth \in Int /\ clock \in Int /\ agreed \in Int
      /\ started \in Int /\ thread \in [DOMAIN pairs -> Thread]
  BY OptionsAssumption DEF Inv, TypeOK
<1>1. CASE RunStarts
  <2>1. PICK chosen \in choose(options) : pairs' = chosen /\ thread' = [i \in DOMAIN chosen |-> NewThread]
    BY <1>1 DEF RunStarts
  <2>2. /\ IsFiniteSet(DOMAIN pairs')
        /\ \A i \in DOMAIN pairs' : pairs'[i] \in [server : TimeServer, resolver : Resolver]
    BY <1>0, <2>1, ChosenPairs
  <2>3. /\ thread' \in [DOMAIN pairs' -> Thread]
        /\ \A i \in DOMAIN pairs' : ThreadOK(thread'[i]) /\ thread'[i].pc = "start"
    BY <2>1, FreshThreads DEF ThreadOK
  <2>4. /\ options' = options /\ truth' = truth /\ clock' = clock /\ agreed' = agreed
        /\ window' = window /\ phase' = "asking" /\ outcome' = "running" /\ started' = truth
    BY <1>1 DEF RunStarts
  <2>5. TypeOK'
    BY <1>0, <2>2, <2>3, <2>4 DEF Inv, TypeOK
  <2> QED BY <1>0, <2>3, <2>4, <2>5 DEF Inv
<1>2. CASE RunRefused
  BY <1>0, <1>2, EndsInv DEF RunRefused
<1>3. CASE TrustStoreEmpty
  BY <1>0, <1>3, EndsInv DEF TrustStoreEmpty
<1>4. CASE PairSteps
  <2>1. PICK i \in DOMAIN pairs : AskPair(i)
    BY <1>4 DEF PairSteps
  <2>2. PICK t : thread' = [thread EXCEPT ![i] = t] /\ ThreadOK(t) /\ (t.pc = "ok" => Vouched(i, t))
    BY <1>4, <2>1, PairStep DEF PairSteps
  <2>3. /\ options' = options /\ truth' = truth /\ clock' = clock /\ agreed' = agreed
        /\ window' = window /\ phase' = phase /\ outcome' = outcome /\ started' = started
        /\ pairs' = pairs /\ phase = "asking"
    BY <1>4 DEF PairSteps, run_vars
  <2>4. /\ thread' \in [DOMAIN pairs -> Thread]
        /\ \A j \in DOMAIN pairs : thread'[j] = IF j = i THEN t ELSE thread[j]
    BY <1>0, <2>2 DEF ThreadOK
  <2>5. TypeOK'
    BY <2>3, <2>4 DEF Inv, TypeOK
  <2>6. \A j \in DOMAIN pairs : ThreadOK(thread'[j])
    BY <2>2, <2>4 DEF Inv
  <2>7. ASSUME NEW j \in DOMAIN pairs, thread'[j].pc = "ok" PROVE Vouched(j, thread[j])'
    <3>1. Vouched(j, thread'[j])
      BY <2>2, <2>4, <2>7 DEF Inv
    <3> QED BY <2>3, <3>1 DEF Vouched, Operator
  <2> QED BY <2>3, <2>5, <2>6, <2>7 DEF Inv
<1>5. CASE AnswersCollected
  <2>1. CASE Ends("failed")
    BY <1>0, <1>5, <2>1, EndsInv DEF AnswersCollected
  <2>2. CASE /\ \A i \in DOMAIN thread : thread[i].pc = "ok"
             /\ Decidable(Readings, Operators, options.tolerance)
             /\ agreed' = decide(Readings, Operators)
             /\ window' = common_window({thread[i].window : i \in DOMAIN thread})
             /\ phase' = "judging"
             /\ UNCHANGED <<outcome, pairs, thread, started>>
    <3>1. /\ options' = options /\ truth' = truth /\ clock' = clock /\ phase = "asking"
      BY <1>5 DEF AnswersCollected
    <3>2. Readings' = Readings /\ Operators' = Operators
      BY <2>2 DEF Readings, Operators
    <3>3. IsFiniteSet(DOMAIN pairs) /\ DOMAIN thread = DOMAIN pairs /\ Readings \in [DOMAIN pairs -> Int]
      BY <1>0 DEF Inv, TypeOK, Readings, Thread
    <3>4. agreed' \in Int
      <4>1. options.tolerance \in Int
        BY <1>0 DEF Options
      <4> QED BY <2>2, <3>3, <4>1, DecidesNearEveryOperator
    <3>5. window' \subseteq Instants
      BY <2>2 DEF common_window, intersect
    <3>6. Decided'
      BY <2>2, <3>1, <3>2, <3>3 DEF Decided
    <3>7. TypeOK'
      BY <2>2, <3>1, <3>4, <3>5 DEF Inv, TypeOK
    <3>8. \A i \in DOMAIN pairs : Vouched(i, thread[i]) => Vouched(i, thread[i])'
      BY <2>2, <3>1 DEF Vouched, Operator
    <3> QED BY <2>2, <3>1, <3>6, <3>7, <3>8 DEF Inv
  <2> QED BY <1>5, <2>1, <2>2 DEF AnswersCollected, Readings, Operators
<1>6. CASE ClockJudged
  <2>1. CASE Ends("stood down") \/ Ends("dry run")
    BY <1>0, <1>6, <2>1, EndsInv DEF ClockJudged
  <2>2. CASE phase' = "setting" /\ UNCHANGED <<outcome, pairs, thread, agreed, window, started>>
    <3>1. options' = options /\ truth' = truth /\ clock' = clock /\ phase = "judging"
      BY <1>6 DEF ClockJudged
    <3>2. Decided'
      BY <2>2, <3>1 DEF Inv, Decided, Readings, Operators
    <3>3. TypeOK'
      BY <2>2, <3>1 DEF Inv, TypeOK
    <3>4. \A i \in DOMAIN pairs : Vouched(i, thread[i]) => Vouched(i, thread[i])'
      BY <2>2, <3>1 DEF Vouched, Operator
    <3> QED BY <2>2, <3>1, <3>2, <3>3, <3>4 DEF Inv
  <2> QED BY <1>6, <2>1, <2>2 DEF ClockJudged
<1>7. CASE set_clock
  BY <1>0, <1>7, EndsInv DEF set_clock
<1>8. CASE Tick
  <2>1. /\ truth' = truth + 1 /\ clock' = clock + 1 /\ options' = options /\ thread' = thread
        /\ phase' = phase /\ outcome' = outcome /\ pairs' = pairs /\ agreed' = agreed
        /\ window' = window /\ started' = started
    BY <1>8 DEF Tick, run_vars
  <2>2. TypeOK'
    <3>1. truth' \in Int /\ clock' \in Int
      BY <1>0, <2>1
    <3> QED BY <2>1, <3>1 DEF Inv, TypeOK
  <2>3. Decided => Decided'
    BY <2>1 DEF Decided, Readings, Operators
  <2>4. \A i \in DOMAIN pairs : Vouched(i, thread[i]) => Vouched(i, thread[i])'
    <3>1. \A i \in DOMAIN pairs : thread[i].seconds \in Int
      BY <1>0 DEF Thread
    <3> QED BY <1>0, <2>1, <3>1, TimeAssumption DEF Vouched, Operator
  <2> QED BY <1>0, <2>1, <2>2, <2>3, <2>4 DEF Inv
<1>9. CASE ChronySteps
  <2>1. /\ truth' = truth /\ clock' = truth /\ options' = options /\ thread' = thread
        /\ phase' = phase /\ outcome' = outcome /\ pairs' = pairs /\ agreed' = agreed
        /\ window' = window /\ started' = started
    BY <1>9 DEF ChronySteps, run_vars
  <2> QED BY <1>0, <2>1 DEF Inv, TypeOK, Decided, Readings, Operators, Vouched, Operator
<1>10. CASE RunKilled
  BY <1>0, <1>10, EndsInv DEF RunKilled
<1>11. CASE Reboot
  <2>1. clock' \in Int
    BY <1>11, TimeAssumption DEF Reboot
  <2> QED BY <1>0, <1>11, <2>1, EndsInv DEF Reboot
<1>12. CASE UNCHANGED vars
  BY <1>12 DEF vars, Inv, TypeOK, Decided, Readings, Operators, Vouched, Operator
<1> QED BY <1>1, <1>2, <1>3, <1>4, <1>5, <1>6, <1>7, <1>8, <1>9, <1>10, <1>11, <1>12
        DEF Next, Run

LEMMA InvAlways == Spec => []Inv
  BY InitInv, NextInv, PTL DEF Spec

(***************************************************************************)
(* Every variable keeps its type, whatever the configuration, the network  *)
(* and the servers do (the structs of main.rs and ask_pair's locals).      *)
(***************************************************************************)
THEOREM TypeCorrect == Spec => []TypeOK
<1>1. Inv => TypeOK
  BY DEF Inv
<1> QED BY <1>1, InvAlways, PTL

-----------------------------------------------------------------------------
(* What a decision rests on.                                               *)
LEMMA DecidedTime ==
  ASSUME Inv, Decided
  PROVE  /\ agreed \in Int /\ options.tolerance \in Int /\ options.floor \in Int
         /\ \A i \in DOMAIN pairs : thread[i].seconds \in Int /\ Vouched(i, thread[i])
         /\ \E i \in DOMAIN pairs : agreed = thread[i].seconds
         /\ \A i \in DOMAIN pairs : \E j \in DOMAIN pairs :
              Operator(j) = Operator(i) /\ Near(agreed, thread[j].seconds, options.tolerance)
<1> DEFINE D == DOMAIN pairs
<1>1. IsFiniteSet(D) /\ thread \in [D -> Thread] /\ DOMAIN thread = D
  BY DEF Inv, TypeOK
<1>2. options.tolerance \in Int /\ options.floor \in Int
  BY OptionsAssumption DEF Inv, TypeOK, Options
<1>3. \A i \in D : thread[i].seconds \in Int /\ Vouched(i, thread[i])
  BY <1>1 DEF Inv, Decided, Thread
<1>4. Readings \in [D -> Int] /\ \A i \in D : Readings[i] = thread[i].seconds
  BY <1>1, <1>3 DEF Readings
<1>5. \A i \in D : Operators[i] = Operator(i)
  BY <1>1 DEF Operators, Operator
<1>6. Decidable(Readings, Operators, options.tolerance) /\ agreed = decide(Readings, Operators)
  BY DEF Decided
<1>7. /\ agreed \in Int
      /\ \E i \in D : agreed = Readings[i]
      /\ \A i \in D : \E j \in D :
           /\ Operators[j] = Operators[i]
           /\ agreed - Readings[j] <= options.tolerance
           /\ Readings[j] - agreed <= options.tolerance
  BY <1>1, <1>2, <1>4, <1>6, DecidesNearEveryOperator
<1> QED BY <1>2, <1>3, <1>4, <1>5, <1>7 DEF Near

(***************************************************************************)
(* Only set_clock ends a run with the clock set, and only to `agreed`;     *)
(* only ClockJudged stands down or goes on to set, and only for the        *)
(* window's reason.                                                        *)
(***************************************************************************)
LEMMA WhoDecides ==
  ASSUME Inv, [Next]_vars
  PROVE  /\ Sets => Decided /\ clock' = agreed
         /\ StandsDown => Decided /\ clock \in window
         /\ DecidesToSet /\ ~options.force => Decided /\ clock \notin window
<1>1. phase # "idle" => outcome = "running"
  BY DEF Inv
<1>2. phase \in {"judging", "setting"} => Decided
  BY DEF Inv
<1>3. CASE RunStarts \/ RunRefused \/ TrustStoreEmpty \/ PairSteps \/ AnswersCollected
  BY <1>3 DEF RunStarts, RunRefused, TrustStoreEmpty, PairSteps, AnswersCollected,
              Sets, StandsDown, DecidesToSet
<1>4. CASE ClockJudged
  <2>1. phase = "judging" /\ Decided /\ ~Sets
    BY <1>2, <1>4 DEF ClockJudged, Sets
  <2>2. CASE ~options.force /\ ~needs_setting(clock, window)
    <3>1. clock \in window
      BY <2>2 DEF needs_setting
    <3>2. phase' = "idle"
      BY <1>4, <2>2 DEF ClockJudged, Ends
    <3> QED BY <2>1, <3>1, <3>2 DEF DecidesToSet
  <2>3. CASE ~(~options.force /\ ~needs_setting(clock, window))
    <3>1. ~StandsDown
      <4>1. outcome' = "dry run" \/ outcome' = outcome
        BY <1>4, <2>3 DEF ClockJudged, Ends
      <4> QED BY <1>1, <2>1, <4>1 DEF StandsDown
    <3>2. ~options.force => clock \notin window
      BY <2>3 DEF needs_setting
    <3> QED BY <2>1, <3>1, <3>2
  <2> QED BY <2>2, <2>3
<1>5. CASE set_clock
  BY <1>2, <1>5 DEF set_clock, Ends, Sets, StandsDown, DecidesToSet
<1>6. CASE Tick \/ ChronySteps \/ UNCHANGED vars
  BY <1>1, <1>6 DEF Tick, ChronySteps, run_vars, vars, Sets, StandsDown, DecidesToSet
<1>7. CASE RunKilled \/ Reboot
  BY <1>7 DEF RunKilled, Reboot, Ends, Sets, StandsDown, DecidesToSet
<1> QED BY <1>3, <1>4, <1>5, <1>6, <1>7 DEF Next, Run

-----------------------------------------------------------------------------
(* The safety theorems.                                                    *)

(***************************************************************************)
(* For every configuration and whatever the operators and the network do,  *)
(* set_clock gets a time at or above the floor, near a reading of every    *)
(* operator asked, that every chain gathered for one reading vouches for.  *)
(***************************************************************************)
THEOREM SetsVouched == Spec => SetsOnlyVouchedTime
<1> DEFINE Good ==
      /\ clock' >= options.floor
      /\ \A i \in DOMAIN pairs : \E j \in DOMAIN pairs :
           Operator(j) = Operator(i) /\ Near(clock', thread[j].seconds, options.tolerance)
      /\ \E i \in DOMAIN pairs : \A chain \in thread[i].chains : verify_at(chain, clock')
<1>1. ASSUME Inv, [Next]_vars, Sets PROVE Good
  <2>1. Decided /\ clock' = agreed
    BY <1>1, WhoDecides
  <2>2. \A i \in DOMAIN pairs : \E j \in DOMAIN pairs :
          Operator(j) = Operator(i) /\ Near(clock', thread[j].seconds, options.tolerance)
    BY <1>1, <2>1, DecidedTime
  <2>3. PICK i \in DOMAIN pairs : agreed = thread[i].seconds
    BY <1>1, <2>1, DecidedTime
  <2>4. Vouched(i, thread[i])
    BY <1>1, <2>1, DecidedTime
  <2>5. clock' >= options.floor /\ \A chain \in thread[i].chains : verify_at(chain, clock')
    BY <2>1, <2>3, <2>4 DEF Vouched, accept
  <2> QED BY <2>2, <2>5
<1>2. Inv /\ [Next]_vars => [Sets => Good]_vars
  BY <1>1
<1> HIDE DEF Good
<1>3. Spec => [][Sets => Good]_vars
  BY <1>2, InvAlways, PTL DEF Spec
<1> QED BY <1>3 DEF SetsOnlyVouchedTime, Good

(***************************************************************************)
(* One honest operator among those a run asks bounds how far from real     *)
(* time the clock is set, whatever all the others report.                  *)
(***************************************************************************)
THEOREM OneHonestOperatorSuffices == Spec => OneHonestOperatorBoundsTheError
<1> DEFINE Good == Near(clock', truth, options.tolerance + Skew + (truth - started))
           AnHonestOne == \E i \in DOMAIN pairs : Operator(i) \in Honest
<1>1. ASSUME Inv, [Next]_vars, Sets, AnHonestOne PROVE Good
  <2>1. Decided /\ clock' = agreed
    BY <1>1, WhoDecides
  <2>2. PICK i \in DOMAIN pairs : Operator(i) \in Honest
    BY <1>1
  <2>3. PICK j \in DOMAIN pairs :
          Operator(j) = Operator(i) /\ Near(agreed, thread[j].seconds, options.tolerance)
    BY <1>1, <2>1, DecidedTime
  <2>4. started - Skew <= thread[j].seconds /\ thread[j].seconds <= truth + Skew
    BY <1>1, <2>1, <2>2, <2>3, DecidedTime DEF Vouched
  <2>5. /\ agreed \in Int /\ thread[j].seconds \in Int /\ options.tolerance \in Int
        /\ started \in Int /\ truth \in Int /\ Skew \in Nat /\ started <= truth
    BY <1>1, <2>1, DecidedTime, TimeAssumption DEF Inv, TypeOK, Sets
  <2> QED BY <2>1, <2>3, <2>4, <2>5 DEF Near
<1>2. Inv /\ [Next]_vars => [Sets /\ AnHonestOne => Good]_vars
  BY <1>1
<1> HIDE DEF Good, AnHonestOne
<1>3. Spec => [][Sets /\ AnHonestOne => Good]_vars
  BY <1>2, InvAlways, PTL DEF Spec
<1> QED BY <1>3 DEF OneHonestOperatorBoundsTheError, Good, AnHonestOne

-----------------------------------------------------------------------------
(* Windows.                                                                *)

(***************************************************************************)
(* Anywhere in the window of a chain that was verified at `seconds`, the   *)
(* same path is valid: the filter of verified_window never drops a         *)
(* certificate of that path.                                               *)
(***************************************************************************)
LEMMA WindowIsWhereThePathIsValid ==
  ASSUME NEW chain \in Chains, NEW seconds, verify_at(chain, seconds),
         NEW t \in verified_window(chain, seconds)
  PROVE  verify_at(chain, t)
<1> DEFINE used == {c \in chain.certs : seconds \in window_of(c)}
<1>1. PICK path \in chain.paths : \A c \in path : seconds \in window_of(c)
  BY DEF verify_at
<1>2. path \subseteq used /\ chain.leaf \in path /\ chain.leaf \in chain.certs
  BY <1>1, ChainsAssumption
<1>3. t \in Instants /\ \A c \in used : t \in window_of(c)
  BY DEF verified_window, intersect
<1>4. \A c \in path : t \in window_of(c)
  BY <1>2, <1>3
<1>5. t \in Int /\ chain.leaf.nb \in Nat /\ chain.leaf.nb <= t
  BY <1>2, <1>3, <1>4, InstantsAssumption, ChainsAssumption DEF window_of
<1> QED BY <1>1, <1>4, <1>5 DEF verify_at

(***************************************************************************)
(* A run that stands down leaves a clock at which every chain it met still *)
(* has a valid path: no configuration and no mixture of paths makes the    *)
(* computed window wider than what TLS accepts.                            *)
(***************************************************************************)
THEOREM StandsDownSafely == Spec => StandsDownOnlyWhereTlsWorks
<1> DEFINE Good == \A i \in DOMAIN pairs : \A chain \in thread[i].chains : verify_at(chain, clock)
<1>1. ASSUME Inv, [Next]_vars, StandsDown,
             NEW i \in DOMAIN pairs, NEW chain \in thread[i].chains
      PROVE  verify_at(chain, clock)
  <2>1. Decided /\ clock \in window
    BY <1>1, WhoDecides
  <2>2. Vouched(i, thread[i])
    BY <1>1, <2>1, DecidedTime
  <2>3. thread[i] \in Thread /\ i \in DOMAIN thread
    BY <1>1 DEF Inv, TypeOK
  <2>4. chain \in Chains
    BY <1>1, <2>3 DEF Thread
  <2>5. clock \in thread[i].window
    BY <2>1, <2>3 DEF Decided, common_window, intersect
  <2>6. clock \in AcceptedWindow(thread[i].chains, thread[i].seconds)
        /\ verify_at(chain, thread[i].seconds)
    BY <1>1, <2>2, <2>5 DEF Vouched, accept
  <2>7. clock \in verified_window(chain, thread[i].seconds)
    BY <1>1, <2>6 DEF AcceptedWindow, intersect
  <2> QED BY <2>4, <2>6, <2>7, WindowIsWhereThePathIsValid
<1>2. Inv /\ [Next]_vars => [StandsDown => Good]_vars
  BY <1>1
<1> HIDE DEF Good
<1>3. Spec => [][StandsDown => Good]_vars
  BY <1>2, InvAlways, PTL DEF Spec
<1> QED BY <1>3 DEF StandsDownOnlyWhereTlsWorks, Good

(***************************************************************************)
(* The instant a readable chain was verified at is in its window, whatever *)
(* certificates off the path were sent with it.                            *)
(***************************************************************************)
LEMMA VerifiedInstantIsInTheWindow ==
  ASSUME NEW chain \in Chains, NEW seconds, verify_at(chain, seconds), ~Unreadable(chain)
  PROVE  seconds \in verified_window(chain, seconds)
<1> DEFINE used == {c \in chain.certs : seconds \in window_of(c)}
<1>1. PICK path \in chain.paths : \A c \in path : seconds \in window_of(c)
  BY DEF verify_at
<1>2. chain.leaf \in used
  BY <1>1, ChainsAssumption
<1>3. seconds \in Instants
  BY <1>2 DEF window_of
<1>4. verified_window(chain, seconds) = intersect({window_of(c) : c \in used})
  BY <1>2 DEF verified_window
<1> QED BY <1>3, <1>4 DEF intersect

(***************************************************************************)
(* A clock every reading agrees with is never stepped, except under        *)
(* --force or beside a certificate that cannot be read.                    *)
(***************************************************************************)
THEOREM HealthyClockIsSafe == Spec => HealthyClockLeftAlone
<1> DEFINE Agrees == \A i \in DOMAIN pairs : thread[i].seconds = clock
           Odd == \E i \in DOMAIN pairs : \E chain \in thread[i].chains : Unreadable(chain)
<1>1. ASSUME Inv, [Next]_vars, DecidesToSet, ~options.force, Agrees, ~Odd PROVE FALSE
  <2>1. Decided /\ clock \notin window
    BY <1>1, WhoDecides
  <2>2. DOMAIN thread = DOMAIN pairs /\ thread \in [DOMAIN pairs -> Thread]
    BY <1>1 DEF Inv, TypeOK
  <2>3. ASSUME NEW i \in DOMAIN pairs PROVE clock \in thread[i].window
    <3>1. Vouched(i, thread[i]) /\ thread[i].seconds = clock /\ thread[i].chains \subseteq Chains
      BY <1>1, <2>1, <2>2, DecidedTime DEF Thread
    <3>2. thread[i].chains # {} /\ \A chain \in thread[i].chains : verify_at(chain, clock)
      BY <3>1 DEF Vouched, accept
    <3>3. \A chain \in thread[i].chains : clock \in verified_window(chain, clock)
      BY <1>1, <3>1, <3>2, VerifiedInstantIsInTheWindow
    <3>4. clock \in Instants
      BY <3>2, <3>3 DEF verified_window, intersect
    <3>5. clock \in AcceptedWindow(thread[i].chains, clock)
      BY <3>3, <3>4 DEF AcceptedWindow, intersect
    <3> QED BY <3>1, <3>5 DEF Vouched
  <2>4. DOMAIN pairs # {}
    BY <2>1, <2>2 DEF Decided, Decidable, Readings
  <2>5. clock \in Instants
    BY <2>2, <2>3, <2>4 DEF Thread
  <2>6. clock \in common_window({thread[i].window : i \in DOMAIN thread})
    BY <2>2, <2>3, <2>4, <2>5 DEF common_window, intersect
  <2> QED BY <2>1, <2>6 DEF Decided
<1>2. Inv /\ [Next]_vars => [DecidesToSet /\ ~options.force /\ Agrees => Odd]_vars
  BY <1>1
<1> HIDE DEF Agrees, Odd
<1>3. Spec => [][DecidesToSet /\ ~options.force /\ Agrees => Odd]_vars
  BY <1>2, InvAlways, PTL DEF Spec
<1> QED BY <1>3 DEF HealthyClockLeftAlone, Agrees, Odd
-----------------------------------------------------------------------------
(* The witnesses.                                                          *)

(***************************************************************************)
(* n places with n different values have n values.                         *)
(***************************************************************************)
LEMMA InjectiveImage ==
  ASSUME NEW n \in Nat, NEW f, DOMAIN f = 1..n, IsInjective(f)
  PROVE  Cardinality({f[i] : i \in 1..n}) = n
<1> DEFINE T == {f[i] : i \in 1..n}
           g == [i \in 1..n |-> f[i]]
<1>1. g \in Bijection(1..n, T)
  BY DEF IsInjective, Bijection, Injection, Surjection
<1>2. ExistsBijection(1..n, T)
  BY <1>1 DEF ExistsBijection
<1>3. IsFiniteSet(1..n) /\ Cardinality(1..n) = n
  BY FS_Interval
<1> HIDE DEF T, g
<1>4. Cardinality(T) = Cardinality(1..n)
  BY <1>2, <1>3, FS_Bijection
<1> QED BY <1>3, <1>4 DEF T

(***************************************************************************)
(* Where no name is given twice, `find` by name returns the very entry.    *)
(***************************************************************************)
LEMMA FirstNamedWithoutRepeats ==
  ASSUME NEW S, NEW entries \in Seq(S), NEW i \in DOMAIN entries,
         IsInjective([r \in DOMAIN entries |-> entries[r].name])
  PROVE  FirstNamed(entries, i) = entries[i]
<1> DEFINE P(j) == /\ entries[j].name = entries[i].name
                   /\ \A k \in 1..(j - 1) : entries[k].name # entries[i].name
<1>1. \A j \in DOMAIN entries : entries[j].name = entries[i].name => j = i
  BY DEF IsInjective
<1>2. \A k \in 1..(i - 1) : k \in DOMAIN entries /\ k # i
  OBVIOUS
<1>3. P(i)
  BY <1>1, <1>2
<1>4. \A j \in DOMAIN entries : P(j) => j = i
  BY <1>1
<1> HIDE DEF P
<1>5. (CHOOSE j \in DOMAIN entries : P(j)) = i
  BY <1>3, <1>4
<1> QED BY <1>5 DEF FirstNamed, P

(***************************************************************************)
(* Whatever `choose` returns for a command line parse_args accepted has    *)
(* the organisations that were asked for, and where resolvers have names   *)
(* of their own, a resolver of its own for each pair.                      *)
(***************************************************************************)
LEMMA ChosenWitnesses ==
  ASSUME NEW o \in Options, parse_args(o), NEW chosen \in choose(o)
  PROVE  /\ Cardinality({chosen[i].server.operator : i \in DOMAIN chosen}) >=
              IF o.given THEN Len(o.only) ELSE o.sample
         /\ IsInjective([r \in DOMAIN o.resolvers |-> o.resolvers[r].name])
              => IsInjective([i \in DOMAIN chosen |-> chosen[i].resolver.name])
<1>1. o.servers \in Seq(TimeServer) /\ o.resolvers \in Seq(Resolver) /\ o.sample \in Nat
  BY DEF Options
<1> DEFINE drawn(servers, draw) ==
             [i \in DOMAIN servers |->
                [server |-> servers[i], resolver |-> FirstNamed(o.resolvers, draw[i])]]
<1>2. PICK servers \in ChosenServers(o) :
        chosen \in {drawn(servers, draw) : draw \in sample(DOMAIN servers, DOMAIN o.resolvers)}
  BY DEF choose
<1>3. PICK draw \in sample(DOMAIN servers, DOMAIN o.resolvers) : chosen = drawn(servers, draw)
  BY <1>2
<1>4. /\ DOMAIN chosen = DOMAIN servers
      /\ \A i \in DOMAIN servers : /\ chosen[i].server = servers[i]
                                   /\ chosen[i].resolver = FirstNamed(o.resolvers, draw[i])
  BY <1>3
<1>5. draw \in [DOMAIN servers -> DOMAIN o.resolvers] /\ IsInjective(draw)
  BY <1>3 DEF sample, Injection
<1> HIDE DEF drawn
<1>6. {chosen[i].server.operator : i \in DOMAIN chosen} = {servers[i].operator : i \in DOMAIN servers}
  BY <1>4
<1> DEFINE Enough == Cardinality({chosen[i].server.operator : i \in DOMAIN chosen}) >=
                       IF o.given THEN Len(o.only) ELSE o.sample
<1>7. ASSUME o.given PROVE Enough
  <2>1. servers = Named(o)
    BY <1>2, <1>7 DEF ChosenServers
  <2>2. Cardinality({servers[i].operator : i \in DOMAIN servers}) >= Len(o.only)
    BY <1>7, <2>1 DEF parse_args, distinct_operators
  <2> QED BY <1>6, <1>7, <2>2
<1>8. ASSUME ~o.given PROVE Enough
  <2>1. PICK d \in sample(1..o.sample, DOMAIN o.servers) :
          /\ IsInjective([i \in 1..o.sample |-> o.servers[d[i]].operator])
          /\ servers = [i \in 1..o.sample |-> o.servers[d[i]]]
    BY <1>2, <1>8 DEF ChosenServers
  <2> DEFINE f == [i \in 1..o.sample |-> servers[i].operator]
  <2>2. DOMAIN servers = 1..o.sample /\ IsInjective(f) /\ DOMAIN f = 1..o.sample
    BY <2>1
  <2>3. {f[i] : i \in 1..o.sample} = {servers[i].operator : i \in DOMAIN servers}
    BY <2>2
  <2> HIDE DEF f
  <2>4. Cardinality({f[i] : i \in 1..o.sample}) = o.sample
    BY <1>1, <2>2, InjectiveImage
  <2>5. Cardinality({chosen[i].server.operator : i \in DOMAIN chosen}) = o.sample
    BY <1>6, <2>3, <2>4, Zenon
  <2> QED BY <1>1, <1>8, <2>5
<1>9. ASSUME IsInjective([r \in DOMAIN o.resolvers |-> o.resolvers[r].name])
      PROVE  IsInjective([i \in DOMAIN chosen |-> chosen[i].resolver.name])
  <2>1. \A i \in DOMAIN servers : chosen[i].resolver = o.resolvers[draw[i]]
    BY <1>1, <1>4, <1>5, <1>9, FirstNamedWithoutRepeats
  <2>2. \A a, b \in DOMAIN o.resolvers : o.resolvers[a].name = o.resolvers[b].name => a = b
    BY <1>9 DEF IsInjective
  <2> QED BY <1>4, <1>5, <2>1, <2>2 DEF IsInjective
<1> QED BY <1>7, <1>8, <1>9

\* The pairs of a run are a draw of its command line.
Drawn == phase # "idle" => parse_args(options) /\ pairs \in choose(options)

(***************************************************************************)
(* A run asks as many organisations as its command line promises, each     *)
(* through a resolver of its own, for every configuration (choose,         *)
(* quorum::sample).                                                        *)
(***************************************************************************)
THEOREM WitnessesAreIndependent == Spec => []AsksIndependentWitnesses
<1>1. Init => Drawn
  BY DEF Init, Drawn
<1>2. Drawn /\ [Next]_vars => Drawn'
  <2> SUFFICES ASSUME Drawn, [Next]_vars PROVE Drawn'
    OBVIOUS
  <2>1. CASE RunStarts
    BY <2>1 DEF RunStarts, Drawn
  <2>2. CASE RunRefused \/ TrustStoreEmpty \/ set_clock \/ RunKilled \/ Reboot
    BY <2>2 DEF RunRefused, TrustStoreEmpty, set_clock, RunKilled, Reboot, Ends, Drawn
  <2>3. CASE PairSteps \/ Tick \/ ChronySteps
    BY <2>3 DEF PairSteps, Tick, ChronySteps, run_vars, Drawn
  <2>4. CASE AnswersCollected
    BY <2>4 DEF AnswersCollected, Ends, Drawn
  <2>5. CASE ClockJudged
    BY <2>5 DEF ClockJudged, Ends, Drawn
  <2>6. CASE UNCHANGED vars
    BY <2>6 DEF vars, Drawn
  <2> QED BY <2>1, <2>2, <2>3, <2>4, <2>5, <2>6 DEF Next, Run
<1>3. Inv /\ Drawn => AsksIndependentWitnesses
  <2> SUFFICES ASSUME Inv, Drawn PROVE AsksIndependentWitnesses
    OBVIOUS
  <2>1. options \in Options
    BY OptionsAssumption DEF Inv, TypeOK
  <2>2. CASE phase = "idle"
    <3>1. DOMAIN pairs = {}
      BY <2>2 DEF Inv
    <3> QED BY <2>2, <3>1 DEF AsksIndependentWitnesses, IsInjective
  <2>3. CASE phase # "idle"
    BY <2>1, <2>3, ChosenWitnesses DEF Drawn, AsksIndependentWitnesses, Operator
  <2> QED BY <2>2, <2>3
<1> QED BY <1>1, <1>2, <1>3, InvAlways, PTL DEF Spec
-----------------------------------------------------------------------------
(* Both legs.                                                              *)

(***************************************************************************)
(* What a thread has met, by where it is: addresses mean a chain of the    *)
(* resolver, keys (and with them a second lookup) a chain of each leg.     *)
(***************************************************************************)
Met(t, name) == t.chains \intersect Presented[name] # {}

LegsOK(i, t) ==
  /\ t.pc = "start" => t.found = <<>> /\ t.hop = 1
  /\ (t.pc = "ke" \/ (t.pc = "doh" /\ t.found # <<>>)) => Met(t, pairs[i].resolver.name)
  /\ (t.pc \in {"ntp", "ok"} \/ (t.pc = "doh" /\ t.hop = 2)) =>
       Met(t, pairs[i].resolver.name) /\ Met(t, pairs[i].server.name)

Legs == \A i \in DOMAIN pairs : LegsOK(i, thread[i])

LEMMA FailedLegs == ASSUME NEW i PROVE LegsOK(i, Failed) /\ LegsOK(i, NewThread)
<1>1. Failed.pc = "err" /\ NewThread.pc = "start"
  BY FreshThreads
<1>2. NewThread.found = <<>> /\ NewThread.hop = 1
  BY DEF NewThread
<1> QED BY <1>1, <1>2 DEF LegsOK

LEMMA NextTypeLegs ==
  ASSUME NEW i, NEW t \in Thread, t.pc = "doh", LegsOK(i, t)
  PROVE  LegsOK(i, NextType(t))
<1>1. CASE t.qtype = "A"
  <2> DEFINE r == [t EXCEPT !.qtype = "AAAA", !.try = 1]
  <2>1. r.pc = t.pc /\ r.found = t.found /\ r.hop = t.hop /\ r.chains = t.chains
    BY DEF Thread
  <2>2. NextType(t) = r
    BY <1>1 DEF NextType
  <2> HIDE DEF r
  <2> QED BY <2>1, <2>2 DEF LegsOK, Met
<1>2. CASE t.qtype # "A" /\ t.found = <<>>
  BY <1>2, FailedLegs DEF NextType, Resolved
<1>3. CASE t.qtype # "A" /\ t.found # <<>> /\ t.hop = 1
  <2> DEFINE r == [t EXCEPT !.pc = "ke", !.try = 1]
  <2>1. r.pc = "ke" /\ r.chains = t.chains
    BY DEF Thread
  <2>2. NextType(t) = r
    BY <1>3 DEF NextType, Resolved
  <2> HIDE DEF r
  <2> QED BY <1>3, <2>1, <2>2 DEF LegsOK, Met
<1>4. CASE t.qtype # "A" /\ t.found # <<>> /\ t.hop # 1
  <2> DEFINE r == [t EXCEPT !.pc = "ntp", !.target = SameFamily(t.found, t.key)]
  <2>1. r.pc = "ntp" /\ r.chains = t.chains /\ t.hop = 2
    BY <1>4 DEF Thread
  <2>2. NextType(t) = r
    BY <1>4 DEF NextType, Resolved
  <2> HIDE DEF r
  <2> QED BY <1>4, <2>1, <2>2 DEF LegsOK, Met
<1> QED BY <1>1, <1>2, <1>3, <1>4

(***************************************************************************)
(* A network call of one thread keeps account of the legs it has met.      *)
(***************************************************************************)
LEMMA PairLegs ==
  ASSUME Inv, Legs, NEW i \in DOMAIN pairs, AskPair(i)
  PROVE  \E t : thread' = [thread EXCEPT ![i] = t] /\ LegsOK(i, t)
<1>1. /\ thread[i] \in Thread /\ ThreadOK(thread[i]) /\ LegsOK(i, thread[i])
      /\ thread \in [DOMAIN pairs -> Thread]
      /\ pairs[i].server \in TimeServer /\ pairs[i].resolver \in Resolver
  BY DEF Inv, TypeOK, Legs
<1>2. pairs[i].server.name \in DOMAIN Presented /\ pairs[i].resolver.name \in DOMAIN Presented
  BY <1>1 DEF TimeServer, Resolver
<1>3. CASE PairStarts(i)
  <2>1. CASE thread' = [thread EXCEPT ![i].pc = "doh"]
    <3> DEFINE r == [thread[i] EXCEPT !.pc = "doh"]
    <3>1. thread' = [thread EXCEPT ![i] = r]
      BY <2>1
    <3>2. r.pc = "doh" /\ r.found = thread[i].found /\ r.hop = thread[i].hop
      BY <1>1 DEF Thread
    <3>3. thread[i].found = <<>> /\ thread[i].hop = 1
      BY <1>1, <1>3 DEF PairStarts, LegsOK
    <3> HIDE DEF r
    <3>4. LegsOK(i, r)
      BY <3>2, <3>3 DEF LegsOK
    <3> QED BY <3>1, <3>4
  <2>2. CASE thread' = [thread EXCEPT ![i] = Failed]
    BY <2>2, FailedLegs
  <2> QED BY <1>3, <2>1, <2>2 DEF PairStarts
<1>4. CASE DohAnswers(i)
  <2>1. PICK chain \in Presented[pairs[i].resolver.name], n \in 1..MaxAnswers :
          thread' = [thread EXCEPT ![i] = NextType(
            [record(thread[i], chain) EXCEPT
               !.found = @ \o [j \in 1..n |-> FamilyOf(thread[i].qtype)]])]
    BY <1>4 DEF DohAnswers
  <2>2. chain \in Chains /\ n \in Nat
    BY <1>2, PeersAssumption, TimeAssumption
  <2> DEFINE more == [j \in 1..n |-> FamilyOf(thread[i].qtype)]
             r == record(thread[i], chain)
             t == [r EXCEPT !.found = @ \o more]
  <2>3. more \in Seq(Families)
    BY <2>2 DEF FamilyOf, Families
  <2>4. r \in Thread /\ r.pc = "doh" /\ r.hop = thread[i].hop /\ r.chains = thread[i].chains \union {chain}
    BY <1>1, <1>4, <2>2 DEF DohAnswers, record, Thread
  <2> HIDE DEF more, r
  <2>5. t \in Thread /\ t.pc = "doh" /\ t.hop = r.hop /\ t.chains = r.chains
    <3>1. r.found \o more \in Seq(Families)
      BY <2>3, <2>4 DEF Thread
    <3> QED BY <2>4, <3>1 DEF Thread
  <2> HIDE DEF t
  <2>6. LegsOK(i, t)
    <3>1. Met(t, pairs[i].resolver.name)
      BY <2>1, <2>4, <2>5 DEF Met
    <3>2. thread[i].hop = 2 => Met(t, pairs[i].server.name)
      BY <1>1, <1>4, <2>4, <2>5 DEF DohAnswers, LegsOK, Met
    <3> QED BY <2>4, <2>5, <3>1, <3>2 DEF LegsOK
  <2>7. LegsOK(i, NextType(t))
    BY <2>5, <2>6, <2>4, NextTypeLegs
  <2> QED BY <2>1, <2>7 DEF t, r, more
<1>5. CASE DohFails(i)
  <2> DEFINE r == [thread[i] EXCEPT !.try = @ + 1]
  <2>1. thread[i].pc = "doh" /\ (thread' = [thread EXCEPT ![i] = r] \/ thread' = [thread EXCEPT ![i] = NextType(thread[i])])
    BY <1>5 DEF DohFails
  <2>2. r.pc = thread[i].pc /\ r.found = thread[i].found /\ r.hop = thread[i].hop /\ r.chains = thread[i].chains
    BY <1>1 DEF Thread
  <2> HIDE DEF r
  <2>3. LegsOK(i, r)
    BY <1>1, <2>2 DEF LegsOK, Met
  <2>4. LegsOK(i, NextType(thread[i]))
    BY <1>1, <2>1, NextTypeLegs
  <2> QED BY <2>1, <2>3, <2>4
<1>6. CASE KeyEstablished(i)
  <2> DEFINE t == thread[i]
             keyed(chain) == [record(t, chain) EXCEPT !.key = t.found[t.try]]
             next(chain, redirect) ==
                CASE redirect = "none" ->
                       [keyed(chain) EXCEPT !.pc = "ntp", !.target = t.found[t.try]]
                  [] redirect \in Families ->
                       [keyed(chain) EXCEPT !.pc = "ntp", !.target = redirect]
                  [] redirect = "name" ->
                       [keyed(chain) EXCEPT !.pc = "doh", !.hop = 2, !.qtype = "A",
                                            !.try = 1, !.found = <<>>]
  <2>1. PICK chain \in Presented[pairs[i].server.name], redirect \in Redirects[pairs[i].server.name] :
          thread' = [thread EXCEPT ![i] = next(chain, redirect)]
    BY <1>6 DEF KeyEstablished
  <2>2. redirect \in Families \union {"none", "name"}
    BY <1>1, PeersAssumption DEF TimeServer
  <2>3. Met(t, pairs[i].resolver.name)
    BY <1>1, <1>6 DEF KeyEstablished, LegsOK
  <2>4. next(chain, redirect).chains = t.chains \union {chain} /\ next(chain, redirect).pc # "start"
    <3>1. keyed(chain).chains = t.chains \union {chain} /\ DOMAIN keyed(chain) = DOMAIN NewThread
      BY <1>1 DEF record, Thread, NewThread
    <3> HIDE DEF t, keyed
    <3>2. CASE redirect = "none"
      BY <3>1, <3>2 DEF NewThread
    <3>3. CASE redirect \in Families
      BY <3>1, <3>3 DEF Families, NewThread
    <3>4. CASE redirect = "name"
      BY <3>1, <3>4 DEF Families, NewThread
    <3> QED BY <2>2, <3>2, <3>3, <3>4
  <2> HIDE DEF next
  <2>5. Met(next(chain, redirect), pairs[i].resolver.name) /\ Met(next(chain, redirect), pairs[i].server.name)
    BY <2>1, <2>3, <2>4 DEF Met
  <2>6. LegsOK(i, next(chain, redirect))
    BY <2>4, <2>5 DEF LegsOK
  <2> QED BY <2>1, <2>6
<1>7. CASE KeyFails(i)
  <2> DEFINE r == [thread[i] EXCEPT !.try = @ + 1]
  <2>1. thread[i].pc = "ke" /\ (thread' = [thread EXCEPT ![i] = r] \/ thread' = [thread EXCEPT ![i] = Failed])
    BY <1>7 DEF KeyFails
  <2>2. r.pc = "ke" /\ r.chains = thread[i].chains
    BY <1>1, <2>1 DEF Thread
  <2> HIDE DEF r
  <2>3. LegsOK(i, r)
    BY <1>1, <2>1, <2>2 DEF LegsOK, Met
  <2> QED BY <2>1, <2>3, FailedLegs
<1>8. CASE TimeArrives(i)
  <2>1. PICK seconds \in Reports(pairs[i].server.operator) :
          thread' = [thread EXCEPT ![i] =
             IF ~refuse_below_floor(seconds) /\ accept(thread[i].chains, seconds)
             THEN Answered(thread[i].chains, seconds) ELSE Failed]
    BY <1>8 DEF TimeArrives
  <2> DEFINE r == Answered(thread[i].chains, seconds)
  <2>2. r.pc = "ok" /\ r.chains = thread[i].chains
    BY DEF Answered, NewThread
  <2> HIDE DEF r
  <2>3. LegsOK(i, r)
    BY <1>1, <1>8, <2>2 DEF TimeArrives, LegsOK, Met
  <2> QED BY <2>1, <2>3, FailedLegs DEF r
<1>9. CASE TimeFails(i)
  BY <1>9, FailedLegs DEF TimeFails
<1> QED BY <1>3, <1>4, <1>5, <1>6, <1>7, <1>8, <1>9 DEF AskPair

(***************************************************************************)
(* No reading without a chain of the resolver and one of the server,       *)
(* through any retry, address family or redirect (ask_pair, Deferred).     *)
(***************************************************************************)
THEOREM EveryReadingHasBothLegs == Spec => []BothLegsVouch
<1>1. Init => Legs
  <2>1. Init => DOMAIN pairs = {}
    BY DEF Init
  <2> QED BY <2>1 DEF Legs
<1>2. Inv /\ Legs /\ [Next]_vars => Legs'
  <2> SUFFICES ASSUME Inv, Legs, [Next]_vars PROVE Legs'
    OBVIOUS
  <2>0. ASSUME NEW how, Ends(how) PROVE Legs'
    <3>1. DOMAIN pairs' = {}
      BY <2>0 DEF Ends
    <3> QED BY <3>1 DEF Legs
  <2>1. CASE RunStarts
    <3>1. PICK chosen \in choose(options) :
            pairs' = chosen /\ thread' = [i \in DOMAIN chosen |-> NewThread]
      BY <2>1 DEF RunStarts
    <3>2. \A i \in DOMAIN pairs' : thread'[i] = NewThread
      BY <3>1
    <3>3. NewThread.pc = "start" /\ NewThread.found = <<>> /\ NewThread.hop = 1
      BY FreshThreads DEF NewThread
    <3> QED BY <3>2, <3>3 DEF Legs, LegsOK
  <2>2. CASE PairSteps
    <3>1. PICK i \in DOMAIN pairs : AskPair(i)
      BY <2>2 DEF PairSteps
    <3>2. PICK t : thread' = [thread EXCEPT ![i] = t] /\ LegsOK(i, t)
      BY <3>1, PairLegs
    <3>3. pairs' = pairs /\ DOMAIN thread = DOMAIN pairs
      BY <2>2 DEF PairSteps, run_vars, Inv, TypeOK
    <3>4. \A j \in DOMAIN pairs : LegsOK(j, thread'[j])
      BY <3>2, <3>3 DEF Legs
    <3> QED BY <3>3, <3>4 DEF Legs, LegsOK
  <2>3. CASE UNCHANGED <<pairs, thread>>
    BY <2>3 DEF Legs, LegsOK
  <2>4. CASE RunRefused \/ TrustStoreEmpty \/ set_clock \/ RunKilled \/ Reboot
    BY <2>0, <2>4 DEF RunRefused, TrustStoreEmpty, set_clock, RunKilled, Reboot
  <2>5. CASE AnswersCollected \/ ClockJudged
    BY <2>0, <2>3, <2>5 DEF AnswersCollected, ClockJudged
  <2>6. CASE Tick \/ ChronySteps \/ UNCHANGED vars
    BY <2>3, <2>6 DEF Tick, ChronySteps, run_vars, vars
  <2> QED BY <2>1, <2>2, <2>4, <2>5, <2>6 DEF Next, Run
<1>3. Inv /\ Legs => BothLegsVouch
  BY DEF Inv, TypeOK, Legs, LegsOK, Met, BothLegsVouch
<1> QED BY <1>1, <1>2, <1>3, InvAlways, PTL DEF Spec
=============================================================================
