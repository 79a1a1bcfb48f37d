---------------------------- MODULE ServicesProofs ----------------------------
(***************************************************************************)
(* The safety of the host's services, for every set of backups, every      *)
(* closure and every setting the modules accept: what restic reads is at   *)
(* rest, the watchdog's bounds, one goal per nix process and a store that  *)
(* never fills up.                                                         *)
(***************************************************************************)
EXTENDS Backups, Connectivity, Upgrade, FiniteSetTheorems, NaturalsInduction, WellFoundedInduction, TLAPS

(***************************************************************************)
(* Least-number principle, stated for a set.                               *)
(***************************************************************************)
LEMMA LeastNatural ==
  ASSUME NEW T \in SUBSET Nat, T # {}
  PROVE  \E m \in T : \A n \in T : m <= n
<1> DEFINE less == OpToRel(<, Nat)
<1>1. \A n, m \in Nat : n < m => <<n, m>> \in less
  BY DEF OpToRel
<1>2. IsWellFoundedOn(less, Nat)
  BY NatLessThanWellFounded
<1> HIDE DEF less
<1>3. PICK m \in T : \A n \in T : ~(<<n, m>> \in less)
  BY <1>2, WFMin
<1>4. \A n \in T : ~(n < m)
  BY <1>1, <1>3
<1> QED BY <1>4

-----------------------------------------------------------------------------
(***************************************************************************)
(* Backups.                                                                *)
(***************************************************************************)
BackupsTypeOK ==
  /\ unit \in Down \union Up \union {"deactivating", "stop-post"}
  /\ pending \in BOOLEAN /\ intruded \in BOOLEAN
  /\ backup \in [Names -> {"idle", "prepare", "hold", "read", "maintain"}]
  /\ hold \in [Names -> {"inactive", "starting", "active"}]
  /\ restart \in {"inactive", "running", "waiting"}

\* restic reads under a hold, and the quiesce unit is up under every hold.
Held ==
  \A b \in Names :
    /\ backup[b] = "read" => hold[b] = "active"
    /\ hold[b] = "active" => quiesce = "active"

\* From the call that stops the retry to the one that starts it again, there
\* is no retry.
NoRetry ==
  quiesce \in {"sample", "sample sub", "sample jobs", "join", "joining", "stop", "stopping", "active", "release"}
    => restart = "inactive"

\* While the quiesce unit is up, nothing but a hand starts the unit.
AtRest == quiesce = "active" => (unit \in Down /\ ~pending) \/ intruded

BackupsInv == BackupsTypeOK /\ Held /\ NoRetry /\ AtRest

LEMMA BackupsInvInit == BackupsInit => BackupsInv
<1> SUFFICES ASSUME BackupsInit PROVE BackupsInv
  OBVIOUS
<1>1. BackupsTypeOK
  BY DEF BackupsInit, Booted, BackupsTypeOK, Up, Down
<1>2. Held
  BY DEF BackupsInit, Booted, Held
<1>3. NoRetry /\ AtRest
  BY DEF BackupsInit, Booted, NoRetry, AtRest
<1> QED BY <1>1, <1>2, <1>3 DEF BackupsInv

LEMMA BackupsInvNext == BackupsInv /\ [BackupsNext]_backups_vars => BackupsInv'
<1> SUFFICES ASSUME BackupsInv, [BackupsNext]_backups_vars PROVE BackupsInv'
  OBVIOUS
<1> USE DEF BackupsInv
<1> USE DEF unit_vars, script_vars, ghosts, budgets
<1>1. CASE UNCHANGED backups_vars
  BY <1>1 DEF backups_vars, BackupsTypeOK, Held, NoRetry, AtRest
<1>2. ASSUME NEW b \in Names, BackupStarts(b) \/ BackupStep(b) PROVE BackupsInv'
  <2>1. UNCHANGED <<unit, pending, quiesce, restart, intruded>>
    BY <1>2 DEF BackupStarts, BackupStep, StartHold, StartReading, StopHold, BackupEnds, HoldStarts, HoldReleased
  <2>2. NoRetry' /\ AtRest'
    BY <2>1 DEF NoRetry, AtRest
  <2>3. BackupsTypeOK' /\ Held'
    <3>1. CASE BackupStarts(b)
      BY <3>1, <2>1 DEF BackupStarts, BackupsTypeOK, Held
    <3>2. CASE StartHold(b)
      BY <3>2, <2>1 DEF StartHold, BackupsTypeOK, Held
    <3>3. CASE StartReading(b)
      BY <3>3, <2>1 DEF StartReading, BackupsTypeOK, Held
    <3>4. CASE StopHold(b)
      BY <3>4, <2>1 DEF StopHold, BackupsTypeOK, Held
    <3>5. CASE BackupEnds(b)
      BY <3>5, <2>1 DEF BackupEnds, BackupsTypeOK, Held
    <3>6. CASE HoldStarts(b)
      BY <3>6, <2>1 DEF HoldStarts, BackupsTypeOK, Held
    <3>7. CASE HoldReleased(b)
      BY <3>7, <2>1 DEF HoldReleased, BackupsTypeOK, Held
    <3> QED BY <1>2, <3>1, <3>2, <3>3, <3>4, <3>5, <3>6, <3>7 DEF BackupStep
  <2> QED BY <2>2, <2>3
<1>3. CASE Script
  <2>1. CASE QuiesceStarts \/ TakeOver \/ StopRetry \/ SampleState \/ SampleSubState \/ SampleJobs \/ Joined
    <3>1. UNCHANGED <<unit, pending, intruded, backup, hold>> /\ quiesce # "active" /\ quiesce' # "active"
      BY <2>1 DEF QuiesceStarts, TakeOver, StopRetry, SampleState, SampleSubState, SampleJobs, Joined
    <3>2. BackupsTypeOK' /\ NoRetry'
      BY <2>1, <3>1 DEF QuiesceStarts, TakeOver, StopRetry, SampleState, SampleSubState, SampleJobs, Joined, BackupsTypeOK, NoRetry
    <3> QED BY <3>1, <3>2 DEF Held, AtRest
  <2>2. CASE Join \/ StopUnit \/ StartAgain
    <3>1. UNCHANGED <<intruded, backup, hold>> /\ quiesce # "active" /\ quiesce' # "active"
      BY <2>2 DEF Join, StopUnit, StartAgain
    <3>2. NoRetry'
      BY <2>2 DEF Join, StopUnit, StartAgain, NoRetry
    <3>3. BackupsTypeOK'
      BY <2>2, <3>1 DEF Join, StopUnit, StopJob, StartAgain, BackupsTypeOK, Up, Down
    <3> QED BY <3>1, <3>2, <3>3 DEF Held, AtRest
  <2>3. CASE UnitStopped
    BY <2>3 DEF UnitStopped, BackupsTypeOK, Held, NoRetry, AtRest
  <2>4. CASE QuiesceFails
    BY <2>4 DEF QuiesceFails, BackupsTypeOK, Held, NoRetry, AtRest
  <2>5. CASE Release
    BY <2>5 DEF Release, BackupsTypeOK, Held, NoRetry, AtRest
  <2>6. CASE QuiesceStops
    BY <2>6 DEF QuiesceStops, BackupsTypeOK, Held, NoRetry, AtRest
  <2> QED BY <1>3, <2>1, <2>2, <2>3, <2>4, <2>5, <2>6 DEF Script
<1>4. CASE RestartEnds \/ RestartAgain \/ UnitBegins \/ UnitStarted \/ UnitFails \/ StopPostEnds \/ RestartSec \/ UnitDown
  <2>1. UNCHANGED <<intruded, backup, hold, quiesce>>
    BY <1>4 DEF RestartEnds, RestartAgain, UnitBegins, UnitStarted, UnitFails, StopPostEnds, RestartSec, UnitDown
  <2>2. Held'
    BY <2>1 DEF Held
  <2>3. BackupsTypeOK'
    BY <1>4, <2>1 DEF RestartEnds, RestartAgain, UnitBegins, UnitStarted, UnitFails, StopPostEnds, RestartSec, UnitDown,
      BackupsTypeOK, Up, Down
  <2>4. NoRetry'
    BY <1>4, <2>1 DEF RestartEnds, RestartAgain, UnitBegins, UnitStarted, UnitFails, StopPostEnds, RestartSec, UnitDown, NoRetry
  <2>5. AtRest'
    BY <1>4, <2>1 DEF RestartEnds, RestartAgain, UnitBegins, UnitStarted, UnitFails, StopPostEnds, RestartSec, UnitDown,
      NoRetry, AtRest, Down
  <2> QED BY <2>2, <2>3, <2>4, <2>5
<1>5. CASE ByHand
  <2>1. UNCHANGED <<backup, hold, quiesce>>
    BY <1>5 DEF ByHand
  <2>2. Held' /\ NoRetry'
    BY <1>5, <2>1 DEF ByHand, Held, NoRetry
  <2>3. BackupsTypeOK'
    BY <1>5, <2>1 DEF ByHand, StopJob, BackupsTypeOK, Up, Down
  <2>4. AtRest'
    <3> SUFFICES ASSUME quiesce = "active" PROVE (unit' \in Down /\ ~pending') \/ intruded'
      BY <2>1 DEF AtRest
    <3>1. (unit \in Down /\ ~pending) \/ intruded
      BY DEF AtRest
    <3>2. unit # "active" \/ intruded
      BY <3>1 DEF Down
    <3>3. intruded => intruded'
      BY <1>5 DEF ByHand
    <3>4. intruded' \/ UNCHANGED <<unit, pending>> \/ StopJob \/ unit = "active"
      BY <1>5 DEF ByHand
    <3>5. ASSUME StopJob, unit \in Down PROVE unit' \in Down /\ ~pending'
      BY <3>5 DEF StopJob, Down
    <3> QED BY <3>1, <3>2, <3>3, <3>4, <3>5
  <2> QED BY <2>2, <2>3, <2>4
<1>6. CASE HostReboots
  <2>1. BackupsTypeOK'
    BY <1>6 DEF HostReboots, Booted, BackupsTypeOK, Up, Down
  <2>2. Held' /\ NoRetry' /\ AtRest'
    BY <1>6 DEF HostReboots, Booted, Held, NoRetry, AtRest
  <2> QED BY <2>1, <2>2
<1> QED BY <1>1, <1>2, <1>3, <1>4, <1>5, <1>6 DEF BackupsNext

(***************************************************************************)
(* However many backups there are, restic reads the files of a unit that   *)
(* is down and stays down, unless a hand started it under the backup       *)
(* (quiesceStopScript, the hold units).                                    *)
(***************************************************************************)
THEOREM FilesAreAtRest == BackupsSpec => []ReadsAtRest
<1>1. BackupsInv => ReadsAtRest
  BY DEF BackupsInv, Held, AtRest, ReadsAtRest
<1> QED BY <1>1, BackupsInvInit, BackupsInvNext, PTL DEF BackupsSpec
-----------------------------------------------------------------------------
(***************************************************************************)
(* Connectivity.                                                           *)
(***************************************************************************)
Time == Nat \union {Never}

ConnectivityTypeOK ==
  /\ uptime \in Nat /\ due \in Nat /\ sampleAt \in Nat /\ check \in Nat
  /\ has_dig \in BOOLEAN /\ resolves \in BOOLEAN /\ associated \in BOOLEAN
  /\ misses \in Nat
  /\ upAt \in Time /\ brokenAt \in Time /\ workedUntil \in Time
  /\ marker \in Time /\ probe \in Time /\ rebootAt \in Time
  /\ upAt # Never => upAt <= uptime
  /\ brokenAt # Never => brokenAt <= uptime
  /\ workedUntil # Never => workedUntil <= uptime
  /\ probe # Never => probe <= uptime

\* The two stopwatches tell whether names resolve.
Fares == (brokenAt = Never <=> Resolving) /\ (upAt = Never <=> ~Resolving)

\* The timer is armed from the last probe, and a probe is over in time.
Armed ==
  /\ probe # Never => has_dig
  /\ due <= uptime + Cadence
  /\ IF probe = Never THEN uptime <= due
     ELSE /\ uptime <= probe + DigSeconds
          /\ probe + intervalSeconds <= due /\ due <= probe + Cadence

\* The marker is of an answer, so it is older than the outage and the probe.
Marked ==
  marker # Never =>
    /\ marker <= uptime
    /\ brokenAt # Never => marker <= brokenAt
    /\ probe # Never => marker <= probe

\* No probe of an outage was late enough to reboot, so the next is in time.
InTime ==
  has_dig /\ brokenAt # Never =>
    /\ IF probe = Never THEN due <= brokenAt + afterSeconds + Cadence
       ELSE probe <= brokenAt + afterSeconds + Cadence
    /\ uptime - brokenAt <= afterSeconds + Cadence + DigSeconds

\* While names resolve, every probe is answered: the timer runs from the
\* marker, or has done so since before they did.
Answered ==
  has_dig /\ upAt # Never =>
    LET next == IF probe = Never THEN due ELSE probe
    IN  next <= upAt + Cadence \/ (marker # Never /\ next <= marker + Cadence)

\* Names that resolved for long enough have left a marker.
Worked ==
  has_dig /\ workedUntil # Never => marker # Never /\ marker >= workedUntil - Cadence - DigSeconds

\* What a probe takes for the age of the outage has as many failures in it
\* as fit at the slowest cadence.
Paced ==
  has_dig => since(IF probe = Never THEN due ELSE probe, marker) <= (misses + 1) * Cadence

ConnectivityInv ==
  ConnectivityTypeOK /\ Fares /\ Armed /\ Marked /\ InTime /\ Answered /\ Worked /\ Paced

LEMMA ConnectivityConstants ==
  /\ afterSeconds \in Nat /\ intervalSeconds \in Nat /\ accuracySeconds \in Nat
  /\ DigSeconds \in Nat /\ DigSeconds < intervalSeconds
  /\ Cadence = intervalSeconds + accuracySeconds /\ Cadence \in Nat
  /\ Never \notin Nat
  /\ bootGrace \in Nat /\ setupTimeout \in Nat
  /\ samples \in Nat \ {0} /\ sampleInterval \in Nat \ {0}
<1>1. /\ afterSeconds \in Nat /\ intervalSeconds \in Nat /\ accuracySeconds \in Nat
      /\ DigSeconds \in Nat /\ Never \notin Nat
  BY WatchdogAssumption
<1>2. Cadence = intervalSeconds + accuracySeconds /\ Cadence \in Nat
  BY <1>1 DEF Cadence
<1> QED BY <1>1, <1>2, ProbeAssumption, FallbackAssumption

LEMMA ElapsesBounds ==
  ASSUME NEW from \in Nat, NEW d \in Elapses(from)
  PROVE  d \in Nat /\ from + intervalSeconds <= d /\ d <= from + Cadence
BY ConnectivityConstants DEF Elapses

\* A boot starts everything anew.
LEMMA BootInv == ASSUME Boot, resolves' \in BOOLEAN, has_dig' \in BOOLEAN PROVE ConnectivityInv'
<1> USE ConnectivityConstants
<1>1. due' \in Nat /\ due' <= Cadence
  BY ElapsesBounds DEF Boot
<1>0. 0 # Never /\ 0 \in Time /\ Never \in Time
  BY DEF Time
<1>2. ConnectivityTypeOK' /\ Fares'
  <2>1. ConnectivityTypeOK'
    <3>1. uptime' = 0 /\ check' = 1 /\ sampleAt' = bootGrace /\ ~associated'
      BY DEF Boot
    <3>2. sampleAt' \in Nat /\ due' \in Nat
      BY <1>1, <3>1
    <3>3. resolves' \in BOOLEAN /\ associated' \in BOOLEAN /\ has_dig' \in BOOLEAN /\ misses' \in Nat
      BY DEF Boot
    <3>4. upAt' = Never /\ brokenAt' = 0 /\ workedUntil' = Never /\ marker' = Never /\ probe' = Never /\ rebootAt' = Never
      BY DEF Boot, Emptied
    <3> QED BY <1>0, <3>1, <3>2, <3>3, <3>4 DEF ConnectivityTypeOK
  <2>2. upAt' = Never /\ brokenAt' = 0 /\ ~associated'
    BY DEF Boot
  <2> QED BY <1>0, <2>1, <2>2, Zenon DEF Fares, Resolving
<1>3. Armed' /\ Marked' /\ InTime' /\ Answered' /\ Worked'
  BY <1>1 DEF Boot, Armed, Marked, InTime, Answered, Worked, Emptied
<1>4. Paced'
  BY <1>1 DEF Boot, Emptied, Paced, since
<1> QED BY <1>2, <1>3, <1>4 DEF ConnectivityInv

\* Whatever happens to the names, the watchdog's account of it is right.
LEMMA FareInv ==
  ASSUME ConnectivityInv, NEW now \in BOOLEAN, Fare(now), now <=> Resolving',
         associated' \in BOOLEAN, resolves' \in BOOLEAN, sampleAt' \in Nat,
         UNCHANGED <<has_dig, uptime, marker, probe, due, misses, check, rebootAt>>
  PROVE  ConnectivityInv'
<1> USE ConnectivityConstants
<1> USE DEF ConnectivityInv
<1>0. Paced'
  BY DEF Paced, since
<1>1. CASE now
  <2>1. /\ upAt' = IF upAt = Never THEN uptime ELSE upAt
        /\ brokenAt' = Never /\ workedUntil' = workedUntil
    BY <1>1 DEF Fare
  <2>2. ConnectivityTypeOK' /\ Fares'
    BY <1>1, <2>1 DEF ConnectivityTypeOK, Time, Fares
  <2>3. Armed' /\ Marked' /\ InTime' /\ Worked'
    BY <2>1 DEF Armed, Marked, InTime, Worked
  <2>4. Answered'
    BY <2>1 DEF Answered, Armed, ConnectivityTypeOK, Time
  <2> QED BY <1>0, <2>2, <2>3, <2>4
<1>2. CASE ~now
  <2>1. /\ upAt' = Never
        /\ brokenAt' = IF brokenAt = Never THEN uptime ELSE brokenAt
        /\ workedUntil' = IF upAt # Never /\ uptime - upAt > Cadence + DigSeconds
                          THEN uptime ELSE workedUntil
    BY <1>2 DEF Fare
  <2>2. ConnectivityTypeOK' /\ Fares'
    BY <1>2, <2>1 DEF ConnectivityTypeOK, Time, Fares
  <2>3. Armed' /\ Answered'
    BY <2>1 DEF Armed, Answered
  <2>4. Marked'
    BY <2>1 DEF Marked, ConnectivityTypeOK, Time
  <2>5. InTime'
    BY <2>1 DEF InTime, Armed, ConnectivityTypeOK, Time
  <2>6. Worked'
    BY <2>1 DEF Worked, Answered, Armed, ConnectivityTypeOK, Time
  <2> QED BY <1>0, <2>2, <2>3, <2>4, <2>5, <2>6
<1> QED BY <1>1, <1>2

LEMMA ConnectivityInvInit == ConnectivityInit => ConnectivityInv
<1> SUFFICES ASSUME ConnectivityInit PROVE ConnectivityInv
  OBVIOUS
<1> USE ConnectivityConstants
<1>1. due \in Nat /\ due <= Cadence
  BY ElapsesBounds DEF ConnectivityInit
<1>0. 0 # Never /\ 0 \in Time /\ Never \in Time
  BY DEF Time
<1>2. ConnectivityTypeOK /\ Fares
  <2>1. ConnectivityTypeOK
    <3>1. uptime = 0 /\ check = 1 /\ sampleAt = bootGrace
      BY DEF ConnectivityInit
    <3>2. sampleAt \in Nat /\ due \in Nat
      BY <1>1, <3>1
    <3>3. resolves \in BOOLEAN /\ associated \in BOOLEAN /\ has_dig \in BOOLEAN /\ misses \in Nat
      BY DEF ConnectivityInit
    <3>4. upAt = Never /\ brokenAt = 0 /\ workedUntil = Never /\ marker = Never /\ probe = Never /\ rebootAt = Never
      BY DEF ConnectivityInit
    <3> QED BY <1>0, <3>1, <3>2, <3>3, <3>4 DEF ConnectivityTypeOK
  <2>2. upAt = Never /\ brokenAt = 0 /\ ~associated
    BY DEF ConnectivityInit
  <2> QED BY <1>0, <2>1, <2>2, Zenon DEF Fares, Resolving
<1>3. Armed /\ Marked /\ InTime /\ Answered /\ Worked
  BY <1>1 DEF ConnectivityInit, Armed, Marked, InTime, Answered, Worked
<1>4. Paced
  BY <1>1 DEF ConnectivityInit, Paced, since
<1> QED BY <1>2, <1>3, <1>4 DEF ConnectivityInv

LEMMA ConnectivityInvNext ==
  ConnectivityInv /\ [ConnectivityNext]_connectivity_vars => ConnectivityInv'
<1> SUFFICES ASSUME ConnectivityInv, [ConnectivityNext]_connectivity_vars PROVE ConnectivityInv'
  OBVIOUS
<1> USE ConnectivityConstants
<1> USE DEF ConnectivityInv, names, watchdog_vars, fallback_vars
<1>1. CASE UNCHANGED connectivity_vars
  <2>1. ConnectivityTypeOK' /\ Fares' /\ Armed' /\ Marked' /\ InTime'
    BY <1>1 DEF connectivity_vars, ConnectivityTypeOK, Fares, Resolving, Armed, Marked, InTime
  <2>2. Answered' /\ Worked' /\ Paced'
    BY <1>1 DEF connectivity_vars, Answered, Worked, Paced, since
  <2> QED BY <2>1, <2>2
<1>2. CASE PowerCut \/ WatchdogReboots \/ SetupReboots
  <2>1. Boot /\ resolves' \in BOOLEAN /\ has_dig' \in BOOLEAN
    BY <1>2 DEF PowerCut, WatchdogReboots, SetupReboots, ConnectivityTypeOK
  <2> QED BY <2>1, BootInv
<1>3. CASE Joins \/ Loses \/ Beyond
  <2>1. UNCHANGED <<has_dig, uptime, marker, probe, due, misses, check, sampleAt, rebootAt>>
    BY <1>3 DEF Joins, Loses, Beyond
  <2>2. sampleAt' \in Nat
    BY <2>1 DEF ConnectivityTypeOK
  <2>3. CASE Joins
    BY <2>1, <2>2, <2>3, FareInv DEF Joins, Resolving, ConnectivityTypeOK
  <2>4. CASE Loses
    BY <2>1, <2>2, <2>4, FareInv DEF Loses, Resolving, ConnectivityTypeOK
  <2>5. CASE Beyond
    BY <2>1, <2>2, <2>5, FareInv DEF Beyond, Resolving, ConnectivityTypeOK
  <2> QED BY <1>3, <2>3, <2>4, <2>5
<1>4. CASE Tick
  <2>1. ConnectivityTypeOK' /\ Fares'
    BY <1>4 DEF Tick, ConnectivityTypeOK, Time, Fares, Resolving
  <2>2. Armed'
    BY <1>4 DEF Tick, Armed, ConnectivityTypeOK, Time
  <2>3. Marked' /\ Answered' /\ Worked'
    BY <1>4 DEF Tick, Marked, Answered, Worked, ConnectivityTypeOK, Time
  <2>4. InTime'
    BY <1>4 DEF Tick, InTime, Armed, ConnectivityTypeOK, Time
  <2>5. Paced'
    BY <1>4 DEF Tick, Paced, since
  <2> QED BY <2>1, <2>2, <2>3, <2>4, <2>5
<1>10. CASE ProbeDecidesNothing
  <2>1. due' \in Nat /\ uptime + intervalSeconds <= due' /\ due' <= uptime + Cadence
    BY <1>10, ElapsesBounds DEF ProbeDecidesNothing, ConnectivityTypeOK
  <2>2. ConnectivityTypeOK' /\ Fares' /\ Armed'
    BY <1>10, <2>1 DEF ProbeDecidesNothing, ConnectivityTypeOK, Time, Fares, Resolving, Armed
  <2>3. Marked' /\ InTime' /\ Answered' /\ Worked' /\ Paced'
    BY <1>10 DEF ProbeDecidesNothing, Marked, InTime, Answered, Worked, Paced
  <2> QED BY <2>2, <2>3
<1>5. CASE ProbeStarts
  <2>1. due' \in Nat /\ uptime + intervalSeconds <= due' /\ due' <= uptime + Cadence
    BY <1>5, ElapsesBounds DEF ProbeStarts, ConnectivityTypeOK
  <2>2. ConnectivityTypeOK' /\ Fares' /\ Armed'
    BY <1>5, <2>1 DEF ProbeStarts, ConnectivityTypeOK, Time, Fares, Resolving, Armed
  <2>3. Marked' /\ Worked'
    BY <1>5 DEF ProbeStarts, Marked, Worked, ConnectivityTypeOK
  <2>5. Paced'
    BY <1>5 DEF ProbeStarts, Paced, ConnectivityTypeOK, Time
  <2>4. InTime' /\ Answered'
    BY <1>5 DEF ProbeStarts, InTime, Answered, ConnectivityTypeOK
  <2> QED BY <2>2, <2>3, <2>4, <2>5
<1>6. CASE ProbeAnswered
  <2>1. ConnectivityTypeOK' /\ Fares'
    BY <1>6 DEF ProbeAnswered, ConnectivityTypeOK, Time, Fares, Resolving
  <2>2. Armed'
    BY <1>6 DEF ProbeAnswered, Armed, ConnectivityTypeOK, Time
  <2>6. Paced'
    BY <1>6 DEF ProbeAnswered, Paced, since, Armed, ConnectivityTypeOK, Time
  <2>3. brokenAt' = Never /\ InTime'
    BY <1>6 DEF ProbeAnswered, Fares, InTime
  <2>4. Marked' /\ Answered'
    BY <1>6, <2>3 DEF ProbeAnswered, Marked, Answered, Armed, ConnectivityTypeOK, Time
  <2>5. Worked'
    BY <1>6 DEF ProbeAnswered, Worked, Marked, ConnectivityTypeOK, Time
  <2> QED BY <2>1, <2>2, <2>3, <2>4, <2>5, <2>6
<1>7. CASE ProbeFails
  <2>1. ConnectivityTypeOK' /\ Fares'
    BY <1>7 DEF ProbeFails, ConnectivityTypeOK, Time, Fares, Resolving
  <2>2. Armed' /\ Worked'
    BY <1>7 DEF ProbeFails, Armed, Worked, ConnectivityTypeOK, Time
  <2>6. Paced'
    <3>1. probe' = Never /\ misses' = misses + 1 /\ UNCHANGED <<has_dig, due, marker>> /\ has_dig
      BY <1>7 DEF ProbeFails, Armed
    <3>2. since(due, marker) <= since(probe, marker) + Cadence
      BY <1>7 DEF ProbeFails, since, Armed, ConnectivityTypeOK, Time
    <3>3. (misses + 1) * Cadence + Cadence = (misses + 1 + 1) * Cadence
      BY DEF ConnectivityTypeOK
    <3>4. since(probe, marker) <= (misses + 1) * Cadence
      BY <1>7, <3>1 DEF ProbeFails, Paced
    <3>5. since(due, marker) \in Int /\ since(probe, marker) \in Int /\ (misses + 1) * Cadence \in Int
      BY <1>7 DEF ProbeFails, since, ConnectivityTypeOK, Time
    <3>6. since(due, marker) <= (misses + 1 + 1) * Cadence
      BY <3>2, <3>3, <3>4, <3>5
    <3> QED BY <3>1, <3>6 DEF Paced, since
  <2>3. upAt' = Never /\ Answered' /\ Marked'
    BY <1>7 DEF ProbeFails, Fares, Answered, Marked
  <2>4. brokenAt # Never => probe <= brokenAt + afterSeconds
    BY <1>7 DEF ProbeFails, since, Marked, ConnectivityTypeOK, Time
  <2>5. InTime'
    BY <1>7, <2>4 DEF ProbeFails, InTime, Armed, ConnectivityTypeOK, Time
  <2> QED BY <2>1, <2>2, <2>3, <2>5, <2>6
<1>8. CASE CheckSamples \/ SetupProfile \/ SetupPortal \/ SetupFails \/ Submit
  <2>1. UNCHANGED <<has_dig, uptime, resolves, associated, upAt, brokenAt, workedUntil, marker, probe, due, misses>>
    BY <1>8 DEF CheckSamples, SetupProfile, SetupPortal, SetupFails, Submit
  <2>2. Fares' /\ Armed' /\ Marked' /\ InTime' /\ Answered' /\ Worked' /\ Paced'
    BY <2>1 DEF Fares, Resolving, Armed, Marked, InTime, Answered, Worked, Paced, since
  <2>3. check' \in Nat
    BY <1>8 DEF CheckSamples, SetupProfile, SetupPortal, SetupFails, Submit, ConnectivityTypeOK
  <2>4. sampleAt' \in Nat
    BY <1>8 DEF CheckSamples, SetupProfile, SetupPortal, SetupFails, Submit, ConnectivityTypeOK, ProfileSleep
  <2>5. rebootAt' = rebootAt \/ rebootAt' = uptime + 2 \/ rebootAt' = uptime + setupTimeout
    BY <1>8 DEF CheckSamples, SetupProfile, SetupPortal, SetupFails, Submit, PortalSleep
  <2>6. rebootAt' \in Time
    BY <2>5 DEF ConnectivityTypeOK, Time
  <2> QED BY <2>1, <2>2, <2>3, <2>4, <2>6 DEF ConnectivityTypeOK
<1>9. CASE SetupMode
  <2>1. sampleAt' \in Nat
    BY <1>9 DEF SetupMode, ModeSleep, ConnectivityTypeOK
  <2> QED BY <1>9, <2>1, FareInv DEF SetupMode, Resolving, ConnectivityTypeOK
<1> QED BY <1>1, <1>2, <1>3, <1>4, <1>5, <1>6, <1>7, <1>8, <1>9, <1>10 DEF ConnectivityNext

LEMMA ConnectivityInvAlways == ConnectivitySpec => []ConnectivityInv
BY ConnectivityInvInit, ConnectivityInvNext, PTL DEF ConnectivitySpec

(***************************************************************************)
(* A host on which nothing resolves reboots within the fuse, one cadence   *)
(* and one dig, for every setting the assertions admit and whatever the    *)
(* fallback does meanwhile (intervalSeconds).                              *)
(***************************************************************************)
THEOREM OutagesAreEnded == ConnectivitySpec => []OutageEndsInReboot
<1>1. ConnectivityInv => OutageEndsInReboot
  BY DEF ConnectivityInv, InTime, OutageEndsInReboot
<1> QED BY <1>1, ConnectivityInvAlways, PTL

(***************************************************************************)
(* The watchdog reboots no host that worked, nor before as many probes in  *)
(* a row failed as fill the fuse at the slowest cadence, for every setting *)
(* the assertions admit (afterSeconds, `since`).  Two, then, where the     *)
(* cadence is below the fuse, which the assertions do not ask for.         *)
(***************************************************************************)
THEOREM NoRebootIsRash == ConnectivitySpec => RebootsAreEarned
<1> DEFINE Earned ==
      WatchdogReboots =>
        /\ uptime >= afterSeconds
        /\ (misses + 1) * Cadence >= afterSeconds
        /\ workedUntil # Never => uptime - workedUntil >= afterSeconds - Cadence - DigSeconds
<1>1. ConnectivityInv => Earned
  <2> SUFFICES ASSUME ConnectivityInv, WatchdogReboots PROVE Earned
    OBVIOUS
  <2> USE ConnectivityConstants
  <2>1. probe # Never /\ probe \in Nat /\ ~Resolving /\ since(probe, marker) >= afterSeconds
    BY DEF WatchdogReboots, ConnectivityInv, ConnectivityTypeOK, Time
  <2>2. has_dig
    BY <2>1 DEF ConnectivityInv, Armed
  <2>3. uptime >= afterSeconds
    BY <2>1 DEF since, ConnectivityInv, ConnectivityTypeOK, Time
  <2>4. (misses + 1) * Cadence >= afterSeconds
    <3>1. since(probe, marker) <= (misses + 1) * Cadence
      BY <2>1, <2>2 DEF ConnectivityInv, Paced
    <3>2. since(probe, marker) \in Int /\ (misses + 1) * Cadence \in Int
      BY <2>1 DEF since, ConnectivityInv, ConnectivityTypeOK, Time
    <3> QED BY <2>1, <3>1, <3>2
  <2>5. ASSUME workedUntil # Never PROVE uptime - workedUntil >= afterSeconds - Cadence - DigSeconds
    BY <2>1, <2>2, <2>5 DEF since, ConnectivityInv, Worked, ConnectivityTypeOK, Time
  <2> QED BY <2>3, <2>4, <2>5
<1> HIDE DEF Earned
<1>2. ConnectivityInv /\ [ConnectivityNext]_connectivity_vars => [Earned]_connectivity_vars
  BY <1>1
<1>3. ConnectivitySpec => [][Earned]_connectivity_vars
  BY <1>2, ConnectivityInvAlways, PTL DEF ConnectivitySpec
<1> QED BY <1>3 DEF RebootsAreEarned, Earned
-----------------------------------------------------------------------------
(***************************************************************************)
(* Upgrade: the space.                                                     *)
(***************************************************************************)
LEMMA LeastMember ==
  ASSUME NEW T \in SUBSET Nat, T # {}
  PROVE  Min(T) \in T /\ \A n \in T : Min(T) <= n
<1>1. \E m \in T : \A n \in T : m <= n
  BY LeastNatural
<1> QED BY <1>1 DEF Min

LEMMA SpaceIsFinite == IsFiniteSet(SpaceOf(Derivations))
<1> DEFINE spaces == {Space(d) : d \in Derivations}
<1>1. IsFiniteSet(spaces)
  <2> DEFINE f == [d \in Derivations |-> Space(d)]
  <2>1. f \in Surjection(Derivations, spaces)
    BY DEF Surjection
  <2> HIDE DEF f, spaces
  <2> QED BY <2>1, SpaceAssumption, FS_Surjection
<1>2. ASSUME NEW d \in Derivations PROVE IsFiniteSet(Space(d))
  <2>1. IsFiniteSet({d})
    BY FS_Singleton
  <2>2. IsFiniteSet(1..Size[d])
    BY SpaceAssumption, FS_Interval
  <2> QED BY <2>1, <2>2, FS_Product DEF Space
<1>3. \A T \in spaces : IsFiniteSet(T)
  BY <1>2
<1> HIDE DEF spaces
<1>4. IsFiniteSet(UNION spaces)
  BY <1>1, <1>3, FS_UNION
<1> QED BY <1>4 DEF SpaceOf, spaces

\* What is on the disk can be counted.
LEMMA SpaceCounts ==
  ASSUME NEW S \in SUBSET SpaceOf(Derivations)
  PROVE  IsFiniteSet(S) /\ Cardinality(S) \in Nat
<1>1. IsFiniteSet(S)
  BY SpaceIsFinite, FS_Subset
<1> QED BY <1>1, FS_CardinalityType

LEMMA SpaceShrinks ==
  ASSUME NEW S \in SUBSET SpaceOf(Derivations), NEW T \in SUBSET S
  PROVE  Cardinality(T) <= Cardinality(S) /\ T \in SUBSET SpaceOf(Derivations)
BY SpaceCounts, FS_Subset

LEMMA SpaceGrows ==
  ASSUME NEW S \in SUBSET SpaceOf(Derivations), NEW d \in Derivations, NEW n \in 1..Size[d],
         <<d, n>> \notin S
  PROVE  /\ Cardinality(S \union {<<d, n>>}) = Cardinality(S) + 1
         /\ S \union {<<d, n>>} \in SUBSET SpaceOf(Derivations)
<1>1. <<d, n>> \in Space(d)
  BY DEF Space
<1>2. <<d, n>> \in SpaceOf(Derivations)
  BY <1>1 DEF SpaceOf
<1>3. IsFiniteSet(S)
  BY SpaceCounts
<1> QED BY <1>2, <1>3, FS_AddElement

LEMMA UpgradeConstants ==
  /\ Rate \in Nat /\ Teardown \in Nat /\ min_free \in Nat /\ max_read_failures \in Nat \ {0}
  /\ max_read_failures * Rate \in Nat
  /\ min_free > max_read_failures * Rate + Teardown
  /\ Disk \in Nat
BY FloorAssumption, SpaceAssumption

\* Looks in a row that failed, short of the tolerated number.
LEMMA LooksBound ==
  ASSUME NEW n \in Nat, n < max_read_failures
  PROVE  /\ n * Rate \in Nat /\ (n + 1) * Rate = n * Rate + Rate
         /\ n * Rate + Rate <= max_read_failures * Rate
<1> USE UpgradeConstants
<1>1. PICK k \in Nat : max_read_failures = (n + 1) + k
  <2>1. max_read_failures - (n + 1) \in Nat /\ max_read_failures = (n + 1) + (max_read_failures - (n + 1))
    OBVIOUS
  <2> QED BY <2>1
<1>2. max_read_failures * Rate = (n + 1) * Rate + k * Rate
  BY <1>1
<1>3. k * Rate \in Nat /\ n * Rate \in Nat /\ (n + 1) * Rate = n * Rate + Rate
  OBVIOUS
<1> QED BY <1>2, <1>3

(***************************************************************************)
(* What nix plans to build.                                                *)
(***************************************************************************)
LEMMA ClosureFacts ==
  ASSUME NEW v \in Versions
  PROVE  LET c == Closure[v]
         IN  /\ Len(c) \in Nat \ {0} /\ DOMAIN c = 1..Len(c)
             /\ \A i \in DOMAIN c : c[i] \in Derivations
             /\ \A i \in DOMAIN c : Inputs[c[i]] \subseteq {c[j] : j \in 1..(i - 1)}
<1>1. Closure[v] \in Seq(Derivations) /\ Closure[v] # <<>>
  BY ClosureAssumption
<1>2. \A i \in DOMAIN Closure[v] : Inputs[Closure[v][i]] \subseteq {Closure[v][j] : j \in 1..(i - 1)}
  BY ClosureAssumption
<1>3. Len(Closure[v]) \in Nat \ {0} /\ DOMAIN Closure[v] = 1..Len(Closure[v])
  BY <1>1
<1>4. \A i \in DOMAIN Closure[v] : Closure[v][i] \in Derivations
  BY <1>1
<1> QED BY <1>2, <1>3, <1>4, Zenon

LEMMA PlanFacts ==
  ASSUME NEW v \in Versions
  PROVE  LET c == Closure[v]
         IN  /\ c[Len(c)] \in valid => WillBuild(v) = {}
             /\ c[Len(c)] \notin valid => c[Len(c)] \in WillBuild(v)
             /\ \A d \in WillBuild(v) : \A i \in DOMAIN c :
                  c[i] \in Inputs[d] => c[i] \in valid \/ c[i] \in WillBuild(v)
<1> DEFINE c == Closure[v]
           missing == Range(c) \ valid
           IsPlan(S) == /\ c[Len(c)] \in missing => c[Len(c)] \in S
                        /\ \A d \in S : Inputs[d] \intersect missing \subseteq S
<1>1. WillBuild(v) = {d \in missing : \A S \in SUBSET missing : IsPlan(S) => d \in S}
  BY DEF WillBuild
<1>2. \A i \in DOMAIN c : c[i] \in Range(c)
  BY DEF Range
<1>3. Len(c) \in DOMAIN c
  BY ClosureFacts
<1> HIDE DEF missing, c
<1>4. \A i \in DOMAIN c : c[i] \in missing <=> c[i] \notin valid
  BY <1>2 DEF missing
<1>5. ASSUME c[Len(c)] \in valid PROVE WillBuild(v) = {}
  <2>1. {} \in SUBSET missing /\ IsPlan({})
    BY <1>3, <1>4, <1>5
  <2> QED BY <1>1, <2>1
<1>6. ASSUME c[Len(c)] \notin valid PROVE c[Len(c)] \in WillBuild(v)
  BY <1>1, <1>3, <1>4, <1>6
<1>7. ASSUME NEW d \in WillBuild(v), NEW i \in DOMAIN c, c[i] \in Inputs[d], c[i] \notin valid
      PROVE  c[i] \in WillBuild(v)
  <2>1. c[i] \in missing
    BY <1>4, <1>7
  <2>2. ASSUME NEW S \in SUBSET missing, IsPlan(S) PROVE c[i] \in S
    BY <1>1, <1>7, <2>1, <2>2
  <2> QED BY <1>1, <2>1, <2>2
<1> QED BY <1>5, <1>6, <1>7 DEF c
(***************************************************************************)
(* Upgrade: the invariant.                                                 *)
(***************************************************************************)
UpgradeTypeOK ==
  /\ latest \in Versions /\ target \in Versions
  /\ written \in SUBSET SpaceOf(Derivations)
  /\ unseen \in Nat /\ failures \in Nat /\ guard \in BOOLEAN

\* A build belongs to the step of the upgrade that waits for it.
Waited ==
  build # "none" =>
    /\ upgrade = "build" /\ ordered # {}
    /\ build = "built" => drv \in valid

\* No collection begins before the upgrade is over, so that what is there
\* stays there.
NotCollecting ==
  upgrade \notin {"inactive", "queued", "failed", "queued again"} => gc \in {"inactive", "queued"}

\* Whatever of the closure is not there yet is still to be built, before what
\* is built from it.
Planned ==
  LET c == Closure[target]
  IN  upgrade \in {"next", "build", "rebuild"} =>
        /\ ordered \subseteq DOMAIN c
        /\ c[Len(c)] \in valid \/ Len(c) \in ordered
        /\ \A i \in ordered : \A j \in 1..(i - 1) :
             c[j] \in Inputs[c[i]] => c[j] \in valid \/ j \in ordered
        /\ upgrade = "rebuild" => ordered = {}

\* A build has used up no more of the floor than the looks since the last good
\* one, and those after TERM, allow.
Floor ==
  /\ avail > 0
  /\ build = "running" =>
       /\ failures < max_read_failures /\ unseen <= Rate
       /\ avail >= min_free - failures * Rate - unseen
  /\ build = "told to stop" =>
       /\ guard /\ unseen <= Teardown
       /\ avail >= min_free - max_read_failures * Rate - unseen

UpgradeInv == UpgradeTypeOK /\ Waited /\ NotCollecting /\ Planned /\ Floor

LEMMA AvailType ==
  ASSUME UpgradeTypeOK
  PROVE  avail \in Int /\ avail = Disk - Cardinality(written) /\ Cardinality(written) \in Nat
BY UpgradeConstants, SpaceCounts DEF UpgradeTypeOK, avail

\* The derivation that is built next, and what it is built from.
LEMMA NextBuild ==
  ASSUME UpgradeTypeOK, Planned, upgrade \in {"next", "build"}, ordered # {}
  PROVE  /\ drv \in Derivations /\ Min(ordered) \in ordered /\ drv = Closure[target][Min(ordered)]
         /\ Inputs[drv] \subseteq valid
<1> DEFINE c == Closure[target]
           m == Min(ordered)
<1>1. target \in Versions
  BY DEF UpgradeTypeOK
<1>2. /\ Len(c) \in Nat \ {0} /\ DOMAIN c = 1..Len(c)
      /\ \A i \in DOMAIN c : c[i] \in Derivations
      /\ \A i \in DOMAIN c : Inputs[c[i]] \subseteq {c[j] : j \in 1..(i - 1)}
  BY <1>1, ClosureFacts
<1>3. /\ ordered \subseteq DOMAIN c
      /\ \A i \in ordered : \A j \in 1..(i - 1) :
           c[j] \in Inputs[c[i]] => c[j] \in valid \/ j \in ordered
  BY DEF Planned
<1>4. ordered \in SUBSET Nat
  BY <1>2, <1>3
<1>5. m \in ordered /\ \A n \in ordered : m <= n
  BY <1>4, LeastMember
<1>6. drv = c[m]
  BY DEF drv
<1> HIDE DEF c, m
<1>7. m \in DOMAIN c
  BY <1>3, <1>5
<1>8. ASSUME NEW d \in Inputs[c[m]] PROVE d \in valid
  <2>1. PICK j \in 1..(m - 1) : d = c[j]
    BY <1>2, <1>7, <1>8
  <2>2. ~(j \in ordered)
    BY <1>4, <1>5, <2>1
  <2> QED BY <1>3, <1>5, <1>8, <2>1, <2>2
<1> QED BY <1>2, <1>5, <1>6, <1>7, <1>8 DEF c, m

LEMMA UpgradeInvInit == UpgradeInit => UpgradeInv
<1> SUFFICES ASSUME UpgradeInit PROVE UpgradeInv
  OBVIOUS
<1>1. 1 \in Versions
  BY ClosureAssumption, SpaceAssumption
<1>2. Range(Closure[1]) \subseteq Derivations
  BY <1>1, ClosureFacts DEF Range
<1>3. written \in SUBSET SpaceOf(Derivations) /\ written = SpaceOf(Range(Closure[1]))
  BY <1>2 DEF UpgradeInit, SpaceOf
<1>4. UpgradeTypeOK
  BY <1>1, <1>3 DEF UpgradeInit, UpgradeTypeOK
<1>5. avail > 0
  BY <1>3, <1>4, AvailType, UpgradeConstants, SpaceAssumption
<1>6. Waited /\ NotCollecting /\ Planned /\ Floor
  BY <1>5 DEF UpgradeInit, Waited, NotCollecting, Planned, Floor
<1> QED BY <1>4, <1>6 DEF UpgradeInv

LEMMA AvailGrows ==
  ASSUME UpgradeTypeOK, written' \in SUBSET written
  PROVE  avail \in Int /\ avail' \in Int /\ avail' >= avail /\ written' \in SUBSET SpaceOf(Derivations)
<1>1. Cardinality(written') <= Cardinality(written) /\ written' \in SUBSET SpaceOf(Derivations)
  BY SpaceShrinks DEF UpgradeTypeOK
<1>2. Cardinality(written') \in Nat /\ Cardinality(written) \in Nat
  BY <1>1, SpaceCounts DEF UpgradeTypeOK
<1> QED BY <1>1, <1>2, UpgradeConstants DEF avail

LEMMA StaysAbove == ASSUME NEW a \in Int, NEW b \in Int, a > 0, b >= a PROVE b > 0
OBVIOUS

LEMMA AboveTheFloor ==
  ASSUME NEW a \in Int, NEW u \in Nat, u <= Teardown, a >= min_free - max_read_failures * Rate - u
  PROVE  a > 0
BY UpgradeConstants

\* Where no build runs after a step, the floor asks for nothing but space.
LEMMA FloorAtRest ==
  ASSUME UpgradeTypeOK, Floor, written' \in SUBSET written,
         build' \notin {"running", "told to stop"}
  PROVE  Floor'
<1>1. avail > 0 /\ avail' >= avail /\ avail \in Int /\ avail' \in Int
  BY AvailGrows DEF Floor
<1>2. avail' > 0
  BY <1>1, StaysAbove, Zenon
<1> QED BY <1>2 DEF Floor

LEMMA FloorOfRunning ==
  ASSUME build' = "running", NEW n \in Nat, NEW u \in Nat, NEW a \in Int,
         failures' = n, unseen' = u, avail' = a,
         n < max_read_failures, u <= Rate, a >= min_free - n * Rate - u
  PROVE  Floor'
<1>1. n * Rate \in Nat /\ n * Rate + Rate <= max_read_failures * Rate
  BY LooksBound
<1>2. a > 0
  <2>1. min_free - n * Rate - u >= min_free - max_read_failures * Rate
    BY <1>1, UpgradeConstants
  <2> QED BY <1>1, <2>1, UpgradeConstants
<1> QED BY <1>2 DEF Floor

LEMMA FloorOfStopping ==
  ASSUME build' = "told to stop", guard', NEW u \in Nat, NEW a \in Int,
         unseen' = u, avail' = a,
         u <= Teardown, a >= min_free - max_read_failures * Rate - u
  PROVE  Floor'
<1>1. a > 0
  BY AboveTheFloor, Zenon
<1> QED BY <1>1 DEF Floor

\* A step that leaves the build and the disk alone leaves the floor alone.
LEMMA FloorUnchanged ==
  ASSUME Floor, UNCHANGED <<written, build, unseen, failures, guard>> PROVE Floor'
BY DEF Floor, avail

\* A plan that is not refused is the whole plan.
LEMMA PlanRead ==
  ASSUME UpgradeTypeOK, PlanBuilds, upgrade' # "failed"
  PROVE  upgrade' = "next" /\ ordered' = InOrder(Closure[target], WillBuild(target))
<1> DEFINE W == WillBuild(target)
<1>1. PICK header \in BOOLEAN, lines \in SUBSET W :
        /\ (header /\ lines = W) \/ header # (lines = W)
        /\ IF plan_parse_refuses(header, lines, W) THEN upgrade' = "failed"
           ELSE upgrade' = "next" /\ ordered' = InOrder(Closure[target], lines)
  BY DEF PlanBuilds
<1>2. IsFiniteSet(W)
  <2>1. W \subseteq Range(Closure[target])
    BY DEF WillBuild
  <2>2. Range(Closure[target]) \subseteq Derivations
    BY ClosureFacts DEF UpgradeTypeOK, Range
  <2>3. IsFiniteSet(Derivations)
    BY SpaceAssumption
  <2> HIDE DEF W
  <2> QED BY <2>1, <2>2, <2>3, FS_Subset
<1> HIDE DEF W
<1>3. Cardinality(lines) = IF header THEN Cardinality(W) ELSE 0
  BY <1>1 DEF plan_parse_refuses
<1>4. lines = W
  <2>1. CASE header
    BY <1>1, <1>2, <1>3, <2>1, FS_Subset
  <2>2. CASE ~header
    BY <1>1, <2>2
  <2> QED BY <2>1, <2>2
<1>5. upgrade' = "next" /\ ordered' = InOrder(Closure[target], lines)
  BY <1>1
<1> QED BY <1>4, <1>5 DEF W

LEMMA UpgradeInvNext == UpgradeInv /\ [UpgradeNext]_upgrade_vars => UpgradeInv'
<1> SUFFICES ASSUME UpgradeInv, [UpgradeNext]_upgrade_vars PROVE UpgradeInv'
  OBVIOUS
<1> USE DEF UpgradeInv, prebuild_vars, build_vars, store_vars
<1>1. CASE UNCHANGED upgrade_vars
  BY <1>1, FloorUnchanged DEF upgrade_vars, UpgradeTypeOK, Waited, drv, NotCollecting, Planned
<1>2. CASE GcTimer \/ GcCondition \/ GcStarts \/ Publish
  <2>1. /\ UNCHANGED <<valid, written, upgrade, target, ordered, build, unseen, failures, guard>>
        /\ latest' \in Versions
    BY <1>2, ClosureAssumption DEF GcTimer, GcCondition, GcStarts, Publish, UpgradeTypeOK
  <2>2. UpgradeTypeOK' /\ Waited' /\ Planned' /\ Floor'
    BY <2>1, FloorUnchanged DEF UpgradeTypeOK, Waited, drv, Planned
  <2>3. NotCollecting'
    BY <1>2, <2>1 DEF GcTimer, GcCondition, GcStarts, Publish, NotCollecting, skip_if_upgrading, ActiveState
  <2> QED BY <2>2, <2>3
<1>3. CASE GcEnds
  <2>1. upgrade \in {"inactive", "queued", "failed", "queued again"}
    BY <1>3 DEF GcEnds, NotCollecting
  <2>2. build = "none"
    BY <2>1 DEF Waited
  <2>3. /\ written' \in SUBSET written
        /\ UNCHANGED <<latest, upgrade, target, ordered, build, unseen, failures, guard>>
    BY <1>3 DEF GcEnds
  <2>4. UpgradeTypeOK' /\ Floor'
    BY <2>2, <2>3, AvailGrows, FloorAtRest DEF UpgradeTypeOK
  <2> QED BY <2>1, <2>2, <2>3, <2>4 DEF Waited, NotCollecting, Planned
<1>4. CASE UpgradeTimer \/ UpgradeStarts \/ UpgradeFails \/ UpdateLock
  <2>1. /\ UNCHANGED <<latest, valid, written, ordered, build, unseen, failures, guard>>
        /\ upgrade \notin {"build"} /\ upgrade' \notin {"next", "build", "rebuild"}
        /\ target' \in Versions
    BY <1>4 DEF UpgradeTimer, UpgradeStarts, UpgradeFails, UpdateLock, UpgradeTypeOK
  <2>2. UpgradeTypeOK' /\ Waited' /\ Planned' /\ Floor'
    BY <2>1, FloorUnchanged DEF UpgradeTypeOK, Waited, Planned
  <2>3. NotCollecting'
    BY <1>4 DEF UpgradeTimer, UpgradeStarts, UpgradeFails, UpdateLock, NotCollecting
  <2> QED BY <2>2, <2>3
<1>5. CASE PlanBuilds
  <2>1. /\ UNCHANGED <<latest, valid, written, target, gc, build, unseen, failures, guard>>
        /\ upgrade = "plan"
    BY <1>5 DEF PlanBuilds
  <2>0. \/ upgrade' = "failed"
        \/ upgrade' = "next" /\ ordered' = InOrder(Closure[target], WillBuild(target))
    BY <1>5, PlanRead
  <2>2. UpgradeTypeOK' /\ Waited' /\ NotCollecting' /\ Floor'
    BY <2>0, <2>1, FloorUnchanged DEF UpgradeTypeOK, Waited, NotCollecting
  <2>3. CASE upgrade' = "failed"
    BY <2>2, <2>3 DEF Planned
  <2>4. CASE upgrade' = "next" /\ ordered' = InOrder(Closure[target], WillBuild(target))
    <3> DEFINE c == Closure[target]
    <3>1. target \in Versions
      BY DEF UpgradeTypeOK
    <3>2. Len(c) \in Nat \ {0} /\ DOMAIN c = 1..Len(c)
      BY <3>1, ClosureFacts
    <3>3. /\ c[Len(c)] \notin valid => c[Len(c)] \in WillBuild(target)
          /\ \A d \in WillBuild(target) : \A i \in DOMAIN c :
               c[i] \in Inputs[d] => c[i] \in valid \/ c[i] \in WillBuild(target)
      BY <3>1, PlanFacts
    <3> HIDE DEF c
    <3>4. ordered' = {i \in DOMAIN c : c[i] \in WillBuild(target)}
      BY <2>4 DEF InOrder, c
    <3>5. c[Len(c)] \in valid \/ Len(c) \in ordered'
      BY <3>2, <3>3, <3>4
    <3>6. ASSUME NEW i \in ordered', NEW j \in 1..(i - 1), c[j] \in Inputs[c[i]]
          PROVE  c[j] \in valid \/ j \in ordered'
      <4>1. i \in DOMAIN c /\ c[i] \in WillBuild(target)
        BY <3>4
      <4>2. j \in DOMAIN c
        BY <3>2, <4>1
      <4> QED BY <3>3, <3>4, <3>6, <4>1, <4>2
    <3>7. Planned'
      BY <2>1, <2>4, <3>4, <3>5, <3>6 DEF Planned, c
    <3> QED BY <2>2, <3>7
  <2> QED BY <2>0, <2>3, <2>4
<1>6. CASE BuildStarts
  <2>1. UNCHANGED <<latest, valid, gc, target, ordered>> /\ upgrade = "next" /\ ordered # {}
    BY <1>6 DEF BuildStarts
  <2>2. drv' = drv
    BY <2>1 DEF drv
  <2>3. CASE avail >= min_free
    <3>1. /\ upgrade' = "build" /\ build' = "running"
          /\ unseen' = 0 /\ failures' = 0 /\ guard' = FALSE /\ written' \in SUBSET written
      BY <1>6, <2>3 DEF BuildStarts
    <3>2. avail' >= min_free /\ avail' \in Int /\ written' \in SUBSET SpaceOf(Derivations)
      BY <2>3, <3>1, AvailGrows, UpgradeConstants
    <3>3. UpgradeTypeOK' /\ Waited' /\ NotCollecting' /\ Planned'
      BY <2>1, <3>1, <3>2 DEF UpgradeTypeOK, Waited, NotCollecting, Planned
    <3>4. Floor'
      <4>1. 0 < max_read_failures /\ 0 <= Rate /\ avail' >= min_free - 0 * Rate - 0
        BY <3>2, UpgradeConstants
      <4> QED BY <3>1, <3>2, <4>1, FloorOfRunning
    <3> QED BY <3>3, <3>4
  <2>4. CASE ~(avail >= min_free)
    <3>1. upgrade' = "failed" /\ UNCHANGED <<build, unseen, failures, guard, written>>
      BY <1>6, <2>4 DEF BuildStarts
    <3> QED BY <2>1, <3>1, FloorUnchanged DEF UpgradeTypeOK, Waited, NotCollecting, Planned
  <2> QED BY <2>3, <2>4
<1>7. CASE BuildWrites
  <2>1. /\ UNCHANGED <<latest, valid, gc, upgrade, target, ordered, build, failures, guard>>
        /\ build \in {"running", "told to stop"}
        /\ unseen < (IF build = "running" THEN Rate ELSE Teardown)
        /\ unseen' = unseen + 1
    BY <1>7 DEF BuildWrites
  <2>2. upgrade = "build" /\ ordered # {} /\ drv' = drv
    BY <2>1 DEF Waited, drv
  <2>3. drv \in Derivations
    BY <2>2, NextBuild
  <2>4. PICK n \in 1..Size[drv] : <<drv, n>> \notin written /\ written' = written \union {<<drv, n>>}
    BY <1>7 DEF BuildWrites
  <2>5. Cardinality(written') = Cardinality(written) + 1 /\ written' \in SUBSET SpaceOf(Derivations)
    BY <2>3, <2>4, SpaceGrows DEF UpgradeTypeOK
  <2>6. avail \in Int /\ avail' = avail - 1
    BY <2>5, AvailType, UpgradeConstants DEF avail
  <2>7. UpgradeTypeOK' /\ Waited' /\ NotCollecting' /\ Planned'
    <3>1. UpgradeTypeOK'
      <4>1. unseen' \in Nat
        <5>1. unseen \in Nat /\ unseen' = unseen + 1
          BY <2>1, Zenon DEF UpgradeTypeOK
        <5> QED BY <5>1
      <4> QED BY <2>1, <2>5, <4>1, Zenon DEF UpgradeTypeOK
    <3>2. Waited' /\ NotCollecting'
      BY <2>1, <2>2 DEF Waited, NotCollecting
    <3>3. Planned'
      BY <2>1 DEF Planned
    <3> QED BY <3>1, <3>2, <3>3
  <2>8. Floor'
    <3>1. CASE build = "running"
      <4>1. failures * Rate \in Nat /\ failures * Rate + Rate <= max_read_failures * Rate
        BY <3>1, LooksBound DEF Floor, UpgradeTypeOK
      <4>2. /\ failures < max_read_failures /\ unseen + 1 <= Rate
            /\ avail - 1 >= min_free - failures * Rate - (unseen + 1)
        BY <2>1, <2>6, <3>1, <4>1, UpgradeConstants DEF Floor, UpgradeTypeOK
      <4>3. failures \in Nat /\ unseen + 1 \in Nat /\ avail - 1 \in Int
        BY <2>6 DEF UpgradeTypeOK
      <4> QED BY <2>1, <2>6, <3>1, <4>2, <4>3, FloorOfRunning
    <3>2. CASE build = "told to stop"
      <4>1. unseen \in Nat /\ unseen + 1 <= Teardown
        <5>1. unseen \in Nat
          BY DEF UpgradeTypeOK
        <5>2. unseen < Teardown
          BY <2>1, <3>2
        <5> QED BY <5>1, <5>2, UpgradeConstants
      <4>2. guard /\ avail >= min_free - max_read_failures * Rate - unseen
        BY <3>2 DEF Floor
      <4>3. avail - 1 >= min_free - max_read_failures * Rate - (unseen + 1)
        BY <2>6, <4>1, <4>2, UpgradeConstants
      <4>4. unseen + 1 \in Nat /\ avail - 1 \in Int
        BY <2>6, <4>1
      <4> QED BY <2>1, <2>6, <3>2, <4>1, <4>2, <4>3, <4>4, FloorOfStopping
    <3> QED BY <2>1, <3>1, <3>2
  <2> QED BY <2>7, <2>8
<1>8. CASE BuildSucceeds
  <2>1. /\ UNCHANGED <<latest, written, gc, upgrade, target, ordered, unseen, failures, guard>>
        /\ build \in {"running", "told to stop"} /\ build' = "built"
        /\ valid' = valid \union {drv}
    BY <1>8 DEF BuildSucceeds
  <2>2. drv' = drv
    BY <2>1 DEF drv
  <2>3. UpgradeTypeOK' /\ Waited' /\ NotCollecting'
    BY <2>1, <2>2 DEF UpgradeTypeOK, Waited, NotCollecting
  <2>4. Planned'
    BY <2>1 DEF Planned
  <2>5. Floor'
    BY <2>1, FloorAtRest
  <2> QED BY <2>3, <2>4, <2>5
<1>9. CASE BuildFails
  <2>1. /\ UNCHANGED <<latest, valid, gc, upgrade, target, ordered, unseen, failures, guard>>
        /\ build \in {"running", "told to stop"} /\ build' = "failed"
        /\ written' \in SUBSET written
    BY <1>9 DEF BuildFails
  <2>2. UpgradeTypeOK' /\ Floor'
    BY <2>1, AvailGrows, FloorAtRest DEF UpgradeTypeOK
  <2> QED BY <2>1, <2>2 DEF Waited, NotCollecting, Planned
<1>10. CASE Look
  <2>1. /\ UNCHANGED <<latest, valid, written, gc, upgrade, target, ordered>>
        /\ upgrade = "build" /\ ~guard
        /\ build' = build \/ (build = "running" /\ build' = "told to stop")
        /\ unseen' = 0 /\ guard' \in BOOLEAN
    BY <1>10 DEF Look, Unreadable, Terminate, UpgradeTypeOK
  <2>2. failures' \in {0, failures + 1}
    BY <1>10 DEF Look, Unreadable
  <2>3. drv' = drv /\ avail' = avail /\ avail \in Int
    BY <2>1, AvailType DEF drv, avail
  <2>4. UpgradeTypeOK' /\ Waited' /\ NotCollecting' /\ Planned'
    <3>1. UpgradeTypeOK'
      <4>1. unseen' \in Nat /\ failures' \in Nat
        <5>1. failures \in Nat /\ unseen' = 0
          BY <2>1, Zenon DEF UpgradeTypeOK
        <5> QED BY <2>2, <5>1
      <4> QED BY <2>1, <4>1, Zenon DEF UpgradeTypeOK
    <3>2. Waited' /\ NotCollecting'
      BY <2>1, <2>3 DEF Waited, NotCollecting
    <3>3. Planned'
      BY <2>1 DEF Planned
    <3> QED BY <3>1, <3>2, <3>3
  <2>5. Floor'
    <3>1. CASE build # "running"
      <4>1. build' = build /\ build # "told to stop"
        BY <2>1, <3>1 DEF Floor
      <4> QED BY <2>1, <3>1, <4>1, FloorAtRest
    <3>2. CASE build = "running"
      <4>1. /\ failures \in Nat /\ failures < max_read_failures /\ unseen \in Nat /\ unseen <= Rate
            /\ avail >= min_free - failures * Rate - unseen
        BY <3>2 DEF Floor, UpgradeTypeOK
      <4>2. /\ failures * Rate \in Nat /\ (failures + 1) * Rate = failures * Rate + Rate
            /\ failures * Rate + Rate <= max_read_failures * Rate
        BY <4>1, LooksBound
      <4>3. CASE Terminate
        <5>1. build' = "told to stop" /\ guard'
          BY <3>2, <4>3 DEF Terminate
        <5>2. avail >= min_free - max_read_failures * Rate - 0 /\ 0 <= Teardown
          BY <2>3, <4>1, <4>2, UpgradeConstants
        <5> QED BY <2>1, <2>3, <5>1, <5>2, FloorOfStopping
      <4>4. CASE /\ Unreadable /\ ~Terminate
        <5>1. failures' = failures + 1 /\ failures' < max_read_failures /\ build' = "running"
          BY <3>2, <4>4 DEF Unreadable
        <5>2. avail >= min_free - (failures + 1) * Rate - 0 /\ 0 <= Rate /\ failures + 1 \in Nat
          BY <2>3, <4>1, <4>2, UpgradeConstants
        <5> QED BY <2>1, <2>3, <5>1, <5>2, FloorOfRunning
      <4>5. CASE ~Unreadable /\ ~Terminate
        <5>1. failures' = 0 /\ build' = "running" /\ avail >= min_free
          BY <1>10, <2>3, <3>2, <4>5, UpgradeConstants DEF Look
        <5>2. avail >= min_free - 0 * Rate - 0 /\ 0 <= Rate /\ 0 < max_read_failures
          BY <2>3, <5>1, UpgradeConstants
        <5> QED BY <2>1, <2>3, <5>1, <5>2, FloorOfRunning
      <4> QED BY <4>3, <4>4, <4>5
    <3> QED BY <3>1, <3>2
  <2> QED BY <2>4, <2>5
<1>11. CASE BuildJoined
  <2>1. /\ UNCHANGED <<latest, gc, target>> /\ upgrade = "build" /\ build \in {"built", "failed"}
        /\ build' = "none" /\ unseen' = 0 /\ failures' = 0 /\ guard' = FALSE
        /\ written' \in SUBSET written /\ upgrade' \in {"next", "failed"}
    BY <1>11 DEF BuildJoined
  <2>2. UpgradeTypeOK' /\ Floor' /\ Waited'
    BY <2>1, AvailGrows, FloorAtRest DEF UpgradeTypeOK, Waited
  <2>3. NotCollecting'
    BY <2>1 DEF NotCollecting
  <2>4. CASE upgrade' = "failed"
    BY <2>2, <2>3, <2>4 DEF Planned
  <2>5. CASE upgrade' = "next"
    <3>1. /\ build = "built" /\ ordered' = ordered \ {Min(ordered)} /\ UNCHANGED valid
      BY <1>11, <2>5 DEF BuildJoined
    <3>2. ordered # {} /\ Closure[target][Min(ordered)] \in valid
      BY <3>1 DEF Waited, drv
    <3>3. Planned'
      BY <2>1, <2>5, <3>1, <3>2 DEF Planned
    <3> QED BY <2>2, <2>3, <3>3
  <2> QED BY <2>1, <2>4, <2>5
<1>12. CASE AllBuilt
  BY <1>12, FloorUnchanged DEF AllBuilt, UpgradeTypeOK, Waited, NotCollecting, Planned
<1>13. CASE Rebuild
  <2>1. /\ UNCHANGED <<latest, gc, target, ordered, build, unseen, failures, guard>>
        /\ upgrade = "rebuild" /\ upgrade' = "post"
        /\ written' = written \union SpaceOf(WillBuild(target))
    BY <1>13 DEF Rebuild
  <2>2. WillBuild(target) = {}
    BY <2>1, PlanFacts DEF UpgradeTypeOK, Planned
  <2>3. SpaceOf(WillBuild(target)) = {}
    BY <2>2 DEF SpaceOf
  <2>4. written' = written
    BY <2>1, <2>3
  <2> QED BY <2>1, <2>4, FloorUnchanged DEF UpgradeTypeOK, Waited, NotCollecting, Planned
<1>14. CASE Shutdown \/ PowerFails
  <2>1. /\ UNCHANGED <<latest, target, written>> /\ upgrade' = "inactive" /\ build' = "none"
        /\ unseen' = 0 /\ failures' = 0 /\ guard' = FALSE
    BY <1>14 DEF Shutdown, PowerFails, Stopped
  <2> QED BY <2>1, FloorAtRest DEF UpgradeTypeOK, Waited, NotCollecting, Planned
<1>15. CASE RebootIfChanged
  BY <1>15, FloorUnchanged DEF RebootIfChanged, UpgradeTypeOK, Waited, NotCollecting, Planned
<1> QED BY <1>1, <1>2, <1>3, <1>4, <1>5, <1>6, <1>7, <1>8, <1>9, <1>10, <1>11, <1>12, <1>13, <1>14, <1>15
    DEF UpgradeNext, UpgradeStep, Gc

LEMMA UpgradeInvAlways == UpgradeSpec => []UpgradeInv
BY UpgradeInvInit, UpgradeInvNext, PTL DEF UpgradeSpec

(***************************************************************************)
(* For every closure in dependency order, every nix process has one goal,  *)
(* whatever collections, failed nights, plans in a new wording and power   *)
(* faults went before, and no collection runs beside an upgrade            *)
(* (auto-upgrade.nix, nix-settings.nix).                                   *)
(***************************************************************************)
THEOREM EveryBuildHasOneGoal == UpgradeSpec => []OneGoalPerProcess
<1>1. UpgradeInv => OneGoalPerProcess
  <2> SUFFICES ASSUME UpgradeInv PROVE OneGoalPerProcess
    OBVIOUS
  <2>1. ASSUME build = "running" PROVE Inputs[drv] \subseteq valid
    <3>1. upgrade = "build" /\ ordered # {}
      BY <2>1 DEF UpgradeInv, Waited
    <3> QED BY <3>1, NextBuild DEF UpgradeInv
  <2>2. ASSUME upgrade = "rebuild" PROVE WillBuild(target) = {}
    BY <2>2, PlanFacts DEF UpgradeInv, UpgradeTypeOK, Planned
  <2>3. gc = "collecting" => upgrade \in {"inactive", "queued", "failed", "queued again"}
    BY DEF UpgradeInv, NotCollecting
  <2> QED BY <2>1, <2>2, <2>3 DEF OneGoalPerProcess
<1> QED BY <1>1, UpgradeInvAlways, PTL

(***************************************************************************)
(* For every rate of writing that the floor was chosen for, the guard      *)
(* stops a build before the filesystem of the store is full                *)
(* (disk_watchdog, free_bytes).                                            *)
(***************************************************************************)
THEOREM TheStoreHasRoom == UpgradeSpec => []StoreNeverFull
<1>1. UpgradeInv => StoreNeverFull
  BY DEF UpgradeInv, Floor, StoreNeverFull
<1> QED BY <1>1, UpgradeInvAlways, PTL
=============================================================================
