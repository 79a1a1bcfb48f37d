--------------------------- MODULE TimeCorrection ---------------------------
(***************************************************************************)
(* The time-correction service: packages/time-correction/src/main.rs with  *)
(* the control of doh.rs and timeserver.rs, run again and again by the     *)
(* timer of modules/time-sync.nix beside chrony, which steps the same      *)
(* clock.                                                                  *)
(*                                                                         *)
(* One run draws (resolver, server) pairs, asks every pair in a thread of  *)
(* its own, joins the threads, decides, judges the wall clock as it is by  *)
(* then and sets it or stands down.  Every network call of a thread is one *)
(* action; what a thread or `run` computes between two calls touches       *)
(* nothing shared and belongs to the action before it.                     *)
(*                                                                         *)
(* An address is its family: nothing else about an address decides where   *)
(* the control goes.                                                       *)
(***************************************************************************)
EXTENDS Certificates, ClockQuorum, Sequences

CONSTANTS
  OptionSets,     \* the command lines the service is started with
  Presented,      \* name of a resolver or server -> the chains it may send
  Redirects,      \* name of a server -> its NTS-KE server records
  Reachable,      \* the address families this host has a route for
  Honest,         \* the operators whose servers tell the time
  Lies,           \* the timestamps any other operator may report
  Skew,           \* how far off an honest server, or a delayed packet, may be
  Faults,         \* whether calls fail and processes die of themselves
  StartTruth, MaxTruth,  \* the span of real time a behaviour covers
  BootClocks,     \* what the wall clock may read after a boot
  MaxAnswers      \* addresses in one DNS answer

Families == {"v4", "v6"}

ASSUME TimeAssumption ==
  /\ StartTruth \in Int /\ MaxTruth \in Int /\ Skew \in Nat
  /\ Lies \subseteq Int /\ BootClocks \subseteq Int
  /\ Faults \in BOOLEAN /\ MaxAnswers \in Nat

ASSUME PeersAssumption ==
  /\ \A name \in DOMAIN Presented : Presented[name] \subseteq Chains
  /\ \A name \in DOMAIN Redirects : Redirects[name] \subseteq Families \union {"none", "name"}

\* The structs of main.rs.  parse_resolver refuses a resolver without address;
\* given says that there is an --only.
Resolver == [name : DOMAIN Presented, addresses : Seq(Families) \ {<<>>}]
TimeServer == [name : DOMAIN Presented \intersect DOMAIN Redirects, operator : STRING]
Options ==
  [resolvers : Seq(Resolver), servers : Seq(TimeServer), sample : Nat, tolerance : Int,
   floor : Int, given : BOOLEAN, only : Seq(STRING), force : BOOLEAN, dry_run : BOOLEAN]

ASSUME OptionsAssumption == OptionSets \subseteq Options

VARIABLES
  options,   \* the unit's command line, fixed by the host's configuration
  truth,     \* real time
  clock,     \* the wall clock
  phase,     \* where `run` is: idle, asking, judging or setting
  outcome,   \* how the latest run ended, "running" during one
  pairs,     \* the (resolver, server) pairs of the run
  thread,    \* the state of the thread asking each pair
  agreed,    \* what quorum::decide returned
  window,    \* what common_window returned
  started    \* real time when the run began

vars == <<options, truth, clock, phase, outcome, pairs, thread, agreed, window, started>>
run_vars == <<phase, outcome, pairs, agreed, window, started>>

-----------------------------------------------------------------------------
(* The command line: parse_args and choose.                                *)

\* Mutant: servers are told apart by name instead of by organisation.
operators_by_name(servers) == {servers[i].name : i \in DOMAIN servers}

distinct_operators(servers) == {servers[i].operator : i \in DOMAIN servers}

\* The servers --only names, each at its place in the configuration.
Named(o) ==
  [i \in {j \in DOMAIN o.servers : o.servers[j].name \in Range(o.only)} |-> o.servers[i]]

\* parse_args accepts the command line.
parse_args(o) ==
  /\ o.resolvers # <<>> /\ o.servers # <<>>
  /\ o.sample >= 1
  /\ o.sample <= Cardinality(distinct_operators(o.servers))
  /\ o.sample <= Len(o.resolvers)
  /\ o.given =>
       /\ o.only # <<>>
       /\ \A i \in DOMAIN o.only : \E j \in DOMAIN o.servers : o.servers[j].name = o.only[i]
       /\ Cardinality(distinct_operators(Named(o))) >= Len(o.only)
       /\ Len(o.only) <= Len(o.resolvers)

\* quorum::sample: one of the pool for each place, none of them twice.
sample(places, pool) == Injection(places, pool)

\* The first entry with the name of entry i: `find` by name returns it.
FirstNamed(entries, i) ==
  entries[CHOOSE j \in DOMAIN entries :
            /\ entries[j].name = entries[i].name
            /\ \A k \in 1..(j - 1) : entries[k].name # entries[i].name]

\* The servers a run may ask: the ones --only names, or one server of each of
\* `sample` distinct operators.
ChosenServers(o) ==
  IF o.given THEN {Named(o)}
  ELSE {[i \in 1..o.sample |-> o.servers[draw[i]]] :
          draw \in {d \in sample(1..o.sample, DOMAIN o.servers) :
                      IsInjective([i \in 1..o.sample |-> o.servers[d[i]].operator])}}

\* Every list of pairs `choose` can return; none when there are more servers
\* than resolvers.
choose(o) ==
  UNION {{[i \in DOMAIN servers |->
             [server |-> servers[i], resolver |-> FirstNamed(o.resolvers, draw[i])]] :
             draw \in sample(DOMAIN servers, DOMAIN o.resolvers)} :
           servers \in ChosenServers(o)}

-----------------------------------------------------------------------------
(* One thread: ask_pair.                                                   *)

NewThread ==
  [pc |-> "start", hop |-> 1, qtype |-> "A", try |-> 1, found |-> <<>>,
   key |-> "v4", target |-> "v4", chains |-> {}, seconds |-> 0, window |-> {}]

Failed == [NewThread EXCEPT !.pc = "err"]

Answered(chains, seconds) ==
  [NewThread EXCEPT !.pc = "ok", !.chains = chains, !.seconds = seconds,
                    !.window = AcceptedWindow(chains, seconds)]

FamilyOf(qtype) == IF qtype = "A" THEN "v4" ELSE "v6"

\* The redirect target's address: of the family key establishment worked
\* over, or else the first.
SameFamily(found, key) == IF key \in Range(found) THEN key ELSE Head(found)

\* Deferred::record.  The mutant keeps only the latest chain.
record_latest(t, chain) == [t EXCEPT !.chains = {chain}]

record(t, chain) == [t EXCEPT !.chains = @ \union {chain}]

\* The closure `resolve` is done: an empty union fails the pair, an answer to
\* the first lookup is dialled for keys, one to the redirect for the time.
Resolved(t) ==
  IF t.found = <<>> THEN Failed
  ELSE IF t.hop = 1 THEN [t EXCEPT !.pc = "ke", !.try = 1]
  ELSE [t EXCEPT !.pc = "ntp", !.target = SameFamily(t.found, t.key)]

\* Mutant: only A is asked.
OnlyTypeA(t) == Resolved(t)

\* A is asked first, then AAAA, whatever came of A.
NextType(t) ==
  IF t.qtype = "A" THEN [t EXCEPT !.qtype = "AAAA", !.try = 1] ELSE Resolved(t)

\* The host can dial this family, or it cannot.
CanFail(family) == Faults \/ family \notin Reachable

\* Reading /dev/urandom for the query id.
PairStarts(i) ==
  /\ thread[i].pc = "start"
  /\ \/ thread' = [thread EXCEPT ![i].pc = "doh"]
     \/ Faults /\ thread' = [thread EXCEPT ![i] = Failed]

\* doh::resolve over one address of the resolver succeeds: its chain is
\* recorded, its addresses are kept, the remaining resolver addresses are not
\* asked for this type.
DohAnswers(i) ==
  LET t == thread[i]
      resolver == pairs[i].resolver
  IN  /\ t.pc = "doh"
      /\ resolver.addresses[t.try] \in Reachable
      /\ \E chain \in Presented[resolver.name], n \in 1..MaxAnswers :
           /\ PassOne(chain)
           /\ thread' = [thread EXCEPT ![i] = NextType(
                [record(t, chain) EXCEPT !.found = @ \o [j \in 1..n |-> FamilyOf(t.qtype)]])]

\* doh::resolve over one address fails, without recording anything: the next
\* address of the resolver is dialled, or the next type asked.
DohFails(i) ==
  LET t == thread[i]
      resolver == pairs[i].resolver
  IN  /\ t.pc = "doh"
      /\ \/ CanFail(resolver.addresses[t.try])
         \/ \E chain \in Presented[resolver.name] : ~PassOne(chain)
      /\ thread' = [thread EXCEPT ![i] =
           IF t.try < Len(resolver.addresses) THEN [t EXCEPT !.try = @ + 1] ELSE NextType(t)]

\* timeserver::establish at one address succeeds: its chain is recorded and
\* ntp_target says where the time is asked -- at that address, at a literal
\* address, or at a name that is resolved first.
KeyEstablished(i) ==
  LET t == thread[i]
      server == pairs[i].server
      keyed(chain) == [record(t, chain) EXCEPT !.key = t.found[t.try]]
  IN  /\ t.pc = "ke"
      /\ t.found[t.try] \in Reachable
      /\ \E chain \in Presented[server.name], redirect \in Redirects[server.name] :
           /\ PassOne(chain)
           /\ thread' = [thread EXCEPT ![i] =
                CASE redirect = "none" ->
                       [keyed(chain) EXCEPT !.pc = "ntp", !.target = t.found[t.try]]
                  [] redirect \in Families ->
                       [keyed(chain) EXCEPT !.pc = "ntp", !.target = redirect]
                  [] redirect = "name" ->
                       [keyed(chain) EXCEPT !.pc = "doh", !.hop = 2, !.qtype = "A",
                                            !.try = 1, !.found = <<>>]]

\* timeserver::establish at one address fails: the next address is dialled.
KeyFails(i) ==
  LET t == thread[i]
  IN  /\ t.pc = "ke"
      /\ \/ CanFail(t.found[t.try])
         \/ \E chain \in Presented[pairs[i].server.name] : ~PassOne(chain)
      /\ thread' = [thread EXCEPT ![i] =
           IF t.try < Len(t.found) THEN [t EXCEPT !.try = @ + 1] ELSE Failed]

\* What a server may put into an authenticated reply.
Reports(operator) ==
  IF operator \in Honest THEN (truth - Skew)..(truth + Skew) ELSE Lies

refuse_below_floor(seconds) == seconds < options.floor

\* The authenticated reply arrives: the floor first, then pass 2 over every
\* chain recorded on the way.
TimeArrives(i) ==
  LET t == thread[i]
  IN  /\ t.pc = "ntp"
      /\ t.target \in Reachable
      /\ \E seconds \in Reports(pairs[i].server.operator) :
           thread' = [thread EXCEPT ![i] =
             IF ~refuse_below_floor(seconds) /\ accept(t.chains, seconds)
             THEN Answered(t.chains, seconds) ELSE Failed]

\* /dev/urandom, the socket, the wait for a packet or its parsing fails.
TimeFails(i) ==
  /\ thread[i].pc = "ntp"
  /\ CanFail(thread[i].target)
  /\ thread' = [thread EXCEPT ![i] = Failed]

AskPair(i) ==
  \/ PairStarts(i)
  \/ DohAnswers(i) \/ DohFails(i)
  \/ KeyEstablished(i) \/ KeyFails(i)
  \/ TimeArrives(i) \/ TimeFails(i)

-----------------------------------------------------------------------------
(* The main thread: run.                                                   *)

common_window(windows) ==
  IF windows = {} \/ {} \in windows THEN {} ELSE intersect(windows)

needs_setting(at, span) == at \notin span

\* The process ends; everything it knew is gone.
Ends(how) ==
  /\ phase' = "idle" /\ outcome' = how
  /\ pairs' = <<>> /\ thread' = <<>> /\ agreed' = 0 /\ window' = {} /\ started' = 0

\* The timer elapses and the pairs are drawn.
RunStarts ==
  /\ phase = "idle"
  /\ parse_args(options)
  /\ \E chosen \in choose(options) :
       /\ pairs' = chosen
       /\ thread' = [i \in DOMAIN chosen |-> NewThread]
  /\ phase' = "asking" /\ outcome' = "running" /\ started' = truth
  /\ UNCHANGED <<options, truth, clock, agreed, window>>

\* The command line is refused, or there are not enough resolvers for it.
RunRefused ==
  /\ phase = "idle"
  /\ ~parse_args(options) \/ choose(options) = {}
  /\ Ends("refused")
  /\ UNCHANGED <<options, truth, clock>>

\* Verifier::new finds no usable root: no pair is asked.
TrustStoreEmpty ==
  /\ Faults
  /\ phase = "asking"
  /\ \A i \in DOMAIN thread : thread[i] = NewThread
  /\ Ends("failed")
  /\ UNCHANGED <<options, truth, clock>>

PairSteps ==
  /\ phase = "asking"
  /\ \E i \in DOMAIN pairs : AskPair(i)
  /\ UNCHANGED <<options, truth, clock, run_vars>>

\* The threads are joined.  One failed pair fails the run; so does a sample
\* that does not agree.
AnswersCollected ==
  LET readings == [i \in DOMAIN thread |-> thread[i].seconds]
      operator == [i \in DOMAIN thread |-> pairs[i].server.operator]
  IN  /\ phase = "asking"
      /\ \A i \in DOMAIN thread : thread[i].pc \in {"ok", "err"}
      /\ IF /\ \A i \in DOMAIN thread : thread[i].pc = "ok"
            /\ Decidable(readings, operator, options.tolerance)
         THEN /\ agreed' = decide(readings, operator)
              /\ window' = common_window({thread[i].window : i \in DOMAIN thread})
              /\ phase' = "judging"
              /\ UNCHANGED <<outcome, pairs, thread, started>>
         ELSE Ends("failed")
      /\ UNCHANGED <<options, truth, clock>>

\* reason_to_stand_down reads the wall clock as it is now; a dry run reports.
ClockJudged ==
  /\ phase = "judging"
  /\ IF ~options.force /\ ~needs_setting(clock, window) THEN Ends("stood down")
     ELSE IF options.dry_run THEN Ends("dry run")
     ELSE phase' = "setting" /\ UNCHANGED <<outcome, pairs, thread, agreed, window, started>>
  /\ UNCHANGED <<options, truth, clock>>

\* clock_settime, which may be refused.
set_clock ==
  /\ phase = "setting"
  /\ \/ clock' = agreed /\ Ends("set")
     \/ Faults /\ UNCHANGED clock /\ Ends("failed")
  /\ UNCHANGED <<options, truth>>

-----------------------------------------------------------------------------
(* The world around it.                                                    *)

\* A second passes; the wall clock runs at the right rate.
Tick ==
  /\ truth < MaxTruth
  /\ truth' = truth + 1 /\ clock' = clock + 1
  /\ UNCHANGED <<options, thread, run_vars>>

\* chrony has its own sources and steps the clock, at any moment of a run.
ChronySteps ==
  /\ clock # truth
  /\ clock' = truth
  /\ UNCHANGED <<options, truth, thread, run_vars>>

\* TimeoutStartSec expires, or the process is killed.
RunKilled ==
  /\ Faults
  /\ phase # "idle"
  /\ Ends("killed")
  /\ UNCHANGED <<options, truth, clock>>

\* A host without an RTC comes back with whatever clock it booted with.
Reboot ==
  /\ Faults
  /\ Ends("none")
  /\ clock' \in BootClocks
  /\ UNCHANGED <<options, truth>>

-----------------------------------------------------------------------------
Init ==
  /\ options \in OptionSets
  /\ truth = StartTruth
  /\ clock \in BootClocks
  /\ phase = "idle" /\ outcome = "none"
  /\ pairs = <<>> /\ thread = <<>> /\ agreed = 0 /\ window = {} /\ started = 0

Run ==
  \/ RunStarts \/ RunRefused \/ TrustStoreEmpty
  \/ PairSteps \/ AnswersCollected
  \/ ClockJudged \/ set_clock

Next == Run \/ Tick \/ ChronySteps \/ RunKilled \/ Reboot

Spec == Init /\ [][Next]_vars

(***************************************************************************)
(* The timer fires again and again, every network call ends by its         *)
(* timeout, and a thread that can go on does.  Nothing obliges chrony to   *)
(* step, the network to fail or a process to die.                          *)
(***************************************************************************)
FairSpec == Spec /\ WF_vars(Run)
-----------------------------------------------------------------------------
(* Properties.                                                             *)

Thread ==
  [pc : {"start", "doh", "ke", "ntp", "ok", "err"}, hop : {1, 2}, qtype : {"A", "AAAA"},
   try : Nat, found : Seq(Families), key : Families, target : Families,
   chains : SUBSET Chains, seconds : Int, window : SUBSET Instants]

TypeOK ==
  /\ options \in OptionSets
  /\ truth \in Int /\ clock \in Int /\ agreed \in Int /\ started \in Int
  /\ window \subseteq Instants
  /\ phase \in {"idle", "asking", "judging", "setting"}
  /\ outcome \in {"none", "running", "refused", "failed", "killed", "dry run",
                  "stood down", "set"}
  /\ IsFiniteSet(DOMAIN pairs)
  /\ \A i \in DOMAIN pairs : pairs[i] \in [server : TimeServer, resolver : Resolver]
  /\ thread \in [DOMAIN pairs -> Thread]

Operator(i) == pairs[i].server.operator
Near(a, b, distance) == a - b <= distance /\ b - a <= distance
Sets == phase = "setting" /\ outcome' = "set"
StandsDown == phase = "judging" /\ outcome' = "stood down"
DecidesToSet == phase = "judging" /\ phase' = "setting"

(***************************************************************************)
(* The clock is only ever set to a time at or above the build-time floor,  *)
(* within tolerance of a reading of every operator that was asked, and     *)
(* vouched for by every chain gathered for one of the readings             *)
(* (Deferred::accept, quorum::decide, refuse_below_floor).                 *)
(***************************************************************************)
SetsOnlyVouchedTime ==
  [][Sets =>
       /\ clock' >= options.floor
       /\ \A i \in DOMAIN pairs : \E j \in DOMAIN pairs :
            Operator(j) = Operator(i) /\ Near(clock', thread[j].seconds, options.tolerance)
       /\ \E i \in DOMAIN pairs : \A chain \in thread[i].chains : verify_at(chain, clock')]_vars

(***************************************************************************)
(* Pass 2 sees both legs: a reading exists only with a chain of the        *)
(* resolver that gave the address and one of the server that gave the      *)
(* time, whatever was retried or redirected on the way (deferred.rs: "it   *)
(* must be checked against the chains of both legs").                      *)
(***************************************************************************)
BothLegsVouch ==
  \A i \in DOMAIN thread : thread[i].pc = "ok" =>
    /\ thread[i].chains \intersect Presented[pairs[i].resolver.name] # {}
    /\ thread[i].chains \intersect Presented[pairs[i].server.name] # {}

(***************************************************************************)
(* One honest operator among those asked is enough: whatever the others    *)
(* report, the clock is set no further from real time than the tolerance,  *)
(* the honest server's own error and the duration of the run               *)
(* (--sample: "how many would have to be compromised at once to move the   *)
(* clock").                                                                *)
(***************************************************************************)
OneHonestOperatorBoundsTheError ==
  [][Sets /\ (\E i \in DOMAIN pairs : Operator(i) \in Honest) =>
       Near(clock', truth, options.tolerance + Skew + (truth - started))]_vars

(***************************************************************************)
(* Standing down leaves a clock TLS works with: every chain the run met    *)
(* has a path valid at the instant the wall clock shows                    *)
(* (verified_window: "too wide stands down on a clock TLS cannot actually  *)
(* use, and then nothing recovers the host at all").                       *)
(***************************************************************************)
StandsDownOnlyWhereTlsWorks ==
  [][StandsDown =>
       \A i \in DOMAIN pairs : \A chain \in thread[i].chains : verify_at(chain, clock)]_vars

(***************************************************************************)
(* A clock every reading agrees with is left alone, whatever superseded    *)
(* certificates the peers sent beside the path that was used, unless a     *)
(* certificate could not be read (verified_window's filter, and the        *)
(* footgun of spec/features/system/time-correction-details.md).            *)
(***************************************************************************)
HealthyClockLeftAlone ==
  [][DecidesToSet /\ ~options.force /\ (\A i \in DOMAIN pairs : thread[i].seconds = clock) =>
       \E i \in DOMAIN pairs : \E chain \in thread[i].chains : Unreadable(chain)]_vars

(***************************************************************************)
(* A run has as many independent witnesses as --sample, or --only,         *)
(* promises: so many organisations, however many servers they run, and a   *)
(* resolver of its own in front of each answer (parse_args, choose,        *)
(* quorum::sample).                                                        *)
(***************************************************************************)
AsksIndependentWitnesses ==
  /\ phase # "idle" =>
       Cardinality({Operator(i) : i \in DOMAIN pairs}) >=
         IF options.given THEN Len(options.only) ELSE options.sample
  /\ IsInjective([r \in DOMAIN options.resolvers |-> options.resolvers[r].name])
       => IsInjective([i \in DOMAIN pairs |-> pairs[i].resolver.name])

\* Every chain the configured providers send verifies at the wall clock.
TlsWorks ==
  \A name \in DOMAIN Presented : \A chain \in Presented[name] : verify_at(chain, clock)

(***************************************************************************)
(* A host whose clock breaks TLS gets a clock TLS works with again, over   *)
(* whichever address family reaches the providers (ask_pair's fallbacks).  *)
(***************************************************************************)
HostRecovers == ~TlsWorks ~> TlsWorks
=============================================================================
