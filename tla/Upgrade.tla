------------------------------- MODULE Upgrade -------------------------------
(***************************************************************************)
(* modules/auto-upgrade.nix and modules/nix-settings.nix: nixos-upgrade    *)
(* builds a new system one derivation per nix process, with no GC root in  *)
(* between, under a guard of the free space; nix-gc collects before it,    *)
(* weekly and after a boot, unless an upgrade runs.                        *)
(*                                                                         *)
(* What nix and systemd do is external.  Space is counted in what a build  *)
(* writes between two looks of the guard (Rate); a derivation has one      *)
(* output, and nothing can be fetched from a cache.                        *)
(***************************************************************************)
EXTENDS Integers, Sequences, FiniteSets, FiniteSetsExt, Functions

CONSTANTS
  Closure,            \* version -> its derivations, dependencies first
  Inputs,             \* derivation -> the derivations it is built from
  Size,               \* derivation -> the space its output takes
  Disk,               \* the space there is
  Rate,               \* at most this is written between two looks
  Teardown,           \* and this after the client of a build was told to stop
  min_free, max_read_failures,
  MaxFaults           \* bound: what fails of itself, power faults included

Versions == DOMAIN Closure
Derivations == DOMAIN Inputs

ASSUME ClosureAssumption ==
  /\ Versions = 1..Len(Closure)
  /\ \A v \in Versions : Closure[v] \in Seq(Derivations) /\ Closure[v] # <<>>
  /\ \A v \in Versions : \A i \in DOMAIN Closure[v] :
       Inputs[Closure[v][i]] \subseteq {Closure[v][j] : j \in 1..(i - 1)}

\* The units of space that the output of d takes, and those of several.
Space(d) == {d} \X (1..Size[d])
SpaceOf(S) == UNION {Space(d) : d \in S}

\* The system that was installed fits.
ASSUME SpaceAssumption ==
  /\ IsFiniteSet(Derivations) /\ Size \in [Derivations -> Nat]
  /\ Versions # {}
  /\ Disk \in Nat /\ Cardinality(SpaceOf(Range(Closure[1]))) < Disk

\* The floor leaves room for what is written before the guard can react.
ASSUME FloorAssumption ==
  /\ {Rate, Teardown, min_free} \subseteq Nat /\ max_read_failures \in Nat \ {0}
  /\ min_free > max_read_failures * Rate + Teardown

VARIABLES
  latest,     \* the newest version upstream
  profile,    \* the version the next boot takes
  booted,     \* the version that runs
  reboot,     \* never without rebootOnChange; otherwise none or scheduled
  valid,      \* the outputs registered in the store
  written,    \* the units of space taken, by these and by unregistered outputs
  gc,         \* inactive, queued, idle (ExecCondition has passed) or collecting
  upgrade,    \* inactive, queued, update, plan, next, build, rebuild, post,
              \* failed or queued again
  target,     \* the version that was evaluated
  ordered,    \* the places in its closure of what is still to build
  build,      \* the nix process: none, running, told to stop, built or failed
  unseen,     \* what was written since the guard looked, or since TERM
  failures,   \* looks in a row the guard could not read the space
  guard,      \* the file the guard leaves when it has terminated the upgrade
  faults      \* what has failed of itself so far

prebuild_vars == <<target, ordered>>
build_vars == <<build, unseen, failures, guard>>
store_vars == <<valid, written>>
upgrade_vars ==
  <<latest, profile, booted, reboot, store_vars, gc, upgrade, prebuild_vars, build_vars, faults>>

avail == Disk - Cardinality(written)

-----------------------------------------------------------------------------
(***************************************************************************)
(* nix, as the scripts use it.                                             *)
(***************************************************************************)
\* What `nix build` of version v has to build: the system unless it is there,
\* and whatever is missing of what a missing one is built from.
WillBuild(v) ==
  LET c == Closure[v]
      missing == Range(c) \ valid
      IsPlan(S) == /\ c[Len(c)] \in missing => c[Len(c)] \in S
                   /\ \A d \in S : Inputs[d] \intersect missing \subseteq S
  IN  {d \in missing : \A S \in SUBSET missing : IsPlan(S) => d \in S}

\* Something fails of itself.
Fault == faults < MaxFaults /\ faults' = faults + 1

\* What guarded_build is called with.
drv == Closure[target][Min(ordered)]

\* What a collection keeps: the generations, and what a running build uses.
Rooted ==
  Range(Closure[profile]) \union Range(Closure[booted])
    \union (IF build = "running" THEN {drv} \union Inputs[drv] ELSE {})

-----------------------------------------------------------------------------
(***************************************************************************)
(* nix-gc.                                                                 *)
(***************************************************************************)
\* The weekly timer, and the one after a boot.
GcTimer ==
  /\ gc = "inactive"
  /\ gc' = "queued"
  /\ UNCHANGED <<latest, profile, booted, reboot, store_vars, upgrade, prebuild_vars, build_vars, faults>>

\* The ActiveState of nixos-upgrade: a start job that waits changes nothing.
ActiveState ==
  CASE upgrade \in {"inactive", "queued"} -> "inactive"
    [] upgrade \in {"failed", "queued again"} -> "failed"
    [] OTHER -> "activating"

\* Mutant: `systemctl is-active`, which fails for a unit that is activating too.
skip_if_active == FALSE

\* Mutant: a failed upgrade is not an idle one.
skip_if_failed == ActiveState # "inactive"

skip_if_upgrading == ActiveState \notin {"inactive", "failed"}

\* ExecCondition.
GcCondition ==
  /\ gc = "queued"
  /\ gc' = IF skip_if_upgrading THEN "inactive" ELSE "idle"
  /\ UNCHANGED <<latest, profile, booted, reboot, store_vars, upgrade, prebuild_vars, build_vars, faults>>

GcStarts ==
  /\ gc = "idle"
  /\ gc' = "collecting"
  /\ UNCHANGED <<latest, profile, booted, reboot, store_vars, upgrade, prebuild_vars, build_vars, faults>>

\* nix-collect-garbage, which may also fail.
GcEnds ==
  /\ gc = "collecting"
  /\ gc' = "inactive"
  /\ \/ /\ valid' = valid \intersect Rooted
        /\ written' = {w \in written : w[1] \in valid' \/ (build = "running" /\ w[1] = drv)}
        /\ UNCHANGED faults
     \/ Fault /\ UNCHANGED store_vars
  /\ UNCHANGED <<latest, profile, booted, reboot, upgrade, prebuild_vars, build_vars>>

Gc == GcCondition \/ GcStarts \/ GcEnds

-----------------------------------------------------------------------------
(***************************************************************************)
(* nixos-upgrade.  Wants= pulls nix-gc in, After= waits for its job.       *)
(***************************************************************************)
UpgradeTimer ==
  /\ upgrade \in {"inactive", "failed"}
  /\ upgrade' = IF upgrade = "failed" THEN "queued again" ELSE "queued"
  /\ gc' = IF gc = "inactive" THEN "queued" ELSE gc
  /\ UNCHANGED <<latest, profile, booted, reboot, store_vars, prebuild_vars, build_vars, faults>>

UpgradeStarts ==
  /\ upgrade \in {"queued", "queued again"}
  /\ gc = "inactive"
  /\ upgrade' = "update"
  /\ UNCHANGED <<latest, profile, booted, reboot, store_vars, gc, prebuild_vars, build_vars, faults>>

\* A step fails, and with it (errexit) the upgrade.
UpgradeFails ==
  /\ \/ upgrade \in {"update", "plan", "next", "rebuild"}
     \/ upgrade = "post" /\ reboot # "never"
  /\ Fault
  /\ upgrade' = "failed"
  /\ UNCHANGED <<latest, profile, booted, reboot, store_vars, gc, prebuild_vars, build_vars>>

\* `nix flake update`, `nix eval`.
UpdateLock ==
  /\ upgrade = "update"
  /\ target' = latest
  /\ upgrade' = "plan"
  /\ UNCHANGED <<latest, profile, booted, reboot, store_vars, gc, ordered, build_vars, faults>>

\* The closure is in dependency order; the plan picks from it.
InOrder(c, todo) == {i \in DOMAIN c : c[i] \in todo}

\* nixos-upgrade-plan-parse counts the derivations it has read against the
\* number in the header, 0 if it does not know the header.
plan_parse_refuses(header, lines, planned) ==
  Cardinality(lines) # (IF header THEN Cardinality(planned) ELSE 0)

\* The dry run, its parsing and its ordering.  A nix that words its header or
\* some of its lines differently, not both, is refused.
PlanBuilds ==
  /\ upgrade = "plan"
  /\ \E header \in BOOLEAN, lines \in SUBSET WillBuild(target) :
       /\ \/ header /\ lines = WillBuild(target) /\ UNCHANGED faults
          \/ header # (lines = WillBuild(target)) /\ Fault
       /\ IF plan_parse_refuses(header, lines, WillBuild(target))
          THEN upgrade' = "failed" /\ UNCHANGED ordered
          ELSE upgrade' = "next" /\ ordered' = InOrder(Closure[target], lines)
  /\ UNCHANGED <<latest, profile, booted, reboot, store_vars, gc, target, build_vars>>

-----------------------------------------------------------------------------
(***************************************************************************)
(* guarded_build, with disk_watchdog beside it.                            *)
(***************************************************************************)
\* There is room, and the build is started; nix first deletes what an earlier
\* one has left there.  A look that cannot read the space, or finds too
\* little, fails the upgrade.
BuildStarts ==
  /\ upgrade = "next" /\ ordered # {}
  /\ IF avail >= min_free
     THEN /\ upgrade' = "build" /\ build' = "running"
          /\ unseen' = 0 /\ failures' = 0 /\ guard' = FALSE
          /\ written' = written \ Space(drv)
     ELSE upgrade' = "failed" /\ UNCHANGED <<build_vars, written>>
  /\ UNCHANGED <<latest, profile, booted, reboot, valid, gc, prebuild_vars, faults>>

\* The builder, a child of the daemon, writes; after TERM only for a while.
BuildWrites ==
  /\ build \in {"running", "told to stop"}
  /\ avail > 0
  /\ unseen < (IF build = "running" THEN Rate ELSE Teardown)
  /\ \E n \in 1..Size[drv] :
       /\ <<drv, n>> \notin written /\ \A k \in 1..(n - 1) : <<drv, k>> \in written
       /\ written' = written \union {<<drv, n>>}
  /\ unseen' = unseen + 1
  /\ UNCHANGED <<latest, profile, booted, reboot, valid, gc, upgrade, prebuild_vars, build, failures, guard, faults>>

\* The output is complete and registered.
BuildSucceeds ==
  /\ build \in {"running", "told to stop"}
  /\ Space(drv) \subseteq written
  /\ valid' = valid \union {drv}
  /\ build' = "built"
  /\ UNCHANGED <<latest, profile, booted, reboot, written, gc, upgrade, prebuild_vars, unseen, failures, guard, faults>>

\* nix deletes the output of a build that failed, not that of an interrupted one.
BuildFails ==
  /\ \/ /\ build = "running"
        /\ Fault
        /\ written' = written \ Space(drv)
     \/ /\ build = "told to stop"
        /\ UNCHANGED <<written, faults>>
  /\ build' = "failed"
  /\ UNCHANGED <<latest, profile, booted, reboot, valid, gc, upgrade, prebuild_vars, unseen, failures, guard>>

\* TERM, which a build that is over no longer hears.
Terminate ==
  /\ guard' = TRUE
  /\ build' = IF build = "running" THEN "told to stop" ELSE build
  /\ unseen' = 0

\* Mutant: the watchdog lives with a space it cannot read.
KeepTrying ==
  /\ Fault
  /\ failures' = 0
  /\ unseen' = 0
  /\ UNCHANGED <<guard, build>>

\* A look that cannot read the space.
Unreadable ==
  /\ Fault
  /\ failures' = failures + 1
  /\ IF failures' < max_read_failures THEN unseen' = 0 /\ UNCHANGED <<guard, build>>
     ELSE Terminate

\* The watchdog wakes.  The build may be over by then, as long as the script
\* has not killed the watchdog yet.
Look ==
  /\ upgrade = "build" /\ ~guard
  /\ \/ Unreadable
     \/ /\ failures' = 0
        /\ IF avail < min_free THEN Terminate ELSE unseen' = 0 /\ UNCHANGED <<guard, build>>
        /\ UNCHANGED faults
  /\ UNCHANGED <<latest, profile, booted, reboot, store_vars, gc, upgrade, prebuild_vars>>

\* `wait` has returned and the watchdog is gone.  If it had terminated the
\* build, whatever is at the output's path and not rooted is deleted; that the
\* deletion fails is ignored.
BuildJoined ==
  /\ upgrade = "build" /\ build \in {"built", "failed"}
  /\ build' = "none" /\ unseen' = 0 /\ failures' = 0 /\ guard' = FALSE
  /\ IF guard
     THEN /\ upgrade' = "failed"
          /\ \/ valid' = valid \ {drv} /\ written' = written \ Space(drv)
             \/ UNCHANGED store_vars
          /\ UNCHANGED ordered
     ELSE /\ upgrade' = IF build = "built" THEN "next" ELSE "failed"
          /\ ordered' = IF build = "built" THEN ordered \ {Min(ordered)} ELSE ordered
          /\ UNCHANGED store_vars
  /\ UNCHANGED <<latest, profile, booted, reboot, gc, target, faults>>

-----------------------------------------------------------------------------
(***************************************************************************)
(* nixos-rebuild boot, and the reboot if anything changed.                 *)
(***************************************************************************)
AllBuilt ==
  /\ upgrade = "next" /\ ordered = {}
  /\ upgrade' = "rebuild"
  /\ UNCHANGED <<latest, profile, booted, reboot, store_vars, gc, prebuild_vars, build_vars, faults>>

\* nixos-rebuild builds by itself what is missing, all in one process.
Rebuild ==
  /\ upgrade = "rebuild"
  /\ valid' = valid \union WillBuild(target)
  /\ written' = written \union SpaceOf(WillBuild(target))
  /\ profile' = target
  /\ upgrade' = "post"
  /\ UNCHANGED <<latest, booted, reboot, gc, prebuild_vars, build_vars, faults>>

\* What a boot leaves of everything that ran.
Stopped ==
  /\ booted' = profile
  /\ reboot' = IF reboot = "scheduled" THEN "none" ELSE reboot
  /\ gc' = "inactive" /\ upgrade' = "inactive"
  /\ ordered' = {} /\ build' = "none" /\ unseen' = 0 /\ failures' = 0 /\ guard' = FALSE
  /\ UNCHANGED <<latest, profile, store_vars, target>>

\* ExecStartPost, with rebootOnChange: `shutdown -r +1` if anything changed.
RebootIfChanged ==
  /\ upgrade = "post"
  /\ upgrade' = "inactive"
  /\ reboot' = IF reboot = "none" /\ booted # profile THEN "scheduled" ELSE reboot
  /\ UNCHANGED <<latest, profile, booted, store_vars, gc, prebuild_vars, build_vars, faults>>

\* The minute is over.
Shutdown ==
  /\ reboot = "scheduled"
  /\ Stopped
  /\ UNCHANGED faults

PowerFails ==
  /\ Fault
  /\ Stopped

\* Upstream moves on.
Publish ==
  /\ latest < Len(Closure)
  /\ latest' = latest + 1
  /\ UNCHANGED <<profile, booted, reboot, store_vars, gc, upgrade, prebuild_vars, build_vars, faults>>

-----------------------------------------------------------------------------
UpgradeInit ==
  /\ latest = 1 /\ profile = 1 /\ booted = 1 /\ target = 1
  /\ reboot \in {"never", "none"}
  /\ valid = Range(Closure[1]) /\ written = SpaceOf(valid)
  /\ gc = "inactive" /\ upgrade = "inactive" /\ ordered = {}
  /\ build = "none" /\ unseen = 0 /\ failures = 0 /\ guard = FALSE
  /\ faults = 0

UpgradeStep ==
  \/ UpgradeStarts
  \/ UpdateLock
  \/ PlanBuilds
  \/ BuildStarts
  \/ BuildJoined
  \/ AllBuilt
  \/ Rebuild
  \/ RebootIfChanged

UpgradeNext ==
  \/ GcTimer
  \/ Gc
  \/ UpgradeTimer
  \/ UpgradeStep
  \/ UpgradeFails
  \/ BuildWrites
  \/ BuildSucceeds
  \/ BuildFails
  \/ Look
  \/ Shutdown
  \/ PowerFails
  \/ Publish

UpgradeSpec == UpgradeInit /\ [][UpgradeNext]_upgrade_vars

-----------------------------------------------------------------------------
(***************************************************************************)
(* Every nix process has one goal: what a derivation is built from is      *)
(* there when it is built, and nixos-rebuild has nothing left to build,    *)
(* whatever collections, failed nights, power faults and plans in a new    *)
(* wording went before (auto-upgrade.nix: "every invocation finds its      *)
(* inputs already present and therefore has exactly one goal").  In        *)
(* particular no collection runs beside an upgrade, not even one that is   *)
(* started in the same instant.                                            *)
(***************************************************************************)
OneGoalPerProcess ==
  /\ gc = "collecting" => upgrade \in {"inactive", "queued", "failed", "queued again"}
  /\ build = "running" => Inputs[drv] \subseteq valid
  /\ upgrade = "rebuild" => WillBuild(target) = {}

(***************************************************************************)
(* The guard stops a build before the filesystem of the store is full,     *)
(* even when it could not read the space for as long as it tolerates that  *)
(* and leaves what it has interrupted behind (disk_watchdog, free_bytes).  *)
(***************************************************************************)
StoreNeverFull == avail > 0

\* ExecStartPost has failed: two systems are kept until somebody reboots, and a
\* third may not fit.
RebootMissed == upgrade = "failed" /\ booted # profile /\ reboot = "none"

(***************************************************************************)
(* A host with rebootOnChange gets the newest system unless the reboot     *)
(* could not even be scheduled, however full of leftovers the store was: a *)
(* night the guard ended leaves a failed unit, and the collection before   *)
(* the next one makes room (skipIfUpgrading, Wants= and After=).           *)
(***************************************************************************)
NewestIsBooted == reboot # "never" ~> (booted = latest \/ RebootMissed)
=============================================================================
