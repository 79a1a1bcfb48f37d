----------------------------- MODULE Connectivity -----------------------------
(***************************************************************************)
(* modules/connectivity-watchdog.nix and modules/connectivity-fallback.nix *)
(* on one host.  The watchdog asks the host's resolver again and again and *)
(* reboots when nothing was answered for too long; the fallback looks once *)
(* per boot whether the radio is associated and, if it is not, makes it an *)
(* access point with a portal for new credentials until a reboot.          *)
(*                                                                         *)
(* Time is the uptime.  A tick passes only when nothing is due; the host   *)
(* has no network but the one its radio joins.                             *)
(***************************************************************************)
EXTENDS Integers

CONSTANTS
  afterSeconds, intervalSeconds, accuracySeconds,
  DigSeconds,                    \* how long dig waits for an answer
  bootGrace, samples, sampleInterval, setupTimeout,
  MaxUptime,                     \* bound: the uptime of a host that works
  Never                          \* an uptime that is none

\* The assertions of the watchdog's module, the 600 s floor apart.
ASSUME WatchdogAssumption ==
  /\ {afterSeconds, intervalSeconds, accuracySeconds} \subseteq Nat \ {0}
  /\ accuracySeconds <= intervalSeconds
  /\ intervalSeconds % accuracySeconds = 0
  /\ intervalSeconds < afterSeconds
  /\ DigSeconds \in Nat /\ Never \notin Nat

\* The service's own timeout: "stay well under intervalSeconds so runs cannot
\* pile up".
ASSUME ProbeAssumption == DigSeconds < intervalSeconds

\* The types of the fallback's options.
ASSUME FallbackAssumption ==
  {bootGrace, setupTimeout} \subseteq Nat /\ {samples, sampleInterval} \subseteq Nat \ {0}

VARIABLES
  has_dig,     \* tools.dig ships a dig
  uptime,
  resolves,    \* whatever is beyond the radio works: stack, uplink, upstreams
  known,       \* /var/lib/iwd has the credentials of the network in reach
  associated,  \* what `iw dev link` says
  radio,       \* station, ap or gone
  upAt,        \* the uptime since which names resolve, Never if they do not
  brokenAt,    \* the uptime since which they do not, Never if they do
  workedUntil, \* the uptime until which they last resolved for long enough
  marker,      \* /run/connectivity-watchdog/last-success
  probe,       \* the uptime the running probe began at
  due,         \* the uptime at which its timer elapses
  misses,      \* probes that failed since the last answer or the boot
  check,       \* the sample connectivity-fallback-check takes next, 0 if none
  sampleAt,    \* when it takes it, and when a sleep of the setup script ends
  setup,       \* the command connectivity-fallback-setup is at: no, mode,
               \* profile, services; then portal or failed
  rebootAt     \* when the host reboots

names == <<upAt, brokenAt, workedUntil>>
watchdog_vars == <<marker, probe, due, misses>>
fallback_vars == <<check, sampleAt, setup, rebootAt>>
connectivity_vars ==
  <<has_dig, uptime, resolves, known, associated, radio, names, watchdog_vars, fallback_vars>>

Resolving == associated /\ resolves
Cadence == intervalSeconds + accuracySeconds

\* The commands of the setup script that can fail, and its sleeps.
Steps == {"mode", "profile", "services"}
ModeSleep == 1
ProfileSleep == 2
\* The portal answers before it reboots.
PortalSleep == 2

\* systemd places an elapse in [nominal, nominal + accuracySeconds].
Elapses(from) == (from + intervalSeconds)..(from + Cadence)

\* How names fare from now on.
Fare(now) ==
  /\ upAt' = IF ~now THEN Never ELSE IF upAt = Never THEN uptime ELSE upAt
  /\ brokenAt' = IF now THEN Never ELSE IF brokenAt = Never THEN uptime ELSE brokenAt
  /\ workedUntil' = IF ~now /\ upAt # Never /\ uptime - upAt > Cadence + DigSeconds
                    THEN uptime ELSE workedUntil

-----------------------------------------------------------------------------
(***************************************************************************)
(* The host and its network (external).                                    *)
(***************************************************************************)
\* Mutant: the marker outlives a boot.
Kept(last) == last

\* /run is empty after a boot.
Emptied(last) == Never

\* The host boots.
Boot ==
  /\ uptime' = 0
  /\ radio' \in {"station", "gone"} /\ associated' = FALSE
  /\ upAt' = Never /\ brokenAt' = 0 /\ workedUntil' = Never
  /\ marker' = Emptied(marker) /\ probe' = Never /\ due' \in Elapses(0) /\ misses' = 0
  /\ check' = 1 /\ sampleAt' = bootGrace /\ setup' = "no" /\ rebootAt' = Never

PowerCut ==
  /\ Boot
  /\ UNCHANGED <<has_dig, resolves, known>>

\* The radio joins the network, or loses it for a moment or for good.
Joins ==
  /\ radio = "station" /\ known /\ ~associated
  /\ associated' = TRUE
  /\ Fare(resolves)
  /\ UNCHANGED <<has_dig, uptime, resolves, known, radio, watchdog_vars, fallback_vars>>

Loses ==
  /\ associated
  /\ associated' = FALSE
  /\ known' \in BOOLEAN
  /\ Fare(FALSE)
  /\ UNCHANGED <<has_dig, uptime, resolves, radio, watchdog_vars, fallback_vars>>

\* The uplink fails or comes back, the stack wedges.
Beyond ==
  /\ resolves' = ~resolves
  /\ Fare(associated /\ resolves')
  /\ UNCHANGED <<has_dig, uptime, known, associated, radio, watchdog_vars, fallback_vars>>

\* A second passes, unless something is due.
Tick ==
  /\ uptime < MaxUptime
  /\ IF probe = Never THEN uptime < due ELSE uptime < probe + DigSeconds
  /\ check # 0 => uptime < sampleAt
  /\ setup \in Steps => uptime < sampleAt
  /\ rebootAt # Never => uptime < rebootAt
  /\ uptime' = uptime + 1
  /\ UNCHANGED <<has_dig, resolves, known, associated, radio, names, watchdog_vars, fallback_vars>>

-----------------------------------------------------------------------------
(***************************************************************************)
(* connectivity-watchdog.                                                  *)
(***************************************************************************)
\* Without a dig the probe decides nothing.
ProbeDecidesNothing ==
  /\ probe = Never /\ uptime = due /\ ~has_dig
  /\ due' \in Elapses(uptime)
  /\ UNCHANGED <<has_dig, uptime, resolves, known, associated, radio, names, marker, probe, misses, fallback_vars>>

ProbeStarts ==
  /\ probe = Never /\ uptime = due /\ has_dig
  /\ probe' = uptime
  /\ due' \in Elapses(uptime)
  /\ UNCHANGED <<has_dig, uptime, resolves, known, associated, radio, names, marker, misses, fallback_vars>>

\* NOERROR or NXDOMAIN: the uptime read before the question is the marker.
ProbeAnswered ==
  /\ probe # Never
  /\ Resolving
  /\ marker' = probe /\ probe' = Never /\ misses' = 0
  /\ UNCHANGED <<has_dig, uptime, resolves, known, associated, radio, names, due, fallback_vars>>

\* Mutant: every marker is taken for an unusable one.
since_boot(now, last) == now

\* The age of the outage; without a marker it is the uptime.
since(now, last) == IF last = Never THEN now ELSE now - last

\* SERVFAIL, or no answer within DigSeconds.
ProbeFails ==
  /\ probe # Never
  /\ ~Resolving
  /\ since(probe, marker) < afterSeconds
  /\ probe' = Never /\ misses' = misses + 1
  /\ UNCHANGED <<has_dig, uptime, resolves, known, associated, radio, names, marker, due, fallback_vars>>

WatchdogReboots ==
  /\ probe # Never
  /\ ~Resolving
  /\ since(probe, marker) >= afterSeconds
  /\ Boot
  /\ UNCHANGED <<has_dig, resolves, known>>

-----------------------------------------------------------------------------
(***************************************************************************)
(* connectivity-fallback.                                                  *)
(***************************************************************************)
\* One sample: `iw` fails and the check stays put; the radio is associated;
\* it is not, and that was the last sample; or it is looked at again.
CheckSamples ==
  /\ check # 0 /\ uptime = sampleAt
  /\ IF radio = "gone" \/ associated
     THEN check' = 0 /\ UNCHANGED <<sampleAt, setup>>
     ELSE IF check = samples
     THEN check' = 0 /\ setup' = "mode" /\ sampleAt' = uptime
     ELSE check' = check + 1 /\ sampleAt' = uptime + sampleInterval /\ UNCHANGED setup
  /\ UNCHANGED <<has_dig, uptime, resolves, known, associated, radio, names, watchdog_vars, rebootAt>>

\* The ports are opened and the radio becomes an access point.
SetupMode ==
  /\ setup = "mode" /\ uptime = sampleAt
  /\ radio' = "ap" /\ associated' = FALSE /\ Fare(FALSE)
  /\ setup' = "profile" /\ sampleAt' = uptime + ModeSleep
  /\ UNCHANGED <<has_dig, uptime, resolves, known, watchdog_vars, check, rebootAt>>

SetupProfile ==
  /\ setup = "profile" /\ uptime = sampleAt
  /\ setup' = "services" /\ sampleAt' = uptime + ProfileSleep
  /\ UNCHANGED <<has_dig, uptime, resolves, known, associated, radio, names, watchdog_vars, check, rebootAt>>

\* The address, the services, and the reboot that ends the session.
SetupPortal ==
  /\ setup = "services" /\ uptime = sampleAt
  /\ setup' = "portal"
  /\ rebootAt' = uptime + setupTimeout
  /\ UNCHANGED <<has_dig, uptime, resolves, known, associated, radio, names, watchdog_vars, check, sampleAt>>

\* nft, iwctl or systemd-run fails, and with it (errexit) the script: no reboot
\* is scheduled.
SetupFails ==
  /\ setup \in Steps /\ uptime = sampleAt
  /\ setup' = "failed"
  /\ UNCHANGED <<has_dig, uptime, resolves, known, associated, radio, names, watchdog_vars, check, sampleAt, rebootAt>>

\* The portal's POST: credentials, right or wrong ones, over those of a network
\* that worked too, and a reboot.
Submit ==
  /\ setup = "portal"
  /\ known' \in BOOLEAN
  /\ rebootAt' = IF uptime + PortalSleep < rebootAt THEN uptime + PortalSleep ELSE rebootAt
  /\ UNCHANGED <<has_dig, uptime, resolves, associated, radio, names, watchdog_vars, check, sampleAt, setup>>

SetupReboots ==
  /\ rebootAt = uptime
  /\ Boot
  /\ UNCHANGED <<has_dig, resolves, known>>

-----------------------------------------------------------------------------
ConnectivityInit ==
  /\ has_dig \in BOOLEAN /\ uptime = 0 /\ resolves \in BOOLEAN /\ known \in BOOLEAN
  /\ associated = FALSE /\ radio = "station"
  /\ upAt = Never /\ brokenAt = 0 /\ workedUntil = Never
  /\ marker = Never /\ probe = Never /\ due \in Elapses(0) /\ misses = 0
  /\ check = 1 /\ sampleAt = bootGrace /\ setup = "no" /\ rebootAt = Never

ConnectivityNext ==
  \/ Tick
  \/ Joins
  \/ Loses
  \/ Beyond
  \/ ProbeDecidesNothing
  \/ ProbeStarts
  \/ ProbeAnswered
  \/ ProbeFails
  \/ WatchdogReboots
  \/ CheckSamples
  \/ SetupMode
  \/ SetupProfile
  \/ SetupPortal
  \/ SetupFails
  \/ Submit
  \/ SetupReboots
  \/ PowerCut

ConnectivitySpec == ConnectivityInit /\ [][ConnectivityNext]_connectivity_vars

-----------------------------------------------------------------------------
(***************************************************************************)
(* A host that resolves nothing reboots in time, also one whose setup      *)
(* script failed half way and left it an access point without a portal     *)
(* (intervalSeconds: "the host reboots within afterSeconds +               *)
(* intervalSeconds + accuracySeconds of DNS breaking", and the time dig    *)
(* takes to fail), if the probe has a dig to ask with.                     *)
(***************************************************************************)
OutageEndsInReboot ==
  has_dig /\ brokenAt # Never => uptime - brokenAt <= afterSeconds + Cadence + DigSeconds

(***************************************************************************)
(* The watchdog reboots no host that worked: enough probes in a row found  *)
(* nothing to fill the fuse at the slowest cadence of its timer, names     *)
(* last resolved for long about as long ago, and a boot is never followed  *)
(* at once by another (afterSeconds, `since`: "a tight reboot loop is      *)
(* structurally impossible").                                              *)
(***************************************************************************)
RebootsAreEarned ==
  [][WatchdogReboots =>
       /\ uptime >= afterSeconds
       /\ (misses + 1) * Cadence >= afterSeconds
       /\ workedUntil # Never =>
            uptime - workedUntil >= afterSeconds - Cadence - DigSeconds]_connectivity_vars
=============================================================================
