# Verification of the nixos-test repository

TLA+ models of the programs this repository deploys, TLC configurations that check them on small
instances, and TLAPS proofs of the most important properties for every instance. Line references
below and in `PROJECT.json` are into `src/`.

## The system

The repository is a NixOS configuration for a small fleet (a Raspberry Pi beside an inverter and a
battery, and laptops). Six Rust programs carry its own logic; the NixOS modules run them as systemd
units and add shell services of their own.

| Component | State | Operations | Interacts with |
|---|---|---|---|
| `packages/time-correction` | none between runs; a run keeps its (resolver, server) pairs, the chains each pair met, readings and windows | draw pairs; per pair DoH lookup, NTS key establishment, one NTS-protected NTP exchange; decide; set `CLOCK_REALTIME` or stand down | the timer and `TimeoutStartSec` of `modules/time-sync.nix`; chrony, which steps the same clock |
| serial ports of `packages/bms-monitoring` and `packages/inverter-monitoring` | open files, flock, TIOCEXCL and termios of each tty; the remembered device | enumerate, order, open, lock, configure, probe, retry | each other, through the kernel; udev |
| `packages/bms-monitoring` | frame buffer and counters; freshest realtime and settings frame with a stamp; silent cycles; last settings | wait for settings, drain until the deadline, publish, give up | the pack (pushes every 6.7 s), the receiver's unix socket, systemd (`Restart=always`) |
| `packages/inverter-monitoring` | commands given up on, identity, counters, silent cycles | request and answer, poll cycle, identity refresh, publish, give up | the inverter (half-duplex), the receiver, systemd |
| `packages/system-metrics` | one run: options, records, the connection | read /proc, /sys and the output of tools group by group, post the batch | disks, systemd, journald, chrony, dnscrypt-proxy's log, the receiver |
| `packages/detected-devices` | one run, with a thread that reads btmon's pipe | list USB devices and ports, sweep WiFi unless the radio serves an access point, overhear BLE, post | sysfs, `iw`, BlueZ, the receiver |
| `packages/iroh-ssh`: `iroh-uds-connect`, `iroh-uds-listen` | the one connection, the socket's file, two copy tasks, a token and a ctrl-c task per end of each session | dial, bind, accept, open or serve a stream, copy, half-close, cancel, exit | iroh, local clients, the receiver behind the far socket, systemd (which is the reconnect loop) |
| `packages/iroh-ssh`: the ssh pair | one stream per connection | the same over TCP | iroh, sshd, the failsafe of `modules/iroh-ssh.nix` |
| `modules/restic` | the states of a hold, a quiesce and a restart unit per stopped unit, a marker file | stop a unit for a backup, start it again, retry | systemd's jobs, the stopped unit, other backups of the same unit |
| `modules/auto-upgrade`, `nix-settings` | the lock file, the plan, the store, the system profile | update, plan, build one derivation per process under a disk guard, rebuild, reboot; collect garbage | nix, each other |
| `modules/connectivity-watchdog`, `connectivity-fallback` | a marker in /run; the mode of the radio | probe and reboot; look for a network, raise a setup access point, reboot | the resolver, iwd, each other |
| `modules/monitoring`, `thingspeak` | -- | timed checks and uploads | systemd |

What is hard in it: two daemons racing for one tty from boot on; a clock that two programs set while
TLS, which both need, depends on it; network calls that time out in every combination of address
families and redirects; a byte stream without alignment; answers that arrive after their deadline; a
single thread that a slow receiver blocks; daemons that must end so that systemd can restart them;
readings of a host that changes while it is read; shell scripts whose every command can be overtaken by
systemd, a crash, a power cut or an administrator.
`PROJECT.json` lists these under `hazards`, at the lines where they bite.

What makes each component correct:

* time-correction: the clock is only set to an authenticated time that every asked operator agrees
  with; one honest operator bounds the error; it is left alone only where TLS works with it, and a
  healthy clock is left alone; a broken host recovers.
* serial ports: one reader per tty, the line is the reader's, nothing stays locked after a crash, and
  contention does not starve a producer.
* frame reader: it delivers the sound frames of the stream wherever the reads cut it, accounts for
  every byte, stays bounded and terminates.
* BMS daemon: nothing stale is published, nothing twice, a talking pack is kept, a silent one ends
  the run.
* inverter daemon: a late answer spoils no cycle but its own, every null is counted, an answering unit
  is kept, a dead port ends the run, a swapped unit is noticed.
* tunnel: a session nothing happened to is delivered whole in both directions; whatever ends one early
  is seen by both peers; no task or stream outlives its session; the tunnel comes back after any
  failure; a running instance keeps its socket.
* the collectors: a record says what is true of the host when it was read and is about the thing it
  names; success means that the receiver has every record; a run ends.
* backups: what is read is at rest, and what was running (or on its way up) runs again afterwards.
* upgrade: a nix process has one derivation to build, the disk never fills, and the newest version is
  booted in the end, whatever garbage collection, crashes and power cuts do in between.
* connectivity: a host without names reboots within a bound, and no host reboots that resolved names
  recently.

## Modules

| Module | Models | State and actions |
|---|---|---|
| `Certificates` | `verify.rs`, `deferred.rs` | pure: validity windows as sets of instants, verification at an instant, the two passes |
| `ClockQuorum` | `quorum.rs` | pure: one vote per operator, tolerance, the middle |
| `TimeCorrection` | `main.rs`, `doh.rs`, `timeserver.rs`, the unit of `time-sync.nix` | one action per network call of a pair's thread, one per step of `run`; chrony, time, kills and reboots as environment actions |
| `SerialPorts` | `port.rs`, `discover.rs`, `connect_within` of both producers | one action per system call of `open`, `probe`, the ends of a sweep; crashes, plugging |
| `FrameReader` | `frame.rs`, fed by `read_until` | `feed` and the four outcomes of `step` |
| `BmsMonitoring` | `run`, `drain_until`, `Freshest`, `publish` of the BMS daemon | one action per decision of the loop; `Tick` passes a unit of time |
| `InverterMonitoring` | `run`, `exchange`, `read_command`, `poll_cycle`, `read_identity`, `write_request`, `read_frame` | one action per request, answer, timeout and step of the loop |
| `Tunnel` | `iroh-uds-connect.rs`, `iroh-uds-listen.rs`, `forward_bidi` of `lib.rs`, the units of `monitoring-platform-tunnel.nix` | the two processes and their connection; a session per client with two ends, each running `forward_bidi`, one action per way a copy goes on or ends; peers, crashes and a lost path as environment actions |
| `PortArbiter` | -- | what `SerialPorts` promises: a tty and its line belong to one producer at a time |
| `Optional` | `Option` as both collectors use it | pure |
| `Collector` | the skeleton of both collectors: `parse_args`, `run`, `main`, `otlp.rs`, `uds.rs` | one action per step of the POST; the receiver's answer in pieces |
| `HostFacts` | `collect.rs`, `block.rs`, `smart.rs`, `sensors.rs`, `systemd.rs`, `chrony.rs` and the record functions of `main.rs` | pure: readings to records |
| `DnsProviders` | `dnscrypt.rs`, `dns_provider_records` | pure, beside dnscrypt-proxy as a process that probes in passes and logs, and a clock that is set |
| `SystemMetrics` | `run` of system-metrics and its two units | one action per group, then the POST |
| `DeviceScans` | `usb.rs`, `wifi.rs`, `ble.rs` and the USB record functions | pure: listings and captures to records |
| `DetectedDevices` | `run`, `wifi_records`, `ble_records`, `drain` of detected-devices and its unit | one action per call whose answer can be overtaken; btmon, its pipe and the access point beside it |
| `Backups` | `restic.nix`: the quiesce, hold and restart units and their scripts | one action per `systemctl` call; systemd, the unit and an administrator beside it |
| `Upgrade` | `auto-upgrade.nix`, the garbage collection of `nix-settings.nix`, `upgrade-plan-parse.nix` | one action per step of the scripts; nix, faults and power beside it |
| `Connectivity` | `connectivity-watchdog.nix`, `connectivity-fallback.nix` | timers, probe, marker, check, setup session, portal; `Tick` passes a unit of uptime |
| `*Proofs` | -- | the theorems about the modules they extend; `ServicesProofs` has the three services, `CollectorsProofs` the two collectors |
| `MC*` | -- | instances for TLC |

`TimeCorrection` extends `Certificates` and `ClockQuorum`. `SerialPorts` ends where
`BmsMonitoring` and `InverterMonitoring` begin: a producer that holds its port. `FrameReader` is the
reader inside the BMS daemon; `BmsMonitoring` takes from it that a burst yields its sound frames.
`SystemMetrics` and `DetectedDevices` both extend `Collector`; `MCCollectors` runs one of the two.
`MCServices` puts the three services of a host into one specification. What they do to each other is a
reboot, which each of them has as a step of its own, so one service works in a behaviour. In the same
way `MCBmsMonitoring` checks the frame reader and the daemon over it, and `MCInverterMonitoring` the
ports and the daemon that polls one: `half` is chosen in `Init`, and the other half stands still. The
specification of a component bears its name (`PortsSpec`, `ReaderSpec`, `BmsSpec`, `InverterSpec`,
`TunnelSpec`, `BackupsSpec`...), so that it can be extended beside another; the theorems are about these.

Definitions whose comment begins with "Mutant" are wrong versions of the definition that follows
them. No specification uses them; each shows that a property notices the bug it describes.

### Abstractions

* `TimeCorrection`: an address is its address family; a certificate is its validity and whether it can
  be parsed; a chain is its certificates and the paths that can be built from them. `Option<window>`
  is a set of instants, `None` the empty set.
* `SerialPorts`: a probe is one action, because the port is held by then; what is behind a tty is a
  constant. The two producers differ in whether they remember a device.
* `FrameReader`: header, frame length, checksum modulus and byte values are parameters.
* `BmsMonitoring`: time passes in units of 15 s in which the pack pushes one realtime and one settings
  frame, either of which the line may lose. Ages are capped where only "too old" matters.
* `InverterMonitoring`: an answer is (command, unit, payload/NAK/noise). A live parser accepts any payload
  of its command's `Length`, `parse_identity` any printable text; neither asks what it is the answer to. A
  CRC failure, a truncated and an unterminated frame, and a payload whose fields have moved, are all
  noise. A unit has worked off what it was asked by the time the daemon wakes for the next cycle. The
  identity the probe read is replaced before anything is published and is left out.
* `Tunnel`: data are counted in chunks. Of QUIC it uses that a finished stream is read to its end, that
  a reset or stopped one fails at its next use, that dropping an unfinished send stream finishes it and
  dropping a receive stream stops it, and that a lost connection fails every use. A stop is noticed by
  the next write only, as `tokio::io::copy` waits for the peer in between. What a peer writes after
  the task reading it has ended goes nowhere and is left out. The listener sees a lost path at once, the
  dialer when `Noticed`; a listener's process and a path that die differ in what becomes of the
  backend's connection.
* `Collector`: a batch is a set of records, an answer a status and the rejected records (the body has
  their number) that arrives in pieces (part of the head, the head, part of the body, all of it). What a
  group collects is a family of records, each under the place it was read from, and the record of a
  scan is kept apart from the records of what it found: the wire has them in one list.
* `HostFacts`, `DeviceScans`: a line is its prefix and its value; a text that does not parse is
  `Garbage`; a path is a sequence of its parts. Numbers that are copied as they are read (counters,
  descriptors, versions) are left out. No two groups share a reading, so a host is ordinary but for one
  group. `line.of` says what a line is about; only properties read it. A capture ends after a
  line, within one (what is left is an address that is no address, or a level without its last digit) or
  within a character. `Numbers` are the tokens of a name that are digits, which the two path functions
  ask for. How sysfs names devices,
  interfaces and ports (`IsSysfs`) is the kernel's doing and is assumed of every tree. The loops over
  mounts, filesystems and units that keep a map of what was seen are told by place: the last mount of a
  path, the first answering mount of a filesystem, the first mention of a unit.
* `DnsProviders`: a log line is (time, notice or error, provider, latency) under its place in the log;
  lines the window has left behind are dropped. Sorting the successes and cutting the list where they
  are far apart is told by the start times, those with no success within `PASS_GAP` before them. The
  proxy probes each server once a pass, retries soon after a pass in which all failed and otherwise
  after `Delay`.
* `Backups`: systemd's job queue is whether a start or restart job of the unit is listed. Each
  `systemctl` call is a step, the two `systemctl show` of the unit included, and the unit may start, crash,
  go through its stop phase and be restarted between any two of them.
* `Upgrade`: space is counted in units of what a build writes between two looks of the guard, and the
  store is the set of units that are taken; a derivation has one output, and nothing is substituted.
  What is still to build is a set of places in the closure, since the plan is made in its order. The
  plan nix prints may be in a wording the parser does not know, in its header or in some of its lines;
  the parser counts and refuses. The host has `rebootOnChange` (off by default) and a collection that
  removes old generations, both as on rpi5.
* `Connectivity`: time is the uptime, and a tick passes when nothing is due. The setup script's sleeps
  pass like any time. A `tools.dig` without `dig` (the probe then decides nothing) is a host of its own.

## Runs

| Run | Question |
|---|---|
| `trust` | what a lying operator, odd certificate chains, failing calls, redirects, kills and reboots can do to a reading and to the clock, under command lines with repeated names and organisations |
| `recovery` | whether an IPv6-only host recovers |
| `bms` | the reader: every stream of 8 bytes over 3 values in every cut, against a reference, the leftmost sound frames that do not overlap; the daemon: staleness, duplication and the end of a silent pack under loss, power cuts, slow POSTs and vanishing adapters, and on a clean line a talking pack with a slow receiver and a tty buffer of one unit |
| `inverter` | the ports: two producers, two ttys, every interleaving of system calls, crashes and unplugging, whether they implement the arbiter, and once calm, whether contention starves a discovery; the daemon on three lines: anything goes (counters, what a late answer costs), late answers that are in before the next request (what the flush achieves), and a prompt one (a unit is kept whatever it lacks); dead ports and exchanged units |
| `tunnel` | one client's sessions through half-closes, cancellations, refusing backends, crashes and a lost path |
| `collectors` | whether records are true and success is delivery, over hosts with odd mounts, disks, units, timers, journals and time sources, a proxy that probes meanwhile, USB trees, sweeps and captures cut anywhere, and a receiver that stalls, rejects and dies |
| `services` | backups of one unit by two jobs with crashes, retries and an administrator; upgrades over three versions beside garbage collection, faults and a filling disk; outages, setup sessions and reboots |

`bms` and `inverter` choose the line in `Init` and keep it: a property about a healthy line says so in
its premise.

Five runs end in a violation and show a disagreement between the code and what a comment says of it
(`findings` in `PROJECT.json` quotes both):

* `tunnel_twice`: `bind` removes the socket of a running instance. Either two instances of
  `iroh-uds-connect` find the same leftover and the slower one's `remove_file` unlinks the socket the
  faster one has just bound; or the connect to a live socket fails for another reason than a refusal (a
  full backlog, a mode that forbids it), which `is_ok()` (`iroh-uds-connect.rs:140`) takes for a leftover.
* `backups_crash`: the script marks a unit by three looks (state, substate, jobs). A unit that has just
  crashed shows `deactivating` while its stop phase runs and has no job, so it is not marked; when it is
  stopped a moment later it waits out `RestartSec`, and nothing starts it after the backup. The comment
  (`restic.nix:235`) counts such a unit among those that are started again. `ComesBack`, which passes, is
  about what one of the looks did find up.
* `scans_cut`: btmon is killed and read in chunks, so the capture usually ends within a line, and the
  parser reads what is left of it like a whole one. The beginning of an address becomes a device
  (`ble.rs:169`), a level loses a digit (`ble.rs:207`), and a cut within a character loses the capture
  (`main.rs:621`), although the comment on `drain` (`main.rs:541`) has a cut capture parse into the
  reports it contains. `ScansSayWhatWasHeard`, which passes, says how far the damage goes: one device.
* `bms_first_status`: the first status record comes an interval after the loop is entered, not at once.
* `inverter_one_behind`: an answer that arrives after the next request's flush is reported as that
  command's identity attribute. (A NAK that arrives then switches off the wrong command, for the life
  of the process: `GivenUpIsUnimplemented` excludes such lines for that reason.)

Some passing properties are weaker than a comment in the code. `PublishedIsNews`: a frame that
waited in the tty during a POST is stamped when it is read, so it is published up to one POST beyond
the timeout. `HealthyClockLeftAlone` excepts certificates that cannot be read: their window is unknown,
and an unknown window sets the clock. `AsksIndependentWitnesses` has a premise that `choose`'s comment ("a
distinct resolver per pair") lacks: resolvers given under one name are accepted, and `find` sends both
pairs to the first of them. `CutShortOnlyByFailure` is what `forward_bidi` does, which is better than
its doc comment ("aborting both directions when either finishes"): only an error cancels the token.

The same holds of the collectors and the services. Each of the following was met while modelling and
is excluded by a premise or a constant, or is outside the property:

* `ExitTellsDelivery`: an answer that ends after a head of 200 and before its body reads as no
  rejections, so a run may succeed although records were refused.
* `RecordsAreTrue`, disks: the name is used where either side lacks a serial, so a disk replaced between
  the listing and smartctl's gets the other's report; disks with one serial share a report; a namespace
  without a serial does not get its sibling's. Mounts: an excluded filesystem is dropped before
  mount points are made unique, so a mount below it is reported although it is hidden
  (`collect.rs:218` says the last one wins). Timers with a monotonic and a realtime trigger report the
  monotonic one even when the other is due first. A clock ahead at boot hides ages until it is set back.
* `VerdictIsOfTheLastPass`: a journal read in the middle of a pass, a window that begins within one, or
  a clock set during one can show a working provider as down; the `error` of an earlier pass within
  `PASS_GAP` stays attached to a provider that is up.
* `ScansSayWhatWasHeard`: but for the one device a cut line is about; see `scans_cut`. The comment about
  WEP in `wifi.rs` has no code.
* `RunEnds`: the read timeout is that of one read. A receiver that sends its answer byte by byte, each
  within the timeout, is not bounded by it and not in the model.
* `ScansAreAccountedFor`: the access point may come up between `iw dev` and the sweep; the sweep then
  fails and is reported `busy`.
* `ComesBack`: what none of the three looks saw is left down; see `backups_crash`. A restic that hangs
  holds its unit down for as long.
* `OneGoalPerProcess` includes that no collection runs beside an upgrade. The comment on
  `skipIfUpgrading` (`nix-settings.nix:28`: "a GC and an upgrade starting in the same instant can still
  race") is more careful than the units are: systemd starts one job after the other. If the collection's
  comes first, `After=nix-gc.service` holds the upgrade's back until it is over; if the upgrade's comes
  first, the unit is `activating` before the collection's `ExecCondition` can look. The model has both
  orders, with both jobs queued at once, and the race does not occur; it would if `After=`
  (`auto-upgrade.nix:435`) were taken away, or if someone ran `nix-collect-garbage` by hand, which is not
  modelled.
* `NewestIsBooted` is about a host with `rebootOnChange`. If the `ExecStartPost` that schedules the reboot
  fails, the unit fails with the new system as the profile; where a third system does not fit, no later
  upgrade succeeds until somebody reboots, and the property excludes that host (`RebootMissed`).
* `StoreNeverFull`: only the guarded builds are watched; the lock update, the evaluation, downloads and
  `nixos-rebuild` are not. The reclaim after a trip can delete an output that was built and registered
  (`auto-upgrade.nix:229` says otherwise), which costs a rebuild. The count check of the plan is silent
  when nix rewords both the header and the lines.
* `OutageEndsInReboot`: a setup script that fails before its `systemd-run` schedules no reboot
  (`connectivity-fallback.nix:144` says every session ends in one); the watchdog ends it, later. The
  bound includes the interval, its accuracy and dig's own time. A full /run loses a success.
* `RebootsAreEarned` counts the failed probes: as many in a row as fill `afterSeconds` at the slowest
  cadence. "One failed probe must never be enough" (`connectivity-watchdog.nix:256`, on the assertion
  `intervalSeconds < afterSeconds`) is true where interval and accuracy together are below
  `afterSeconds`, as deployed (600, 60 and three hours). The assertion alone does not give it: with 600,
  60 and 601 the first probe may come at an uptime of 601 or later, and if it fails it reboots.

### Bounds

* Time-correction: two pairs out of two operators and three servers, instants -1..12, two or three
  seconds of real time. Two pairs are the smallest sample in which an operator can lie and another be
  honest; five chains cover each case of the window rules (plain, cross-sign, two paths, expired,
  unreadable); two addresses per resolver and one per answer and type exercise each retry loop.
* Serial ports: two producers (there are two) and two ttys, one with each device.
* Tunnel: one client and one chunk each way per session, sessions without end; with one connection per
  client there is nothing two sessions share but the processes and the link, whose failures hit both
  alike. Two dialers and no client for the race over the socket's path.
* Frames: a header of 2, frames of 4, streams of 8 bytes: two whole frames, a false header inside a
  frame, and a header cut at each place.
* BMS: intervals in proportion to the deployed ones (60 s, 30 s, 30 s); the daily settings interval is
  shortened to 10 units. Nothing depends on it but how often settings fall due.
* Inverter: two identity and two or three live commands, units that implement all, some or none of the
  optional ones, at most two requests outstanding. Two outstanding are enough to be one behind.
* Collectors: each group's readings enumerate the cases its functions tell apart (mount tables of up to
  three entries over two paths, two drives with one or two namespaces in each order, two providers and a
  reference clock); command lines that run one group, all of them, none. `MaxTime` 7 holds three passes of
  the proxy, a retry and one step of the clock. Captures have up to three events (a report has one or two
  devices) and are cut after and within every line.
* Backups: two backups of one unit, one run each, two acts of an administrator; a second run adds only
  what two backups one after the other already do (`backups_crash`: one backup, nobody's hand). Upgrade:
  three versions of two derivations, five faults, a disk for two systems and the floor: an upgrade has to
  wait for garbage collection. Connectivity: the proportions of the deployed seconds, an uptime of 12,
  reboots without end.

### Fairness

* `TimeCorrection`: weak fairness of `Run`: the timer fires again and each network call has a timeout,
  so a run that can take a step does. Nothing is assumed of chrony, failures or reboots.
* `SerialPorts`: weak fairness of each producer and of udev: probes end by their timeouts, pauses and
  `RestartSec` elapse. Crashes, failing calls and unplugging go on until `Settles`, which need never
  happen. `OneFoundThenAll` starts from one producer having found its device: two
  producers that both still search can in principle take each other's port for ever, and only the
  shuffle makes that improbable.
* `FrameReader`: weak fairness of `next_frame`, a loop in one thread; the line owes nothing.
* `BmsMonitoring`: time passes and the daemon takes the steps that take no time.
* `InverterMonitoring`: the daemon goes on (its reads have deadlines), the refresh interval elapses,
  and a unit works off what it was asked. No unit is obliged to be on.
* `Tunnel`: systemd restarts both programs (`Restart=always`), the runtime polls their tasks, a lost
  connection is noticed (QUIC's idle timeout), and a server closes a connection whose request has
  ended. No client is obliged to write, to shut or to leave. `TunnelComesBack` starts from `calm`.
* `MCCollectors`: weak fairness of the run of a unit: tools return and reads have a timeout. Nothing is
  assumed of the receiver. (The unit's TimeoutStartSec would end a hanging tool as well.)
* `MCServices`: systemd runs the jobs it has and elapses timers, scripts go on, a build that can write
  does. Strong fairness where systemd keeps trying: a unit that is started again and again comes up now
  and then (`ComesBack` is about the retry, not about a unit that can never start), and an upgrade that
  waits behind garbage collections gets its turn.

Deadlock is not checked for `inverter`, `tunnel`, `bms` and `services`: producers that hold their
ports, a tunnel no client uses, a stream that has been read and a host whose bounded events have
happened have nothing left to do. Nor for `backups_crash`, which asks about one state.

## Proofs

| Theorem | Holds for |
|---|---|
| `TimeCorrectionProofs!DecidesNearEveryOperator` | all readings, operators and tolerances |
| `TimeCorrectionProofs!TypeCorrect`, `SetsVouched`, `OneHonestOperatorSuffices`, `StandsDownSafely`, `HealthyClockIsSafe` | all configurations, providers, chains and clocks |
| `TimeCorrectionProofs!WitnessesAreIndependent`, `EveryReadingHasBothLegs` | all command lines, samples and tables of providers |
| `SerialPortsProofs!NeverTwoReaders`, `LineStaysTheReaders`, `NothingGoesStale`, `ArbitrationImplemented` | any producers and ttys |
| `FrameReaderProofs!BytesAreConserved`, `BufferIsBounded`, `NoSoundFrameIsLost` | any header, frame length, checksum and traffic |
| `BmsMonitoringProofs!TalkingPacksAreKept`, `SettingsAreCurrent`, `StatusIsNews` | any queue and settings interval; durations in the order of the defaults |
| `InverterMonitoringProofs!LateAnswersStayInTheirPass`, `EveryNullIsCounted`, `NothingIsGivenUpWrongly`, `AnsweringUnitsAreKept` | any commands, units and delays |
| `TunnelProofs!SessionsAreWhole` | any clients, dialers and amounts of data |
| `ServicesProofs!FilesAreAtRest` | any backups of a unit |
| `ServicesProofs!OutagesAreEnded`, `NoRebootIsRash` | any intervals, grace and timeouts that satisfy the assumptions |
| `ServicesProofs!EveryBuildHasOneGoal`, `TheStoreHasRoom` | any versions, closures, sizes and disk |
| `CollectorsProofs!MetricsAreDelivered`, `DevicesAreDelivered` | any command lines, hosts and batches |
| `CollectorsProofs!ScansAreAccounted` | any sites, captures and command lines |
| `CollectorsProofs!PortsLead` | any trees that sysfs can show |
| `CollectorsProofs!VerdictsAreOfTheLastPass` | any providers, delays, windows and clock error that satisfy `ScalesAssumption` |
| `CollectorsProofs!WhatWasHeardIsSaid` | any output of `iw` and btmon that `SweepAssumption` and `CaptureAssumption` allow, cut anywhere |
| `CollectorsProofs!RecordsStayTrue` | any hosts whose readings satisfy `ReadingsAssumption` |

Each safety theorem has the usual shape: `Init => Inv`, `Inv /\ [Next]_vars => Inv'`, `Inv => property`,
combined by temporal logic.

* Time correction. `Inv` says, beside types, of each thread that has answered that its reading is at or
  above the floor, that its chains passed pass 2 at it, that its window is the one `accept` computed,
  and that an honest operator's reading lies between the start of the run and now (up to `Skew`); and of
  `agreed` and `window`, from `judging` on, that they are the decision over those threads. The
  properties alone are not inductive because they speak of the last step only. `DecidesNearEveryOperator`
  carries the arithmetic of the quorum: the middle of votes that do not disagree is near each vote, and
  each vote is a reading. Assumed: no certificate predates the epoch, the leaf is on every path, a path
  uses only certificates that were sent.
  That every reading has both its legs needs, of each thread on its way, which chains it has met so far:
  the resolver's from the first answer on, the server's once it holds a time. That the witnesses are
  independent is a fact about `choose` and `sample`: the pairs drawn have distinct operators, and there
  are as many as were asked for.
* Serial ports. `Inv` ties the kernel's view to the processes': the lock of a tty is held by p exactly
  when p is past `try_lock_exclusive` on it, the open files are those of the producers that have it
  open, TIOCEXCL implies an open file of a holder, and a probing or reading producer's line is its own.
  `ArbitrationImplemented` is the refinement: a producer owns a tty, abstractly, from the moment the
  lock is granted until its file is closed, and each system call is a step of `PortArbiter` or a
  stutter. What is lost with a hold (`HoldLost`) is the same for a close, a crash and an unplugging.
* Frame reader. The counters need the buffer's type; the bound needs that `find_header` returns the
  first match, so that an incomplete buffer either starts with the header and is short or is shorter
  than a header. `NoSoundFrameIsLost` needs the history: the buffer is the end of the stream, and each
  position before it is either settled (no header there, or a whole frame whose checksum is wrong) or
  covered by a frame that was delivered. A frame skipped by resynchronisation would be a sound position
  that is neither.
* BMS. `LoopInv` is about time. Two POSTs fit into a cycle, so a cycle is never entered late
  (`OnTime`); what is held is either old or has not been reported (`News`); what waits in the tty
  arrived since the last measurement, unless a cycle without a drain left it there (`Queued`); and while
  the pack talks, such a cycle only follows a settings measurement (`Talks`), so two silent cycles never
  meet. Assumed (`DefaultsAssumption`): `2 * PostTime <= Interval`, `FrameTimeout < Interval <=
  FrameTimeout + PostTime` and more than one silent cycle to give up. The code asserts none of it; the
  default options (60 s, 30 s), the timeout in `uds.rs` and `MAX_SILENT_CYCLES` satisfy it.
* Inverter. `LateAnswersStayInTheirPass` is not about the parsers, which accept any payload of the right
  length, but about the order of requests, flushes and answers: as long as nothing was late, lost or
  damaged since the daemon slept, one request is out at a time and what is read answers it (`InStep`), so
  each live command asked so far has its own value (`Clean`). It holds for lengths that are all the same,
  too. All of it is part of `SessionInv`, which says besides how far the
  cycle is (`Cursor`), that each null so far has its counter (`Counted`), and, where the line keeps its
  answers within the bound, that what is on it or was read answers the command asked (`OnTheLine`) and
  that a prompt unit's live answers are in (`Heard`). Assumed of the command lists: they are not empty
  and the live ones differ.
* Tunnel. The invariant says of each session nothing happened to that it is sound: at either end, the
  stream is open or it is finished and has carried all that the peer sent, a peer was told the end of
  file only after the far end's finished stream was read to its end, and a token is cancelled only when
  both directions are through, when there is nothing left to cancel.
* Backups. A reading backup holds the unit, a held unit's quiesce unit is active, an active quiesce
  unit's unit is down without a job; the retry unit is inactive from the call that stops it to the one
  that starts it, which is why no job can appear in between.
* Connectivity. The invariant relates the uptime to the next elapse, the marker to when names last
  resolved (`Marked`, `Worked`), and the age a probe will find to the failed probes so far (`Paced`).
  Assumed: what the module asserts of its options (`WatchdogAssumption`), and that `dig` gives up within
  an interval (`ProbeAssumption`, the comment on `TimeoutStartSec`). Nothing is assumed of a setup session:
  the watchdog may end one.
* Upgrade. Whatever of the target's closure is not there yet is still ordered, before what is built from
  it; nothing is collected while an upgrade runs; and between two looks of the guard the space has shrunk
  by no more than the looks since the last good one allow. Assumed: the floor exceeds what is written over
  the tolerated read failures and after TERM (`FloorAssumption`), and the first system fits
  (`SpaceAssumption`).
* Delivery. `DeliveryInv` says what the program may conclude from the answer: before the request is out
  there is none, a receiver that said 200 has kept what it did not reject, and a success is one that the
  answer gave. The exception in the property is real: an empty body decodes as "none rejected".
* Scans. `ScansInv` relates the record of a scan to what was done to the radio: what was looked at, what
  was swept, how far the capture's thread and children are. None of it looks into the records of what
  was found.
* USB ports. `UsbInv` says that the two groups hold what the listings of the site give, and no more is
  needed of the run. The rest is about names: `IsSysfs` says how the kernel makes the name of an
  interface, of a port and of the device in a port from the name of the hub, that a device other than a
  root hub is in the port of a hub that is listed, and that a hub lists a port once. From that follow
  that `canonical_device_path` of an interface is its device's name (`InterfaceLeads`), that
  `port_device_path` of a port is the name of what is plugged in (`PortLeads`), and that two ports with
  one path are one port of one hub (`OnePortOneHub`), root hubs, whose names follow another rule,
  included.
* DoH providers. `ProxyInv` says of every line in the journal which pass it is of and how far from the
  others it is: the successes there are belong to the pass under way, to the witnessed pass (the last
  one that is over and was answered), or to passes that ended a `Delay` before the witnessed one began;
  the failures of passes that nobody answered lie in between and are of no interest. All successes
  of a pass that began within the window are still there (`Kept`). Between two passes the last group
  that `passes` finds is then the witnessed pass (`LastPass`): its successes are at most `PassSpan <=
  PASS_GAP` apart, and nothing is within a `PASS_GAP` before it. A reason that is given lies within a
  `PASS_GAP` of it (`ReasonsNear`), so it is of no pass before the previous answered one. `Verdict` puts
  that together for any moment of reading; the run then only adds that the group is collected last
  and that the proxy goes on until it is. Assumed (`ScalesAssumption`): a pass is no longer than
  `PASS_GAP`, the gap and a pass fit into `Delay`, and a `Delay` into the window.
* Records. `RecordsInv` says that a group holds what its record function makes of the host's reading, or
  nothing yet; the rest is one lemma per group about that function. A mount that is reported is the last
  one at its path that was not excluded, and the first of its filesystem that answered
  (`FilesystemsAreTrue`); a report goes to the disk it is of, by serial before name, and to no disk of
  another drive (`DrivesAreTrue`); a unit is reported once, whether it is watched, failing or both
  (`UnitsAreTrue`); counters that went back do not make a share below 0 or above 100 (`CpuIsTrue`).
  Assumed (`ReadingsAssumption`), because the tools and not this program decide it: a serial or a name
  that matches is of the drive it names, and block devices of one drive show one serial; the watch list
  names no unit twice, as the default one does; the moment a unit became active is on the monotonic
  clock; a trigger of a timer that lies ahead is when the timer is due, so two that lie ahead agree;
  `journalctl --priority=warning` prints no lesser lines and no unit is named `kernel`; a chrony row that
  is complete is of the peer it names. Where a host breaks one of these, the record may be wrong in the
  ways listed under Runs.
* What was heard. `parse_scan` and `parse_btmon` carry state from line to line, so the proof goes by
  induction over the lines, written out with the least-number principle: a trace of the parser exists
  (`SweepTraced`, `CaptureTraced`), and if what it holds were wrong after some number of lines, it would
  be so after a least one, which a single line cannot bring about (`ScanLineRead`, `OutsideRead`,
  `PartOfReportRead`). For a sweep (`SweepOK`): the blocks are of the networks printed so far, one each,
  the last one is of the network the last line is about, and each has the security, standards and signal
  that the lines about it give. For a capture: `PlaceOK` says that the parser is reading exactly when the
  last line is part of a report, that the types it holds are those of the report whose address is to
  come, and that the current device is the report's; `CountOK` says what the reports so far amount to for
  each address. That a capture cut after a line is one still is `CutCapture`; what is left of a line
  that was cut changes at most the device it is about (`Spoilt`). Assumed: a sweep prints a
  network once, a block has one signal and SAE is among the suites of RSN (`IsSweep`; an RSN element after
  an SAE suite would put the verdict back to `wpa2`); a report prints its event type, its address type, its
  address and then the rest, an address is of one kind, and a level is one that HCI has (`IsCapture`).

Only model-checked:

* all liveness properties (`HostRecovers`, `OneFoundThenAll`, `NextFrameReturns`,
  `SilentPackEndsTheRun`, `DeadPortEndsTheRun`, `OldSerialGoesAway`, `EndsReachEveryone`,
  `TunnelComesBack`, `RunEnds`, `ComesBack`, `NewestIsBooted`), which need fairness and ENABLED.

Every safety property of the passing runs is stated by a theorem.

## Not modelled

* The wire formats of time-correction (DNS, NTP, NTS-KE) and the decoding tables of the producers (field
  offsets, scaling, the CRC): byte strings to values, without state. A model of them would repeat them.
  What the models use of them is whether an answer is accepted.
* The ssh pair of `iroh-ssh` and its failsafe: the same `forward_bidi` over one TCP stream.
* `monitoring`, `thingspeak`, the DoH configuration, the store tunnels: declarative units and scripts
  that share no state. Declarative NixOS configuration and VM tests have no behaviour to check.
* A POST of the BMS daemon is bounded by `PostTime`: the socket timeout of `uds.rs` is per call, so a
  receiver that drips bytes could hold the daemon longer.

## Plan

1. Done: the modules above with their runs, the refinement of `PortArbiter` and the theorems listed.
2. Done: a theorem for every safety property of the passing runs. Next, what
   `BmsMonitoring` takes from `FrameReader` as a refinement.
3. Further models: the ssh pair and its failsafe; a composition of `SerialPorts` with the lifetimes of
   the daemons.
