------------------------------ MODULE HostFacts ------------------------------
(***************************************************************************)
(* What packages/system-metrics makes of the host it runs on: one operator *)
(* per parser (collect.rs, systemd.rs, chrony.rs, smart.rs, block.rs,      *)
(* sensors.rs) and per record function of main.rs.                         *)
(*                                                                         *)
(* A text is the structure its parser looks for; None is a file, a tool or *)
(* a field that cannot be read, and the null it becomes in a record.  A    *)
(* name that a parser takes apart (a device node, a hwmon file) is a       *)
(* record of its parts, all others are model values.                       *)
(***************************************************************************)
EXTENDS Optional

CONSTANT Infinity    \* USEC_INFINITY, and chrony's "never"

-----------------------------------------------------------------------------
(***************************************************************************)
(* Processor and memory.                                                   *)
(***************************************************************************)
\* The aggregate `cpu` line: iowait is idle time, guest time is already part
\* of the busy time; fewer than four columns are no sample.
parse_cpu_times(stat) ==
  IF stat = None \/ stat.idle = None THEN None
  ELSE [total |-> stat.busy + stat.idle + stat.iowait, idle |-> stat.idle + stat.iowait]

utilization_percent(first, second) ==
  LET total == second.total - first.total
      idle == second.idle - first.idle
  IN  IF total < 0 \/ idle < 0 \/ total = 0 THEN None
      ELSE (Max({total - idle, 0}) * 100) \div total

\* h: the load, and /proc/stat before and after the sleep.
cpu_record(h) ==
  LET first == parse_cpu_times(h.first)
      second == parse_cpu_times(h.second)
  IN  [load |-> h.load,
       cores |-> Opt(h.first, LAMBDA s : s.cores),
       utilization |-> IF first = None \/ second = None THEN None
                       ELSE utilization_percent(first, second)]

\* kB to bytes; the three memory lines must be there, swap may be absent.
parse_meminfo(info) ==
  IF info = None \/ \E f \in {"MemTotal", "MemFree", "MemAvailable"} : info[f] = None THEN None
  ELSE [f \in DOMAIN info |-> IF info[f] = None THEN 0 ELSE info[f] * 1024]

\* The devices whose attribute can be read and parsed, summed.
zram_sum(devices, attribute) ==
  FoldLeft(LAMBDA sum, d : sum + Or(d[attribute], 0), 0, devices)

memory_record(h) ==
  [memory |-> parse_meminfo(h.info),
   zramswap_memory |-> zram_sum(h.zram, "mm_stat"),
   zramswap_total |-> zram_sum(h.zram, "disksize"),
   oom_kill |-> h.oom_kill]

-----------------------------------------------------------------------------
(***************************************************************************)
(* Filesystems.  A mount is [device, at, fstype]; h.stat gives what        *)
(* statvfs and stat say of the device visible at a path, or None.          *)
(***************************************************************************)
\* The last mount at each mountpoint, in its place.  An excluded type is
\* passed over before the mountpoint is compared.
parse_mounts(mounts, excluded) ==
  LET Listed == {i \in DOMAIN mounts : mounts[i].fstype \notin excluded}
      last == {i \in Listed : \A j \in Listed : mounts[j].at = mounts[i].at => j <= i}
  IN  [i \in last |-> mounts[i]]

\* The kernel (external): a path shows the mount made last at it.
Visible(mounts, at) == mounts[Max({i \in DOMAIN mounts : mounts[i].at = at})]
usage(h, at) == h.stat[Visible(h.mounts, at).device]

lifetime_written_bytes(h, mount) ==
  IF mount.fstype \notin {"ext4", "f2fs"} THEN None
  ELSE Opt(usage(h, mount.at).lifetime_kib, LAMBDA kib : kib * 1024)

\* One record per fsid, of the first mount that answers; a filesystem with no
\* fsid is reported per mount.
filesystem_records(h) ==
  LET mounts == parse_mounts(h.mounts, h.excluded)
      Usage(i) == usage(h, mounts[i].at)
      answers == {i \in DOMAIN mounts : Usage(i) # None}
      first == {i \in answers : Usage(i).fsid = 0 \/ \A j \in answers : Usage(j).fsid = Usage(i).fsid => i <= j}
      Report(i) ==
        [mount |-> mounts[i], fsid |-> Usage(i).fsid, total |-> Usage(i).blocks * Usage(i).frsize,
         lifetime |-> lifetime_written_bytes(h, mounts[i])]
  IN  [i \in first |-> Report(i)]

-----------------------------------------------------------------------------
(***************************************************************************)
(* Drives.  A node is [family, number, namespace]; smartctl names an NVMe  *)
(* drive by its controller, a node without a namespace.                    *)
(***************************************************************************)
\* A string as a device hands it out: padded to the width of its field, or
\* with udev's escapes in it.
decode_udev_enc(raw) == [raw EXCEPT !.escaped = FALSE]
identity(raw) ==
  IF raw = None \/ raw.text = "" THEN None ELSE [raw EXCEPT !.padded = FALSE]

\* Eleven columns at least; discards and flushes came with later kernels.
parse_stat(columns) ==
  IF columns = None \/ Len(columns) < 11 THEN None
  ELSE [read_sectors |-> columns[3], write_sectors |-> columns[7],
        discard_sectors |-> IF Len(columns) >= 14 THEN columns[14] ELSE None,
        flushes |-> IF Len(columns) >= 16 THEN columns[16] ELSE None]

\* The bus a disk hangs off.
drive_kind(disk) ==
  CASE disk.node.family = "nvme" -> "nvme"
    [] disk.node.family = "mmcblk" -> IF disk.path = "SD" THEN "sd"
                                      ELSE IF disk.path = "MMC" THEN "emmc" ELSE None
    [] disk.node.family = "sd" -> IF disk.path = "usb" THEN "usb"
                                  ELSE IF disk.path = "ata" THEN "sata" ELSE None
    [] OTHER -> None

\* SCSI disks are looked up in udev's database, the others in sysfs, whose
\* serial is on the device or on the disk itself.
disk_identity(disk) ==
  IF disk.node.family = "sd"
  THEN [serial |-> Opt(disk.udev, LAMBDA e : identity(e.serial)),
        model |-> Opt(disk.udev, LAMBDA e : Opt(e.model, LAMBDA m : identity(decode_udev_enc(m))))]
  ELSE [serial |-> identity(Or(disk.device_serial, disk.serial)),
        model |-> identity(Or(disk.device_model, disk.device_name))]

\* Only what has a device behind it is a drive.
block_disks(entries) ==
  FilterMap(entries, LAMBDA e : e.physical, LAMBDA e :
         [node |-> e.node, kind |-> drive_kind(e), serial |-> disk_identity(e).serial,
          model |-> disk_identity(e).model, stat |-> parse_stat(e.stat), drive |-> e.drive])

SmartKind(report) ==
  IF report.protocol = "NVMe" THEN "nvme"
  ELSE IF report.protocol \in {"ATA", "SATA"} THEN "sata"
  ELSE IF report.nvme_log # None THEN "nvme"
  ELSE IF report.ata_table # None THEN "sata"
  ELSE None

\* The ids this producer names, the last raw value of each, and the counts of
\* attributes that fail or have failed, named or not.
sata_health(table) ==
  Opt(table, LAMBDA t :
    LET Named == {i \in DOMAIN t : t[i].id \in {5, 12} /\ t[i].raw # None}
    IN  [attributes |-> [id \in {t[i].id : i \in Named} |->
                           t[Max({i \in Named : t[i].id = id})].raw],
         failing_now |-> Cardinality({i \in DOMAIN t : t[i].when_failed = "now"}),
         failed_past |-> Cardinality({i \in DOMAIN t : t[i].when_failed = "past"})])

parse_smart(report) ==
  IF report = None THEN None
  ELSE [serial |-> report.serial, model |-> report.model, kind |-> SmartKind(report),
        passed |-> report.passed,
        nvme |-> IF SmartKind(report) = "nvme" THEN report.nvme_log ELSE None,
        sata |-> IF SmartKind(report) = "sata" THEN sata_health(report.ata_table) ELSE None,
        drive |-> report.drive]

\* smartctl --scan-open, then one call per device that has a name.
smart_drives(scan) ==
  IF scan = None THEN <<>>
  ELSE FilterMap(scan, LAMBDA d : d.node # None /\ d.report # None,
                       LAMBDA d : [node |-> d.node, smart |-> parse_smart(d.report)])

smart_name_matches(scan, disk) ==
  \/ scan = disk
  \/ /\ scan.family = "nvme" /\ scan.namespace = None
     /\ disk.namespace # None
     /\ disk = [scan EXCEPT !.namespace = disk.namespace]

\* Mutant: the n-th report is the n-th disk's.
MatchByPosition(disks, smart) ==
  [d \in DOMAIN disks |-> IF d \in DOMAIN smart THEN d ELSE 0]

\* For each disk the index of the report that describes it, or 0: by serial,
\* and by name among the reports no serial claimed.
match_smart(disks, smart) ==
  LET by_serial == [d \in DOMAIN disks |->
        IF disks[d].serial = None THEN 0
        ELSE Position(smart, LAMBDA s : s.smart.serial = disks[d].serial)]
      Claimed == {by_serial[d] : d \in DOMAIN disks}
      ByName(d) == {i \in DOMAIN smart : i \notin Claimed
                                         /\ smart_name_matches(smart[i].node, disks[d].node)}
  IN  [d \in DOMAIN disks |->
        IF by_serial[d] # 0 THEN by_serial[d]
        ELSE IF ByName(d) # {} THEN Min(ByName(d)) ELSE 0]

\* SMART first, the block devices after it.
drive_records(h) ==
  LET smart == IF h.has_smartctl THEN smart_drives(h.scan) ELSE <<>>
      disks == block_disks(h.block)
      matched == match_smart(disks, smart)
      Report(d) ==
        LET disk == disks[d]
            drive == IF matched[d] = 0 THEN None ELSE smart[matched[d]].smart
        IN  [node |-> disk.node,
             sn |-> Or(Opt(drive, LAMBDA s : s.serial), disk.serial),
             model |-> Or(Opt(drive, LAMBDA s : s.model), disk.model),
             kind |-> Or(disk.kind, Opt(drive, LAMBDA s : s.kind)),
             written |-> Opt(disk.stat, LAMBDA s : s.write_sectors * 512),
             drive |-> disk.drive, smart |-> drive]
  IN  [d \in DOMAIN disks |-> Report(d)]

-----------------------------------------------------------------------------
(***************************************************************************)
(* Sensors.  A hwmon file name is [prefix, number, thresholds, suffix]:    *)
(* `in0_lcrit_alarm` is "in", 0, <<"lcrit">>, "alarm".                     *)
(***************************************************************************)
body_key ==
  [temp |-> "milli_celsius", fan |-> "rpm", in |-> "milli_volts", curr |-> "milli_amps",
   power |-> "micro_watts", energy |-> "micro_joules", humidity |-> "milli_percent"]

\* An input has nothing between its number and its suffix, an alarm at most
\* one threshold: what is before the last underscore must end in digits.
parse_sensor_filename(name) ==
  IF name.prefix \notin DOMAIN body_key \/ name.number = None THEN None
  ELSE IF name.suffix = "input" /\ name.thresholds = <<>>
  THEN [kind |-> name.prefix, key |-> body_key[name.prefix], threshold |-> None]
  ELSE IF name.suffix = "alarm" /\ Len(name.thresholds) <= 1
  THEN [kind |-> "alarm", key |-> "triggered",
        threshold |-> IF name.thresholds = <<>> THEN None ELSE name.thresholds[1]]
  ELSE None

\* One record per file that is a reading and can be read; a value that is no
\* number, or an alarm that is neither 0 nor 1, is null.
sensor_records(chips) ==
  LET Reading(c, f) ==
        LET p == parse_sensor_filename(f.name)
        IN  [chip |-> c.chip_name, device |-> c.device, sensor |-> f.name,
             kind |-> p.kind, threshold |-> p.threshold, key |-> p.key,
             value |-> IF p.kind # "alarm" THEN (IF f.raw \in Int THEN f.raw ELSE None)
                       ELSE IF f.raw \in {0, 1} THEN f.raw = 1 ELSE None]
      Readable(f) == f.raw # None /\ parse_sensor_filename(f.name) # None
      files == UNION {{i} \X {j \in DOMAIN chips[i].files : Readable(chips[i].files[j])} : i \in DOMAIN chips}
  IN  [f \in files |-> Reading(chips[f[1]], chips[f[1]].files[f[2]])]

-----------------------------------------------------------------------------
(***************************************************************************)
(* Moments and ages.                                                       *)
(***************************************************************************)
\* 0 is "never happened", USEC_INFINITY "never will" and "no such unit".
parse_micros(raw) == IF raw \in {None, 0, Infinity} THEN None ELSE raw

seconds_since(now, then) == IF now < then THEN None ELSE now - then
seconds_until(now, then) == IF then < now THEN None ELSE then - now

\* A marker file's wall-clock seconds.
MarkerAge(now, marker) ==
  IF marker = None \/ now = None THEN None ELSE seconds_since(now, marker)

\* The profile link points at system-<N>-link once something has set it.
parse_generation(link) == IF link.kind = "system-link" THEN link.number ELSE None

generation_record(h) ==
  [current |-> Opt(h.profile, parse_generation),
   current_system |-> h.current_system, booted_system |-> h.booted_system,
   count |-> Opt(h.profiles, LAMBDA names : Cardinality({n \in names : n.kind = "system-link"}))]

\* What the lock says of one input; a path: input has no revision.
parse_flake_lock(lock, input) ==
  IF lock = None \/ input \notin DOMAIN lock THEN None
  ELSE lock[input]

host_record(h) ==
  LET locked == parse_flake_lock(h.lock, "common")
  IN  [uptime |-> h.uptime, kernel |-> h.kernel,
       rev |-> Opt(locked, LAMBDA l : l.rev),
       last_modified |-> Opt(locked, LAMBDA l : l.last_modified),
       ref |-> Opt(locked, LAMBDA l : l.ref)]

\* The firewall chain is the set of tags of its rules.
iroh_failsafe_record(h) ==
  [port_22_open |-> Opt(h.chain, LAMBDA tags : "iroh-ssh-failsafe" \in tags),
   last_engaged |-> MarkerAge(h.wall, h.engaged)]

\* The watch list in its order, then what fails and is not there yet.
units_to_report(watch, failing) ==
  LET Unit(i) == IF i <= Len(watch) THEN watch[i] ELSE failing[i - Len(watch)].unit
      rows == IF failing = None THEN {}
              ELSE {Len(watch) + j : j \in {i \in DOMAIN failing : failing[i].is_unit}}
      new == {i \in rows : \A j \in DOMAIN watch \union rows : Unit(j) = Unit(i) => i <= j}
  IN  [i \in DOMAIN watch \union new |-> Unit(i)]

\* A property that is empty is as good as one that is not there.
unit_records(h) ==
  LET Property(u, name) == Opt(h.show[u], LAMBDA p : p[name])
      Report(u) ==
        [unit |-> u,
         active_state |-> Property(u, "ActiveState"),
         n_restarts |-> Property(u, "NRestarts"),
         active_enter |-> Opt(parse_micros(Property(u, "ActiveEnter")),
                              LAMBDA then : seconds_since(h.monotonic, then)),
         last_success |-> MarkerAge(h.wall, h.success[u])]
      Units == units_to_report(h.watch, h.failing)
  IN  [i \in DOMAIN Units |-> Report(Units[i])]

\* Next elapse: the monotonic one when there is one to come, else the
\* realtime one.  h.elapse[t] is what busctl prints, or None.
timer_records(h) ==
  LET Elapse(t, i) == Opt(h.elapse[t], LAMBDA lines : IF i \in DOMAIN lines
                                                      THEN parse_micros(lines[i]) ELSE None)
      Monotonic(t) == Opt(Elapse(t, 1), LAMBDA then : seconds_until(h.monotonic, then))
      Realtime(t) == IF h.wall = None THEN None
                     ELSE Opt(Elapse(t, 2), LAMBDA then : seconds_until(h.wall, then))
  IN  [i \in DOMAIN h.timers |->
        [unit |-> h.timers[i], next |-> Or(Monotonic(h.timers[i]), Realtime(h.timers[i]))]]

-----------------------------------------------------------------------------
(***************************************************************************)
(* The journal, and chrony's sources.                                      *)
(***************************************************************************)
\* A line that does not parse, or has no priority, is passed over; a message
\* with no unit is the kernel's; crit is crit and worse.
parse_journal_counts(lines) ==
  LET Read == {i \in DOMAIN lines : lines[i] # None /\ lines[i].priority # None}
      Unit(i) == Or(lines[i].unit, "kernel")
      Severity(i) == IF lines[i].priority <= 2 THEN "crit"
                     ELSE IF lines[i].priority = 3 THEN "err"
                     ELSE IF lines[i].priority = 4 THEN "warning" ELSE "quiet"
  IN  [unit \in {Unit(i) : i \in Read} |->
        [severity \in {"crit", "err", "warning"} |->
           Cardinality({i \in Read : Unit(i) = unit /\ Severity(i) = severity})]]

journal_records(lines) ==
  IF lines = None THEN <<>>
  ELSE LET counts == parse_journal_counts(lines)
       IN  [u \in DOMAIN counts |-> [unit |-> u, counts |-> counts[u]]]

\* The reachability register is printed in octal and must fit eight bits.
parse_reach(digits) ==
  LET value == FoldLeft(LAMBDA v, d : 8 * v + d, 0, digits)
  IN  IF value > 255 THEN None ELSE value

interval_seconds(raw) == IF raw = Infinity THEN None ELSE raw

state_name ==
  [selected |-> "*", combined |-> "+", selectable |-> "-", falseticker |-> "x",
   jittery |-> "~", unselectable |-> "?"]
StateOf(char) ==
  IF \E s \in DOMAIN state_name : state_name[s] = char
  THEN CHOOSE s \in DOMAIN state_name : state_name[s] = char ELSE None

\* Rows cut short are dropped.
parse_sources(rows) ==
  FilterMap(rows, LAMBDA f : f.complete, LAMBDA f :
         [name |-> f.name, state |-> StateOf(f.state), reach |-> parse_reach(f.reach),
          last_rx |-> interval_seconds(f.last_rx)])
parse_authdata(rows) ==
  FilterMap(rows, LAMBDA f : f.complete, LAMBDA f :
         [name |-> f.name, last_ke |-> interval_seconds(f.last_ke), cookies |-> f.cookies])

\* One status per configured provider, joined to both reports by hostname.
statuses(providers, sources, authdata) ==
  LET Source(p) == Find(parse_sources(sources), LAMBDA r : r.name = p.hostname)
      Auth(p) == Find(parse_authdata(authdata), LAMBDA r : r.name = p.hostname)
      Status(p) ==
        [provider |-> p,
         reachable |-> Opt(Source(p), LAMBDA r : Opt(r.reach, LAMBDA n : n # 0)),
         reach |-> Opt(Source(p), LAMBDA r : r.reach),
         state |-> Opt(Source(p), LAMBDA r : r.state),
         last_rx |-> Opt(Source(p), LAMBDA r : r.last_rx),
         cookies |-> Opt(Auth(p), LAMBDA r : r.cookies),
         last_ke |-> Opt(Auth(p), LAMBDA r : r.last_ke)]
  IN  [i \in DOMAIN providers |-> Status(providers[i])]

\* chronyc that does not run is an empty report.
time_provider_records(h) ==
  statuses(h.providers, Or(h.sources, <<>>), Or(h.authdata, <<>>))
=============================================================================
