---------------------------- MODULE SystemMetrics ----------------------------
(***************************************************************************)
(* packages/system-metrics: one run of the collector (main.rs, run).       *)
(*                                                                         *)
(* Found(group) is what the group's record function reads, where one that  *)
(* reads twice has both readings; a host is ordinary but for one group,    *)
(* because no two groups share a reading.  The DoH group is read from a    *)
(* journal that goes on growing during the run.                            *)
(***************************************************************************)
EXTENDS Collector, HostFacts, DnsProviders

CONSTANTS
  Ordinary,      \* group -> its readings on an ordinary host
  Readings,      \* group -> the readings there may be
  MetricLines    \* the command lines of the two units and of an operator

VARIABLES
  host,   \* the group this host is special in, and its readings there
  now     \* the wall clock as the run captured it when it started

metrics_vars == <<collector_vars, proxy_vars, host, now>>

Found(group) == IF host.group = group THEN host.reading ELSE Ordinary[group]

Groups ==
  <<"cpu", "memory", "filesystem", "drive", "generation", "host", "iroh_failsafe", "sensor",
    "unit", "timer", "journal", "time_provider", "dns_provider">>

\* Options::wants: no --only is everything.
wants(group) == options.only = {} \/ group \in options.only

\* What else a group is gated on: a tool, and something to report about.
Configured(group) ==
  CASE group = "iroh_failsafe" -> options.marker
    [] group = "unit" -> "systemctl" \in options.tools
    [] group = "timer" -> "busctl" \in options.tools
    [] group = "journal" -> "journalctl" \in options.tools
    [] group = "time_provider" -> "chronyc" \in options.tools /\ Found("time_provider").providers # <<>>
    [] group = "dns_provider" -> "journalctl" \in options.tools /\ options.doh
    [] OTHER -> TRUE

RecordsOf(group) ==
  CASE group = "cpu" -> <<cpu_record(Found("cpu"))>>
    [] group = "memory" -> <<memory_record(Found("memory"))>>
    [] group = "filesystem" -> filesystem_records(Found("filesystem"))
    [] group = "drive" -> drive_records([Found("drive") EXCEPT !.has_smartctl = "smartctl" \in options.tools])
    [] group = "generation" -> <<generation_record(Found("generation"))>>
    [] group = "host" -> <<host_record(Found("host"))>>
    [] group = "iroh_failsafe" ->
         <<iroh_failsafe_record([Found("iroh_failsafe") EXCEPT
             !.chain = IF "nft" \in options.tools THEN @ ELSE None])>>
    [] group = "sensor" -> sensor_records(Found("sensor"))
    [] group = "unit" -> unit_records(Found("unit"))
    [] group = "timer" -> timer_records(Found("timer"))
    [] group = "journal" -> journal_records(Found("journal"))
    [] group = "time_provider" -> time_provider_records(Found("time_provider"))
    [] group = "dns_provider" -> dns_provider_records(now)

-----------------------------------------------------------------------------
(***************************************************************************)
(* How the kernel and the tools render a host (external), as far as the    *)
(* truth of the records rests on it.  What is the case is in fields that   *)
(* no record function reads.                                               *)
(***************************************************************************)
CpuReading(h) ==
  \A stat \in {h.first, h.second} \ {None} :
    stat.busy \in Nat /\ stat.iowait \in Nat /\ stat.idle \in Nat \union {None}

FilesystemReading(h) == h.mounts \in Seq(Range(h.mounts))

\* A serial and a name lead to the drive they are of, and the block devices of
\* one drive show one serial.
DriveReading(h) ==
  LET Disks == {h.block[i] : i \in {j \in DOMAIN h.block : h.block[j].physical}}
      Reports == {d \in Range(h.scan) : d.node # None /\ d.report # None}
  IN  /\ h = [block |-> h.block, scan |-> h.scan, has_smartctl |-> h.has_smartctl]
      /\ h.scan \in Seq(Range(h.scan)) /\ h.scan # None
      /\ \A d \in Reports : parse_smart(d.report) # None
      /\ \A d \in Reports, e \in Disks :
           (disk_identity(e).serial \in {d.report.serial} \ {None} \/ smart_name_matches(d.node, e.node))
             => d.report.drive = e.drive
      /\ \A e, f \in Disks : e.drive = f.drive => disk_identity(e).serial = disk_identity(f).serial

\* The moment a unit became active is on the monotonic clock.
UnitReading(h) ==
  LET Rows == IF h.failing = None THEN {} ELSE Range(h.failing)
      Entered(u) == Opt(h.show[u], LAMBDA p : p["ActiveEnter"])
  IN  /\ h.watch \in Seq(Range(h.watch)) /\ \A i, j \in DOMAIN h.watch : h.watch[i] = h.watch[j] => i = j
      /\ h.failing # None => h.failing \in Seq(Range(h.failing))
      /\ h.monotonic \in Nat /\ h.wall \in Nat \union {None}
      /\ \A u \in Range(h.watch) \union {row.unit : row \in {r \in Rows : r.is_unit}} :
           /\ h.success[u] \in Nat \union {None}
           /\ \/ Entered(u) \in {None, 0, Infinity}
              \/ Entered(u) \in Nat /\ h.running[u] \in Nat /\ Entered(u) + h.running[u] = h.monotonic

\* A moment to come, on either clock, is when the timer is due.
TimerReading(h) ==
  LET Moment(t, i) == Opt(h.elapse[t], LAMBDA lines : IF i \in DOMAIN lines THEN lines[i] ELSE None)
      OnClock(clock, then, left) ==
        \/ then \in {None, 0, Infinity} \/ clock = None
        \/ clock \in Nat /\ then \in Nat /\ (then < clock \/ then - clock = left)
  IN  \A t \in Range(h.timers) :
        /\ h.monotonic # None
        /\ OnClock(h.monotonic, Moment(t, 1), h.due_in[t])
        /\ OnClock(h.wall, Moment(t, 2), h.due_in[t])

\* journalctl --priority=warning; no unit has the kernel's name.
JournalReading(lines) ==
  lines # None =>
    /\ lines \in Seq(Range(lines))
    /\ \A l \in Range(lines) \ {None} : l.unit # "kernel" /\ l.priority \in 0..4 \union {None}

\* A row that chrony prints in full is of the peer it names.
TimeProviderReading(h) ==
  LET sources == Or(h.sources, <<>>)
      authdata == Or(h.authdata, <<>>)
      Named(row, p) == row.complete /\ row.name = p.hostname
  IN  /\ sources \in Seq(Range(sources)) /\ authdata \in Seq(Range(authdata))
      /\ None \notin Range(parse_sources(sources)) \union Range(parse_authdata(authdata))
      /\ \A p \in Range(h.providers) :
           LET peer == h.peers[p.hostname]
           IN  /\ peer.reach \in 0..255 /\ peer.reach # None
               /\ \A row \in Range(sources) : Named(row, p) => parse_reach(row.reach) = peer.reach
               /\ \A row \in Range(authdata) : Named(row, p) => row.cookies = peer.cookies
               /\ peer.listed /\ h.sources # None => \E row \in Range(sources) : Named(row, p)

ReadingsOf(group) == {Ordinary[group]} \union (IF group \in DOMAIN Readings THEN Readings[group] ELSE {})

ASSUME ReadingsAssumption ==
  /\ \A h \in ReadingsOf("cpu") : CpuReading(h)
  /\ \A h \in ReadingsOf("filesystem") : FilesystemReading(h)
  /\ \A h \in ReadingsOf("drive") : DriveReading(h)
  /\ \A h \in ReadingsOf("unit") : UnitReading(h)
  /\ \A h \in ReadingsOf("timer") : TimerReading(h)
  /\ \A h \in ReadingsOf("journal") : JournalReading(h)
  /\ \A h \in ReadingsOf("time_provider") : TimeProviderReading(h)

-----------------------------------------------------------------------------
MetricsInit ==
  /\ CollectorInit(MetricLines)
  /\ host \in UNION {[group : {g}, reading : Readings[g]] : g \in DOMAIN Readings}
  /\ now = None
  /\ ProxyInit

\* run reads the clocks before it collects anything; its unit waits for the
\* clock to be set.
StartRun ==
  /\ synced
  /\ ParseArgs
  /\ now' = wall
  /\ UNCHANGED <<proxy_vars, host>>

\* The groups still to come, in their order.
Left == {i \in pos + 1..Len(Groups) : wants(Groups[i]) /\ Configured(Groups[i])}

CollectGroup ==
  /\ step = "collect"
  /\ Left # {}
  /\ \E i \in Left :
       /\ \A j \in Left : i <= j
       /\ pos' = i
       /\ records' = [records EXCEPT ![Groups[i]] = RecordsOf(Groups[i])]
  /\ UNCHANGED <<options, step, connection_vars, exit, proxy_vars, host, now>>

Post ==
  /\ \/ Publish(Left)
     \/ Connect
     \/ WriteRequest
     \/ ReadTimeout
     \/ ReadResponse
  /\ UNCHANGED <<proxy_vars, host, now>>

Receiving ==
  /\ Receiver
  /\ UNCHANGED <<proxy_vars, host, now>>

\* The proxy, in the runs that read its journal and until they have read it:
\* a run is over before a tick is.
ProxyStep ==
  /\ options.doh
  /\ \/ step = "args" /\ ProxyNext
     \/ step = "collect" /\ Left # {} /\ ProxyWithinTick
  /\ UNCHANGED <<collector_vars, host, now>>

MetricsNext ==
  \/ StartRun
  \/ CollectGroup
  \/ Post
  \/ Receiving
  \/ ProxyStep

MetricsSpec == MetricsInit /\ [][MetricsNext]_metrics_vars

\* What a run started by a unit does next.
UnitRun ==
  /\ options.unit
  /\ StartRun \/ CollectGroup \/ Post

-----------------------------------------------------------------------------
(***************************************************************************)
(* What the records say against what is the case.                          *)
(***************************************************************************)
\* The busy share of what passed between the samples, and unknown when no
\* tick did; never out of 0..100, whatever a CPU that went offline took along.
CpuTrue(h, r) ==
  LET Passed(f) == h.second[f] - h.first[f]
      total == Passed("busy") + Passed("idle") + Passed("iowait")
  IN  /\ r.utilization # None => r.utilization \in 0..100
      /\ (/\ parse_cpu_times(h.first) # None /\ parse_cpu_times(h.second) # None
          /\ \A f \in {"busy", "idle", "iowait"} : Passed(f) >= 0)
           => r.utilization = IF total = 0 THEN None ELSE (100 * Passed("busy")) \div total

\* Every filesystem that can be seen is reported once, under a path that
\* shows it and with its own size, however often it is mounted; except where
\* an excluded filesystem covers one that is not.
FilesystemsTrue(h, rs) ==
  LET Mounts == ToSet(h.mounts)
      Shown == {m \in Mounts : m = Visible(h.mounts, m.at) /\ m.fstype \notin h.excluded
                                /\ h.stat[m.device] # None}
      Covered == \E m \in Mounts : /\ m.fstype \notin h.excluded
                                   /\ Visible(h.mounts, m.at).fstype \in h.excluded
  IN  ~Covered =>
        /\ \A i \in DOMAIN rs :
             /\ rs[i].mount \in Shown
             /\ rs[i].total = h.stat[rs[i].mount.device].blocks * h.stat[rs[i].mount.device].frsize
        /\ \A m \in Shown :
             LET fsid == h.stat[m.device].fsid
                 Same(r) == IF fsid = 0 THEN r.mount = m ELSE r.fsid = fsid
             IN  Cardinality({i \in DOMAIN rs : Same(rs[i])}) = 1

\* Every drive is reported once per block device, with its own SMART report
\* where smartctl read one that its serial or its name leads to.
DrivesTrue(h, rs) ==
  /\ \A i \in DOMAIN rs : rs[i].smart # None => rs[i].smart.drive = rs[i].drive
  /\ \A i \in DOMAIN rs, j \in DOMAIN h.scan :
       LET d == h.scan[j]
       IN  ("smartctl" \in options.tools /\ d.node # None /\ smart_name_matches(d.node, rs[i].node) /\ d.report # None)
             => rs[i].smart # None
  /\ {rs[i].node : i \in DOMAIN rs} = {h.block[i].node : i \in {j \in DOMAIN h.block : h.block[j].physical}}

\* Watched and failing units are reported once each; an age on the monotonic
\* clock is right and no age is negative, whatever was done to the wall clock.
UnitsTrue(h, rs) ==
  /\ {rs[i].unit : i \in DOMAIN rs} = ToSet(h.watch) \union
        (IF h.failing = None THEN {} ELSE {h.failing[i].unit : i \in {j \in DOMAIN h.failing : h.failing[j].is_unit}})
  /\ \A i, j \in DOMAIN rs : rs[i].unit = rs[j].unit => i = j
  /\ \A i \in DOMAIN rs :
       /\ rs[i].active_enter # None => rs[i].active_enter = h.running[rs[i].unit]
       /\ rs[i].last_success # None => rs[i].last_success >= 0

\* A timer of one kind is due when systemd will start it.
TimersTrue(h, rs) ==
  \A i \in DOMAIN rs : rs[i].next # None => rs[i].next = h.due_in[rs[i].unit]

\* No message of the window is lost or counted twice, and the kernel's are
\* among them.
JournalTrue(lines, rs) ==
  LET Read == {i \in DOMAIN lines : lines[i] # None /\ lines[i].priority # None}
      Count(r) == r.counts["crit"] + r.counts["err"] + r.counts["warning"]
  IN  \A u \in (IF lines = None THEN {} ELSE {lines[i].unit : i \in Read}) :
        \E i \in DOMAIN rs :
          /\ rs[i].unit = Or(u, "kernel")
          /\ Count(rs[i]) = Cardinality({j \in Read : lines[j].unit = u})

\* A provider's figures are its own, whatever other sources chrony lists, and
\* a provider chrony says nothing of has none.
TimeProvidersTrue(h, rs) ==
  \A i \in DOMAIN rs :
    LET peer == h.peers[rs[i].provider.hostname]
    IN  /\ rs[i].reach # None => rs[i].reach = peer.reach /\ rs[i].reachable = (peer.reach # 0)
        /\ rs[i].cookies # None => rs[i].cookies = peer.cookies
        /\ (peer.listed /\ h.sources # None) => rs[i].reach # None

Collected(group) == wants(group) /\ Configured(group) /\ \E i \in 1..pos : Groups[i] = group

\* The records of a run are true of the host it ran on.
RecordsAreTrue ==
  /\ Collected("cpu") => CpuTrue(Found("cpu"), records["cpu"][1])
  /\ Collected("filesystem") => FilesystemsTrue(Found("filesystem"), records["filesystem"])
  /\ Collected("drive") => DrivesTrue(Found("drive"), records["drive"])
  /\ Collected("unit") => UnitsTrue(Found("unit"), records["unit"])
  /\ Collected("timer") => TimersTrue(Found("timer"), records["timer"])
  /\ Collected("journal") => JournalTrue(Found("journal"), records["journal"])
  /\ Collected("time_provider") => TimeProvidersTrue(Found("time_provider"), records["time_provider"])

\* See IsVerdict: DoH providers are called up or down after the last pass the
\* proxy made, by a run that reads the journal at any moment between two.
VerdictIsOfTheLastPass == IsVerdict(records["dns_provider"])
=============================================================================
