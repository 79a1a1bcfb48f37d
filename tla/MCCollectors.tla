---------------------------- MODULE MCCollectors ----------------------------
(***************************************************************************)
(* Instances of SystemMetrics and DetectedDevices for TLC: an ordinary     *)
(* host and hosts that differ from it in what one group finds, and what    *)
(* there may be around a host.  One of the two programs runs.              *)
(***************************************************************************)
EXTENDS SystemMetrics, DetectedDevices, TLC

CONSTANTS Garbage   \* text that is not what its parser expects

SeqsUpTo(S, n) == UNION {[1..k -> S] : k \in 0..n}

\* /proc/stat: readings that advance, stand still and run backwards.
Stat(busy, idle, iowait) == [busy |-> busy, idle |-> idle, iowait |-> iowait, cores |-> 2]
Cpus ==
  {[load |-> 1, first |-> a, second |-> b] :
     a \in {None, Stat(4, 4, 1), Stat(4, None, 0)},
     b \in {None} \union {Stat(busy, idle, iowait) : busy \in {2, 4, 6}, idle \in {2, 4, 5}, iowait \in {0, 1, 3}}}

Memories ==
  {[info |-> [MemTotal |-> 9, MemFree |-> free, MemAvailable |-> 5, SwapTotal |-> swap, SwapFree |-> swap],
    zram |-> zram, oom_kill |-> None] :
     free \in {None, 3}, swap \in {None, 2},
     zram \in {<<>>, <<[mm_stat |-> 1, disksize |-> 4], [mm_stat |-> None, disksize |-> 4]>>}}

\* Mount tables of up to three entries over two paths, with bind mounts, a
\* filesystem without an fsid, one that does not answer and an excluded one.
Devices ==
  "root" :> [fsid |-> 1, blocks |-> 5, frsize |-> 4, lifetime_kib |-> 7] @@
  "data" :> [fsid |-> 2, blocks |-> 9, frsize |-> 4, lifetime_kib |-> None] @@
  "nofsid" :> [fsid |-> 0, blocks |-> 3, frsize |-> 1, lifetime_kib |-> None] @@
  "gone" :> None @@
  "ram" :> [fsid |-> 3, blocks |-> 1, frsize |-> 1, lifetime_kib |-> None]
TypeOf == [root |-> "ext4", data |-> "f2fs", nofsid |-> "nfs", gone |-> "nfs", ram |-> "tmpfs"]
Mounts == {[device |-> d, at |-> at, fstype |-> TypeOf[d]] : d \in DOMAIN Devices, at \in {"/", "/mnt"}}
Filesystems ==
  {[mounts |-> ms, excluded |-> {"tmpfs"}, stat |-> Devices] : ms \in SeqsUpTo(Mounts, 3)}

\* Drives: an NVMe drive with one or two namespaces, a disk behind a USB
\* bridge with a serial of its own, one of a plain controller, an eMMC.
Node(family, number, namespace) == [family |-> family, number |-> number, namespace |-> namespace]
Text(text, padded) == [text |-> text, padded |-> padded, escaped |-> FALSE]
Blank == Text("", TRUE)
Entry(node, path, serial, drive) ==
  [node |-> node, physical |-> TRUE, path |-> path,
   udev |-> IF serial = None THEN None ELSE [serial |-> serial, model |-> [Text("m", FALSE) EXCEPT !.escaped = TRUE]],
   device_serial |-> serial, serial |-> None, device_model |-> None, device_name |-> Text("m", TRUE),
   stat |-> [i \in 1..14 |-> i], drive |-> drive]
Report(drive) ==
  [serial |-> Text(drive, FALSE), model |-> Text("m", FALSE), protocol |-> None, passed |-> TRUE,
   nvme_log |-> IF drive = "n" THEN "log" ELSE None,
   ata_table |-> <<[id |-> 5, raw |-> 1, when_failed |-> "now"], [id |-> 5, raw |-> 2, when_failed |-> "past"],
                   [id |-> 99, raw |-> 3, when_failed |-> "now"]>>,
   drive |-> drive]
Virtual == [Entry(Node("zram", 0, None), None, None, None) EXCEPT !.physical = FALSE]
Blocks ==
  {<<Virtual>> \o ns \o SelectSeq(<<a, b>>, LAMBDA e : e # None) :
     ns \in {[i \in 1..n |-> Entry(Node("nvme", 0, i), None, s, "n")] :
               n \in 1..2, s \in {None, Blank, Text("n", TRUE)}},
     a \in {None} \union {Entry(Node("sd", 0, None), "usb", s, "a") : s \in {None, Text("bridge", FALSE), Text("a", TRUE)}},
     b \in {None} \union {Entry(Node("sd", 1, None), "ata", s, "b") : s \in {None, Text("b", FALSE)}}}
Scans ==
  {SelectSeq(<<n, a, b>>, LAMBDA d : d # None) :
     n \in {None, [node |-> Node("nvme", 0, None), report |-> Report("n")]},
     a \in {None, [node |-> Node("sd", 0, None), report |-> Report("a")], [node |-> Node("sd", 0, None), report |-> None]},
     b \in {None, [node |-> Node("sd", 1, None), report |-> Report("b")], [node |-> None, report |-> Report("b")]}}
Drives == {[block |-> bs, scan |-> s, has_smartctl |-> TRUE] : bs \in Blocks, s \in Scans}

Generations ==
  {[profile |-> link, current_system |-> None, booted_system |-> None, profiles |-> names] :
     link \in {None, [kind |-> "system-link", number |-> 7], [kind |-> "other", number |-> 7]},
     names \in {None, {[kind |-> "system-link", number |-> 7], [kind |-> "other", number |-> 1]}}}
HostsFacts ==
  {[lock |-> lock, uptime |-> 3, kernel |-> None] :
     lock \in {None, <<>>, "common" :> [rev |-> None, last_modified |-> 4, ref |-> None]}}
Failsafes ==
  {[chain |-> chain, engaged |-> e, wall |-> w] :
     chain \in {None, {}, {"iroh-ssh-failsafe"}}, e \in {None, 3, 9}, w \in {None, 5}}

File(prefix, number, thresholds, suffix, raw) ==
  [name |-> [prefix |-> prefix, number |-> number, thresholds |-> thresholds, suffix |-> suffix], raw |-> raw]
Sensors ==
  {<<[chip_name |-> "chip", device |-> None, files |-> <<f, g>>]>> :
     f \in {File("in", 0, t, s, r) : t \in {<<>>, <<"lcrit">>, <<"crit", "hyst">>},
              s \in {"input", "alarm", "raw"}, r \in {None, 0, 1, 7, Garbage}},
     g \in {File("temp", None, <<>>, "input", 3), File("pwm", 1, <<>>, "input", 3)}}

\* Units: the monotonic clock reads 9, the wall clock 5; a success marker may
\* have been written before the wall clock was set back.
Shown(entered) == [ActiveState |-> "active", NRestarts |-> None, ActiveEnter |-> entered]
UnitHosts ==
  {[watch |-> <<"backup.service">>, failing |-> failing, monotonic |-> 9, wall |-> w,
    show |-> "backup.service" :> a @@ "crash.service" :> b,
    running |-> "backup.service" :> 3 @@ "crash.service" :> 9,
    success |-> "backup.service" :> done @@ "crash.service" :> None] :
     failing \in {None, <<>>, <<[is_unit |-> TRUE, unit |-> "crash.service"],
                               [is_unit |-> TRUE, unit |-> "backup.service"],
                               [is_unit |-> FALSE, unit |-> Garbage]>>},
     w \in {None, 5}, a \in {None, Shown(6), Shown(0)}, b \in {None, Shown(None), Shown(Infinity)},
     done \in {None, 2, 8}}

TimerHosts ==
  {[timers |-> <<"t.timer">>, monotonic |-> 9, wall |-> w,
    elapse |-> "t.timer" :> e, due_in |-> "t.timer" :> 4] :
     w \in {None, 5},
     e \in {None, <<>>, <<Infinity, 9>>, <<13, Infinity>>, <<13, 0>>, <<Infinity, Infinity>>,
            <<8, Infinity>>, <<Infinity, 2>>, <<None, 9>>}}

Journals ==
  {None} \union SeqsUpTo({None} \union {[unit |-> u, priority |-> p] : u \in {None, "a.service"}, p \in {None, 1, 3, 4}}, 3)

\* chrony: the registers of two providers and of a reference clock that only
\* `sources` lists, in octal digits.
Octal(n) == IF n < 8 THEN <<n>> ELSE IF n < 64 THEN <<n \div 8, n % 8>>
            ELSE <<n \div 64, (n \div 8) % 8, n % 8>>
Provider(name, hostname, operator) == [name |-> name, hostname |-> hostname, operator |-> operator]
Peer(reach, cookies, listed) == [reach |-> reach, cookies |-> cookies, listed |-> listed]
SourceRow(name, peer) ==
  [complete |-> TRUE, name |-> name, state |-> "*", reach |-> Octal(peer.reach), last_rx |-> Infinity]
AuthRow(name, peer) == [complete |-> TRUE, name |-> name, last_ke |-> 5, cookies |-> peer.cookies]
ChronyOf(a, b, first, tail) ==
  LET Rows(Row(_, _)) == SelectSeq(<<<<"h1", a>>, <<"h2", b>>>>, LAMBDA r : r[2].listed)
      Render(Row(_, _)) == [i \in DOMAIN Rows(Row) |-> Row(Rows(Row)[i][1], Rows(Row)[i][2])]
  IN  [providers |-> <<Provider("ptb1", "h1", "ptb"), Provider("net", "h2", "netnod")>>,
       peers |-> "h1" :> a @@ "h2" :> b,
       sources |-> first \o Render(SourceRow) \o tail, authdata |-> Render(AuthRow)]
RefClock == SourceRow("PPS", Peer(255, None, TRUE))
Cut == [RefClock EXCEPT !.complete = FALSE]
Chronies ==
  {ChronyOf(Peer(ra, 8, la), Peer(rb, 3, lb), first, tail) :
     ra \in {0, 8, 127, 255}, la \in BOOLEAN, rb \in {1, 10, 255}, lb \in BOOLEAN,
     first \in {<<>>, <<RefClock>>}, tail \in {<<>>, <<Cut>>}}
  \union {[ChronyOf(Peer(0, 8, TRUE), Peer(1, 3, TRUE), <<>>, <<>>) EXCEPT !.sources = None]}

OrdinaryHost ==
  [cpu |-> [load |-> 1, first |-> Stat(4, 4, 1), second |-> Stat(5, 5, 1)],
   memory |-> CHOOSE m \in Memories : TRUE,
   filesystem |-> [mounts |-> <<[device |-> "root", at |-> "/", fstype |-> "ext4"]>>,
                   excluded |-> {"tmpfs"}, stat |-> Devices],
   drive |-> CHOOSE d \in Drives : TRUE,
   generation |-> CHOOSE g \in Generations : TRUE,
   host |-> CHOOSE f \in HostsFacts : TRUE,
   iroh_failsafe |-> CHOOSE f \in Failsafes : TRUE,
   sensor |-> CHOOSE s \in Sensors : TRUE,
   unit |-> CHOOSE u \in UnitHosts : TRUE,
   timer |-> CHOOSE t \in TimerHosts : TRUE,
   journal |-> <<>>,
   time_provider |-> CHOOSE c \in Chronies : TRUE]

AllReadings ==
  [cpu |-> Cpus, memory |-> Memories, filesystem |-> Filesystems, drive |-> Drives,
   generation |-> Generations, host |-> HostsFacts, iroh_failsafe |-> Failsafes, sensor |-> Sensors,
   unit |-> UnitHosts, timer |-> TimerHosts, journal |-> Journals, time_provider |-> Chronies]

\* The main unit, the DoH unit, a dry run without tools, and lines that do not run.
Line(unit, only, tools, doh, dry) ==
  [program |-> "metrics", line |-> "run", unit |-> unit, only |-> only, tools |-> tools, marker |-> TRUE, doh |-> doh, dry_run |-> dry]
GroupLine(g) ==
  Line(FALSE, {g}, {"systemctl", "busctl", "journalctl", "smartctl", "nft", "chronyc"}, FALSE, TRUE)
MainLine == Line(TRUE, {}, {"systemctl", "busctl", "journalctl", "smartctl", "nft", "chronyc"}, FALSE, FALSE)
DohLine == Line(FALSE, {"dns_provider"}, {"journalctl"}, TRUE, TRUE)
DryLine == Line(FALSE, {}, {"systemctl", "chronyc"}, FALSE, TRUE)
AllLines == {GroupLine(g) : g \in DOMAIN AllReadings} \union {MainLine, DohLine, DryLine, [DryLine EXCEPT !.line = "help"], [DryLine EXCEPT !.line = "invalid"]}
TwoProviders == <<"p", "q">>

-----------------------------------------------------------------------------
\* A bus with a root hub, a hub at its port 1 and devices at the hub's ports;
\* every hub's interface has its ports as children, a converter's its node.
Sysfs(name, bus, children) == [name |-> name, bus |-> bus, devnum |-> 1, children |-> children]
Below(name, dir, dev, children) ==
  [name |-> name, dir |-> dir, dev |-> dev, state |-> "attached", children |-> children]
Ports(prefix) == {Below(prefix \o <<"-port", n>>, TRUE, FALSE, {}) : n \in {"1", "2", "x"}}
Tty == {Below(<<"tty">>, TRUE, FALSE, {Below(<<"ttyUSB0">>, TRUE, TRUE, {})}), Below(<<"power">>, TRUE, FALSE, {})}
RootHub(b) == <<Sysfs(<<"usb", b>>, b, {}), Sysfs(<<b, "-", "0", ":", "1.0">>, b, Ports(<<"usb", b>>))>>
Hub(b) == <<Sysfs(<<b, "-", "1">>, b, {}), Sysfs(<<b, "-", "1", ":", "1.0">>, b, Ports(<<b, "-", "1">>))>>
Converter(path, b) == <<Sysfs(path, b, {}), Sysfs(path \o <<":", "1.0">>, b, Tty)>>
Trees ==
  {RootHub("1") \o a \o b \o c :
     a \in {<<>>, Converter(<<"1", "-", "2">>, "1")},
     b \in {<<>>} \union {Hub("1") \o d \o e :
              d \in {<<>>, Converter(<<"1", "-", "1", ".", "1">>, "1")},
              e \in {<<>>, Converter(<<"1", "-", "1", ".", "2">>, "1")}},
     c \in {<<>>, RootHub("2"), RootHub("2") \o Converter(<<"2", "-", "1">>, "2"), RootHub("2") \o Hub("2")}}

\* Networks, each with the lines iw prints for it in one of two orders.
IwLine(of, prefix, value) == [prefix |-> prefix, value |-> value, of |-> of, associated |-> FALSE]
Network(b, wpa, rsn, rsnFirst, load, ht) ==
  LET first == IF rsnFirst THEN rsn ELSE wpa
      second == IF rsnFirst THEN wpa ELSE rsn
  IN  <<IwLine(b, "BSS", b), IwLine(b, "last seen", None), IwLine(b, "signal", -50), IwLine(b, "SSID", "")>>
        \o first \o load \o second \o ht
Networks(b) ==
  {Network(b, wpa, rsn, rsnFirst, load, ht) :
     wpa \in {<<>>, <<IwLine(b, "WPA", ""), IwLine(b, "suites", {"PSK"})>>},
     rsn \in {<<>>} \union {<<IwLine(b, "RSN", ""), IwLine(b, "suites", s)>> : s \in {{"PSK"}, {"PSK", "SAE"}}},
     rsnFirst \in BOOLEAN, load \in {<<>>, <<IwLine(b, "BSS", None)>>},
     ht \in {<<>>, <<IwLine(b, "ht", ""), IwLine(b, "ht", ""), IwLine(b, "vht", "")>>}}
Sweeps == Networks("b1") \union {m \o n : m \in Networks("b1"), n \in Networks("b2")}

\* What btmon prints: reports of one or two devices, the host's own address,
\* and the copy of a report on the management channel.
MonLine(of, prefix, value) == [prefix |-> prefix, value |-> value, of |-> of]
Ad(address, kind, pdu, rssi) == [address |-> address, kind |-> kind, pdu |-> pdu, rssi |-> rssi]
PrintAd(ad, of) ==
  <<MonLine(of, "Event type", ad.pdu), MonLine(of, "Address type", ad.kind), MonLine(of, "Address", ad.address),
    MonLine(of, "Flags", "f"), MonLine(of, "RSSI", ad.rssi)>>
AdReport(ads) ==
  <<MonLine(None, ">", None), MonLine(None, "LE Advertising Report", None)>>
    \o FoldLeft(LAMBDA out, ad : out \o PrintAd(ad, ad), <<>>, ads)
OwnAddress == <<MonLine(None, "<", None), MonLine(None, "Address", "own")>>
MgmtCopy(ad) == <<MonLine(None, "@", None), MonLine(None, "Address", ad.address), MonLine(None, "RSSI", ad.rssi + 1)>>
A1 == Ad("a", "public", "ADV_IND", -50)
A2 == Ad("a", "public", "SCAN_RSP", -70)
B1 == Ad("b", "random", "ADV_NONCONN_IND", -90)
B2 == Ad("b", "random", None, -60)
Events == {AdReport(<<A1>>), AdReport(<<A2>>), AdReport(<<B2>>), AdReport(<<A1, B1>>), AdReport(<<B2, A2>>),
           OwnAddress, MgmtCopy(A1), MgmtCopy(B1)}
Captures ==
  {<<>>} \union Events \union {d \o e : d \in Events, e \in Events}
    \union {d \o own \o e : d \in Events, own \in {OwnAddress, MgmtCopy(A1)}, e \in Events}

PlainSite ==
  [usb |-> None, usb_then |-> None, dev |-> <<>>, sweep |-> Network("b1", <<>>, <<>>, TRUE, <<>>, <<>>),
   adapter |-> TRUE, btmon |-> TRUE, scans |-> TRUE, capture |-> AdReport(<<A1>>), held |-> TRUE]
AllSites ==
  [usb |-> {[PlainSite EXCEPT !.usb = t, !.usb_then = t] : t \in Trees}
             \union {[PlainSite EXCEPT !.usb = RootHub("1") \o Hub("1")]},
   wifi |-> {[PlainSite EXCEPT !.sweep = s] : s \in Sweeps \union {None}}
              \union {[PlainSite EXCEPT !.dev = d] : d \in {None, <<[interface |-> "p2p", type |-> "AP"]>>}},
   ble |-> {[PlainSite EXCEPT !.capture = c] : c \in Captures}
             \union {[PlainSite EXCEPT !.adapter = a, !.btmon = b, !.scans = s, !.held = h] :
                       a \in BOOLEAN, b \in BOOLEAN, s \in BOOLEAN, h \in BOOLEAN}]
SiteSet == UNION {AllSites[g] : g \in DOMAIN AllSites}

DeviceLine(only, unit, dry) == [DryLine EXCEPT !.program = "devices", !.only = only, !.unit = unit, !.dry_run = dry]
LineOf == [usb |-> DeviceLine({"usb", "usb_port"}, FALSE, TRUE), wifi |-> DeviceLine({"wifi"}, FALSE, TRUE),
           ble |-> DeviceLine({"ble"}, FALSE, TRUE)]
DeviceUnit == DeviceLine({"usb", "usb_port", "wifi", "ble"}, TRUE, FALSE)
AllDeviceLines == {LineOf[g] : g \in DOMAIN LineOf} \union {DeviceUnit}

-----------------------------------------------------------------------------
devices_own == <<site, wifi_vars, ble_vars>>
metrics_own == <<proxy_vars, host, now>>
vars == <<collector_vars, metrics_own, devices_own>>

NoDevices ==
  /\ site = PlainSite /\ radio = "managed" /\ look = None /\ swept = {}
  /\ monitor = "none" /\ scanned = None /\ written = 0 /\ captured = None /\ torn = "line"
NoMetrics ==
  /\ host = [group |-> "journal", reading |-> <<>>] /\ now = None
  /\ ProxyInit /\ synced
Init ==
  \/ /\ NoDevices /\ MetricsInit
     /\ IF \E g \in DOMAIN AllReadings : options = GroupLine(g) THEN options.only = {host.group}
        ELSE host = [group |-> "journal", reading |-> <<>>]
     /\ ~options.doh => synced
  \/ /\ NoMetrics /\ DevicesInit
     /\ IF options = DeviceUnit THEN site \in {[PlainSite EXCEPT !.adapter = a] : a \in BOOLEAN}
        ELSE \E g \in DOMAIN LineOf : options = LineOf[g] /\ site \in AllSites[g]
     /\ radio = "managed" \/ ("wifi" \in options.only /\ site.sweep = PlainSite.sweep)
MetricsRun == options.program = "metrics" /\ MetricsNext /\ UNCHANGED devices_own
DevicesRun == options.program = "devices" /\ DevicesNext /\ UNCHANGED metrics_own
Next ==
  \/ MetricsRun
  \/ DevicesRun
  \/ step = "exited" /\ UNCHANGED vars
Spec == Init /\ [][Next]_vars
FairSpec ==
  /\ Spec
  /\ WF_vars(options.program = "metrics" /\ UnitRun /\ UNCHANGED devices_own)
  /\ WF_vars(options.program = "devices" /\ DevicesUnitRun /\ UNCHANGED metrics_own)
=============================================================================
