--------------------------- MODULE DetectedDevices ---------------------------
(***************************************************************************)
(* packages/detected-devices: one run of the collector (main.rs).  USB is  *)
(* read from sysfs twice, devices and then ports; WiFi is swept after a    *)
(* look at the mode of the radio; Bluetooth is overheard by a btmon that a *)
(* thread of its own reads while bluetoothctl scans.                       *)
(*                                                                         *)
(* site is what there is to detect.  The access point of the connectivity  *)
(* fallback, `iw`, btmon and bluetoothctl are other programs (external):   *)
(* the access point may come up between the look and the sweep, and a      *)
(* child of btmon may outlive it and keep the pipe open.                   *)
(***************************************************************************)
EXTENDS Collector, DeviceScans

CONSTANTS
  Sites,         \* what a host may have around it
  DeviceLines    \* the command lines of the unit and of an operator

ASSUME SysfsAssumption ==
  \A tree \in {s.usb : s \in Sites} \ {None} : IsSysfs(tree)

\* site.dev is what `iw dev` says of the other interfaces.
ASSUME InterfacesAssumption ==
  \A s \in Sites : s.dev # None =>
    s.dev \in Seq(Range(s.dev)) /\ \A block \in Range(s.dev) : block.interface # "wlan0"

\* What is missing is no text, no level and no scan.
ASSUME TextAssumption ==
  None \notin {"ap-mode", "interface-down", "busy", "AP", "failed", "ok", "wpa", "wpa2", "wpa3", "public", "random"}

ASSUME SweepAssumption ==
  \A s \in Sites : s.sweep # None => IsSweep(s.sweep)

ASSUME CaptureAssumption ==
  /\ None \notin -127..20
  /\ \A s \in Sites :
       /\ IsCapture(s.capture)
       /\ \A n \in 0..Len(s.capture) : \A tear \in Tears(s.capture, n) : parse_btmon(CutAt(s.capture, n, tear)) # None

VARIABLES
  site,      \* [usb, usb_then, dev, sweep, adapter, btmon, scans, capture, held]
  radio,     \* the mode of the WiFi interface
  look,      \* the answer of `iw dev`, None before it and "failed" without one
  swept,     \* the modes the radio was swept in
  monitor,   \* btmon: "none", "running" or "reaped"
  scanned,   \* how bluetoothctl ended, or None
  written,   \* how much of the capture btmon has written and the thread sent
  captured,  \* how many whole lines of it drain returned, or None before
  torn       \* where the capture ends: after a "line", within its "value" or a "character"

ble_vars == <<monitor, scanned, written, captured, torn>>
wifi_vars == <<radio, look, swept>>
devices_vars == <<collector_vars, site, wifi_vars, ble_vars>>

DeviceGroups == <<"usb", "usb_port", "wifi", "ble">>
ScanOf == [wifi |-> "wifi_scan", ble |-> "ble_scan"]

\* What a group is gated on: without its options it has no records.
Wanted(group) == group \in options.only

DevicesInit ==
  /\ CollectorInit(DeviceLines)
  /\ site \in Sites
  /\ radio \in {"managed", "AP", "down"}
  /\ look = None /\ swept = {}
  /\ monitor = "none" /\ scanned = None /\ written = 0 /\ captured = None /\ torn = "line"

DevicesLeft == {i \in pos + 1..Len(DeviceGroups) : Wanted(DeviceGroups[i])}

\* The next group is g.
At(g) ==
  /\ step = "collect"
  /\ DevicesLeft # {}
  /\ DeviceGroups[Min(DevicesLeft)] = g

\* The group's records are complete.
AddRecords(g, rs) ==
  /\ pos' = Min(DevicesLeft)
  /\ records' = [records EXCEPT ![g] = rs]
  /\ UNCHANGED <<options, step, connection_vars, exit>>

\* The record of a scan, and those of what it found.
AddScan(g, scan, rs) ==
  /\ pos' = Min(DevicesLeft)
  /\ records' = [records EXCEPT ![ScanOf[g]] = <<scan>>, ![g] = rs]
  /\ UNCHANGED <<options, step, connection_vars, exit>>

StartDevices ==
  /\ ParseArgs
  /\ UNCHANGED <<site, wifi_vars, ble_vars>>

\* usb_records and usb_port_records each list the directory: what is plugged
\* in or pulled out between them is in one listing only.
CollectUsb ==
  /\ \/ At("usb") /\ AddRecords("usb", usb_records(site.usb))
     \/ At("usb_port") /\ AddRecords("usb_port", usb_port_records(site.usb_then))
  /\ UNCHANGED <<site, wifi_vars, ble_vars>>

-----------------------------------------------------------------------------
WifiScan(ran, reason, count) ==
  [type |-> "wifi_scan", ran |-> ran, reason |-> reason, bss_count |-> count]

\* `iw dev`: what it prints, or nothing when it fails.
LookAtRadio ==
  /\ At("wifi")
  /\ look = None
  /\ look' = IF site.dev = None THEN "failed" ELSE radio
  /\ UNCHANGED <<collector_vars, site, radio, swept, ble_vars>>

\* Mutant: the answer of `iw dev` is not read.
NothingBlocks == None

\* Nothing blocks a sweep when the answer of `iw dev` is missing.
Blocked ==
  IF look = "failed" THEN None
  ELSE scan_blocked_reason(
         Append(site.dev, [interface |-> "wlan0", type |-> IF look = "down" THEN None ELSE look]), "wlan0")

\* The radio cannot leave its channel: no sweep, and the record says why.
SkipSweep ==
  /\ At("wifi")
  /\ look # None /\ Blocked # None
  /\ AddScan("wifi", WifiScan(FALSE, Blocked, None), <<>>)
  /\ UNCHANGED <<site, wifi_vars, ble_vars>>

\* `iw dev wlan0 scan`: it fails while another sweep is under way.
Sweep ==
  /\ At("wifi")
  /\ look # None /\ Blocked = None
  /\ swept' = swept \union {radio}
  /\ IF site.sweep = None \/ radio # "managed"
     THEN AddScan("wifi", WifiScan(FALSE, "busy", None), <<>>)
     ELSE LET bsses == parse_scan(site.sweep)
          IN  AddScan("wifi", WifiScan(TRUE, None, Len(bsses)), bsses)
  /\ UNCHANGED <<site, radio, look, ble_vars>>

\* The connectivity fallback turns the radio into an access point, at any time.
AccessPointStarts ==
  /\ At("wifi")
  /\ radio = "managed"
  /\ radio' = "AP"
  /\ UNCHANGED <<collector_vars, site, look, swept, ble_vars>>

-----------------------------------------------------------------------------
BleScan(ran, reason, scan) ==
  [type |-> "ble_scan", ran |-> ran, reason |-> reason,
   public |-> Opt(scan, LAMBDA s : Heard(s, LAMBDA a : a.kind = "public")),
   random |-> Opt(scan, LAMBDA s : Heard(s, LAMBDA a : a.kind = "random")),
   connectable |-> Opt(scan, LAMBDA s : Heard(s, LAMBDA a : connectable(a) = TRUE)),
   reports_total |-> Opt(scan, LAMBDA s : s.total),
   strongest |-> Opt(scan, strongest_dbm),
   buckets |-> Opt(scan, distance_buckets)]

ble_skipped(reason) == AddScan("ble", BleScan(FALSE, reason, None), <<>>)

\* The address of a random device is not an attribute, so no series is keyed
\* by it.
BleDevice(address, a) ==
  [type |-> IF a.kind = "public" THEN "ble_device.public" ELSE "ble_device.random",
   attribute |-> IF a.kind = "public" THEN address ELSE None,
   address |-> address, connectable |-> connectable(a), device |-> a]

\* Without an adapter, or without a btmon that starts, there is no scan.
SkipBle ==
  /\ At("ble")
  /\ monitor = "none"
  /\ \/ ~site.adapter /\ ble_skipped("no-adapter")
     \/ site.adapter /\ ~site.btmon /\ ble_skipped("adapter-down")
  /\ UNCHANGED <<site, wifi_vars, ble_vars>>

\* btmon is started before the scan is, with a thread that reads its pipe.
SpawnMonitor ==
  /\ At("ble")
  /\ monitor = "none" /\ site.adapter /\ site.btmon
  /\ monitor' = "running"
  /\ UNCHANGED <<collector_vars, site, wifi_vars, scanned, written, captured, torn>>

\* btmon (or the child that outlives it) writes and the thread sends it on.
MonitorWrites ==
  /\ At("ble")
  /\ written < Len(site.capture)
  /\ monitor = "running" \/ (monitor = "reaped" /\ site.held)
  /\ written' = written + 1
  /\ UNCHANGED <<collector_vars, site, wifi_vars, monitor, scanned, captured, torn>>

\* bluetoothctl returns, after its timeout or at once.
ScanEnds ==
  /\ At("ble")
  /\ monitor = "running" /\ scanned = None
  /\ scanned' = IF site.scans THEN "ok" ELSE "failed"
  /\ UNCHANGED <<collector_vars, site, wifi_vars, monitor, written, captured, torn>>

\* kill and wait.
ReapMonitor ==
  /\ At("ble")
  /\ monitor = "running" /\ scanned # None
  /\ monitor' = "reaped"
  /\ UNCHANGED <<collector_vars, site, wifi_vars, scanned, written, captured, torn>>

\* The thread has met the end of the pipe, or CAPTURE_GRACE is over; the last
\* line is as far as btmon had written and the thread had sent it.
drain ==
  /\ At("ble")
  /\ monitor = "reaped" /\ captured = None
  /\ captured' = written
  /\ torn' \in Tears(site.capture, written)
  /\ UNCHANGED <<collector_vars, site, wifi_vars, monitor, scanned, written>>

Capture == CutAt(site.capture, captured, torn)

\* A scan that failed is reported as such, whatever was overheard.
ReportBle ==
  /\ At("ble")
  /\ captured # None
  /\ IF scanned = "failed" THEN ble_skipped("controller-busy")
     ELSE LET scan == parse_btmon(Capture)
          IN  AddScan("ble", BleScan(TRUE, None, scan),
                      [address \in DOMAIN scan.found |-> BleDevice(address, scan.found[address])])
  /\ UNCHANGED <<site, wifi_vars, ble_vars>>

-----------------------------------------------------------------------------
PostDevices ==
  /\ \/ Publish(DevicesLeft)
     \/ Connect
     \/ WriteRequest
     \/ ReadTimeout
     \/ ReadResponse
  /\ UNCHANGED <<site, wifi_vars, ble_vars>>

ReceivingDevices ==
  /\ Receiver
  /\ UNCHANGED <<site, wifi_vars, ble_vars>>

CollectDevices ==
  \/ CollectUsb
  \/ LookAtRadio
  \/ SkipSweep
  \/ Sweep
  \/ SkipBle
  \/ SpawnMonitor
  \/ ScanEnds
  \/ ReapMonitor
  \/ drain
  \/ ReportBle

DevicesNext ==
  \/ StartDevices
  \/ CollectDevices
  \/ AccessPointStarts
  \/ MonitorWrites
  \/ PostDevices
  \/ ReceivingDevices

DevicesSpec == DevicesInit /\ [][DevicesNext]_devices_vars

\* What a run started by a unit does next.
DevicesUnitRun ==
  /\ options.unit
  /\ StartDevices \/ CollectDevices \/ PostDevices

-----------------------------------------------------------------------------
Done(g) == g \in options.only /\ \E i \in 1..pos : DeviceGroups[i] = g

OfType(g, type) == {records[g][i] : i \in {j \in DOMAIN records[g] : records[g][j].type = type}}

\* Every interface record leads to a device record, and every device below a
\* root hub is hosted by exactly one port record, on its own bus: the join
\* usb.rs exists for, when nothing was plugged between the two listings.
PortsLeadToDevices ==
  (Done("usb_port") /\ site.usb = site.usb_then) =>
    LET devices == OfType("usb", "usb")
        ports == OfType("usb_port", "usb_port")
    IN  /\ \A r \in OfType("usb", "usb.interface") : \E d \in devices : d.path = r.path
        /\ \A d \in devices : d.path[1] # "usb" =>
             /\ Cardinality({r \in ports : r.path = d.path}) = 1
             /\ \A r \in ports : r.path = d.path => r.bus = d.bus

\* A BSS as it was rendered: line.of is the network the line is about.
WifiTrue ==
  LET lines == site.sweep
      Bsses == DOMAIN records["wifi"]
      About(r, prefix) == {lines[i] : i \in {j \in DOMAIN lines : lines[j].of = r.bssid /\ lines[j].prefix = prefix}}
      Strongest(r) ==
        IF \E l \in About(r, "suites") : "SAE" \in l.value THEN "wpa3"
        ELSE IF About(r, "RSN") # {} THEN "wpa2"
        ELSE IF About(r, "WPA") # {} THEN "wpa" ELSE "open"
  IN  /\ {records["wifi"][i].bssid : i \in Bsses} = {lines[i].of : i \in DOMAIN lines}
      /\ \A i \in Bsses :
           LET r == records["wifi"][i]
           IN  /\ r.security = Strongest(r)
               /\ ToSet(r.standards) = {s \in Standards : About(r, s) # {}}
               /\ \A l \in About(r, "signal") : r.fields["signal"] = l.value

\* The devices of a capture but the spoilt ones, whose last line was cut:
\* line.of is the report a line is part of, None outside of the reports (the
\* host's own address, the management channel's copy of a report).
BleTrueBut(spoilt) ==
  LET lines == SubSeq(site.capture, 1, captured)
      Where(prefix) == {i \in DOMAIN lines : lines[i].prefix = prefix /\ lines[i].of # None}
      Levels(address) == {lines[i].value : i \in {j \in Where("RSSI") : lines[j].of.address = address}}
      Reports(address) == {i \in Where("Address") : lines[i].value = address}
      total == Cardinality(Where("Address"))
      heard == {lines[i].value : i \in Where("Address")}
      scan == records["ble_scan"][1]
      devices == {records["ble"][address] : address \in DOMAIN records["ble"]}
      said == {d.address : d \in devices}
  IN  /\ scan.reports_total \in total..total + Cardinality(spoilt)
      /\ heard \subseteq said /\ said \subseteq heard \union spoilt
      /\ \A d \in devices : d.address \notin spoilt =>
           LET first == lines[Min(Reports(d.address))].of
               named == {i \in Reports(d.address) : lines[i].of.pdu # None}
           IN  /\ d.device.reports = Cardinality(Reports(d.address))
               /\ d.device.kind = first.kind
               /\ d.device.pdu = IF named = {} THEN None ELSE lines[Min(named)].of.pdu
               /\ d.device.rssi_max = IF Levels(d.address) = {} THEN None ELSE Max(Levels(d.address))
               /\ (d.attribute = None) = (first.kind = "random")
      /\ scan.buckets[1] + scan.buckets[2] + scan.buckets[3]
           = Cardinality({d \in devices : d.device.rssi_max # None})

\* The device a cut line gives a false address or level to.
Spoilt ==
  IF torn # "value" THEN {}
  ELSE LET line == site.capture[captured + 1]
       IN  IF line.of = None THEN {}
           ELSE IF line.prefix = "Address" THEN {Fragment(line).value}
           ELSE IF line.prefix = "RSSI" THEN {line.of.address}
           ELSE {}

\* The records of a sweep and of a scan window say what was on the air: no
\* network or device is missing, doubled, invented, or has another's values,
\* wherever btmon and the pipe cut the capture.  A line that was cut spoils at
\* most the one device it is about (a capture cut within a character is lost,
\* and says nothing).
ScansSayWhatWasHeard ==
  /\ (Done("wifi") /\ records["wifi_scan"][1].ran) => WifiTrue
  /\ (Done("ble") /\ records["ble_scan"][1].ran /\ torn # "character") => BleTrueBut(Spoilt)

\* "a truncated capture parses into the reports it does contain" (the comment on
\* drain): the devices of a scan that ran are those of the whole lines, cut or not.
CutCapturesAreRead == (Done("ble") /\ records["ble_scan"][1].ran) => BleTrueBut({})

\* Each radio is accounted for by one scan record, which says that the scan
\* ran exactly when it did; no sweep is asked of a radio that was seen serving
\* the access point, and no btmon outlives the group.
ScansAreAccountedFor ==
  /\ Done("wifi") =>
       LET scan == records["wifi_scan"][1]
       IN  /\ scan.ran = (swept = {"managed"} /\ site.sweep # None)
           /\ scan.reason = "ap-mode" => radio = "AP"
           /\ look = "AP" => swept = {}
  /\ Done("ble") =>
       LET scan == records["ble_scan"][1]
       IN  /\ scan.ran = (scanned = "ok")
           /\ (~scan.ran) => records["ble"] = <<>>
           /\ monitor # "running"
=============================================================================
