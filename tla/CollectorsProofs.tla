--------------------------- MODULE CollectorsProofs ---------------------------
(***************************************************************************)
(* What is proved of the two collectors, system-metrics and                *)
(* detected-devices.                                                       *)
(***************************************************************************)
EXTENDS SystemMetrics, DetectedDevices, NaturalsInduction, WellFoundedInduction,
  FiniteSetTheorems, SequenceTheorems, TLAPS

(***************************************************************************)
(* Least-number principle, stated for a set.                               *)
(***************************************************************************)
LEMMA LeastNatural ==
  ASSUME NEW T \in SUBSET Nat, T # {}
  PROVE  \E m \in T : \A n \in T : m <= n
<1> DEFINE less == OpToRel(<, Nat)
<1>1. \A n, m \in Nat : n < m => <<n, m>> \in less
  BY DEF OpToRel
<1>2. IsWellFoundedOn(less, Nat)
  BY NatLessThanWellFounded
<1> HIDE DEF less
<1>3. PICK m \in T : \A n \in T : ~(<<n, m>> \in less)
  BY <1>2, WFMin
<1>4. \A n \in T : ~(n < m)
  BY <1>1, <1>3
<1> QED BY <1>4

-----------------------------------------------------------------------------
(***************************************************************************)
(* Delivery.                                                               *)
(***************************************************************************)
\* Before the request is out there is no answer, and what is known of the
\* receiver is what it answered: it keeps all that it did not reject.
Heeded ==
  /\ step \in {"args", "collect", "connect", "request", "response", "exited"}
  /\ exit # None => step = "exited"
  /\ step \in {"args", "collect", "connect", "request"} => reply = None /\ seen = NothingSeen
  /\ seen \in NothingSeen..WholeSeen /\ (seen # NothingSeen => reply # None)
  /\ reply # None /\ reply.status = 200 => stored = build_request \ reply.rejected

\* A success is one of the answer.
Succeeded == exit = "ok" /\ ~options.dry_run => reply # None /\ Delivered

DeliveryInv == Heeded /\ Succeeded

LEMMA DeliveryInit ==
  ASSUME NEW lines, CollectorInit(lines), None # "ok"
  PROVE  DeliveryInv
BY DEF CollectorInit, DeliveryInv, Heeded, Succeeded, NothingSeen, WholeSeen

(***************************************************************************)
(* What the collection of a group changes is of no concern to the answer.  *)
(***************************************************************************)
LEMMA DeliveryCollects ==
  ASSUME DeliveryInv, step = "collect", UNCHANGED <<options, step, connection_vars, exit>>
  PROVE  DeliveryInv'
BY DEF DeliveryInv, Heeded, Succeeded, connection_vars, Delivered, decode_rejections

LEMMA DeliveryUnchanged ==
  ASSUME DeliveryInv, UNCHANGED collector_vars
  PROVE  DeliveryInv'
BY DEF DeliveryInv, Heeded, Succeeded, collector_vars, Delivered, decode_rejections, build_request

(***************************************************************************)
(* The steps both programs share.                                          *)
(***************************************************************************)
LEMMA DeliverySteps ==
  ASSUME DeliveryInv, None # "ok", NEW left,
         \/ ParseArgs \/ Publish(left) \/ Connect \/ WriteRequest \/ ReadTimeout \/ ReadResponse
         \/ Receiver
  PROVE  DeliveryInv'
<1> USE DEF DeliveryInv, connection_vars
<1>1. CASE ParseArgs \/ Publish(left) \/ Connect \/ WriteRequest \/ ReadTimeout
  <2>1. UNCHANGED <<records, reply, seen, stored, options>>
    BY <1>1 DEF ParseArgs, Publish, Connect, WriteRequest, ReadTimeout
  <2>2. build_request' = build_request
    BY <2>1 DEF build_request
  <2>3. Heeded'
    BY <1>1, <2>1, <2>2 DEF ParseArgs, Publish, Connect, WriteRequest, ReadTimeout, Exit, Heeded
  <2>4. Succeeded'
    BY <1>1, <2>1 DEF ParseArgs, Publish, Connect, WriteRequest, ReadTimeout, Exit, Heeded, Succeeded
  <2> QED BY <2>3, <2>4
<1>2. CASE ReadResponse
  <2>1. UNCHANGED <<records, reply, seen, stored, options>> /\ step' = "exited"
    BY <1>2 DEF ReadResponse, Exit
  <2>2. build_request' = build_request /\ (Delivered' <=> Delivered)
    BY <2>1 DEF build_request, Delivered, decode_rejections
  <2>3. Heeded'
    BY <2>1, <2>2 DEF Heeded
  <2>4. seen \in Nat /\ (Delivered => seen >= HeadSeen)
    BY DEF Heeded, Delivered, NothingSeen, WholeSeen
  <2>5. Delivered => reply # None
    BY <2>4 DEF Heeded, HeadSeen, NothingSeen
  <2>6. Succeeded'
    BY <1>2, <2>1, <2>2, <2>5 DEF ReadResponse, Exit, Succeeded
  <2> QED BY <2>3, <2>6
<1>3. CASE Receiver
  <2>1. UNCHANGED <<records, options, step, exit>> /\ step = "response"
    BY <1>3 DEF Receiver, Receive, Answer, Close
  <2>2. build_request' = build_request
    BY <2>1 DEF build_request
  <2>3. exit = None
    BY <2>1 DEF Heeded
  <2>4. Succeeded'
    BY <2>1, <2>3 DEF Succeeded
  <2>5. Heeded'
    BY <1>3, <2>1, <2>2 DEF Receiver, Receive, Answer, Close, Heeded, NothingSeen, WholeSeen
  <2> QED BY <2>4, <2>5
<1> QED BY <1>1, <1>2, <1>3

LEMMA DeliveryTold ==
  ASSUME DeliveryInv
  PROVE  ExitTellsDelivery
<1> SUFFICES ASSUME exit = "ok", ~options.dry_run, ~(seen = HeadSeen /\ reply.rejected # {})
             PROVE  stored = build_request
  BY DEF ExitTellsDelivery
<1>1. reply # None /\ reply.status = 200 /\ decode_rejections = {}
  BY DEF DeliveryInv, Succeeded, Delivered
<1>2. reply.rejected = {}
  BY <1>1, NoneAssumption DEF decode_rejections
<1> QED BY <1>1, <1>2 DEF DeliveryInv, Heeded

LEMMA NoneIsNoText == None # "ok"
BY TextAssumption

(***************************************************************************)
(* A run of system-metrics that ends with success has had every record     *)
(* kept, whatever it collected and however the receiver stalls and dies.   *)
(***************************************************************************)
THEOREM MetricsAreDelivered == MetricsSpec => []ExitTellsDelivery
<1>1. MetricsInit => DeliveryInv
  BY DeliveryInit, NoneIsNoText DEF MetricsInit
<1>2. DeliveryInv /\ [MetricsNext]_metrics_vars => DeliveryInv'
  <2> SUFFICES ASSUME DeliveryInv, [MetricsNext]_metrics_vars PROVE DeliveryInv'
    OBVIOUS
  <2>1. CASE CollectGroup
    BY <2>1, DeliveryCollects DEF CollectGroup
  <2>2. CASE StartRun \/ Post \/ Receiving
    BY <2>2, DeliverySteps, NoneIsNoText DEF StartRun, Post, Receiving
  <2>3. CASE ProxyStep \/ UNCHANGED metrics_vars
    BY <2>3, DeliveryUnchanged DEF ProxyStep, metrics_vars
  <2> QED BY <2>1, <2>2, <2>3 DEF MetricsNext
<1>3. DeliveryInv => ExitTellsDelivery
  BY DeliveryTold
<1> QED BY <1>1, <1>2, <1>3, PTL DEF MetricsSpec

(***************************************************************************)
(* The same of detected-devices.                                           *)
(***************************************************************************)
THEOREM DevicesAreDelivered == DevicesSpec => []ExitTellsDelivery
<1>1. DevicesInit => DeliveryInv
  BY DeliveryInit, NoneIsNoText DEF DevicesInit
<1>2. DeliveryInv /\ [DevicesNext]_devices_vars => DeliveryInv'
  <2> SUFFICES ASSUME DeliveryInv, [DevicesNext]_devices_vars PROVE DeliveryInv'
    OBVIOUS
  <2>1. CASE CollectUsb \/ SkipSweep \/ Sweep \/ SkipBle \/ ReportBle
    <3>1. step = "collect" /\ UNCHANGED <<options, step, connection_vars, exit>>
      BY <2>1 DEF CollectUsb, SkipSweep, Sweep, SkipBle, ReportBle, ble_skipped, At, AddRecords, AddScan
    <3> QED BY <3>1, DeliveryCollects
  <2>2. CASE StartDevices \/ PostDevices \/ ReceivingDevices
    BY <2>2, DeliverySteps, NoneIsNoText DEF StartDevices, PostDevices, ReceivingDevices
  <2>3. CASE \/ LookAtRadio \/ SpawnMonitor \/ ScanEnds \/ ReapMonitor \/ drain
             \/ AccessPointStarts \/ MonitorWrites \/ UNCHANGED devices_vars
    BY <2>3, DeliveryUnchanged
    DEF LookAtRadio, SpawnMonitor, ScanEnds, ReapMonitor, drain, AccessPointStarts, MonitorWrites, devices_vars
  <2> QED BY <2>1, <2>2, <2>3 DEF DevicesNext, CollectDevices
<1>3. DeliveryInv => ExitTellsDelivery
  BY DeliveryTold
<1> QED BY <1>1, <1>2, <1>3, PTL DEF DevicesSpec

-----------------------------------------------------------------------------
(***************************************************************************)
(* The groups of detected-devices, one after the other.                    *)
(***************************************************************************)
LEMMA LeastMember ==
  ASSUME NEW T \in SUBSET Nat, T # {}
  PROVE  Min(T) \in T /\ \A n \in T : Min(T) <= n
<1>1. \E m \in T : \A n \in T : m <= n
  BY LeastNatural
<1> QED BY <1>1 DEF Min

\* The place of a group in the order of collection.
Place == [usb |-> 1, usb_port |-> 2, wifi |-> 3, ble |-> 4]

LEMMA Groups4 ==
  /\ Len(DeviceGroups) = 4
  /\ DeviceGroups[1] = "usb" /\ DeviceGroups[2] = "usb_port"
  /\ DeviceGroups[3] = "wifi" /\ DeviceGroups[4] = "ble"
  /\ Place["usb"] = 1 /\ Place["usb_port"] = 2 /\ Place["wifi"] = 3 /\ Place["ble"] = 4
BY DEF DeviceGroups, Place

(***************************************************************************)
(* The group that is next was asked for and comes after those collected.   *)
(***************************************************************************)
LEMMA NextGroup ==
  ASSUME pos \in Nat, NEW g \in {"usb", "usb_port", "wifi", "ble"}, At(g)
  PROVE  /\ Min(DevicesLeft) = Place[g] /\ pos < Place[g] /\ g \in options.only /\ step = "collect"
         /\ \A h \in {"usb", "usb_port", "wifi", "ble"} :
              h \in options.only /\ Place[h] < Place[g] => Place[h] <= pos
<1>1. DevicesLeft \in SUBSET Nat /\ DevicesLeft # {}
  BY Groups4 DEF DevicesLeft, At
<1> DEFINE m == Min(DevicesLeft)
<1>2. m \in DevicesLeft /\ DeviceGroups[m] = g
  BY <1>1, LeastMember DEF At
<1>3. m \in 1..4 /\ pos < m /\ g \in options.only
  <2> HIDE DEF m
  <2> QED BY <1>2, Groups4 DEF DevicesLeft, Wanted
<1>4. m = Place[g]
  <2> HIDE DEF m
  <2> QED BY <1>2, <1>3, Groups4
<1>5. ASSUME NEW h \in {"usb", "usb_port", "wifi", "ble"}, h \in options.only, Place[h] < m
      PROVE  Place[h] <= pos
  <2>1. ~(Place[h] \in DevicesLeft)
    <3>1. \A n \in DevicesLeft : m <= n
      BY <1>1, LeastMember
    <3>2. Place[h] \in Nat /\ m \in Nat
      BY <1>3, Groups4
    <3> HIDE DEF m
    <3> QED BY <1>5, <3>1, <3>2
  <2> HIDE DEF m
  <2> QED BY <1>5, <2>1, Groups4 DEF DevicesLeft, Wanted
<1> QED BY <1>3, <1>4, <1>5 DEF At

(***************************************************************************)
(* A group is done when it was asked for and the run is past its place.    *)
(***************************************************************************)
LEMMA DoneAt ==
  ASSUME pos \in Nat, NEW g \in {"usb", "usb_port", "wifi", "ble"}
  PROVE  Done(g) <=> g \in options.only /\ Place[g] <= pos
BY Groups4 DEF Done

-----------------------------------------------------------------------------
(***************************************************************************)
(* The radios.                                                             *)
(***************************************************************************)
PlacesOK ==
  /\ pos \in Nat /\ site \in Sites
  /\ records = [g \in GroupNames |-> records[g]]

\* An access point that `iw dev` showed is still up, and nothing is swept
\* before the group is collected.
Looked ==
  /\ look = "AP" => radio = "AP"
  /\ look # None /\ look # "failed" => site.dev # None
  /\ pos < Place["wifi"] => swept = {}

\* btmon is reaped after the scan has ended, and read after that.
Monitored ==
  /\ monitor \in {"none", "running", "reaped"}
  /\ monitor = "none" => scanned = None
  /\ scanned \in {None, "ok", "failed"}
  /\ monitor = "reaped" => scanned # None
  /\ captured # None => monitor = "reaped"

ScansInv == PlacesOK /\ Looked /\ Monitored /\ ScansAreAccountedFor

(***************************************************************************)
(* What `iw dev` says of wlan0 decides: an access point blocks the sweep,  *)
(* and nothing else is called one.                                         *)
(***************************************************************************)
LEMMA BlockedBy ==
  ASSUME site \in Sites, look # "failed" => site.dev # None
  PROVE  /\ look = "AP" => Blocked # None
         /\ Blocked = "ap-mode" => look = "AP"
<1>1. CASE look = "failed"
  BY <1>1, TextAssumption DEF Blocked
<1>2. CASE look # "failed"
  <2> DEFINE own == [interface |-> "wlan0", type |-> IF look = "down" THEN None ELSE look]
             dev == Append(site.dev, own)
             found == {i \in DOMAIN dev : dev[i].interface = "wlan0"}
  <2>1. site.dev \in Seq(Range(site.dev)) /\ \A block \in Range(site.dev) : block.interface # "wlan0"
    BY <1>2, InterfacesAssumption
  <2>2. /\ Len(dev) \in Nat \ {0} /\ dev[Len(dev)] = own /\ DOMAIN dev = 1..Len(dev)
        /\ \A i \in 1..(Len(dev) - 1) : dev[i] \in Range(site.dev)
    <3> HIDE DEF own
    <3> QED BY <2>1
  <2>3. found = {Len(dev)}
    <3>1. \A i \in 1..(Len(dev) - 1) : dev[i].interface # "wlan0"
      BY <2>1, <2>2
    <3>2. dev[Len(dev)].interface = "wlan0"
      BY <2>2
    <3> HIDE DEF dev
    <3> QED BY <2>2, <3>1, <3>2
  <2>4. Min(found) = Len(dev)
    <3> HIDE DEF dev, found
    <3>1. found \in SUBSET Nat /\ found # {}
      BY <2>2, <2>3
    <3>2. Min(found) \in found
      BY <3>1, LeastMember
    <3> QED BY <2>3, <3>2
  <2>5. Find(dev, LAMBDA b : b.interface = "wlan0") = own
    <3>1. Position(dev, LAMBDA b : b.interface = "wlan0") = Len(dev)
      <4> HIDE DEF dev
      <4> QED BY <2>3, <2>4 DEF Position
    <3> HIDE DEF dev
    <3> QED BY <2>2, <3>1 DEF Find
  <2>6. Blocked = scan_blocked_reason(dev, "wlan0")
    BY <1>2 DEF Blocked
  <2>7. Blocked = IF own = None \/ own.type = None THEN "interface-down"
                  ELSE IF own.type = "managed" THEN None
                  ELSE IF own.type = "AP" THEN "ap-mode" ELSE "interface-down"
    <3> HIDE DEF own, dev
    <3> QED BY <2>5, <2>6 DEF scan_blocked_reason
  <2>8. own.type = (IF look = "down" THEN None ELSE look)
    OBVIOUS
  <2> HIDE DEF own
  <2> QED BY <2>7, <2>8, TextAssumption
<1> QED BY <1>1, <1>2

LEMMA ScansInit == DevicesInit => ScansInv
<1> SUFFICES ASSUME DevicesInit PROVE ScansInv
  OBVIOUS
<1>1. pos = 0 /\ PlacesOK
  BY DEF DevicesInit, CollectorInit, PlacesOK
<1>2. ~Done("wifi") /\ ~Done("ble")
  BY <1>1, DoneAt, Groups4
<1> QED BY <1>1, <1>2, TextAssumption, Groups4
        DEF ScansInv, DevicesInit, Looked, Monitored, ScansAreAccountedFor

(***************************************************************************)
(* The records of a group that is done do not change.                      *)
(***************************************************************************)
LEMMA StepsOfOthers ==
  ASSUME ScansInv, UNCHANGED <<options, pos, records, site, radio, look, swept, ble_vars>>
  PROVE  ScansInv'
BY DEF ScansInv, PlacesOK, Looked, Monitored, ScansAreAccountedFor, Done, ble_vars

LEMMA RecordsAdded ==
  ASSUME PlacesOK, NEW g \in {"usb", "usb_port", "wifi", "ble"}, At(g),
         \/ \E rs : AddRecords(g, rs)
         \/ g \in {"wifi", "ble"} /\ \E scan, rs : AddScan(g, scan, rs),
         UNCHANGED site
  PROVE  /\ PlacesOK' /\ pos' = Place[g] /\ pos < pos' /\ g \in options.only /\ options' = options
         /\ \A h \in GroupNames :
              h # g /\ (g \in {"wifi", "ble"} => h # ScanOf[g]) => records'[h] = records[h]
<1>1. Min(DevicesLeft) = Place[g] /\ pos < Place[g] /\ g \in options.only
  BY NextGroup DEF PlacesOK
<1>2. Place[g] \in Nat
  BY Groups4
<1>3. CASE \E rs : AddRecords(g, rs)
  <2>1. PICK rs : AddRecords(g, rs)
    BY <1>3
  <2>2. records' = [records EXCEPT ![g] = rs] /\ pos' = Place[g] /\ options' = options
    BY <2>1, <1>1 DEF AddRecords
  <2> QED BY <1>1, <1>2, <2>2 DEF PlacesOK
<1>4. CASE g \in {"wifi", "ble"} /\ \E scan, rs : AddScan(g, scan, rs)
  <2>1. PICK scan, rs : AddScan(g, scan, rs)
    BY <1>4
  <2>2. records' = [records EXCEPT ![ScanOf[g]] = <<scan>>, ![g] = rs] /\ pos' = Place[g] /\ options' = options
    BY <2>1, <1>1 DEF AddScan
  <2> QED BY <1>1, <1>2, <1>4, <2>2 DEF PlacesOK
<1> QED BY <1>3, <1>4

LEMMA ScanAdded ==
  ASSUME PlacesOK, NEW g \in {"wifi", "ble"}, NEW scan, NEW rs, AddScan(g, scan, rs)
  PROVE  records'[ScanOf[g]][1] = scan /\ records'[g] = rs
<1>1. records' = [records EXCEPT ![ScanOf[g]] = <<scan>>, ![g] = rs]
  BY DEF AddScan
<1>2. ScanOf[g] \in GroupNames /\ g \in GroupNames /\ ScanOf[g] # g
  BY DEF ScanOf, GroupNames
<1> QED BY <1>1, <1>2 DEF PlacesOK

(***************************************************************************)
(* The clauses of the property that the two radios have.                   *)
(***************************************************************************)
WifiAccounted ==
  LET scan == records["wifi_scan"][1]
  IN  /\ scan.ran = (swept = {"managed"} /\ site.sweep # None)
      /\ scan.reason = "ap-mode" => radio = "AP"
      /\ look = "AP" => swept = {}

BleAccounted ==
  LET scan == records["ble_scan"][1]
  IN  /\ scan.ran = (scanned = "ok")
      /\ (~scan.ran) => records["ble"] = <<>>
      /\ monitor # "running"

LEMMA ScansInvParts ==
  /\ ScansInv <=> /\ PlacesOK /\ Looked /\ Monitored
                  /\ Done("wifi") => WifiAccounted
                  /\ Done("ble") => BleAccounted
  /\ ScansInv' <=> /\ PlacesOK' /\ Looked' /\ Monitored'
                   /\ Done("wifi")' => WifiAccounted'
                   /\ Done("ble")' => BleAccounted'
BY DEF ScansInv, ScansAreAccountedFor, WifiAccounted, BleAccounted

LEMMA WifiScanStep ==
  ASSUME ScansInv, SkipSweep \/ Sweep
  PROVE  ScansInv'
<1> USE ScansInvParts
<1>1. At("wifi") /\ look # None /\ UNCHANGED <<site, radio, look, ble_vars>>
  BY DEF SkipSweep, Sweep, wifi_vars
<1>2. \E scan, rs : AddScan("wifi", scan, rs)
  BY DEF SkipSweep, Sweep
<1>3. /\ PlacesOK' /\ pos' = 3 /\ pos < 3 /\ "wifi" \in options.only /\ options' = options
      /\ \A h \in GroupNames : h # "wifi" /\ h # "wifi_scan" => records'[h] = records[h]
  <2>1. ScanOf["wifi"] = "wifi_scan"
    BY DEF ScanOf
  <2> QED BY <1>1, <1>2, <2>1, RecordsAdded, Groups4
<1>4. ~Done("ble")'
  BY <1>3, DoneAt, Groups4 DEF Done, PlacesOK
<1>5. Looked' /\ Monitored'
  BY <1>1, <1>3, Groups4 DEF Looked, Monitored, ble_vars
<1>6. swept = {} /\ (look # "failed" => site.dev # None)
  BY <1>1, <1>3, Groups4 DEF Looked
<1>7. WifiAccounted'
  <2>1. ScanOf["wifi"] = "wifi_scan"
    BY DEF ScanOf
  <2>2. CASE SkipSweep
    <3>1. records'["wifi_scan"][1] = WifiScan(FALSE, Blocked, None)
      BY <2>1, <2>2, ScanAdded DEF SkipSweep
    <3>2. swept' = {} /\ {"managed"} # {}
      BY <1>6, <2>2 DEF SkipSweep, wifi_vars
    <3>3. Blocked = "ap-mode" => radio = "AP"
      BY <1>6, BlockedBy DEF PlacesOK, Looked
    <3>4. records'["wifi_scan"][1].ran = FALSE /\ records'["wifi_scan"][1].reason = Blocked
      BY <3>1 DEF WifiScan
    <3> QED BY <1>1, <3>2, <3>3, <3>4 DEF WifiAccounted
  <2>3. CASE Sweep
    <3>1. swept' = {radio} /\ Blocked = None
      BY <1>6, <2>3 DEF Sweep
    <3>2. look # "AP"
      BY <1>6, <3>1, BlockedBy DEF PlacesOK
    <3>3. CASE site.sweep = None \/ radio # "managed"
      <4>1. records'["wifi_scan"][1] = WifiScan(FALSE, "busy", None)
        BY <2>1, <2>3, <3>3, ScanAdded DEF Sweep
      <4>2. records'["wifi_scan"][1].ran = FALSE /\ records'["wifi_scan"][1].reason = "busy"
        BY <4>1 DEF WifiScan
      <4>3. ~(swept' = {"managed"} /\ site'.sweep # None)
        BY <1>1, <3>1, <3>3
      <4> QED BY <1>1, <3>2, <4>2, <4>3 DEF WifiAccounted
    <3>4. CASE ~(site.sweep = None \/ radio # "managed")
      <4>1. records'["wifi_scan"][1] = WifiScan(TRUE, None, Len(parse_scan(site.sweep)))
        BY <2>1, <2>3, <3>4, ScanAdded DEF Sweep
      <4>2. records'["wifi_scan"][1].ran = TRUE /\ records'["wifi_scan"][1].reason = None
        BY <4>1 DEF WifiScan
      <4>3. swept' = {"managed"} /\ site'.sweep # None
        BY <1>1, <3>1, <3>4
      <4> QED BY <1>1, <3>2, <4>2, <4>3, TextAssumption DEF WifiAccounted
    <3> QED BY <3>3, <3>4
  <2> QED BY <2>2, <2>3
<1> QED BY <1>3, <1>4, <1>5, <1>7

LEMMA BleScanStep ==
  ASSUME ScansInv, SkipBle \/ ReportBle
  PROVE  ScansInv'
<1> USE ScansInvParts
<1>1. At("ble") /\ UNCHANGED <<site, wifi_vars, ble_vars>>
  BY DEF SkipBle, ReportBle
<1>2. \E scan, rs : AddScan("ble", scan, rs)
  BY DEF SkipBle, ReportBle, ble_skipped
<1>3. /\ PlacesOK' /\ pos' = 4 /\ pos < 4 /\ "ble" \in options.only /\ options' = options
      /\ \A h \in GroupNames : h # "ble" /\ h # "ble_scan" => records'[h] = records[h]
  <2>1. ScanOf["ble"] = "ble_scan"
    BY DEF ScanOf
  <2> QED BY <1>1, <1>2, <2>1, RecordsAdded, Groups4
<1>4. Looked' /\ Monitored'
  BY <1>1, <1>3, Groups4 DEF Looked, Monitored, ble_vars, wifi_vars
<1>5. records'["wifi_scan"] = records["wifi_scan"]
  BY <1>3 DEF GroupNames
<1>6. BleAccounted'
  <2>1. ScanOf["ble"] = "ble_scan"
    BY DEF ScanOf
  <2>2. CASE (SkipBle /\ monitor = "none") \/ (ReportBle /\ scanned = "failed")
    <3>1. PICK reason : AddScan("ble", BleScan(FALSE, reason, None), <<>>)
      BY <2>2 DEF SkipBle, ReportBle, ble_skipped
    <3>2. records'["ble_scan"][1] = BleScan(FALSE, reason, None) /\ records'["ble"] = <<>>
      BY <2>1, <3>1, ScanAdded
    <3>3. records'["ble_scan"][1].ran = FALSE
      BY <3>2 DEF BleScan
    <3>4. scanned # "ok" /\ monitor # "running"
      BY <2>2, TextAssumption DEF Monitored, SkipBle, ReportBle
    <3> QED BY <1>1, <3>2, <3>3, <3>4 DEF BleAccounted, ble_vars
  <2>3. CASE ReportBle /\ scanned # "failed"
    <3>1. monitor = "reaped" /\ scanned = "ok"
      BY <2>3 DEF ReportBle, Monitored
    <3>2. PICK scan, rs : AddScan("ble", BleScan(TRUE, None, scan), rs)
      BY <2>3 DEF ReportBle
    <3>3. records'["ble_scan"][1].ran = TRUE
      BY <2>1, <3>2, ScanAdded DEF BleScan
    <3> QED BY <1>1, <3>1, <3>3 DEF BleAccounted, ble_vars
  <2> QED BY <2>2, <2>3 DEF SkipBle
<1>7. Done("wifi")' => WifiAccounted'
  <2>1. "wifi" \in options.only => Done("wifi")
    BY <1>1, NextGroup, DoneAt, Groups4 DEF PlacesOK
  <2>2. Done("wifi")' => Done("wifi")
    BY <1>3, <2>1 DEF Done
  <2>3. WifiAccounted => WifiAccounted'
    BY <1>1, <1>5 DEF WifiAccounted, wifi_vars
  <2> QED BY <2>2, <2>3
<1> QED BY <1>3, <1>4, <1>6, <1>7

LEMMA UsbStep ==
  ASSUME ScansInv, CollectUsb
  PROVE  ScansInv'
<1> USE ScansInvParts
<1>1. PICK g \in {"usb", "usb_port"} : At(g) /\ \E rs : AddRecords(g, rs)
  BY DEF CollectUsb
<1>2. UNCHANGED <<site, wifi_vars, ble_vars>>
  BY DEF CollectUsb
<1>3. /\ PlacesOK' /\ pos' < 3 /\ options' = options
      /\ \A h \in GroupNames : h \notin {"usb", "usb_port"} => records'[h] = records[h]
  BY <1>1, <1>2, RecordsAdded, Groups4
<1>4. ~Done("wifi")' /\ ~Done("ble")'
  BY <1>3, Groups4 DEF Done, PlacesOK
<1>5. pos < 3
  BY <1>1, NextGroup, Groups4 DEF PlacesOK
<1>6. Looked' /\ Monitored'
  BY <1>2, <1>3, <1>5, Groups4 DEF Looked, Monitored, ble_vars, wifi_vars
<1> QED BY <1>3, <1>4, <1>6

(***************************************************************************)
(* What happens before a group is done is not in its records yet.          *)
(***************************************************************************)
LEMMA RadioStep ==
  ASSUME ScansInv, LookAtRadio \/ AccessPointStarts
  PROVE  ScansInv'
<1> USE ScansInvParts
<1>1. At("wifi") /\ UNCHANGED <<options, pos, records, site, swept, ble_vars>>
  BY DEF LookAtRadio, AccessPointStarts, collector_vars
<1>2. pos < 3
  BY <1>1, NextGroup, Groups4 DEF PlacesOK
<1>3. PlacesOK' /\ Monitored'
  BY <1>1 DEF PlacesOK, Monitored, ble_vars
<1>4. Looked'
  BY <1>1, <1>2, TextAssumption DEF Looked, LookAtRadio, AccessPointStarts
<1>5. ~Done("wifi")' /\ ~Done("ble")'
  BY <1>1, <1>2, DoneAt, Groups4 DEF Done, PlacesOK
<1> QED BY <1>3, <1>4, <1>5

LEMMA MonitorStep ==
  ASSUME ScansInv, SpawnMonitor \/ MonitorWrites \/ ScanEnds \/ ReapMonitor \/ drain
  PROVE  ScansInv'
<1> USE ScansInvParts
<1>1. At("ble") /\ UNCHANGED <<options, pos, records, site, wifi_vars>>
  BY DEF SpawnMonitor, MonitorWrites, ScanEnds, ReapMonitor, drain, collector_vars
<1>2. pos < 4
  BY <1>1, NextGroup, Groups4 DEF PlacesOK
<1>3. PlacesOK' /\ Looked'
  BY <1>1 DEF PlacesOK, Looked, wifi_vars
<1>4. Monitored'
  BY TextAssumption DEF Monitored, SpawnMonitor, MonitorWrites, ScanEnds, ReapMonitor, drain
<1>5. ~Done("ble")'
  BY <1>1, <1>2, DoneAt, Groups4 DEF Done, PlacesOK
<1>6. Done("wifi")' => WifiAccounted'
  BY <1>1 DEF Done, WifiAccounted, wifi_vars
<1> QED BY <1>3, <1>4, <1>5, <1>6

(***************************************************************************)
(* Each radio is accounted for by one scan record, which says that the     *)
(* scan ran exactly when it did, for every site and however the access     *)
(* point, btmon and bluetoothctl are timed.                                *)
(***************************************************************************)
THEOREM ScansAreAccounted == DevicesSpec => []ScansAreAccountedFor
<1>1. DevicesInit => ScansInv
  BY ScansInit
<1>2. ScansInv /\ [DevicesNext]_devices_vars => ScansInv'
  <2> SUFFICES ASSUME ScansInv, [DevicesNext]_devices_vars PROVE ScansInv'
    OBVIOUS
  <2>1. CASE StartDevices \/ PostDevices \/ ReceivingDevices \/ UNCHANGED devices_vars
    <3>1. UNCHANGED <<options, pos, records, site, wifi_vars, ble_vars>>
      BY <2>1 DEF StartDevices, PostDevices, ReceivingDevices, ParseArgs, Publish, Connect, WriteRequest,
           ReadTimeout, ReadResponse, Receiver, Receive, Answer, Close, devices_vars, collector_vars
    <3> QED BY <3>1, StepsOfOthers DEF wifi_vars
  <2>2. CASE CollectUsb
    BY <2>2, UsbStep
  <2>3. CASE SkipSweep \/ Sweep
    BY <2>3, WifiScanStep
  <2>4. CASE SkipBle \/ ReportBle
    BY <2>4, BleScanStep
  <2>5. CASE LookAtRadio \/ AccessPointStarts
    BY <2>5, RadioStep
  <2>6. CASE SpawnMonitor \/ MonitorWrites \/ ScanEnds \/ ReapMonitor \/ drain
    BY <2>6, MonitorStep
  <2> QED BY <2>1, <2>2, <2>3, <2>4, <2>5, <2>6 DEF DevicesNext, CollectDevices
<1>3. ScansInv => ScansAreAccountedFor
  BY DEF ScansInv
<1> QED BY <1>1, <1>2, <1>3, PTL DEF DevicesSpec

-----------------------------------------------------------------------------
(***************************************************************************)
(* The names of sysfs.                                                     *)
(***************************************************************************)
LEMMA IndexOfNone ==
  ASSUME NEW T, NEW name \in Seq(T), NEW token, token \notin Range(name)
  PROVE  IndexOf(name, token) = 0
<1>1. {i \in DOMAIN name : name[i] = token} = {}
  BY DEF Range
<1> QED BY <1>1 DEF IndexOf, Position

LEMMA TwoMore ==
  ASSUME NEW T, NEW base \in Seq(T), NEW token \in T, NEW n \in T
  PROVE  LET name == base \o <<token, n>>
             L == Len(base)
         IN  /\ name \in Seq(T) /\ Len(name) = L + 2 /\ L \in Nat
             /\ \A i \in 1..L : name[i] = base[i]
             /\ name[L + 1] = token /\ name[L + 2] = n
             /\ DOMAIN name = 1..(L + 2) /\ DOMAIN base = 1..L
<1> DEFINE tail == <<token, n>>
           L == Len(base)
<1>1. tail \in Seq(T) /\ Len(tail) = 2 /\ tail[1] = token /\ tail[2] = n
  OBVIOUS
<1>2. L \in Nat /\ DOMAIN base = 1..L
  OBVIOUS
<1> HIDE DEF tail
<1>3. /\ base \o tail \in Seq(T) /\ Len(base \o tail) = L + 2
      /\ \A i \in 1..L : (base \o tail)[i] = base[i]
  <2>1. base \o tail \in Seq(T) /\ Len(base \o tail) = Len(base) + Len(tail)
    BY <1>1, ConcatProperties
  <2>2. \A i \in 1..L : (base \o tail)[i] = base[i]
    BY <1>1, <1>2
  <2> QED BY <1>1, <2>1, <2>2
<1>4. (base \o tail)[L + 1] = token /\ (base \o tail)[L + 2] = n
  BY <1>1, <1>2, ConcatProperties
<1>5. DOMAIN (base \o tail) = 1..(L + 2)
  BY <1>3
<1> QED BY <1>2, <1>3, <1>4, <1>5 DEF tail

LEMMA IndexOfFirst ==
  ASSUME NEW T, NEW base \in Seq(T), NEW token \in T, token \notin Range(base), NEW n \in T
  PROVE  /\ base \o <<token, n>> \in Seq(T)
         /\ Len(base \o <<token, n>>) = Len(base) + 2
         /\ IndexOf(base \o <<token, n>>, token) = Len(base) + 1
         /\ Before(base \o <<token, n>>, Len(base) + 1) = base
         /\ (base \o <<token, n>>)[Len(base) + 2] = n
         /\ Range(base \o <<token, n>>) = Range(base) \union {token, n}
<1> DEFINE name == base \o <<token, n>>
           places == {i \in DOMAIN name : name[i] = token}
           L == Len(base)
<1>1. /\ name \in Seq(T) /\ Len(name) = L + 2 /\ L \in Nat
      /\ \A i \in 1..L : name[i] = base[i]
      /\ name[L + 1] = token /\ name[L + 2] = n
      /\ DOMAIN name = 1..(L + 2) /\ DOMAIN base = 1..L
  BY TwoMore
<1>2. \A i \in 1..L : name[i] # token
  BY <1>1 DEF Range
<1>3. L + 1 \in places /\ \A i \in places : L + 1 <= i
  <2> HIDE DEF name, L
  <2>1. L + 1 \in 1..(L + 2) /\ \A i \in 1..(L + 2) : i \notin 1..L => L + 1 <= i
    BY <1>1
  <2> QED BY <1>1, <1>2, <2>1
<1>4. places \in SUBSET Nat
  <2> HIDE DEF name, L
  <2> QED BY <1>1
<1>5. Min(places) = L + 1
  <2>1. Min(places) \in places /\ \A i \in places : Min(places) <= i
    BY <1>3, <1>4, LeastMember
  <2> DEFINE m == Min(places)
  <2>2. m \in Nat /\ m <= L + 1 /\ L + 1 <= m
    <3> HIDE DEF places, L
    <3> QED BY <1>3, <1>4, <2>1
  <2>3. L \in Nat
    OBVIOUS
  <2>4. m = L + 1
    <3> HIDE DEF m, L
    <3> QED BY <2>2, <2>3
  <2> QED BY <2>4
<1>6. IndexOf(name, token) = L + 1
  <2> HIDE DEF name, L
  <2> QED BY <1>3, <1>5 DEF IndexOf, Position
<1>7. Before(name, L + 1) = base
  <2>1. Before(name, L + 1) = [i \in 1..L |-> name[i]]
    <3>1. L + 1 - 1 = L
      BY <1>1
    <3> HIDE DEF name, L
    <3> QED BY <1>1, <3>1 DEF Before
  <2>2. base = [i \in 1..L |-> base[i]]
    OBVIOUS
  <2> HIDE DEF name, L
  <2> QED BY <1>1, <2>1, <2>2
<1>8. Range(name) = Range(base) \union {token, n}
  <2> HIDE DEF name, L
  <2>1. \A x : x \in Range(name) <=> \E i \in 1..(L + 2) : name[i] = x
    BY <1>1 DEF Range
  <2>2. \A x : x \in Range(base) <=> \E i \in 1..L : base[i] = x
    BY <1>1 DEF Range
  <2>3. \A i \in 1..(L + 2) : i \in 1..L \/ i = L + 1 \/ i = L + 2
    BY <1>1
  <2>4. L + 1 \in 1..(L + 2) /\ L + 2 \in 1..(L + 2) /\ \A i \in 1..L : i \in 1..(L + 2)
    BY <1>1
  <2> QED BY <1>1, <2>1, <2>2, <2>3, <2>4
<1> QED BY <1>1, <1>6, <1>7, <1>8

LEMMA Tokens ==
  /\ "usb" \in Token /\ "-" \in Token /\ "0" \in Token
  /\ "." \in Token /\ ":" \in Token /\ "-port" \in Token
BY DEF Token

\* The name of a device: a root hub is usbN, and no other is X-0.
DeviceNamed(x) ==
  /\ x \in Seq(Token) \ {<<>>}
  /\ ":" \notin Range(x) /\ "-port" \notin Range(x)
  /\ IF x[1] = "usb" THEN Len(x) = 2 /\ x[2] \in Numbers ELSE ~(Len(x) = 3 /\ x[2] = "-" /\ x[3] = "0")

LEMMA RootName ==
  ASSUME NEW x, DeviceNamed(x), x[1] = "usb"
  PROVE  x = <<"usb", x[2]>> /\ x[2] \in Token \intersect Numbers /\ x[2] # ":" /\ x[2] # "-port"
<1>1. x \in Seq(Token) /\ Len(x) = 2 /\ DOMAIN x = 1..2
  BY DEF DeviceNamed
<1>2. x[2] \in Token /\ x = <<x[1], x[2]>>
  <2>1. x[2] \in Token
    BY <1>1
  <2>2. x = [i \in 1..2 |-> x[i]]
    BY <1>1
  <2> DEFINE t == <<x[1], x[2]>>
  <2>3. t = [i \in 1..2 |-> t[i]] /\ t[1] = x[1] /\ t[2] = x[2]
    OBVIOUS
  <2> HIDE DEF t
  <2>4. x = t
    BY <2>2, <2>3
  <2> QED BY <2>1, <2>4 DEF t
<1>3. x[2] \in Range(x)
  BY <1>1 DEF Range
<1> QED BY <1>2, <1>3 DEF DeviceNamed

(***************************************************************************)
(* The name of an interface gives back its device.                         *)
(***************************************************************************)
LEMMA InterfaceLeads ==
  ASSUME NEW x, DeviceNamed(x), NEW n \in Token, None \notin Seq(Token)
  PROVE  /\ classify(InterfaceName(x, n)) \notin {None, <<>>}
         /\ canonical_device_path(classify(InterfaceName(x, n))) = x
<1> DEFINE base == IF x[1] = "usb" THEN <<x[2], "-", "0">> ELSE x
<1>1. /\ base \in Seq(Token) \ {<<>>} /\ ":" \notin Range(base)
      /\ InterfaceName(x, n) = base \o <<":", n>> /\ canonical_device_path(base) = x
  <2>1. CASE x[1] = "usb"
    <3>1. x = <<"usb", x[2]>> /\ x[2] \in Token \intersect Numbers /\ x[2] # ":"
      BY <2>1, RootName
    <3> DEFINE bus == x[2]
    <3> HIDE DEF bus
    <3>2. base = <<bus, "-", "0">>
      BY <2>1 DEF bus
    <3>4. bus \in Token /\ bus \in Numbers /\ bus # ":" /\ x = <<"usb", bus>>
      BY <3>1 DEF bus
    <3>5. <<bus, "-", "0">> \in Seq(Token) \ {<<>>}
      BY Tokens, <3>4
    <3>6. ":" \notin Range(<<bus, "-", "0">>)
      BY <3>4 DEF Range
    <3>8. canonical_device_path(<<bus, "-", "0">>) = <<"usb", bus>>
      BY <3>4 DEF canonical_device_path
    <3>9. InterfaceName(x, n) = base \o <<":", n>>
      BY <2>1 DEF InterfaceName
    <3> QED BY <3>2, <3>4, <3>5, <3>6, <3>8, <3>9
  <2>2. CASE x[1] # "usb"
    BY <2>2 DEF DeviceNamed, InterfaceName, canonical_device_path
  <2> QED BY <2>1, <2>2
<1> DEFINE name == base \o <<":", n>>
           colon == IndexOf(name, ":")
<1> HIDE DEF base
<1>2. Len(base) \in Nat \ {0}
  BY <1>1
<1>3. /\ colon = Len(base) + 1 /\ name \in Seq(Token) /\ Len(name) = Len(base) + 2
      /\ Before(name, Len(base) + 1) = base
  BY Tokens, <1>1, IndexOfFirst
<1>4. name # <<>> /\ colon # 0 /\ colon # 1
  BY <1>2, <1>3
<1>5. classify(name) = base
  <2> HIDE DEF name, colon
  <2>1. Before(name, colon) = base
    BY <1>3
  <2> QED BY <1>4, <2>1 DEF classify, colon
<1> QED BY <1>1, <1>5

(***************************************************************************)
(* The name of a port gives the name of the device it hosts.               *)
(***************************************************************************)
LEMMA PortLeads ==
  ASSUME NEW x, DeviceNamed(x), NEW n \in Token, n \in Numbers
  PROVE  port_device_path(PortName(x, n)) = DeviceName(x, n) /\ DeviceName(x, n) \in Seq(Token)
<1> DEFINE port == PortName(x, n)
           at == IndexOf(port, "-port")
           L == Len(x)
<1>1. /\ x \in Seq(Token) /\ x # <<>> /\ "-port" \notin Range(x) /\ L \in Nat \ {0}
      /\ x[1] = "usb" => L = 2 /\ x[2] \in Numbers
  BY DEF DeviceNamed
<1>2. /\ at = L + 1 /\ port \in Seq(Token) /\ Len(port) = L + 2
      /\ Before(port, L + 1) = x /\ port[L + 2] = n
  BY Tokens, <1>1, IndexOfFirst DEF PortName
<1>3. at # 0 /\ at + 1 = Len(port) /\ at + 1 = L + 2
  <2> HIDE DEF at, port, L
  <2> QED BY <1>1, <1>2
<1>4. port_device_path(port) =
        IF x[1] = "usb" THEN <<x[2], "-", n>> ELSE x \o <<".", n>>
  <2> HIDE DEF port
  <2>1. Before(port, at) = x /\ port[at + 1] = n
    <3> HIDE DEF at, L
    <3> QED BY <1>2, <1>3
  <2> QED BY <1>1, <1>3, <2>1 DEF port_device_path
<1>5. DeviceName(x, n) \in Seq(Token)
  <2>1. CASE x[1] = "usb"
    BY Tokens, <2>1, RootName DEF DeviceName
  <2>2. CASE x[1] # "usb"
    <3>1. <<".", n>> \in Seq(Token)
      BY Tokens
    <3> QED BY <1>1, <2>2, <3>1, ConcatProperties DEF DeviceName
  <2> QED BY <2>1, <2>2
<1> QED BY <1>4, <1>5 DEF DeviceName

(***************************************************************************)
(* A device is at one port of one hub, and none is called X-0.             *)
(***************************************************************************)
LEMMA DeviceNameParts ==
  ASSUME NEW x \in Seq(Token), NEW n \in Token, x[1] # "usb"
  PROVE  /\ Len(DeviceName(x, n)) = Len(x) + 2
         /\ DeviceName(x, n)[Len(x) + 1] = "." /\ DeviceName(x, n)[Len(x) + 2] = n
         /\ \A i \in 1..Len(x) : DeviceName(x, n)[i] = x[i]
<1>1. DeviceName(x, n) = x \o <<".", n>>
  BY DEF DeviceName
<1> QED BY <1>1, Tokens, TwoMore

LEMMA OnePortOneHub ==
  ASSUME NEW x, DeviceNamed(x), NEW n \in Token, NEW y, DeviceNamed(y), NEW m \in Token,
         DeviceName(x, n) = DeviceName(y, m)
  PROVE  x = y /\ n = m
<1>1. x \in Seq(Token) /\ y \in Seq(Token) /\ Len(x) \in Nat \ {0} /\ Len(y) \in Nat \ {0}
  BY DEF DeviceNamed
<1>2. CASE x[1] = "usb" /\ y[1] = "usb"
  <2>1. x = <<"usb", x[2]>> /\ y = <<"usb", y[2]>>
    BY <1>2, RootName
  <2>2. <<x[2], "-", n>> = <<y[2], "-", m>>
    BY <1>2 DEF DeviceName
  <2> QED BY <2>1, <2>2
<1>3. ASSUME NEW u, DeviceNamed(u), NEW k \in Token, NEW v, DeviceNamed(v), NEW l \in Token,
             u[1] = "usb", v[1] # "usb", DeviceName(u, k) = DeviceName(v, l)
      PROVE  FALSE
  <2>1. DeviceName(u, k) = <<u[2], "-", k>>
    BY <1>3 DEF DeviceName
  <2>2. /\ Len(DeviceName(v, l)) = Len(v) + 2 /\ DeviceName(v, l)[Len(v) + 1] = "."
        /\ Len(v) \in Nat /\ Len(DeviceName(u, k)) = 3
    <3>1. v \in Seq(Token) /\ Len(v) \in Nat
      BY <1>3 DEF DeviceNamed
    <3>2. Len(DeviceName(u, k)) = 3
      BY <2>1
    <3> QED BY <1>3, <3>1, <3>2, DeviceNameParts
  <2>3. Len(v) + 1 = 2
    <3>1. \A i \in Nat : i + 2 = 3 => i + 1 = 2
      OBVIOUS
    <3> QED BY <1>3, <2>2, <3>1
  <2> QED BY <1>3, <2>1, <2>2, <2>3
<1>4. CASE x[1] # "usb" /\ y[1] # "usb"
  <2>1. Len(x) + 2 = Len(y) + 2
    BY <1>1, <1>4, DeviceNameParts
  <2>2. Len(x) = Len(y)
    BY <1>1, <2>1
  <2>3. n = m /\ \A i \in 1..Len(x) : x[i] = y[i]
    BY <1>1, <1>4, <2>2, DeviceNameParts
  <2> QED BY <1>1, <2>2, <2>3
<1> QED BY <1>2, <1>3, <1>4

LEMMA NoneAtZero ==
  ASSUME NEW x \in Seq(Token), NEW n \in Token, n # "0"
  PROVE  LET d == DeviceName(x, n) IN ~(Len(d) = 3 /\ d[2] = "-" /\ d[3] = "0")
<1>1. CASE x[1] = "usb"
  BY <1>1 DEF DeviceName
<1>2. CASE x[1] # "usb"
  <2> DEFINE d == DeviceName(x, n)
  <2>1. Len(d) = Len(x) + 2 /\ d[Len(x) + 1] = "." /\ Len(x) \in Nat
    BY <1>2, DeviceNameParts
  <2> HIDE DEF d
  <2>2. Len(d) = 3 => Len(x) + 1 = 2
    <3>1. \A i \in Nat : i + 2 = 3 => i + 1 = 2
      OBVIOUS
    <3> QED BY <2>1, <3>1
  <2> QED BY <2>1, <2>2 DEF d
<1> QED BY <1>1, <1>2

(***************************************************************************)
(* The devices, the interfaces and the ports of a tree.                    *)
(***************************************************************************)
LEMMA LastToken ==
  ASSUME NEW s \in Seq(Token), s # <<>>
  PROVE  Last(s) \in Token
BY DEF Last

LEMMA SysfsNames ==
  ASSUME NEW tree, IsSysfs(tree)
  PROVE  /\ \A i \in DOMAIN tree : tree[i].name \in Seq(Token) \ {<<>>} /\ Last(tree[i].name) \in Token
         /\ \A i \in DOMAIN tree : \A c \in PortsOf(tree, i) :
              c.name \in Seq(Token) /\ Last(c.name) \in Token \intersect Numbers
<1>1. \A i \in DOMAIN tree : /\ tree[i].name \in Seq(Token) \ {<<>>}
                             /\ \A c \in tree[i].children : c.name \in Seq(Token)
  BY DEF IsSysfs
<1>2. ASSUME NEW i \in DOMAIN tree, NEW c \in PortsOf(tree, i)
      PROVE  c.name \in Seq(Token) /\ c.name # <<>> /\ Last(c.name) \in Numbers
  <2>1. c \in tree[i].children /\ "-port" \in Range(c.name) /\ Last(c.name) \in Numbers
    BY DEF PortsOf
  <2>2. Range(<<>>) = {}
    BY DEF Range
  <2> QED BY <1>1, <2>1, <2>2
<1> QED BY <1>1, <1>2, LastToken

LEMMA DevicesNamed ==
  ASSUME NEW tree, IsSysfs(tree), NEW d \in DevicesOf(tree)
  PROVE  DeviceNamed(tree[d].name)
<1> DEFINE x == tree[d].name
<1>1. /\ d \in DOMAIN tree /\ x \in Seq(Token) \ {<<>>}
      /\ ":" \notin Range(x) /\ "-port" \notin Range(x)
      /\ x[1] = "usb" => Len(x) = 2 /\ x[2] \in Numbers
  BY SysfsNames DEF IsSysfs, DevicesOf
<1>2. CASE x[1] # "usb"
  <2>1. PICK h \in DevicesOf(tree), i \in DOMAIN tree : \E c \in tree[i].children : IsAt(tree, d, h, i, c)
    BY <1>2 DEF IsSysfs
  <2>2. PICK c \in tree[i].children : IsAt(tree, d, h, i, c)
    BY <2>1
  <2>3. /\ c \in PortsOf(tree, i) /\ x = DeviceName(tree[h].name, Last(c.name)) /\ Last(c.name) # "0"
    BY <2>2 DEF IsAt
  <2>4. tree[h].name \in Seq(Token) /\ Last(c.name) \in Token
    BY <2>3, SysfsNames DEF DevicesOf
  <2>5. ~(Len(x) = 3 /\ x[2] = "-" /\ x[3] = "0")
    <3> HIDE DEF x
    <3> QED BY <2>3, <2>4, NoneAtZero
  <2> HIDE DEF x
  <2>6. DeviceNamed(x)
    BY <1>1, <1>2, <2>5 DEF DeviceNamed
  <2> QED BY <2>6 DEF x
<1>3. CASE x[1] = "usb"
  BY <1>1, <1>3 DEF DeviceNamed
<1> QED BY <1>2, <1>3

LEMMA DeviceEntry ==
  ASSUME NEW tree, IsSysfs(tree), NEW d \in DevicesOf(tree)
  PROVE  classify(tree[d].name) = <<>>
<1>1. tree[d].name \in Seq(Token) /\ tree[d].name # <<>> /\ ":" \notin Range(tree[d].name)
  BY DevicesNamed DEF DeviceNamed
<1>2. IndexOf(tree[d].name, ":") = 0
  BY <1>1, IndexOfNone
<1> QED BY <1>1, <1>2 DEF classify

LEMMA InterfaceEntry ==
  ASSUME NEW tree, IsSysfs(tree), NEW d \in DevicesOf(tree), NEW i \in InterfacesOf(tree, d)
  PROVE  /\ i \in DOMAIN tree /\ i \notin DevicesOf(tree)
         /\ classify(tree[i].name) \notin {None, <<>>}
         /\ canonical_device_path(classify(tree[i].name)) = tree[d].name
<1>1. /\ i \in DOMAIN tree /\ tree[i].name = InterfaceName(tree[d].name, Last(tree[i].name))
      /\ Last(tree[i].name) \in Token /\ None \notin Seq(Token)
  BY SysfsNames DEF InterfacesOf, IsSysfs
<1>2. /\ classify(tree[i].name) \notin {None, <<>>}
      /\ canonical_device_path(classify(tree[i].name)) = tree[d].name
  BY <1>1, DevicesNamed, InterfaceLeads
<1> QED BY <1>1, <1>2, DeviceEntry

\* The hub an interface is found to belong to is its device.
LEMMA HubFound ==
  ASSUME NEW tree, IsSysfs(tree), NEW d \in DevicesOf(tree)
  PROVE  LET places == {i \in DOMAIN tree : tree[i].name = tree[d].name}
         IN  places # {} /\ Min(places) = d /\ d # 0 /\ tree[d] # None
<1> DEFINE places == {i \in DOMAIN tree : tree[i].name = tree[d].name}
<1>1. d \in DOMAIN tree /\ DOMAIN tree = 1..Len(tree) /\ Len(tree) \in Nat /\ tree[d] # None
  BY DEF IsSysfs, DevicesOf, Range
<1>2. places = {d}
  BY <1>1 DEF IsSysfs
<1>3. Min(places) = d
  <2> HIDE DEF places
  <2>1. places \in SUBSET Nat /\ places # {}
    BY <1>1, <1>2
  <2>2. Min(places) \in places
    BY <2>1, LeastMember
  <2> QED BY <1>2, <2>2
<1>4. d # 0
  BY <1>1
<1> QED BY <1>1, <1>2, <1>3, <1>4

-----------------------------------------------------------------------------
(***************************************************************************)
(* The join of the devices and the ports.                                  *)
(***************************************************************************)
LEMMA UsbRecords ==
  ASSUME NEW tree, IsSysfs(tree), tree # None
  PROVE  LET u == usb_records(tree)
         IN  /\ DOMAIN u = DOMAIN tree
             /\ \A i \in DevicesOf(tree) : /\ u[i].type = "usb" /\ u[i].path = tree[i].name
                                           /\ u[i].bus = tree[i].bus
             /\ \A d \in DevicesOf(tree) : \A i \in InterfacesOf(tree, d) :
                  u[i].type = "usb.interface" /\ u[i].path = tree[d].name
<1> DEFINE RecordOf(e) ==
             LET device == classify(e.name)
             IN  IF device = <<>>
                 THEN [type |-> "usb", path |-> e.name, bus |-> e.bus, devnum |-> e.devnum]
                 ELSE [type |-> "usb.interface", path |-> canonical_device_path(device),
                       nodes |-> interface_nodes(e.children)]
           listed == {i \in DOMAIN tree : classify(tree[i].name) # None}
<1>1. None # <<>>
  <2>1. None \notin Seq(Token)
    BY DEF IsSysfs
  <2>2. <<>> \in Seq(Token)
    OBVIOUS
  <2> QED BY <2>1, <2>2
<1>2. listed = DOMAIN tree
  <2>1. \A i \in DOMAIN tree : classify(tree[i].name) # None
    BY <1>1, DeviceEntry, InterfaceEntry DEF IsSysfs
  <2> QED BY <2>1
<1>3. usb_records(tree) = [i \in DOMAIN tree |-> RecordOf(tree[i])]
  BY <1>2 DEF usb_records
<1>4. ASSUME NEW i \in DevicesOf(tree)
      PROVE  RecordOf(tree[i]) = [type |-> "usb", path |-> tree[i].name, bus |-> tree[i].bus, devnum |-> tree[i].devnum]
  BY DeviceEntry
<1>5. ASSUME NEW d \in DevicesOf(tree), NEW i \in InterfacesOf(tree, d)
      PROVE  RecordOf(tree[i]) = [type |-> "usb.interface", path |-> tree[d].name, nodes |-> interface_nodes(tree[i].children)]
  BY InterfaceEntry
<1>6. /\ \A i \in DevicesOf(tree) : i \in DOMAIN tree
      /\ \A d \in DevicesOf(tree) : \A i \in InterfacesOf(tree, d) : i \in DOMAIN tree
  BY DEF DevicesOf, InterfacesOf
<1> DEFINE u == usb_records(tree)
<1>7. DOMAIN u = DOMAIN tree /\ \A i \in DOMAIN tree : u[i] = RecordOf(tree[i])
  <2> HIDE DEF RecordOf
  <2> QED BY <1>3
<1>8. \A i \in DevicesOf(tree) : u[i].type = "usb" /\ u[i].path = tree[i].name /\ u[i].bus = tree[i].bus
  <2> SUFFICES ASSUME NEW i \in DevicesOf(tree)
               PROVE  u[i].type = "usb" /\ u[i].path = tree[i].name /\ u[i].bus = tree[i].bus
    OBVIOUS
  <2>1. u[i] = [type |-> "usb", path |-> tree[i].name, bus |-> tree[i].bus, devnum |-> tree[i].devnum]
    BY <1>4, <1>6, <1>7
  <2> HIDE DEF u
  <2> QED BY <2>1
<1>9. \A d \in DevicesOf(tree) : \A i \in InterfacesOf(tree, d) :
        u[i].type = "usb.interface" /\ u[i].path = tree[d].name
  <2> SUFFICES ASSUME NEW d \in DevicesOf(tree), NEW i \in InterfacesOf(tree, d)
               PROVE  u[i].type = "usb.interface" /\ u[i].path = tree[d].name
    OBVIOUS
  <2>1. u[i] = [type |-> "usb.interface", path |-> tree[d].name, nodes |-> interface_nodes(tree[i].children)]
    BY <1>5, <1>6, <1>7
  <2> HIDE DEF u
  <2> QED BY <2>1
<1> QED BY <1>7, <1>8, <1>9

LEMMA UsbPortRecords ==
  ASSUME NEW tree, IsSysfs(tree), tree # None
  PROVE  LET p == usb_port_records(tree)
         IN  /\ \A q \in DOMAIN p : \E h \in DevicesOf(tree) : \E i \in InterfacesOf(tree, h) : \E c \in PortsOf(tree, i) :
                  q = <<i, c>>
             /\ \A h \in DevicesOf(tree) : \A i \in InterfacesOf(tree, h) : \A c \in PortsOf(tree, i) :
                  /\ <<i, c>> \in DOMAIN p
                  /\ p[<<i, c>>].type = "usb_port" /\ p[<<i, c>>].bus = tree[h].bus
                  /\ p[<<i, c>>].path = DeviceName(tree[h].name, Last(c.name))
<1> DEFINE Hub(e) == Find(tree, LAMBDA d : d.name = canonical_device_path(classify(e.name)))
           PortOf(e, c) ==
             [type |-> "usb_port", port |-> c.name, path |-> port_device_path(c.name),
              bus |-> Opt(Hub(e), LAMBDA d : d.bus), state |-> c.state]
           interfaces == {i \in DOMAIN tree : classify(tree[i].name) \notin {None, <<>>}}
           ports == UNION {{i} \X {c \in tree[i].children : port_device_path(c.name) # None} : i \in interfaces}
<1>1. usb_port_records(tree) = [q \in ports |-> PortOf(tree[q[1]], q[2])]
  BY DEF usb_port_records
<1>2. None \notin Seq(Token)
  BY DEF IsSysfs
<1>3. ASSUME NEW h \in DevicesOf(tree), NEW i \in InterfacesOf(tree, h), NEW c \in PortsOf(tree, i)
      PROVE  /\ i \in interfaces /\ c \in tree[i].children
             /\ port_device_path(c.name) = DeviceName(tree[h].name, Last(c.name))
             /\ port_device_path(c.name) # None
             /\ Opt(Hub(tree[i]), LAMBDA d : d.bus) = tree[h].bus
  <2>1. i \in interfaces /\ canonical_device_path(classify(tree[i].name)) = tree[h].name
    BY InterfaceEntry
  <2>2. c \in tree[i].children
    BY DEF PortsOf
  <2>3. c.name = PortName(tree[h].name, Last(c.name)) /\ Last(c.name) \in Token /\ Last(c.name) \in Numbers
    BY <2>1, SysfsNames DEF IsSysfs
  <2>4. /\ port_device_path(c.name) = DeviceName(tree[h].name, Last(c.name))
        /\ port_device_path(c.name) # None
    BY <1>2, <2>3, DevicesNamed, PortLeads
  <2>5. Hub(tree[i]) = tree[h] /\ tree[h] # None
    <3> DEFINE of == canonical_device_path(classify(tree[i].name))
    <3>1. {k \in DOMAIN tree : tree[k].name = of} = {k \in DOMAIN tree : tree[k].name = tree[h].name}
      BY <2>1
    <3>2. /\ {k \in DOMAIN tree : tree[k].name = of} # {} /\ Min({k \in DOMAIN tree : tree[k].name = of}) = h
          /\ h # 0 /\ tree[h] # None
      BY <3>1, HubFound
    <3> HIDE DEF of
    <3>3. Find(tree, LAMBDA d : d.name = of) = tree[h]
      BY <3>2 DEF Find, Position
    <3> QED BY <3>2, <3>3 DEF of
  <2>6. Opt(Hub(tree[i]), LAMBDA d : d.bus) = tree[h].bus
    BY <2>5 DEF Opt
  <2> QED BY <2>1, <2>2, <2>4, <2>6
<1>4. ASSUME NEW q \in ports
      PROVE  \E h \in DevicesOf(tree) : \E i \in InterfacesOf(tree, h) : \E c \in PortsOf(tree, i) : q = <<i, c>>
  <2>0. PICK i \in interfaces : q \in {i} \X {c \in tree[i].children : port_device_path(c.name) # None}
    OBVIOUS
  <2>1. PICK c \in tree[i].children : q = <<i, c>> /\ port_device_path(c.name) # None
    BY <2>0
  <2>2. i \in DOMAIN tree /\ i \notin DevicesOf(tree)
    BY DeviceEntry
  <2>3. PICK h \in DevicesOf(tree) : i \in InterfacesOf(tree, h)
    BY <2>2 DEF IsSysfs
  <2>4. c \in PortsOf(tree, i)
    <3>1. c.name \in Seq(Token)
      BY <2>2 DEF IsSysfs
    <3>2. "-port" \in Range(c.name)
      BY <2>1, <3>1, IndexOfNone DEF port_device_path
    <3>3. Last(c.name) \in Numbers
      <4> DEFINE name == c.name
                 at == IndexOf(name, "-port")
      <4>1. at + 1 = Len(name) /\ name[at + 1] \in Numbers
        BY <2>1 DEF port_device_path
      <4> HIDE DEF at, name
      <4>2. Last(name) = name[Len(name)]
        BY DEF Last
      <4> QED BY <4>1, <4>2 DEF name
    <3> QED BY <3>2, <3>3 DEF PortsOf
  <2> QED BY <2>1, <2>3, <2>4
<1>5. ASSUME NEW h \in DevicesOf(tree), NEW i \in InterfacesOf(tree, h), NEW c \in PortsOf(tree, i)
      PROVE  <<i, c>> \in ports
  <2>1. i \in interfaces /\ <<i, c>> \in {i} \X {b \in tree[i].children : port_device_path(b.name) # None}
    BY <1>3
  <2> HIDE DEF interfaces
  <2> QED BY <2>1
<1>6. ASSUME NEW h \in DevicesOf(tree), NEW i \in InterfacesOf(tree, h), NEW c \in PortsOf(tree, i)
      PROVE  /\ PortOf(tree[i], c).type = "usb_port" /\ PortOf(tree[i], c).bus = tree[h].bus
             /\ PortOf(tree[i], c).path = DeviceName(tree[h].name, Last(c.name))
  <2> DEFINE bus == Opt(Hub(tree[i]), LAMBDA d : d.bus)
  <2>1. bus = tree[h].bus /\ port_device_path(c.name) = DeviceName(tree[h].name, Last(c.name))
    BY <1>3
  <2>2. PortOf(tree[i], c) = [type |-> "usb_port", port |-> c.name, path |-> port_device_path(c.name),
                              bus |-> bus, state |-> c.state]
    OBVIOUS
  <2> HIDE DEF bus, PortOf
  <2> QED BY <2>1, <2>2
<1>7. \A i, c : <<i, c>>[1] = i /\ <<i, c>>[2] = c
  OBVIOUS
<1> HIDE DEF PortOf, ports
<1> QED BY <1>1, <1>4, <1>5, <1>6, <1>7

\* What the two groups have found.
UsbInv ==
  /\ PlacesOK
  /\ records["usb"] = IF Done("usb") THEN usb_records(site.usb) ELSE <<>>
  /\ records["usb_port"] = IF Done("usb_port") THEN usb_port_records(site.usb_then) ELSE <<>>

LEMMA UsbJoin ==
  ASSUME UsbInv
  PROVE  PortsLeadToDevices
<1> SUFFICES ASSUME Done("usb_port"), site.usb = site.usb_then
             PROVE  LET devices == OfType("usb", "usb")
                        ports == OfType("usb_port", "usb_port")
                    IN  /\ \A r \in OfType("usb", "usb.interface") : \E d \in devices : d.path = r.path
                        /\ \A d \in devices : d.path[1] # "usb" =>
                             /\ Cardinality({r \in ports : r.path = d.path}) = 1
                             /\ \A r \in ports : r.path = d.path => r.bus = d.bus
  BY DEF PortsLeadToDevices
<1> DEFINE tree == site.usb
           u == records["usb"]
           p == records["usb_port"]
           ports == OfType("usb_port", "usb_port")
<1>1. \A type, r : r \in OfType("usb", type) <=> \E i \in DOMAIN u : u[i].type = type /\ r = u[i]
  BY DEF OfType
<1>2. \A r : r \in ports <=> \E q \in DOMAIN p : p[q].type = "usb_port" /\ r = p[q]
  BY DEF OfType
<1>3. CASE u = <<>>
  BY <1>1, <1>3
<1>4. CASE u # <<>>
  <2>1. u = usb_records(tree) /\ p = usb_port_records(tree) /\ tree # None
    BY <1>4 DEF UsbInv, usb_records
  <2>2. IsSysfs(tree)
    BY <2>1, SysfsAssumption DEF UsbInv, PlacesOK
  <2>3. /\ DOMAIN u = DOMAIN tree
        /\ \A i \in DevicesOf(tree) : /\ u[i].type = "usb" /\ u[i].path = tree[i].name
                                      /\ u[i].bus = tree[i].bus
        /\ \A d \in DevicesOf(tree) : \A i \in InterfacesOf(tree, d) :
             u[i].type = "usb.interface" /\ u[i].path = tree[d].name
    BY <2>1, <2>2, UsbRecords
  <2>4. /\ \A q \in DOMAIN p : \E h \in DevicesOf(tree) : \E i \in InterfacesOf(tree, h) : \E c \in PortsOf(tree, i) :
             q = <<i, c>>
        /\ \A h \in DevicesOf(tree) : \A i \in InterfacesOf(tree, h) : \A c \in PortsOf(tree, i) :
             /\ <<i, c>> \in DOMAIN p
             /\ p[<<i, c>>].type = "usb_port" /\ p[<<i, c>>].bus = tree[h].bus
             /\ p[<<i, c>>].path = DeviceName(tree[h].name, Last(c.name))
    BY <2>1, <2>2, UsbPortRecords
  <2> HIDE DEF tree, u, p, ports
  <2>5. \A i \in DOMAIN tree : i \in DevicesOf(tree) \/ \E d \in DevicesOf(tree) : i \in InterfacesOf(tree, d)
    BY <2>2 DEF IsSysfs
  <2>6. \A i \in DevicesOf(tree) : i \in DOMAIN tree
    BY DEF DevicesOf
  <2>7. ASSUME NEW r \in OfType("usb", "usb.interface")
        PROVE  \E d \in OfType("usb", "usb") : d.path = r.path
    <3>1. PICK i \in DOMAIN tree : r = u[i] /\ u[i].type = "usb.interface"
      BY <1>1, <2>3
    <3>2. PICK d \in DevicesOf(tree) : i \in InterfacesOf(tree, d)
      BY <2>3, <2>5, <3>1
    <3>3. u[d] \in OfType("usb", "usb") /\ u[d].path = r.path
      BY <1>1, <2>3, <2>6, <3>1, <3>2
    <3> QED BY <3>3
  <2>8. ASSUME NEW r \in OfType("usb", "usb"), r.path[1] # "usb"
        PROVE  /\ Cardinality({o \in ports : o.path = r.path}) = 1
               /\ \A o \in ports : o.path = r.path => o.bus = r.bus
    <3>1. PICK d \in DevicesOf(tree) : r = u[d]
      BY <1>1, <2>3, <2>5
    <3>2. r.path = tree[d].name /\ r.bus = tree[d].bus
      BY <2>3, <3>1
    <3>3. PICK h \in DevicesOf(tree), i \in DOMAIN tree : \E c \in tree[i].children : IsAt(tree, d, h, i, c)
      BY <2>2, <2>8, <3>2 DEF IsSysfs
    <3>4. PICK c \in tree[i].children : IsAt(tree, d, h, i, c)
      BY <3>3
    <3>5. /\ i \in InterfacesOf(tree, h) /\ c \in PortsOf(tree, i)
          /\ tree[d].name = DeviceName(tree[h].name, Last(c.name)) /\ tree[d].bus = tree[h].bus
      BY <3>4 DEF IsAt
    <3> DEFINE mine == p[<<i, c>>]
    <3>6. mine \in ports /\ mine.path = r.path /\ mine.bus = r.bus
      BY <1>2, <2>4, <3>2, <3>5
    <3>7. ASSUME NEW o \in ports, o.path = r.path
          PROVE  o = mine
      <4>1. PICK q \in DOMAIN p : o = p[q]
        BY <1>2
      <4>0. PICK g \in DevicesOf(tree) : \E j \in InterfacesOf(tree, g) : \E e \in PortsOf(tree, j) : q = <<j, e>>
        BY <2>4
      <4>2. PICK j \in InterfacesOf(tree, g) : \E e \in PortsOf(tree, j) : q = <<j, e>>
        BY <4>0
      <4>3. PICK e \in PortsOf(tree, j) : q = <<j, e>>
        BY <4>2
      <4>4. DeviceName(tree[g].name, Last(e.name)) = DeviceName(tree[h].name, Last(c.name))
        BY <2>4, <3>2, <3>5, <3>7, <4>1, <4>3
      <4>5. Last(e.name) \in Token /\ Last(c.name) \in Token
        BY <2>2, <3>5, SysfsNames DEF InterfacesOf
      <4>6. tree[g].name = tree[h].name /\ Last(e.name) = Last(c.name)
        BY <2>2, <4>4, <4>5, DevicesNamed, OnePortOneHub
      <4>7. g = h
        BY <2>2, <2>6, <4>6 DEF IsSysfs
      <4>8. e.name = c.name
        BY <2>2, <3>5, <4>6, <4>7 DEF IsSysfs
      <4>9. i = j /\ e = c
        BY <2>2, <3>5, <4>7, <4>8 DEF IsSysfs
      <4> QED BY <4>1, <4>3, <4>9
    <3> HIDE DEF mine
    <3>8. {o \in ports : o.path = r.path} = {mine}
      BY <3>6, <3>7
    <3>9. Cardinality({mine}) = 1
      BY FS_Singleton
    <3> QED BY <3>6, <3>7, <3>8, <3>9
  <2> QED BY <2>7, <2>8 DEF ports
<1> QED BY <1>3, <1>4

(***************************************************************************)
(* Of the groups that were asked for, the one that is collected is the     *)
(* only one that is done now and was not before.                           *)
(***************************************************************************)
LEMMA DoneGrows ==
  ASSUME PlacesOK, NEW g \in {"usb", "usb_port", "wifi", "ble"}, At(g), pos' = Place[g], options' = options
  PROVE  \A h \in {"usb", "usb_port", "wifi", "ble"} : Done(h)' <=> (Done(h) \/ h = g)
<1> SUFFICES ASSUME NEW h \in {"usb", "usb_port", "wifi", "ble"}
             PROVE  Done(h)' <=> (Done(h) \/ h = g)
  OBVIOUS
<1>1. /\ pos \in Nat /\ pos < Place[g] /\ g \in options.only
      /\ h \in options.only /\ Place[h] < Place[g] => Place[h] <= pos
  BY NextGroup DEF PlacesOK
<1>2. Done(h) <=> h \in options.only /\ Place[h] <= pos
  BY <1>1, DoneAt
<1>3. Place[g] \in Nat /\ Place[h] \in Nat /\ (Place[g] = Place[h] <=> g = h)
  BY Groups4
<1>4. Done(h)' <=> h \in options.only /\ Place[h] <= Place[g]
  BY Groups4 DEF Done
<1> QED BY <1>1, <1>2, <1>3, <1>4

LEMMA UsbKept ==
  ASSUME UsbInv, UNCHANGED <<options, pos, records, site>>
  PROVE  UsbInv'
BY DEF UsbInv, PlacesOK, Done

LEMMA UsbAdded ==
  ASSUME UsbInv, CollectUsb \/ SkipSweep \/ Sweep \/ SkipBle \/ ReportBle
  PROVE  UsbInv'
<1>1. PlacesOK /\ site' = site
  BY DEF UsbInv, CollectUsb, SkipSweep, Sweep, SkipBle, ReportBle
<1> DEFINE Others(g) ==
             \A h \in {"usb", "usb_port"} : h # g => records'[h] = records[h] /\ (Done(h)' <=> Done(h))
<1>2. ASSUME NEW g \in {"usb", "usb_port", "wifi", "ble"}, At(g),
             \/ \E rs : AddRecords(g, rs)
             \/ g \in {"wifi", "ble"} /\ \E scan, rs : AddScan(g, scan, rs)
      PROVE  PlacesOK' /\ Others(g) /\ Done(g)'
  <2>1. /\ PlacesOK' /\ pos' = Place[g] /\ options' = options
        /\ \A h \in GroupNames :
             h # g /\ (g \in {"wifi", "ble"} => h # ScanOf[g]) => records'[h] = records[h]
    BY <1>1, <1>2, RecordsAdded
  <2>2. \A h \in {"usb", "usb_port", "wifi", "ble"} : Done(h)' <=> (Done(h) \/ h = g)
    BY <1>1, <1>2, <2>1, DoneGrows
  <2>3. g \in {"wifi", "ble"} => ScanOf[g] \in {"wifi_scan", "ble_scan"}
    BY DEF ScanOf
  <2>4. "usb" \in GroupNames /\ "usb_port" \in GroupNames
    BY DEF GroupNames
  <2> QED BY <2>1, <2>2, <2>3, <2>4
<1>3. CASE At("usb") /\ AddRecords("usb", usb_records(site.usb))
  <2>1. PlacesOK' /\ Others("usb") /\ Done("usb")'
    BY <1>2, <1>3
  <2>2. records'["usb"] = usb_records(site.usb)
    BY <1>1, <1>3 DEF AddRecords, PlacesOK, GroupNames
  <2> QED BY <1>1, <2>1, <2>2 DEF UsbInv
<1>4. CASE At("usb_port") /\ AddRecords("usb_port", usb_port_records(site.usb_then))
  <2>1. PlacesOK' /\ Others("usb_port") /\ Done("usb_port")'
    BY <1>2, <1>4
  <2>2. records'["usb_port"] = usb_port_records(site.usb_then)
    BY <1>1, <1>4 DEF AddRecords, PlacesOK, GroupNames
  <2> QED BY <1>1, <2>1, <2>2 DEF UsbInv
<1>5. CASE SkipSweep \/ Sweep \/ SkipBle \/ ReportBle
  <2>1. PICK g \in {"wifi", "ble"} : At(g) /\ \E scan, rs : AddScan(g, scan, rs)
    BY <1>5 DEF SkipSweep, Sweep, SkipBle, ReportBle, ble_skipped
  <2>2. PlacesOK' /\ Others(g)
    BY <1>2, <2>1
  <2> QED BY <1>1, <2>2 DEF UsbInv
<1> QED BY <1>3, <1>4, <1>5 DEF CollectUsb

(***************************************************************************)
(* Every interface record leads to a device record and every device below  *)
(* a root hub to one port record on its bus, for every tree of sysfs that  *)
(* stands still between the two listings.                                  *)
(***************************************************************************)
THEOREM PortsLead == DevicesSpec => []PortsLeadToDevices
<1>1. DevicesInit => UsbInv
  <2> SUFFICES ASSUME DevicesInit PROVE UsbInv
    OBVIOUS
  <2>1. pos = 0 /\ PlacesOK /\ records["usb"] = <<>> /\ records["usb_port"] = <<>>
    BY DEF DevicesInit, CollectorInit, PlacesOK, GroupNames
  <2>2. ~Done("usb") /\ ~Done("usb_port")
    BY <2>1 DEF Done
  <2> QED BY <2>1, <2>2 DEF UsbInv
<1>2. UsbInv /\ [DevicesNext]_devices_vars => UsbInv'
  <2> SUFFICES ASSUME UsbInv, [DevicesNext]_devices_vars PROVE UsbInv'
    OBVIOUS
  <2>1. CASE \/ StartDevices \/ PostDevices \/ ReceivingDevices \/ UNCHANGED devices_vars
             \/ LookAtRadio \/ AccessPointStarts
             \/ SpawnMonitor \/ MonitorWrites \/ ScanEnds \/ ReapMonitor \/ drain
    <3>1. UNCHANGED <<options, pos, records, site>>
      BY <2>1 DEF StartDevices, PostDevices, ReceivingDevices, ParseArgs, Publish, Connect, WriteRequest,
           ReadTimeout, ReadResponse, Receiver, Receive, Answer, Close, devices_vars, collector_vars,
           LookAtRadio, AccessPointStarts, SpawnMonitor, MonitorWrites, ScanEnds, ReapMonitor, drain
    <3> QED BY <3>1, UsbKept
  <2>2. CASE CollectUsb \/ SkipSweep \/ Sweep \/ SkipBle \/ ReportBle
    BY <2>2, UsbAdded
  <2> QED BY <2>1, <2>2 DEF DevicesNext, CollectDevices
<1>3. UsbInv => PortsLeadToDevices
  BY UsbJoin
<1> QED BY <1>1, <1>2, <1>3, PTL DEF DevicesSpec

-----------------------------------------------------------------------------
(***************************************************************************)
(* The DoH providers: what the journal holds of the passes.                *)
(***************************************************************************)
Pass ==
  [number : Nat, started : Nat, wall : Nat, synced : BOOLEAN,
   probing : SUBSET Providers, answered : SUBSET Providers]

ProxyTypeOK ==
  /\ time \in Nat /\ synced \in BOOLEAN /\ due \in Nat /\ logged \in Nat
  /\ pass \in Pass
  /\ witnessed \in [pass : Pass, end : Nat, torn : BOOLEAN, before : Nat]
  /\ journal = [i \in DOMAIN journal |-> journal[i]] /\ DOMAIN journal \subseteq 1..logged
  /\ \A i \in DOMAIN journal : journal[i].at \in Nat /\ journal[i].value \in Nat /\ journal[i].name \in Providers

\* A pass is short, and one that is over is the witnessed one or was not
\* answered.
PassInv ==
  /\ pass.started <= time /\ pass.wall <= wall /\ (pass.synced => synced)
  /\ pass.probing # {} =>
       /\ time <= pass.started + PassSpan /\ witnessed.pass.number < pass.number
       /\ pass.synced = synced => wall - pass.wall = time - pass.started
  /\ pass.probing = {} /\ pass.answered # {} => witnessed.pass = pass
  /\ witnessed.before <= witnessed.pass.number /\ witnessed.pass.number <= pass.number

\* The witnessed pass was answered, and the next one comes a Delay after it.
WitnessInv ==
  witnessed.pass.number > 0 =>
    /\ witnessed.pass.answered # {} /\ witnessed.before < witnessed.pass.number
    /\ witnessed.pass.wall <= witnessed.end /\ witnessed.end <= wall
    /\ ~witnessed.torn => witnessed.end <= witnessed.pass.wall + PassSpan
    /\ pass.number > witnessed.pass.number => witnessed.end + Delay <= pass.wall
    /\ pass.probing = {} => witnessed.end + Delay + time <= wall + due

\* A line is of a pass, and tells its time; the passes that have a success are
\* the one under way, the witnessed one, and some long before it.
LineOK(line) ==
  /\ line.at <= wall /\ line.value \in 1..pass.number
  /\ line.value = pass.number => pass.wall <= line.at
  /\ line.value <= witnessed.pass.number => line.at <= witnessed.end
  /\ witnessed.pass.number > 0 /\ line.value > witnessed.pass.number => witnessed.end + Delay <= line.at
  /\ line.value <= witnessed.before => line.at + Delay <= witnessed.pass.wall
  /\ line.kind = "ok" =>
       \/ line.value = pass.number /\ line.name \in pass.answered
       \/ /\ line.value = witnessed.pass.number /\ line.name \in witnessed.pass.answered
          /\ witnessed.pass.wall <= line.at
       \/ line.value <= witnessed.before

\* The successes of a pass that the window holds are all in the journal.
Kept(of) ==
  of.wall >= wall - Window =>
    \A p \in of.answered : \E i \in DOMAIN journal :
      journal[i].kind = "ok" /\ journal[i].name = p /\ journal[i].value = of.number

ProxyInv ==
  /\ ProxyTypeOK
  /\ PassInv
  /\ WitnessInv
  /\ \A i \in DOMAIN journal : LineOK(journal[i])
  /\ Kept(pass) /\ Kept(witnessed.pass)

LEMMA GreatestMember ==
  ASSUME NEW T \in SUBSET Nat, T # {}, NEW b \in Nat, \A t \in T : t <= b
  PROVE  Max(T) \in T /\ \A n \in T : n <= Max(T)
<1> DEFINE U == {n \in Nat : \A t \in T : t <= n}
<1>1. U \in SUBSET Nat /\ U # {}
  OBVIOUS
<1>2. PICK m \in U : \A n \in U : m <= n
  <2> HIDE DEF U
  <2> QED BY <1>1, LeastNatural
<1>3. m \in T
  <2> SUFFICES ASSUME m \notin T PROVE FALSE
    OBVIOUS
  <2>1. \A t \in T : t <= m - 1 /\ m - 1 \in Nat
    OBVIOUS
  <2>2. m - 1 \in U
    BY <2>1
  <2> QED BY <1>2, <2>2
<1>4. \A n \in T : m >= n
  OBVIOUS
<1>5. Max(T) \in T /\ \A n \in T : Max(T) >= n
  BY <1>3, <1>4 DEF Max
<1> QED BY <1>5

LEMMA WallType ==
  ASSUME ProxyTypeOK
  PROVE  wall \in Nat
BY ScalesAssumption DEF ProxyTypeOK, wall

LEMMA Scales ==
  /\ Delay \in Nat /\ Retry \in Nat /\ PassSpan \in Nat /\ PASS_GAP \in Nat /\ Window \in Nat /\ Behind \in Nat
  /\ PassSpan <= PASS_GAP /\ PASS_GAP + PassSpan < Delay
BY ScalesAssumption

(***************************************************************************)
(* The groups passes finds, as its sets.                                   *)
(***************************************************************************)
Observations(entries) == {i \in DOMAIN entries : entries[i].kind = "ok" /\ entries[i].name \in Providers}
Times(entries) == {entries[i].at : i \in Observations(entries)}
Starts(entries) == {t \in Times(entries) : \A u \in Times(entries) : u < t => t - u > PASS_GAP}
Members(entries, s) ==
  {i \in Observations(entries) : entries[i].at >= s /\ \A t \in Starts(entries) : t > s => entries[i].at < t}

EndOf(entries, places) == Max({entries[i].at : i \in places})
NamesOf(entries, places) == {entries[i].name : i \in places}
ValueOf(entries, places, p) == entries[Latest(entries, {i \in places : entries[i].name = p})].value

LEMMA PassesFound ==
  ASSUME NEW entries
  PROVE  /\ DOMAIN passes(entries) = Starts(entries)
         /\ \A s \in Starts(entries) :
              /\ passes(entries)[s].start = s
              /\ passes(entries)[s].end = EndOf(entries, Members(entries, s))
              /\ DOMAIN passes(entries)[s].successes = NamesOf(entries, Members(entries, s))
              /\ \A p \in NamesOf(entries, Members(entries, s)) :
                   passes(entries)[s].successes[p] = ValueOf(entries, Members(entries, s), p)
BY DEF passes, Observations, Times, Starts, Members, parse_ok, EndOf, NamesOf, ValueOf

(***************************************************************************)
(* The last of a few lines of the journal is one of them.                  *)
(***************************************************************************)
LEMMA LatestMember ==
  ASSUME NEW entries, NEW S \in SUBSET DOMAIN entries, S # {}, NEW n \in Nat, DOMAIN entries \subseteq 1..n,
         NEW b \in Nat, \A i \in DOMAIN entries : entries[i].at \in Nat /\ entries[i].at <= b
  PROVE  Latest(entries, S) \in S
<1> DEFINE times == {entries[i].at : i \in S}
           t == Max(times)
           then == {i \in S : entries[i].at = t}
           last == Max(then)
<1>1. t \in times /\ \A u \in times : u <= t
  <2>1. times \in SUBSET Nat /\ times # {} /\ \A u \in times : u <= b
    OBVIOUS
  <2> HIDE DEF times
  <2> QED BY <2>1, GreatestMember
<1> HIDE DEF t
<1>2. last \in then /\ \A i \in then : i <= last
  <2>1. then \in SUBSET Nat /\ then # {} /\ \A i \in then : i <= n
    BY <1>1
  <2> HIDE DEF then
  <2> QED BY <2>1, GreatestMember
<1> HIDE DEF last
<1>3. /\ last \in S
      /\ \A j \in S : entries[j].at < entries[last].at \/ (entries[j].at = entries[last].at /\ j <= last)
  <2>1. last \in S /\ entries[last].at = t /\ t \in Nat
    BY <1>1, <1>2
  <2> SUFFICES ASSUME NEW j \in S
               PROVE  entries[j].at < t \/ (entries[j].at = t /\ j <= last)
    BY <2>1
  <2>2. entries[j].at <= t /\ entries[j].at \in Nat
    BY <1>1
  <2>3. CASE entries[j].at = t
    BY <1>2, <2>3
  <2> QED BY <2>1, <2>2, <2>3
<1> QED BY <1>3 DEF Latest

\* What a run reads: the journal's lines of the window.
Entries == RestrictDomain(journal, LAMBDA i : journal[i].at >= wall - Window)

LEMMA EntriesRead ==
  ASSUME ProxyInv
  PROVE  /\ DOMAIN Entries = {i \in DOMAIN journal : journal[i].at >= wall - Window}
         /\ \A i \in DOMAIN Entries : /\ i \in DOMAIN journal /\ Entries[i] = journal[i]
                                      /\ LineOK(Entries[i]) /\ Entries[i].at >= wall - Window
                                      /\ Entries[i].at \in Nat /\ Entries[i].value \in Nat
         /\ logged \in Nat /\ DOMAIN Entries \subseteq 1..logged
<1>1. Entries = [i \in {j \in DOMAIN journal : journal[j].at >= wall - Window} |-> journal[i]]
  BY DEF Entries, RestrictDomain, Restrict
<1>2. DOMAIN Entries = {i \in DOMAIN journal : journal[i].at >= wall - Window}
  BY <1>1
<1>3. \A i \in DOMAIN Entries : i \in DOMAIN journal /\ Entries[i] = journal[i] /\ Entries[i].at >= wall - Window
  BY <1>1, <1>2
<1> QED BY <1>2, <1>3 DEF ProxyInv, ProxyTypeOK

\* Between two passes a success is of the witnessed pass or of one before it.
LEMMA Successes ==
  ASSUME ProxyInv, pass.probing = {}, NEW i \in Observations(Entries)
  PROVE  LET line == Entries[i]
         IN  /\ line.at \in Nat /\ line.at <= witnessed.end /\ line.value > 0
             /\ line.value <= witnessed.pass.number
             /\ \/ /\ line.value = witnessed.pass.number /\ line.name \in witnessed.pass.answered
                   /\ witnessed.pass.wall <= line.at
                \/ line.at + Delay <= witnessed.pass.wall
<1> DEFINE line == Entries[i]
           w == witnessed.pass.number
<1>1. LineOK(line) /\ line.kind = "ok" /\ line.at \in Nat /\ line.value \in Nat
  BY EntriesRead DEF Observations
<1>2. /\ w \in Nat /\ witnessed.before \in Nat /\ witnessed.before <= w /\ pass.number \in Nat
      /\ pass.answered # {} => witnessed.pass = pass
  BY DEF ProxyInv, ProxyTypeOK, PassInv, Pass
<1> HIDE DEF line
<1>3. \/ /\ line.value = w /\ line.name \in witnessed.pass.answered /\ witnessed.pass.wall <= line.at
      \/ line.value <= witnessed.before
  BY <1>1, <1>2 DEF LineOK
<1>4. line.value <= w
  BY <1>1, <1>2, <1>3
<1>5. line.at <= witnessed.end /\ line.value > 0
  BY <1>1, <1>2, <1>4 DEF LineOK
<1>6. line.value <= witnessed.before => line.at + Delay <= witnessed.pass.wall
  BY <1>1 DEF LineOK
<1> QED BY <1>1, <1>3, <1>4, <1>5, <1>6 DEF line

(***************************************************************************)
(* With no success in the window there is no pass.                         *)
(***************************************************************************)
LEMMA NoPass ==
  ASSUME ProxyInv, pass.probing = {}, witnessed.pass.number = 0 \/ witnessed.end < wall - Window
  PROVE  DOMAIN passes(Entries) = {}
<1>1. Observations(Entries) = {}
  <2> SUFFICES ASSUME NEW i \in Observations(Entries) PROVE FALSE
    OBVIOUS
  <2>1. /\ Entries[i].at \in Nat /\ Entries[i].at <= witnessed.end /\ Entries[i].value > 0
        /\ Entries[i].value <= witnessed.pass.number
    BY Successes
  <2>2. Entries[i].at >= wall - Window /\ Entries[i].value \in Nat
    BY EntriesRead DEF Observations
  <2>3. witnessed.end \in Nat /\ wall \in Nat /\ Window \in Nat
    BY WallType, Scales DEF ProxyInv, ProxyTypeOK
  <2> QED BY <2>1, <2>2, <2>3
<1>2. Starts(Entries) = {}
  BY <1>1 DEF Times, Starts
<1> QED BY <1>2, PassesFound

(***************************************************************************)
(* The last pass that is found is the witnessed one.                       *)
(***************************************************************************)
Witnessed == {i \in Observations(Entries) : Entries[i].value = witnessed.pass.number}

LEMMA LastPass ==
  ASSUME ProxyInv, pass.probing = {}, witnessed.pass.number > 0, ~witnessed.torn,
         witnessed.pass.wall >= wall - Window
  PROVE  LET s == Max(Starts(Entries))
         IN  /\ s \in Starts(Entries) /\ Members(Entries, s) = Witnessed
             /\ s \in Nat /\ witnessed.pass.wall <= s
<1> DEFINE ww == witnessed.pass.wall
           w == witnessed.pass.number
           e == witnessed.end
           obs == Observations(Entries)
           When(i) == Entries[i].at
           times == {When(i) : i \in Witnessed}
           s0 == Min(times)
<1>1. /\ ww \in Nat /\ e \in Nat /\ w \in Nat /\ e <= ww + PassSpan /\ witnessed.pass.answered # {}
      /\ witnessed.pass.answered \subseteq Providers
  BY DEF ProxyInv, ProxyTypeOK, WitnessInv, Pass
<1>2. Witnessed # {}
  <2>1. PICK p \in witnessed.pass.answered : TRUE
    BY <1>1
  <2>2. PICK i \in DOMAIN journal : journal[i].kind = "ok" /\ journal[i].name = p /\ journal[i].value = w
    BY DEF ProxyInv, Kept
  <2>3. journal[i].at >= wall - Window
    <3>1. LineOK(journal[i]) /\ journal[i].at \in Nat
      BY DEF ProxyInv, ProxyTypeOK
    <3>2. ww <= journal[i].at
      <4>1. w = pass.number => pass.wall <= journal[i].at
        BY <2>2, <3>1 DEF LineOK
      <4>2. pass.answered # {} => witnessed.pass = pass
        BY DEF ProxyInv, PassInv
      <4>3. witnessed.before < w /\ witnessed.before \in Nat
        BY DEF ProxyInv, WitnessInv, ProxyTypeOK
      <4> QED BY <1>1, <2>2, <3>1, <4>1, <4>2, <4>3 DEF LineOK
    <3>3. wall \in Nat /\ Window \in Nat
      BY WallType, Scales DEF ProxyInv
    <3> QED BY <1>1, <3>1, <3>2, <3>3
  <2>4. i \in DOMAIN Entries /\ Entries[i] = journal[i]
    BY <2>3, EntriesRead
  <2> QED BY <1>1, <2>1, <2>2, <2>4 DEF Witnessed, Observations
<1>3. \A i \in Witnessed : /\ i \in obs /\ When(i) \in Nat /\ ww <= When(i) /\ When(i) <= e
  <2> SUFFICES ASSUME NEW i \in Witnessed PROVE i \in obs /\ When(i) \in Nat /\ ww <= When(i) /\ When(i) <= e
    OBVIOUS
  <2>1. i \in obs /\ Entries[i].value = w
    BY DEF Witnessed
  <2>2. LineOK(Entries[i])
    BY <2>1, EntriesRead DEF Observations
  <2>3. /\ When(i) \in Nat /\ When(i) <= e /\ (ww <= When(i) \/ When(i) + Delay <= ww)
    BY <2>1, Successes
  <2>4. ww <= When(i)
    <3>1. witnessed.before < w /\ witnessed.before \in Nat
      BY DEF ProxyInv, WitnessInv, ProxyTypeOK
    <3>2. w = pass.number => pass.wall <= When(i)
      BY <2>1, <2>2 DEF LineOK
    <3>3. pass.answered # {} => witnessed.pass = pass
      BY DEF ProxyInv, PassInv
    <3> QED BY <1>1, <2>1, <2>2, <3>1, <3>2, <3>3 DEF LineOK, Observations
  <2> QED BY <2>1, <2>3, <2>4
<1>4. \A i \in obs : i \in Witnessed \/ (When(i) \in Nat /\ When(i) + Delay <= ww)
  BY Successes DEF Witnessed
<1>5. s0 \in times /\ \A t \in times : s0 <= t
  <2>1. times \in SUBSET Nat /\ times # {}
    BY <1>2, <1>3
  <2> HIDE DEF times
  <2> QED BY <2>1, LeastMember
<1> HIDE DEF s0, obs, ww, e, w, When
<1>6. s0 \in Nat /\ ww <= s0 /\ s0 <= e /\ \A i \in Witnessed : s0 <= When(i)
  BY <1>3, <1>5
<1>7. \A t : t \in Times(Entries) <=> \E i \in obs : t = When(i)
  BY DEF Times, obs, When
<1>8. s0 \in Starts(Entries)
  <2>1. s0 \in Times(Entries)
    BY <1>3, <1>5, <1>7
  <2>2. ASSUME NEW u \in Times(Entries), u < s0 PROVE s0 - u > PASS_GAP
    <3>1. PICK i \in obs : u = When(i)
      BY <1>7
    <3>2. When(i) \in Nat /\ When(i) + Delay <= ww
      BY <1>3, <1>4, <1>6, <2>2, <3>1
    <3> QED BY <1>1, <1>6, <3>1, <3>2, Scales DEF ww
  <2> QED BY <2>1, <2>2 DEF Starts
<1>9. \A t \in Starts(Entries) : t \in Nat /\ t <= s0
  <2> SUFFICES ASSUME NEW t \in Starts(Entries) PROVE t \in Nat /\ t <= s0
    OBVIOUS
  <2>1. t \in Times(Entries) /\ (s0 < t => t - s0 > PASS_GAP)
    BY <1>8 DEF Starts
  <2>2. PICK i \in obs : t = When(i)
    BY <1>7, <2>1
  <2>3. CASE i \in Witnessed
    <3>1. t \in Nat /\ t <= e /\ ww <= t
      BY <1>3, <2>2, <2>3
    <3> QED BY <1>1, <1>6, <2>1, <3>1, Scales DEF e, ww
  <2>4. CASE When(i) \in Nat /\ When(i) + Delay <= ww
    BY <1>1, <1>6, <2>2, <2>4, Scales DEF ww
  <2> QED BY <1>4, <2>3, <2>4
<1>10. Max(Starts(Entries)) = s0
  <2> DEFINE m == Max(Starts(Entries))
  <2>1. m \in Starts(Entries) /\ \A t \in Starts(Entries) : t <= m
    <3>1. Starts(Entries) \in SUBSET Nat /\ Starts(Entries) # {}
      BY <1>8, <1>9
    <3> QED BY <1>6, <1>9, <3>1, GreatestMember
  <2> HIDE DEF m
  <2>2. m \in Nat /\ m <= s0 /\ s0 <= m
    BY <1>8, <1>9, <2>1
  <2>3. m = s0
    BY <1>6, <2>2
  <2> QED BY <2>3 DEF m
<1>11. Members(Entries, s0) = Witnessed
  <2>1. ASSUME NEW i \in Members(Entries, s0) PROVE i \in Witnessed
    <3>1. i \in obs /\ When(i) >= s0
      BY DEF Members, obs, When
    <3> QED BY <1>1, <1>4, <1>6, <3>1, Scales DEF ww
  <2>2. ASSUME NEW i \in Witnessed PROVE i \in Members(Entries, s0)
    <3>1. i \in obs /\ When(i) >= s0
      BY <1>3, <1>6, <2>2
    <3>2. \A t \in Starts(Entries) : ~(t > s0)
      BY <1>6, <1>9
    <3> QED BY <3>1, <3>2 DEF Members, obs, When
  <2> QED BY <2>1, <2>2
<1> QED BY <1>6, <1>8, <1>10, <1>11 DEF ww

\* The fields of a status that the verdict is about.
ErrorsNear(entries, last, p) ==
  {i \in DOMAIN entries :
     /\ entries[i].at + PASS_GAP >= last.start /\ entries[i].at <= last.end + PASS_GAP
     /\ entries[i].kind = "failure" /\ entries[i].name = p}

LEMMA StatusFields ==
  ASSUME NEW entries, NEW n, NEW i \in DOMAIN DohProviders
  PROVE  LET groups == passes(entries)
             last == groups[Max(DOMAIN groups)]
             p == DohProviders[i]
             r == dns_statuses(entries, n)[i]
         IN  /\ r.provider = p
             /\ DOMAIN groups = {} => r.ok = None
             /\ DOMAIN groups # {} =>
                  /\ r.ok = (p \in DOMAIN last.successes)
                  /\ r.ok => r.rtt = last.successes[p]
                  /\ r.error = IF ErrorsNear(entries, last, p) = {} THEN None
                               ELSE entries[Latest(entries, ErrorsNear(entries, last, p))].value
BY DEF dns_statuses, ErrorsNear, parse_failure

LEMMA StatusDomain ==
  ASSUME NEW entries, NEW n
  PROVE  DOMAIN dns_statuses(entries, n) = DOMAIN DohProviders
BY DEF dns_statuses

(***************************************************************************)
(* A reason that is found near the last pass is no older than its verdict. *)
(***************************************************************************)
LEMMA ReasonsNear ==
  ASSUME ProxyInv, pass.probing = {}, witnessed.pass.number > 0,
         NEW last, last.start \in Nat, last.end \in Nat,
         witnessed.pass.wall <= last.start, last.end <= witnessed.end,
         NEW p, NEW i \in ErrorsNear(Entries, last, p)
  PROVE  Entries[i].value \in (witnessed.before + 1)..witnessed.pass.number
<1> DEFINE line == Entries[i]
           w == witnessed.pass.number
           ww == witnessed.pass.wall
<1>1. LineOK(line) /\ line.at \in Nat /\ line.value \in Nat
      /\ line.at + PASS_GAP >= last.start /\ line.at <= last.end + PASS_GAP
  BY EntriesRead DEF ErrorsNear
<1>2. ww \in Nat /\ w \in Nat /\ witnessed.end \in Nat /\ witnessed.before \in Nat
  BY DEF ProxyInv, ProxyTypeOK, Pass
<1> HIDE DEF line, ww, w
<1>3. ~(line.value > w)
  <2> SUFFICES ASSUME line.value > w PROVE FALSE
    OBVIOUS
  <2>1. witnessed.end + Delay <= line.at
    BY <1>1 DEF LineOK, w
  <2> QED BY <1>1, <1>2, <2>1, Scales
<1>4. ~(line.value <= witnessed.before)
  <2> SUFFICES ASSUME line.value <= witnessed.before PROVE FALSE
    OBVIOUS
  <2>1. line.at + Delay <= ww
    BY <1>1 DEF LineOK, ww
  <2> QED BY <1>1, <1>2, <2>1, Scales DEF ww
<1>5. line.value \in (witnessed.before + 1)..w
  BY <1>1, <1>2, <1>3, <1>4
<1> QED BY <1>5 DEF line, w

(***************************************************************************)
(* A run that reads the journal between two passes tells the verdict.      *)
(***************************************************************************)
LEMMA Verdict ==
  ASSUME ProxyInv, NEW n
  PROVE  IsVerdict(dns_provider_records(n))
<1> DEFINE rs == dns_statuses(Entries, n)
           groups == passes(Entries)
           s == Max(DOMAIN groups)
           last == groups[s]
<1>1. dns_provider_records(n) = rs
  BY DEF dns_provider_records, Entries
<1>2. DOMAIN rs = DOMAIN DohProviders
  BY StatusDomain
<1>3. ASSUME pass.probing = {}, witnessed.pass.number = 0 \/ witnessed.end < wall - Window,
             NEW i \in DOMAIN DohProviders
      PROVE  rs[i].ok = None
  <2>1. DOMAIN groups = {}
    BY <1>3, NoPass
  <2> QED BY <2>1, StatusFields
<1>4. ASSUME pass.probing = {}, witnessed.pass.number > 0, ~witnessed.torn, witnessed.pass.wall >= wall - Window,
             NEW i \in DOMAIN DohProviders
      PROVE  /\ rs[i].ok = (rs[i].provider \in witnessed.pass.answered)
             /\ rs[i].ok => rs[i].rtt = witnessed.pass.number
             /\ rs[i].error # None => rs[i].error \in (witnessed.before + 1)..witnessed.pass.number
  <2> DEFINE p == DohProviders[i]
             w == witnessed.pass.number
  <2>1. /\ DOMAIN groups = Starts(Entries) /\ s \in Starts(Entries) /\ Members(Entries, s) = Witnessed
        /\ s \in Nat /\ witnessed.pass.wall <= s
    BY <1>4, PassesFound, LastPass
  <2>2. /\ last.start = s /\ last.end = Max({Entries[j].at : j \in Witnessed})
        /\ DOMAIN last.successes = {Entries[j].name : j \in Witnessed}
        /\ \A q \in {Entries[j].name : j \in Witnessed} :
             last.successes[q] = Entries[Latest(Entries, {j \in Witnessed : Entries[j].name = q})].value
    <3> HIDE DEF s
    <3>1. /\ last.start = s /\ last.end = EndOf(Entries, Members(Entries, s))
          /\ DOMAIN last.successes = NamesOf(Entries, Members(Entries, s))
          /\ \A q \in NamesOf(Entries, Members(Entries, s)) :
               last.successes[q] = ValueOf(Entries, Members(Entries, s), q)
      BY <2>1, PassesFound
    <3> HIDE DEF last
    <3>2. /\ last.start = s /\ last.end = EndOf(Entries, Witnessed)
          /\ DOMAIN last.successes = NamesOf(Entries, Witnessed)
          /\ \A q \in NamesOf(Entries, Witnessed) : last.successes[q] = ValueOf(Entries, Witnessed, q)
      BY <2>1, <3>1
    <3> QED BY <3>2 DEF EndOf, NamesOf, ValueOf
  <2>3. /\ rs[i].provider = p
        /\ rs[i].ok = (p \in DOMAIN last.successes)
        /\ rs[i].ok => rs[i].rtt = last.successes[p]
        /\ rs[i].error = IF ErrorsNear(Entries, last, p) = {} THEN None
                         ELSE Entries[Latest(Entries, ErrorsNear(Entries, last, p))].value
    <3>1. DOMAIN groups # {}
      BY <2>1
    <3>2. rs[i].provider = p
      BY StatusFields
    <3>3. rs[i].ok = (p \in DOMAIN last.successes)
      BY <3>1, StatusFields
    <3>4. rs[i].ok => rs[i].rtt = last.successes[p]
      BY <3>1, StatusFields
    <3>5. rs[i].error = IF ErrorsNear(Entries, last, p) = {} THEN None
                        ELSE Entries[Latest(Entries, ErrorsNear(Entries, last, p))].value
      BY <3>1, StatusFields
    <3> QED BY <3>2, <3>3, <3>4, <3>5
  <2>4. /\ \A j \in DOMAIN Entries : Entries[j].at \in Nat /\ Entries[j].at <= wall
        /\ wall \in Nat /\ logged \in Nat /\ DOMAIN Entries \subseteq 1..logged
        /\ Witnessed \subseteq DOMAIN Entries
    BY EntriesRead, WallType DEF ProxyInv, LineOK, Witnessed, Observations
  <2>5. \A q : q \in {Entries[j].name : j \in Witnessed} <=> q \in witnessed.pass.answered
    <3>1. ASSUME NEW j \in Witnessed PROVE Entries[j].name \in witnessed.pass.answered
      <4>1. j \in Observations(Entries) /\ Entries[j].value = w
        BY DEF Witnessed
      <4>2. LineOK(Entries[j]) /\ Entries[j].kind = "ok"
        BY <4>1, EntriesRead DEF Observations
      <4>3. witnessed.before < w /\ witnessed.before \in Nat /\ w \in Nat
        BY <1>4 DEF ProxyInv, WitnessInv, ProxyTypeOK, Pass
      <4>4. pass.answered # {} => witnessed.pass = pass
        BY <1>4 DEF ProxyInv, PassInv
      <4> QED BY <4>1, <4>2, <4>3, <4>4 DEF LineOK
    <3>2. ASSUME NEW q \in witnessed.pass.answered PROVE \E j \in Witnessed : Entries[j].name = q
      <4>1. PICK j \in DOMAIN journal : journal[j].kind = "ok" /\ journal[j].name = q /\ journal[j].value = w
        BY <1>4 DEF ProxyInv, Kept
      <4>2. witnessed.pass.wall <= journal[j].at
        <5>1. LineOK(journal[j])
          BY DEF ProxyInv
        <5>2. witnessed.before < w /\ witnessed.before \in Nat /\ w \in Nat
          BY <1>4 DEF ProxyInv, WitnessInv, ProxyTypeOK, Pass
        <5>3. pass.answered # {} => witnessed.pass = pass
          BY <1>4 DEF ProxyInv, PassInv
        <5> QED BY <4>1, <5>1, <5>2, <5>3 DEF LineOK
      <4>3. journal[j].at >= wall - Window
        <5>1. journal[j].at \in Nat /\ wall \in Nat /\ Window \in Nat /\ witnessed.pass.wall \in Nat
          BY WallType, Scales DEF ProxyInv, ProxyTypeOK, Pass
        <5> QED BY <1>4, <4>2, <5>1
      <4>4. j \in DOMAIN Entries /\ Entries[j] = journal[j] /\ journal[j].name \in Providers
        BY <4>3, EntriesRead DEF ProxyInv, ProxyTypeOK
      <4> QED BY <4>1, <4>4 DEF Witnessed, Observations
    <3> QED BY <3>1, <3>2
  <2>6. rs[i].ok => rs[i].rtt = w
    <3> SUFFICES ASSUME rs[i].ok PROVE rs[i].rtt = w
      OBVIOUS
    <3> DEFINE S == {j \in Witnessed : Entries[j].name = p}
    <3>1. p \in {Entries[j].name : j \in Witnessed}
      BY <2>2, <2>3
    <3>2. S \in SUBSET DOMAIN Entries /\ S # {}
      BY <2>4, <3>1
    <3>3. Latest(Entries, S) \in S
      <4> HIDE DEF S
      <4> QED BY <2>4, <3>2, LatestMember
    <3>4. Entries[Latest(Entries, S)].value = w
      BY <3>3 DEF Witnessed
    <3> QED BY <2>2, <2>3, <3>1, <3>4
  <2>7. rs[i].error # None => rs[i].error \in (witnessed.before + 1)..w
    <3> SUFFICES ASSUME rs[i].error # None PROVE rs[i].error \in (witnessed.before + 1)..w
      OBVIOUS
    <3> DEFINE S == ErrorsNear(Entries, last, p)
    <3>1. S # {} /\ rs[i].error = Entries[Latest(Entries, S)].value
      BY <2>3
    <3>2. S \in SUBSET DOMAIN Entries
      BY DEF ErrorsNear
    <3>3. Latest(Entries, S) \in S
      <4> HIDE DEF S
      <4> QED BY <2>4, <3>1, <3>2, LatestMember
    <3>4. last.end \in Nat /\ last.end <= witnessed.end
      <4> DEFINE T == {Entries[j].at : j \in Witnessed}
      <4>1. Witnessed # {}
        BY <1>4, <2>5 DEF ProxyInv, WitnessInv
      <4>2. T \in SUBSET Nat /\ T # {} /\ \A t \in T : t <= wall
        BY <2>4, <4>1
      <4>3. Max(T) \in T
        <5> HIDE DEF T
        <5> QED BY <2>4, <4>2, GreatestMember
      <4>4. PICK j \in Witnessed : last.end = Entries[j].at
        BY <2>2, <4>3
      <4>5. Entries[j].at \in Nat /\ Entries[j].at <= witnessed.end
        BY <1>4, Successes DEF Witnessed
      <4> QED BY <4>4, <4>5
    <3> HIDE DEF last, S
    <3>5. Entries[Latest(Entries, S)].value \in (witnessed.before + 1)..w
      BY <1>4, <2>1, <2>2, <3>3, <3>4, ReasonsNear DEF S
    <3> QED BY <3>1, <3>5
  <2> HIDE DEF rs, last, groups
  <2> QED BY <2>2, <2>3, <2>5, <2>6, <2>7
<1> HIDE DEF rs
<1> QED BY <1>1, <1>2, <1>3, <1>4 DEF IsVerdict

(***************************************************************************)
(* The steps of the proxy and of the clock.                                *)
(***************************************************************************)
LEMMA ProxyParts ==
  ASSUME ProxyInv
  PROVE  /\ ProxyTypeOK /\ PassInv /\ WitnessInv /\ wall \in Nat
         /\ pass \in Pass /\ witnessed.pass \in Pass
         /\ pass.number \in Nat /\ pass.started \in Nat /\ pass.wall \in Nat
         /\ witnessed.pass.number \in Nat /\ witnessed.pass.wall \in Nat
         /\ witnessed.end \in Nat /\ witnessed.before \in Nat
         /\ time \in Nat /\ due \in Nat /\ logged \in Nat
         /\ \A i \in DOMAIN journal : LineOK(journal[i])
         /\ Kept(pass) /\ Kept(witnessed.pass)
BY WallType DEF ProxyInv, ProxyTypeOK, Pass

LEMMA ProxyStarts == ProxyInit => ProxyInv
<1> SUFFICES ASSUME ProxyInit PROVE ProxyInv
  OBVIOUS
<1>1. ProxyTypeOK
  BY DEF ProxyInit, ProxyTypeOK, Pass
<1>2. wall \in Nat
  BY <1>1, WallType
<1>3. PassInv /\ WitnessInv
  BY <1>2, Scales DEF ProxyInit, PassInv, WitnessInv
<1>4. \A i \in DOMAIN journal : LineOK(journal[i])
  BY DEF ProxyInit
<1>5. Kept(pass) /\ Kept(witnessed.pass)
  BY DEF ProxyInit, Kept
<1> QED BY <1>1, <1>3, <1>4, <1>5 DEF ProxyInv

\* A success is no older than its pass.
LEMMA OkSince ==
  ASSUME ProxyInv, NEW i \in DOMAIN journal, journal[i].kind = "ok"
  PROVE  /\ journal[i].value = pass.number => pass.wall <= journal[i].at
         /\ journal[i].value = witnessed.pass.number => witnessed.pass.wall <= journal[i].at
<1> USE ProxyParts
<1> DEFINE line == journal[i]
<1>1. LineOK(line) /\ line.at \in Nat /\ line.value \in Nat /\ line.kind = "ok"
  BY DEF ProxyTypeOK
<1> HIDE DEF line
<1>2. line.value = pass.number => pass.wall <= line.at
  BY <1>1 DEF LineOK
<1>3. ASSUME line.value = witnessed.pass.number PROVE witnessed.pass.wall <= line.at
  <2>1. line.value > 0
    BY <1>1 DEF LineOK
  <2>2. witnessed.before < witnessed.pass.number
    BY <1>1, <1>3, <2>1 DEF WitnessInv
  <2>3. CASE line.value = pass.number /\ line.name \in pass.answered
    <3>1. pass.probing = {}
      BY <1>3, <2>3 DEF PassInv
    <3>2. witnessed.pass = pass
      BY <2>3, <3>1 DEF PassInv
    <3> QED BY <1>2, <2>3, <3>2
  <2> QED BY <1>1, <1>3, <2>2, <2>3 DEF LineOK
<1> QED BY <1>2, <1>3 DEF line

LEMMA SetClockStep ==
  ASSUME ProxyInv, SetClock
  PROVE  ProxyInv'
<1> USE ProxyParts
<1>1. UNCHANGED <<time, journal, logged, known, due, pass, witnessed>> /\ synced = FALSE /\ synced' = TRUE
  BY DEF SetClock, ProxyTypeOK
<1>2. wall' \in Nat /\ wall <= wall'
  BY <1>1, Scales DEF wall
<1>3. ProxyTypeOK'
  BY <1>1 DEF ProxyTypeOK
<1>4. PassInv'
  <2>1. pass.synced = FALSE
    BY <1>1 DEF PassInv, Pass
  <2>2. ~(pass.synced = synced)'
    BY <1>1, <2>1
  <2>3. pass.wall <= wall'
    BY <1>2 DEF PassInv
  <2> QED BY <1>1, <2>2, <2>3 DEF PassInv
<1>5. WitnessInv'
  BY <1>1, <1>2, Scales DEF WitnessInv
<1>6. \A i \in DOMAIN journal : LineOK(journal[i])'
  BY <1>1, <1>2 DEF LineOK, ProxyTypeOK
<1>7. Kept(pass)' /\ Kept(witnessed.pass)'
  <2>1. \A x \in Nat : x >= wall' - Window => x >= wall - Window
    <3>1. Window \in Nat /\ wall \in Nat
      BY Scales
    <3>2. \A a, b, c, x \in Nat : a <= b /\ x >= b - c => x >= a - c
      OBVIOUS
    <3> QED BY <1>2, <3>1, <3>2
  <2> QED BY <1>1, <2>1 DEF Kept
<1> QED BY <1>1, <1>3, <1>4, <1>5, <1>6, <1>7 DEF ProxyInv

LEMMA TickStep ==
  ASSUME ProxyInv, ProxyTick
  PROVE  ProxyInv'
<1> USE ProxyParts
<1> DEFINE kept == {i \in DOMAIN journal : journal[i].at >= wall + 1 - Window}
<1>1. UNCHANGED <<synced, logged, known, due, pass, witnessed>> /\ time' = time + 1
  BY DEF ProxyTick
<1>2. wall' = wall + 1
  BY <1>1, Scales DEF wall
<1>3. journal' = [i \in kept |-> journal[i]]
  BY DEF ProxyTick, RestrictDomain, Restrict
<1>4. DOMAIN journal' = kept /\ \A i \in kept : i \in DOMAIN journal /\ journal'[i] = journal[i]
  BY <1>3
<1>5. ProxyTypeOK'
  <2>1. journal' = [i \in DOMAIN journal' |-> journal'[i]]
    BY <1>3
  <2> HIDE DEF kept
  <2> QED BY <1>1, <1>4, <2>1 DEF ProxyTypeOK
<1>6. PassInv'
  <2>1. pass.probing # {} => time < pass.started + PassSpan
    BY DEF ProxyTick
  <2>2. pass.started <= time' /\ pass.wall <= wall' /\ (pass.synced => synced)
    BY <1>1, <1>2 DEF PassInv
  <2>3. ASSUME pass.probing # {}
        PROVE  /\ time' <= pass.started + PassSpan /\ witnessed.pass.number < pass.number
               /\ pass.synced = synced => wall' - pass.wall = time' - pass.started
    <3>1. time' <= pass.started + PassSpan
      BY <1>1, <2>1, <2>3, Scales
    <3>2. witnessed.pass.number < pass.number
      BY <2>3 DEF PassInv
    <3>3. pass.synced = synced => wall - pass.wall = time - pass.started
      BY <2>3 DEF PassInv
    <3>4. wall - pass.wall = time - pass.started => wall' - pass.wall = time' - pass.started
      BY <1>1, <1>2
    <3> QED BY <3>1, <3>2, <3>3, <3>4
  <2>4. /\ pass.probing = {} /\ pass.answered # {} => witnessed.pass = pass
        /\ witnessed.before <= witnessed.pass.number /\ witnessed.pass.number <= pass.number
    BY DEF PassInv
  <2> QED BY <1>1, <2>2, <2>3, <2>4 DEF PassInv
<1>7. WitnessInv'
  BY <1>1, <1>2, Scales DEF WitnessInv
<1>8. \A i \in DOMAIN journal' : LineOK(journal[i])'
  <2> HIDE DEF kept
  <2> QED BY <1>1, <1>2, <1>4 DEF LineOK, ProxyTypeOK
<1>9. ASSUME NEW of \in Pass, Kept(of),
             \A i \in DOMAIN journal : journal[i].kind = "ok" /\ journal[i].value = of.number => of.wall <= journal[i].at
      PROVE  of.wall >= wall' - Window =>
               \A p \in of.answered : \E i \in DOMAIN journal' :
                 journal'[i].kind = "ok" /\ journal'[i].name = p /\ journal'[i].value = of.number
  <2> SUFFICES ASSUME of.wall >= wall' - Window, NEW p \in of.answered
               PROVE  \E i \in DOMAIN journal' :
                        journal'[i].kind = "ok" /\ journal'[i].name = p /\ journal'[i].value = of.number
    OBVIOUS
  <2>1. of.wall \in Nat /\ of.wall >= wall - Window
    BY <1>2, Scales DEF Pass
  <2>2. PICK i \in DOMAIN journal : journal[i].kind = "ok" /\ journal[i].name = p /\ journal[i].value = of.number
    BY <1>9, <2>1 DEF Kept
  <2>3. journal[i].at \in Nat /\ of.wall <= journal[i].at
    BY <1>9, <2>2 DEF ProxyTypeOK
  <2>4. i \in kept
    BY <1>2, <2>1, <2>3, Scales
  <2> HIDE DEF kept
  <2> QED BY <1>4, <2>2, <2>4
<1>10. \A i \in DOMAIN journal :
         journal[i].kind = "ok" => /\ journal[i].value = pass.number => pass.wall <= journal[i].at
                                   /\ journal[i].value = witnessed.pass.number => witnessed.pass.wall <= journal[i].at
  BY OkSince
<1>11. Kept(pass)' /\ Kept(witnessed.pass)'
  BY <1>1, <1>9, <1>10 DEF Kept
<1> QED BY <1>4, <1>5, <1>6, <1>7, <1>8, <1>11 DEF ProxyInv

LEMMA StartPassStep ==
  ASSUME ProxyInv, StartPass
  PROVE  ProxyInv'
<1> USE ProxyParts
<1> DEFINE next == [number |-> pass.number + 1, started |-> time, wall |-> wall, synced |-> synced,
                    probing |-> Providers, answered |-> {}]
<1>1. /\ UNCHANGED <<time, synced, journal, logged, known, due, witnessed>>
      /\ pass' = next /\ pass.probing = {} /\ due <= time
  BY DEF StartPass
<1>2. wall' = wall
  BY <1>1 DEF wall
<1>3. /\ pass'.number = pass.number + 1 /\ pass'.started = time /\ pass'.wall = wall /\ pass'.synced = synced
      /\ pass'.probing = Providers /\ pass'.answered = {}
  BY <1>1
<1>4. ProxyTypeOK'
  <2>1. next \in Pass
    BY DEF ProxyTypeOK, Pass
  <2> QED BY <1>1, <2>1 DEF ProxyTypeOK
<1> HIDE DEF next
<1>5. PassInv'
  BY <1>1, <1>2, <1>3, Scales DEF PassInv
<1>6. WitnessInv'
  BY <1>1, <1>2, <1>3, Scales DEF WitnessInv, PassInv
<1>7. ASSUME NEW i \in DOMAIN journal PROVE LineOK(journal[i])'
  <2> DEFINE line == journal[i]
  <2>1. LineOK(line) /\ line.at \in Nat /\ line.value \in Nat
    BY DEF ProxyTypeOK
  <2> HIDE DEF line
  <2>2. line.value \in 1..pass.number /\ line.value # pass'.number
    BY <1>3, <2>1 DEF LineOK
  <2>3. pass.answered # {} => witnessed.pass = pass
    BY <1>1 DEF PassInv
  <2>4. line.kind = "ok" =>
          \/ /\ line.value = witnessed.pass.number /\ line.name \in witnessed.pass.answered
             /\ witnessed.pass.wall <= line.at
          \/ line.value <= witnessed.before
    BY <2>1, <2>3 DEF LineOK
  <2>5. LET l == line
        IN  /\ l.at <= wall /\ l.value \in 1..(pass.number + 1)
            /\ l.value <= witnessed.pass.number => l.at <= witnessed.end
            /\ witnessed.pass.number > 0 /\ l.value > witnessed.pass.number => witnessed.end + Delay <= l.at
            /\ l.value <= witnessed.before => l.at + Delay <= witnessed.pass.wall
    BY <2>1, <2>2 DEF LineOK
  <2>6. line' = line
    BY <1>1 DEF line
  <2>7. LineOK(line)'
    BY <1>1, <1>2, <1>3, <2>2, <2>4, <2>5, <2>6 DEF LineOK
  <2> QED BY <2>7 DEF line
<1>8. Kept(pass)' /\ Kept(witnessed.pass)'
  BY <1>1, <1>2, <1>3 DEF Kept
<1> QED BY <1>1, <1>4, <1>5, <1>6, <1>7, <1>8 DEF ProxyInv

(***************************************************************************)
(* A probe that ends adds a line of the pass under way.                    *)
(***************************************************************************)
LEMMA ProbeStep ==
  ASSUME ProxyInv, NEW p \in Providers, Probe(p)
  PROVE  ProxyInv'
<1>0. /\ ProxyTypeOK /\ PassInv /\ WitnessInv /\ wall \in Nat
      /\ pass \in Pass /\ witnessed.pass \in Pass
      /\ pass.number \in Nat /\ pass.started \in Nat /\ pass.wall \in Nat
      /\ witnessed.pass.number \in Nat /\ witnessed.pass.wall \in Nat
      /\ witnessed.end \in Nat /\ witnessed.before \in Nat
      /\ time \in Nat /\ due \in Nat /\ logged \in Nat
      /\ \A i \in DOMAIN journal : LineOK(journal[i])
      /\ Kept(pass) /\ Kept(witnessed.pass)
  BY ProxyParts
<1>1. PICK what :
        /\ Log(p, what)
        /\ pass' = IF what = "ok"
                   THEN [pass EXCEPT !.probing = @ \ {p}, !.answered = @ \union {p}]
                   ELSE [pass EXCEPT !.probing = @ \ {p}]
  BY <1>0 DEF Probe
<1>2. /\ p \in pass.probing /\ UNCHANGED <<time, synced>>
      /\ IF pass'.probing # {} THEN UNCHANGED <<due, witnessed>>
         ELSE /\ due' = time + (IF pass'.answered = {} THEN Retry ELSE Delay)
              /\ witnessed' = IF pass'.answered = {} THEN witnessed
                              ELSE [pass |-> pass', end |-> wall, torn |-> pass.synced # synced,
                                    before |-> witnessed.pass.number]
  BY <1>0 DEF Probe
<1>3. /\ pass'.number = pass.number /\ pass'.started = pass.started /\ pass'.wall = pass.wall
      /\ pass'.synced = pass.synced /\ pass'.probing = pass.probing \ {p}
      /\ pass'.answered = (IF what = "ok" THEN pass.answered \union {p} ELSE pass.answered)
      /\ pass' \in Pass
  <2>1. pass'.number = pass.number /\ pass'.started = pass.started /\ pass'.wall = pass.wall
    BY <1>0, <1>1 DEF Pass
  <2>2. pass'.synced = pass.synced /\ pass'.probing = pass.probing \ {p}
    BY <1>0, <1>1 DEF Pass
  <2>3. pass'.answered = (IF what = "ok" THEN pass.answered \union {p} ELSE pass.answered)
    BY <1>0, <1>1 DEF Pass
  <2>4. pass' \in Pass
    BY <1>0, <1>1 DEF Pass
  <2> QED BY <1>0, <2>1, <2>2, <2>3, <2>4
<1>4. wall' = wall
  BY <1>0, <1>2 DEF wall
<1> DEFINE line == [at |-> wall, severity |-> IF p \in known THEN "INFO" ELSE "NOTICE",
                    kind |-> what, name |-> p, value |-> pass.number]
           l == logged + 1
<1>5. /\ logged' = l /\ DOMAIN journal' = DOMAIN journal \union {l}
      /\ journal' = [i \in DOMAIN journal' |-> journal'[i]]
      /\ journal'[l] = line /\ \A i \in DOMAIN journal : i # l /\ journal'[i] = journal[i]
  <2>1. l \notin DOMAIN journal
    <3>1. DOMAIN journal \subseteq 1..logged
      BY <1>0 DEF ProxyTypeOK
    <3>2. \A a \in Nat : a + 1 \notin 1..a
      OBVIOUS
    <3> QED BY <1>0, <3>1, <3>2
  <2>2. /\ logged' = l
        /\ journal' = [i \in DOMAIN journal \union {l} |-> IF i = l THEN line ELSE journal[i]]
    BY <1>0, <1>1 DEF Log
  <2> HIDE DEF line, l
  <2> QED BY <1>0, <2>1, <2>2
<1>6. line.at = wall /\ line.kind = what /\ line.name = p /\ line.value = pass.number
  BY <1>0
<1> HIDE DEF line
<1>7. witnessed.pass.number < pass.number /\ pass.wall <= wall
  BY <1>0, <1>2 DEF PassInv
<1> DEFINE over == pass'.probing = {} /\ pass'.answered # {}
<1>8. IF over THEN witnessed' = [pass |-> pass', end |-> wall, torn |-> pass.synced # synced,
                                 before |-> witnessed.pass.number]
      ELSE witnessed' = witnessed
  BY <1>0, <1>2
<1>9. over => /\ witnessed'.pass = pass' /\ witnessed'.end = wall
              /\ witnessed'.torn = (pass.synced # synced) /\ witnessed'.before = witnessed.pass.number
  <2> HIDE DEF over
  <2> QED BY <1>0, <1>8
<1>10. ProxyTypeOK'
  <2>1. due' \in Nat
    <3>1. Retry \in Nat /\ Delay \in Nat
      BY <1>0, Scales
    <3>2. due' = due \/ due' = time + Retry \/ due' = time + Delay
      BY <1>0, <1>2
    <3> QED BY <1>0, <3>1, <3>2
  <2>2. witnessed' \in [pass : Pass, end : Nat, torn : BOOLEAN, before : Nat]
    <3>1. witnessed \in [pass : Pass, end : Nat, torn : BOOLEAN, before : Nat]
      BY <1>0 DEF ProxyTypeOK
    <3> HIDE DEF over
    <3>2. (pass.synced # synced) \in BOOLEAN
      OBVIOUS
    <3>3. CASE over
      <4>1. \A b \in BOOLEAN : [pass |-> pass', end |-> wall, torn |-> b, before |-> witnessed.pass.number]
                               \in [pass : Pass, end : Nat, torn : BOOLEAN, before : Nat]
        BY <1>0, <1>3
      <4>2. witnessed' = [pass |-> pass', end |-> wall, torn |-> pass.synced # synced,
                          before |-> witnessed.pass.number]
        BY <1>8, <3>3
      <4> QED BY <3>2, <4>1, <4>2, Zenon
    <3> QED BY <1>8, <3>1, <3>3
  <2>3. logged' \in Nat /\ DOMAIN journal' \subseteq 1..logged'
    BY <1>0, <1>5 DEF ProxyTypeOK
  <2>4. \A i \in DOMAIN journal' : journal'[i].at \in Nat /\ journal'[i].value \in Nat /\ journal'[i].name \in Providers
    <3> HIDE DEF l
    <3> QED BY <1>0, <1>5, <1>6 DEF ProxyTypeOK
  <2> QED BY <1>0, <1>2, <1>3, <1>5, <2>1, <2>2, <2>3, <2>4 DEF ProxyTypeOK
<1> HIDE DEF l, over
<1>11. PassInv'
  <2>1. /\ pass.started <= time /\ (pass.synced => synced) /\ time <= pass.started + PassSpan
        /\ pass.synced = synced => wall - pass.wall = time - pass.started
        /\ witnessed.before <= witnessed.pass.number
    BY <1>0, <1>2 DEF PassInv
  <2>2. CASE over
    BY <1>0, <1>2, <1>3, <1>4, <1>7, <1>9, <2>1, <2>2 DEF PassInv, over
  <2>3. CASE ~over
    BY <1>0, <1>2, <1>3, <1>4, <1>7, <1>8, <2>1, <2>3 DEF PassInv, over
  <2> QED BY <1>0, <2>2, <2>3
<1>12. WitnessInv'
  <2>1. CASE over
    <3>1. ~witnessed'.torn => wall <= pass.wall + PassSpan
      <4>1. /\ time <= pass.started + PassSpan
            /\ pass.synced = synced => wall - pass.wall = time - pass.started
        BY <1>0, <1>2 DEF PassInv
      <4>2. ~witnessed'.torn => pass.synced = synced
        BY <1>0, <1>9, <2>1
      <4>3. wall - pass.wall = time - pass.started => wall <= pass.wall + PassSpan
        BY <1>0, <4>1, Scales
      <4> QED BY <1>0, <4>1, <4>2, <4>3
    <3>2. due' = time + Delay
      BY <1>0, <1>2, <2>1 DEF over
    <3>3. wall + Delay + time <= wall + due'
      BY <1>0, <3>2, Scales
    <3> QED BY <1>0, <1>2, <1>3, <1>4, <1>7, <1>9, <2>1, <3>1, <3>3 DEF WitnessInv, over
  <2>2. CASE ~over
    <3> SUFFICES ASSUME witnessed.pass.number > 0
                 PROVE  /\ witnessed.pass.answered # {} /\ witnessed.before < witnessed.pass.number
                        /\ witnessed.pass.wall <= witnessed.end /\ witnessed.end <= wall
                        /\ ~witnessed.torn => witnessed.end <= witnessed.pass.wall + PassSpan
                        /\ witnessed.end + Delay <= pass.wall
                        /\ pass'.probing = {} => witnessed.end + Delay + time <= wall + due'
      BY <1>0, <1>2, <1>3, <1>4, <1>8, <2>2 DEF WitnessInv
    <3>1. witnessed.end + Delay <= pass.wall
      BY <1>0, <1>7 DEF WitnessInv
    <3>2. ASSUME pass'.probing = {} PROVE witnessed.end + Delay + time <= wall + due'
      <4>1. due' = time + Retry
        BY <1>0, <1>2, <2>2, <3>2 DEF over
      <4> QED BY <1>0, <1>7, <3>1, <4>1, Scales
    <3> QED BY <1>0, <3>1, <3>2 DEF WitnessInv
  <2> QED BY <1>0, <2>1, <2>2
<1>13. ASSUME NEW i \in DOMAIN journal' PROVE LineOK(journal[i])'
  <2>. PICK x : x = journal'[i]
    BY <1>0
  <2>0. /\ x.at \in Nat /\ x.value \in Nat
    BY <1>0, <1>10 DEF ProxyTypeOK
  <2>1. CASE i = l
    <3>1. x = line
      BY <1>0, <1>5, <2>1
    <3>2. /\ x.at = wall /\ x.kind = what /\ x.name = p /\ x.value = pass.number
      BY <1>0, <1>6, <3>1
    <3>3. pass.number \in 1..pass.number
      BY <1>0, <1>7
    <3>4. witnessed.before <= witnessed.pass.number
      BY <1>0 DEF PassInv
    <3>5. CASE over
      <4>1. LineOK(x)'
        BY <1>0, <1>3, <1>4, <1>7, <1>9, <2>0, <3>2, <3>3, <3>5 DEF LineOK
      <4> QED BY <1>0, <4>1
    <3>6. CASE ~over
      <4>1. witnessed.pass.number > 0 => witnessed.end + Delay <= wall
        BY <1>0, <1>7, Scales DEF WitnessInv
      <4>2. x.kind = "ok" => x.name \in pass'.answered
        BY <1>0, <1>3, <3>2
      <4>3. LineOK(x)'
        BY <1>0, <1>3, <1>4, <1>7, <1>8, <2>0, <3>2, <3>3, <3>4, <3>6, <4>1, <4>2 DEF LineOK
      <4> QED BY <1>0, <4>3
    <3> QED BY <1>0, <3>5, <3>6
  <2>2. CASE i \in DOMAIN journal
    <3>1. x = journal[i] /\ LineOK(x)
      BY <1>0, <1>5, <2>2
    <3>2. x.at <= wall /\ x.value \in 1..pass.number /\ (x.value = pass.number => pass.wall <= x.at)
      BY <1>0, <3>1 DEF LineOK
    <3>3. pass.answered \subseteq pass'.answered
      BY <1>0, <1>3
    <3>4. CASE over
      <4>1. x.value <= witnessed.pass.number => x.at + Delay <= pass.wall
        <5> SUFFICES ASSUME x.value <= witnessed.pass.number PROVE x.at + Delay <= pass.wall
          BY <1>0
        <5>1. x.at <= witnessed.end
          BY <1>0, <3>1 DEF LineOK
        <5>2. witnessed.pass.number > 0
          BY <1>0, <2>0, <3>2
        <5>3. witnessed.end + Delay <= pass.wall
          BY <1>0, <1>7, <5>2 DEF WitnessInv
        <5> QED BY <1>0, <2>0, <5>1, <5>3, Scales
      <4>2. x.kind = "ok" =>
              \/ x.value = pass.number /\ x.name \in pass'.answered /\ pass.wall <= x.at
              \/ x.value <= witnessed.pass.number
        <5>1. witnessed.before <= witnessed.pass.number
          BY <1>0 DEF PassInv
        <5> QED BY <1>0, <2>0, <3>1, <3>2, <3>3, <5>1 DEF LineOK
      <4>3. LineOK(x)'
        BY <1>0, <1>3, <1>4, <1>9, <2>0, <3>2, <3>4, <4>1, <4>2 DEF LineOK
      <4> QED BY <1>0, <4>3
    <3>5. CASE ~over
      <4>1. LineOK(x)'
        BY <1>0, <1>3, <1>4, <1>8, <3>1, <3>3, <3>5 DEF LineOK
      <4> QED BY <1>0, <4>1
    <3> QED BY <1>0, <3>4, <3>5
  <2> QED BY <1>0, <1>5, <2>1, <2>2
<1>14. Kept(pass)'
  <2> SUFFICES ASSUME pass.wall >= wall - Window, NEW q \in pass'.answered
               PROVE  \E i \in DOMAIN journal' :
                        journal'[i].kind = "ok" /\ journal'[i].name = q /\ journal'[i].value = pass.number
    BY <1>0, <1>3, <1>4 DEF Kept
  <2>1. CASE q \in pass.answered
    <3>1. PICK i \in DOMAIN journal : journal[i].kind = "ok" /\ journal[i].name = q /\ journal[i].value = pass.number
      BY <1>0, <2>1 DEF Kept
    <3> QED BY <1>0, <1>5, <3>1
  <2>2. CASE what = "ok" /\ q = p
    BY <1>0, <1>5, <1>6, <2>2
  <2> QED BY <1>0, <1>3, <2>1, <2>2
<1>15. Kept(witnessed.pass)'
  <2>1. CASE over
    BY <1>0, <1>9, <1>14, <2>1 DEF Kept
  <2>2. CASE ~over
    <3>1. witnessed' = witnessed
      BY <1>0, <1>8, <2>2
    <3> QED BY <1>0, <1>4, <1>5, <3>1 DEF Kept
  <2> QED BY <1>0, <2>1, <2>2
<1> QED BY <1>0, <1>10, <1>11, <1>12, <1>13, <1>14, <1>15 DEF ProxyInv

LEMMA ProxyStepInv ==
  ASSUME ProxyInv, ProxyNext
  PROVE  ProxyInv'
BY StartPassStep, ProbeStep, SetClockStep, TickStep DEF ProxyNext, ProxyWithinTick

LEMMA ProxyUnchanged ==
  ASSUME ProxyInv, UNCHANGED proxy_vars
  PROVE  ProxyInv'
<1>1. UNCHANGED <<time, synced, journal, logged, known, due, pass, witnessed>>
  BY DEF proxy_vars
<1>2. wall' = wall
  BY <1>1 DEF wall
<1> QED BY <1>1, <1>2 DEF ProxyInv, ProxyTypeOK, PassInv, WitnessInv, LineOK, Kept

\* The DoH records are collected last, and the proxy goes on until then.
VerdictInv ==
  /\ ProxyInv
  /\ pos \in 0..13
  /\ step = "args" => pos = 0
  /\ records = [g \in GroupNames |-> records[g]]
  /\ pos < 13 => records["dns_provider"] = <<>>
  /\ VerdictIsOfTheLastPass

LEMMA NoRecordNoVerdict ==
  ASSUME records["dns_provider"] = <<>>
  PROVE  VerdictIsOfTheLastPass
BY DEF VerdictIsOfTheLastPass, IsVerdict

(***************************************************************************)
(* Whenever a run of system-metrics reads the journal, and whatever the    *)
(* clock, the proxy and the window have done before, the DoH records it    *)
(* sends say what came of the last pass that a server answered.            *)
(***************************************************************************)
THEOREM VerdictsAreOfTheLastPass == MetricsSpec => []VerdictIsOfTheLastPass
<1>1. MetricsInit => VerdictInv
  <2> SUFFICES ASSUME MetricsInit PROVE VerdictInv
    OBVIOUS
  <2>1. ProxyInv
    BY ProxyStarts DEF MetricsInit
  <2>2. pos = 0 /\ records = [g \in GroupNames |-> <<>>]
    BY DEF MetricsInit, CollectorInit
  <2>3. records["dns_provider"] = <<>> /\ records = [g \in GroupNames |-> records[g]]
    BY <2>2 DEF GroupNames
  <2> QED BY <2>1, <2>2, <2>3, NoRecordNoVerdict DEF VerdictInv
<1>2. VerdictInv /\ [MetricsNext]_metrics_vars => VerdictInv'
  <2> SUFFICES ASSUME VerdictInv, [MetricsNext]_metrics_vars PROVE VerdictInv'
    OBVIOUS
  <2>1. CASE ProxyStep
    <3>1. UNCHANGED <<pos, records, step>> /\ ProxyNext
      BY <2>1 DEF ProxyStep, ProxyNext, collector_vars
    <3>2. ProxyInv'
      BY <3>1, ProxyStepInv DEF VerdictInv
    <3>3. pos < 13
      <4>1. CASE step = "args"
        BY <4>1 DEF VerdictInv
      <4>2. CASE step = "collect" /\ Left # {}
        BY <4>2 DEF VerdictInv, Left, Groups
      <4> QED BY <2>1, <4>1, <4>2 DEF ProxyStep
    <3>4. (records["dns_provider"] = <<>>)'
      BY <3>1, <3>3 DEF VerdictInv
    <3>5. VerdictIsOfTheLastPass'
      BY <3>4 DEF VerdictIsOfTheLastPass, IsVerdict
    <3> QED BY <3>1, <3>2, <3>4, <3>5 DEF VerdictInv
  <2>2. CASE CollectGroup
    <3>1. PICK i \in Left : pos' = i /\ records' = [records EXCEPT ![Groups[i]] = RecordsOf(Groups[i])]
      BY <2>2 DEF CollectGroup
    <3>2. UNCHANGED proxy_vars /\ UNCHANGED step /\ step = "collect"
      BY <2>2 DEF CollectGroup
    <3>3. ProxyInv'
      BY <3>2, ProxyUnchanged DEF VerdictInv
    <3>4. i \in 1..13 /\ pos < i
      BY DEF VerdictInv, Left, Groups
    <3>5. \A j \in 1..13 : Groups[j] = "dns_provider" <=> j = 13
      BY DEF Groups
    <3>6. records' = [g \in GroupNames |-> records'[g]] /\ "dns_provider" \in GroupNames
      BY <3>1 DEF VerdictInv, GroupNames
    <3>7. CASE i = 13
      <4>1. Groups[i] = "dns_provider"
        BY <3>7, <3>5
      <4>2. records'["dns_provider"] = dns_provider_records(now)
        BY <3>1, <3>6, <4>1 DEF VerdictInv, RecordsOf
      <4>3. IsVerdict(dns_provider_records(now))
        BY Verdict DEF VerdictInv
      <4>4. IsVerdict(records["dns_provider"])'
        BY <3>2, <4>2, <4>3 DEF IsVerdict, proxy_vars, wall
      <4> QED BY <3>1, <3>2, <3>3, <3>4, <3>6, <3>7, <4>4 DEF VerdictInv, VerdictIsOfTheLastPass
    <3>8. CASE i # 13
      <4>1. (records["dns_provider"] = <<>>)'
        BY <3>1, <3>4, <3>5, <3>6, <3>8 DEF VerdictInv
      <4>2. VerdictIsOfTheLastPass'
        BY <4>1 DEF VerdictIsOfTheLastPass, IsVerdict
      <4> QED BY <3>1, <3>2, <3>3, <3>4, <3>6, <3>8, <4>1, <4>2 DEF VerdictInv
    <3> QED BY <3>7, <3>8
  <2>3. CASE StartRun \/ Post \/ Receiving \/ UNCHANGED metrics_vars
    <3>1. UNCHANGED <<pos, records, proxy_vars>> /\ (step' = "args" => step = "args")
      BY <2>3 DEF StartRun, Post, Receiving, metrics_vars, collector_vars, ParseArgs, Publish, Connect,
                  WriteRequest, ReadTimeout, ReadResponse, Receiver, Receive, Answer, Close, Exit
    <3>2. ProxyInv'
      BY <3>1, ProxyUnchanged DEF VerdictInv
    <3>3. VerdictIsOfTheLastPass'
      BY <3>1 DEF VerdictInv, VerdictIsOfTheLastPass, IsVerdict, proxy_vars, wall
    <3> QED BY <3>1, <3>2, <3>3 DEF VerdictInv
  <2> QED BY <2>1, <2>2, <2>3 DEF MetricsNext
<1>3. VerdictInv => VerdictIsOfTheLastPass
  BY DEF VerdictInv
<1> QED BY <1>1, <1>2, <1>3, PTL DEF MetricsSpec
-----------------------------------------------------------------------------
(***************************************************************************)
(* What the record functions of system-metrics make of a reading.          *)
(***************************************************************************)
LEMMA GreaterOf ==
  ASSUME NEW x \in Int
  PROVE  x >= 0 => Max({x, 0}) = x
<1> SUFFICES ASSUME x >= 0 PROVE Max({x, 0}) = x
  OBVIOUS
<1>1. \A m \in {x, 0} : (\A n \in {x, 0} : m >= n) => m = x
  OBVIOUS
<1>2. x \in {x, 0} /\ \A n \in {x, 0} : x >= n
  OBVIOUS
<1>3. \E m \in {x, 0} : \A n \in {x, 0} : m >= n
  BY <1>2
<1> QED BY <1>1, <1>3 DEF Max

LEMMA PartInPercent ==
  ASSUME NEW part \in Nat, NEW total \in Nat, total > 0, part <= total
  PROVE  (part * 100) \div total \in 0..100
<1> DEFINE q == (part * 100) \div total
<1>1. q \in Int /\ total * q <= part * 100 /\ part * 100 < total * (q + 1)
  OBVIOUS
<1> HIDE DEF q
<1>2. q >= 0
  <2> SUFFICES ASSUME q + 1 <= 0 PROVE FALSE
    BY <1>1
  <2>1. total * (q + 1) <= 0
    BY <1>1
  <2> QED BY <1>1, <2>1
<1>3. q <= 100
  <2> SUFFICES ASSUME q >= 101 PROVE FALSE
    BY <1>1
  <2>1. total * q >= total * 101
    BY <1>1
  <2> QED BY <1>1, <2>1
<1> QED BY <1>1, <1>2, <1>3 DEF q

LEMMA CpuIsTrue ==
  ASSUME NEW h, CpuReading(h)
  PROVE  CpuTrue(h, cpu_record(h))
<1> DEFINE a == h.first
           b == h.second
           r == cpu_record(h)
           Passed(f) == b[f] - a[f]
           total == Passed("busy") + Passed("idle") + Passed("iowait")
<1>1. r.utilization = IF parse_cpu_times(a) = None \/ parse_cpu_times(b) = None THEN None
                      ELSE utilization_percent(parse_cpu_times(a), parse_cpu_times(b))
  BY DEF cpu_record
<1>2. ASSUME parse_cpu_times(a) # None, parse_cpu_times(b) # None
      PROVE  /\ \A f \in {"busy", "idle", "iowait"} : a[f] \in Nat /\ b[f] \in Nat
             /\ parse_cpu_times(a) = [total |-> a.busy + a.idle + a.iowait, idle |-> a.idle + a.iowait]
             /\ parse_cpu_times(b) = [total |-> b.busy + b.idle + b.iowait, idle |-> b.idle + b.iowait]
  <2>1. a # None /\ a.idle # None /\ b # None /\ b.idle # None
    BY <1>2 DEF parse_cpu_times
  <2>2. a.busy \in Nat /\ a.idle \in Nat /\ a.iowait \in Nat /\ b.busy \in Nat /\ b.idle \in Nat /\ b.iowait \in Nat
    BY <2>1 DEF CpuReading
  <2> QED BY <2>1, <2>2 DEF parse_cpu_times
<1>3. ASSUME parse_cpu_times(a) # None, parse_cpu_times(b) # None
      PROVE  /\ Passed("busy") \in Int /\ Passed("idle") \in Int /\ Passed("iowait") \in Int
             /\ r.utilization = LET idle == Passed("idle") + Passed("iowait")
                                IN  IF total < 0 \/ idle < 0 \/ total = 0 THEN None
                                    ELSE (Max({total - idle, 0}) * 100) \div total
  <2>1. \A f \in {"busy", "idle", "iowait"} : a[f] \in Nat /\ b[f] \in Nat
    BY <1>2, <1>3
  <2>2. (b.busy + b.idle + b.iowait) - (a.busy + a.idle + a.iowait) = total
    BY <2>1
  <2>3. (b.idle + b.iowait) - (a.idle + a.iowait) = Passed("idle") + Passed("iowait")
    BY <2>1
  <2>4. Passed("busy") \in Int /\ Passed("idle") \in Int /\ Passed("iowait") \in Int
    BY <2>1
  <2> DEFINE A == parse_cpu_times(a)
             B == parse_cpu_times(b)
             idle == Passed("idle") + Passed("iowait")
  <2>5. B.total - A.total = total /\ B.idle - A.idle = idle
    BY <1>2, <1>3, <2>2, <2>3
  <2>6. r.utilization = utilization_percent(A, B)
    BY <1>1, <1>3
  <2> HIDE DEF A, B, idle, total, r
  <2>7. r.utilization = IF total < 0 \/ idle < 0 \/ total = 0 THEN None
                        ELSE (Max({total - idle, 0}) * 100) \div total
    BY <2>5, <2>6 DEF utilization_percent
  <2> QED BY <2>4, <2>7 DEF idle
<1> HIDE DEF a, b, r, Passed
<1>4. r.utilization # None => r.utilization \in 0..100
  <2> SUFFICES ASSUME r.utilization # None PROVE r.utilization \in 0..100
    OBVIOUS
  <2>1. parse_cpu_times(a) # None /\ parse_cpu_times(b) # None
    BY <1>1
  <2> DEFINE idle == Passed("idle") + Passed("iowait")
             part == Max({total - idle, 0})
  <2>2. total \in Nat /\ total > 0 /\ idle \in Nat /\ r.utilization = (part * 100) \div total
    BY <1>3, <2>1
  <2>3. part \in Nat /\ part <= total
    <3>1. total - idle \in Int /\ Max({total - idle, 0}) \in {total - idle, 0}
      <4> HIDE DEF total, idle
      <4>1. total - idle \in Int
        BY <2>2
      <4>2. \E m \in {total - idle, 0} : \A n \in {total - idle, 0} : m >= n
        BY <4>1
      <4>3. Max({total - idle, 0}) \in {total - idle, 0}
        BY <4>2 DEF Max
      <4> QED BY <4>1, <4>3
    <3> HIDE DEF total, idle
    <3>2. total - idle >= 0 => Max({total - idle, 0}) = total - idle
      BY <3>1, GreaterOf
    <3>3. total - idle < 0 => part = 0
      <4>1. total - idle < 0 => \A m \in {total - idle, 0} : (\A n \in {total - idle, 0} : m >= n) => m = 0
        BY <3>1
      <4>2. \E m \in {total - idle, 0} : \A n \in {total - idle, 0} : m >= n
        BY <3>1
      <4> QED BY <4>1, <4>2 DEF Max
    <3> QED BY <2>2, <3>1, <3>2, <3>3
  <2> HIDE DEF total, idle, part
  <2> QED BY <2>2, <2>3, PartInPercent
<1>5. ASSUME parse_cpu_times(a) # None, parse_cpu_times(b) # None,
             \A f \in {"busy", "idle", "iowait"} : Passed(f) >= 0
      PROVE  r.utilization = IF total = 0 THEN None ELSE (100 * Passed("busy")) \div total
  <2>1. Passed("busy") \in Nat /\ Passed("idle") \in Nat /\ Passed("iowait") \in Nat
    BY <1>3, <1>5
  <2>2. total - (Passed("idle") + Passed("iowait")) = Passed("busy")
    BY <2>1
  <2>3. Max({Passed("busy"), 0}) = Passed("busy")
    BY <2>1, GreaterOf
  <2>4. Passed("busy") * 100 = 100 * Passed("busy")
    BY <2>1
  <2> DEFINE idle == Passed("idle") + Passed("iowait")
  <2>5. r.utilization = IF total < 0 \/ idle < 0 \/ total = 0 THEN None
                        ELSE (Max({total - idle, 0}) * 100) \div total
    BY <1>3, <1>5
  <2>6. ~(total < 0) /\ ~(idle < 0)
    BY <2>1
  <2>7. total - idle = Passed("busy")
    BY <2>2
  <2> HIDE DEF total, idle
  <2> QED BY <2>3, <2>4, <2>5, <2>6, <2>7
<1> QED BY <1>4, <1>5 DEF CpuTrue, a, b, r, Passed

(***************************************************************************)
(* Where no excluded filesystem covers another, the mount that parse_mounts*)
(* keeps for a path is the one the path shows.                             *)
(***************************************************************************)
Listed(h) == {i \in DOMAIN h.mounts : h.mounts[i].fstype \notin h.excluded}
LastOf(h) == {i \in Listed(h) : \A j \in Listed(h) : h.mounts[j].at = h.mounts[i].at => j <= i}
NoneCovered(h) ==
  \A i \in DOMAIN h.mounts :
    h.mounts[i].fstype \notin h.excluded => Visible(h.mounts, h.mounts[i].at).fstype \notin h.excluded

LEMMA VisiblePlace ==
  ASSUME NEW h, FilesystemReading(h), NEW i \in DOMAIN h.mounts
  PROVE  \E v \in DOMAIN h.mounts :
           /\ Visible(h.mounts, h.mounts[i].at) = h.mounts[v] /\ h.mounts[v].at = h.mounts[i].at
           /\ \A j \in DOMAIN h.mounts : h.mounts[j].at = h.mounts[i].at => j <= v
<1> DEFINE S == {j \in DOMAIN h.mounts : h.mounts[j].at = h.mounts[i].at}
<1>1. DOMAIN h.mounts = 1..Len(h.mounts) /\ Len(h.mounts) \in Nat
  BY DEF FilesystemReading
<1>2. S \in SUBSET Nat /\ S # {} /\ \A t \in S : t <= Len(h.mounts)
  BY <1>1
<1>3. Max(S) \in S /\ \A n \in S : n <= Max(S)
  <2> HIDE DEF S
  <2> QED BY <1>1, <1>2, GreatestMember
<1>4. Visible(h.mounts, h.mounts[i].at) = h.mounts[Max(S)]
  BY DEF Visible
<1> HIDE DEF Visible
<1>5. \A j \in DOMAIN h.mounts : h.mounts[j].at = h.mounts[i].at => j <= Max(S)
  BY <1>3
<1> QED BY <1>3, <1>4, <1>5

LEMMA LastIsVisible ==
  ASSUME NEW h, FilesystemReading(h), NoneCovered(h), NEW i \in LastOf(h)
  PROVE  Visible(h.mounts, h.mounts[i].at) = h.mounts[i]
<1>1. i \in DOMAIN h.mounts /\ h.mounts[i].fstype \notin h.excluded
  BY DEF LastOf, Listed
<1>2. PICK v \in DOMAIN h.mounts :
        /\ Visible(h.mounts, h.mounts[i].at) = h.mounts[v] /\ h.mounts[v].at = h.mounts[i].at
        /\ \A j \in DOMAIN h.mounts : h.mounts[j].at = h.mounts[i].at => j <= v
  BY <1>1, VisiblePlace
<1>3. v \in Listed(h)
  BY <1>1, <1>2 DEF NoneCovered, Listed
<1>4. v <= i /\ i <= v
  BY <1>1, <1>2, <1>3 DEF LastOf
<1>5. DOMAIN h.mounts = 1..Len(h.mounts) /\ Len(h.mounts) \in Nat
  BY DEF FilesystemReading
<1>6. v = i
  BY <1>1, <1>4, <1>5
<1> QED BY <1>2, <1>6

LEMMA VisibleIsLast ==
  ASSUME NEW h, FilesystemReading(h), NEW m \in ToSet(h.mounts), m.fstype \notin h.excluded,
         m = Visible(h.mounts, m.at)
  PROVE  \E i \in LastOf(h) : h.mounts[i] = m
<1>1. PICK k \in DOMAIN h.mounts : h.mounts[k] = m
  BY DEF ToSet, FilesystemReading
<1>2. PICK v \in DOMAIN h.mounts :
        /\ Visible(h.mounts, m.at) = h.mounts[v]
        /\ \A j \in DOMAIN h.mounts : h.mounts[j].at = m.at => j <= v
  BY <1>1, VisiblePlace
<1>3. h.mounts[v] = m
  BY <1>2
<1> QED BY <1>2, <1>3 DEF LastOf, Listed

LEMMA FilesystemsAreTrue ==
  ASSUME NEW h, FilesystemReading(h)
  PROVE  FilesystemsTrue(h, filesystem_records(h))
<1> DEFINE ms == h.mounts
           rs == filesystem_records(h)
           Use(i) == h.stat[ms[i].device]
           answers == {i \in LastOf(h) : Use(i) # None}
           first == {i \in answers : Use(i).fsid = 0 \/ \A j \in answers : Use(j).fsid = Use(i).fsid => i <= j}
           Mine == {m \in ToSet(ms) : m = Visible(ms, m.at) /\ m.fstype \notin h.excluded /\ h.stat[m.device] # None}
<1>0. DOMAIN ms = 1..Len(ms) /\ Len(ms) \in Nat /\ \A i \in DOMAIN ms : ms[i] \in ToSet(ms)
  BY DEF FilesystemReading, ToSet
<1> SUFFICES ASSUME ~ \E m \in ToSet(ms) : m.fstype \notin h.excluded /\ Visible(ms, m.at).fstype \in h.excluded
             PROVE  /\ \A i \in DOMAIN rs :
                         /\ rs[i].mount \in Mine
                         /\ rs[i].total = h.stat[rs[i].mount.device].blocks * h.stat[rs[i].mount.device].frsize
                    /\ \A m \in Mine :
                         LET fsid == h.stat[m.device].fsid
                             Same(r) == IF fsid = 0 THEN r.mount = m ELSE r.fsid = fsid
                         IN  Cardinality({i \in DOMAIN rs : Same(rs[i])}) = 1
  BY DEF FilesystemsTrue
<1>1. NoneCovered(h)
  BY <1>0 DEF NoneCovered
<1>2. \A i \in LastOf(h) : i \in DOMAIN ms /\ Visible(ms, ms[i].at) = ms[i] /\ ms[i].fstype \notin h.excluded
  BY <1>1, LastIsVisible DEF LastOf, Listed
<1>3. parse_mounts(ms, h.excluded) = [i \in LastOf(h) |-> ms[i]]
  BY DEF parse_mounts, LastOf, Listed
<1>4. \A i \in LastOf(h) : usage(h, ms[i].at) = Use(i)
  BY <1>2 DEF usage
<1>5. /\ DOMAIN rs = first
      /\ \A i \in first : rs[i].mount = ms[i] /\ rs[i].fsid = Use(i).fsid /\ rs[i].total = Use(i).blocks * Use(i).frsize
  <2> DEFINE kept == parse_mounts(ms, h.excluded)
             Usage(i) == usage(h, kept[i].at)
             some == {i \in DOMAIN kept : Usage(i) # None}
             one == {i \in some : Usage(i).fsid = 0 \/ \A j \in some : Usage(j).fsid = Usage(i).fsid => i <= j}
  <2>1. DOMAIN kept = LastOf(h) /\ \A i \in LastOf(h) : kept[i] = ms[i] /\ Usage(i) = Use(i)
    BY <1>3, <1>4
  <2>2. rs = [i \in one |-> [mount |-> kept[i], fsid |-> Usage(i).fsid, total |-> Usage(i).blocks * Usage(i).frsize,
                             lifetime |-> lifetime_written_bytes(h, kept[i])]]
    BY DEF filesystem_records
  <2> HIDE DEF kept, Usage, Use, rs
  <2>3. some = answers
    BY <2>1
  <2>4. one = first
    BY <2>1, <2>3
  <2> HIDE DEF one, first
  <2>5. \A i \in first : kept[i] = ms[i] /\ Usage(i) = Use(i)
    BY <2>1 DEF first
  <2> QED BY <2>2, <2>4, <2>5
<1> HIDE DEF rs
<1>6. ASSUME NEW i \in DOMAIN rs
      PROVE  /\ rs[i].mount \in Mine
             /\ rs[i].total = h.stat[rs[i].mount.device].blocks * h.stat[rs[i].mount.device].frsize
  <2>1. i \in LastOf(h) /\ Use(i) # None /\ rs[i].mount = ms[i]
    BY <1>5, <1>6
  <2>2. ms[i] \in Mine
    BY <1>0, <1>2, <2>1
  <2> QED BY <1>5, <1>6, <2>1, <2>2
<1>7. ASSUME NEW m \in Mine, NEW chosen, NEW l \in DOMAIN rs,
             chosen = {i \in DOMAIN rs : IF h.stat[m.device].fsid = 0 THEN rs[i].mount = m ELSE rs[i].fsid = h.stat[m.device].fsid},
             l \in chosen, \A k \in chosen : k = l
      PROVE  Cardinality(chosen) = 1
  <2>1. chosen = {l}
    BY <1>7
  <2> QED BY <2>1, FS_Singleton
<1>8. ASSUME NEW m \in Mine
      PROVE  LET fsid == h.stat[m.device].fsid
                 Same(r) == IF fsid = 0 THEN r.mount = m ELSE r.fsid = fsid
             IN  Cardinality({i \in DOMAIN rs : Same(rs[i])}) = 1
  <2> DEFINE fsid == h.stat[m.device].fsid
             chosen == {i \in DOMAIN rs : IF fsid = 0 THEN rs[i].mount = m ELSE rs[i].fsid = fsid}
  <2>1. PICK i \in LastOf(h) : ms[i] = m
    BY VisibleIsLast
  <2>2. i \in answers /\ Use(i).fsid = fsid
    BY <2>1
  <2>3. answers \in SUBSET Nat
    BY <1>0, <1>2
  <2>4. CASE fsid = 0
    <3>1. i \in chosen
      BY <1>5, <2>1, <2>2, <2>4
    <3>2. \A k \in chosen : k = i
      <4> SUFFICES ASSUME NEW k \in chosen PROVE k = i
        OBVIOUS
      <4>1. k \in answers /\ ms[k] = m
        BY <1>5, <2>4
      <4>2. k <= i /\ i <= k
        BY <2>1, <4>1 DEF LastOf
      <4> QED BY <2>2, <2>3, <4>1, <4>2
    <3> QED BY <1>7, <3>1, <3>2
  <2>5. CASE fsid # 0
    <3> DEFINE F == {k \in answers : Use(k).fsid = fsid}
    <3>1. F \in SUBSET Nat /\ F # {}
      BY <2>2, <2>3
    <3>2. PICK l \in F : \A n \in F : l <= n
      <4> HIDE DEF F
      <4> QED BY <3>1, LeastNatural
    <3>3. l \in first
      BY <3>2
    <3>4. l \in chosen
      BY <1>5, <2>5, <3>2, <3>3
    <3>5. \A k \in chosen : k = l
      <4> SUFFICES ASSUME NEW k \in chosen PROVE k = l
        OBVIOUS
      <4>1. k \in first /\ Use(k).fsid = fsid
        BY <1>5, <2>5
      <4>2. k \in F /\ k <= l
        BY <2>5, <3>2, <4>1
      <4>3. l <= k
        BY <3>2, <4>2
      <4>4. k \in Nat /\ l \in Nat
        BY <3>1, <3>2, <4>2
      <4> HIDE DEF F, chosen
      <4> QED BY <4>2, <4>3, <4>4
    <3> QED BY <1>7, <3>4, <3>5
  <2> QED BY <2>4, <2>5
<1> QED BY <1>6, <1>8

(***************************************************************************)
(* A report that is matched has the serial or the name of the disk, and    *)
(* one with its name that is not is claimed by a serial.                   *)
(***************************************************************************)
HasSerial(disk, report) == disk.serial # None /\ report.smart.serial = disk.serial

LEMMA SmartMatched ==
  ASSUME NEW disks, NEW smart, DOMAIN smart \subseteq Nat \ {0}, NEW d \in DOMAIN disks
  PROVE  LET j == match_smart(disks, smart)[d]
         IN  /\ j # 0 => /\ j \in DOMAIN smart
                         /\ HasSerial(disks[d], smart[j]) \/ smart_name_matches(smart[j].node, disks[d].node)
             /\ j = 0 => \A i \in DOMAIN smart :
                           /\ ~HasSerial(disks[d], smart[i])
                           /\ smart_name_matches(smart[i].node, disks[d].node)
                                => \E e \in DOMAIN disks : HasSerial(disks[e], smart[i])
<1> DEFINE Places(e) == {i \in DOMAIN smart : smart[i].smart.serial = disks[e].serial}
           by_serial == [e \in DOMAIN disks |->
             IF disks[e].serial = None THEN 0
             ELSE IF Places(e) = {} THEN 0 ELSE Min(Places(e))]
           Claimed == {by_serial[e] : e \in DOMAIN disks}
           ByName(e) == {i \in DOMAIN smart : i \notin Claimed /\ smart_name_matches(smart[i].node, disks[e].node)}
<1>1. match_smart(disks, smart) =
        [e \in DOMAIN disks |-> IF by_serial[e] # 0 THEN by_serial[e]
                                ELSE IF ByName(e) # {} THEN Min(ByName(e)) ELSE 0]
  BY DEF match_smart, Position
<1>2. \A e \in DOMAIN disks : Places(e) \in SUBSET Nat /\ 0 \notin Places(e)
  OBVIOUS
<1>3. \A e \in DOMAIN disks : Places(e) # {} => Min(Places(e)) \in Places(e)
  <2> HIDE DEF Places
  <2> QED BY <1>2, LeastMember
<1>4. \A e \in DOMAIN disks :
        /\ by_serial[e] # 0 => by_serial[e] \in DOMAIN smart /\ HasSerial(disks[e], smart[by_serial[e]])
        /\ by_serial[e] = 0 => \A i \in DOMAIN smart : ~HasSerial(disks[e], smart[i])
  <2> TAKE e \in DOMAIN disks
  <2>1. by_serial[e] = IF disks[e].serial = None THEN 0 ELSE IF Places(e) = {} THEN 0 ELSE Min(Places(e))
    OBVIOUS
  <2> HIDE DEF by_serial
  <2>2. by_serial[e] # 0 => disks[e].serial # None /\ by_serial[e] \in Places(e)
    BY <1>3, <2>1
  <2>3. by_serial[e] = 0 => disks[e].serial = None \/ Places(e) = {}
    BY <1>2, <1>3, <2>1
  <2> QED BY <2>2, <2>3 DEF HasSerial
<1> HIDE DEF by_serial
<1>5. ByName(d) \in SUBSET Nat /\ 0 \notin ByName(d)
  OBVIOUS
<1>6. ByName(d) # {} => Min(ByName(d)) \in ByName(d)
  <2> HIDE DEF ByName
  <2> QED BY <1>5, LeastMember
<1> DEFINE j == match_smart(disks, smart)[d]
<1>7. j = IF by_serial[d] # 0 THEN by_serial[d] ELSE IF ByName(d) # {} THEN Min(ByName(d)) ELSE 0
  BY <1>1
<1> HIDE DEF j
<1>8. CASE by_serial[d] # 0
  BY <1>4, <1>7, <1>8 DEF j
<1>9. CASE by_serial[d] = 0 /\ ByName(d) # {}
  <2>1. j = Min(ByName(d))
    BY <1>7, <1>9
  <2>2. j \in ByName(d) /\ j # 0
    BY <1>5, <1>6, <1>9, <2>1
  <2> QED BY <2>2 DEF j
<1>10. CASE by_serial[d] = 0 /\ ByName(d) = {}
  <2>1. j = 0
    BY <1>7, <1>10
  <2>2. ASSUME NEW i \in DOMAIN smart, smart_name_matches(smart[i].node, disks[d].node)
        PROVE  \E e \in DOMAIN disks : HasSerial(disks[e], smart[i])
    <3>1. PICK e \in DOMAIN disks : i = by_serial[e]
      BY <1>10, <2>2
    <3>2. i # 0
      OBVIOUS
    <3> QED BY <1>4, <3>1, <3>2
  <2> QED BY <1>4, <1>10, <2>1, <2>2 DEF j
<1> QED BY <1>8, <1>9, <1>10

LEMMA DrivesAreTrue ==
  ASSUME NEW h, DriveReading(h)
  PROVE  DrivesTrue(h, drive_records([h EXCEPT !.has_smartctl = "smartctl" \in options.tools]))
<1> DEFINE has == "smartctl" \in options.tools
           g == [h EXCEPT !.has_smartctl = has]
           smart == IF has THEN smart_drives(h.scan) ELSE <<>>
           disks == block_disks(h.block)
           Drives == {j \in DOMAIN h.block : h.block[j].physical}
           Read == {j \in DOMAIN h.scan : h.scan[j].node # None /\ h.scan[j].report # None}
           rs == drive_records(g)
<1>1. g.block = h.block /\ g.scan = h.scan /\ g.has_smartctl = has
  BY DEF DriveReading
<1>2. /\ h.scan # None /\ DOMAIN h.scan \subseteq Nat \ {0}
      /\ \A j \in DOMAIN h.scan : h.scan[j] \in Range(h.scan)
  BY DEF DriveReading, Range
<1>3. /\ DOMAIN disks = Drives
      /\ \A i \in Drives : /\ disks[i].node = h.block[i].node /\ disks[i].drive = h.block[i].drive
                          /\ disks[i].serial = disk_identity(h.block[i]).serial
  BY DEF block_disks, FilterMap
<1>4. /\ DOMAIN smart = (IF has THEN Read ELSE {})
      /\ \A j \in DOMAIN smart : smart[j].node = h.scan[j].node /\ smart[j].smart = parse_smart(h.scan[j].report)
  <2>1. smart_drives(h.scan) = [j \in Read |-> [node |-> h.scan[j].node, smart |-> parse_smart(h.scan[j].report)]]
    BY <1>2 DEF smart_drives, FilterMap
  <2> QED BY <2>1
<1>5. \A j \in Read : /\ parse_smart(h.scan[j].report).serial = h.scan[j].report.serial
                      /\ parse_smart(h.scan[j].report).drive = h.scan[j].report.drive
                      /\ parse_smart(h.scan[j].report) # None
  <2> TAKE j \in Read
  <2>1. parse_smart(h.scan[j].report) # None
    BY <1>2 DEF DriveReading
  <2>2. /\ parse_smart(h.scan[j].report).serial = h.scan[j].report.serial
        /\ parse_smart(h.scan[j].report).drive = h.scan[j].report.drive
    BY DEF parse_smart
  <2> QED BY <2>1, <2>2
<1> DEFINE M == match_smart(disks, smart)
<1>6. /\ DOMAIN rs = DOMAIN disks
      /\ \A i \in DOMAIN disks : /\ rs[i].node = disks[i].node /\ rs[i].drive = disks[i].drive
                                /\ rs[i].smart = IF M[i] = 0 THEN None ELSE smart[M[i]].smart
  <2> HIDE DEF M, g
  <2>1. smart = (IF g.has_smartctl THEN smart_drives(g.scan) ELSE <<>>) /\ disks = block_disks(g.block)
    BY <1>1
  <2> HIDE DEF smart, disks
  <2> QED BY <2>1 DEF drive_records, M
<1> HIDE DEF smart, disks, rs, has
<1>7. DOMAIN smart \subseteq Nat \ {0} /\ DOMAIN smart \subseteq Read
  BY <1>2, <1>4
<1>8. ASSUME NEW i \in Drives, NEW j \in Read
      PROVE  (HasSerial(disks[i], [node |-> 0, smart |-> parse_smart(h.scan[j].report)])
               \/ smart_name_matches(h.scan[j].node, h.block[i].node)) => h.scan[j].report.drive = h.block[i].drive
  <2>1. h.scan[j] \in {d \in Range(h.scan) : d.node # None /\ d.report # None}
    BY <1>2
  <2>2. h.block[i] \in {h.block[n] : n \in Drives}
    OBVIOUS
  <2>3. (disk_identity(h.block[i]).serial \in {h.scan[j].report.serial} \ {None} \/ smart_name_matches(h.scan[j].node, h.block[i].node))
          => h.scan[j].report.drive = h.block[i].drive
    BY <2>1, <2>2 DEF DriveReading
  <2> QED BY <1>3, <1>5, <2>3 DEF HasSerial
<1>9. ASSUME NEW i \in Drives, NEW j \in DOMAIN smart, HasSerial(disks[i], smart[j]) \/ smart_name_matches(smart[j].node, disks[i].node)
      PROVE  smart[j].smart.drive = disks[i].drive
  BY <1>3, <1>4, <1>5, <1>7, <1>8, <1>9 DEF HasSerial
<1>10. ASSUME NEW i \in DOMAIN rs, rs[i].smart # None PROVE rs[i].smart.drive = rs[i].drive
  <2>1. i \in Drives /\ M[i] # 0 /\ rs[i].smart = smart[M[i]].smart
    BY <1>3, <1>6, <1>10
  <2>2. M[i] \in DOMAIN smart /\ (HasSerial(disks[i], smart[M[i]]) \/ smart_name_matches(smart[M[i]].node, disks[i].node))
    BY <1>3, <1>7, <2>1, SmartMatched
  <2> HIDE DEF M
  <2> QED BY <1>3, <1>6, <1>9, <2>1, <2>2
<1>11. ASSUME NEW i \in DOMAIN rs, NEW j \in DOMAIN h.scan, has, h.scan[j].node # None,
              smart_name_matches(h.scan[j].node, rs[i].node), h.scan[j].report # None
       PROVE  rs[i].smart # None
  <2>1. i \in Drives /\ i \in DOMAIN disks /\ j \in DOMAIN smart
    BY <1>3, <1>4, <1>6, <1>11
  <2>2. smart_name_matches(smart[j].node, disks[i].node)
    BY <1>4, <1>6, <1>11, <2>1
  <2>3. CASE M[i] # 0
    <3>1. M[i] \in DOMAIN smart
      BY <1>7, <2>1, <2>3, SmartMatched
    <3> HIDE DEF M
    <3> QED BY <1>4, <1>5, <1>6, <1>7, <2>1, <2>3, <3>1
  <2>4. CASE M[i] = 0
    <3>1. ~HasSerial(disks[i], smart[j]) /\ \E e \in DOMAIN disks : HasSerial(disks[e], smart[j])
      BY <1>7, <2>1, <2>2, <2>4, SmartMatched
    <3>2. PICK e \in DOMAIN disks : HasSerial(disks[e], smart[j])
      BY <3>1
    <3>3. disks[e].drive = disks[i].drive
      BY <1>3, <1>9, <2>1, <2>2, <3>2
    <3>4. disks[e].serial = disks[i].serial
      BY <1>3, <2>1, <3>3 DEF DriveReading
    <3> QED BY <3>1, <3>2, <3>4 DEF HasSerial
  <2> QED BY <2>3, <2>4
<1>12. {rs[i].node : i \in DOMAIN rs} = {h.block[i].node : i \in Drives}
  BY <1>3, <1>6
<1> QED BY <1>10, <1>11, <1>12 DEF DrivesTrue, rs, g, has

(***************************************************************************)
(* Units and timers.                                                       *)
(***************************************************************************)
FailingUnits(h) ==
  IF h.failing = None THEN {} ELSE {h.failing[i].unit : i \in {j \in DOMAIN h.failing : h.failing[j].is_unit}}

LEMMA UnitsOnce ==
  ASSUME NEW h, UnitReading(h)
  PROVE  LET units == units_to_report(h.watch, h.failing)
         IN  /\ {units[i] : i \in DOMAIN units} = ToSet(h.watch) \union FailingUnits(h)
             /\ \A i, j \in DOMAIN units : units[i] = units[j] => i = j
<1> DEFINE w == h.watch
           n == Len(w)
           Unit(i) == IF i <= n THEN w[i] ELSE h.failing[i - n].unit
           bad == {i \in DOMAIN h.failing : h.failing[i].is_unit}
           rows == IF h.failing = None THEN {} ELSE {n + j : j \in bad}
           all == DOMAIN w \union rows
           new == {i \in rows : \A j \in all : Unit(j) = Unit(i) => i <= j}
           units == units_to_report(w, h.failing)
<1>1. n \in Nat /\ DOMAIN w = 1..n /\ ToSet(w) = {w[i] : i \in DOMAIN w}
  BY DEF UnitReading, ToSet
<1>2. h.failing # None => DOMAIN h.failing = 1..Len(h.failing) /\ Len(h.failing) \in Nat
  BY DEF UnitReading
<1>3. units = [i \in DOMAIN w \union new |-> Unit(i)]
  BY DEF units_to_report
<1> HIDE DEF units
<1>4. \A i \in DOMAIN w : i \in Nat /\ i <= n /\ Unit(i) = w[i]
  BY <1>1
<1>5. h.failing # None => \A j \in bad : j \in Nat /\ n + j \in Nat /\ n + j > n /\ n + j - n = j
  BY <1>1, <1>2
<1> HIDE DEF w, bad, n
<1>6. \A i \in rows : i \in Nat /\ i > n
  BY <1>5
<1>7. {Unit(i) : i \in rows} = FailingUnits(h)
  <2>1. CASE h.failing = None
    BY <2>1 DEF FailingUnits
  <2>2. CASE h.failing # None
    <3>1. \A j \in bad : Unit(n + j) = h.failing[j].unit
      <4> TAKE j \in bad
      <4>1. n \in Nat /\ j \in Nat /\ n + j > n
        BY <1>1, <1>5, <2>2
      <4>2. ~(n + j <= n) /\ (n + j) - n = j
        BY <4>1
      <4>3. Unit(n + j) = h.failing[(n + j) - n].unit
        BY <4>2
      <4> HIDE DEF Unit
      <4> QED BY <4>2, <4>3
    <3>2. rows = {n + j : j \in bad}
      BY <2>2
    <3>3. FailingUnits(h) = {h.failing[j].unit : j \in bad}
      BY <2>2 DEF FailingUnits, bad
    <3> HIDE DEF Unit, rows
    <3> QED BY <3>1, <3>2, <3>3
  <2> QED BY <2>1, <2>2
<1>8. \A i, j \in DOMAIN w : w[i] = w[j] => i = j
  BY DEF UnitReading, w
<1> HIDE DEF Unit, rows
<1>9. all \in SUBSET Nat
  BY <1>4, <1>6
<1>10. ASSUME NEW i \in rows PROVE \E j \in DOMAIN w \union new : Unit(j) = Unit(i)
  <2> DEFINE Same == {j \in all : Unit(j) = Unit(i)}
  <2>1. Same \in SUBSET Nat /\ Same # {}
    BY <1>9, <1>10
  <2>2. PICK l \in Same : \A j \in Same : l <= j
    <3> HIDE DEF Same
    <3> QED BY <2>1, LeastNatural
  <2>3. l \in DOMAIN w \/ l \in new
    BY <2>2
  <2> QED BY <2>2, <2>3
<1>11. {units[i] : i \in DOMAIN units} = ToSet(w) \union FailingUnits(h)
  <2>1. {units[i] : i \in DOMAIN units} = {Unit(i) : i \in DOMAIN w \union new}
    BY <1>3
  <2>2. {Unit(i) : i \in DOMAIN w \union new} = {Unit(i) : i \in DOMAIN w} \union {Unit(i) : i \in rows}
    BY <1>10
  <2>3. {Unit(i) : i \in DOMAIN w} = ToSet(w)
    BY <1>1, <1>4
  <2> QED BY <1>7, <2>1, <2>2, <2>3
<1>12. ASSUME NEW i \in DOMAIN units, NEW j \in DOMAIN units, units[i] = units[j] PROVE i = j
  <2>1. /\ i \in DOMAIN w \union new /\ j \in DOMAIN w \union new
        /\ units[i] = Unit(i) /\ units[j] = Unit(j)
    BY <1>3
  <2>2. \A k, l \in DOMAIN w : Unit(k) = Unit(l) => k = l
    BY <1>4, <1>8
  <2>3. \A k \in DOMAIN w, l \in new : Unit(k) # Unit(l)
    <3> SUFFICES ASSUME NEW k \in DOMAIN w, NEW l \in new, Unit(k) = Unit(l) PROVE FALSE
      OBVIOUS
    <3>1. l <= k /\ k <= n /\ l > n /\ k \in Nat /\ l \in Nat /\ n \in Nat
      BY <1>1, <1>4, <1>6
    <3> QED BY <3>1
  <2>4. \A k, l \in new : Unit(k) = Unit(l) => k = l
    <3> SUFFICES ASSUME NEW k \in new, NEW l \in new, Unit(k) = Unit(l) PROVE k = l
      OBVIOUS
    <3>1. k <= l /\ l <= k /\ k \in Nat /\ l \in Nat
      BY <1>6
    <3> QED BY <3>1
  <2> QED BY <1>12, <2>1, <2>2, <2>3, <2>4
<1> QED BY <1>11, <1>12 DEF w, units

LEMMA UnitsAreTrue ==
  ASSUME NEW h, UnitReading(h)
  PROVE  UnitsTrue(h, unit_records(h))
<1> DEFINE units == units_to_report(h.watch, h.failing)
           rs == unit_records(h)
           Entered(u) == Opt(h.show[u], LAMBDA p : p["ActiveEnter"])
<1>1. /\ DOMAIN rs = DOMAIN units
      /\ \A i \in DOMAIN units :
           /\ rs[i].unit = units[i]
           /\ rs[i].active_enter = LET then == parse_micros(Entered(units[i]))
                                   IN  IF then = None THEN None ELSE seconds_since(h.monotonic, then)
           /\ rs[i].last_success = MarkerAge(h.wall, h.success[units[i]])
  BY DEF unit_records, Opt
<1>2. /\ {units[i] : i \in DOMAIN units} = ToSet(h.watch) \union FailingUnits(h)
      /\ \A i, j \in DOMAIN units : units[i] = units[j] => i = j
  BY UnitsOnce
<1>3. \A u \in ToSet(h.watch) \union FailingUnits(h) :
        /\ h.success[u] \in Nat \union {None}
        /\ \/ Entered(u) \in {None, 0, Infinity}
           \/ Entered(u) \in Nat /\ h.running[u] \in Nat /\ Entered(u) + h.running[u] = h.monotonic
  <2>1. ToSet(h.watch) \subseteq Range(h.watch)
    BY DEF ToSet, Range, UnitReading
  <2>2. h.failing # None => \A i \in DOMAIN h.failing : h.failing[i] \in Range(h.failing)
    BY DEF Range
  <2>3. FailingUnits(h) \subseteq {row.unit : row \in {r \in IF h.failing = None THEN {} ELSE Range(h.failing) : r.is_unit}}
    BY <2>2 DEF FailingUnits
  <2> QED BY <2>1, <2>3 DEF UnitReading
<1>4. h.monotonic \in Nat /\ h.wall \in Nat \union {None}
  BY DEF UnitReading
<1> HIDE DEF units, rs, Entered
<1>5. {rs[i].unit : i \in DOMAIN rs} = ToSet(h.watch) \union FailingUnits(h)
  BY <1>1, <1>2
<1>6. \A i, j \in DOMAIN rs : rs[i].unit = rs[j].unit => i = j
  BY <1>1, <1>2
<1>7. ASSUME NEW i \in DOMAIN rs
      PROVE  /\ rs[i].active_enter # None => rs[i].active_enter = h.running[rs[i].unit]
             /\ rs[i].last_success # None => rs[i].last_success >= 0
  <2> DEFINE u == rs[i].unit
  <2>1. u = units[i] /\ u \in ToSet(h.watch) \union FailingUnits(h)
    BY <1>1, <1>2, <1>7
  <2>2. rs[i].active_enter # None => rs[i].active_enter = h.running[u]
    <3> SUFFICES ASSUME rs[i].active_enter # None PROVE rs[i].active_enter = h.running[u]
      OBVIOUS
    <3>1. rs[i].active_enter = LET then == parse_micros(Entered(u))
                               IN  IF then = None THEN None ELSE seconds_since(h.monotonic, then)
      BY <1>1, <1>7, <2>1
    <3> HIDE DEF u
    <3>2. Entered(u) \notin {None, 0, Infinity}
      BY <3>1 DEF parse_micros
    <3>3. Entered(u) \in Nat /\ h.running[u] \in Nat /\ Entered(u) + h.running[u] = h.monotonic
      BY <1>3, <2>1, <3>2
    <3>4. rs[i].active_enter = seconds_since(h.monotonic, Entered(u))
      BY <3>1, <3>2 DEF parse_micros
    <3> QED BY <1>4, <3>3, <3>4 DEF seconds_since
  <2>3. rs[i].last_success # None => rs[i].last_success >= 0
    <3>1. rs[i].last_success = MarkerAge(h.wall, h.success[u])
      BY <1>1, <1>7, <2>1
    <3>2. h.success[u] \in Nat \union {None}
      BY <1>3, <2>1
    <3> HIDE DEF u
    <3> QED BY <1>4, <3>1, <3>2 DEF MarkerAge, seconds_since
  <2> QED BY <2>2, <2>3
<1> QED BY <1>5, <1>6, <1>7 DEF UnitsTrue, FailingUnits, rs

LEMMA TimersAreTrue ==
  ASSUME NEW h, TimerReading(h)
  PROVE  TimersTrue(h, timer_records(h))
<1> DEFINE Moment(t, i) == Opt(h.elapse[t], LAMBDA lines : IF i \in DOMAIN lines THEN lines[i] ELSE None)
           Elapse(t, i) == Opt(h.elapse[t], LAMBDA lines : IF i \in DOMAIN lines THEN parse_micros(lines[i]) ELSE None)
           Monotonic(t) == Opt(Elapse(t, 1), LAMBDA then : seconds_until(h.monotonic, then))
           Realtime(t) == IF h.wall = None THEN None
                          ELSE Opt(Elapse(t, 2), LAMBDA then : seconds_until(h.wall, then))
           OnClock(clock, then, left) ==
             \/ then \in {None, 0, Infinity} \/ clock = None
             \/ clock \in Nat /\ then \in Nat /\ (then < clock \/ then - clock = left)
           rs == timer_records(h)
<1>1. /\ DOMAIN rs = DOMAIN h.timers
      /\ \A i \in DOMAIN rs : rs[i].unit = h.timers[i] /\ rs[i].next = Or(Monotonic(h.timers[i]), Realtime(h.timers[i]))
  BY DEF timer_records
<1>2. \A t, i : Elapse(t, i) # None => Elapse(t, i) = Moment(t, i) /\ Moment(t, i) \notin {None, 0, Infinity}
  BY DEF Opt, parse_micros
<1>3. \A t \in Range(h.timers) : h.monotonic # None /\ OnClock(h.monotonic, Moment(t, 1), h.due_in[t])
                                 /\ OnClock(h.wall, Moment(t, 2), h.due_in[t])
  BY DEF TimerReading
<1> HIDE DEF Elapse, Moment, rs
<1>4. ASSUME NEW t \in Range(h.timers), NEW clock, NEW i, clock # None, Elapse(t, i) # None,
             OnClock(clock, Moment(t, i), h.due_in[t]), seconds_until(clock, Elapse(t, i)) # None
      PROVE  seconds_until(clock, Elapse(t, i)) = h.due_in[t]
  BY <1>2, <1>4 DEF seconds_until
<1>5. ASSUME NEW i \in DOMAIN rs, rs[i].next # None PROVE rs[i].next = h.due_in[rs[i].unit]
  <2> DEFINE t == h.timers[i]
  <2>1. t \in Range(h.timers) /\ rs[i].unit = t /\ rs[i].next = Or(Monotonic(t), Realtime(t))
    BY <1>1 DEF Range
  <2> HIDE DEF t
  <2>2. CASE Monotonic(t) # None
    <3>1. Elapse(t, 1) # None /\ Monotonic(t) = seconds_until(h.monotonic, Elapse(t, 1))
      BY <2>2 DEF Opt
    <3>2. Monotonic(t) = h.due_in[t]
      BY <1>3, <1>4, <2>1, <2>2, <3>1
    <3> QED BY <2>1, <2>2, <3>2 DEF Or
  <2>3. CASE Monotonic(t) = None
    <3>1. rs[i].next = Realtime(t)
      BY <2>1, <2>3 DEF Or
    <3>2. h.wall # None /\ Elapse(t, 2) # None /\ Realtime(t) = seconds_until(h.wall, Elapse(t, 2))
      BY <1>5, <3>1 DEF Opt
    <3> QED BY <1>3, <1>4, <1>5, <2>1, <3>1, <3>2
  <2> QED BY <2>2, <2>3
<1> QED BY <1>5 DEF TimersTrue, rs

(***************************************************************************)
(* The journal's messages, and chrony's sources.                           *)
(***************************************************************************)
LEMMA ThreeParts ==
  ASSUME NEW S, IsFiniteSet(S), NEW A, NEW B, NEW C, S = A \union B \union C,
         A \intersect B = {}, A \intersect C = {}, B \intersect C = {}
  PROVE  Cardinality(A) + Cardinality(B) + Cardinality(C) = Cardinality(S)
<1>1. IsFiniteSet(A) /\ IsFiniteSet(B) /\ IsFiniteSet(C)
  BY FS_Subset
<1>2. IsFiniteSet(A \union B) /\ Cardinality(A \union B) = Cardinality(A) + Cardinality(B) - Cardinality({})
  BY <1>1, FS_Union
<1>3. Cardinality(S) = Cardinality(A \union B) + Cardinality(C) - Cardinality((A \union B) \intersect C)
  BY <1>1, <1>2, FS_Union
<1>4. (A \union B) \intersect C = {} /\ Cardinality({}) = 0
  BY FS_EmptySet
<1>5. Cardinality(A) \in Nat /\ Cardinality(B) \in Nat /\ Cardinality(C) \in Nat
  BY <1>1, FS_CardinalityType
<1>6. Cardinality(A \union B) = Cardinality(A) + Cardinality(B)
  BY <1>2, <1>4, <1>5
<1>7. Cardinality((A \union B) \intersect C) = 0
  BY <1>4
<1> QED BY <1>3, <1>5, <1>6, <1>7

LEMMA JournalIsTrue ==
  ASSUME NEW lines, JournalReading(lines)
  PROVE  JournalTrue(lines, journal_records(lines))
<1> DEFINE Read == {i \in DOMAIN lines : lines[i] # None /\ lines[i].priority # None}
           Unit(i) == Or(lines[i].unit, "kernel")
           Severity(i) == IF lines[i].priority <= 2 THEN "crit"
                          ELSE IF lines[i].priority = 3 THEN "err"
                          ELSE IF lines[i].priority = 4 THEN "warning" ELSE "quiet"
           rs == journal_records(lines)
           Count(r) == r.counts["crit"] + r.counts["err"] + r.counts["warning"]
<1> SUFFICES ASSUME lines # None, NEW u \in {lines[i].unit : i \in Read}
             PROVE  \E i \in DOMAIN rs : /\ rs[i].unit = Or(u, "kernel")
                                         /\ Count(rs[i]) = Cardinality({j \in Read : lines[j].unit = u})
  BY DEF JournalTrue
<1>1. DOMAIN lines = 1..Len(lines) /\ Len(lines) \in Nat /\ \A i \in DOMAIN lines : lines[i] \in Range(lines)
  BY DEF JournalReading, Range
<1>2. \A i \in Read : lines[i].unit # "kernel" /\ lines[i].priority \in 0..4
  BY <1>1 DEF JournalReading
<1>3. \A i \in Read : Severity(i) \in {"crit", "err", "warning"}
  BY <1>2
<1> DEFINE name == Or(u, "kernel")
           Of(severity) == {i \in Read : Unit(i) = name /\ Severity(i) = severity}
<1>4. /\ DOMAIN rs = {Unit(i) : i \in Read}
      /\ \A n \in DOMAIN rs : rs[n].unit = n
      /\ name \in DOMAIN rs => \A severity \in {"crit", "err", "warning"} :
                                 rs[name].counts[severity] = Cardinality(Of(severity))
  BY DEF journal_records, parse_journal_counts
<1> HIDE DEF rs
<1>5. name \in DOMAIN rs
  BY <1>4
<1>6. \A i \in Read : Unit(i) = name <=> lines[i].unit = u
  BY <1>2 DEF Or
<1> HIDE DEF Severity, Unit, name
<1> DEFINE mine == {j \in Read : lines[j].unit = u}
<1>7. mine = Of("crit") \union Of("err") \union Of("warning")
  BY <1>3, <1>6
<1>8. IsFiniteSet(mine)
  <2>1. IsFiniteSet(1..Len(lines))
    BY <1>1, FS_Interval
  <2> QED BY <1>1, <2>1, FS_Subset
<1>9. Of("crit") \intersect Of("err") = {} /\ Of("crit") \intersect Of("warning") = {} /\ Of("err") \intersect Of("warning") = {}
  OBVIOUS
<1> HIDE DEF mine, Of
<1>10. Cardinality(Of("crit")) + Cardinality(Of("err")) + Cardinality(Of("warning")) = Cardinality(mine)
  BY <1>7, <1>8, <1>9, ThreeParts
<1>11. rs[name].unit = name /\ Count(rs[name]) = Cardinality(mine)
  BY <1>4, <1>5, <1>10
<1> QED BY <1>5, <1>11 DEF mine, name

LEMMA TimeProvidersAreTrue ==
  ASSUME NEW h, TimeProviderReading(h)
  PROVE  TimeProvidersTrue(h, time_provider_records(h))
<1> DEFINE sources == Or(h.sources, <<>>)
           authdata == Or(h.authdata, <<>>)
           S == parse_sources(sources)
           A == parse_authdata(authdata)
           SourceAt(p) == {i \in DOMAIN S : S[i].name = p.hostname}
           AuthAt(p) == {i \in DOMAIN A : A[i].name = p.hostname}
           Source(p) == IF SourceAt(p) = {} THEN None ELSE S[Min(SourceAt(p))]
           Auth(p) == IF AuthAt(p) = {} THEN None ELSE A[Min(AuthAt(p))]
           rs == time_provider_records(h)
<1>1. /\ DOMAIN sources \subseteq Nat \ {0} /\ \A i \in DOMAIN sources : sources[i] \in Range(sources)
      /\ DOMAIN authdata \subseteq Nat \ {0} /\ \A i \in DOMAIN authdata : authdata[i] \in Range(authdata)
  <2>1. sources \in Seq(Range(sources)) /\ authdata \in Seq(Range(authdata))
    BY DEF TimeProviderReading
  <2> HIDE DEF sources, authdata
  <2> QED BY <2>1 DEF Range
<1>2. /\ DOMAIN S = {i \in DOMAIN sources : sources[i].complete}
      /\ \A i \in DOMAIN S : S[i].name = sources[i].name /\ S[i].reach = parse_reach(sources[i].reach)
  <2> HIDE DEF sources
  <2> QED BY DEF parse_sources, FilterMap
<1>3. /\ DOMAIN A = {i \in DOMAIN authdata : authdata[i].complete}
      /\ \A i \in DOMAIN A : A[i].name = authdata[i].name /\ A[i].cookies = authdata[i].cookies
  <2> HIDE DEF authdata
  <2> QED BY DEF parse_authdata, FilterMap
<1>4. (\A i \in DOMAIN S : S[i] # None) /\ (\A i \in DOMAIN A : A[i] # None)
  <2>1. None \notin Range(S) \union Range(A)
    BY DEF TimeProviderReading
  <2> HIDE DEF S, A
  <2> QED BY <2>1 DEF Range
<1>5. /\ DOMAIN rs = DOMAIN h.providers
      /\ \A i \in DOMAIN rs :
           LET p == h.providers[i]
           IN  /\ rs[i].provider = p
               /\ rs[i].reach = Opt(Source(p), LAMBDA r : r.reach)
               /\ rs[i].reachable = Opt(Source(p), LAMBDA r : Opt(r.reach, LAMBDA n : n # 0))
               /\ rs[i].cookies = Opt(Auth(p), LAMBDA r : r.cookies)
  <2> DEFINE F(p) == Find(S, LAMBDA r : r.name = p.hostname)
             G(p) == Find(A, LAMBDA r : r.name = p.hostname)
  <2>1. \A p : F(p) = Source(p) /\ G(p) = Auth(p)
    <3> HIDE DEF S, A
    <3> TAKE p
    <3>1. SourceAt(p) \in SUBSET Nat /\ 0 \notin SourceAt(p) /\ AuthAt(p) \in SUBSET Nat /\ 0 \notin AuthAt(p)
      BY <1>1, <1>2, <1>3
    <3>2. /\ SourceAt(p) # {} => Min(SourceAt(p)) \in SourceAt(p)
          /\ AuthAt(p) # {} => Min(AuthAt(p)) \in AuthAt(p)
      <4> HIDE DEF SourceAt, AuthAt
      <4> QED BY <3>1, LeastMember
    <3>3. F(p) = LET i == IF SourceAt(p) = {} THEN 0 ELSE Min(SourceAt(p)) IN IF i = 0 THEN None ELSE S[i]
      BY DEF Find, Position
    <3>4. G(p) = LET i == IF AuthAt(p) = {} THEN 0 ELSE Min(AuthAt(p)) IN IF i = 0 THEN None ELSE A[i]
      BY DEF Find, Position
    <3> HIDE DEF SourceAt, AuthAt, F, G
    <3> QED BY <3>1, <3>2, <3>3, <3>4
  <2>2. rs = statuses(h.providers, sources, authdata)
    BY DEF time_provider_records
  <2> HIDE DEF Source, Auth, sources, authdata
  <2>3. /\ DOMAIN rs = DOMAIN h.providers
        /\ \A i \in DOMAIN rs :
             LET p == h.providers[i]
             IN  /\ rs[i].provider = p
                 /\ rs[i].reach = Opt(F(p), LAMBDA r : r.reach)
                 /\ rs[i].reachable = Opt(F(p), LAMBDA r : Opt(r.reach, LAMBDA n : n # 0))
                 /\ rs[i].cookies = Opt(G(p), LAMBDA r : r.cookies)
    <3> DEFINE Status(p) ==
                 [provider |-> p,
                  reachable |-> Opt(F(p), LAMBDA r : Opt(r.reach, LAMBDA n : n # 0)),
                  reach |-> Opt(F(p), LAMBDA r : r.reach),
                  state |-> Opt(F(p), LAMBDA r : r.state),
                  last_rx |-> Opt(F(p), LAMBDA r : r.last_rx),
                  cookies |-> Opt(G(p), LAMBDA r : r.cookies),
                  last_ke |-> Opt(G(p), LAMBDA r : r.last_ke)]
    <3>1. rs = [i \in DOMAIN h.providers |-> Status(h.providers[i])]
      BY <2>2 DEF statuses
    <3>2. \A p : /\ Status(p).provider = p
                 /\ Status(p).reach = Opt(F(p), LAMBDA r : r.reach)
                 /\ Status(p).reachable = Opt(F(p), LAMBDA r : Opt(r.reach, LAMBDA n : n # 0))
                 /\ Status(p).cookies = Opt(G(p), LAMBDA r : r.cookies)
      <4> HIDE DEF F, G
      <4> QED OBVIOUS
    <3> HIDE DEF rs, Status, F, G
    <3> QED BY <3>1, <3>2
  <2> HIDE DEF F, G, rs
  <2> QED BY <2>1, <2>3 DEF Opt
<1> HIDE DEF S, A, rs
<1>6. ASSUME NEW p \in Range(h.providers)
      PROVE  /\ Source(p) # None => Source(p).reach = h.peers[p.hostname].reach
             /\ Auth(p) # None => Auth(p).cookies = h.peers[p.hostname].cookies
             /\ h.peers[p.hostname].listed /\ h.sources # None => Source(p) # None
             /\ h.peers[p.hostname].reach # None
  <2> DEFINE peer == h.peers[p.hostname]
  <2>1. /\ \A row \in Range(sources) : row.complete /\ row.name = p.hostname => parse_reach(row.reach) = peer.reach
        /\ \A row \in Range(authdata) : row.complete /\ row.name = p.hostname => row.cookies = peer.cookies
        /\ peer.listed /\ h.sources # None => \E row \in Range(sources) : row.complete /\ row.name = p.hostname
        /\ peer.reach # None
    BY DEF TimeProviderReading
  <2> HIDE DEF sources, authdata, peer
  <2>2. SourceAt(p) \in SUBSET Nat /\ AuthAt(p) \in SUBSET Nat
    BY <1>1, <1>2, <1>3
  <2>3. /\ SourceAt(p) # {} => Min(SourceAt(p)) \in SourceAt(p)
        /\ AuthAt(p) # {} => Min(AuthAt(p)) \in AuthAt(p)
    <3> HIDE DEF SourceAt, AuthAt
    <3> QED BY <2>2, LeastMember
  <2>4. \A i \in SourceAt(p) : S[i].reach = peer.reach /\ S[i] # None
    BY <1>1, <1>2, <1>4, <2>1
  <2>5. \A i \in AuthAt(p) : A[i].cookies = peer.cookies
    BY <1>1, <1>3, <2>1
  <2>6. peer.listed /\ h.sources # None => SourceAt(p) # {}
    BY <1>2, <2>1 DEF Range
  <2> HIDE DEF SourceAt, AuthAt
  <2> QED BY <2>1, <2>3, <2>4, <2>5, <2>6 DEF peer
<1> HIDE DEF Source, Auth
<1>7. ASSUME NEW i \in DOMAIN rs
      PROVE  LET peer == h.peers[rs[i].provider.hostname]
             IN  /\ rs[i].reach # None => rs[i].reach = peer.reach /\ rs[i].reachable = (peer.reach # 0)
                 /\ rs[i].cookies # None => rs[i].cookies = peer.cookies
                 /\ (peer.listed /\ h.sources # None) => rs[i].reach # None
  <2>1. h.providers[i] \in Range(h.providers)
    BY <1>5 DEF Range
  <2> QED BY <1>5, <1>6, <2>1 DEF Opt
<1> QED BY <1>7 DEF TimeProvidersTrue, rs

(***************************************************************************)
(* What a run has collected is what the groups up to here give.            *)
(***************************************************************************)
GroupsRead == {"cpu", "memory", "filesystem", "drive", "generation", "host", "iroh_failsafe", "sensor",
               "unit", "timer", "journal", "time_provider"}

RecordsInv ==
  /\ host.group \in DOMAIN Readings /\ host.reading \in Readings[host.group]
  /\ pos \in 0..13
  /\ records = [g \in GroupNames |-> records[g]]
  /\ \A i \in 1..pos :
       Groups[i] \in GroupsRead /\ wants(Groups[i]) /\ Configured(Groups[i])
         => records[Groups[i]] = RecordsOf(Groups[i])

LEMMA FoundIsReading ==
  ASSUME RecordsInv, NEW g
  PROVE  Found(g) \in ReadingsOf(g)
BY DEF RecordsInv, Found, ReadingsOf

LEMMA CollectedIsTrue == RecordsInv => RecordsAreTrue
<1> SUFFICES ASSUME RecordsInv PROVE RecordsAreTrue
  OBVIOUS
<1>1. ASSUME NEW g \in GroupsRead, Collected(g) PROVE records[g] = RecordsOf(g)
  BY <1>1 DEF RecordsInv, Collected
<1>2. Collected("cpu") => CpuTrue(Found("cpu"), records["cpu"][1])
  <2> SUFFICES ASSUME Collected("cpu") PROVE CpuTrue(Found("cpu"), records["cpu"][1])
    OBVIOUS
  <2>1. records["cpu"] = <<cpu_record(Found("cpu"))>>
    BY <1>1 DEF RecordsOf, GroupsRead
  <2>2. CpuReading(Found("cpu"))
    BY FoundIsReading, ReadingsAssumption
  <2>3. records["cpu"][1] = cpu_record(Found("cpu"))
    BY <2>1
  <2> QED BY <2>2, <2>3, CpuIsTrue
<1>3. Collected("filesystem") => FilesystemsTrue(Found("filesystem"), records["filesystem"])
  <2>1. Collected("filesystem") => records["filesystem"] = filesystem_records(Found("filesystem"))
    BY <1>1 DEF RecordsOf, GroupsRead
  <2>2. FilesystemReading(Found("filesystem"))
    BY FoundIsReading, ReadingsAssumption
  <2> QED BY <2>1, <2>2, FilesystemsAreTrue
<1>4. Collected("drive") => DrivesTrue(Found("drive"), records["drive"])
  <2>1. Collected("drive") =>
          records["drive"] = drive_records([Found("drive") EXCEPT !.has_smartctl = "smartctl" \in options.tools])
    BY <1>1 DEF RecordsOf, GroupsRead
  <2>2. DriveReading(Found("drive"))
    BY FoundIsReading, ReadingsAssumption
  <2> QED BY <2>1, <2>2, DrivesAreTrue
<1>5. Collected("unit") => UnitsTrue(Found("unit"), records["unit"])
  <2>1. Collected("unit") => records["unit"] = unit_records(Found("unit"))
    BY <1>1 DEF RecordsOf, GroupsRead
  <2>2. UnitReading(Found("unit"))
    BY FoundIsReading, ReadingsAssumption
  <2> QED BY <2>1, <2>2, UnitsAreTrue
<1>6. Collected("timer") => TimersTrue(Found("timer"), records["timer"])
  <2>1. Collected("timer") => records["timer"] = timer_records(Found("timer"))
    BY <1>1 DEF RecordsOf, GroupsRead
  <2>2. TimerReading(Found("timer"))
    BY FoundIsReading, ReadingsAssumption
  <2> QED BY <2>1, <2>2, TimersAreTrue
<1>7. Collected("journal") => JournalTrue(Found("journal"), records["journal"])
  <2>1. Collected("journal") => records["journal"] = journal_records(Found("journal"))
    BY <1>1 DEF RecordsOf, GroupsRead
  <2>2. JournalReading(Found("journal"))
    BY FoundIsReading, ReadingsAssumption
  <2> QED BY <2>1, <2>2, JournalIsTrue
<1>8. Collected("time_provider") => TimeProvidersTrue(Found("time_provider"), records["time_provider"])
  <2>1. Collected("time_provider") => records["time_provider"] = time_provider_records(Found("time_provider"))
    BY <1>1 DEF RecordsOf, GroupsRead
  <2>2. TimeProviderReading(Found("time_provider"))
    BY FoundIsReading, ReadingsAssumption
  <2> QED BY <2>1, <2>2, TimeProvidersAreTrue
<1> QED BY <1>2, <1>3, <1>4, <1>5, <1>6, <1>7, <1>8 DEF RecordsAreTrue

LEMMA SameReadings ==
  ASSUME UNCHANGED <<options, host>>, NEW g \in GroupsRead
  PROVE  (wants(g)' <=> wants(g)) /\ (Configured(g)' <=> Configured(g)) /\ RecordsOf(g)' = RecordsOf(g)
<1>1. \A f : Found(f)' = Found(f)
  BY DEF Found
<1>2. wants(g)' <=> wants(g)
  BY DEF wants
<1>3. Configured(g)' <=> Configured(g)
  BY <1>1 DEF Configured, GroupsRead
<1>4. RecordsOf(g)' = RecordsOf(g)
  BY <1>1 DEF RecordsOf, GroupsRead
<1> QED BY <1>2, <1>3, <1>4

(***************************************************************************)
(* On every host whose kernel and tools render it as assumed, the records  *)
(* of a run of system-metrics are true of it: shares in range, a           *)
(* filesystem and a unit once, a drive's own SMART report, ages and counts *)
(* that are right, whatever is mounted, plugged, failing or silent.        *)
(***************************************************************************)
THEOREM RecordsStayTrue == MetricsSpec => []RecordsAreTrue
<1>1. MetricsInit => RecordsInv
  <2> SUFFICES ASSUME MetricsInit PROVE RecordsInv
    OBVIOUS
  <2>1. pos = 0 /\ records = [g \in GroupNames |-> <<>>]
    BY DEF MetricsInit, CollectorInit
  <2>2. host.group \in DOMAIN Readings /\ host.reading \in Readings[host.group]
    BY DEF MetricsInit
  <2> QED BY <2>1, <2>2 DEF RecordsInv
<1>2. RecordsInv /\ [MetricsNext]_metrics_vars => RecordsInv'
  <2> SUFFICES ASSUME RecordsInv, [MetricsNext]_metrics_vars PROVE RecordsInv'
    OBVIOUS
  <2>1. UNCHANGED <<options, host>>
    BY DEF MetricsNext, StartRun, CollectGroup, Post, Receiving, ProxyStep, metrics_vars, collector_vars, ParseArgs,
           Publish, Connect, WriteRequest, ReadTimeout, ReadResponse, Receiver, Receive, Answer, Close
  <2>2. CASE UNCHANGED <<pos, records>>
    BY <2>1, <2>2, SameReadings DEF RecordsInv
  <2>3. CASE CollectGroup
    <3>1. PICK i \in Left : /\ \A j \in Left : i <= j
                            /\ pos' = i /\ records' = [records EXCEPT ![Groups[i]] = RecordsOf(Groups[i])]
      BY <2>3 DEF CollectGroup
    <3>2. i \in 1..13 /\ pos < i /\ pos \in 0..13
      BY DEF RecordsInv, Left, Groups
    <3>3. \A j, k \in 1..13 : Groups[j] = Groups[k] => j = k
      BY DEF Groups
    <3>4. \A j \in 1..13 : Groups[j] \in GroupNames
      BY DEF Groups, GroupNames
    <3>5. /\ records' = [g \in GroupNames |-> records'[g]]
          /\ \A g \in GroupNames : records'[g] = IF g = Groups[i] THEN RecordsOf(Groups[i]) ELSE records[g]
      BY <3>1, <3>2, <3>4 DEF RecordsInv
    <3>6. ASSUME NEW j \in 1..pos', Groups[j] \in GroupsRead, wants(Groups[j])', Configured(Groups[j])'
          PROVE  records'[Groups[j]] = RecordsOf(Groups[j])'
      <4>1. /\ wants(Groups[j]) /\ Configured(Groups[j]) /\ RecordsOf(Groups[j])' = RecordsOf(Groups[j])
            /\ j \in 1..13 /\ j <= i
        BY <2>1, <3>1, <3>2, <3>6, SameReadings
      <4>2. CASE j = i
        BY <3>4, <3>5, <4>1, <4>2
      <4>3. CASE j \in 1..pos
        <5>1. Groups[j] # Groups[i]
          BY <3>2, <3>3, <4>1, <4>3
        <5>2. records[Groups[j]] = RecordsOf(Groups[j])
          BY <3>6, <4>1, <4>3 DEF RecordsInv
        <5> QED BY <3>4, <3>5, <4>1, <5>1, <5>2
      <4>4. CASE j > pos /\ j < i
        <5>1. j \in Left
          BY <3>2, <4>1, <4>4 DEF Left, Groups
        <5> QED BY <3>1, <3>2, <4>1, <4>4, <5>1
      <4> QED BY <3>2, <4>1, <4>2, <4>3, <4>4
    <3> QED BY <2>1, <3>1, <3>2, <3>5, <3>6 DEF RecordsInv
  <2>4. CASE StartRun \/ Post \/ Receiving \/ ProxyStep \/ UNCHANGED metrics_vars
    <3>1. UNCHANGED <<pos, records>>
      BY <2>4 DEF StartRun, Post, Receiving, ProxyStep, metrics_vars, collector_vars, ParseArgs, Publish, Connect,
                  WriteRequest, ReadTimeout, ReadResponse, Receiver, Receive, Answer, Close
    <3> QED BY <2>2, <3>1
  <2> QED BY <2>3, <2>4 DEF MetricsNext
<1> QED BY <1>1, <1>2, CollectedIsTrue, PTL DEF MetricsSpec
-----------------------------------------------------------------------------
(***************************************************************************)
(* The parsers of scans, line by line.  A trace of a parser is what it     *)
(* holds after each number of lines; the loop has one.                     *)
(***************************************************************************)
SweepTrace(lines, n, g) ==
  g = [i \in 0..n |-> IF i = 0 THEN <<>> ELSE ScanLine(g[i - 1], lines[i])]

MonitorTrace(lines, n, g) ==
  g = [i \in 0..n |-> IF i = 0 THEN NewScan ELSE BtmonLine(g[i - 1], lines[i])]

LEMMA SweepTraced ==
  ASSUME NEW lines, NEW N \in Nat
  PROVE  \E g : SweepTrace(lines, N, g)
<1> DEFINE T == {n \in Nat : ~ \E g : SweepTrace(lines, n, g)}
<1> SUFFICES ASSUME T # {} PROVE FALSE
  OBVIOUS
<1>1. PICK m \in T : \A n \in T : m <= n
  <2> HIDE DEF T
  <2>1. T \in SUBSET Nat
    BY DEF T
  <2> QED BY <2>1, LeastNatural
<1>2. m # 0
  <2> DEFINE g == [i \in 0..0 |-> <<>>]
  <2>1. SweepTrace(lines, 0, g)
    BY DEF SweepTrace
  <2> QED BY <1>1, <2>1
<1>3. m - 1 \in Nat /\ m - 1 \notin T
  BY <1>1, <1>2
<1>4. PICK g : SweepTrace(lines, m - 1, g)
  BY <1>3
<1> DEFINE h == [i \in 0..m |-> IF i = m THEN ScanLine(g[m - 1], lines[m]) ELSE g[i]]
<1>5. m \in Nat /\ DOMAIN h = 0..m
  BY <1>1
<1>6. \A i \in 0..m : h[i] = IF i = 0 THEN <<>> ELSE ScanLine(h[i - 1], lines[i])
  <2> SUFFICES ASSUME NEW i \in 0..m PROVE h[i] = IF i = 0 THEN <<>> ELSE ScanLine(h[i - 1], lines[i])
    OBVIOUS
  <2>1. CASE i = m
    <3>1. h[m - 1] = g[m - 1]
      BY <1>2, <1>5
    <3> QED BY <1>2, <1>5, <2>1, <3>1
  <2>2. CASE i # m
    <3>1. i \in 0..(m - 1)
      BY <1>5, <2>2
    <3>2. g[i] = IF i = 0 THEN <<>> ELSE ScanLine(g[i - 1], lines[i])
      BY <1>4, <3>1 DEF SweepTrace
    <3>3. i # 0 => h[i - 1] = g[i - 1]
      BY <1>5, <3>1
    <3> QED BY <2>2, <3>2, <3>3
  <2> QED BY <2>1, <2>2
<1>7. SweepTrace(lines, m, h)
  <2> HIDE DEF h
  <2>1. h = [i \in 0..m |-> h[i]]
    BY <1>5 DEF h
  <2> QED BY <1>6, <2>1 DEF SweepTrace
<1> QED BY <1>1, <1>7

LEMMA ScanTraced ==
  ASSUME NEW lines, Len(lines) \in Nat
  PROVE  \E g : /\ SweepTrace(lines, Len(lines), g)
                /\ parse_scan(lines) = [i \in DOMAIN g[Len(lines)] |->
                                          [g[Len(lines)][i] EXCEPT !.security = Or(@, "open")]]
<1> DEFINE after == CHOOSE g : SweepTrace(lines, Len(lines), g)
<1>1. SweepTrace(lines, Len(lines), after)
  BY SweepTraced
<1>2. parse_scan(lines) = [i \in DOMAIN after[Len(lines)] |-> [after[Len(lines)][i] EXCEPT !.security = Or(@, "open")]]
  BY DEF parse_scan, SweepTrace
<1> QED BY <1>1, <1>2

\* What is known of a network from the first n lines.
Says(lines, n, bssid, prefix) == \E i \in 1..n : lines[i].of = bssid /\ lines[i].prefix = prefix
SaysSae(lines, n, bssid) ==
  \E i \in 1..n : lines[i].of = bssid /\ lines[i].prefix = "suites" /\ "SAE" \in lines[i].value

BssNames == {"bssid", "associated", "ssid", "last_seen", "country", "security", "suites", "wps", "standards", "fields"}

BssOK(lines, n, r) ==
  /\ DOMAIN r = BssNames /\ DOMAIN r.fields = BssFields
  /\ r.standards \in Seq(Standards)
  /\ r.security = IF SaysSae(lines, n, r.bssid) THEN "wpa3"
                  ELSE IF Says(lines, n, r.bssid, "RSN") THEN "wpa2"
                  ELSE IF Says(lines, n, r.bssid, "WPA") THEN "wpa" ELSE None
  /\ Range(r.standards) = {s \in Standards : Says(lines, n, r.bssid, s)}
  /\ \A i \in 1..n : lines[i].of = r.bssid /\ lines[i].prefix = "signal" => r.fields["signal"] = lines[i].value

\* The blocks so far: the last one is of the network the last line is about.
SweepOK(lines, n, out) ==
  /\ out \in Seq(Range(out))
  /\ n > 0 => Len(out) > 0 /\ out[Len(out)].bssid = lines[n].of
  /\ \A k \in DOMAIN out : BssOK(lines, n, out[k]) /\ \E i \in 1..n : out[k].bssid = lines[i].of
  /\ \A i \in 1..n : \E k \in DOMAIN out : out[k].bssid = lines[i].of
  /\ \A k, l \in DOMAIN out : out[k].bssid = out[l].bssid => k = l

LEMMA OtherBss ==
  ASSUME NEW lines, NEW n \in Nat, NEW r, BssOK(lines, n, r), lines[n + 1].of # r.bssid
  PROVE  BssOK(lines, n + 1, r)
<1>1. \A i \in 1..(n + 1) : lines[i].of = r.bssid <=> i \in 1..n /\ lines[i].of = r.bssid
  OBVIOUS
<1>2. 1..n \subseteq 1..(n + 1)
  OBVIOUS
<1>3. \A p : Says(lines, n + 1, r.bssid, p) <=> Says(lines, n, r.bssid, p)
  BY <1>1, <1>2 DEF Says
<1>4. SaysSae(lines, n + 1, r.bssid) <=> SaysSae(lines, n, r.bssid)
  BY <1>1, <1>2 DEF SaysSae
<1>5. \A i \in 1..(n + 1) : lines[i].of = r.bssid /\ lines[i].prefix = "signal" => r.fields["signal"] = lines[i].value
  BY <1>1 DEF BssOK
<1> QED BY <1>3, <1>4, <1>5 DEF BssOK

LEMMA StandardPushed ==
  ASSUME NEW bss, DOMAIN bss = BssNames, bss.standards \in Seq(Standards), NEW name \in Standards
  PROVE  LET r == push_standard(bss, name)
         IN  /\ DOMAIN r = BssNames /\ r.standards \in Seq(Standards)
             /\ Range(r.standards) = Range(bss.standards) \union {name}
             /\ \A f \in BssNames \ {"standards"} : r[f] = bss[f]
<1> DEFINE s == bss.standards
           t == IF \E i \in DOMAIN s : s[i] = name THEN s ELSE Append(s, name)
<1>1. push_standard(bss, name) = [bss EXCEPT !.standards = t]
  BY DEF push_standard
<1>2. t \in Seq(Standards) /\ Range(t) = Range(s) \union {name}
  <2>1. CASE \E i \in DOMAIN s : s[i] = name
    BY <2>1 DEF Range
  <2>2. CASE ~ \E i \in DOMAIN s : s[i] = name
    <3>1. t = Append(s, name) /\ t \in Seq(Standards)
      BY <2>2
    <3>2. DOMAIN t = 1..(Len(s) + 1) /\ DOMAIN s = 1..Len(s) /\ Len(s) \in Nat
      BY <3>1
    <3>3. \A i \in DOMAIN t : t[i] = IF i = Len(s) + 1 THEN name ELSE s[i]
      BY <3>1
    <3>4. \A i \in DOMAIN t : i \in DOMAIN s \/ i = Len(s) + 1
      BY <3>2
    <3>5. DOMAIN s \subseteq DOMAIN t /\ Len(s) + 1 \in DOMAIN t /\ Len(s) + 1 \notin DOMAIN s
      BY <3>2
    <3> HIDE DEF t, s
    <3>6. Range(t) = {t[i] : i \in DOMAIN t} /\ Range(s) = {s[i] : i \in DOMAIN s}
      BY DEF Range
    <3>7. \A x \in Range(t) : x \in Range(s) \union {name}
      BY <3>3, <3>4, <3>6
    <3>8. \A x \in Range(s) \union {name} : x \in Range(t)
      BY <3>3, <3>5, <3>6
    <3> QED BY <3>1, <3>7, <3>8
  <2> QED BY <2>1, <2>2
<1> HIDE DEF t
<1> QED BY <1>1, <1>2 DEF BssNames

LEMMA ElementRead ==
  ASSUME NEW lines, NEW n \in Nat, n + 1 \in DOMAIN lines, IsSweep(lines),
         NEW r, BssOK(lines, n, r), lines[n + 1].of = r.bssid, lines[n + 1].prefix # "BSS"
  PROVE  /\ BssOK(lines, n + 1, ParseElement(r, lines[n + 1]))
         /\ ParseElement(r, lines[n + 1]).bssid = r.bssid
<1> DEFINE line == lines[n + 1]
           q == ParseElement(r, line)
           p == line.prefix
           b == r.bssid
<1>1. 1..(n + 1) = 1..n \union {n + 1} /\ n + 1 \notin 1..n
  OBVIOUS
<1>2. \A x : Says(lines, n + 1, b, x) <=> Says(lines, n, b, x) \/ x = p
  BY <1>1 DEF Says
<1>3. SaysSae(lines, n + 1, b) <=> SaysSae(lines, n, b) \/ (p = "suites" /\ "SAE" \in line.value)
  BY <1>1 DEF SaysSae
<1>4. p = "RSN" => ~SaysSae(lines, n, b)
  <2>1. \A i \in 1..n : lines[i].of = lines[n + 1].of =>
          ~(lines[i].prefix = "suites" /\ "SAE" \in lines[i].value /\ lines[n + 1].prefix = "RSN")
    <3>1. (n + 1) - 1 = n
      OBVIOUS
    <3> QED BY <3>1 DEF IsSweep
  <2> QED BY <2>1 DEF SaysSae
<1>5. p = "signal" => \A i \in 1..n : lines[i].of = b => lines[i].prefix # "signal"
  <2>1. (n + 1) - 1 = n
    OBVIOUS
  <2> QED BY <2>1 DEF IsSweep
<1>6. /\ DOMAIN r = BssNames /\ DOMAIN r.fields = BssFields /\ r.standards \in Seq(Standards)
      /\ r.security = IF SaysSae(lines, n, b) THEN "wpa3"
                      ELSE IF Says(lines, n, b, "RSN") THEN "wpa2"
                      ELSE IF Says(lines, n, b, "WPA") THEN "wpa" ELSE None
      /\ Range(r.standards) = {s \in Standards : Says(lines, n, b, s)}
      /\ \A i \in 1..n : lines[i].of = b /\ lines[i].prefix = "signal" => r.fields["signal"] = lines[i].value
  BY DEF BssOK
<1> DEFINE Alike(fs) == DOMAIN q = BssNames /\ \A f \in BssNames \ fs : q[f] = r[f]
           Shape == q.bssid = b /\ DOMAIN q = BssNames /\ DOMAIN q.fields = BssFields /\ q.standards \in Seq(Standards)
           Secured == q.security = IF SaysSae(lines, n + 1, b) THEN "wpa3"
                      ELSE IF Says(lines, n + 1, b, "RSN") THEN "wpa2"
                      ELSE IF Says(lines, n + 1, b, "WPA") THEN "wpa" ELSE None
           Standard == Range(q.standards) = {s \in Standards : Says(lines, n + 1, b, s)}
           Signal == p # "signal" => q.fields["signal"] = r.fields["signal"]
           Signal1 == p = "signal" => q.fields["signal"] = line.value
<1>7. Shape /\ Secured /\ Standard /\ Signal /\ Signal1
  <2> USE DEF BssNames, Standards, BssFields
  <2>1. CASE p \in {"last seen", "SSID", "Country", "WPS"}
    <3>1. Alike({"last_seen", "ssid", "country", "wps"})
      BY <1>6, <2>1 DEF ParseElement
    <3>2. \A s \in Standards : Says(lines, n + 1, b, s) <=> Says(lines, n, b, s)
      BY <1>2, <2>1
    <3> HIDE DEF q
    <3> QED BY <1>2, <1>3, <1>6, <2>1, <3>1, <3>2
  <2>2. CASE p = "RSN"
    <3>1. Alike({"security"}) /\ q.security = "wpa2"
      BY <1>6, <2>2 DEF ParseElement
    <3>2. \A s \in Standards : Says(lines, n + 1, b, s) <=> Says(lines, n, b, s)
      BY <1>2, <2>2
    <3> HIDE DEF q
    <3> QED BY <1>2, <1>3, <1>4, <1>6, <2>2, <3>1, <3>2
  <2>3. CASE p = "WPA"
    <3>1. Alike({"security"}) /\ q.security = Or(r.security, "wpa")
      BY <1>6, <2>3 DEF ParseElement
    <3>2. \A s \in Standards : Says(lines, n + 1, b, s) <=> Says(lines, n, b, s)
      BY <1>2, <2>3
    <3> HIDE DEF q
    <3> QED BY <1>2, <1>3, <1>6, <2>3, <3>1, <3>2, TextAssumption DEF Or
  <2>4. CASE p = "suites"
    <3>1. Alike({"suites", "security"}) /\ q.security = IF "SAE" \in line.value THEN "wpa3" ELSE r.security
      BY <1>6, <2>4 DEF ParseElement
    <3>2. \A s \in Standards : Says(lines, n + 1, b, s) <=> Says(lines, n, b, s)
      BY <1>2, <2>4
    <3> HIDE DEF q
    <3> QED BY <1>2, <1>3, <1>6, <2>4, <3>1, <3>2
  <2>5. CASE p \in BssFields
    <3>1. q = [r EXCEPT !.fields[p] = line.value]
      BY <2>5 DEF ParseElement
    <3>2. Alike({"fields"}) /\ q.fields = [r.fields EXCEPT ![p] = line.value]
      BY <1>6, <3>1
    <3>3. \A s \in Standards : Says(lines, n + 1, b, s) <=> Says(lines, n, b, s)
      BY <1>2, <2>5
    <3> HIDE DEF q
    <3> QED BY <1>2, <1>3, <1>6, <2>5, <3>2, <3>3
  <2>6. CASE p \in Standards
    <3>1. q = push_standard(r, p)
      BY <2>6 DEF ParseElement
    <3>2. Alike({"standards"}) /\ q.standards \in Seq(Standards) /\ Range(q.standards) = Range(r.standards) \union {p}
      <4>1. DOMAIN r = BssNames /\ r.standards \in Seq(Standards) /\ p \in Standards
        BY <1>6, <2>6
      <4> HIDE DEF p, BssNames, Standards
      <4>2. LET x == push_standard(r, p)
            IN  /\ DOMAIN x = BssNames /\ x.standards \in Seq(Standards)
                /\ Range(x.standards) = Range(r.standards) \union {p}
                /\ \A f \in BssNames \ {"standards"} : x[f] = r[f]
        BY <4>1, StandardPushed
      <4> HIDE DEF q
      <4> QED BY <3>1, <4>2
    <3> HIDE DEF q
    <3>3. Range(q.standards) = {s \in Standards : Says(lines, n + 1, b, s)}
      BY <1>2, <1>6, <2>6, <3>2
    <3> QED BY <1>2, <1>3, <1>6, <2>6, <3>2, <3>3
  <2>7. CASE p \notin {"last seen", "SSID", "Country", "WPS", "RSN", "WPA", "suites"} \union BssFields \union Standards
    <3>1. q = r
      BY <2>7 DEF ParseElement
    <3>2. \A s \in Standards : Says(lines, n + 1, b, s) <=> Says(lines, n, b, s)
      BY <1>2, <2>7
    <3> QED BY <1>2, <1>3, <1>6, <2>7, <3>1, <3>2
  <2> QED BY <2>1, <2>2, <2>3, <2>4, <2>5, <2>6, <2>7
<1>8. \A i \in 1..(n + 1) : lines[i].of = b /\ lines[i].prefix = "signal" => q.fields["signal"] = lines[i].value
  <2> HIDE DEF q
  <2>1. \A i \in 1..n : lines[i].of = b /\ lines[i].prefix = "signal" => p # "signal"
    BY <1>5
  <2> QED BY <1>1, <1>6, <1>7, <2>1
<1>9. BssOK(lines, n + 1, q) /\ q.bssid = b
  <2> HIDE DEF q
  <2> QED BY <1>7, <1>8 DEF BssOK
<1> QED BY <1>9

LEMMA ScanLineRead ==
  ASSUME NEW lines, NEW n \in Nat, n + 1 \in DOMAIN lines, IsSweep(lines), NEW out, SweepOK(lines, n, out)
  PROVE  SweepOK(lines, n + 1, ScanLine(out, lines[n + 1]))
<1> DEFINE line == lines[n + 1]
           last == Len(out)
<1>1. /\ last \in Nat /\ DOMAIN out = 1..last /\ out \in Seq(Range(out))
      /\ n > 0 => last > 0 /\ out[last].bssid = lines[n].of
      /\ \A k \in 1..last : BssOK(lines, n, out[k]) /\ \E i \in 1..n : out[k].bssid = lines[i].of
      /\ \A i \in 1..n : \E k \in 1..last : out[k].bssid = lines[i].of
      /\ \A k, l \in 1..last : out[k].bssid = out[l].bssid => k = l
  <2>1. out \in Seq(Range(out))
    BY DEF SweepOK
  <2>2. last \in Nat /\ DOMAIN out = 1..last
    BY <2>1
  <2> HIDE DEF last
  <2> QED BY <2>1, <2>2 DEF SweepOK, last
<1>2. 1..(n + 1) = 1..n \union {n + 1} /\ (n + 1) - 1 = n
  OBVIOUS
<1>3. CASE line.prefix = "BSS" /\ line.value # None
  <2> DEFINE q == Append(out, NewBss(line))
             new == NewBss(line)
  <2>1. ScanLine(out, line) = q
    BY <1>3 DEF ScanLine
  <2>2. line.of = line.value /\ \A j \in 1..n : lines[j].of # line.of
    BY <1>2, <1>3 DEF IsSweep
  <2>4. /\ Len(q) = last + 1 /\ DOMAIN q = 1..(last + 1) /\ q[last + 1] = new
        /\ \A k \in 1..last : q[k] = out[k]
    BY <1>1
  <2>5. new.bssid = line.of
    BY <2>2 DEF NewBss
  <2>6. BssOK(lines, n + 1, new)
    <3>1. \A i \in 1..(n + 1) : lines[i].of = line.of => i = n + 1
      BY <1>2, <2>2
    <3>2. \A p : Says(lines, n + 1, line.of, p) => p = "BSS"
      BY <1>3, <3>1 DEF Says
    <3>3. ~SaysSae(lines, n + 1, line.of)
      BY <1>3, <3>1 DEF SaysSae
    <3>4. /\ DOMAIN new = BssNames /\ DOMAIN new.fields = BssFields
          /\ new.standards = <<>> /\ new.security = None
      BY DEF NewBss, BssNames
    <3>5. new.standards \in Seq(Standards) /\ Range(new.standards) = {}
      BY <3>4 DEF Range
    <3>6. {s \in Standards : Says(lines, n + 1, line.of, s)} = {}
      BY <3>2 DEF Standards
    <3> HIDE DEF new
    <3> QED BY <1>3, <2>5, <3>1, <3>2, <3>3, <3>4, <3>5, <3>6 DEF BssOK
  <2>7. \A k \in 1..last : BssOK(lines, n + 1, q[k]) /\ q[k].bssid # line.of
    <3> SUFFICES ASSUME NEW k \in 1..last PROVE BssOK(lines, n + 1, q[k]) /\ q[k].bssid # line.of
      OBVIOUS
    <3>1. q[k] = out[k] /\ out[k].bssid # line.of /\ BssOK(lines, n, out[k])
      BY <1>1, <2>2, <2>4
    <3> HIDE DEF q
    <3> QED BY <3>1, OtherBss
  <2>3. q \in Seq(Range(q))
    <3>1. q = [k \in 1..(last + 1) |-> q[k]] /\ \A k \in 1..(last + 1) : q[k] \in Range(q)
      <4>1. q \in Seq(Range(out) \union {new})
        BY <1>1
      <4> HIDE DEF q
      <4> QED BY <2>4, <4>1 DEF Range
    <3> HIDE DEF q
    <3> QED BY <1>1, <3>1
  <2> HIDE DEF q, new
  <2>8. \A k \in 1..(last + 1) : k \in 1..last \/ k = last + 1
    BY <1>1
  <2>9. last + 1 \in 1..(last + 1) /\ 1..last \subseteq 1..(last + 1) /\ last + 1 \in Nat /\ last + 1 > 0
    BY <1>1
  <2>10. \A k \in 1..(last + 1) : BssOK(lines, n + 1, q[k]) /\ \E i \in 1..(n + 1) : q[k].bssid = lines[i].of
    <3>1. \A k \in 1..last : \E i \in 1..n : q[k].bssid = lines[i].of
      BY <1>1, <2>4
    <3>2. q[last + 1].bssid = lines[n + 1].of /\ n + 1 \in 1..(n + 1)
      BY <2>4, <2>5
    <3> HIDE DEF last
    <3> QED BY <1>2, <2>4, <2>6, <2>7, <2>8, <3>1, <3>2
  <2>11. \A i \in 1..(n + 1) : \E k \in 1..(last + 1) : q[k].bssid = lines[i].of
    <3>1. \A i \in 1..n : \E k \in 1..last : q[k].bssid = lines[i].of
      <4>1. \A i \in 1..n : \E k \in 1..last : out[k].bssid = lines[i].of
        BY <1>1
      <4>2. \A k \in 1..last : q[k] = out[k]
        BY <2>4
      <4> HIDE DEF last
      <4> QED BY <4>1, <4>2
    <3>2. q[last + 1].bssid = lines[n + 1].of
      BY <2>4, <2>5
    <3> HIDE DEF last
    <3> QED BY <1>2, <2>9, <3>1, <3>2
  <2>12. \A k, l \in 1..(last + 1) : q[k].bssid = q[l].bssid => k = l
    BY <1>1, <2>4, <2>5, <2>7, <2>8
  <2>13. SweepOK(lines, n + 1, q)
    BY <2>3, <2>4, <2>5, <2>9, <2>10, <2>11, <2>12 DEF SweepOK
  <2> QED BY <2>1, <2>13
<1>4. CASE ~(line.prefix = "BSS" /\ line.value # None)
  <2>1. n > 0 /\ line.of = lines[n].of
    BY <1>2, <1>4 DEF IsSweep
  <2>2. last > 0 /\ last \in 1..last /\ out[last].bssid = line.of /\ out # <<>>
    BY <1>1, <2>1
  <2>3. \A k \in 1..last : k # last => BssOK(lines, n + 1, out[k])
    BY <1>1, <2>2, OtherBss
  <2> DEFINE q == ScanLine(out, line)
             r == out[last]
  <2>4. /\ DOMAIN q = 1..last /\ Len(q) = last /\ q[last].bssid = line.of
        /\ BssOK(lines, n + 1, q[last])
        /\ \A k \in 1..last : k # last => q[k] = out[k]
        /\ q \in Seq(Range(q))
    <3>1. CASE line.prefix = "BSS"
      <4>1. q = out
        BY <1>4, <3>1 DEF ScanLine
      <4>2. BssOK(lines, n, r) /\ r.bssid = line.of
        BY <1>1, <2>2
      <4>3. \A p : p # "BSS" => (Says(lines, n + 1, r.bssid, p) <=> Says(lines, n, r.bssid, p))
        BY <1>2, <3>1 DEF Says
      <4>4. SaysSae(lines, n + 1, r.bssid) <=> SaysSae(lines, n, r.bssid)
        BY <1>2, <3>1 DEF SaysSae
      <4>5. {s \in Standards : Says(lines, n + 1, r.bssid, s)} = {s \in Standards : Says(lines, n, r.bssid, s)}
        BY <4>3 DEF Standards
      <4>6. \A i \in 1..(n + 1) : lines[i].prefix = "signal" => i \in 1..n
        BY <1>2, <3>1
      <4> HIDE DEF r
      <4>7. BssOK(lines, n + 1, r)
        BY <4>2, <4>3, <4>4, <4>5, <4>6 DEF BssOK
      <4> QED BY <1>1, <2>2, <4>1, <4>2, <4>7 DEF r
    <3>2. CASE line.prefix # "BSS"
      <4>1. q = [out EXCEPT ![last] = ParseElement(r, line)]
        BY <2>2, <3>2 DEF ScanLine
      <4>2. BssOK(lines, n + 1, ParseElement(r, line)) /\ ParseElement(r, line).bssid = line.of
        BY <1>1, <2>2, <3>2, ElementRead
      <4>3. DOMAIN q = 1..last /\ q[last] = ParseElement(r, line) /\ \A k \in 1..last : k # last => q[k] = out[k]
        BY <1>1, <2>2, <4>1
      <4>4. Len(q) = last /\ q \in Seq(Range(q))
        <5> HIDE DEF q
        <5>1. q = [k \in 1..last |-> q[k]]
          BY <1>1, <4>1
        <5>2. \A k \in 1..last : q[k] \in Range(q)
          BY <4>3 DEF Range
        <5> QED BY <1>1, <5>1, <5>2
      <4> QED BY <4>2, <4>3, <4>4
    <3> QED BY <3>1, <3>2
  <2> HIDE DEF q
  <2>5. \A k \in 1..last : q[k].bssid = out[k].bssid
    BY <2>2, <2>4
  <2>6. \A k \in 1..last : BssOK(lines, n + 1, q[k]) /\ \E i \in 1..(n + 1) : q[k].bssid = lines[i].of
    <3>1. \A k \in 1..last : \E i \in 1..n : q[k].bssid = lines[i].of
      BY <1>1, <2>5
    <3> HIDE DEF last
    <3> QED BY <1>2, <2>3, <2>4, <3>1
  <2>7. \A i \in 1..(n + 1) : \E k \in 1..last : q[k].bssid = lines[i].of
    <3>1. \A i \in 1..n : \E k \in 1..last : q[k].bssid = lines[i].of
      BY <1>1, <2>5
    <3>2. q[last].bssid = lines[n + 1].of
      BY <2>4
    <3> HIDE DEF last
    <3> QED BY <1>2, <2>2, <3>1, <3>2
  <2>8. \A k, l \in 1..last : q[k].bssid = q[l].bssid => k = l
    BY <1>1, <2>5
  <2>9. SweepOK(lines, n + 1, q)
    BY <1>1, <2>2, <2>4, <2>6, <2>7, <2>8 DEF SweepOK
  <2> QED BY <2>9 DEF q
<1> QED BY <1>3, <1>4

LEMMA SweepRead ==
  ASSUME NEW lines, IsSweep(lines)
  PROVE  \E out : /\ SweepOK(lines, Len(lines), out)
                  /\ parse_scan(lines) = [i \in DOMAIN out |-> [out[i] EXCEPT !.security = Or(@, "open")]]
<1>1. Len(lines) \in Nat /\ DOMAIN lines = 1..Len(lines)
  BY DEF IsSweep
<1> DEFINE N == Len(lines)
<1>2. PICK g : /\ SweepTrace(lines, N, g)
               /\ parse_scan(lines) = [i \in DOMAIN g[N] |-> [g[N][i] EXCEPT !.security = Or(@, "open")]]
  BY <1>1, ScanTraced
<1> DEFINE T == {n \in 0..N : ~SweepOK(lines, n, g[n])}
<1>3. T = {}
  <2> SUFFICES ASSUME T # {} PROVE FALSE
    OBVIOUS
  <2>1. PICK m \in T : \A n \in T : m <= n
    <3>1. T \in SUBSET Nat
      BY <1>1
    <3> HIDE DEF T
    <3> QED BY <3>1, LeastNatural
  <2>2. m # 0
    <3>1. g[0] = <<>>
      BY <1>1, <1>2 DEF SweepTrace
    <3>2. SweepOK(lines, 0, <<>>)
      BY DEF SweepOK
    <3> QED BY <2>1, <3>1, <3>2
  <2>3. m - 1 \in 0..N /\ m \in 0..N /\ (m - 1) + 1 = m /\ m \in DOMAIN lines /\ m - 1 \in Nat
    BY <1>1, <2>1, <2>2
  <2>4. SweepOK(lines, m - 1, g[m - 1])
    BY <2>1, <2>3
  <2>5. g[m] = ScanLine(g[m - 1], lines[m])
    BY <1>2, <2>2, <2>3 DEF SweepTrace
  <2>6. SweepOK(lines, m, g[m])
    BY <2>3, <2>4, <2>5, ScanLineRead
  <2> QED BY <2>1, <2>6
<1>4. SweepOK(lines, N, g[N])
  BY <1>1, <1>3
<1> QED BY <1>2, <1>4

LEMMA SweepIsTrue ==
  ASSUME IsSweep(site.sweep), records["wifi"] = parse_scan(site.sweep)
  PROVE  WifiTrue
<1> DEFINE lines == site.sweep
           N == Len(lines)
           rs == records["wifi"]
<1>1. N \in Nat /\ DOMAIN lines = 1..N
  BY DEF IsSweep
<1>2. PICK out : SweepOK(lines, N, out) /\ rs = [i \in DOMAIN out |-> [out[i] EXCEPT !.security = Or(@, "open")]]
  <2>1. IsSweep(lines) /\ rs = parse_scan(lines)
    OBVIOUS
  <2>2. \E out : /\ SweepOK(lines, N, out)
                 /\ parse_scan(lines) = [i \in DOMAIN out |-> [out[i] EXCEPT !.security = Or(@, "open")]]
    <3> HIDE DEF lines
    <3> QED BY <2>1, SweepRead
  <2> HIDE DEF rs, lines, N
  <2> QED BY <2>1, <2>2
<1>3. DOMAIN rs = DOMAIN out
  BY <1>2
<1>4. ASSUME NEW i \in DOMAIN out
      PROVE  /\ BssOK(lines, N, out[i])
             /\ rs[i].bssid = out[i].bssid /\ rs[i].security = Or(out[i].security, "open")
             /\ rs[i].standards = out[i].standards /\ rs[i].fields = out[i].fields
  <2>1. BssOK(lines, N, out[i]) /\ DOMAIN out[i] = BssNames
    BY <1>2 DEF SweepOK, BssOK
  <2>2. rs[i] = [out[i] EXCEPT !.security = Or(@, "open")]
    BY <1>2
  <2> QED BY <2>1, <2>2 DEF BssNames
<1>5. {rs[i].bssid : i \in DOMAIN rs} = {lines[i].of : i \in DOMAIN lines}
  <2>1. \A k \in DOMAIN out : rs[k].bssid = out[k].bssid /\ \E i \in 1..N : out[k].bssid = lines[i].of
    BY <1>2, <1>4 DEF SweepOK
  <2>2. \A i \in 1..N : \E k \in DOMAIN out : out[k].bssid = lines[i].of
    BY <1>2 DEF SweepOK
  <2> HIDE DEF rs, lines, N
  <2>3. \A x : x \in {rs[i].bssid : i \in DOMAIN out} <=> x \in {lines[i].of : i \in 1..N}
    BY <2>1, <2>2
  <2> QED BY <1>1, <1>3, <2>3
<1>6. ASSUME NEW i \in DOMAIN rs
      PROVE  LET r == rs[i]
                 About(prefix) == {lines[k] : k \in {j \in DOMAIN lines : lines[j].of = r.bssid /\ lines[j].prefix = prefix}}
             IN  /\ r.security = IF \E l \in About("suites") : "SAE" \in l.value THEN "wpa3"
                                 ELSE IF About("RSN") # {} THEN "wpa2"
                                 ELSE IF About("WPA") # {} THEN "wpa" ELSE "open"
                 /\ ToSet(r.standards) = {s \in Standards : About(s) # {}}
                 /\ \A l \in About("signal") : r.fields["signal"] = l.value
  <2> DEFINE r == rs[i]
             About(prefix) == {lines[k] : k \in {j \in DOMAIN lines : lines[j].of = r.bssid /\ lines[j].prefix = prefix}}
  <2>1. /\ BssOK(lines, N, out[i]) /\ r.bssid = out[i].bssid /\ r.security = Or(out[i].security, "open")
        /\ r.standards = out[i].standards /\ r.fields = out[i].fields
    BY <1>3, <1>4
  <2> HIDE DEF r
  <2>2. \A p : About(p) # {} <=> Says(lines, N, r.bssid, p)
    BY <1>1 DEF Says
  <2>3. (\E l \in About("suites") : "SAE" \in l.value) <=> SaysSae(lines, N, r.bssid)
    BY <1>1 DEF SaysSae
  <2>4. \A l \in About("signal") : r.fields["signal"] = l.value
    BY <1>1, <2>1 DEF BssOK
  <2>5. ToSet(r.standards) = Range(r.standards)
    BY DEF ToSet, Range
  <2> HIDE DEF About
  <2>6. ToSet(r.standards) = {s \in Standards : About(s) # {}}
    BY <2>1, <2>2, <2>5 DEF BssOK
  <2>7. r.security = IF \E l \in About("suites") : "SAE" \in l.value THEN "wpa3"
                     ELSE IF About("RSN") # {} THEN "wpa2"
                     ELSE IF About("WPA") # {} THEN "wpa" ELSE "open"
    BY <2>1, <2>2, <2>3, TextAssumption DEF BssOK, Or
  <2> QED BY <2>4, <2>6, <2>7 DEF r, About
<1> QED BY <1>5, <1>6 DEF WifiTrue
LEMMA CaptureTraced ==
  ASSUME NEW lines, NEW N \in Nat
  PROVE  \E g : MonitorTrace(lines, N, g)
<1> DEFINE T == {n \in Nat : ~ \E g : MonitorTrace(lines, n, g)}
<1> SUFFICES ASSUME T # {} PROVE FALSE
  OBVIOUS
<1>1. PICK m \in T : \A n \in T : m <= n
  <2> HIDE DEF T
  <2>1. T \in SUBSET Nat
    BY DEF T
  <2> QED BY <2>1, LeastNatural
<1>2. m # 0
  <2> DEFINE g == [i \in 0..0 |-> NewScan]
  <2>1. MonitorTrace(lines, 0, g)
    BY DEF MonitorTrace
  <2> QED BY <1>1, <2>1
<1>3. m - 1 \in Nat /\ m - 1 \notin T
  BY <1>1, <1>2
<1>4. PICK g : MonitorTrace(lines, m - 1, g)
  BY <1>3
<1> DEFINE h == [i \in 0..m |-> IF i = m THEN BtmonLine(g[m - 1], lines[m]) ELSE g[i]]
<1>5. m \in Nat /\ DOMAIN h = 0..m
  BY <1>1
<1>6. \A i \in 0..m : h[i] = IF i = 0 THEN NewScan ELSE BtmonLine(h[i - 1], lines[i])
  <2> SUFFICES ASSUME NEW i \in 0..m PROVE h[i] = IF i = 0 THEN NewScan ELSE BtmonLine(h[i - 1], lines[i])
    OBVIOUS
  <2>1. CASE i = m
    <3>1. h[m - 1] = g[m - 1]
      BY <1>2, <1>5
    <3> QED BY <1>2, <1>5, <2>1, <3>1
  <2>2. CASE i # m
    <3>1. i \in 0..(m - 1)
      BY <1>5, <2>2
    <3>2. g[i] = IF i = 0 THEN NewScan ELSE BtmonLine(g[i - 1], lines[i])
      BY <1>4, <3>1 DEF MonitorTrace
    <3>3. i # 0 => h[i - 1] = g[i - 1]
      BY <1>5, <3>1
    <3> QED BY <2>2, <3>2, <3>3
  <2> QED BY <2>1, <2>2
<1>7. MonitorTrace(lines, m, h)
  <2> HIDE DEF h
  <2>1. h = [i \in 0..m |-> h[i]]
    BY <1>5 DEF h
  <2> QED BY <1>6, <2>1 DEF MonitorTrace
<1> QED BY <1>1, <1>7

LEMMA MonitorTraced ==
  ASSUME NEW lines, Len(lines) \in Nat
  PROVE  \E g : MonitorTrace(lines, Len(lines), g) /\ parse_btmon(lines) = g[Len(lines)]
<1> DEFINE after == CHOOSE g : MonitorTrace(lines, Len(lines), g)
<1>1. MonitorTrace(lines, Len(lines), after)
  BY CaptureTraced
<1>2. parse_btmon(lines) = after[Len(lines)]
  BY DEF parse_btmon, MonitorTrace
<1> QED BY <1>1, <1>2

-----------------------------------------------------------------------------
\* What the first n lines say: the reports, those of an address, those of them
\* that name their type, and the levels.
AdsOf(lines, n) == {i \in 1..n : lines[i].prefix = "Address" /\ lines[i].of # None}
ReportsOf(lines, n, a) == {i \in AdsOf(lines, n) : lines[i].value = a}
NamedOf(lines, n, a) == {i \in ReportsOf(lines, n, a) : lines[i].of.pdu # None}
LeveledOf(lines, n, a) ==
  {i \in 1..n : lines[i].prefix = "RSSI" /\ lines[i].of # None /\ lines[i].of.address = a}
LevelsOf(lines, n, a) == {lines[i].value : i \in LeveledOf(lines, n, a)}

AdvertiserNames == {"kind", "pdu", "rssi_last", "rssi_min", "rssi_max", "reports", "name", "uuids", "fields"}

AdvertiserOK(lines, n, a, d) ==
  /\ DOMAIN d = AdvertiserNames
  /\ d.reports = Cardinality(ReportsOf(lines, n, a))
  /\ \A i \in ReportsOf(lines, n, a) : d.kind = lines[i].of.kind
  /\ d.pdu = IF NamedOf(lines, n, a) = {} THEN None ELSE lines[Min(NamedOf(lines, n, a))].of.pdu
  /\ IF LevelsOf(lines, n, a) = {} THEN d.rssi_max = None
     ELSE d.rssi_max \in LevelsOf(lines, n, a) /\ \A l \in LevelsOf(lines, n, a) : l <= d.rssi_max

ScanNames == {"found", "total", "current", "kind", "pdu", "mgmt", "in_report"}

\* Where in the text the parser is: it reads what is part of a report and
\* nothing else, and it is the report's device that it reads about.
PlaceOK(lines, n, scan) ==
  /\ DOMAIN scan = ScanNames
  /\ scan.mgmt \in BOOLEAN /\ scan.in_report \in BOOLEAN
  /\ n > 0 /\ lines[n].prefix = ">" => ~scan.mgmt
  /\ (~scan.mgmt /\ scan.in_report) <=> n > 0 /\ (lines[n].prefix = "LE Advertising Report" \/ lines[n].of # None)
  /\ n > 0 /\ lines[n].of # None =>
       /\ lines[n].prefix \in {"Event type", "Address type"} => scan.pdu = lines[n].of.pdu
       /\ lines[n].prefix = "Address type" => scan.kind = lines[n].of.kind
       /\ lines[n].prefix \notin {"Event type", "Address type"} =>
            scan.current = lines[n].of.address /\ scan.current \in DOMAIN scan.found

CountOK(lines, n, scan) ==
  /\ scan.total = Cardinality(AdsOf(lines, n))
  /\ DOMAIN scan.found = {lines[i].value : i \in AdsOf(lines, n)}
  /\ \A a \in DOMAIN scan.found : AdvertiserOK(lines, n, a, scan.found[a])

CaptureOK(lines, n, scan) == PlaceOK(lines, n, scan) /\ CountOK(lines, n, scan)

LEMMA OtherAds ==
  ASSUME NEW lines, NEW n \in Nat, NEW a, NEW d, NEW e, AdvertiserOK(lines, n, a, d), DOMAIN e = AdvertiserNames,
         e.reports = d.reports, e.kind = d.kind, e.pdu = d.pdu, e.rssi_max = d.rssi_max,
         \/ lines[n + 1].of = None
         \/ lines[n + 1].prefix \notin {"Address", "RSSI"}
         \/ lines[n + 1].prefix = "Address" /\ lines[n + 1].value # a
         \/ lines[n + 1].prefix = "RSSI" /\ lines[n + 1].of.address # a
  PROVE  AdvertiserOK(lines, n + 1, a, e)
<1>1. 1..(n + 1) = 1..n \union {n + 1}
  OBVIOUS
<1>2. ReportsOf(lines, n + 1, a) = ReportsOf(lines, n, a)
  BY <1>1 DEF ReportsOf, AdsOf
<1>3. NamedOf(lines, n + 1, a) = NamedOf(lines, n, a)
  BY <1>2 DEF NamedOf
<1>4. LeveledOf(lines, n + 1, a) = LeveledOf(lines, n, a)
  BY <1>1 DEF LeveledOf
<1>5. LevelsOf(lines, n + 1, a) = LevelsOf(lines, n, a)
  BY <1>4 DEF LevelsOf
<1> QED BY <1>2, <1>3, <1>5 DEF AdvertiserOK

LEMMA OneMore ==
  ASSUME NEW n \in Nat, NEW S \in SUBSET (1..n)
  PROVE  /\ IsFiniteSet(S) /\ Cardinality(S) \in Nat
         /\ Cardinality(S \union {n + 1}) = Cardinality(S) + 1
<1>1. IsFiniteSet(1..n)
  BY FS_Interval
<1>2. IsFiniteSet(S)
  BY <1>1, FS_Subset
<1>3. n + 1 \notin S
  OBVIOUS
<1> QED BY <1>2, <1>3, FS_AddElement, FS_CardinalityType

LEMMA LeastKept ==
  ASSUME NEW n \in Nat, NEW S \in SUBSET (1..n)
  PROVE  /\ S # {} => Min(S \union {n + 1}) = Min(S)
         /\ S = {} => Min(S \union {n + 1}) = n + 1
<1> DEFINE T == S \union {n + 1}
<1>1. T \in SUBSET Nat /\ T # {} /\ S \in SUBSET Nat
  OBVIOUS
<1>2. Min(T) \in T /\ \A k \in T : Min(T) <= k
  BY <1>1, LeastMember
<1>3. S # {} => Min(S) \in S /\ \A k \in S : Min(S) <= k
  BY <1>1, LeastMember
<1>4. \A k \in S : k \in Nat /\ k < n + 1
  OBVIOUS
<1> DEFINE mt == Min(T)
           ms == Min(S)
<1>5. CASE S # {}
  <2>1. ms \in S /\ mt \in T /\ mt <= ms /\ (mt \in S => ms <= mt)
    BY <1>2, <1>3, <1>5
  <2> HIDE DEF mt, ms
  <2>2. ms \in Nat /\ mt \in Nat /\ ms < n + 1
    BY <1>4, <2>1
  <2>3. mt # n + 1
    BY <2>1, <2>2
  <2>4. mt \in S
    BY <2>1, <2>3
  <2>5. mt = ms
    BY <2>1, <2>2, <2>4
  <2> QED BY <1>5, <2>5 DEF mt, ms
<1>6. CASE S = {}
  BY <1>2, <1>6
<1> QED BY <1>5, <1>6

LEMMA GreaterLevel ==
  ASSUME NEW x \in Int, NEW y \in Int
  PROVE  Max({x, y}) \in {x, y} /\ x <= Max({x, y}) /\ y <= Max({x, y})
<1>1. \E m \in {x, y} : \A k \in {x, y} : m >= k
  OBVIOUS
<1>2. Max({x, y}) \in {x, y} /\ \A k \in {x, y} : Max({x, y}) >= k
  BY <1>1 DEF Max
<1> QED BY <1>2

LEMMA GreatestLevel ==
  ASSUME NEW S \in SUBSET Int, NEW m \in S, \A l \in S : l <= m
  PROVE  Max(S) = m
<1>1. \A k \in S : m >= k
  OBVIOUS
<1>2. Max(S) \in S /\ \A k \in S : Max(S) >= k
  BY <1>1 DEF Max
<1> DEFINE x == Max(S)
<1>3. x \in S /\ x >= m /\ m >= x
  BY <1>1, <1>2
<1> HIDE DEF x
<1>4. x \in Int /\ m \in Int
  BY <1>3
<1> QED BY <1>3, <1>4 DEF x

LEMMA CaptureLines ==
  ASSUME NEW lines, IsCapture(lines)
  PROVE  Len(lines) \in Nat /\ DOMAIN lines = 1..Len(lines) /\ lines \in Seq(Range(lines))
<1>1. lines \in Seq(Range(lines))
  BY DEF IsCapture
<1> QED BY <1>1

(***************************************************************************)
(* What a rendering says of a line that is part of a report.               *)
(***************************************************************************)
LEMMA PartRead ==
  ASSUME NEW lines, IsCapture(lines), NEW n \in Nat, n + 1 \in DOMAIN lines, lines[n + 1].of # None
  PROVE  LET line == lines[n + 1]
         IN  /\ line.prefix \notin BlockHeads /\ line.prefix # "LE Advertising Report"
             /\ n > 0 /\ (lines[n].prefix = "LE Advertising Report" \/ lines[n].of # None)
             /\ line.of.address # None /\ line.of.kind \in {"public", "random"}
             /\ line.prefix = "Event type" => line.value = line.of.pdu
             /\ line.prefix = "Address type" =>
                  line.value = line.of.kind /\ lines[n].of = line.of /\ lines[n].prefix = "Event type"
             /\ line.prefix = "Address" =>
                  line.value = line.of.address /\ lines[n].of = line.of /\ lines[n].prefix = "Address type"
             /\ line.prefix \notin {"Event type", "Address type", "Address"} =>
                  lines[n].of = line.of /\ lines[n].prefix \notin {"Event type", "Address type"}
             /\ line.prefix = "RSSI" => line.value \in -127..20
<1>1. (n + 1) - 1 = n /\ (n + 1 > 1 => n > 0)
  OBVIOUS
<1> DEFINE line == lines[n + 1]
<1>2. /\ line.prefix \notin BlockHeads /\ line.prefix # "LE Advertising Report"
      /\ n > 0 /\ (lines[n].prefix = "LE Advertising Report" \/ lines[n].of # None)
      /\ line.of.address # None /\ line.of.kind \in {"public", "random"}
  BY <1>1 DEF IsCapture
<1>3. CASE line.prefix = "Event type"
  BY <1>1, <1>2, <1>3 DEF IsCapture
<1>4. CASE line.prefix = "Address type"
  BY <1>1, <1>2, <1>4 DEF IsCapture
<1>5. CASE line.prefix = "Address"
  BY <1>1, <1>2, <1>5 DEF IsCapture
<1>6. CASE line.prefix \notin {"Event type", "Address type", "Address"}
  BY <1>1, <1>2, <1>6 DEF IsCapture
<1> QED BY <1>3, <1>4, <1>5, <1>6

LEMMA LevelsBounded ==
  ASSUME NEW lines, IsCapture(lines), NEW n \in 0..Len(lines), NEW a
  PROVE  LevelsOf(lines, n, a) \subseteq -127..20
<1>1. DOMAIN lines = 1..Len(lines) /\ Len(lines) \in Nat
  BY CaptureLines
<1> SUFFICES ASSUME NEW i \in LeveledOf(lines, n, a) PROVE lines[i].value \in -127..20
  BY DEF LevelsOf
<1>2. i \in 1..n /\ lines[i].of # None /\ lines[i].prefix = "RSSI"
  BY DEF LeveledOf
<1>3. PICK k \in Nat : i = k + 1 /\ k + 1 \in DOMAIN lines
  <2>1. i - 1 \in Nat /\ i = (i - 1) + 1 /\ i \in DOMAIN lines
    BY <1>1, <1>2
  <2> QED BY <2>1
<1> QED BY <1>2, <1>3, PartRead

(***************************************************************************)
(* An address: its report counts, and the first type that was named stays. *)
(***************************************************************************)
LEMMA ReportRead ==
  ASSUME NEW lines, IsCapture(lines), NEW n \in Nat, n + 1 \in DOMAIN lines,
         lines[n + 1].of # None, lines[n + 1].prefix = "Address",
         NEW old, NEW e, NEW pdu, NEW kind,
         \/ AdvertiserOK(lines, n, lines[n + 1].value, old)
         \/ old = NewAdvertiser /\ ReportsOf(lines, n, lines[n + 1].value) = {}
              /\ LeveledOf(lines, n, lines[n + 1].value) = {},
         pdu = lines[n + 1].of.pdu, kind = lines[n + 1].of.kind,
         e = [old EXCEPT !.reports = @ + 1, !.pdu = Or(@, pdu), !.kind = Or(kind, @)]
  PROVE  AdvertiserOK(lines, n + 1, lines[n + 1].value, e)
<1> DEFINE a == lines[n + 1].value
           R == ReportsOf(lines, n, a)
           M == NamedOf(lines, n, a)
<1>1. AdvertiserOK(lines, n, a, old) \/ (old = NewAdvertiser /\ R = {} /\ M = {} /\ LevelsOf(lines, n, a) = {})
  BY DEF NamedOf, LevelsOf
<1>2. /\ DOMAIN old = AdvertiserNames
      /\ old.reports = Cardinality(R)
      /\ old.pdu = IF M = {} THEN None ELSE lines[Min(M)].of.pdu
      /\ IF LevelsOf(lines, n, a) = {} THEN old.rssi_max = None
         ELSE old.rssi_max \in LevelsOf(lines, n, a) /\ \A l \in LevelsOf(lines, n, a) : l <= old.rssi_max
  <2>1. CASE AdvertiserOK(lines, n, a, old)
    BY <2>1 DEF AdvertiserOK
  <2>2. CASE old = NewAdvertiser /\ R = {} /\ M = {} /\ LevelsOf(lines, n, a) = {}
    BY <2>2, FS_EmptySet DEF NewAdvertiser, AdvertiserNames
  <2> QED BY <1>1, <2>1, <2>2
<1>3. /\ DOMAIN e = AdvertiserNames /\ e.reports = old.reports + 1 /\ e.pdu = Or(old.pdu, pdu)
      /\ e.kind = Or(kind, old.kind) /\ e.rssi_max = old.rssi_max
  BY <1>2 DEF AdvertiserNames
<1>4. 1..(n + 1) = 1..n \union {n + 1}
  OBVIOUS
<1>5. ReportsOf(lines, n + 1, a) = R \union {n + 1}
  BY <1>4 DEF ReportsOf, AdsOf
<1>6. NamedOf(lines, n + 1, a) = IF pdu = None THEN M ELSE M \union {n + 1}
  BY <1>5 DEF NamedOf
<1>7. LevelsOf(lines, n + 1, a) = LevelsOf(lines, n, a)
  <2>1. LeveledOf(lines, n + 1, a) = LeveledOf(lines, n, a)
    BY <1>4 DEF LeveledOf
  <2> QED BY <2>1 DEF LevelsOf
<1>8. R \in SUBSET (1..n) /\ M \in SUBSET (1..n)
  BY DEF ReportsOf, NamedOf, AdsOf
<1> HIDE DEF R, M
<1>9. e.reports = Cardinality(ReportsOf(lines, n + 1, a))
  BY <1>2, <1>3, <1>5, <1>8, OneMore
<1>10. e.pdu = IF NamedOf(lines, n + 1, a) = {} THEN None ELSE lines[Min(NamedOf(lines, n + 1, a))].of.pdu
  <2>1. CASE M = {}
    BY <1>2, <1>3, <1>6, <1>8, <2>1, LeastKept DEF Or
  <2>2. CASE M # {}
    <3>1. lines[Min(M)].of.pdu # None
      <4>1. M \in SUBSET Nat
        BY <1>8
      <4>2. Min(M) \in M
        BY <2>2, <4>1, LeastMember
      <4> QED BY <4>2 DEF M, NamedOf
    <3>2. e.pdu = old.pdu /\ old.pdu = lines[Min(M)].of.pdu
      BY <1>2, <1>3, <2>2, <3>1 DEF Or
    <3>3. NamedOf(lines, n + 1, a) # {} /\ Min(NamedOf(lines, n + 1, a)) = Min(M)
      BY <1>6, <1>8, <2>2, LeastKept
    <3> QED BY <3>2, <3>3
  <2> QED BY <2>1, <2>2
<1>11. \A i \in ReportsOf(lines, n + 1, a) : e.kind = lines[i].of.kind
  <2>1. kind \in {"public", "random"} /\ a = lines[n + 1].of.address
    BY PartRead
  <2>2. e.kind = kind
    BY <1>3, <2>1, TextAssumption DEF Or
  <2> SUFFICES ASSUME NEW i \in ReportsOf(lines, n + 1, a) PROVE kind = lines[i].of.kind
    BY <2>2
  <2>3. i \in 1..(n + 1) /\ lines[i].of # None /\ lines[i].value = a /\ lines[i].prefix = "Address"
    BY DEF ReportsOf, AdsOf
  <2>4. DOMAIN lines = 1..Len(lines) /\ Len(lines) \in Nat
    BY CaptureLines
  <2>5. PICK k \in Nat : i = k + 1 /\ k + 1 \in DOMAIN lines
    <3>1. i - 1 \in Nat /\ i = (i - 1) + 1 /\ i \in DOMAIN lines
      BY <2>3, <2>4
    <3> QED BY <3>1
  <2>6. lines[i].of.address = a
    BY <2>3, <2>5, PartRead
  <2>7. lines[i] \in Range(lines) /\ lines[n + 1] \in Range(lines)
    BY <2>5 DEF Range
  <2>8. \A line, other \in {l \in Range(lines) : l.of # None} :
          line.of.address = other.of.address => line.of.kind = other.of.kind
    BY DEF IsCapture
  <2> QED BY <2>1, <2>3, <2>6, <2>7, <2>8
<1> HIDE DEF a
<1>12. AdvertiserOK(lines, n + 1, a, e)
  BY <1>2, <1>3, <1>7, <1>9, <1>10, <1>11 DEF AdvertiserOK
<1> QED BY <1>12 DEF a

(***************************************************************************)
(* The level of a report: the strongest stays.                             *)
(***************************************************************************)
LEMMA LevelRead ==
  ASSUME NEW lines, IsCapture(lines), NEW n \in Nat, n + 1 \in DOMAIN lines,
         lines[n + 1].of # None, lines[n + 1].prefix = "RSSI",
         NEW d, AdvertiserOK(lines, n, lines[n + 1].of.address, d)
  PROVE  AdvertiserOK(lines, n + 1, lines[n + 1].of.address, ParseDevice(d, lines[n + 1]))
<1> DEFINE a == lines[n + 1].of.address
           v == lines[n + 1].value
           e == ParseDevice(d, lines[n + 1])
           L == LevelsOf(lines, n, a)
<1>1. v \in -127..20 /\ v # None
  BY PartRead, CaptureAssumption
<1>2. e = [d EXCEPT !.rssi_last = v, !.rssi_min = IF @ = None THEN v ELSE Min({@, v}),
                    !.rssi_max = IF @ = None THEN v ELSE Max({@, v})]
  BY <1>1 DEF ParseDevice, AdvertiserFields
<1>3. DOMAIN d = AdvertiserNames
  BY DEF AdvertiserOK
<1>4. /\ DOMAIN e = AdvertiserNames /\ e.reports = d.reports /\ e.pdu = d.pdu /\ e.kind = d.kind
      /\ e.rssi_max = IF d.rssi_max = None THEN v ELSE Max({d.rssi_max, v})
  BY <1>2, <1>3 DEF AdvertiserNames
<1>5. 1..(n + 1) = 1..n \union {n + 1}
  OBVIOUS
<1>6. ReportsOf(lines, n + 1, a) = ReportsOf(lines, n, a)
  BY <1>5 DEF ReportsOf, AdsOf
<1>7. NamedOf(lines, n + 1, a) = NamedOf(lines, n, a)
  BY <1>6 DEF NamedOf
<1>8. LevelsOf(lines, n + 1, a) = L \union {v}
  <2>1. LeveledOf(lines, n + 1, a) = LeveledOf(lines, n, a) \union {n + 1}
    BY <1>5 DEF LeveledOf
  <2> QED BY <2>1 DEF LevelsOf
<1>9. L \subseteq -127..20
  <2>1. n \in 0..Len(lines)
    BY CaptureLines
  <2> QED BY <2>1, LevelsBounded
<1>10. IF L = {} THEN d.rssi_max = None ELSE d.rssi_max \in L /\ \A l \in L : l <= d.rssi_max
  BY DEF AdvertiserOK
<1> HIDE DEF e, L, v
<1>11. e.rssi_max \in L \union {v} /\ \A l \in L \union {v} : l <= e.rssi_max
  <2>1. CASE L = {}
    BY <1>1, <1>4, <1>10, <2>1
  <2>2. CASE L # {}
    <3>1. d.rssi_max \in L /\ d.rssi_max \in -127..20 /\ d.rssi_max # None
      BY <1>9, <1>10, <2>2, CaptureAssumption
    <3> DEFINE o == d.rssi_max
    <3>2. o \in Int /\ v \in Int
      BY <1>1, <3>1
    <3>3. e.rssi_max = Max({o, v})
      BY <1>4, <3>1
    <3>4. \A l \in L : l <= o /\ l \in Int
      BY <1>9, <1>10, <2>2
    <3> HIDE DEF o
    <3>5. Max({o, v}) \in {o, v} /\ o <= Max({o, v}) /\ v <= Max({o, v})
      BY <3>2, GreaterLevel
    <3>6. o \in L
      BY <3>1 DEF o
    <3> DEFINE m == Max({o, v})
    <3> HIDE DEF m
    <3>7. m \in {o, v} /\ o <= m /\ v <= m /\ e.rssi_max = m
      BY <3>3, <3>5 DEF m
    <3> QED BY <3>2, <3>4, <3>6, <3>7
  <2> QED BY <2>1, <2>2
<1>12. AdvertiserOK(lines, n + 1, a, e)
  BY <1>4, <1>6, <1>7, <1>8, <1>11 DEF AdvertiserOK
<1> QED BY <1>12 DEF e

(***************************************************************************)
(* The levels of a device come after a report of it.                       *)
(***************************************************************************)
LEMMA LevelAfterReport ==
  ASSUME NEW lines, IsCapture(lines), NEW n \in 0..Len(lines), NEW a, ReportsOf(lines, n, a) = {}
  PROVE  LeveledOf(lines, n, a) = {}
<1> DEFINE Rest(i) == lines[i].of # None /\ lines[i].of.address = a /\ lines[i].prefix \notin {"Event type", "Address type"}
           T == {i \in 1..n : Rest(i)}
<1> HIDE DEF Rest
<1>1. DOMAIN lines = 1..Len(lines) /\ Len(lines) \in Nat /\ n \in Nat
  BY CaptureLines
<1>2. T = {}
  <2> SUFFICES ASSUME T # {} PROVE FALSE
    OBVIOUS
  <2>1. PICK m \in T : \A i \in T : m <= i
    <3>1. T \in SUBSET Nat
      BY <1>1
    <3> HIDE DEF T
    <3> QED BY <3>1, LeastNatural
  <2>2. PICK k \in Nat : m = k + 1 /\ k + 1 \in DOMAIN lines
    <3>1. m - 1 \in Nat /\ m = (m - 1) + 1 /\ m \in DOMAIN lines
      BY <1>1, <2>1
    <3> QED BY <3>1
  <2>3. Rest(k + 1) /\ k + 1 \in 1..n
    BY <2>1, <2>2
  <2>4. /\ lines[k + 1].of # None /\ lines[k + 1].of.address = a
        /\ lines[k + 1].prefix \notin {"Event type", "Address type"}
    BY <2>3 DEF Rest
  <2>5. CASE lines[k + 1].prefix = "Address"
    <3>1. lines[k + 1].value = a
      BY <2>2, <2>5, <2>4, PartRead
    <3> QED BY <2>3, <2>5, <2>4, <3>1 DEF ReportsOf, AdsOf
  <2>6. CASE lines[k + 1].prefix # "Address"
    <3>1. k > 0 /\ lines[k].of = lines[k + 1].of /\ lines[k].prefix \notin {"Event type", "Address type"}
      <4>1. lines[k + 1].prefix \notin {"Event type", "Address type", "Address"}
        BY <2>4, <2>6
      <4>2. k > 0 /\ (lines[k + 1].prefix \notin {"Event type", "Address type", "Address"} =>
                        lines[k].of = lines[k + 1].of /\ lines[k].prefix \notin {"Event type", "Address type"})
        BY <2>2, <2>4, PartRead
      <4> QED BY <4>1, <4>2
    <3>2. k \in 1..n
      <4>1. k \in Nat /\ k > 0 /\ k + 1 \in 1..n /\ n \in Nat
        BY <1>1, <2>2, <2>3, <3>1
      <4> QED BY <4>1
    <3>3. Rest(k)
      BY <2>4, <3>1 DEF Rest
    <3>4. m <= k
      BY <2>1, <3>2, <3>3
    <3> QED BY <2>2, <3>4
  <2> QED BY <2>5, <2>6
<1> QED BY <1>2 DEF LeveledOf, Rest

(***************************************************************************)
(* A line that changes no count and no device.                             *)
(***************************************************************************)
LEMMA NothingCounted ==
  ASSUME NEW lines, NEW n \in Nat, NEW scan, CountOK(lines, n, scan), NEW next,
         next.found = scan.found, next.total = scan.total,
         lines[n + 1].of = None \/ lines[n + 1].prefix \notin {"Address", "RSSI"}
  PROVE  CountOK(lines, n + 1, next)
<1>1. 1..(n + 1) = 1..n \union {n + 1}
  OBVIOUS
<1>2. AdsOf(lines, n + 1) = AdsOf(lines, n)
  BY <1>1 DEF AdsOf
<1>3. \A a \in DOMAIN scan.found : AdvertiserOK(lines, n + 1, a, scan.found[a])
  <2> SUFFICES ASSUME NEW a \in DOMAIN scan.found PROVE AdvertiserOK(lines, n + 1, a, scan.found[a])
    OBVIOUS
  <2>1. AdvertiserOK(lines, n, a, scan.found[a]) /\ DOMAIN scan.found[a] = AdvertiserNames
    BY DEF CountOK, AdvertiserOK
  <2> QED BY <2>1, OtherAds
<1> QED BY <1>2, <1>3 DEF CountOK

(***************************************************************************)
(* A line outside of the reports.                                          *)
(***************************************************************************)
LEMMA OutsideRead ==
  ASSUME NEW lines, IsCapture(lines), NEW n \in Nat, n + 1 \in DOMAIN lines, lines[n + 1].of = None,
         NEW scan, CaptureOK(lines, n, scan)
  PROVE  CaptureOK(lines, n + 1, BtmonLine(scan, lines[n + 1]))
<1> DEFINE line == lines[n + 1]
           next == BtmonLine(scan, line)
<1>1. /\ DOMAIN scan = ScanNames /\ scan.mgmt \in BOOLEAN /\ scan.in_report \in BOOLEAN
      /\ n > 0 /\ lines[n].prefix = ">" => ~scan.mgmt
      /\ (~scan.mgmt /\ scan.in_report) <=> n > 0 /\ (lines[n].prefix = "LE Advertising Report" \/ lines[n].of # None)
  BY DEF CaptureOK, PlaceOK
<1>2. n + 1 > 0 /\ (n + 1) - 1 = n /\ (n > 0 <=> n + 1 > 1)
  OBVIOUS
<1>3. CASE line.prefix \in BlockHeads
  <2>1. next = [scan EXCEPT !.mgmt = (line.prefix = "@"), !.in_report = FALSE,
                            !.current = None, !.kind = None, !.pdu = None]
    BY <1>3 DEF BtmonLine, StartBlock
  <2>2. /\ DOMAIN next = ScanNames /\ next.found = scan.found /\ next.total = scan.total
        /\ next.mgmt = (line.prefix = "@") /\ next.in_report = FALSE
    BY <1>1, <2>1 DEF ScanNames
  <2> HIDE DEF next
  <2>3. CountOK(lines, n + 1, next)
    BY <2>2, NothingCounted DEF CaptureOK
  <2>4. line.prefix # "LE Advertising Report"
    BY <1>3 DEF BlockHeads
  <2>5. PlaceOK(lines, n + 1, next)
    BY <2>2, <2>4 DEF PlaceOK
  <2> QED BY <2>3, <2>5 DEF CaptureOK, next
<1>4. CASE line.prefix = "LE Advertising Report"
  <2>1. n > 0 /\ lines[n].prefix = ">"
    BY <1>2, <1>4 DEF IsCapture
  <2>2. ~scan.mgmt
    BY <1>1, <2>1
  <2>3. next = [scan EXCEPT !.in_report = TRUE]
    BY <1>4, <2>2 DEF BtmonLine, BlockHeads
  <2>4. /\ DOMAIN next = ScanNames /\ next.found = scan.found /\ next.total = scan.total
        /\ next.mgmt = scan.mgmt /\ next.in_report = TRUE
    BY <1>1, <2>3 DEF ScanNames
  <2> HIDE DEF next
  <2>5. CountOK(lines, n + 1, next)
    BY <2>4, NothingCounted DEF CaptureOK
  <2>6. PlaceOK(lines, n + 1, next)
    BY <1>1, <1>2, <1>4, <2>2, <2>4 DEF PlaceOK
  <2> QED BY <2>5, <2>6 DEF CaptureOK, next
<1>5. CASE line.prefix \notin BlockHeads /\ line.prefix # "LE Advertising Report"
  <2>1. ~(n > 0 /\ (lines[n].prefix = "LE Advertising Report" \/ lines[n].of # None))
    BY <1>2, <1>5 DEF IsCapture
  <2>2. scan.mgmt \/ ~scan.in_report
    BY <1>1, <2>1
  <2>3. next = scan
    BY <1>5, <2>2 DEF BtmonLine
  <2>4. CountOK(lines, n + 1, scan)
    BY NothingCounted DEF CaptureOK
  <2>5. PlaceOK(lines, n + 1, scan)
    BY <1>1, <1>5, <2>2 DEF PlaceOK, BlockHeads
  <2> QED BY <2>3, <2>4, <2>5 DEF CaptureOK
<1> QED BY <1>3, <1>4, <1>5

(***************************************************************************)
(* A line of a report.                                                     *)
(***************************************************************************)
LEMMA PartOfReportRead ==
  ASSUME NEW lines, IsCapture(lines), NEW n \in Nat, n + 1 \in DOMAIN lines, lines[n + 1].of # None,
         NEW scan, CaptureOK(lines, n, scan)
  PROVE  CaptureOK(lines, n + 1, BtmonLine(scan, lines[n + 1]))
<1> DEFINE line == lines[n + 1]
           next == BtmonLine(scan, line)
           p == line.prefix
<1>1. /\ p \notin BlockHeads /\ p # "LE Advertising Report"
      /\ n > 0 /\ (lines[n].prefix = "LE Advertising Report" \/ lines[n].of # None)
      /\ line.of.address # None /\ line.of.kind \in {"public", "random"}
      /\ p = "Event type" => line.value = line.of.pdu
      /\ p = "Address type" => line.value = line.of.kind /\ lines[n].of = line.of /\ lines[n].prefix = "Event type"
      /\ p = "Address" => line.value = line.of.address /\ lines[n].of = line.of /\ lines[n].prefix = "Address type"
      /\ p \notin {"Event type", "Address type", "Address"} =>
           lines[n].of = line.of /\ lines[n].prefix \notin {"Event type", "Address type"}
      /\ p = "RSSI" => line.value \in -127..20
  BY PartRead
<1>2. /\ DOMAIN scan = ScanNames /\ ~scan.mgmt /\ scan.in_report
      /\ scan.mgmt \in BOOLEAN /\ scan.in_report \in BOOLEAN
      /\ lines[n].of # None =>
           /\ lines[n].prefix \in {"Event type", "Address type"} => scan.pdu = lines[n].of.pdu
           /\ lines[n].prefix = "Address type" => scan.kind = lines[n].of.kind
           /\ lines[n].prefix \notin {"Event type", "Address type"} =>
                scan.current = lines[n].of.address /\ scan.current \in DOMAIN scan.found
  BY <1>1 DEF CaptureOK, PlaceOK
<1>3. /\ scan.total = Cardinality(AdsOf(lines, n))
      /\ DOMAIN scan.found = {lines[i].value : i \in AdsOf(lines, n)}
      /\ \A a \in DOMAIN scan.found : AdvertiserOK(lines, n, a, scan.found[a])
  BY DEF CaptureOK, CountOK
<1>4. n + 1 > 0 /\ 1..(n + 1) = 1..n \union {n + 1}
  OBVIOUS
<1>5. CASE p = "Event type"
  <2>1. next = [scan EXCEPT !.pdu = line.value]
    BY <1>1, <1>2, <1>5 DEF BtmonLine
  <2>2. /\ DOMAIN next = ScanNames /\ next.found = scan.found /\ next.total = scan.total
        /\ next.mgmt = scan.mgmt /\ next.in_report = scan.in_report /\ next.pdu = line.value
    BY <1>2, <2>1 DEF ScanNames
  <2> HIDE DEF next
  <2>3. CountOK(lines, n + 1, next)
    BY <1>5, <2>2, NothingCounted DEF CaptureOK
  <2>4. PlaceOK(lines, n + 1, next)
    BY <1>1, <1>2, <1>4, <1>5, <2>2 DEF PlaceOK
  <2> QED BY <2>3, <2>4 DEF CaptureOK, next
<1>6. CASE p = "Address type"
  <2>1. next = [scan EXCEPT !.kind = line.value]
    BY <1>1, <1>2, <1>6 DEF BtmonLine
  <2>2. /\ DOMAIN next = ScanNames /\ next.found = scan.found /\ next.total = scan.total
        /\ next.mgmt = scan.mgmt /\ next.in_report = scan.in_report /\ next.pdu = scan.pdu /\ next.kind = line.value
    BY <1>2, <2>1 DEF ScanNames
  <2>3. scan.pdu = line.of.pdu
    BY <1>1, <1>2, <1>6
  <2> HIDE DEF next
  <2>4. CountOK(lines, n + 1, next)
    BY <1>6, <2>2, NothingCounted DEF CaptureOK
  <2>5. PlaceOK(lines, n + 1, next)
    BY <1>1, <1>2, <1>4, <1>6, <2>2, <2>3 DEF PlaceOK
  <2> QED BY <2>4, <2>5 DEF CaptureOK, next
<1>7. CASE p = "Address"
  <2> DEFINE a == line.value
             old == IF a \in DOMAIN scan.found THEN scan.found[a] ELSE NewAdvertiser
             entry == [old EXCEPT !.reports = @ + 1, !.pdu = Or(@, scan.pdu), !.kind = Or(scan.kind, @)]
  <2>1. a = line.of.address /\ a # None /\ scan.pdu = line.of.pdu /\ scan.kind = line.of.kind
    BY <1>1, <1>2, <1>7
  <2>2. next = ReportOf(scan, a)
    BY <1>1, <1>2, <1>7, <2>1 DEF BtmonLine
  <2>3. /\ DOMAIN next = ScanNames /\ next.total = scan.total + 1 /\ next.current = a
        /\ next.mgmt = scan.mgmt /\ next.in_report = scan.in_report
        /\ next.found = [b \in DOMAIN scan.found \union {a} |-> IF b = a THEN entry ELSE scan.found[b]]
    BY <1>2, <2>2 DEF ReportOf, ScanNames
  <2>4. AdsOf(lines, n + 1) = AdsOf(lines, n) \union {n + 1} /\ AdsOf(lines, n) \in SUBSET (1..n)
    BY <1>4, <1>7 DEF AdsOf
  <2>5. AdvertiserOK(lines, n + 1, a, entry)
    <3>1. CASE a \in DOMAIN scan.found
      <4>1. AdvertiserOK(lines, n, a, old)
        BY <1>3, <3>1
      <4> HIDE DEF old
      <4> QED BY <1>7, <2>1, <4>1, ReportRead
    <3>2. CASE a \notin DOMAIN scan.found
      <4>1. old = NewAdvertiser
        BY <3>2
      <4>2. ReportsOf(lines, n, a) = {}
        BY <1>3, <3>2 DEF ReportsOf
      <4>3. LeveledOf(lines, n, a) = {}
        BY <4>2, LevelAfterReport, CaptureLines
      <4> HIDE DEF old
      <4> QED BY <1>7, <2>1, <4>1, <4>2, <4>3, ReportRead
    <3> QED BY <3>1, <3>2
  <2> HIDE DEF entry, next
  <2>6. \A b \in DOMAIN scan.found \union {a} : AdvertiserOK(lines, n + 1, b, next.found[b])
    <3> SUFFICES ASSUME NEW b \in DOMAIN scan.found \union {a} PROVE AdvertiserOK(lines, n + 1, b, next.found[b])
      OBVIOUS
    <3>1. CASE b = a
      BY <2>3, <2>5, <3>1
    <3>2. CASE b # a
      <4>1. next.found[b] = scan.found[b] /\ AdvertiserOK(lines, n, b, scan.found[b])
        BY <1>3, <2>3, <3>2
      <4>2. DOMAIN scan.found[b] = AdvertiserNames
        BY <4>1 DEF AdvertiserOK
      <4> QED BY <1>7, <3>2, <4>1, <4>2, OtherAds
    <3> QED BY <3>1, <3>2
  <2>7. next.total = Cardinality(AdsOf(lines, n + 1))
    BY <1>3, <2>3, <2>4, OneMore
  <2>8. DOMAIN next.found = {lines[i].value : i \in AdsOf(lines, n + 1)}
    BY <1>3, <2>3, <2>4
  <2>9. CountOK(lines, n + 1, next)
    BY <2>3, <2>6, <2>7, <2>8 DEF CountOK
  <2>10. PlaceOK(lines, n + 1, next)
    BY <1>1, <1>2, <1>4, <1>7, <2>1, <2>3 DEF PlaceOK
  <2> QED BY <2>9, <2>10 DEF CaptureOK, next
<1>8. CASE p \notin {"Event type", "Address type", "Address"}
  <2> DEFINE a == scan.current
             entry == ParseDevice(scan.found[a], line)
  <2>1. a = line.of.address /\ a # None /\ a \in DOMAIN scan.found
    BY <1>1, <1>2, <1>8
  <2>2. next = [scan EXCEPT !.found[a] = entry]
    BY <1>1, <1>2, <1>8, <2>1 DEF BtmonLine
  <2>3. /\ DOMAIN next = ScanNames /\ next.total = scan.total /\ next.current = a
        /\ next.mgmt = scan.mgmt /\ next.in_report = scan.in_report
        /\ DOMAIN next.found = DOMAIN scan.found
        /\ next.found[a] = entry /\ \A b \in DOMAIN scan.found : b # a => next.found[b] = scan.found[b]
    <3>1. next.found = [scan.found EXCEPT ![a] = entry]
      BY <1>2, <2>2 DEF ScanNames
    <3> QED BY <1>2, <2>1, <2>2, <3>1 DEF ScanNames
  <2>4. AdsOf(lines, n + 1) = AdsOf(lines, n)
    BY <1>4, <1>8 DEF AdsOf
  <2>5. AdvertiserOK(lines, n, a, scan.found[a]) /\ DOMAIN scan.found[a] = AdvertiserNames
    BY <1>3, <2>1 DEF AdvertiserOK
  <2>6. AdvertiserOK(lines, n + 1, a, entry)
    <3>1. CASE p = "RSSI"
      BY <2>1, <2>5, <3>1, LevelRead
    <3>2. CASE p # "RSSI"
      <4> DEFINE d == scan.found[a]
      <4>1. /\ DOMAIN entry = AdvertiserNames /\ entry.reports = d.reports /\ entry.kind = d.kind
            /\ entry.pdu = d.pdu /\ entry.rssi_max = d.rssi_max
        BY <2>5, <3>2 DEF ParseDevice, AdvertiserNames, AdvertiserFields
      <4> HIDE DEF entry
      <4> QED BY <1>8, <2>5, <3>2, <4>1, OtherAds
    <3> QED BY <3>1, <3>2
  <2> HIDE DEF entry, next
  <2>7. \A b \in DOMAIN scan.found : AdvertiserOK(lines, n + 1, b, next.found[b])
    <3> SUFFICES ASSUME NEW b \in DOMAIN scan.found PROVE AdvertiserOK(lines, n + 1, b, next.found[b])
      OBVIOUS
    <3>1. CASE b = a
      BY <2>3, <2>6, <3>1
    <3>2. CASE b # a
      <4>1. next.found[b] = scan.found[b] /\ AdvertiserOK(lines, n, b, scan.found[b])
        BY <1>3, <2>3, <3>2
      <4>2. DOMAIN scan.found[b] = AdvertiserNames
        BY <4>1 DEF AdvertiserOK
      <4>3. p \notin {"Address", "RSSI"} \/ (p = "RSSI" /\ line.of.address # b)
        BY <1>8, <2>1, <3>2
      <4> QED BY <4>1, <4>2, <4>3, OtherAds
    <3> QED BY <3>1, <3>2
  <2>8. CountOK(lines, n + 1, next)
    BY <1>3, <2>3, <2>4, <2>7 DEF CountOK
  <2>9. PlaceOK(lines, n + 1, next)
    BY <1>1, <1>2, <1>4, <1>8, <2>1, <2>3 DEF PlaceOK
  <2> QED BY <2>8, <2>9 DEF CaptureOK, next
<1> QED BY <1>5, <1>6, <1>7, <1>8

LEMMA CaptureRead ==
  ASSUME NEW lines, IsCapture(lines)
  PROVE  CaptureOK(lines, Len(lines), parse_btmon(lines))
<1>1. Len(lines) \in Nat /\ DOMAIN lines = 1..Len(lines)
  BY CaptureLines
<1> DEFINE N == Len(lines)
<1>2. PICK g : MonitorTrace(lines, N, g) /\ parse_btmon(lines) = g[N]
  BY <1>1, MonitorTraced
<1> DEFINE T == {n \in 0..N : ~CaptureOK(lines, n, g[n])}
<1>3. T = {}
  <2> SUFFICES ASSUME T # {} PROVE FALSE
    OBVIOUS
  <2>1. PICK m \in T : \A n \in T : m <= n
    <3>1. T \in SUBSET Nat
      BY <1>1
    <3> HIDE DEF T
    <3> QED BY <3>1, LeastNatural
  <2>2. m # 0
    <3>1. g[0] = NewScan
      BY <1>1, <1>2 DEF MonitorTrace
    <3>2. AdsOf(lines, 0) = {}
      BY DEF AdsOf
    <3>3. CountOK(lines, 0, NewScan)
      BY <3>2, FS_EmptySet DEF CountOK, NewScan
    <3>4. PlaceOK(lines, 0, NewScan)
      BY DEF PlaceOK, NewScan, ScanNames
    <3> QED BY <2>1, <3>1, <3>3, <3>4 DEF CaptureOK
  <2>3. m - 1 \in 0..N /\ m \in 0..N /\ (m - 1) + 1 = m /\ m \in DOMAIN lines /\ m - 1 \in Nat
    BY <1>1, <2>1, <2>2
  <2>4. CaptureOK(lines, m - 1, g[m - 1])
    BY <2>1, <2>3
  <2>5. g[m] = BtmonLine(g[m - 1], lines[m])
    BY <1>2, <2>2, <2>3 DEF MonitorTrace
  <2>6. CaptureOK(lines, m, g[m])
    BY <2>3, <2>4, <2>5, OutsideRead, PartOfReportRead
  <2> QED BY <2>1, <2>6
<1> QED BY <1>1, <1>2, <1>3

(***************************************************************************)
(* A capture that was cut after a line is one.                             *)
(***************************************************************************)
LEMMA CutCapture ==
  ASSUME NEW all, IsCapture(all), NEW n \in 0..Len(all)
  PROVE  IsCapture(SubSeq(all, 1, n)) /\ Len(SubSeq(all, 1, n)) = n
<1> DEFINE lines == SubSeq(all, 1, n)
<1>1. Len(all) \in Nat /\ DOMAIN all = 1..Len(all) /\ all \in Seq(Range(all))
  BY CaptureLines
<1>2. n \in Nat /\ n <= Len(all)
  BY <1>1
<1>3. lines \in Seq(Range(all)) /\ Len(lines) = n /\ DOMAIN lines = 1..n /\ \A i \in 1..n : lines[i] = all[i]
  BY <1>1, <1>2
<1> HIDE DEF lines
<1>4. lines \in Seq(Range(lines))
  <2>1. \A i \in 1..n : lines[i] \in Range(lines)
    BY <1>3 DEF Range
  <2>2. lines = [i \in 1..n |-> lines[i]]
    BY <1>3
  <2> QED BY <1>2, <2>1, <2>2
<1>5. Range(lines) \subseteq Range(all)
  BY <1>1, <1>2, <1>3 DEF Range
<1>6. \A i \in 1..n : i \in DOMAIN all /\ (i > 1 => i - 1 \in 1..n /\ lines[i - 1] = all[i - 1])
  BY <1>1, <1>2, <1>3
<1>7. ASSUME NEW i \in 1..n
      PROVE  /\ lines[i].prefix = "LE Advertising Report" => i > 1 /\ lines[i - 1].prefix = ">"
             /\ lines[i].of # None <=>
                  /\ lines[i].prefix \notin BlockHeads /\ lines[i].prefix # "LE Advertising Report"
                  /\ i > 1 /\ (lines[i - 1].prefix = "LE Advertising Report" \/ lines[i - 1].of # None)
             /\ lines[i].of # None =>
                  /\ lines[i].of.address # None /\ lines[i].of.kind \in {"public", "random"}
                  /\ CASE lines[i].prefix = "Event type" -> lines[i].value = lines[i].of.pdu
                       [] lines[i].prefix = "Address type" ->
                            /\ lines[i].value = lines[i].of.kind
                            /\ i > 1 /\ lines[i - 1].of = lines[i].of /\ lines[i - 1].prefix \in {"Event type"}
                       [] lines[i].prefix = "Address" ->
                            /\ lines[i].value = lines[i].of.address
                            /\ i > 1 /\ lines[i - 1].of = lines[i].of /\ lines[i - 1].prefix \in {"Address type"}
                       [] OTHER ->
                            /\ i > 1 /\ lines[i - 1].of = lines[i].of
                            /\ lines[i - 1].prefix \notin {"Event type", "Address type"}
                            /\ lines[i].prefix = "RSSI" => lines[i].value \in -127..20
  <2>1. i \in DOMAIN all /\ lines[i] = all[i] /\ (i > 1 => lines[i - 1] = all[i - 1])
    BY <1>3, <1>6
  <2>2. CASE i > 1
    <3>1. /\ all[i].prefix = "LE Advertising Report" => i > 1 /\ all[i - 1].prefix = ">"
          /\ all[i].of # None <=>
               /\ all[i].prefix \notin BlockHeads /\ all[i].prefix # "LE Advertising Report"
               /\ i > 1 /\ (all[i - 1].prefix = "LE Advertising Report" \/ all[i - 1].of # None)
          /\ all[i].of # None =>
               /\ all[i].of.address # None /\ all[i].of.kind \in {"public", "random"}
               /\ CASE all[i].prefix = "Event type" -> all[i].value = all[i].of.pdu
                    [] all[i].prefix = "Address type" ->
                         /\ all[i].value = all[i].of.kind
                         /\ i > 1 /\ all[i - 1].of = all[i].of /\ all[i - 1].prefix \in {"Event type"}
                    [] all[i].prefix = "Address" ->
                         /\ all[i].value = all[i].of.address
                         /\ i > 1 /\ all[i - 1].of = all[i].of /\ all[i - 1].prefix \in {"Address type"}
                    [] OTHER ->
                         /\ i > 1 /\ all[i - 1].of = all[i].of
                         /\ all[i - 1].prefix \notin {"Event type", "Address type"}
                         /\ all[i].prefix = "RSSI" => all[i].value \in -127..20
      BY <2>1 DEF IsCapture
    <3>2. lines[i - 1] = all[i - 1]
      BY <2>1, <2>2
    <3> QED BY <2>1, <3>1, <3>2
  <2>3. CASE ~(i > 1)
    BY <2>1, <2>3 DEF IsCapture
  <2> QED BY <2>2, <2>3
<1>8. \A line, other \in {l \in Range(lines) : l.of # None} :
        line.of.address = other.of.address => line.of.kind = other.of.kind
  BY <1>5 DEF IsCapture
<1>9. IsCapture(lines)
  BY <1>3, <1>4, <1>7, <1>8 DEF IsCapture
<1> QED BY <1>3, <1>9 DEF lines

(***************************************************************************)
(* The levels of the devices fall into three ranges, without a gap.        *)
(***************************************************************************)
LEMMA BucketsAddUp ==
  ASSUME NEW scan, IsFiniteSet(DOMAIN scan.found),
         \A a \in DOMAIN scan.found : scan.found[a].rssi_max \in -127..20 \union {None}
  PROVE  LET b == distance_buckets(scan)
         IN  b[1] + b[2] + b[3] = Cardinality({a \in DOMAIN scan.found : scan.found[a].rssi_max # None})
<1> DEFINE level(a) == scan.found[a].rssi_max
           In(low, high) == {a \in DOMAIN scan.found : level(a) # None /\ level(a) >= low /\ level(a) <= high}
           S == {a \in DOMAIN scan.found : level(a) # None}
           A == In(-59, 20)
           B == In(-80, -60)
           C == In(-127, -81)
<1>1. distance_buckets(scan) = <<Cardinality(A), Cardinality(B), Cardinality(C)>>
  BY DEF distance_buckets, Heard
<1>2. \A a \in S : level(a) \in -127..20
  OBVIOUS
<1>3. S = A \union B \union C
  BY <1>2
<1>4. A \intersect B = {} /\ A \intersect C = {} /\ B \intersect C = {}
  <2>1. A \subseteq S /\ B \subseteq S /\ C \subseteq S
    OBVIOUS
  <2> QED BY <1>2, <2>1
<1>5. IsFiniteSet(S)
  BY FS_Subset
<1> HIDE DEF A, B, C, S
<1>6. Cardinality(A) + Cardinality(B) + Cardinality(C) = Cardinality(S)
  BY <1>3, <1>4, <1>5, ThreeParts
<1> QED BY <1>1, <1>6 DEF S

LEMMA SameNumber ==
  ASSUME NEW S, IsFiniteSet(S), NEW f, DOMAIN f = S, \A x, y \in S : f[x] = f[y] => x = y
  PROVE  Cardinality({f[x] : x \in S}) = Cardinality(S)
<1> DEFINE T == {f[x] : x \in S}
           g == [x \in S |-> f[x]]
<1>1. g \in Bijection(S, T)
  BY DEF Bijection, Injection, Surjection, IsInjective
<1> HIDE DEF g, T
<1>2. ExistsBijection(S, T)
  BY <1>1 DEF ExistsBijection
<1> QED BY <1>2, FS_Bijection DEF T

\* What one more line, whole or not, may do to the devices of a scan: spoil some.
SpoilsOnly(whole, scan, spoilt) ==
  /\ scan.total \in whole.total..whole.total + Cardinality(spoilt)
  /\ DOMAIN whole.found \subseteq DOMAIN scan.found
  /\ DOMAIN scan.found \subseteq DOMAIN whole.found \union spoilt
  /\ \A a \in DOMAIN whole.found \ spoilt :
       /\ scan.found[a].reports = whole.found[a].reports
       /\ scan.found[a].kind = whole.found[a].kind
       /\ scan.found[a].pdu = whole.found[a].pdu
       /\ scan.found[a].rssi_max = whole.found[a].rssi_max
  /\ \A a \in DOMAIN scan.found : scan.found[a].rssi_max \in -127..20 \union {None}

(***************************************************************************)
(* What the whole lines of a capture were read as.                         *)
(***************************************************************************)
LEMMA WholeLinesRead ==
  ASSUME site \in Sites, captured \in 0..Len(site.capture)
  PROVE  LET lines == SubSeq(site.capture, 1, captured)
         IN  /\ IsCapture(site.capture) /\ IsCapture(lines) /\ Len(lines) = captured
             /\ captured \in Nat /\ DOMAIN lines = 1..captured
             /\ CaptureOK(lines, captured, parse_btmon(lines))
<1> DEFINE lines == SubSeq(site.capture, 1, captured)
<1>1. IsCapture(site.capture)
  BY CaptureAssumption
<1>2. IsCapture(lines) /\ Len(lines) = captured
  BY <1>1, CutCapture
<1> HIDE DEF lines
<1>3. CaptureOK(lines, captured, parse_btmon(lines))
  BY <1>2, CaptureRead
<1>4. captured \in Nat /\ DOMAIN lines = 1..captured
  BY <1>2, CaptureLines
<1> QED BY <1>1, <1>2, <1>3, <1>4 DEF lines

LEMMA FewFound ==
  ASSUME site \in Sites, captured \in 0..Len(site.capture)
  PROVE  LET whole == parse_btmon(SubSeq(site.capture, 1, captured))
         IN  /\ IsFiniteSet(DOMAIN whole.found)
             /\ whole.total \in Nat
             /\ \A a \in DOMAIN whole.found : whole.found[a].rssi_max \in -127..20 \union {None}
<1> DEFINE lines == SubSeq(site.capture, 1, captured)
           N == captured
           whole == parse_btmon(lines)
           found == whole.found
<1>1. IsCapture(lines) /\ Len(lines) = N /\ N \in Nat /\ CaptureOK(lines, N, whole)
  BY WholeLinesRead
<1> HIDE DEF lines, whole, N
<1>2. /\ whole.total = Cardinality(AdsOf(lines, N))
      /\ DOMAIN found = {lines[i].value : i \in AdsOf(lines, N)}
      /\ \A a \in DOMAIN found : AdvertiserOK(lines, N, a, found[a])
  BY <1>1 DEF CaptureOK, CountOK
<1>3. IsFiniteSet(AdsOf(lines, N)) /\ Cardinality(AdsOf(lines, N)) \in Nat
  <2>1. AdsOf(lines, N) \in SUBSET (1..N)
    BY DEF AdsOf
  <2> QED BY <1>1, <2>1, OneMore
<1>4. IsFiniteSet(DOMAIN found)
  <2> DEFINE f == [i \in AdsOf(lines, N) |-> lines[i].value]
  <2>1. f \in Surjection(AdsOf(lines, N), DOMAIN found)
    BY <1>2 DEF Surjection
  <2> HIDE DEF f
  <2> QED BY <1>3, <2>1, FS_Surjection
<1>5. ASSUME NEW a \in DOMAIN found PROVE found[a].rssi_max \in -127..20 \union {None}
  <2> DEFINE L == LevelsOf(lines, N, a)
  <2>1. L \subseteq -127..20
    <3>1. N \in 0..Len(lines)
      BY <1>1
    <3> QED BY <1>1, <3>1, LevelsBounded
  <2>2. IF L = {} THEN found[a].rssi_max = None ELSE found[a].rssi_max \in L
    BY <1>2, <1>5 DEF AdvertiserOK
  <2> HIDE DEF L
  <2> QED BY <2>1, <2>2
<1> QED BY <1>2, <1>3, <1>4, <1>5 DEF whole, lines, N

LEMMA CaptureIsTrue ==
  ASSUME site \in Sites, captured \in 0..Len(site.capture),
         NEW scan, scan # None, NEW spoilt, IsFiniteSet(spoilt),
         SpoilsOnly(parse_btmon(SubSeq(site.capture, 1, captured)), scan, spoilt),
         records["ble_scan"][1] = BleScan(TRUE, None, scan),
         records["ble"] = [address \in DOMAIN scan.found |-> BleDevice(address, scan.found[address])]
  PROVE  BleTrueBut(spoilt)
<1> DEFINE lines == SubSeq(site.capture, 1, captured)
           N == captured
           whole == parse_btmon(lines)
           found == scan.found
           rs == records["ble"]
           devices == {rs[address] : address \in DOMAIN rs}
<1>2. IsCapture(lines) /\ Len(lines) = N
  BY WholeLinesRead
<1>3. CaptureOK(lines, N, whole)
  BY WholeLinesRead
<1>4. N \in Nat /\ DOMAIN lines = 1..N
  BY WholeLinesRead
<1>1. SpoilsOnly(whole, scan, spoilt) /\ IsFiniteSet(DOMAIN whole.found) /\ whole.total \in Nat
  BY FewFound
<1> HIDE DEF lines, whole
<1>5. /\ whole.total = Cardinality(AdsOf(lines, N))
      /\ DOMAIN whole.found = {lines[i].value : i \in AdsOf(lines, N)}
      /\ \A a \in DOMAIN whole.found : AdvertiserOK(lines, N, a, whole.found[a])
  BY <1>3 DEF CaptureOK, CountOK
<1>6. records["ble_scan"][1].reports_total = scan.total /\ records["ble_scan"][1].buckets = distance_buckets(scan)
  BY DEF BleScan, Opt
<1>7. /\ DOMAIN rs = DOMAIN found
      /\ \A a \in DOMAIN found : rs[a].address = a /\ rs[a].device = found[a]
                                 /\ rs[a].attribute = IF found[a].kind = "public" THEN a ELSE None
  BY DEF BleDevice
<1> HIDE DEF rs, found
<1> DEFINE Where(prefix) == {i \in DOMAIN lines : lines[i].prefix = prefix /\ lines[i].of # None}
           Levels(address) == {lines[i].value : i \in {j \in Where("RSSI") : lines[j].of.address = address}}
           Reports(address) == {i \in Where("Address") : lines[i].value = address}
<1>8. Where("Address") = AdsOf(lines, N)
  BY <1>4 DEF AdsOf
<1>9. \A a : Reports(a) = ReportsOf(lines, N, a)
  BY <1>8 DEF ReportsOf
<1>10. \A a : Levels(a) = LevelsOf(lines, N, a)
  <2>1. \A a : {j \in Where("RSSI") : lines[j].of.address = a} = LeveledOf(lines, N, a)
    BY <1>4 DEF LeveledOf
  <2> HIDE DEF Where
  <2> QED BY <2>1 DEF LevelsOf
<1>11. /\ {lines[i].value : i \in Where("Address")} \subseteq {d.address : d \in devices}
       /\ {d.address : d \in devices} \subseteq {lines[i].value : i \in Where("Address")} \union spoilt
  <2>1. {d.address : d \in devices} = DOMAIN found
    <3>1. \A x : x \in {d.address : d \in devices} <=> x \in DOMAIN found
      BY <1>7
    <3> QED BY <3>1
  <2>2. {lines[i].value : i \in Where("Address")} = DOMAIN whole.found
    BY <1>5, <1>8
  <2>3. DOMAIN whole.found \subseteq DOMAIN found /\ DOMAIN found \subseteq DOMAIN whole.found \union spoilt
    BY <1>1 DEF SpoilsOnly, found
  <2> QED BY <2>1, <2>2, <2>3
<1>12. ASSUME NEW d \in devices, d.address \notin spoilt
       PROVE  LET first == lines[Min(Reports(d.address))].of
                  named == {i \in Reports(d.address) : lines[i].of.pdu # None}
              IN  /\ d.device.reports = Cardinality(Reports(d.address))
                  /\ d.device.kind = first.kind
                  /\ d.device.pdu = IF named = {} THEN None ELSE lines[Min(named)].of.pdu
                  /\ d.device.rssi_max = IF Levels(d.address) = {} THEN None ELSE Max(Levels(d.address))
                  /\ (d.attribute = None) = (first.kind = "random")
  <2>1. PICK a \in DOMAIN found : d = rs[a]
    BY <1>7
  <2> DEFINE R == ReportsOf(lines, N, a)
             M == NamedOf(lines, N, a)
             L == LevelsOf(lines, N, a)
             e == found[a]
  <2>2. /\ d.address = a /\ d.device = e /\ d.attribute = IF e.kind = "public" THEN a ELSE None
    BY <1>7, <2>1
  <2>3. Reports(d.address) = R /\ {i \in Reports(d.address) : lines[i].of.pdu # None} = M /\ Levels(d.address) = L
    <3>1. Reports(d.address) = R /\ Levels(d.address) = L
      BY <1>9, <1>10, <2>2
    <3> HIDE DEF Reports, Levels
    <3> QED BY <3>1 DEF NamedOf
  <2>0. /\ a \in DOMAIN whole.found
        /\ e.reports = whole.found[a].reports /\ e.kind = whole.found[a].kind
        /\ e.pdu = whole.found[a].pdu /\ e.rssi_max = whole.found[a].rssi_max
    BY <1>1, <1>12, <2>1, <2>2 DEF SpoilsOnly, found
  <2>4. /\ e.reports = Cardinality(R) /\ \A i \in R : e.kind = lines[i].of.kind
        /\ e.pdu = IF M = {} THEN None ELSE lines[Min(M)].of.pdu
        /\ IF L = {} THEN e.rssi_max = None ELSE e.rssi_max \in L /\ \A l \in L : l <= e.rssi_max
    <3> HIDE DEF e
    <3> QED BY <1>5, <2>0 DEF AdvertiserOK
  <2>5. L \subseteq -127..20
    <3>1. N \in 0..Len(lines)
      BY <1>2, <1>4
    <3> HIDE DEF N
    <3> QED BY <1>2, <3>1, LevelsBounded
  <2>6. PICK i \in AdsOf(lines, N) : lines[i].value = a
    BY <1>5, <2>0
  <2>7. i \in R /\ R \in SUBSET Nat
    BY <2>6 DEF ReportsOf, AdsOf
  <2>8. Min(R) \in R
    <3> HIDE DEF R
    <3> QED BY <2>7, LeastMember
  <2> HIDE DEF R, M, L, e
  <2>9. e.kind = lines[Min(R)].of.kind
    BY <2>4, <2>8
  <2>10. e.rssi_max = IF L = {} THEN None ELSE Max(L)
    <3>1. CASE L = {}
      BY <2>4, <3>1
    <3>2. CASE L # {}
      <4>1. L \in SUBSET Int /\ e.rssi_max \in L /\ \A l \in L : l <= e.rssi_max
        <5>1. -127..20 \subseteq Int
          OBVIOUS
        <5> QED BY <2>4, <2>5, <3>2, <5>1
      <4>2. Max(L) = e.rssi_max
        BY <4>1, GreatestLevel
      <4> QED BY <3>2, <4>2
    <3> QED BY <3>1, <3>2
  <2>11. a # None /\ e.kind \in {"public", "random"}
    <3>1. i \in 1..N /\ lines[i].prefix = "Address" /\ lines[i].of # None
      BY <2>6 DEF AdsOf
    <3>2. PICK k \in Nat : i = k + 1 /\ k + 1 \in DOMAIN lines
      <4>1. i - 1 \in Nat /\ i = (i - 1) + 1 /\ i \in DOMAIN lines
        BY <1>4, <3>1
      <4> QED BY <4>1
    <3>3. lines[i].value = lines[i].of.address /\ lines[i].of.address # None /\ lines[i].of.kind \in {"public", "random"}
      BY <1>2, <3>1, <3>2, PartRead
    <3> QED BY <2>4, <2>6, <2>7, <3>3
  <2>12. (d.attribute = None) = (e.kind = "random")
    BY <2>2, <2>11
  <2> QED BY <2>2, <2>3, <2>4, <2>9, <2>10, <2>12
<1>13. distance_buckets(scan)[1] + distance_buckets(scan)[2] + distance_buckets(scan)[3]
         = Cardinality({d \in devices : d.device.rssi_max # None})
  <2>1. IsFiniteSet(DOMAIN found)
    <3>1. IsFiniteSet(DOMAIN whole.found \union spoilt)
      BY <1>1, FS_Union
    <3>2. DOMAIN found \subseteq DOMAIN whole.found \union spoilt
      BY <1>1 DEF SpoilsOnly, found
    <3> QED BY <3>1, <3>2, FS_Subset
  <2>2. \A a \in DOMAIN found : found[a].rssi_max \in -127..20 \union {None}
    BY <1>1 DEF SpoilsOnly, found
  <2> DEFINE S == {a \in DOMAIN found : found[a].rssi_max # None}
             g == [a \in S |-> rs[a]]
  <2>3. distance_buckets(scan)[1] + distance_buckets(scan)[2] + distance_buckets(scan)[3] = Cardinality(S)
    BY <2>1, <2>2, BucketsAddUp DEF found
  <2>4. {d \in devices : d.device.rssi_max # None} = {g[a] : a \in S}
    <3>1. ASSUME NEW d \in devices, d.device.rssi_max # None
          PROVE  d \in {g[a] : a \in S}
      <4>1. PICK a \in DOMAIN found : d = rs[a]
        BY <1>7
      <4>2. a \in S /\ g[a] = d
        BY <1>7, <3>1, <4>1
      <4> QED BY <4>2
    <3>2. ASSUME NEW a \in S
          PROVE  g[a] \in devices /\ g[a].device.rssi_max # None
      <4>1. a \in DOMAIN found /\ found[a].rssi_max # None /\ g[a] = rs[a]
        OBVIOUS
      <4> QED BY <1>7, <4>1
    <3> HIDE DEF g, S, devices
    <3> QED BY <3>1, <3>2
  <2>5. IsFiniteSet(S)
    BY <2>1, FS_Subset
  <2>6. DOMAIN g = S /\ \A x, y \in S : g[x] = g[y] => x = y
    BY <1>7
  <2> HIDE DEF g, S
  <2>7. Cardinality({g[a] : a \in S}) = Cardinality(S)
    BY <2>5, <2>6, SameNumber
  <2> QED BY <2>3, <2>4, <2>7
<1>14. scan.total \in Cardinality(Where("Address"))..Cardinality(Where("Address")) + Cardinality(spoilt)
  BY <1>1, <1>5, <1>8 DEF SpoilsOnly
<1> HIDE DEF N
<1> QED BY <1>6, <1>11, <1>12, <1>13, <1>14 DEF BleTrueBut, rs, lines

(***************************************************************************)
(* One more line is one more step of the parser.                           *)
(***************************************************************************)
LEMMA OneLineMore ==
  ASSUME NEW S, NEW lines \in Seq(S), NEW x
  PROVE  parse_btmon(Append(lines, x)) = BtmonLine(parse_btmon(lines), x)
<1> DEFINE longer == Append(lines, x)
           N == Len(lines)
<1>1. /\ N \in Nat /\ Len(longer) = N + 1 /\ longer[N + 1] = x
      /\ \A i \in 1..N : longer[i] = lines[i]
  <2>1. lines \in Seq(S \union {x})
    OBVIOUS
  <2> QED BY <2>1
<1> HIDE DEF longer, N
<1>2. PICK g : MonitorTrace(longer, N + 1, g) /\ parse_btmon(longer) = g[N + 1]
  <2>1. Len(longer) \in Nat
    BY <1>1
  <2> QED BY <1>1, <2>1, MonitorTraced
<1>3. PICK h : MonitorTrace(lines, N, h) /\ parse_btmon(lines) = h[N]
  BY <1>1, MonitorTraced DEF N
<1> DEFINE T == {n \in 0..N : g[n] # h[n]}
<1>4. T = {}
  <2> SUFFICES ASSUME T # {} PROVE FALSE
    OBVIOUS
  <2>1. PICK m \in T : \A n \in T : m <= n
    <3>1. T \in SUBSET Nat
      BY <1>1
    <3> HIDE DEF T
    <3> QED BY <3>1, LeastNatural
  <2>2. m \in 0..N /\ m \in 0..(N + 1)
    BY <1>1, <2>1
  <2>3. g[m] = IF m = 0 THEN NewScan ELSE BtmonLine(g[m - 1], longer[m])
    BY <1>2, <2>2 DEF MonitorTrace
  <2>4. h[m] = IF m = 0 THEN NewScan ELSE BtmonLine(h[m - 1], lines[m])
    BY <1>3, <2>2 DEF MonitorTrace
  <2>5. m # 0 => g[m - 1] = h[m - 1] /\ longer[m] = lines[m]
    BY <1>1, <2>1, <2>2
  <2> QED BY <2>1, <2>3, <2>4, <2>5
<1>5. g[N] = h[N]
  BY <1>1, <1>4
<1>6. g[N + 1] = BtmonLine(g[N], longer[N + 1])
  <2>1. N + 1 \in 0..(N + 1) /\ N + 1 # 0 /\ (N + 1) - 1 = N
    BY <1>1
  <2> QED BY <1>2, <2>1 DEF MonitorTrace
<1> QED BY <1>1, <1>2, <1>3, <1>5, <1>6 DEF longer

LEMMA NothingSpoilt ==
  ASSUME NEW whole, NEW scan, scan.found = whole.found, scan.total = whole.total, whole.total \in Nat,
         \A a \in DOMAIN whole.found : whole.found[a].rssi_max \in -127..20 \union {None},
         NEW spoilt, IsFiniteSet(spoilt)
  PROVE  SpoilsOnly(whole, scan, spoilt)
<1>1. Cardinality(spoilt) \in Nat
  BY FS_CardinalityType
<1>2. scan.total \in whole.total..whole.total + Cardinality(spoilt)
  BY <1>1
<1> QED BY <1>2 DEF SpoilsOnly

(***************************************************************************)
(* What the beginning of a line does to its report's device.               *)
(***************************************************************************)
LEMMA LevelsAreIntegers == -127..20 \subseteq Int
  OBVIOUS

LEMMA DigitLost ==
  ASSUME NEW v \in -127..20
  PROVE  LessADigit(v) \in -127..20 \union {None}
<1>1. CASE v \in -9..9
  BY <1>1 DEF LessADigit
<1>2. CASE v < 0 /\ v \notin -9..9
  <2> DEFINE k == (-v) \div 10
  <2>1. LessADigit(v) = -k
    BY <1>2 DEF LessADigit
  <2>2. k \in 0..12
    BY <1>2
  <2> HIDE DEF k
  <2> QED BY <2>1, <2>2
<1>3. CASE v >= 0 /\ v \notin -9..9
  <2> DEFINE k == v \div 10
  <2>1. LessADigit(v) = k
    BY <1>3 DEF LessADigit
  <2>2. k \in 0..2
    BY <1>3
  <2> HIDE DEF k
  <2> QED BY <2>1, <2>2
<1> QED BY <1>1, <1>2, <1>3

LEMMA FragmentRead ==
  ASSUME NEW line, NEW d, DOMAIN d = AdvertiserNames, d.rssi_max \in -127..20 \union {None},
         line.prefix \notin {"Address", "Address type", "Event type"},
         line.prefix = "RSSI" => line.value \in -127..20
  PROVE  LET e == ParseDevice(d, Fragment(line))
         IN  /\ DOMAIN e = AdvertiserNames /\ e.reports = d.reports /\ e.kind = d.kind /\ e.pdu = d.pdu
             /\ line.prefix # "RSSI" => e.rssi_max = d.rssi_max
             /\ e.rssi_max \in -127..20 \union {None}
<1> DEFINE f == Fragment(line)
           e == ParseDevice(d, f)
<1>1. CASE line.prefix = "RSSI"
  <2>1. f.prefix = "RSSI" /\ f.value = LessADigit(line.value)
    BY <1>1 DEF Fragment
  <2>2. f.value \in -127..20 \union {None}
    <3> DEFINE v == line.value
    <3>1. v \in -127..20
      BY <1>1
    <3> HIDE DEF v
    <3>2. LessADigit(v) \in -127..20 \union {None}
      BY <3>1, DigitLost
    <3> QED BY <2>1, <3>2 DEF v
  <2> HIDE DEF f
  <2>3. CASE f.value = None
    <3>1. e = d
      BY <2>1, <2>3 DEF ParseDevice, AdvertiserFields
    <3> QED BY <1>1, <3>1 DEF f
  <2>4. CASE f.value # None
    <3>1. e = [d EXCEPT !.rssi_last = f.value, !.rssi_min = IF @ = None THEN f.value ELSE Min({@, f.value}),
                        !.rssi_max = IF @ = None THEN f.value ELSE Max({@, f.value})]
      BY <2>1, <2>4 DEF ParseDevice, AdvertiserFields
    <3>2. /\ DOMAIN e = AdvertiserNames /\ e.reports = d.reports /\ e.pdu = d.pdu /\ e.kind = d.kind
          /\ e.rssi_max = IF d.rssi_max = None THEN f.value ELSE Max({d.rssi_max, f.value})
      BY <3>1 DEF AdvertiserNames
    <3>3. e.rssi_max \in -127..20 \union {None}
      <4> DEFINE o == d.rssi_max
                 v == f.value
      <4>1. v \in -127..20
        BY <2>2, <2>4
      <4>2. CASE o = None
        BY <3>2, <4>1, <4>2
      <4>3. CASE o # None
        <5>1. o \in -127..20
          BY <4>3
        <5> HIDE DEF o, v
        <5>2. Max({o, v}) \in {o, v}
          <6>1. o \in Int /\ v \in Int
            BY <4>1, <5>1, LevelsAreIntegers, Zenon
          <6> QED BY <6>1, GreaterLevel
        <5> QED BY <3>2, <4>1, <4>3, <5>1, <5>2 DEF o, v
      <4> QED BY <4>2, <4>3
    <3> HIDE DEF e
    <3>4. /\ DOMAIN e = AdvertiserNames /\ e.reports = d.reports /\ e.kind = d.kind /\ e.pdu = d.pdu
          /\ line.prefix # "RSSI" => e.rssi_max = d.rssi_max
          /\ e.rssi_max \in -127..20 \union {None}
      BY <1>1, <3>2, <3>3
    <3> QED BY <3>4 DEF e, f
  <2> QED BY <2>3, <2>4
<1>2. CASE line.prefix # "RSSI"
  <2>1. f.prefix # "RSSI"
    BY <1>2 DEF Fragment
  <2> HIDE DEF f
  <2>2. \/ e = d
        \/ e = [d EXCEPT !.fields[f.prefix] = f.value]
        \/ e = [d EXCEPT !.name = f.value]
        \/ e = [d EXCEPT !.name = Or(@, f.value)]
        \/ e = [d EXCEPT !.uuids = @ \union {f.value}]
    <3>1. CASE f.prefix \in AdvertiserFields
      BY <2>1, <3>1 DEF ParseDevice, AdvertiserFields
    <3>2. CASE f.prefix = "Name (complete)"
      BY <2>1, <3>2 DEF ParseDevice, AdvertiserFields
    <3>3. CASE f.prefix = "Name (short)"
      BY <2>1, <3>3 DEF ParseDevice, AdvertiserFields
    <3>4. CASE f.prefix = "uuid"
      BY <2>1, <3>4 DEF ParseDevice, AdvertiserFields
    <3>5. CASE f.prefix \notin AdvertiserFields \union {"Name (complete)", "Name (short)", "uuid"}
      BY <2>1, <3>5 DEF ParseDevice
    <3> QED BY <3>1, <3>2, <3>3, <3>4, <3>5
  <2>3. /\ DOMAIN e = AdvertiserNames /\ e.reports = d.reports /\ e.kind = d.kind /\ e.pdu = d.pdu
        /\ e.rssi_max = d.rssi_max
    <3> HIDE DEF e
    <3> QED BY <2>2 DEF AdvertiserNames
  <2> HIDE DEF e
  <2>4. /\ DOMAIN e = AdvertiserNames /\ e.reports = d.reports /\ e.kind = d.kind /\ e.pdu = d.pdu
        /\ line.prefix # "RSSI" => e.rssi_max = d.rssi_max
        /\ e.rssi_max \in -127..20 \union {None}
    BY <1>2, <2>3
  <2> QED BY <2>4 DEF e, f
<1> QED BY <1>1, <1>2

LEMMA TornLineRead ==
  ASSUME site \in Sites, captured \in 0..Len(site.capture), captured < Len(site.capture), torn = "value"
  PROVE  LET whole == parse_btmon(SubSeq(site.capture, 1, captured))
         IN  /\ IsFiniteSet(Spoilt)
             /\ SpoilsOnly(whole, BtmonLine(whole, Fragment(site.capture[captured + 1])), Spoilt)
<1> DEFINE all == site.capture
           n == captured
           lines == SubSeq(all, 1, n)
           whole == parse_btmon(lines)
           line == all[n + 1]
           f == Fragment(line)
           scan == BtmonLine(whole, f)
<1>1. /\ IsCapture(all) /\ n \in Nat /\ Len(all) \in Nat /\ n + 1 \in DOMAIN all
      /\ CaptureOK(lines, n, whole)
      /\ n > 0 => lines[n] = all[n]
  <2>1. IsCapture(all) /\ n \in Nat /\ CaptureOK(lines, n, whole)
    BY WholeLinesRead
  <2>2. Len(all) \in Nat /\ DOMAIN all = 1..Len(all) /\ all \in Seq(Range(all))
    BY <2>1, CaptureLines
  <2>3. n > 0 => lines[n] = all[n]
    <3> SUFFICES ASSUME n > 0 PROVE lines[n] = all[n]
      OBVIOUS
    <3>1. n \in 1..n /\ n <= Len(all)
      BY <2>1
    <3> QED BY <2>1, <2>2, <3>1
  <2>4. n + 1 \in 1..Len(all)
    BY <2>1, <2>2
  <2> QED BY <2>1, <2>2, <2>3, <2>4
<1>2. /\ whole.total \in Nat
      /\ \A a \in DOMAIN whole.found : whole.found[a].rssi_max \in -127..20 \union {None}
  BY FewFound
<1> HIDE DEF lines, whole
<1>3. /\ DOMAIN whole = ScanNames /\ whole.mgmt \in BOOLEAN /\ whole.in_report \in BOOLEAN
      /\ (~whole.mgmt /\ whole.in_report) <=> n > 0 /\ (all[n].prefix = "LE Advertising Report" \/ all[n].of # None)
      /\ n > 0 /\ all[n].of # None /\ all[n].prefix \notin {"Event type", "Address type"} =>
           whole.current = all[n].of.address /\ whole.current \in DOMAIN whole.found
  BY <1>1 DEF CaptureOK, PlaceOK
<1>4. \A a \in DOMAIN whole.found : DOMAIN whole.found[a] = AdvertiserNames
  BY <1>1 DEF CaptureOK, CountOK, AdvertiserOK
<1>5. IsFiniteSet({}) /\ \A x : IsFiniteSet({x}) /\ Cardinality({x}) = 1
  BY FS_EmptySet, FS_Singleton
<1>6. IsFiniteSet(Spoilt)
  BY <1>5 DEF Spoilt
<1>7. f.prefix = IF line.prefix = "uuid" THEN "part" ELSE line.prefix
  BY DEF Fragment
<1>8. CASE line.of = None
  <2>1. line.prefix \in BlockHeads \/ line.prefix = "LE Advertising Report" \/ ~(~whole.mgmt /\ whole.in_report)
    <3>1. (n + 1) - 1 = n /\ (n > 0 <=> n + 1 > 1)
      BY <1>1
    <3> QED BY <1>1, <1>3, <1>8, <3>1 DEF IsCapture
  <2>2. scan.found = whole.found /\ scan.total = whole.total
    <3>1. CASE f.prefix \in BlockHeads
      BY <1>3, <3>1 DEF BtmonLine, StartBlock, ScanNames
    <3>2. CASE f.prefix \notin BlockHeads /\ (whole.mgmt \/ (f.prefix # "LE Advertising Report" /\ ~whole.in_report))
      BY <3>2 DEF BtmonLine
    <3>3. CASE f.prefix \notin BlockHeads /\ ~whole.mgmt /\ f.prefix = "LE Advertising Report"
      BY <1>3, <3>3 DEF BtmonLine, ScanNames
    <3> QED BY <1>7, <2>1, <3>1, <3>2, <3>3 DEF BlockHeads
  <2> QED BY <1>2, <1>6, <2>2, NothingSpoilt DEF whole, lines
<1>9. CASE line.of # None
  <2>1. /\ line.prefix \notin BlockHeads /\ line.prefix # "LE Advertising Report"
        /\ n > 0 /\ (all[n].prefix = "LE Advertising Report" \/ all[n].of # None)
        /\ line.prefix \notin {"Event type", "Address type", "Address"} =>
             all[n].of = line.of /\ all[n].prefix \notin {"Event type", "Address type"}
        /\ line.prefix = "RSSI" => line.value \in -127..20
    BY <1>1, <1>9, PartRead
  <2>2. ~whole.mgmt /\ whole.in_report
    BY <1>3, <2>1
  <2>3. f.prefix \notin BlockHeads /\ f.prefix # "LE Advertising Report"
    BY <1>7, <2>1 DEF BlockHeads
  <2>4. CASE line.prefix \in {"Event type", "Address type"}
    <3>1. scan = [whole EXCEPT !.kind = f.value] \/ scan = [whole EXCEPT !.pdu = f.value]
      BY <1>7, <2>2, <2>3, <2>4 DEF BtmonLine
    <3>2. scan.found = whole.found /\ scan.total = whole.total
      BY <1>3, <3>1 DEF ScanNames
    <3> QED BY <1>2, <1>6, <3>2, NothingSpoilt DEF whole, lines
  <2>5. CASE line.prefix = "Address"
    <3>1. Spoilt = {f.value} /\ (scan = whole \/ scan = ReportOf(whole, f.value))
      BY <1>7, <1>9, <2>2, <2>3, <2>5 DEF BtmonLine, Spoilt
    <3>2. CASE scan = whole
      BY <1>2, <1>6, <3>2, NothingSpoilt DEF whole, lines
    <3>3. CASE scan = ReportOf(whole, f.value)
      <4> DEFINE x == f.value
                 met == IF x \in DOMAIN whole.found THEN whole.found[x] ELSE NewAdvertiser
                 entry == [met EXCEPT !.reports = @ + 1, !.pdu = Or(@, whole.pdu), !.kind = Or(whole.kind, @)]
      <4>1. /\ scan.total = whole.total + 1
            /\ scan.found = [a \in DOMAIN whole.found \union {x} |-> IF a = x THEN entry ELSE whole.found[a]]
        BY <1>3, <3>3 DEF ReportOf, ScanNames
      <4>2. DOMAIN met = AdvertiserNames /\ met.rssi_max \in -127..20 \union {None}
        BY <1>2, <1>4 DEF NewAdvertiser, AdvertiserNames
      <4>3. entry.rssi_max = met.rssi_max
        <5> HIDE DEF met
        <5> QED BY <4>2 DEF AdvertiserNames
      <4> HIDE DEF entry, met, x
      <4>4. scan.total \in whole.total..whole.total + Cardinality({x})
        <5>1. Cardinality({x}) = 1
          BY <1>5
        <5>2. scan.total = whole.total + 1 /\ whole.total \in Nat
          BY <1>2, <4>1
        <5> HIDE DEF scan
        <5> QED BY <5>1, <5>2
      <4>5. SpoilsOnly(whole, scan, {x})
        BY <1>2, <4>1, <4>2, <4>3, <4>4 DEF SpoilsOnly
      <4> QED BY <1>6, <3>1, <4>5 DEF x, whole, lines
    <3> QED BY <3>1, <3>2, <3>3
  <2>6. CASE line.prefix \notin {"Event type", "Address type", "Address"}
    <3> DEFINE c == whole.current
               d == whole.found[c]
               e == ParseDevice(d, f)
    <3>1. c = line.of.address /\ c \in DOMAIN whole.found
      BY <1>3, <1>9, <2>1, <2>6
    <3>2. scan = whole \/ scan = [whole EXCEPT !.found[c] = e]
      BY <1>7, <2>2, <2>3, <2>6 DEF BtmonLine
    <3>3. CASE scan = whole
      BY <1>2, <1>6, <3>3, NothingSpoilt DEF whole, lines
    <3>4. CASE scan = [whole EXCEPT !.found[c] = e]
      <4>1. scan.total = whole.total /\ scan.found = [whole.found EXCEPT ![c] = e]
        BY <1>3, <3>4 DEF ScanNames
      <4>2. /\ e.reports = d.reports /\ e.kind = d.kind /\ e.pdu = d.pdu
            /\ line.prefix # "RSSI" => e.rssi_max = d.rssi_max
            /\ e.rssi_max \in -127..20 \union {None}
        <5>1. DOMAIN d = AdvertiserNames /\ d.rssi_max \in -127..20 \union {None}
          BY <1>2, <1>4, <3>1
        <5>2. /\ line.prefix \notin {"Address", "Address type", "Event type"}
              /\ line.prefix = "RSSI" => line.value \in -127..20
          BY <2>1, <2>6
        <5> HIDE DEF d, line
        <5> QED BY <5>1, <5>2, FragmentRead
      <4>3. line.prefix = "RSSI" => Spoilt = {c}
        BY <1>9, <3>1 DEF Spoilt
      <4> HIDE DEF e
      <4>4. Cardinality(Spoilt) \in Nat
        BY <1>6, FS_CardinalityType
      <4>5. scan.total \in whole.total..whole.total + Cardinality(Spoilt)
        BY <1>2, <4>1, <4>4
      <4>6. DOMAIN scan.found = DOMAIN whole.found
        BY <4>1
      <4>7. ASSUME NEW a \in DOMAIN whole.found
            PROVE  /\ a \notin Spoilt =>
                        /\ scan.found[a].reports = whole.found[a].reports
                        /\ scan.found[a].kind = whole.found[a].kind
                        /\ scan.found[a].pdu = whole.found[a].pdu
                        /\ scan.found[a].rssi_max = whole.found[a].rssi_max
                   /\ scan.found[a].rssi_max \in -127..20 \union {None}
        <5>1. CASE a = c
          BY <3>1, <4>1, <4>2, <4>3, <5>1
        <5>2. CASE a # c
          BY <1>2, <4>1, <5>2
        <5> QED BY <5>1, <5>2
      <4>8. SpoilsOnly(whole, scan, Spoilt)
        BY <4>5, <4>6, <4>7 DEF SpoilsOnly
      <4> QED BY <1>6, <4>8 DEF whole, lines
    <3> QED BY <3>2, <3>3, <3>4
  <2> QED BY <2>4, <2>5, <2>6
<1> QED BY <1>8, <1>9

-----------------------------------------------------------------------------
(***************************************************************************)
(* The records of a scan that ran are what its parser made of the output.  *)
(***************************************************************************)
SweepKept ==
  (Done("wifi") /\ records["wifi_scan"][1].ran) =>
    site.sweep # None /\ records["wifi"] = parse_scan(site.sweep)

CaptureKept ==
  (Done("ble") /\ records["ble_scan"][1].ran) =>
    LET scan == parse_btmon(Capture)
    IN  /\ captured \in 0..Len(site.capture) /\ torn \in Tears(site.capture, captured)
        /\ records["ble_scan"][1] = BleScan(TRUE, None, scan)
        /\ records["ble"] = [address \in DOMAIN scan.found |-> BleDevice(address, scan.found[address])]

HeardInv ==
  /\ PlacesOK
  /\ written \in 0..Len(site.capture)
  /\ captured # None => captured \in 0..Len(site.capture) /\ torn \in Tears(site.capture, captured)
  /\ SweepKept /\ CaptureKept

LEMMA HeardIsSaid == HeardInv => ScansSayWhatWasHeard
<1> SUFFICES ASSUME HeardInv PROVE ScansSayWhatWasHeard
  OBVIOUS
<1>1. site \in Sites
  BY DEF HeardInv, PlacesOK
<1>2. ASSUME Done("wifi"), records["wifi_scan"][1].ran PROVE WifiTrue
  <2>1. site.sweep # None /\ records["wifi"] = parse_scan(site.sweep)
    BY <1>2 DEF HeardInv, SweepKept
  <2>2. IsSweep(site.sweep)
    BY <1>1, <2>1, SweepAssumption
  <2> QED BY <2>1, <2>2, SweepIsTrue
<1>3. ASSUME Done("ble"), records["ble_scan"][1].ran, torn # "character"
      PROVE  BleTrueBut(Spoilt)
  <2> DEFINE lines == SubSeq(site.capture, 1, captured)
             whole == parse_btmon(lines)
             scan == parse_btmon(Capture)
  <2>1. /\ captured \in 0..Len(site.capture) /\ torn \in Tears(site.capture, captured)
        /\ records["ble_scan"][1] = BleScan(TRUE, None, scan)
        /\ records["ble"] = [address \in DOMAIN scan.found |-> BleDevice(address, scan.found[address])]
    BY <1>3 DEF HeardInv, CaptureKept
  <2>2. scan # None
    BY <1>1, <2>1, CaptureAssumption DEF Capture
  <2>3. IsFiniteSet(Spoilt) /\ SpoilsOnly(whole, scan, Spoilt)
    <3>1. CASE torn = "line"
      <4>1. scan = whole
        BY <3>1 DEF Capture, CutAt
      <4>2. Spoilt = {} /\ IsFiniteSet({})
        BY <3>1, FS_EmptySet DEF Spoilt
      <4>3. /\ whole.total \in Nat
            /\ \A a \in DOMAIN whole.found : whole.found[a].rssi_max \in -127..20 \union {None}
        BY <1>1, <2>1, FewFound
      <4> HIDE DEF scan, whole
      <4> QED BY <4>1, <4>2, <4>3, NothingSpoilt
    <3>2. CASE torn = "value"
      <4>1. captured < Len(site.capture)
        BY <2>1, <3>2 DEF Tears
      <4>2. Capture = Append(lines, Fragment(site.capture[captured + 1]))
        BY <3>2 DEF Capture, CutAt
      <4>3. lines \in Seq(Range(lines))
        BY <1>1, <2>1, WholeLinesRead, CaptureLines
      <4>4. scan = BtmonLine(whole, Fragment(site.capture[captured + 1]))
        <5> HIDE DEF lines
        <5> QED BY <4>2, <4>3, OneLineMore
      <4> QED BY <1>1, <2>1, <3>2, <4>1, <4>4, TornLineRead
    <3> QED BY <1>3, <2>1, <3>1, <3>2 DEF Tears
  <2> HIDE DEF scan
  <2> QED BY <1>1, <2>1, <2>2, <2>3, CaptureIsTrue
<1> QED BY <1>2, <1>3 DEF ScansSayWhatWasHeard

LEMMA HeardKept ==
  ASSUME HeardInv, UNCHANGED <<options, pos, records, site, ble_vars>>
  PROVE  HeardInv'
<1>1. PlacesOK' /\ SweepKept' /\ CaptureKept'
  BY DEF HeardInv, PlacesOK, SweepKept, CaptureKept, Capture, Done, ble_vars
<1> QED BY <1>1 DEF HeardInv, ble_vars

LEMMA HeardWhileMonitored ==
  ASSUME HeardInv, SpawnMonitor \/ MonitorWrites \/ ScanEnds \/ ReapMonitor \/ drain
  PROVE  HeardInv'
<1>1. At("ble") /\ UNCHANGED <<options, pos, records, site>>
  BY DEF SpawnMonitor, MonitorWrites, ScanEnds, ReapMonitor, drain, collector_vars
<1>2. PlacesOK /\ PlacesOK' /\ pos \in Nat /\ site \in Sites
  BY <1>1 DEF HeardInv, PlacesOK
<1>3. ~Done("ble")'
  <2>1. pos < 4
    BY <1>1, <1>2, NextGroup, Groups4
  <2> QED BY <1>1, <1>2, <2>1, DoneAt, Groups4 DEF Done
<1>4. SweepKept'
  BY <1>1 DEF HeardInv, SweepKept, Done
<1>5. Len(site.capture) \in Nat
  BY <1>2, CaptureAssumption, CaptureLines
<1>6. /\ written' \in 0..Len(site.capture)
      /\ captured' # None => captured' \in 0..Len(site.capture) /\ torn' \in Tears(site.capture, captured')
  BY <1>5 DEF HeardInv, SpawnMonitor, MonitorWrites, ScanEnds, ReapMonitor, drain
<1> QED BY <1>1, <1>2, <1>3, <1>4, <1>6 DEF HeardInv, CaptureKept

LEMMA HeardAdded ==
  ASSUME HeardInv, CollectUsb \/ SkipSweep \/ Sweep \/ SkipBle \/ ReportBle
  PROVE  HeardInv'
<1>1. PlacesOK /\ site' = site /\ UNCHANGED ble_vars
  BY DEF HeardInv, CollectUsb, SkipSweep, Sweep, SkipBle, ReportBle
<1>2. ASSUME NEW g \in {"usb", "usb_port", "wifi", "ble"}, At(g),
             \/ \E rs : AddRecords(g, rs)
             \/ g \in {"wifi", "ble"} /\ \E scan, rs : AddScan(g, scan, rs)
      PROVE  /\ PlacesOK'
             /\ g # "wifi" => SweepKept'
             /\ g # "ble" => CaptureKept'
  <2>1. /\ PlacesOK' /\ pos' = Place[g] /\ options' = options
        /\ \A h \in GroupNames :
             h # g /\ (g \in {"wifi", "ble"} => h # ScanOf[g]) => records'[h] = records[h]
    BY <1>1, <1>2, RecordsAdded
  <2>2. \A h \in {"usb", "usb_port", "wifi", "ble"} : Done(h)' <=> (Done(h) \/ h = g)
    BY <1>1, <1>2, <2>1, DoneGrows
  <2>3. ScanOf["wifi"] = "wifi_scan" /\ ScanOf["ble"] = "ble_scan"
    BY DEF ScanOf
  <2>4. {"wifi", "wifi_scan", "ble", "ble_scan"} \subseteq GroupNames
    BY DEF GroupNames
  <2>5. g # "wifi" => records'["wifi"] = records["wifi"] /\ records'["wifi_scan"] = records["wifi_scan"]
                      /\ (Done("wifi")' <=> Done("wifi"))
    BY <2>1, <2>2, <2>3, <2>4
  <2>6. g # "ble" => records'["ble"] = records["ble"] /\ records'["ble_scan"] = records["ble_scan"]
                     /\ (Done("ble")' <=> Done("ble"))
    BY <2>1, <2>2, <2>3, <2>4
  <2>7. g # "wifi" => SweepKept'
    BY <1>1, <2>5 DEF HeardInv, SweepKept
  <2>8. g # "ble" => CaptureKept'
    <3>1. Capture' = Capture
      BY <1>1 DEF Capture, ble_vars
    <3> QED BY <1>1, <2>6, <3>1 DEF HeardInv, CaptureKept, ble_vars
  <2> QED BY <2>1, <2>7, <2>8
<1>3. /\ (written \in 0..Len(site.capture))'
      /\ (captured # None => captured \in 0..Len(site.capture) /\ torn \in Tears(site.capture, captured))'
  BY <1>1 DEF HeardInv, ble_vars
<1>4. ScanOf["wifi"] = "wifi_scan" /\ ScanOf["ble"] = "ble_scan"
  BY DEF ScanOf
<1>5. CASE CollectUsb
  <2>1. PICK g \in {"usb", "usb_port"} : At(g) /\ \E rs : AddRecords(g, rs)
    BY <1>5 DEF CollectUsb
  <2>2. PlacesOK' /\ SweepKept' /\ CaptureKept'
    BY <1>2, <2>1
  <2> QED BY <1>3, <2>2 DEF HeardInv
<1>6. CASE SkipSweep \/ Sweep
  <2>1. At("wifi") /\ \E scan, rs : AddScan("wifi", scan, rs)
    BY <1>6 DEF SkipSweep, Sweep
  <2>2. PlacesOK' /\ CaptureKept'
    BY <1>2, <2>1
  <2>3. SweepKept'
    <3>1. CASE \E reason : AddScan("wifi", WifiScan(FALSE, reason, None), <<>>)
      <4>1. PICK reason : AddScan("wifi", WifiScan(FALSE, reason, None), <<>>)
        BY <3>1
      <4>2. records'["wifi_scan"][1].ran = FALSE
        BY <1>1, <1>4, <4>1, ScanAdded DEF WifiScan
      <4> QED BY <4>2 DEF SweepKept
    <3>2. CASE /\ site.sweep # None
               /\ \E count : AddScan("wifi", WifiScan(TRUE, None, count), parse_scan(site.sweep))
      <4>1. PICK count : AddScan("wifi", WifiScan(TRUE, None, count), parse_scan(site.sweep))
        BY <3>2
      <4>2. records'["wifi"] = parse_scan(site.sweep)
        BY <1>1, <4>1, ScanAdded
      <4> QED BY <1>1, <3>2, <4>2 DEF SweepKept
    <3> QED BY <1>6, <3>1, <3>2 DEF SkipSweep, Sweep
  <2> QED BY <1>3, <2>2, <2>3 DEF HeardInv
<1>7. CASE SkipBle \/ ReportBle
  <2>1. At("ble") /\ \E scan, rs : AddScan("ble", scan, rs)
    BY <1>7 DEF SkipBle, ReportBle, ble_skipped
  <2>2. PlacesOK' /\ SweepKept'
    BY <1>2, <2>1
  <2>3. CaptureKept'
    <3>1. CASE \E reason : AddScan("ble", BleScan(FALSE, reason, None), <<>>)
      <4>1. PICK reason : AddScan("ble", BleScan(FALSE, reason, None), <<>>)
        BY <3>1
      <4>2. records'["ble_scan"][1].ran = FALSE
        BY <1>1, <1>4, <4>1, ScanAdded DEF BleScan
      <4> QED BY <4>2 DEF CaptureKept
    <3>2. CASE ReportBle /\ scanned # "failed"
      <4> DEFINE scan == parse_btmon(Capture)
                 rs == [address \in DOMAIN scan.found |-> BleDevice(address, scan.found[address])]
      <4>1. captured # None /\ AddScan("ble", BleScan(TRUE, None, scan), rs)
        BY <3>2 DEF ReportBle
      <4>2. records'["ble_scan"][1] = BleScan(TRUE, None, scan) /\ records'["ble"] = rs
        BY <1>1, <1>4, <4>1, ScanAdded
      <4>3. /\ Capture' = Capture /\ captured' = captured /\ torn' = torn
            /\ captured \in 0..Len(site.capture) /\ torn \in Tears(site.capture, captured)
        BY <1>1, <4>1 DEF Capture, ble_vars, HeardInv
      <4> QED BY <1>1, <4>2, <4>3 DEF CaptureKept
    <3> QED BY <1>7, <3>1, <3>2 DEF SkipBle, ReportBle, ble_skipped
  <2> QED BY <1>3, <2>2, <2>3 DEF HeardInv
<1> QED BY <1>5, <1>6, <1>7

(***************************************************************************)
(* The records of a sweep and of a scan window say what was on the air,    *)
(* for every output of iw and btmon and wherever the capture was cut: no   *)
(* network or device is missing, doubled, invented or has another's        *)
(* values, but for the one device a cut line is about (a capture cut       *)
(* within a character is lost).                                            *)
(***************************************************************************)
THEOREM WhatWasHeardIsSaid == DevicesSpec => []ScansSayWhatWasHeard
<1>1. DevicesInit => HeardInv
  <2> SUFFICES ASSUME DevicesInit PROVE HeardInv
    OBVIOUS
  <2>1. pos = 0 /\ PlacesOK /\ site \in Sites /\ written = 0 /\ captured = None
    BY DEF DevicesInit, CollectorInit, PlacesOK, GroupNames
  <2>2. ~Done("wifi") /\ ~Done("ble")
    BY <2>1 DEF Done
  <2>3. Len(site.capture) \in Nat
    BY <2>1, CaptureAssumption, CaptureLines
  <2>4. SweepKept /\ CaptureKept
    BY <2>2 DEF SweepKept, CaptureKept
  <2>5. 0 \in 0..Len(site.capture)
    BY <2>3
  <2> QED BY <2>1, <2>4, <2>5 DEF HeardInv
<1>2. HeardInv /\ [DevicesNext]_devices_vars => HeardInv'
  <2> SUFFICES ASSUME HeardInv, [DevicesNext]_devices_vars PROVE HeardInv'
    OBVIOUS
  <2>1. CASE \/ StartDevices \/ PostDevices \/ ReceivingDevices \/ UNCHANGED devices_vars
             \/ LookAtRadio \/ AccessPointStarts
    <3>1. UNCHANGED <<options, pos, records, site, ble_vars>>
      BY <2>1 DEF StartDevices, PostDevices, ReceivingDevices, ParseArgs, Publish, Connect, WriteRequest,
           ReadTimeout, ReadResponse, Receiver, Receive, Answer, Close, devices_vars, collector_vars,
           LookAtRadio, AccessPointStarts
    <3> QED BY <3>1, HeardKept
  <2>2. CASE SpawnMonitor \/ MonitorWrites \/ ScanEnds \/ ReapMonitor \/ drain
    BY <2>2, HeardWhileMonitored
  <2>3. CASE CollectUsb \/ SkipSweep \/ Sweep \/ SkipBle \/ ReportBle
    BY <2>3, HeardAdded
  <2> QED BY <2>1, <2>2, <2>3 DEF DevicesNext, CollectDevices
<1>3. HeardInv => ScansSayWhatWasHeard
  BY HeardIsSaid
<1> QED BY <1>1, <1>2, <1>3, PTL DEF DevicesSpec
=============================================================================
