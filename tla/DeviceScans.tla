----------------------------- MODULE DeviceScans -----------------------------
(***************************************************************************)
(* What packages/detected-devices makes of what it reads: the names and    *)
(* the tree of /sys/bus/usb/devices (usb.rs), the output of `iw` (wifi.rs) *)
(* and of `btmon` (ble.rs).                                                *)
(*                                                                         *)
(* A name in sysfs is the sequence of its tokens ("usb3-port1" is          *)
(* <<"usb", "3", "-port", "1">>).  A text is the sequence of its lines, and*)
(* a line the prefix it is recognised by and its value; a value that does  *)
(* not parse is None.                                                      *)
(***************************************************************************)
EXTENDS Optional

CONSTANT Numbers  \* the tokens that are digits only

\* The tokens that mean something in a name, and any other text.
Token == {"usb", "-", "0", ".", ":", "-port"} \union STRING

\* The part of a text before position i, and the position of a token.
Before(name, i) == SubSeq(name, 1, i - 1)
IndexOf(name, token) == Position(name, LAMBDA t : t = token)

-----------------------------------------------------------------------------
(***************************************************************************)
(* USB.  An entry of the directory is [name, bus, devnum, children]; a     *)
(* child of an entry is [name, dir, dev, state, children], where dev says  *)
(* that it holds a `dev` file.                                             *)
(***************************************************************************)
\* The device an interface belongs to, <<>> for an entry that is a device
\* itself, None for one that is neither.
classify(name) ==
  LET colon == IndexOf(name, ":")
  IN  IF name = <<>> \/ colon = 1 THEN None
      ELSE IF colon = 0 THEN <<>>
      ELSE Before(name, colon)

\* The interface of root hub usb1 is 1-0:1.0, and nothing is found at 1-0.
canonical_device_path(raw) ==
  IF Len(raw) = 3 /\ raw[1] \in Numbers /\ raw[2] = "-" /\ raw[3] = "0" THEN <<"usb", raw[1]>> ELSE raw

\* Mutant: the port of a hub below a root hub hosts a device whose path is
\* written as at the root.
SameRuleEverywhere(port) ==
  LET at == IndexOf(port, "-port")
      prefix == Before(port, at)
  IN  IF at = 0 THEN None
      ELSE IF prefix[1] = "usb" THEN <<prefix[2], "-", port[at + 1]>>
      ELSE prefix \o <<"-", port[at + 1]>>

\* The path of the device a port hosts: `-` below a root hub, `.` elsewhere.
port_device_path(port) ==
  LET at == IndexOf(port, "-port")
      prefix == Before(port, at)
  IN  IF at = 0 \/ at + 1 # Len(port) \/ port[at + 1] \notin Numbers \/ prefix = <<>> THEN None
      ELSE IF Len(prefix) = 2 /\ prefix[1] = "usb" /\ prefix[2] \in Numbers THEN <<prefix[2], "-", port[at + 1]>>
      ELSE prefix \o <<".", port[at + 1]>>

\* The device nodes of an interface: its directories with a `dev` file, and
\* those one level below the ones without.
interface_nodes(children) ==
  LET Nodes(cs) == {c \in cs : c.dir /\ c.dev}
  IN  {n.name : n \in Nodes(children) \union
                        UNION {Nodes(c.children) : c \in {d \in children : d.dir /\ ~d.dev}}}

\* tree is the directory, or None when it cannot be read.
usb_records(tree) ==
  LET RecordOf(e) ==
        LET device == classify(e.name)
        IN  IF device = <<>>
            THEN [type |-> "usb", path |-> e.name, bus |-> e.bus, devnum |-> e.devnum]
            ELSE [type |-> "usb.interface", path |-> canonical_device_path(device),
                  nodes |-> interface_nodes(e.children)]
      known == {i \in DOMAIN tree : classify(tree[i].name) # None}
  IN  IF tree = None THEN <<>> ELSE [i \in known |-> RecordOf(tree[i])]

\* The ports are below the hubs' interfaces; the bus number is the hub's.
usb_port_records(tree) ==
  LET Hub(e) == Find(tree, LAMBDA d : d.name = canonical_device_path(classify(e.name)))
      PortOf(e, c) ==
        [type |-> "usb_port", port |-> c.name, path |-> port_device_path(c.name),
         bus |-> Opt(Hub(e), LAMBDA d : d.bus), state |-> c.state]
      interfaces == {i \in DOMAIN tree : classify(tree[i].name) \notin {None, <<>>}}
      ports == UNION {{i} \X {c \in tree[i].children : port_device_path(c.name) # None} : i \in interfaces}
  IN  IF tree = None THEN <<>> ELSE [p \in ports |-> PortOf(tree[p[1]], p[2])]

\* How the kernel names the interfaces of a device, the ports of a hub and the
\* device at a port (external).
InterfaceName(device, n) ==
  (IF device[1] = "usb" THEN <<device[2], "-", "0">> ELSE device) \o <<":", n>>
PortName(hub, n) == hub \o <<"-port", n>>
DeviceName(hub, n) ==
  IF hub[1] = "usb" THEN <<hub[2], "-", n>> ELSE hub \o <<".", n>>

\* The devices of a tree, the interfaces of one and the ports below one
\* (external).
DevicesOf(tree) == {i \in DOMAIN tree : ":" \notin Range(tree[i].name)}
InterfacesOf(tree, d) == {i \in DOMAIN tree : tree[i].name = InterfaceName(tree[d].name, Last(tree[i].name))}
PortsOf(tree, i) == {c \in tree[i].children : "-port" \in Range(c.name) /\ Last(c.name) \in Numbers}

\* Port c of interface i of hub h hosts device d (external).
IsAt(tree, d, h, i, c) ==
  LET n == Last(c.name)
  IN  /\ i \in InterfacesOf(tree, h) /\ c \in PortsOf(tree, i) /\ c.name = PortName(tree[h].name, n)
      /\ tree[d].name = DeviceName(tree[h].name, n) /\ n # "0"
      /\ tree[d].bus = tree[h].bus

\* What the directory shows (external): devices and their interfaces, each
\* once.  Every device but a root hub is at a port of a hub of its bus, and a
\* port is below one interface of its hub.
IsSysfs(tree) ==
  /\ tree \in Seq(Range(tree)) /\ None \notin Range(tree) /\ None \notin Seq(Token)
  /\ \A i \in DOMAIN tree :
       /\ tree[i].name \in Seq(Token) \ {<<>>}
       /\ \A c \in tree[i].children : c.name \in Seq(Token)
       /\ \A j \in DOMAIN tree : tree[i].name = tree[j].name => i = j
       /\ i \notin DevicesOf(tree) => \E d \in DevicesOf(tree) : i \in InterfacesOf(tree, d)
  /\ \A d \in DevicesOf(tree) :
       /\ "-port" \notin Range(tree[d].name)
       /\ IF tree[d].name[1] = "usb" THEN Len(tree[d].name) = 2 /\ tree[d].name[2] \in Numbers
          ELSE \E h \in DevicesOf(tree) : \E i \in DOMAIN tree : \E c \in tree[i].children : IsAt(tree, d, h, i, c)
       /\ \A i \in InterfacesOf(tree, d) : \A c \in PortsOf(tree, i) :
            /\ c.name = PortName(tree[d].name, Last(c.name))
            /\ \A j \in InterfacesOf(tree, d) : \A e \in PortsOf(tree, j) : e.name = c.name => i = j /\ e = c

-----------------------------------------------------------------------------
(***************************************************************************)
(* `iw`.                                                                   *)
(***************************************************************************)
\* The lines whose value becomes a field as it is, the last one of a block
\* counting.
BssFields == {"freq", "signal", "beacon interval", "channel", "width", "pairwise"}
Standards == {"ht", "vht", "he"}

NewBss(line) ==
  [bssid |-> line.value, associated |-> line.associated, ssid |-> None, last_seen |-> None, country |-> None,
   security |-> None, suites |-> None, wps |-> None, standards |-> <<>>, fields |-> [f \in BssFields |-> None]]

push_standard(bss, name) ==
  [bss EXCEPT !.standards = IF \E i \in DOMAIN @ : @[i] = name THEN @ ELSE Append(@, name)]

\* What one line of a block adds to it.
ParseElement(bss, line) ==
  CASE line.prefix = "last seen" -> IF line.value = None THEN bss ELSE [bss EXCEPT !.last_seen = line.value]
    [] line.prefix = "SSID" -> IF line.value = "" THEN bss ELSE [bss EXCEPT !.ssid = line.value]
    [] line.prefix = "Country" -> IF line.value = None THEN bss ELSE [bss EXCEPT !.country = line.value]
    [] line.prefix = "RSN" -> [bss EXCEPT !.security = "wpa2"]
    [] line.prefix = "WPA" -> [bss EXCEPT !.security = Or(@, "wpa")]
    [] line.prefix = "suites" -> [bss EXCEPT !.suites = line.value,
                                             !.security = IF "SAE" \in line.value THEN "wpa3" ELSE @]
    [] line.prefix = "WPS" -> [bss EXCEPT !.wps = TRUE]
    [] line.prefix \in BssFields -> [bss EXCEPT !.fields[line.prefix] = line.value]
    [] line.prefix \in Standards -> push_standard(bss, line.prefix)
    [] OTHER -> bss

\* A line "BSS ..." starts a block if a BSSID follows ("BSS Load:" does not);
\* lines before the first block belong to nobody.
ScanLine(out, line) ==
  IF line.prefix = "BSS"
  THEN IF line.value = None THEN out ELSE Append(out, NewBss(line))
  ELSE IF out = <<>> THEN out
  ELSE [out EXCEPT ![Len(out)] = ParseElement(@, line)]

parse_scan(lines) ==
  LET after[n \in 0..Len(lines)] == IF n = 0 THEN <<>> ELSE ScanLine(after[n - 1], lines[n])
      out == after[Len(lines)]
  IN  [i \in DOMAIN out |-> [out[i] EXCEPT !.security = Or(@, "open")]]

\* What a sweep prints (external): a block for each network, begun by its BSSID
\* and with one signal; SAE is one of the suites of the RSN element.  line.of is
\* the network a line is about.
IsSweep(lines) ==
  /\ lines \in Seq(Range(lines))
  /\ \A i \in DOMAIN lines :
       IF lines[i].prefix = "BSS" /\ lines[i].value # None
       THEN lines[i].of = lines[i].value /\ \A j \in 1..i - 1 : lines[j].of # lines[i].of
       ELSE i > 1 /\ lines[i].of = lines[i - 1].of
  /\ \A j \in DOMAIN lines : \A i \in 1..j - 1 : lines[i].of = lines[j].of =>
       /\ ~(lines[i].prefix = "signal" /\ lines[j].prefix = "signal")
       /\ ~(lines[i].prefix = "suites" /\ "SAE" \in lines[i].value /\ lines[j].prefix = "RSN")

\* `iw dev`: the type of the interface, in the block that names it.
scan_blocked_reason(dev, interface) ==
  LET block == Find(dev, LAMBDA b : b.interface = interface)
  IN  IF block = None \/ block.type = None THEN "interface-down"
      ELSE IF block.type = "managed" THEN None
      ELSE IF block.type = "AP" THEN "ap-mode"
      ELSE "interface-down"

-----------------------------------------------------------------------------
(***************************************************************************)
(* `btmon`.                                                                *)
(***************************************************************************)
\* What a block begins with: the management channel, a command, an event.
BlockHeads == {"@", "<", ">"}

\* The lines whose value becomes a field of the device as it is.
AdvertiserFields == {"Flags", "TX power", "Company"}

NewAdvertiser ==
  [kind |-> "public", pdu |-> None, rssi_last |-> None, rssi_min |-> None, rssi_max |-> None, reports |-> 0,
   name |-> None, uuids |-> {}, fields |-> [f \in AdvertiserFields |-> None]]

connectable(a) == Opt(a.pdu, LAMBDA p : p \in {"ADV_IND", "ADV_DIRECT_IND"})

\* Mutant: the blocks of the management channel are read like the others.
StartsReportAnywhere(scan, line) ==
  [scan EXCEPT !.current = None, !.kind = None, !.pdu = None]

\* A block begins: whose lines are not a report until its heading says so.
StartBlock(scan, line) ==
  [scan EXCEPT !.mgmt = (line.prefix = "@"), !.in_report = FALSE,
               !.current = None, !.kind = None, !.pdu = None]

\* An address: a report of it, with the types that were printed before it.
ReportOf(scan, address) ==
  LET known == IF address \in DOMAIN scan.found THEN scan.found[address] ELSE NewAdvertiser
      entry == [known EXCEPT !.reports = @ + 1, !.pdu = Or(@, scan.pdu), !.kind = Or(scan.kind, @)]
  IN  [scan EXCEPT !.total = @ + 1, !.current = address, !.kind = None,
                   !.pdu = IF known.pdu = None THEN None ELSE @,
                   !.found = [a \in DOMAIN @ \union {address} |-> IF a = address THEN entry ELSE @[a]]]

\* A line about the device whose address came last.
ParseDevice(a, line) ==
  CASE line.prefix = "RSSI" /\ line.value # None ->
         [a EXCEPT !.rssi_last = line.value,
                   !.rssi_min = IF @ = None THEN line.value ELSE Min({@, line.value}),
                   !.rssi_max = IF @ = None THEN line.value ELSE Max({@, line.value})]
    [] line.prefix \in AdvertiserFields -> [a EXCEPT !.fields[line.prefix] = line.value]
    [] line.prefix = "Name (complete)" -> [a EXCEPT !.name = line.value]
    [] line.prefix = "Name (short)" -> [a EXCEPT !.name = Or(@, line.value)]
    [] line.prefix = "uuid" -> [a EXCEPT !.uuids = @ \union {line.value}]
    [] OTHER -> a

BtmonLine(scan, line) ==
  IF line.prefix \in BlockHeads THEN StartBlock(scan, line)
  ELSE IF scan.mgmt THEN scan
  ELSE IF line.prefix = "LE Advertising Report" THEN [scan EXCEPT !.in_report = TRUE]
  ELSE IF ~scan.in_report THEN scan
  ELSE CASE line.prefix = "Address type" -> [scan EXCEPT !.kind = line.value]
         [] line.prefix = "Event type" -> [scan EXCEPT !.pdu = line.value]
         [] line.prefix = "Address" -> IF line.value = None THEN scan ELSE ReportOf(scan, line.value)
         [] OTHER ->
              IF scan.current = None THEN scan
              ELSE [scan EXCEPT !.found[scan.current] = ParseDevice(@, line)]

\* [found: address -> advertiser, total], and where in the text it is.
NewScan ==
  [found |-> <<>>, total |-> 0, current |-> None, kind |-> None, pdu |-> None, mgmt |-> FALSE, in_report |-> FALSE]

parse_btmon(lines) ==
  LET after[n \in 0..Len(lines)] == IF n = 0 THEN NewScan ELSE BtmonLine(after[n - 1], lines[n])
  IN  after[Len(lines)]

\* What btmon prints (external).  line.of is the report a line is part of, or
\* None outside of the reports.  All that follows the heading of reports in its
\* block is part of one (the lines nobody reads, like "Num reports", are left
\* out); a report is its types, its address and the rest.  An address is of one
\* kind.
IsCapture(lines) ==
  LET Heading(i) == lines[i].prefix = "LE Advertising Report"
      Follows(i, prefixes) == i > 1 /\ lines[i - 1].of = lines[i].of /\ lines[i - 1].prefix \in prefixes
      IsPart(line) == line.of # None
  IN  /\ lines \in Seq(Range(lines))
      /\ \A i \in DOMAIN lines :
           /\ Heading(i) => i > 1 /\ lines[i - 1].prefix = ">"
           /\ IsPart(lines[i]) <=>
                /\ lines[i].prefix \notin BlockHeads /\ ~Heading(i)
                /\ i > 1 /\ (Heading(i - 1) \/ IsPart(lines[i - 1]))
           /\ IsPart(lines[i]) =>
                /\ lines[i].of.address # None /\ lines[i].of.kind \in {"public", "random"}
                /\ CASE lines[i].prefix = "Event type" -> lines[i].value = lines[i].of.pdu
                     [] lines[i].prefix = "Address type" ->
                          lines[i].value = lines[i].of.kind /\ Follows(i, {"Event type"})
                     [] lines[i].prefix = "Address" ->
                          lines[i].value = lines[i].of.address /\ Follows(i, {"Address type"})
                     [] OTHER ->
                          /\ i > 1 /\ lines[i - 1].of = lines[i].of
                          /\ lines[i - 1].prefix \notin {"Event type", "Address type"}
                          /\ lines[i].prefix = "RSSI" => lines[i].value \in -127..20
      /\ \A line, other \in {l \in Range(lines) : IsPart(l)} :
           line.of.address = other.of.address => line.of.kind = other.of.kind

\* btmon is killed and its pipe is read in chunks: the output ends after a line,
\* within one, or within one of its characters.
Tears(capture, n) == IF n < Len(capture) THEN {"line", "value", "character"} ELSE {"line"}

\* A number without its last digit, which is no number when it had one.
LessADigit(v) == IF v \in -9..9 THEN None ELSE IF v < 0 THEN -((-v) \div 10) ELSE v \div 10

\* The beginning of a line, which the parser reads like a whole one: a level
\* without its last digit, "part" of an address, of a name or of flags.  A UUID
\* is read up to its closing parenthesis, so its beginning is not one.
Fragment(line) ==
  [prefix |-> IF line.prefix = "uuid" THEN "part" ELSE line.prefix,
   value |-> IF line.prefix = "RSSI" THEN LessADigit(line.value) ELSE "part",
   of |-> line.of]

\* What is left of a capture of which n lines are whole.  String::from_utf8: one
\* that was cut within a character is lost.
CutAt(capture, n, torn) ==
  CASE torn = "line" -> SubSeq(capture, 1, n)
    [] torn = "value" -> Append(SubSeq(capture, 1, n), Fragment(capture[n + 1]))
    [] torn = "character" -> <<>>

Heard(scan, Test(_)) == Cardinality({a \in DOMAIN scan.found : Test(scan.found[a])})

\* How many devices are near, at middle distance and far, in dBm.
distance_buckets(scan) ==
  LET In(low, high) == Heard(scan, LAMBDA a : a.rssi_max # None /\ a.rssi_max >= low /\ a.rssi_max <= high)
  IN  <<In(-59, 20), In(-80, -60), In(-127, -81)>>

strongest_dbm(scan) ==
  LET levels == {scan.found[a].rssi_max : a \in DOMAIN scan.found} \ {None}
  IN  IF levels = {} THEN None ELSE Max(levels)
=============================================================================
