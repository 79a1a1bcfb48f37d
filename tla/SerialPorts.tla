----------------------------- MODULE SerialPorts -----------------------------
(***************************************************************************)
(* How two producers share the host's USB serial adapters: SerialPort::open*)
(* (port.rs), probe and order (discover.rs) and connect_within (main.rs)   *)
(* of packages/bms-monitoring and packages/inverter-monitoring.            *)
(*                                                                         *)
(* Both daemons sweep the same /dev/ttyUSB* set from boot on.  Each system *)
(* call of `open` is an action of its own, because the other producer may  *)
(* be anywhere in its own `open` in between.  A probe is one action: by    *)
(* then the port is held, and what it finds depends on the device alone.   *)
(***************************************************************************)
EXTENDS Integers, FiniteSets

CONSTANTS
  Producers,   \* the daemons: "bms" and "inverter"
  Ttys,        \* the ttys udev can create
  NoProducer,  \* nobody
  NoTty,       \* no tty
  Remembers,   \* the producers that try a remembered device first
  Device       \* tty -> the producer whose device is behind it, or NoProducer

ASSUME NoHolderAssumption == NoProducer \notin Producers /\ NoTty \notin Ttys
ASSUME DeviceAssumption == Device \in [Ttys -> Producers \union {NoProducer}]
ASSUME RemembersAssumption == Remembers \subseteq Producers

VARIABLES
  settled,     \* calls no longer fail, processes die or adapters vanish
  plugged,     \* the ttys that exist now
  doing,       \* where each producer is
  port,        \* the tty each producer is opening, probing or reading
  untried,     \* the candidates of the sweep still to be tried
  remembered,  \* the tty in the last-device file, as a set of at most one
  fds,         \* tty -> the producers with an open file on it
  lock,        \* tty -> who holds the flock
  exclusive,   \* tty -> TIOCEXCL is set
  wire         \* tty -> whose speed and mode tcsetattr left on it

ports_vars == <<settled, plugged, doing, port, untried, remembered, fds, lock, exclusive, wire>>
tty_vars == <<fds, lock, exclusive, wire>>

Holding == {"locked", "excluding", "probing", "found"}

-----------------------------------------------------------------------------
\* The file is dropped: the kernel releases the flock with the last reference
\* to it, and TIOCEXCL with the last open file of the tty.
Close(p) ==
  LET t == port[p]
  IN  /\ fds' = [fds EXCEPT ![t] = @ \ {p}]
      /\ lock' = [lock EXCEPT ![t] = IF @ = p THEN NoProducer ELSE @]
      /\ exclusive' = [exclusive EXCEPT ![t] = @ /\ fds[t] # {p}]
      /\ UNCHANGED wire

\* One sweep: enumerate, then `order` -- the candidates in any order, the
\* remembered one first.
Sweep(p) ==
  /\ doing[p] \in {"down", "pause"}
  /\ doing' = [doing EXCEPT ![p] = "sweep"]
  /\ untried' = [untried EXCEPT ![p] = plugged]
  /\ UNCHANGED <<settled, plugged, port, remembered, tty_vars>>

\* Mutant: only the remembered device is tried once there is one.
order_remembered_only(p) ==
  LET hint == IF p \in Remembers THEN remembered ELSE {}
  IN  IF hint # {} THEN untried[p] \intersect hint ELSE untried[p]

order(p) ==
  LET hint == IF p \in Remembers THEN remembered ELSE {}
  IN  IF untried[p] \intersect hint # {} THEN untried[p] \intersect hint ELSE untried[p]

\* The kernel refuses a second open of an exclusive tty.
Refused(t) == exclusive[t] /\ fds[t] # {}

\* open(2): EBUSY or an error moves on to the next candidate.
OpenFile(p) ==
  /\ doing[p] = "sweep"
  /\ \E t \in order(p) :
       /\ untried' = [untried EXCEPT ![p] = @ \ {t}]
       /\ \/ /\ t \in plugged /\ ~Refused(t)
             /\ doing' = [doing EXCEPT ![p] = "opened"]
             /\ port' = [port EXCEPT ![p] = t]
             /\ fds' = [fds EXCEPT ![t] = @ \union {p}]
          \/ /\ t \notin plugged \/ Refused(t) \/ ~settled
             /\ UNCHANGED <<doing, port, fds>>
  /\ UNCHANGED <<settled, plugged, remembered, lock, exclusive, wire>>

\* Mutant: the flock is waved through.
try_lock_shared(p) ==
  /\ doing[p] = "opened"
  /\ lock' = [lock EXCEPT ![port[p]] = p]
  /\ doing' = [doing EXCEPT ![p] = "locked"]
  /\ UNCHANGED <<settled, fds, exclusive, wire, plugged, port, untried, remembered>>

\* try_lock_exclusive: whoever comes second closes, having touched nothing.
try_lock_exclusive(p) ==
  /\ doing[p] = "opened"
  /\ IF lock[port[p]] = NoProducer
     THEN /\ lock' = [lock EXCEPT ![port[p]] = p]
          /\ doing' = [doing EXCEPT ![p] = "locked"]
          /\ UNCHANGED <<fds, exclusive, wire>>
     ELSE Close(p) /\ doing' = [doing EXCEPT ![p] = "sweep"]
  /\ UNCHANGED <<settled, plugged, port, untried, remembered>>

ioctl_tiocexcl(p) ==
  /\ doing[p] = "locked"
  /\ exclusive' = [exclusive EXCEPT ![port[p]] = TRUE]
  /\ doing' = [doing EXCEPT ![p] = "excluding"]
  /\ UNCHANGED <<settled, plugged, port, untried, remembered, fds, lock, wire>>

\* tcsetattr and fcntl: from here on the port is read.
tcsetattr(p) ==
  /\ doing[p] = "excluding"
  /\ wire' = [wire EXCEPT ![port[p]] = p]
  /\ doing' = [doing EXCEPT ![p] = "probing"]
  /\ UNCHANGED <<settled, plugged, port, untried, remembered, fds, lock, exclusive>>

\* Any call of `open` after the lock, or the probe, fails: the file is closed
\* and the sweep goes on.
PortFails(p) ==
  /\ ~settled
  /\ doing[p] \in {"opened", "locked", "excluding", "probing"}
  /\ Close(p) /\ doing' = [doing EXCEPT ![p] = "sweep"]
  /\ UNCHANGED <<settled, plugged, port, untried, remembered>>

\* Mutant: the port of another device is kept open while the sweep goes on.
probe_keeps(p) ==
  /\ doing[p] = "probing"
  /\ doing' = [doing EXCEPT ![p] = IF Device[port[p]] = p THEN "found" ELSE "sweep"]
  /\ remembered' = IF Device[port[p]] = p /\ p \in Remembers THEN {port[p]} ELSE remembered
  /\ UNCHANGED <<settled, plugged, port, untried, tty_vars>>

\* `probe` decides; the device found is remembered, another port is closed.
probe(p) ==
  /\ doing[p] = "probing"
  /\ IF Device[port[p]] = p
     THEN /\ doing' = [doing EXCEPT ![p] = "found"] /\ untried' = [untried EXCEPT ![p] = {}]
          /\ \/ p \in Remembers /\ remembered' = {port[p]}
             \/ (p \in Remembers => ~settled) /\ UNCHANGED remembered
          /\ UNCHANGED tty_vars
     ELSE Close(p) /\ doing' = [doing EXCEPT ![p] = "sweep"] /\ UNCHANGED <<untried, remembered>>
  /\ UNCHANGED <<settled, plugged, port>>

\* connect_within: the sweep found nothing, and the window is still open or
\* it is not, which ends the process until systemd restarts it.
SweepEnds(p) ==
  /\ doing[p] = "sweep" /\ untried[p] = {}
  /\ \E then \in {"pause", "down"} : doing' = [doing EXCEPT ![p] = then]
  /\ UNCHANGED <<settled, plugged, port, untried, remembered, tty_vars>>

\* The process dies, or `run` returns an error (the adapter is gone, the
\* device fell silent): every file it has is closed.
Exits(p) ==
  /\ ~settled
  /\ doing[p] # "down"
  /\ doing' = [doing EXCEPT ![p] = "down"] /\ untried' = [untried EXCEPT ![p] = {}]
  /\ IF doing[p] \in {"opened"} \union Holding THEN Close(p) ELSE UNCHANGED tty_vars
  /\ UNCHANGED <<settled, plugged, port, remembered>>

\* An adapter vanishes; its open files stay open until their owners notice.
Unplug(t) ==
  /\ ~settled
  /\ t \in plugged
  /\ plugged' = plugged \ {t}
  /\ UNCHANGED <<settled, doing, port, untried, remembered, tty_vars>>

\* udev creates a tty; the kernel hands out no minor that is still open.
Plug(t) ==
  /\ t \notin plugged /\ fds[t] = {}
  /\ plugged' = plugged \union {t}
  /\ UNCHANGED <<settled, doing, port, untried, remembered, tty_vars>>

\* From here on nothing goes wrong any more.
Settles ==
  /\ ~settled /\ settled' = TRUE
  /\ UNCHANGED <<plugged, doing, port, untried, remembered, tty_vars>>

-----------------------------------------------------------------------------
PortsInit ==
  /\ settled = FALSE
  /\ plugged = {}
  /\ doing = [p \in Producers |-> "down"]
  /\ port \in [Producers -> Ttys]
  /\ untried = [p \in Producers |-> {}]
  /\ remembered \in {{}} \union {{t} : t \in Ttys}
  /\ fds = [t \in Ttys |-> {}]
  /\ lock = [t \in Ttys |-> NoProducer]
  /\ exclusive = [t \in Ttys |-> FALSE]
  /\ wire = [t \in Ttys |-> NoProducer]

Connect(p) ==
  \/ Sweep(p) \/ OpenFile(p) \/ try_lock_exclusive(p) \/ ioctl_tiocexcl(p)
  \/ tcsetattr(p) \/ probe(p) \/ SweepEnds(p)

PortsNext ==
  \/ \E p \in Producers : Connect(p) \/ PortFails(p) \/ Exits(p)
  \/ \E t \in Ttys : Unplug(t) \/ Plug(t)
  \/ Settles

PortsSpec == PortsInit /\ [][PortsNext]_ports_vars

(***************************************************************************)
(* A producer that can go on does (its probes end by their timeouts, its   *)
(* pauses and RestartSec elapse), and udev creates the ttys.               *)
(***************************************************************************)
PortsFairSpec ==
  /\ PortsSpec
  /\ \A p \in Producers : WF_ports_vars(Connect(p))
  /\ \A t \in Ttys : WF_ports_vars(Plug(t))
-----------------------------------------------------------------------------
(* Properties.                                                             *)

PortsTypeOK ==
  /\ settled \in BOOLEAN
  /\ plugged \subseteq Ttys
  /\ doing \in [Producers -> {"down", "pause", "sweep", "opened"} \union Holding]
  /\ port \in [Producers -> Ttys]
  /\ untried \in [Producers -> SUBSET Ttys]
  /\ remembered \subseteq Ttys
  /\ fds \in [Ttys -> SUBSET Producers]
  /\ lock \in [Ttys -> Producers \union {NoProducer}]
  /\ exclusive \in [Ttys -> BOOLEAN]
  /\ wire \in [Ttys -> Producers \union {NoProducer}]

(***************************************************************************)
(* However the opens interleave, at most one producer is past the lock of  *)
(* a tty, so no two ever read one input queue (open: "exactly one wins     *)
(* however the opens interleave").                                         *)
(***************************************************************************)
OneReader ==
  \A p, q \in Producers :
    doing[p] \in Holding /\ doing[q] \in Holding /\ port[p] = port[q] => p = q

(***************************************************************************)
(* A producer reads its port at its own speed until it closes it: the      *)
(* other one, opening, losing, dying or retrying beside it, never changes  *)
(* the line under it (open: "a `Busy` return closes the fd having done     *)
(* none of them").                                                         *)
(***************************************************************************)
LineIsTheReaders ==
  \A p \in Producers : doing[p] \in {"probing", "found"} => wire[port[p]] = p

(***************************************************************************)
(* Nothing goes stale: a port is refused, or its lock taken, only while    *)
(* some live producer is opening, probing or reading it.  Every way out of *)
(* `open` and of a probe that found another device drops the file          *)
(* (try_lock_exclusive: "the kernel drops the lock when that fd closes,    *)
(* with no lockfile to go stale").                                         *)
(***************************************************************************)
BusyMeansHeld ==
  \A t \in Ttys : lock[t] # NoProducer \/ Refused(t) =>
    \E p \in Producers : port[p] = t /\ doing[p] \in {"opened"} \union Holding

(***************************************************************************)
(* Whatever crashed, failed or was unplugged before: once that is over and *)
(* one producer has found its device, the other one finds its own.  Losing *)
(* ports to the other's probes, or a remembered tty that is now another's, *)
(* only delays it (connect_within, order).                                 *)
(***************************************************************************)
OneFoundThenAll ==
  settled /\ (\E p \in Producers : doing[p] = "found") ~> \A q \in Producers : doing[q] = "found"

(***************************************************************************)
(* Together the system calls of `open` and the closes, crashes and lost    *)
(* adapters around them are an arbiter: a port is held by one producer at  *)
(* a time, only the holder touches its line, and it changes hands only by  *)
(* being given up (port.rs: "exactly one wins however the opens            *)
(* interleave").                                                           *)
(***************************************************************************)
Arbiter ==
  INSTANCE PortArbiter
    WITH line <- wire,
         held <- [p \in Producers |-> IF doing[p] \in Holding THEN port[p] ELSE NoTty]
ArbitratesPorts == Arbiter!Spec
=============================================================================
