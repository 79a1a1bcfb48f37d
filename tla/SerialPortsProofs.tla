-------------------------- MODULE SerialPortsProofs --------------------------
(***************************************************************************)
(* Port arbitration for any number of producers, ttys and crashes.         *)
(***************************************************************************)
EXTENDS SerialPorts, TLAPS

OpenFiles == {"opened"} \union Holding

(***************************************************************************)
(* The inductive invariant ties the kernel's view (locks, open files,      *)
(* TIOCEXCL) to where each producer is: OneReader alone says nothing about *)
(* a producer that is about to try the lock.                               *)
(***************************************************************************)
HoldersLock == \A p \in Producers : doing[p] \in Holding => lock[port[p]] = p
LocksHeld ==
  \A t \in Ttys : lock[t] # NoProducer =>
    lock[t] \in Producers /\ doing[lock[t]] \in Holding /\ port[lock[t]] = t
FilesOpen == \A t \in Ttys, p \in Producers : p \in fds[t] => doing[p] \in OpenFiles /\ port[p] = t
OpenersOpen == \A p \in Producers : doing[p] \in OpenFiles => p \in fds[port[p]]
ExclusiveOpen == \A t \in Ttys : exclusive[t] => fds[t] # {}

Inv ==
  /\ PortsTypeOK
  /\ HoldersLock /\ LocksHeld /\ FilesOpen /\ OpenersOpen /\ ExclusiveOpen
  /\ LineIsTheReaders

(***************************************************************************)
(* Closing a file keeps the kernel's view in step with a producer that is  *)
(* back in its sweep, or gone.                                             *)
(***************************************************************************)
LEMMA CloseInv ==
  ASSUME Inv, NEW p \in Producers, doing[p] \in OpenFiles, Close(p),
         NEW then \in {"sweep", "down"}, doing' = [doing EXCEPT ![p] = then],
         port' = port, untried' \in [Producers -> SUBSET Ttys], settled' = settled, plugged' = plugged,
         remembered' = remembered
  PROVE  Inv'
<1>0. PortsTypeOK /\ port[p] \in Ttys
  BY DEF Inv, PortsTypeOK
<1>1. PortsTypeOK'
  <2>1. doing' \in [Producers -> {"down", "pause", "sweep", "opened"} \union Holding]
    BY <1>0 DEF PortsTypeOK
  <2>2. fds' \in [Ttys -> SUBSET Producers] /\ lock' \in [Ttys -> Producers \union {NoProducer}]
    BY <1>0 DEF PortsTypeOK, Close
  <2>3. exclusive' \in [Ttys -> BOOLEAN]
    BY <1>0 DEF PortsTypeOK, Close
  <2> QED BY <1>0, <2>1, <2>2, <2>3 DEF PortsTypeOK, Close
<1>2. \A q \in Producers : doing'[q] = IF q = p THEN then ELSE doing[q]
  BY <1>0 DEF PortsTypeOK
<1>3. then \notin Holding /\ then \notin OpenFiles
  BY DEF Holding, OpenFiles
<1>4. \A t \in Ttys : /\ fds'[t] = IF t = port[p] THEN fds[t] \ {p} ELSE fds[t]
                      /\ lock'[t] = IF t = port[p] /\ lock[t] = p THEN NoProducer ELSE lock[t]
  BY <1>0 DEF PortsTypeOK, Close
<1>5. HoldersLock'
  BY <1>0, <1>2, <1>3, <1>4 DEF Inv, HoldersLock, PortsTypeOK
<1>6. LocksHeld'
  <2> SUFFICES ASSUME NEW t \in Ttys, lock'[t] # NoProducer
               PROVE  lock'[t] \in Producers /\ doing'[lock'[t]] \in Holding /\ port[lock'[t]] = t
    BY DEF LocksHeld
  <2>1. lock'[t] = lock[t] /\ lock[t] # NoProducer
    BY <1>4
  <2>2. lock[t] \in Producers /\ doing[lock[t]] \in Holding /\ port[lock[t]] = t
    BY <2>1 DEF Inv, LocksHeld
  <2>3. lock[t] # p
    BY <1>4, <2>1, <2>2, NoHolderAssumption
  <2> QED BY <1>2, <2>1, <2>2, <2>3
<1>7. FilesOpen'
  <2> SUFFICES ASSUME NEW t \in Ttys, NEW q \in Producers, q \in fds'[t]
               PROVE  doing'[q] \in OpenFiles /\ port[q] = t
    BY DEF FilesOpen
  <2>1. q \in fds[t] /\ (t = port[p] => q # p)
    BY <1>4
  <2>2. doing[q] \in OpenFiles /\ port[q] = t
    BY <2>1 DEF Inv, FilesOpen
  <2> QED BY <1>2, <2>1, <2>2
<1>8. ExclusiveOpen'
  <2> SUFFICES ASSUME NEW t \in Ttys, exclusive'[t] PROVE fds'[t] # {}
    BY DEF ExclusiveOpen
  <2>1. CASE t = port[p]
    <3>1. exclusive[t] /\ fds[t] # {p}
      BY <1>0, <2>1 DEF Close, PortsTypeOK
    <3>2. fds[t] # {}
      BY <3>1 DEF Inv, ExclusiveOpen
    <3>3. PICK q \in fds[t] : q # p
      BY <3>1, <3>2
    <3> QED BY <1>4, <2>1, <3>3
  <2>2. CASE t # port[p]
    <3>1. exclusive[t]
      BY <1>0, <2>2 DEF Close, PortsTypeOK
    <3> QED BY <1>4, <2>2, <3>1 DEF Inv, ExclusiveOpen
  <2> QED BY <2>1, <2>2
<1>9. OpenersOpen'
  <2> SUFFICES ASSUME NEW q \in Producers, doing'[q] \in OpenFiles PROVE q \in fds'[port[q]]
    BY DEF OpenersOpen
  <2>1. q # p /\ doing[q] \in OpenFiles /\ port[q] \in Ttys
    BY <1>0, <1>2, <1>3 DEF PortsTypeOK
  <2>2. q \in fds[port[q]]
    BY <2>1 DEF Inv, OpenersOpen
  <2> QED BY <1>4, <2>1, <2>2
<1>10. LineIsTheReaders'
  BY <1>2 DEF Inv, LineIsTheReaders, Close
<1> QED BY <1>1, <1>5, <1>6, <1>7, <1>8, <1>9, <1>10 DEF Inv

LEMMA InitInv == PortsInit => Inv
<1> SUFFICES ASSUME PortsInit PROVE Inv
  OBVIOUS
<1>1. PortsTypeOK
  BY DEF PortsInit, PortsTypeOK
<1> QED BY <1>1 DEF PortsInit, Inv, HoldersLock, LocksHeld, FilesOpen, OpenersOpen,
                    ExclusiveOpen, LineIsTheReaders, Holding, OpenFiles

LEMMA NextInv == Inv /\ [PortsNext]_ports_vars => Inv'
<1> SUFFICES ASSUME Inv, [PortsNext]_ports_vars PROVE Inv'
  OBVIOUS
<1> USE DEF Inv
<1>1. ASSUME NEW p \in Producers, Sweep(p) PROVE Inv'
  <2>1. \A q \in Producers : doing'[q] = IF q = p THEN "sweep" ELSE doing[q]
    BY <1>1 DEF Sweep, PortsTypeOK
  <2>2. PortsTypeOK'
    BY <1>1 DEF Sweep, PortsTypeOK, tty_vars
  <2>3. doing[p] \notin OpenFiles
    BY <1>1 DEF Sweep, OpenFiles, Holding
  <2> QED BY <1>1, <2>1, <2>2, <2>3 DEF Sweep, tty_vars, HoldersLock, LocksHeld, FilesOpen,
             OpenersOpen, ExclusiveOpen,
             LineIsTheReaders, Holding, OpenFiles
<1>2. ASSUME NEW p \in Producers, OpenFile(p) PROVE Inv'
  <2>1. PICK t \in order(p) :
          /\ untried' = [untried EXCEPT ![p] = @ \ {t}]
          /\ \/ /\ t \in plugged /\ ~Refused(t)
                /\ doing' = [doing EXCEPT ![p] = "opened"]
                /\ port' = [port EXCEPT ![p] = t]
                /\ fds' = [fds EXCEPT ![t] = @ \union {p}]
             \/ UNCHANGED <<doing, port, fds>>
    BY <1>2 DEF OpenFile
  <2>2. /\ settled' = settled /\ plugged' = plugged /\ remembered' = remembered /\ lock' = lock
        /\ exclusive' = exclusive /\ wire' = wire /\ doing[p] = "sweep"
    BY <1>2 DEF OpenFile
  <2>3. doing[p] \notin OpenFiles /\ untried' \in [Producers -> SUBSET Ttys]
    BY <2>1, <2>2 DEF OpenFiles, Holding, PortsTypeOK
  <2>4. CASE UNCHANGED <<doing, port, fds>>
    BY <2>1, <2>2, <2>3, <2>4 DEF PortsTypeOK, HoldersLock, LocksHeld, FilesOpen, OpenersOpen,
                                  ExclusiveOpen, LineIsTheReaders
  <2>5. CASE /\ t \in plugged
             /\ doing' = [doing EXCEPT ![p] = "opened"]
             /\ port' = [port EXCEPT ![p] = t]
             /\ fds' = [fds EXCEPT ![t] = @ \union {p}]
    <3>1. t \in Ttys
      BY <2>5 DEF PortsTypeOK
    <3>2. PortsTypeOK'
      BY <2>2, <2>3, <2>5, <3>1 DEF PortsTypeOK
    <3>3. \A q \in Producers : /\ doing'[q] = IF q = p THEN "opened" ELSE doing[q]
                               /\ port'[q] = IF q = p THEN t ELSE port[q]
      BY <2>5 DEF PortsTypeOK
    <3>4. \A u \in Ttys : fds'[u] = IF u = t THEN fds[u] \union {p} ELSE fds[u]
      BY <2>5 DEF PortsTypeOK
    <3>5. "opened" \notin Holding /\ "opened" \in OpenFiles
      BY DEF Holding, OpenFiles
    <3>6. HoldersLock' /\ LineIsTheReaders'
      BY <2>2, <3>3, <3>5 DEF HoldersLock, LineIsTheReaders, Holding
    <3>7. LocksHeld'
      BY <2>2, <2>3, <3>3, <3>5 DEF LocksHeld, OpenFiles
    <3>8. FilesOpen'
      <4> SUFFICES ASSUME NEW u \in Ttys, NEW q \in Producers, q \in fds'[u]
                   PROVE  doing'[q] \in OpenFiles /\ port'[q] = u
        BY DEF FilesOpen
      <4>1. CASE q = p /\ u = t
        BY <3>3, <3>5, <4>1
      <4>2. CASE ~(q = p /\ u = t)
        <5>1. q \in fds[u]
          BY <3>4, <4>2
        <5>2. doing[q] \in OpenFiles /\ port[q] = u
          BY <5>1 DEF FilesOpen
        <5> QED BY <2>3, <3>3, <5>2
      <4> QED BY <4>1, <4>2
    <3>10. ExclusiveOpen'
      BY <2>2, <3>4 DEF ExclusiveOpen
    <3>9. OpenersOpen'
      <4> SUFFICES ASSUME NEW q \in Producers, doing'[q] \in OpenFiles PROVE q \in fds'[port'[q]]
        BY DEF OpenersOpen
      <4>1. CASE q = p
        BY <3>1, <3>3, <3>4, <4>1
      <4>2. CASE q # p
        <5>1. q \in fds[port[q]] /\ port[q] \in Ttys
          BY <3>3, <4>2 DEF OpenersOpen, PortsTypeOK
        <5> QED BY <3>3, <3>4, <4>2, <5>1
      <4> QED BY <4>1, <4>2
    <3> QED BY <3>2, <3>6, <3>7, <3>8, <3>9, <3>10
  <2> QED BY <2>1, <2>4, <2>5
<1>3. ASSUME NEW p \in Producers, try_lock_exclusive(p) PROVE Inv'
  <2>1. /\ doing[p] = "opened" /\ settled' = settled /\ plugged' = plugged /\ port' = port /\ untried' = untried
        /\ remembered' = remembered
    BY <1>3 DEF try_lock_exclusive
  <2>2. CASE lock[port[p]] = NoProducer
    <3>1. /\ lock' = [lock EXCEPT ![port[p]] = p] /\ doing' = [doing EXCEPT ![p] = "locked"]
          /\ fds' = fds /\ exclusive' = exclusive /\ wire' = wire
      BY <1>3, <2>2 DEF try_lock_exclusive
    <3>2. PortsTypeOK'
      BY <2>1, <3>1 DEF PortsTypeOK, Holding
    <3>3. \A q \in Producers : doing'[q] = IF q = p THEN "locked" ELSE doing[q]
      BY <3>1 DEF PortsTypeOK
    <3>4. \A u \in Ttys : lock'[u] = IF u = port[p] THEN p ELSE lock[u]
      BY <3>1 DEF PortsTypeOK
    <3>5. HoldersLock'
      BY <2>1, <2>2, <3>3, <3>4, NoHolderAssumption DEF HoldersLock, PortsTypeOK
    <3>6. LocksHeld'
      BY <2>1, <3>3, <3>4 DEF LocksHeld, Holding
    <3>7. FilesOpen' /\ ExclusiveOpen'
      BY <2>1, <3>1, <3>3 DEF FilesOpen, ExclusiveOpen, OpenFiles, Holding
    <3>8. OpenersOpen'
      BY <2>1, <3>1, <3>3 DEF OpenersOpen, OpenFiles
    <3>9. LineIsTheReaders'
      BY <2>1, <3>1, <3>3 DEF LineIsTheReaders
    <3> QED BY <3>2, <3>5, <3>6, <3>7, <3>8, <3>9
  <2>3. CASE lock[port[p]] # NoProducer
    BY <1>3, <2>1, <2>3, CloseInv DEF try_lock_exclusive, OpenFiles, PortsTypeOK
  <2> QED BY <2>2, <2>3
<1>4. ASSUME NEW p \in Producers, ioctl_tiocexcl(p) PROVE Inv'
  <2>1. /\ doing[p] = "locked" /\ doing' = [doing EXCEPT ![p] = "excluding"]
        /\ exclusive' = [exclusive EXCEPT ![port[p]] = TRUE]
        /\ settled' = settled /\ plugged' = plugged /\ port' = port /\ untried' = untried /\ remembered' = remembered
        /\ fds' = fds /\ lock' = lock /\ wire' = wire
    BY <1>4 DEF ioctl_tiocexcl
  <2>2. PortsTypeOK'
    BY <2>1 DEF PortsTypeOK, Holding
  <2>3. \A q \in Producers : doing'[q] = IF q = p THEN "excluding" ELSE doing[q]
    BY <2>1 DEF PortsTypeOK
  <2>4. ExclusiveOpen'
    <3>1. fds[port[p]] # {}
      BY <2>1 DEF OpenersOpen, OpenFiles, Holding
    <3>2. \A t \in Ttys : t # port[p] => exclusive'[t] = exclusive[t]
      BY <2>1 DEF PortsTypeOK
    <3> QED BY <2>1, <3>1, <3>2 DEF ExclusiveOpen
  <2>5. HoldersLock' /\ LocksHeld' /\ FilesOpen' /\ OpenersOpen' /\ LineIsTheReaders'
    BY <2>1, <2>3 DEF HoldersLock, LocksHeld, FilesOpen, OpenersOpen, LineIsTheReaders,
                      Holding, OpenFiles
  <2> QED BY <2>2, <2>4, <2>5
<1>5. ASSUME NEW p \in Producers, tcsetattr(p) PROVE Inv'
  <2>1. /\ doing[p] = "excluding" /\ doing' = [doing EXCEPT ![p] = "probing"]
        /\ wire' = [wire EXCEPT ![port[p]] = p]
        /\ settled' = settled /\ plugged' = plugged /\ port' = port /\ untried' = untried /\ remembered' = remembered
        /\ fds' = fds /\ lock' = lock /\ exclusive' = exclusive
    BY <1>5 DEF tcsetattr
  <2>2. PortsTypeOK'
    BY <2>1 DEF PortsTypeOK, Holding
  <2>3. \A q \in Producers : doing'[q] = IF q = p THEN "probing" ELSE doing[q]
    BY <2>1 DEF PortsTypeOK
  <2>4. LineIsTheReaders'
    <3> SUFFICES ASSUME NEW q \in Producers, doing'[q] \in {"probing", "found"}
                 PROVE  wire'[port[q]] = q
      BY <2>1 DEF LineIsTheReaders
    <3>1. CASE q = p
      BY <2>1, <3>1 DEF PortsTypeOK
    <3>2. CASE q # p
      <4>1. lock[port[p]] = p /\ lock[port[q]] = q
        BY <2>1, <2>3, <3>2 DEF HoldersLock, Holding
      <4>2. port[q] # port[p] /\ port[q] \in Ttys
        BY <3>2, <4>1 DEF PortsTypeOK
      <4> QED BY <2>1, <2>3, <3>2, <4>2 DEF PortsTypeOK, LineIsTheReaders
    <3> QED BY <3>1, <3>2
  <2>5. HoldersLock' /\ LocksHeld' /\ FilesOpen' /\ OpenersOpen' /\ ExclusiveOpen'
    BY <2>1, <2>3 DEF HoldersLock, LocksHeld, FilesOpen, OpenersOpen, ExclusiveOpen,
                      Holding, OpenFiles
  <2> QED BY <2>2, <2>4, <2>5
<1>6. ASSUME NEW p \in Producers, probe(p) PROVE Inv'
  <2>1. doing[p] = "probing" /\ settled' = settled /\ plugged' = plugged /\ port' = port
        /\ untried' \in [Producers -> SUBSET Ttys]
    BY <1>6 DEF probe, PortsTypeOK
  <2>2. CASE Device[port[p]] = p
    <3>1. /\ doing' = [doing EXCEPT ![p] = "found"] /\ remembered' \subseteq Ttys
          /\ fds' = fds /\ lock' = lock /\ exclusive' = exclusive /\ wire' = wire
      BY <1>6, <2>2 DEF probe, tty_vars, PortsTypeOK
    <3>2. PortsTypeOK'
      BY <2>1, <3>1 DEF PortsTypeOK, Holding
    <3>3. \A q \in Producers : doing'[q] = IF q = p THEN "found" ELSE doing[q]
      BY <3>1 DEF PortsTypeOK
    <3> QED BY <2>1, <3>1, <3>2, <3>3 DEF HoldersLock, LocksHeld, FilesOpen, OpenersOpen,
               ExclusiveOpen, LineIsTheReaders, Holding, OpenFiles
  <2>3. CASE Device[port[p]] # p
    BY <1>6, <2>1, <2>3, CloseInv DEF probe, OpenFiles, Holding
  <2> QED BY <2>2, <2>3
<1>7. ASSUME NEW p \in Producers, SweepEnds(p) PROVE Inv'
  <2>1. PICK then \in {"pause", "down"} : doing' = [doing EXCEPT ![p] = then]
    BY <1>7 DEF SweepEnds
  <2>2. \A q \in Producers : doing'[q] = IF q = p THEN then ELSE doing[q]
    BY <2>1 DEF PortsTypeOK
  <2>3. PortsTypeOK'
    BY <1>7, <2>1 DEF SweepEnds, PortsTypeOK, tty_vars
  <2>4. doing[p] \notin OpenFiles
    BY <1>7 DEF SweepEnds, OpenFiles, Holding
  <2> QED BY <1>7, <2>2, <2>3, <2>4 DEF SweepEnds, tty_vars, HoldersLock, LocksHeld, FilesOpen,
             OpenersOpen, ExclusiveOpen, LineIsTheReaders, Holding, OpenFiles
<1>8. ASSUME NEW p \in Producers, PortFails(p) PROVE Inv'
  BY <1>8, CloseInv DEF PortFails, OpenFiles, Holding, PortsTypeOK
<1>9. ASSUME NEW p \in Producers, Exits(p) PROVE Inv'
  <2>0. untried' \in [Producers -> SUBSET Ttys]
    BY <1>9 DEF Exits, PortsTypeOK
  <2>1. CASE doing[p] \in OpenFiles
    BY <1>9, <2>0, <2>1, CloseInv DEF Exits, OpenFiles
  <2>2. CASE doing[p] \notin OpenFiles
    <3>1. /\ doing' = [doing EXCEPT ![p] = "down"] /\ settled' = settled /\ plugged' = plugged /\ port' = port
          /\ untried' \in [Producers -> SUBSET Ttys] /\ remembered' = remembered /\ UNCHANGED tty_vars
      BY <1>9, <2>0, <2>2 DEF Exits, OpenFiles
    <3>2. \A q \in Producers : doing'[q] = IF q = p THEN "down" ELSE doing[q]
      BY <3>1 DEF PortsTypeOK
    <3>3. PortsTypeOK'
      BY <3>1 DEF PortsTypeOK, tty_vars
    <3> QED BY <2>2, <3>1, <3>2, <3>3 DEF tty_vars, HoldersLock, LocksHeld, FilesOpen,
               OpenersOpen, ExclusiveOpen, LineIsTheReaders, Holding, OpenFiles
  <2> QED BY <2>1, <2>2
<1>10. ASSUME NEW t \in Ttys, Unplug(t) \/ Plug(t) PROVE Inv'
  BY <1>10 DEF Unplug, Plug, tty_vars, PortsTypeOK, HoldersLock, LocksHeld, FilesOpen, OpenersOpen,
               ExclusiveOpen, LineIsTheReaders
<1>12. CASE Settles
  BY <1>12 DEF Settles, tty_vars, PortsTypeOK, HoldersLock, LocksHeld, FilesOpen, OpenersOpen,
               ExclusiveOpen, LineIsTheReaders
<1>11. CASE UNCHANGED ports_vars
  BY <1>11 DEF ports_vars, PortsTypeOK, HoldersLock, LocksHeld, FilesOpen, OpenersOpen, ExclusiveOpen,
               LineIsTheReaders
<1> QED BY <1>1, <1>2, <1>3, <1>4, <1>5, <1>6, <1>7, <1>8, <1>9, <1>10, <1>11, <1>12
       DEF PortsNext, Connect

LEMMA InvAlways == PortsSpec => []Inv
  BY InitInv, NextInv, PTL DEF PortsSpec

(***************************************************************************)
(* For any number of producers and ttys, whatever dies or is unplugged, no *)
(* two producers ever read one port (flock before tcsetattr in `open`).    *)
(***************************************************************************)
THEOREM NeverTwoReaders == PortsSpec => []OneReader
<1>1. Inv => OneReader
  BY DEF Inv, HoldersLock, OneReader
<1> QED BY <1>1, InvAlways, PTL

(***************************************************************************)
(* The line keeps the settings of the producer that reads it.              *)
(***************************************************************************)
THEOREM LineStaysTheReaders == PortsSpec => []LineIsTheReaders
<1>1. Inv => LineIsTheReaders
  BY DEF Inv
<1> QED BY <1>1, InvAlways, PTL

(***************************************************************************)
(* No lock and no TIOCEXCL outlives the producer that set it, unless       *)
(* another producer is in the middle of opening the port.                  *)
(***************************************************************************)
THEOREM NothingGoesStale == PortsSpec => []BusyMeansHeld
<1>1. Inv => BusyMeansHeld
  <2> SUFFICES ASSUME Inv, NEW t \in Ttys, lock[t] # NoProducer \/ exclusive[t]
               PROVE  \E p \in Producers : port[p] = t /\ doing[p] \in OpenFiles
    BY DEF BusyMeansHeld, Refused, OpenFiles
  <2>1. CASE lock[t] # NoProducer
    BY <2>1 DEF Inv, LocksHeld, OpenFiles
  <2>2. CASE exclusive[t]
    <3>1. PICK p \in fds[t] : TRUE
      BY <2>2 DEF Inv, ExclusiveOpen
    <3>2. p \in Producers
      BY DEF Inv, PortsTypeOK
    <3> QED BY <3>1, <3>2 DEF Inv, FilesOpen
  <2> QED BY <2>1, <2>2
<1> QED BY <1>1, InvAlways, PTL
Held == [p \in Producers |-> IF doing[p] \in Holding THEN port[p] ELSE NoTty]

(***************************************************************************)
(* A step of a producer p that keeps every line and every other producer's *)
(* hold is the arbiter's, if it is a hold given up or none at all.         *)
(***************************************************************************)
LEMMA HoldLost ==
  ASSUME Inv, NEW p \in Producers, doing'[p] \notin Holding,
         \A q \in Producers \ {p} : doing'[q] = doing[q] /\ port'[q] = port[q],
         UNCHANGED wire
  PROVE  [Arbiter!Next]_(Arbiter!vars)
<1>0. PortsTypeOK
  BY DEF Inv
<1>1. \A q \in Producers \ {p} : Held'[q] = Held[q]
  BY DEF Held
<1>2. Held'[p] = NoTty
  BY DEF Held
<1>3. CASE doing[p] \in Holding
  <2>1. Held[p] # NoTty
    BY <1>0, <1>3, NoHolderAssumption DEF Held, PortsTypeOK
  <2>2. Held' = [Held EXCEPT ![p] = NoTty]
    BY <1>1, <1>2 DEF Held
  <2>3. Arbiter!GiveUp(p)
    BY <2>1, <2>2 DEF Arbiter!GiveUp, Held
  <2> QED BY <2>3 DEF Arbiter!Next
<1>4. CASE doing[p] \notin Holding
  <2>1. Held' = Held
    BY <1>1, <1>2, <1>4 DEF Held
  <2> QED BY <2>1 DEF Arbiter!vars, Held
<1> QED BY <1>3, <1>4

(***************************************************************************)
(* For any number of producers and ttys, the system calls of `open` with   *)
(* every crash and failure around them implement the arbiter.              *)
(***************************************************************************)
THEOREM ArbitrationImplemented == PortsSpec => ArbitratesPorts
<1>1. PortsInit => Arbiter!Init
  BY DEF PortsInit, Arbiter!Init, Holding
<1>2. Inv /\ [PortsNext]_ports_vars => [Arbiter!Next]_(Arbiter!vars)
  <2> SUFFICES ASSUME Inv, [PortsNext]_ports_vars PROVE [Arbiter!Next]_(Arbiter!vars)
    OBVIOUS
  <2>0. PortsTypeOK /\ HoldersLock /\ LocksHeld
    BY DEF Inv
  <2>1. ASSUME NEW p \in Producers, UNCHANGED wire, UNCHANGED port,
               NEW from \in {"down", "pause", "sweep", "opened"} \union Holding, doing[p] = from,
               NEW to \in {"down", "pause", "sweep", "opened"} \union Holding,
               doing' = [doing EXCEPT ![p] = to], from \in Holding <=> to \in Holding
        PROVE  [Arbiter!Next]_(Arbiter!vars)
    <3>1. Held' = Held
      BY <2>0, <2>1 DEF Held, PortsTypeOK
    <3> QED BY <2>1, <3>1 DEF Arbiter!vars, Held
  <2>2. ASSUME NEW p \in Producers, UNCHANGED wire, UNCHANGED port,
               NEW to \in {"sweep", "down"}, doing' = [doing EXCEPT ![p] = to]
        PROVE  [Arbiter!Next]_(Arbiter!vars)
    <3>1. doing'[p] = to
      BY <2>0, <2>2 DEF PortsTypeOK, Holding
    <3>2. \A q \in Producers \ {p} : doing'[q] = doing[q] /\ port'[q] = port[q]
      BY <2>0, <2>2 DEF PortsTypeOK
    <3> QED BY <2>2, <3>1, <3>2, HoldLost DEF Holding
  <2>3. ASSUME NEW p \in Producers, Sweep(p) PROVE [Arbiter!Next]_(Arbiter!vars)
    BY <2>0, <2>1, <2>3 DEF Sweep, tty_vars, Holding
  <2>4. ASSUME NEW p \in Producers, OpenFile(p) PROVE [Arbiter!Next]_(Arbiter!vars)
    <3>1. UNCHANGED wire
      BY <2>4 DEF OpenFile
    <3>2. CASE UNCHANGED <<doing, port>>
      BY <3>1, <3>2 DEF Arbiter!vars
    <3>3. CASE /\ doing' = [doing EXCEPT ![p] = "opened"]
               /\ \E t \in order(p) : port' = [port EXCEPT ![p] = t]
      <4>1. doing'[p] = "opened"
        BY <2>0, <3>3 DEF PortsTypeOK, Holding
      <4>2. \A q \in Producers \ {p} : doing'[q] = doing[q] /\ port'[q] = port[q]
        BY <2>0, <3>3 DEF PortsTypeOK
      <4> QED BY <3>1, <4>1, <4>2, HoldLost DEF Holding
    <3> QED BY <2>4, <3>2, <3>3 DEF OpenFile
  <2>5. ASSUME NEW p \in Producers, try_lock_exclusive(p) PROVE [Arbiter!Next]_(Arbiter!vars)
    <3>1. CASE lock[port[p]] = NoProducer
      <4>1. doing[p] = "opened" /\ doing' = [doing EXCEPT ![p] = "locked"] /\ UNCHANGED <<port, wire>>
        BY <2>5, <3>1 DEF try_lock_exclusive
      <4>2. PICK t \in Ttys : port[p] = t
        BY <2>0 DEF PortsTypeOK
      <4>3. Held[p] = NoTty
        BY <2>0, <4>1 DEF PortsTypeOK, Held, Holding
      <4>4. \A q \in Producers : Held[q] # t
        BY <2>0, <3>1, <4>2, NoHolderAssumption DEF HoldersLock, Held
      <4>5. Held' = [Held EXCEPT ![p] = t]
        BY <2>0, <4>1, <4>2 DEF PortsTypeOK, Held, Holding
      <4>6. Arbiter!Acquire(p, t)
        BY <4>1, <4>3, <4>4, <4>5 DEF Arbiter!Acquire, Held
      <4> QED BY <4>6 DEF Arbiter!Next
    <3>2. CASE lock[port[p]] # NoProducer
      BY <2>2, <2>5, <3>2 DEF try_lock_exclusive, Close
    <3> QED BY <3>1, <3>2
  <2>6. ASSUME NEW p \in Producers, ioctl_tiocexcl(p) PROVE [Arbiter!Next]_(Arbiter!vars)
    BY <2>0, <2>1, <2>6 DEF ioctl_tiocexcl, Holding
  <2>7. ASSUME NEW p \in Producers, tcsetattr(p) PROVE [Arbiter!Next]_(Arbiter!vars)
    <3>1. Held' = Held /\ Held[p] = port[p]
      BY <2>0, <2>7 DEF tcsetattr, Held, Holding, PortsTypeOK
    <3>2. Held[p] # NoTty
      BY <2>0, <3>1, NoHolderAssumption DEF PortsTypeOK
    <3>3. Arbiter!Configure(p)
      BY <2>7, <3>1, <3>2 DEF tcsetattr, Arbiter!Configure, Held
    <3> QED BY <3>3 DEF Arbiter!Next
  <2>8. ASSUME NEW p \in Producers, probe(p) PROVE [Arbiter!Next]_(Arbiter!vars)
    <3>1. CASE Device[port[p]] = p
      BY <2>0, <2>1, <2>8, <3>1 DEF probe, tty_vars, Holding
    <3>2. CASE Device[port[p]] # p
      BY <2>2, <2>8, <3>2 DEF probe, Close
    <3> QED BY <3>1, <3>2
  <2>9. ASSUME NEW p \in Producers, SweepEnds(p) PROVE [Arbiter!Next]_(Arbiter!vars)
    BY <2>0, <2>1, <2>9 DEF SweepEnds, tty_vars, Holding
  <2>10. ASSUME NEW p \in Producers, PortFails(p) \/ Exits(p) PROVE [Arbiter!Next]_(Arbiter!vars)
    BY <2>2, <2>10 DEF PortFails, Exits, Close, tty_vars
  <2>11. ASSUME NEW t \in Ttys, Unplug(t) \/ Plug(t) PROVE [Arbiter!Next]_(Arbiter!vars)
    BY <2>11 DEF Unplug, Plug, tty_vars, Arbiter!vars
  <2>12. CASE Settles \/ UNCHANGED ports_vars
    BY <2>12 DEF Settles, ports_vars, tty_vars, Arbiter!vars
  <2> QED BY <2>3, <2>4, <2>5, <2>6, <2>7, <2>8, <2>9, <2>10, <2>11, <2>12 DEF PortsNext, Connect
<1> QED BY <1>1, <1>2, InvAlways, PTL DEF PortsSpec, ArbitratesPorts, Arbiter!Spec
=============================================================================
