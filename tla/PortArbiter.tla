----------------------------- MODULE PortArbiter -----------------------------
(***************************************************************************)
(* What SerialPort::open promises the daemons that share the host's serial *)
(* adapters, whatever system calls it is made of: a producer holds at most *)
(* one port, nobody else does meanwhile, only the holder sets its line up, *)
(* and a port goes from one producer to another only by being given up.    *)
(***************************************************************************)
CONSTANTS
  Producers,
  Ttys,
  NoTty,       \* what a producer that holds nothing holds
  NoProducer

VARIABLES
  held,        \* producer -> the tty it holds
  line         \* tty -> whose speed and mode it has

vars == <<held, line>>

Init ==
  /\ held = [p \in Producers |-> NoTty]
  /\ line = [t \in Ttys |-> NoProducer]

Acquire(p, t) ==
  /\ held[p] = NoTty
  /\ \A q \in Producers : held[q] # t
  /\ held' = [held EXCEPT ![p] = t]
  /\ UNCHANGED line

Configure(p) ==
  /\ held[p] # NoTty
  /\ line' = [line EXCEPT ![held[p]] = p]
  /\ UNCHANGED held

GiveUp(p) ==
  /\ held[p] # NoTty
  /\ held' = [held EXCEPT ![p] = NoTty]
  /\ UNCHANGED line

Next ==
  \E p \in Producers :
    \/ \E t \in Ttys : Acquire(p, t)
    \/ Configure(p)
    \/ GiveUp(p)

Spec == Init /\ [][Next]_vars
=============================================================================
