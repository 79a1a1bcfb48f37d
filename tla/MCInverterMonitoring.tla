------------------------ MODULE MCInverterMonitoring ------------------------
(***************************************************************************)
(* The two halves of inverter-monitoring, one at work in a behaviour: how  *)
(* it and bms-monitoring find their devices on two ttys, and the session   *)
(* on the port it found, with two identity and two or three live commands. *)
(* A small unit lacks one of each; a deaf one knows no live command.       *)
(***************************************************************************)
EXTENDS SerialPorts, InverterMonitoring, TLC

VARIABLE half

vars == <<half, ports_vars, inverter_vars>>

BothProducers == {"bms", "inverter"}
TwoTtys == {"usb0", "usb1"}
OnlyInverter == {"inverter"}
TwoDevices == "usb0" :> "bms" @@ "usb1" :> "inverter"

TwoStatic == <<"QID", "QVFW3">>
TwoLive == <<"QMOD", "QPIGS2">>
ThreeLive == <<"QMOD", "QPIGS", "QPIGS2">>
TwoLengths == "QID" :> 14 @@ "QVFW3" :> 14 @@ "QMOD" :> 1 @@ "QPIGS2" :> 17
ThreeLengths == TwoLengths @@ "QPIGS" :> 106

AllUnits == {"full", "small", "deaf"}
OddUnits == {"small", "deaf"}
KnowsAll ==
  "full" :> {"QID", "QVFW3", "QMOD", "QPIGS", "QPIGS2"}
    @@ "small" :> {"QID", "QMOD", "QPIGS"} @@ "deaf" :> {"QID"}
KnowsOdd == "small" :> {"QID", "QMOD"} @@ "deaf" :> {"QID"}

\* Anything may happen; late answers are in before the next request; all is well.
WildLine == [late |-> "any", noisy |-> TRUE, faults |-> TRUE]
SettledLine == [late |-> "settled", noisy |-> TRUE, faults |-> FALSE]
QuietLine == [late |-> "prompt", noisy |-> FALSE, faults |-> FALSE]
ThreeLines == {WildLine, SettledLine, QuietLine}
\* One unit that is now and then too late.
LateLine == {[late |-> "any", noisy |-> FALSE, faults |-> FALSE]}

Init ==
  /\ half \in {"ports", "session"}
  /\ PortsInit /\ InverterInit
  /\ half = "session" => remembered = {} /\ \A p \in Producers : port[p] = "usb0"
  /\ half = "ports" => line = QuietLine /\ unit = "small" /\ ~once

PortsAt(step) == half = "ports" /\ step /\ UNCHANGED <<half, inverter_vars>>
SessionAt(step) == half = "session" /\ step /\ UNCHANGED <<half, ports_vars>>

Next == PortsAt(PortsNext) \/ SessionAt(InverterNext)

Spec == Init /\ [][Next]_vars

\* As in PortsFairSpec and InverterFairSpec.
FairSpec ==
  /\ Spec
  /\ \A p \in Producers : WF_vars(PortsAt(Connect(p)))
  /\ \A t \in Ttys : WF_vars(PortsAt(Plug(t)))
  /\ WF_vars(SessionAt(Daemon)) /\ WF_vars(SessionAt(Answers))
  /\ WF_vars(SessionAt(static_refresh_elapses))
=============================================================================
