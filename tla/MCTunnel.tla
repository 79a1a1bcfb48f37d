------------------------------ MODULE MCTunnel ------------------------------
(***************************************************************************)
(* One or two instances of the dialer on one path.                         *)
(***************************************************************************)
EXTENDS Tunnel

OneClient == {"collector"}
OneDialer == {"unit"}
TwoDialers == {"unit", "by hand"}
=============================================================================
