------------------------------- MODULE Tunnel -------------------------------
(***************************************************************************)
(* A unix socket carried over iroh: iroh-uds-connect (the dialer),         *)
(* iroh-uds-listen (the listener) and forward_bidi of                      *)
(* packages/iroh-ssh/src/lib.rs, under the restart policy of               *)
(* modules/monitoring-platform-tunnel.nix.                                 *)
(*                                                                         *)
(* A client's connection is a session: a QUIC stream with one end at the   *)
(* dialer and one at the listener.  Both ends run the same forward_bidi    *)
(* between the stream and a local peer, the client or the backend behind   *)
(* the far socket.  What a peer writes is counted in chunks.               *)
(***************************************************************************)
EXTENDS Integers, FiniteSets

CONSTANTS
  Clients,    \* local clients, one connection each at a time
  Dialers,    \* instances of iroh-uds-connect on one socket path
  Nobody,     \* no dialer
  Leftover,   \* the file of a socket whose process is gone
  MaxChunks   \* what a peer writes at most

Sides == {"dialer", "listener"}
Other(side) == IF side = "dialer" THEN "listener" ELSE "dialer"

ASSUME NamesAssumption == Nobody \notin Dialers /\ Leftover \notin Dialers /\ Leftover # Nobody
ASSUME ChunksAssumption == MaxChunks \in Nat

VARIABLES
  calm,      \* nothing dies, stops or gets lost any more
  listener,  \* iroh-uds-listen is running
  dialer,    \* down, binding, clearing, rebinding or serving
  link,      \* a dialer's connection: none, up, dangling (the far end is gone) or closed
  inode,     \* whose socket the path leads to
  session    \* what became of each client's connection

tunnel_vars == <<calm, listener, dialer, link, inode, session>>
process_vars == <<calm, listener, dialer, link, inode>>

\* One end of a session: the two copy tasks, their token, the ctrl-c task, the
\* stream this end writes, whether the connection is known to be lost, and the
\* local peer.
FreshEnd ==
  [out |-> "none", in |-> "none", token |-> FALSE, signal |-> FALSE, cut |-> FALSE,
   flow |-> "open", carried |-> 0,
   sent |-> 0, got |-> 0, shut |-> FALSE, gone |-> FALSE, eof |-> FALSE]
FreshSession ==
  [at |-> Nobody, stage |-> "idle", hurt |-> FALSE, end |-> [side \in Sides |-> FreshEnd]]

\* The local peer is connected to this end.
Connected(c, side) ==
  IF side = "dialer" THEN session[c].stage # "idle" ELSE session[c].stage = "served"

Becomes(c, s) == session' = [session EXCEPT ![c] = s] /\ UNCHANGED process_vars

\* The tasks of an end die with their process, and its peer's socket with them.
Dead(end) ==
  [end EXCEPT !.out = "err", !.in = "err", !.token = TRUE, !.signal = FALSE, !.eof = TRUE]

\* The connection is lost to an end, and what it still had to send with it.
CutOff(end) == [end EXCEPT !.cut = TRUE, !.flow = "reset"]

-----------------------------------------------------------------------------
(* The dialer process.                                                     *)

\* systemd starts it and its one dial connects.  A start whose dial fails or
\* times out touches nothing, and ends as it began.
Dials(d) ==
  /\ dialer[d] = "down" /\ listener
  /\ dialer' = [dialer EXCEPT ![d] = "binding"] /\ link' = [link EXCEPT ![d] = "up"]
  /\ UNCHANGED <<calm, listener, inode, session>>

\* The process ends: its sockets close, its connection is closed or dies with
\* it, and the socket's file stays unless systemd removes the directory.
Quits(d) ==
  /\ dialer' = [dialer EXCEPT ![d] = "down"] /\ link' = [link EXCEPT ![d] = "none"]
  /\ IF inode = d THEN inode' \in {Leftover, Nobody} ELSE UNCHANGED inode
  /\ session' = [c \in Clients |->
       IF session[c].at = d
       THEN [session[c] EXCEPT !.at = Nobody, !.hurt = TRUE,
                               !.end["dialer"] = CutOff(Dead(@)), !.end["listener"] = CutOff(@)]
       ELSE session[c]]
  /\ UNCHANGED <<calm, listener>>

\* Mutant: a leftover file is taken for a running instance.
bind_or_fail(d) ==
  /\ dialer[d] = "binding"
  /\ IF inode = Nobody
     THEN /\ dialer' = [dialer EXCEPT ![d] = "serving"] /\ inode' = d
          /\ UNCHANGED <<calm, listener, link, session>>
     ELSE Quits(d)

NotServed(d) ==
  /\ dialer' = [dialer EXCEPT ![d] = "clearing"]
  /\ UNCHANGED <<calm, listener, link, inode, session>>

\* `bind`: a file that is in the way is tried first.  Whoever answers there
\* keeps it.  One that refuses is a leftover, and so is taken one that fails to
\* connect for any other reason: a full backlog, a mode that forbids it.
bind(d) ==
  /\ dialer[d] = "binding"
  /\ CASE inode = Nobody ->
            /\ dialer' = [dialer EXCEPT ![d] = "serving"] /\ inode' = d
            /\ UNCHANGED <<calm, listener, link, session>>
       [] inode \in Dialers -> Quits(d) \/ (~calm /\ NotServed(d))
       [] inode = Leftover -> NotServed(d)

\* remove_file, of whatever is at the path by now.
remove_file(d) ==
  /\ dialer[d] = "clearing"
  /\ IF inode = Nobody THEN Quits(d)
     ELSE /\ dialer' = [dialer EXCEPT ![d] = "rebinding"] /\ inode' = Nobody
          /\ UNCHANGED <<calm, listener, link, session>>

finish_bind(d) ==
  /\ dialer[d] = "rebinding"
  /\ IF inode = Nobody
     THEN /\ dialer' = [dialer EXCEPT ![d] = "serving"] /\ inode' = d
          /\ UNCHANGED <<calm, listener, link, session>>
     ELSE Quits(d)

\* The loop of `connect` ends the process when the connection is closed.
ConnectionClosed(d) == dialer[d] = "serving" /\ link[d] = "closed" /\ Quits(d)

\* A signal, a failing accept or a crash ends it at any time.
DialerStops(d) == ~calm /\ dialer[d] # "down" /\ Quits(d)

-----------------------------------------------------------------------------
(* The listener process and the connection.                                *)

ListenerStarts ==
  /\ ~listener /\ listener' = TRUE
  /\ UNCHANGED <<calm, dialer, link, inode, session>>

\* A signal, an `incoming` that cannot be accepted, or a crash.
ListenerStops ==
  /\ ~calm /\ listener /\ listener' = FALSE
  /\ link' = [d \in Dialers |-> IF link[d] = "up" THEN "dangling" ELSE link[d]]
  /\ session' = [c \in Clients |->
       IF session[c].stage = "idle" THEN session[c]
       ELSE [session[c] EXCEPT !.hurt = TRUE, !.end["listener"] =
               [(IF session[c].stage = "served" THEN Dead(@) ELSE @) EXCEPT !.cut = TRUE]]]
  /\ UNCHANGED <<calm, dialer, inode>>

\* The path between the two dies; each finds out for itself.
PathLost(d) ==
  /\ ~calm /\ link[d] = "up"
  /\ link' = [link EXCEPT ![d] = "dangling"]
  /\ session' = [c \in Clients |->
       IF session[c].at = d
       THEN [session[c] EXCEPT !.hurt = TRUE, !.end["listener"].cut = TRUE] ELSE session[c]]
  /\ UNCHANGED <<calm, listener, dialer, inode>>

\* CONNECTION_CLOSE or the idle timeout reaches the dialer.
Noticed(d) ==
  /\ link[d] = "dangling"
  /\ link' = [link EXCEPT ![d] = "closed"]
  /\ session' = [c \in Clients |->
       IF session[c].at = d
       THEN [session[c] EXCEPT !.hurt = TRUE, !.end["dialer"].cut = TRUE] ELSE session[c]]
  /\ UNCHANGED <<calm, listener, dialer, inode>>

Calms == ~calm /\ calm' = TRUE /\ UNCHANGED <<listener, dialer, link, inode, session>>

-----------------------------------------------------------------------------
(* A session begins.                                                       *)

ClientConnects(c) ==
  /\ session[c].stage = "idle" /\ inode \in Dialers
  /\ Becomes(c, [FreshSession EXCEPT !.at = inode, !.stage = "queued"])

Forwarding(end) == [end EXCEPT !.out = "run", !.in = "run", !.signal = TRUE]

\* The dialer accepts the connection and opens a stream for it; where that
\* fails, because the connection is lost, the client is let go.
handle_accept(c) ==
  LET s == session[c]
  IN  /\ s.stage = "queued" /\ ~s.end["dialer"].eof /\ dialer[s.at] = "serving"
      /\ \/ /\ link[s.at] # "closed"
            /\ Becomes(c, [s EXCEPT !.stage = "open", !.end["dialer"] = Forwarding(@)])
         \/ /\ link[s.at] = "closed"
            /\ Becomes(c, [s EXCEPT !.stage = "refused", !.hurt = TRUE, !.end["dialer"].eof = TRUE])

\* Mutant: the stream outlives the failed connect.
handle_stream_kept(c) ==
  LET s == session[c]
  IN  /\ s.stage = "open" /\ ~s.end["listener"].cut /\ link[s.at] = "up"
      /\ \/ Becomes(c, [s EXCEPT !.stage = "served", !.end["listener"] = Forwarding(@)])
         \/ Becomes(c, [s EXCEPT !.stage = "refused", !.hurt = TRUE])

\* The listener accepts the stream and connects to the backend; if that fails,
\* dropping the stream finishes its own direction and stops the other.
handle_stream(c) ==
  LET s == session[c]
  IN  /\ s.stage = "open" /\ ~s.end["listener"].cut /\ link[s.at] = "up"
      /\ \/ Becomes(c, [s EXCEPT !.stage = "served", !.end["listener"] = Forwarding(@)])
         \/ Becomes(c, [s EXCEPT !.stage = "refused", !.hurt = TRUE,
                                 !.end["listener"].flow = "fin",
                                 !.end["dialer"].flow = IF @ = "open" THEN "stopped" ELSE @])

-----------------------------------------------------------------------------
(* forward_bidi, at either end.                                            *)

\* Replaces one end of the session, and what the other end's stream has become.
Steps(c, side, end, flow) ==
  Becomes(c, [session[c] EXCEPT !.end[side] = end, !.end[Other(side)].flow = flow])

Outgoing(c, side) == session[c].end[side]
Incoming(c, side) == session[c].end[Other(side)]

\* copy_to_stream moves what the peer wrote into the stream.
OutCopies(c, side) ==
  LET e == Outgoing(c, side)
  IN  /\ e.out = "run" /\ ~e.cut /\ e.flow = "open" /\ e.carried < e.sent
      /\ Steps(c, side, [e EXCEPT !.carried = @ + 1], Incoming(c, side).flow)

\* Mutant: either direction finishing aborts both.
OutEndsBoth(c, side) ==
  LET e == Outgoing(c, side)
  IN  /\ e.out = "run" /\ ~e.cut /\ e.shut
      /\ e.carried = e.sent \/ e.flow # "open"
      /\ Steps(c, side, [e EXCEPT !.out = "ok", !.flow = IF @ = "open" THEN "fin" ELSE @,
                                  !.token = TRUE], Incoming(c, side).flow)

\* The peer's end of file: the stream is finished, the other direction goes on.
OutEnds(c, side) ==
  LET e == Outgoing(c, side)
  IN  /\ e.out = "run" /\ ~e.cut /\ e.shut /\ e.carried = e.sent
      /\ Steps(c, side, [e EXCEPT !.out = "ok", !.flow = IF @ = "open" THEN "fin" ELSE @],
               Incoming(c, side).flow)

\* A write fails, because the far end stopped the stream or the connection is
\* lost: the token is cancelled.
OutFails(c, side) ==
  LET e == Outgoing(c, side)
  IN  /\ e.out = "run" /\ (e.cut \/ e.flow = "stopped")
      /\ e.carried < e.sent \/ (e.cut /\ e.shut)
      /\ Steps(c, side, [e EXCEPT !.out = "err", !.token = TRUE], Incoming(c, side).flow)

\* The read fails: the peer left without having read everything.  Dropping the
\* stream finishes it.
OutReadFails(c, side) ==
  LET e == Outgoing(c, side)
  IN  /\ e.out = "run" /\ e.gone /\ e.carried = e.sent
      /\ Steps(c, side, [e EXCEPT !.out = "err", !.token = TRUE,
                                  !.flow = IF @ = "open" THEN "fin" ELSE @],
               Incoming(c, side).flow)

\* copy_from_stream moves what arrives to the peer.
InCopies(c, side) ==
  LET e == Outgoing(c, side)  far == Incoming(c, side)
  IN  /\ e.in = "run" /\ ~e.cut /\ ~e.gone
      /\ far.flow \in {"open", "fin"} /\ e.got < far.carried
      /\ Steps(c, side, [e EXCEPT !.got = @ + 1], far.flow)

\* The stream is finished: dropping the write half tells the peer.
InEnds(c, side) ==
  LET e == Outgoing(c, side)  far == Incoming(c, side)
  IN  /\ e.in = "run" /\ ~e.cut /\ far.flow = "fin" /\ e.got = far.carried
      /\ Steps(c, side, [e EXCEPT !.in = "ok", !.eof = TRUE], far.flow)

Stopped(flow) == IF flow = "open" THEN "stopped" ELSE flow

\* The stream is reset, the connection lost or the peer gone: the token is
\* cancelled and the stream stopped.
InFails(c, side) ==
  LET e == Outgoing(c, side)  far == Incoming(c, side)
  IN  /\ e.in = "run"
      /\ e.cut \/ far.flow = "reset" \/ (e.gone /\ e.got < far.carried)
      /\ Steps(c, side, [e EXCEPT !.in = "err", !.token = TRUE, !.eof = TRUE], Stopped(far.flow))

\* The token is cancelled: what still runs resets, or stops, its stream.
OutCancelled(c, side) ==
  LET e == Outgoing(c, side)
  IN  /\ e.token /\ e.out = "run"
      /\ Steps(c, side, [e EXCEPT !.out = "err", !.flow = IF @ = "open" THEN "reset" ELSE @],
               Incoming(c, side).flow)

InCancelled(c, side) ==
  LET e == Outgoing(c, side)
  IN  /\ e.token /\ e.in = "run"
      /\ Steps(c, side, [e EXCEPT !.in = "err", !.eof = TRUE], Stopped(Incoming(c, side).flow))

\* forward_in has been joined, and forward_out too unless forward_in failed.
ForwardEnds(c, side) ==
  LET e == Outgoing(c, side)
  IN  /\ e.signal /\ (e.in = "err" \/ (e.in = "ok" /\ e.out # "run"))
      /\ Steps(c, side, [e EXCEPT !.signal = FALSE], Incoming(c, side).flow)

forward_bidi(c, side) ==
  \/ OutCopies(c, side) \/ OutEnds(c, side) \/ OutFails(c, side) \/ OutReadFails(c, side)
  \/ InCopies(c, side) \/ InEnds(c, side) \/ InFails(c, side)
  \/ OutCancelled(c, side) \/ InCancelled(c, side) \/ ForwardEnds(c, side)

-----------------------------------------------------------------------------
(* The peers.                                                              *)

\* What a peer writes or shuts after nobody reads it any more goes nowhere.
Heard(c, side) == Connected(c, side) /\ session[c].end[side].out \in {"none", "run"}

PeerWrites(c, side) ==
  /\ Heard(c, side)
  /\ ~session[c].end[side].shut /\ session[c].end[side].sent < MaxChunks
  /\ Becomes(c, [session[c] EXCEPT !.end[side].sent = @ + 1])

\* shutdown(2) of the write side: the request, or the answer, is complete.
PeerShuts(c, side) ==
  /\ Heard(c, side) /\ ~session[c].end[side].shut
  /\ Becomes(c, [session[c] EXCEPT !.end[side].shut = TRUE])

\* close(2); before the end of file it is a failure of the session.
PeerLeaves(c, side) ==
  /\ Connected(c, side) /\ ~session[c].end[side].gone
  /\ Becomes(c, [session[c] EXCEPT !.end[side].shut = TRUE, !.end[side].gone = TRUE,
                                   !.hurt = @ \/ ~session[c].end[side].eof])

\* A server closes a connection whose request has ended.
BackendLeaves(c) == session[c].end["listener"].eof /\ PeerLeaves(c, "listener")

\* Nothing of the session is left in either process.
SessionOver(c) ==
  /\ session[c].stage # "idle" /\ session[c].end["dialer"].gone
  /\ session[c].stage = "queued" => session[c].end["dialer"].eof
  /\ session[c].stage = "open" => session[c].end["listener"].cut
  /\ session[c].stage = "served" => session[c].end["listener"].gone
  /\ \A side \in Sides :
       /\ session[c].end[side].out # "run" /\ session[c].end[side].in # "run"
       /\ ~session[c].end[side].signal
  /\ Becomes(c, FreshSession)

-----------------------------------------------------------------------------
TunnelInit ==
  /\ calm = FALSE /\ listener \in BOOLEAN
  /\ dialer = [d \in Dialers |-> "down"] /\ link = [d \in Dialers |-> "none"]
  /\ inode \in {Nobody, Leftover}
  /\ session = [c \in Clients |-> FreshSession]

DialerSteps(d) ==
  \/ Dials(d) \/ bind(d) \/ remove_file(d) \/ finish_bind(d)
  \/ ConnectionClosed(d)

SessionSteps(c) == handle_accept(c) \/ handle_stream(c) \/ SessionOver(c)

TunnelNext ==
  \/ \E d \in Dialers : DialerSteps(d) \/ DialerStops(d) \/ PathLost(d) \/ Noticed(d)
  \/ ListenerStarts \/ ListenerStops \/ Calms
  \/ \E c \in Clients :
       \/ ClientConnects(c) \/ SessionSteps(c)
       \/ \E side \in Sides :
            forward_bidi(c, side) \/ PeerWrites(c, side) \/ PeerShuts(c, side) \/ PeerLeaves(c, side)

TunnelSpec == TunnelInit /\ [][TunnelNext]_tunnel_vars

(***************************************************************************)
(* systemd restarts both programs, their tasks go on, a lost connection is *)
(* noticed by its idle timeout, and a server closes what has ended.        *)
(***************************************************************************)
TunnelFairSpec ==
  /\ TunnelSpec /\ WF_tunnel_vars(ListenerStarts)
  /\ \A d \in Dialers : WF_tunnel_vars(DialerSteps(d)) /\ WF_tunnel_vars(Noticed(d))
  /\ \A c \in Clients :
       /\ WF_tunnel_vars(SessionSteps(c)) /\ WF_tunnel_vars(BackendLeaves(c))
       /\ \A side \in Sides : WF_tunnel_vars(forward_bidi(c, side))
-----------------------------------------------------------------------------
(* Properties.                                                             *)

TunnelTypeOK ==
  /\ calm \in BOOLEAN /\ listener \in BOOLEAN
  /\ dialer \in [Dialers -> {"down", "binding", "clearing", "rebinding", "serving"}]
  /\ link \in [Dialers -> {"none", "up", "dangling", "closed"}]
  /\ inode \in Dialers \union {Nobody, Leftover}
  /\ \A c \in Clients :
       /\ session[c].at \in Dialers \union {Nobody}
       /\ session[c].stage \in {"idle", "queued", "open", "served", "refused"}
       /\ \A side \in Sides :
            LET e == session[c].end[side]
            IN  /\ {e.out, e.in} \subseteq {"none", "run", "ok", "err"}
                /\ e.flow \in {"open", "fin", "reset", "stopped"}
                /\ e.carried <= e.sent /\ e.got <= session[c].end[Other(side)].carried

(***************************************************************************)
(* A session nothing happened to is delivered whole, in both directions:   *)
(* a peer reads the end of file only after everything the other one wrote, *)
(* and only once that one is done, even if its own direction ended long    *)
(* before (forward_bidi cancels on errors only; finish before drop).       *)
(***************************************************************************)
CutShortOnlyByFailure ==
  \A c \in Clients : \A side \in Sides :
    session[c].end[side].eof /\ ~session[c].hurt =>
      /\ session[c].end[Other(side)].shut
      /\ session[c].end[side].got = session[c].end[Other(side)].sent

(***************************************************************************)
(* The end of a session reaches everyone.  Whatever ends one early -- a    *)
(* process, the path, a peer, a backend that refuses -- both peers learn   *)
(* of it ("a socket held open after a failed stream reads as a healthy     *)
(* peer that has simply gone quiet"), and a client that has left leaves no *)
(* stream, task or backend connection behind in either process             *)
(* (control_c.abort: "every forwarded stream would leave a task behind for *)
(* the life of the process").                                              *)
(***************************************************************************)
EndsReachEveryone ==
  \A c \in Clients :
    /\ \A side \in Sides :
         session[c].hurt /\ Connected(c, side)
           ~> session[c].end[side].eof \/ session[c].end[side].gone \/ ~Connected(c, side)
    /\ session[c].end["dialer"].gone ~> session[c].stage = "idle"

(***************************************************************************)
(* Once things stop failing the tunnel comes back for good, whatever file  *)
(* an earlier process left at the path ("this restart policy *is* its      *)
(* reconnect loop"; `bind`).                                               *)
(***************************************************************************)
TunnelComesBack ==
  calm ~> [](\E d \in Dialers : dialer[d] = "serving" /\ link[d] = "up" /\ inode = d)

(***************************************************************************)
(* bind's comment: "a successful one means a second instance really is     *)
(* running and this one must not steal its socket" -- whoever serves has   *)
(* the path.                                                               *)
(***************************************************************************)
NoSocketStolen == \A d \in Dialers : dialer[d] = "serving" => inode = d
=============================================================================
