---------------------------- MODULE TunnelProofs ----------------------------
(***************************************************************************)
(* Tunnel for any number of clients and dialers and any amount of data.    *)
(***************************************************************************)
EXTENDS Tunnel, TLAPS

End ==
  [out : {"none", "run", "ok", "err"}, in : {"none", "run", "ok", "err"},
   token : BOOLEAN, signal : BOOLEAN, cut : BOOLEAN,
   flow : {"open", "fin", "reset", "stopped"}, carried : Nat,
   sent : Nat, got : Nat, shut : BOOLEAN, gone : BOOLEAN, eof : BOOLEAN]
Session ==
  [at : Dialers \union {Nobody}, stage : {"idle", "queued", "open", "served", "refused"},
   hurt : BOOLEAN, end : [Sides -> End]]

\* The stream an end writes is open, or it is finished and complete.
Complete(e) ==
  /\ ~e.cut
  /\ e.flow \in {"open", "fin"}
  /\ e.flow = "fin" => e.shut /\ e.carried = e.sent

\* An end whose peer was told the end of file has read the far end's stream to
\* its end; a peer that has left was told, and only then may the token have
\* been cancelled, when there is nothing left to cancel.
ReadOut(e, far) ==
  /\ e.eof => e.in = "ok" /\ far.flow = "fin" /\ e.got = far.carried
  /\ e.gone => e.eof /\ e.shut
  /\ e.token => e.in = "ok" /\ e.out # "run"

\* Nothing has happened to the session.
Sound(s) ==
  /\ \A side \in Sides : Complete(s.end[side]) /\ ReadOut(s.end[side], s.end[Other(side)])
  /\ s.stage = "queued" => s.end["dialer"].in = "none"
  /\ s.stage \in {"queued", "open"} => s.end["listener"].in = "none"

TunnelInv ==
  /\ session \in [Clients -> Session]
  /\ inode \in Dialers \union {Nobody, Leftover}
  /\ \A c \in Clients : ~session[c].hurt => Sound(session[c])

-----------------------------------------------------------------------------
(***************************************************************************)
(* The two ends of a stream.                                               *)
(***************************************************************************)
LEMMA Ends ==
  /\ "dialer" \in Sides /\ "listener" \in Sides
  /\ Other("dialer") = "listener" /\ Other("listener") = "dialer"
  /\ \A side \in Sides : /\ Other(side) \in Sides /\ Other(side) # side
                         /\ Other(Other(side)) = side
                         /\ Sides = {side, Other(side)}
  BY DEF Sides, Other

Flows == {"open", "fin", "reset", "stopped"}

\* The session Steps leaves behind.
Replaced(s, side, e, flow) == [s EXCEPT !.end[side] = e, !.end[Other(side)].flow = flow]

(***************************************************************************)
(* A session one end of which is replaced, and the flow of the other.      *)
(***************************************************************************)
LEMMA EndReplaced ==
  ASSUME NEW s \in Session, NEW side \in Sides, NEW e \in End, NEW flow \in Flows,
         NEW t, t = Replaced(s, side, e, flow)
  PROVE  /\ t \in Session /\ t.hurt = s.hurt /\ t.stage = s.stage
         /\ t.end[side] = e
         /\ t.end[Other(side)] = [s.end[Other(side)] EXCEPT !.flow = flow]
<1>1. s.end \in [Sides -> End]
  BY DEF Session
<1> DEFINE ends == [[s.end EXCEPT ![side] = e] EXCEPT ![Other(side)].flow = flow]
<1>2. [s.end[Other(side)] EXCEPT !.flow = flow] \in End
  <2>1. s.end[Other(side)] \in End
    BY <1>1, Ends
  <2> QED BY <2>1 DEF End, Flows
<1>3. /\ ends[side] = e
      /\ ends[Other(side)] = [s.end[Other(side)] EXCEPT !.flow = flow]
  BY <1>1, Ends
<1>4. ends \in [Sides -> End]
  BY <1>1, <1>2, <1>3, Ends
<1>5. t = [s EXCEPT !.end = ends]
  BY DEF Session, Replaced
<1> HIDE DEF ends
<1>6. t.end = ends /\ t.hurt = s.hurt /\ t.stage = s.stage /\ t \in Session
  BY <1>4, <1>5 DEF Session
<1> QED BY <1>3, <1>6

(***************************************************************************)
(* A step of one session leaves the others alone.                          *)
(***************************************************************************)
LEMMA OneSessionMoves ==
  ASSUME TunnelInv, NEW c \in Clients, NEW s \in Session, Becomes(c, s),
         ~s.hurt => Sound(s)
  PROVE  TunnelInv'
<1>1. session' = [session EXCEPT ![c] = s] /\ inode' = inode
  BY DEF Becomes, process_vars
<1>2. session' \in [Clients -> Session]
  BY <1>1 DEF TunnelInv
<1>3. ASSUME NEW b \in Clients, ~session'[b].hurt PROVE Sound(session'[b])
  <2>1. session'[b] = s \/ session'[b] = session[b]
    BY <1>1 DEF TunnelInv
  <2> QED BY <1>3, <2>1 DEF TunnelInv
<1>4. (\A b \in Clients : ~session[b].hurt => Sound(session[b]))'
  BY <1>3
<1> QED BY <1>1, <1>2, <1>4 DEF TunnelInv

(***************************************************************************)
(* A task of forward_bidi takes a step at one end of a sound session.      *)
(***************************************************************************)
LEMMA OneEndMoves ==
  ASSUME TunnelInv, NEW c \in Clients, NEW side \in Sides, NEW e \in End, NEW flow \in Flows,
         Steps(c, side, e, flow),
         ~session[c].hurt =>
           /\ flow = Incoming(c, side).flow
           /\ Complete(e) /\ ReadOut(e, Incoming(c, side)) /\ ReadOut(Incoming(c, side), e)
           /\ Outgoing(c, side).in = "none" => e.in = "none"
  PROVE  TunnelInv'
<1> DEFINE s == session[c]
           t == Replaced(s, side, e, flow)
<1>1. s \in Session
  BY DEF TunnelInv
<1>3. Becomes(c, t)
  BY DEF Steps, Replaced
<1>2. /\ t \in Session /\ t.hurt = s.hurt /\ t.stage = s.stage
      /\ t.end[side] = e
      /\ t.end[Other(side)] = [s.end[Other(side)] EXCEPT !.flow = flow]
  BY <1>1, EndReplaced
<1> HIDE DEF t, s
<1>4. ASSUME ~t.hurt PROVE Sound(t)
  <2> DEFINE far == s.end[Other(side)]
  <2>1. /\ ~s.hurt /\ Sound(s) /\ flow = far.flow
        /\ Complete(e) /\ ReadOut(e, far) /\ ReadOut(far, e)
        /\ s.end[side].in = "none" => e.in = "none"
    BY <1>2, <1>4 DEF TunnelInv, Incoming, Outgoing, s
  <2>2. far \in End
    BY <1>1, Ends DEF Session
  <2>3. t.end[Other(side)] = far
    BY <1>2, <2>1, <2>2 DEF End
  <2>4. Complete(far)
    BY <2>1, Ends DEF Sound
  <2> HIDE DEF far, s
  <2>5. \A d \in Sides : Complete(t.end[d]) /\ ReadOut(t.end[d], t.end[Other(d)])
    BY <1>2, <2>1, <2>3, <2>4, Ends
  <2>6. ASSUME NEW d \in Sides, s.end[d].in = "none" PROVE t.end[d].in = "none"
    BY <1>2, <2>1, <2>3, <2>6, Ends DEF far
  <2> QED BY <1>2, <2>1, <2>5, <2>6, Ends DEF Sound
<1> QED BY <1>2, <1>3, <1>4, OneSessionMoves
-----------------------------------------------------------------------------
(***************************************************************************)
(* Every step of forward_bidi keeps a sound session sound.  One that fails *)
(* or cancels a copy cannot happen in one, except where a peer that has    *)
(* read everything closes before its own direction has ended.              *)
(***************************************************************************)
LEMMA ForwardStep ==
  ASSUME TunnelInv, NEW c \in Clients, NEW side \in Sides, forward_bidi(c, side)
  PROVE  TunnelInv'
<1> DEFINE e == Outgoing(c, side)
           far == Incoming(c, side)
<1>1. e \in End /\ far \in End /\ far.flow \in Flows /\ Stopped(far.flow) \in Flows
  <2>1. session[c].end \in [Sides -> End]
    BY DEF TunnelInv, Session
  <2>2. e \in End /\ far \in End
    BY <2>1, Ends DEF Outgoing, Incoming
  <2> QED BY <2>2 DEF End, Flows, Stopped
<1>2. ~session[c].hurt => /\ Complete(e) /\ Complete(far)
                          /\ ReadOut(e, far) /\ ReadOut(far, e)
  BY Ends DEF TunnelInv, Sound, Outgoing, Incoming
<1>3. /\ e.carried \in Nat /\ e.got \in Nat /\ e.sent \in Nat /\ far.carried \in Nat
  BY <1>1 DEF End
<1>4. CASE OutCopies(c, side)
  <2> DEFINE n == [e EXCEPT !.carried = @ + 1]
  <2>1. Steps(c, side, n, far.flow)
    BY <1>4 DEF OutCopies
  <2>2. n \in End
    BY <1>1, <1>3 DEF End
  <2>3. /\ n.out = e.out /\ n.in = e.in /\ n.token = e.token /\ n.cut = e.cut /\ n.flow = e.flow
        /\ n.sent = e.sent /\ n.got = e.got /\ n.shut = e.shut /\ n.gone = e.gone /\ n.eof = e.eof
        /\ n.carried = e.carried + 1
    BY <1>1 DEF End
  <2>4. ~session[c].hurt => /\ Complete(n) /\ ReadOut(n, far) /\ ReadOut(far, n)
                            /\ e.in = "none" => n.in = "none"
    <3> HIDE DEF n
    <3> QED BY <1>2, <1>4, <2>3 DEF OutCopies, Complete, ReadOut
  <2> HIDE DEF n
  <2> QED BY <1>1, <2>1, <2>2, <2>4, OneEndMoves
<1>5. CASE OutEnds(c, side)
  <2> DEFINE n == [e EXCEPT !.out = "ok", !.flow = IF @ = "open" THEN "fin" ELSE @]
  <2>1. Steps(c, side, n, far.flow)
    BY <1>5 DEF OutEnds
  <2>2. n \in End
    BY <1>1, <1>3 DEF End
  <2>3. /\ n.in = e.in /\ n.token = e.token /\ n.cut = e.cut /\ n.carried = e.carried /\ n.sent = e.sent
        /\ n.got = e.got /\ n.shut = e.shut /\ n.gone = e.gone /\ n.eof = e.eof
        /\ n.out = "ok" /\ n.flow = IF e.flow = "open" THEN "fin" ELSE e.flow
    BY <1>1 DEF End
  <2>4. ~session[c].hurt => /\ Complete(n) /\ ReadOut(n, far) /\ ReadOut(far, n)
                            /\ e.in = "none" => n.in = "none"
    <3> HIDE DEF n
    <3> QED BY <1>2, <1>5, <2>3 DEF OutEnds, Complete, ReadOut
  <2> HIDE DEF n
  <2> QED BY <1>1, <2>1, <2>2, <2>4, OneEndMoves
<1>6. CASE OutFails(c, side)
  <2> DEFINE n == [e EXCEPT !.out = "err", !.token = TRUE]
  <2>1. Steps(c, side, n, far.flow)
    BY <1>6 DEF OutFails
  <2>2. n \in End
    BY <1>1, <1>3 DEF End
  <2>3. /\ n.in = e.in /\ n.cut = e.cut /\ n.flow = e.flow /\ n.carried = e.carried /\ n.sent = e.sent
        /\ n.got = e.got /\ n.shut = e.shut /\ n.gone = e.gone /\ n.eof = e.eof
        /\ n.out = "err" /\ n.token = TRUE
    BY <1>1 DEF End
  <2>4. ~session[c].hurt => /\ Complete(n) /\ ReadOut(n, far) /\ ReadOut(far, n)
                            /\ e.in = "none" => n.in = "none"
    <3> HIDE DEF n
    <3> QED BY <1>2, <1>6, <2>3 DEF OutFails, Complete, ReadOut
  <2> HIDE DEF n
  <2> QED BY <1>1, <2>1, <2>2, <2>4, OneEndMoves
<1>7. CASE OutReadFails(c, side)
  <2> DEFINE n == [e EXCEPT !.out = "err", !.token = TRUE,
                        !.flow = IF @ = "open" THEN "fin" ELSE @]
  <2>1. Steps(c, side, n, far.flow)
    BY <1>7 DEF OutReadFails
  <2>2. n \in End
    BY <1>1, <1>3 DEF End
  <2>3. /\ n.in = e.in /\ n.cut = e.cut /\ n.carried = e.carried /\ n.sent = e.sent /\ n.got = e.got
        /\ n.shut = e.shut /\ n.gone = e.gone /\ n.eof = e.eof
        /\ n.out = "err" /\ n.token = TRUE /\ n.flow = IF e.flow = "open" THEN "fin" ELSE e.flow
    BY <1>1 DEF End
  <2>4. ~session[c].hurt => /\ Complete(n) /\ ReadOut(n, far) /\ ReadOut(far, n)
                            /\ e.in = "none" => n.in = "none"
    <3> HIDE DEF n
    <3> QED BY <1>2, <1>7, <2>3 DEF OutReadFails, Complete, ReadOut
  <2> HIDE DEF n
  <2> QED BY <1>1, <2>1, <2>2, <2>4, OneEndMoves
<1>8. CASE InCopies(c, side)
  <2> DEFINE n == [e EXCEPT !.got = @ + 1]
  <2>1. Steps(c, side, n, far.flow)
    BY <1>8 DEF InCopies
  <2>2. n \in End
    BY <1>1, <1>3 DEF End
  <2>3. /\ n.out = e.out /\ n.in = e.in /\ n.token = e.token /\ n.cut = e.cut /\ n.flow = e.flow
        /\ n.carried = e.carried /\ n.sent = e.sent /\ n.shut = e.shut /\ n.gone = e.gone /\ n.eof = e.eof
        /\ n.got = e.got + 1
    BY <1>1 DEF End
  <2>4. ~session[c].hurt => /\ Complete(n) /\ ReadOut(n, far) /\ ReadOut(far, n)
                            /\ e.in = "none" => n.in = "none"
    <3> HIDE DEF n
    <3> QED BY <1>2, <1>8, <2>3 DEF InCopies, Complete, ReadOut
  <2> HIDE DEF n
  <2> QED BY <1>1, <2>1, <2>2, <2>4, OneEndMoves
<1>9. CASE InEnds(c, side)
  <2> DEFINE n == [e EXCEPT !.in = "ok", !.eof = TRUE]
  <2>1. Steps(c, side, n, far.flow)
    BY <1>9 DEF InEnds
  <2>2. n \in End
    BY <1>1, <1>3 DEF End
  <2>3. /\ n.out = e.out /\ n.token = e.token /\ n.cut = e.cut /\ n.flow = e.flow /\ n.carried = e.carried
        /\ n.sent = e.sent /\ n.got = e.got /\ n.shut = e.shut /\ n.gone = e.gone
        /\ n.in = "ok" /\ n.eof = TRUE
    BY <1>1 DEF End
  <2>4. ~session[c].hurt => /\ Complete(n) /\ ReadOut(n, far) /\ ReadOut(far, n)
                            /\ e.in = "none" => n.in = "none"
    <3> HIDE DEF n
    <3> QED BY <1>2, <1>9, <2>3 DEF InEnds, Complete, ReadOut
  <2> HIDE DEF n
  <2> QED BY <1>1, <2>1, <2>2, <2>4, OneEndMoves
<1>10. CASE InFails(c, side)
  <2> DEFINE n == [e EXCEPT !.in = "err", !.token = TRUE, !.eof = TRUE]
  <2>1. Steps(c, side, n, Stopped(far.flow))
    BY <1>10 DEF InFails
  <2>2. n \in End
    BY <1>1 DEF End
  <2>3. session[c].hurt
    BY <1>1, <1>2, <1>10 DEF InFails, Complete, ReadOut
  <2> HIDE DEF n, e, far
  <2> QED BY <1>1, <2>1, <2>2, <2>3, OneEndMoves DEF far
<1>11. CASE OutCancelled(c, side)
  <2> DEFINE n == [e EXCEPT !.out = "err", !.flow = IF @ = "open" THEN "reset" ELSE @]
  <2>1. Steps(c, side, n, far.flow)
    BY <1>11 DEF OutCancelled
  <2>2. n \in End
    BY <1>1 DEF End
  <2>3. session[c].hurt
    BY <1>1, <1>2, <1>11 DEF OutCancelled, Complete, ReadOut
  <2> HIDE DEF n, e, far
  <2> QED BY <1>1, <2>1, <2>2, <2>3, OneEndMoves DEF far
<1>12. CASE InCancelled(c, side)
  <2> DEFINE n == [e EXCEPT !.in = "err", !.eof = TRUE]
  <2>1. Steps(c, side, n, Stopped(far.flow))
    BY <1>12 DEF InCancelled
  <2>2. n \in End
    BY <1>1 DEF End
  <2>3. session[c].hurt
    BY <1>1, <1>2, <1>12 DEF InCancelled, Complete, ReadOut
  <2> HIDE DEF n, e, far
  <2> QED BY <1>1, <2>1, <2>2, <2>3, OneEndMoves DEF far
<1>13. CASE ForwardEnds(c, side)
  <2> DEFINE n == [e EXCEPT !.signal = FALSE]
  <2>1. Steps(c, side, n, far.flow)
    BY <1>13 DEF ForwardEnds
  <2>2. n \in End
    BY <1>1, <1>3 DEF End
  <2>3. /\ n.out = e.out /\ n.in = e.in /\ n.token = e.token /\ n.cut = e.cut /\ n.flow = e.flow
        /\ n.carried = e.carried /\ n.sent = e.sent /\ n.got = e.got /\ n.shut = e.shut /\ n.gone = e.gone /\ n.eof = e.eof
    BY <1>1 DEF End
  <2>4. ~session[c].hurt => /\ Complete(n) /\ ReadOut(n, far) /\ ReadOut(far, n)
                            /\ e.in = "none" => n.in = "none"
    <3> HIDE DEF n
    <3> QED BY <1>2, <1>13, <2>3 DEF ForwardEnds, Complete, ReadOut
  <2> HIDE DEF n
  <2> QED BY <1>1, <2>1, <2>2, <2>4, OneEndMoves
<1> QED BY <1>4, <1>5, <1>6, <1>7, <1>8, <1>9, <1>10, <1>11, <1>12, <1>13 DEF forward_bidi
-----------------------------------------------------------------------------
(***************************************************************************)
(* A new session is sound.                                                 *)
(***************************************************************************)
LEMMA FreshIsSound ==
  /\ FreshSession \in Session /\ Sound(FreshSession)
  /\ \A d \in Dialers : LET s == [FreshSession EXCEPT !.at = d, !.stage = "queued"]
                        IN  s \in Session /\ Sound(s)
<1>1. FreshEnd \in End
  BY DEF FreshEnd, End
<1>2. Complete(FreshEnd) /\ ReadOut(FreshEnd, FreshEnd) /\ FreshEnd.in = "none"
  BY DEF FreshEnd, Complete, ReadOut
<1>3. [side \in Sides |-> FreshEnd] \in [Sides -> End]
  BY <1>1
<1>4. FreshSession \in Session
  BY <1>3 DEF FreshSession, Session
<1>5. ASSUME NEW s, s.end = [side \in Sides |-> FreshEnd] PROVE Sound(s)
  BY <1>2, <1>5, Ends DEF Sound
<1>6. FreshSession.end = [side \in Sides |-> FreshEnd]
  BY DEF FreshSession
<1>7. ASSUME NEW d \in Dialers
      PROVE  LET s == [FreshSession EXCEPT !.at = d, !.stage = "queued"]
             IN  s \in Session /\ s.end = [side \in Sides |-> FreshEnd]
  BY <1>4, <1>6 DEF Session
<1> QED BY <1>4, <1>5, <1>6, <1>7

(***************************************************************************)
(* A client connects, and a session is cleared away when it is over.       *)
(***************************************************************************)
LEMMA ComesAndGoesStep ==
  ASSUME TunnelInv, NEW c \in Clients, ClientConnects(c) \/ SessionOver(c)
  PROVE  TunnelInv'
<1>1. CASE ClientConnects(c)
  <2> DEFINE s == [FreshSession EXCEPT !.at = inode, !.stage = "queued"]
  <2>1. inode \in Dialers /\ Becomes(c, s)
    BY <1>1 DEF ClientConnects
  <2>2. s \in Session /\ Sound(s)
    BY <2>1, FreshIsSound
  <2> HIDE DEF s
  <2> QED BY <2>1, <2>2, OneSessionMoves
<1>2. CASE SessionOver(c)
  <2>1. Becomes(c, FreshSession)
    BY <1>2 DEF SessionOver
  <2> QED BY <2>1, FreshIsSound, OneSessionMoves
<1> QED BY <1>1, <1>2

\* A session whose stage moves on while one end starts to forward.
Started(s, stage, side) == [s EXCEPT !.stage = stage, !.end[side] = Forwarding(@)]

(***************************************************************************)
(* An end that has not read anything may start to.                         *)
(***************************************************************************)
LEMMA StartedIsSound ==
  ASSUME NEW s \in Session, NEW side \in Sides, NEW stage \in {"open", "served"},
         NEW t, t = Started(s, stage, side)
  PROVE  /\ t \in Session /\ t.hurt = s.hurt
         /\ (/\ Sound(s) /\ s.end[side].in = "none"
             /\ stage = "open" => side = "dialer" /\ s.end["listener"].in = "none") => Sound(t)
<1> DEFINE e == s.end[side]
           n == Forwarding(e)
           far == s.end[Other(side)]
<1>1. s.end \in [Sides -> End] /\ e \in End /\ far \in End
  BY Ends DEF Session
<1>2. /\ n \in End
      /\ n.out = "run" /\ n.in = "run" /\ n.token = e.token /\ n.cut = e.cut /\ n.flow = e.flow
      /\ n.carried = e.carried /\ n.sent = e.sent /\ n.got = e.got
      /\ n.shut = e.shut /\ n.gone = e.gone /\ n.eof = e.eof
  BY <1>1 DEF Forwarding, End
<1> DEFINE ends == [s.end EXCEPT ![side] = n]
<1>3. ends \in [Sides -> End] /\ ends[side] = n /\ ends[Other(side)] = far
  BY <1>1, <1>2, Ends
<1>4. t = [s EXCEPT !.stage = stage, !.end = ends]
  BY DEF Started, Session
<1> HIDE DEF ends
<1>5. t \in Session /\ t.hurt = s.hurt /\ t.stage = stage /\ t.end = ends
  BY <1>3, <1>4 DEF Session
<1>6. ASSUME Sound(s), e.in = "none",
             stage = "open" => side = "dialer" /\ s.end["listener"].in = "none"
      PROVE  Sound(t)
  <2>1. /\ Complete(e) /\ Complete(far) /\ ReadOut(e, far) /\ ReadOut(far, e)
    BY <1>6, Ends DEF Sound
  <2> HIDE DEF n, e
  <2>2. Complete(n) /\ ReadOut(n, far) /\ ReadOut(far, n)
    BY <1>2, <1>6, <2>1 DEF Complete, ReadOut
  <2>3. \A d \in Sides : Complete(t.end[d]) /\ ReadOut(t.end[d], t.end[Other(d)])
    <3> HIDE DEF far
    <3> QED BY <1>3, <1>5, <2>1, <2>2, Ends
  <2>4. stage = "open" => t.end["listener"].in = "none"
    BY <1>3, <1>5, <1>6, Ends
  <2> QED BY <1>5, <2>3, <2>4 DEF Sound
<1> QED BY <1>5, <1>6

(***************************************************************************)
(* The dialer accepts a connection: what it opens is sound, what it        *)
(* refuses is hurt (handle_accept); the listener likewise (handle_stream). *)
(***************************************************************************)
LEMMA AcceptStep ==
  ASSUME TunnelInv, NEW c \in Clients, handle_accept(c) \/ handle_stream(c)
  PROVE  TunnelInv'
<1> DEFINE s == session[c]
<1>1. s \in Session /\ (~s.hurt => Sound(s))
  BY DEF TunnelInv
<1>2. s.end \in [Sides -> End]
  BY <1>1 DEF Session
<1>3. CASE s.stage = "queued" /\ Becomes(c, Started(s, "open", "dialer"))
  <2> DEFINE t == Started(s, "open", "dialer")
  <2> HIDE DEF s
  <2>e. t = Started(s, "open", "dialer") /\ "dialer" \in Sides /\ "open" \in {"open", "served"}
    BY Ends
  <2> HIDE DEF t
  <2>1. ~s.hurt => s.end["dialer"].in = "none" /\ s.end["listener"].in = "none"
    BY <1>1, <1>3 DEF Sound
  <2>2. t \in Session /\ (~t.hurt => Sound(t))
    <3>1. t \in Session /\ t.hurt = s.hurt
      BY <1>1, <2>e, StartedIsSound
    <3>2. ASSUME ~t.hurt PROVE Sound(t)
      <4>1. Sound(s) /\ s.end["dialer"].in = "none"
        BY <1>1, <2>1, <3>1, <3>2
      <4> QED BY <1>1, <2>1, <2>e, <3>1, <3>2, <4>1, StartedIsSound
    <3> QED BY <3>1, <3>2
  <2> QED BY <1>3, <2>2, OneSessionMoves DEF t
<1>4. CASE s.stage = "open" /\ Becomes(c, Started(s, "served", "listener"))
  <2> DEFINE t == Started(s, "served", "listener")
  <2> HIDE DEF s
  <2>e. t = Started(s, "served", "listener") /\ "listener" \in Sides /\ "served" \in {"open", "served"}
    BY Ends
  <2> HIDE DEF t
  <2>1. ~s.hurt => s.end["listener"].in = "none"
    BY <1>1, <1>4 DEF Sound
  <2>2. t \in Session /\ (~t.hurt => Sound(t))
    <3>1. t \in Session /\ t.hurt = s.hurt
      BY <1>1, <2>e, StartedIsSound
    <3>2. ASSUME ~t.hurt PROVE Sound(t)
      <4>1. Sound(s) /\ s.end["listener"].in = "none"
        BY <1>1, <2>1, <3>1, <3>2
      <4> QED BY <1>1, <2>1, <2>e, <3>1, <3>2, <4>1, StartedIsSound
    <3> QED BY <3>1, <3>2
  <2> QED BY <1>4, <2>2, OneSessionMoves DEF t
<1>5. ASSUME NEW ends \in [Sides -> End],
             Becomes(c, [s EXCEPT !.stage = "refused", !.hurt = TRUE, !.end = ends])
      PROVE  TunnelInv'
  <2> DEFINE t == [s EXCEPT !.stage = "refused", !.hurt = TRUE, !.end = ends]
  <2>1. t \in Session /\ t.hurt
    BY <1>1 DEF Session
  <2> HIDE DEF t
  <2> QED BY <1>5, <2>1, OneSessionMoves DEF t
<1>6. CASE handle_accept(c)
  <2>1. CASE Becomes(c, [s EXCEPT !.stage = "refused", !.hurt = TRUE, !.end["dialer"].eof = TRUE])
    <3> DEFINE ends == [s.end EXCEPT !["dialer"].eof = TRUE]
    <3>1. ends \in [Sides -> End]
      <4>1. [s.end["dialer"] EXCEPT !.eof = TRUE] \in End
        <5>1. s.end["dialer"] \in End
          BY <1>2, Ends
        <5> HIDE DEF s
        <5> QED BY <5>1 DEF End
      <4> QED BY <1>2, <4>1
    <3>2. Becomes(c, [s EXCEPT !.stage = "refused", !.hurt = TRUE, !.end = ends])
      BY <2>1
    <3> QED BY <3>1, <3>2, <1>5
  <2> QED BY <1>3, <1>6, <2>1 DEF handle_accept, Started
<1>7. CASE handle_stream(c)
  <2>1. CASE Becomes(c, [s EXCEPT !.stage = "refused", !.hurt = TRUE,
                                  !.end["listener"].flow = "fin",
                                  !.end["dialer"].flow = IF @ = "open" THEN "stopped" ELSE @])
    <3> DEFINE ends == [s.end EXCEPT !["listener"].flow = "fin",
                                     !["dialer"].flow = IF @ = "open" THEN "stopped" ELSE @]
    <3>1. ends \in [Sides -> End]
      <4>1. /\ [s.end["listener"] EXCEPT !.flow = "fin"] \in End
            /\ [s.end["dialer"] EXCEPT !.flow = IF @ = "open" THEN "stopped" ELSE @] \in End
        BY <1>2, Ends DEF End
      <4> QED BY <1>2, <4>1, Ends
    <3>2. Becomes(c, [s EXCEPT !.stage = "refused", !.hurt = TRUE, !.end = ends])
      BY <2>1
    <3> QED BY <3>1, <3>2, <1>5
  <2> QED BY <1>4, <1>7, <2>1 DEF handle_stream, Started
<1> QED BY <1>6, <1>7
\* The session a step of the peer at one end leaves behind.
PeerMoved(s, side, n, hurt) == [s EXCEPT !.hurt = hurt, !.end = [s.end EXCEPT ![side] = n]]

(***************************************************************************)
(* What a peer writes, shuts or closes changes its own end only.           *)
(***************************************************************************)
LEMMA PeerMovedIsSound ==
  ASSUME NEW s \in Session, NEW side \in Sides, NEW n \in End, NEW hurt \in BOOLEAN,
         NEW t, t = PeerMoved(s, side, n, hurt),
         ~hurt => /\ Sound(s) /\ Complete(n) /\ n.in = s.end[side].in
                  /\ ReadOut(n, s.end[Other(side)]) /\ ReadOut(s.end[Other(side)], n)
  PROVE  t \in Session /\ (~t.hurt => Sound(t))
<1> DEFINE far == s.end[Other(side)]
           ends == [s.end EXCEPT ![side] = n]
<1>1. s.end \in [Sides -> End]
  BY DEF Session
<1>2. ends \in [Sides -> End] /\ ends[side] = n /\ ends[Other(side)] = far
  BY <1>1, Ends
<1>3. t = [s EXCEPT !.hurt = hurt, !.end = ends]
  BY DEF PeerMoved
<1> HIDE DEF ends
<1>4. t \in Session /\ t.hurt = hurt /\ t.stage = s.stage /\ t.end = ends
  BY <1>2, <1>3 DEF Session
<1>5. ASSUME ~hurt PROVE Sound(t)
  <2>1. /\ Sound(s) /\ Complete(n) /\ n.in = s.end[side].in
        /\ ReadOut(n, far) /\ ReadOut(far, n) /\ Complete(far)
    BY <1>5, Ends DEF Sound
  <2> HIDE DEF far
  <2>2. \A d \in Sides : Complete(t.end[d]) /\ ReadOut(t.end[d], t.end[Other(d)])
    BY <1>2, <1>4, <2>1, Ends
  <2>3. \A d \in Sides : t.end[d].in = s.end[d].in
    BY <1>2, <1>4, <2>1, Ends DEF far
  <2> QED BY <1>4, <2>1, <2>2, <2>3, Ends DEF Sound
<1> QED BY <1>4, <1>5

(***************************************************************************)
(* A peer writes only what is not shut, and one that leaves before its end *)
(* of file hurts the session.                                              *)
(***************************************************************************)
LEMMA PeerStep ==
  ASSUME TunnelInv, NEW c \in Clients, NEW side \in Sides,
         PeerWrites(c, side) \/ PeerShuts(c, side) \/ PeerLeaves(c, side)
  PROVE  TunnelInv'
<1> DEFINE s == session[c]
           e == s.end[side]
           far == s.end[Other(side)]
<1>1. s \in Session /\ s.hurt \in BOOLEAN /\ s.end \in [Sides -> End] /\ e \in End
  <2>1. s \in Session
    BY DEF TunnelInv
  <2> HIDE DEF s
  <2>2. s.hurt \in BOOLEAN /\ s.end \in [Sides -> End]
    BY <2>1 DEF Session
  <2> QED BY <2>1, <2>2
<1>2. ~s.hurt => Sound(s) /\ Complete(e) /\ ReadOut(e, far) /\ ReadOut(far, e)
  BY Ends DEF TunnelInv, Sound
<1>3. ASSUME NEW n \in End, NEW hurt \in BOOLEAN, Becomes(c, PeerMoved(s, side, n, hurt)),
             s.hurt => hurt, n.in = e.in, n.out = e.out, n.token = e.token,
             ~hurt => Complete(n) /\ ReadOut(n, far) /\ ReadOut(far, n)
      PROVE  TunnelInv'
  <2> DEFINE t == PeerMoved(s, side, n, hurt)
  <2>1. t = PeerMoved(s, side, n, hurt) /\ Becomes(c, t)
    BY <1>3
  <2> HIDE DEF t, s
  <2>2. t \in Session /\ (~t.hurt => Sound(t))
    BY <1>1, <1>2, <1>3, <2>1, PeerMovedIsSound
  <2> QED BY <2>1, <2>2, OneSessionMoves
<1>4. CASE PeerWrites(c, side)
  <2> DEFINE n == [e EXCEPT !.sent = @ + 1]
  <2>1. Becomes(c, PeerMoved(s, side, n, s.hurt)) /\ ~e.shut
    <3>1. Becomes(c, [s EXCEPT !.end[side].sent = @ + 1]) /\ ~e.shut
      BY <1>4 DEF PeerWrites
    <3>2. [s EXCEPT !.end[side].sent = @ + 1] = PeerMoved(s, side, n, s.hurt)
      <4> HIDE DEF s
      <4> QED BY <1>1 DEF PeerMoved, Session
    <3> QED BY <3>1, <3>2
  <2>2. n \in End /\ n.in = e.in /\ n.out = e.out /\ n.token = e.token /\ n.cut = e.cut
        /\ n.flow = e.flow /\ n.carried = e.carried /\ n.got = e.got
        /\ n.shut = e.shut /\ n.gone = e.gone /\ n.eof = e.eof
    <3> HIDE DEF e
    <3> QED BY <1>1 DEF End
  <2> HIDE DEF n, e
  <2>3. ~s.hurt => Complete(n) /\ ReadOut(n, far) /\ ReadOut(far, n)
    BY <1>2, <2>1, <2>2 DEF Complete, ReadOut
  <2> QED BY <1>1, <1>3, <2>1, <2>2, <2>3
<1>5. CASE PeerShuts(c, side)
  <2> DEFINE n == [e EXCEPT !.shut = TRUE]
  <2>1. Becomes(c, PeerMoved(s, side, n, s.hurt))
    <3>1. Becomes(c, [s EXCEPT !.end[side].shut = TRUE])
      BY <1>5 DEF PeerShuts
    <3>2. [s EXCEPT !.end[side].shut = TRUE] = PeerMoved(s, side, n, s.hurt)
      <4> HIDE DEF s
      <4> QED BY <1>1 DEF PeerMoved, Session
    <3> QED BY <3>1, <3>2
  <2>2. n \in End /\ n.in = e.in /\ n.out = e.out /\ n.token = e.token /\ n.cut = e.cut
        /\ n.flow = e.flow /\ n.carried = e.carried /\ n.got = e.got /\ n.sent = e.sent
        /\ n.shut = TRUE /\ n.gone = e.gone /\ n.eof = e.eof
    <3> HIDE DEF e
    <3> QED BY <1>1 DEF End
  <2> HIDE DEF n, e
  <2>3. ~s.hurt => Complete(n) /\ ReadOut(n, far) /\ ReadOut(far, n)
    BY <1>2, <2>2 DEF Complete, ReadOut
  <2> QED BY <1>1, <1>3, <2>1, <2>2, <2>3
<1>6. CASE PeerLeaves(c, side)
  <2> DEFINE n == [e EXCEPT !.shut = TRUE, !.gone = TRUE]
             hurt == s.hurt \/ ~e.eof
  <2>1. Becomes(c, PeerMoved(s, side, n, hurt))
    <3>1. Becomes(c, [s EXCEPT !.end[side].shut = TRUE, !.end[side].gone = TRUE,
                               !.hurt = @ \/ ~session[c].end[side].eof])
      BY <1>6 DEF PeerLeaves
    <3>2. [s EXCEPT !.end[side].shut = TRUE, !.end[side].gone = TRUE,
                    !.hurt = @ \/ ~session[c].end[side].eof] = PeerMoved(s, side, n, hurt)
      BY <1>1 DEF PeerMoved, Session
    <3> QED BY <3>1, <3>2
  <2>2. n \in End /\ n.in = e.in /\ n.out = e.out /\ n.token = e.token /\ n.cut = e.cut
        /\ n.flow = e.flow /\ n.carried = e.carried /\ n.got = e.got /\ n.sent = e.sent
        /\ n.shut = TRUE /\ n.gone = TRUE /\ n.eof = e.eof
    <3> HIDE DEF e
    <3> QED BY <1>1 DEF End
  <2> HIDE DEF n, e
  <2>3. ~hurt => Complete(n) /\ ReadOut(n, far) /\ ReadOut(far, n)
    BY <1>2, <2>2 DEF Complete, ReadOut
  <2>4. hurt \in BOOLEAN /\ (s.hurt => hurt)
    OBVIOUS
  <2> HIDE DEF hurt
  <2> QED BY <1>1, <1>3, <2>1, <2>2, <2>3, <2>4
<1> QED BY <1>4, <1>5, <1>6
-----------------------------------------------------------------------------
(***************************************************************************)
(* A step of a process leaves every session as it was, or hurts it.        *)
(***************************************************************************)
LEMMA LeavesOrHurts ==
  ASSUME TunnelInv, inode' \in Dialers \union {Nobody, Leftover},
         session' = [c \in Clients |-> session'[c]],
         \A c \in Clients : \/ session'[c] = session[c]
                            \/ session'[c] \in Session /\ session'[c].hurt
  PROVE  TunnelInv'
<1>1. session' \in [Clients -> Session]
  BY DEF TunnelInv
<1>2. ASSUME NEW c \in Clients, ~session'[c].hurt PROVE Sound(session'[c])
  BY <1>2 DEF TunnelInv
<1>3. (\A b \in Clients : ~session[b].hurt => Sound(session[b]))'
  BY <1>2
<1> QED BY <1>1, <1>3 DEF TunnelInv

(***************************************************************************)
(* The ends of a session a failure has been to are still ends.             *)
(***************************************************************************)
LEMMA HurtEnds ==
  ASSUME NEW e \in End
  PROVE  Dead(e) \in End /\ CutOff(e) \in End /\ [e EXCEPT !.cut = TRUE] \in End
  BY DEF End, Dead, CutOff

(***************************************************************************)
(* What failures replace of a session.                                     *)
(***************************************************************************)
LEMMA HurtSession ==
  ASSUME NEW s \in Session, NEW t, NEW near \in End, NEW far \in End, NEW at \in Dialers \union {Nobody},
         t = [s EXCEPT !.at = at, !.hurt = TRUE, !.end = [s.end EXCEPT !["dialer"] = near, !["listener"] = far]]
  PROVE  t \in Session /\ t.hurt
<1>1. s.end \in [Sides -> End]
  BY DEF Session
<1>2. [s.end EXCEPT !["dialer"] = near, !["listener"] = far] \in [Sides -> End]
  BY <1>1, Ends
<1> QED BY <1>2 DEF Session

(***************************************************************************)
(* The end of a dialer, of the listener or of the path hurts the sessions  *)
(* it carries and no other.                                                *)
(***************************************************************************)
LEMMA ProcessStep ==
  ASSUME TunnelInv,
         \/ \E d \in Dialers : DialerSteps(d) \/ DialerStops(d) \/ PathLost(d) \/ Noticed(d)
         \/ ListenerStarts \/ ListenerStops \/ Calms
  PROVE  TunnelInv'
<1>t. \A c \in Clients : /\ session[c] \in Session /\ session[c].end \in [Sides -> End]
                         /\ session[c].at \in Dialers \union {Nobody}
                         /\ session[c].end["dialer"] \in End /\ session[c].end["listener"] \in End
  <2> TAKE c \in Clients
  <2> DEFINE s == session[c]
  <2>1. s \in Session
    BY DEF TunnelInv
  <2> HIDE DEF s
  <2>2. s.end \in [Sides -> End] /\ s.at \in Dialers \union {Nobody}
    BY <2>1 DEF Session
  <2>3. s.end["dialer"] \in End /\ s.end["listener"] \in End
    BY <2>2, Ends
  <2> QED BY <2>1, <2>2, <2>3 DEF s
<1>u. ASSUME session' = session, inode' \in Dialers \union {Nobody, Leftover} PROVE TunnelInv'
  BY <1>u DEF TunnelInv
<1>1. ASSUME NEW d \in Dialers, Quits(d) PROVE TunnelInv'
  <2> DEFINE hit(c) ==
        IF session[c].at = d
        THEN [session[c] EXCEPT !.at = Nobody, !.hurt = TRUE,
                                !.end["dialer"] = CutOff(Dead(@)), !.end["listener"] = CutOff(@)]
        ELSE session[c]
  <2>1. session' = [c \in Clients |-> hit(c)] /\ inode' \in Dialers \union {Nobody, Leftover}
    BY <1>1 DEF Quits, TunnelInv
  <2>2. ASSUME NEW c \in Clients, session[c].at = d PROVE hit(c) \in Session /\ hit(c).hurt
    <3> DEFINE s == session[c]
               near == CutOff(Dead(s.end["dialer"]))
               far == CutOff(s.end["listener"])
    <3>1. s \in Session /\ s.end \in [Sides -> End] /\ near \in End /\ far \in End
      BY <1>t, HurtEnds
    <3>2. hit(c) = [s EXCEPT !.at = Nobody, !.hurt = TRUE,
                             !.end = [s.end EXCEPT !["dialer"] = near, !["listener"] = far]]
      BY <2>2, <3>1 DEF Session, Sides
    <3>3. hit(c) = [s EXCEPT !.at = Nobody, !.hurt = TRUE,
                             !.end = [s.end EXCEPT !["dialer"] = near, !["listener"] = far]]
          => hit(c) \in Session /\ hit(c).hurt
      <4> HIDE DEF hit, s, near, far
      <4> QED BY <3>1, HurtSession
    <3> QED BY <3>2, <3>3
  <2>3. \A c \in Clients : hit(c) = session[c] \/ (hit(c) \in Session /\ hit(c).hurt)
    BY <2>2
  <2> HIDE DEF hit
  <2>4. /\ session' = [c \in Clients |-> session'[c]]
        /\ \A c \in Clients : \/ session'[c] = session[c]
                              \/ session'[c] \in Session /\ session'[c].hurt
    BY <2>1, <2>3
  <2> QED BY <2>1, <2>4, LeavesOrHurts
<1>2. ASSUME NEW d \in Dialers, PathLost(d) PROVE TunnelInv'
  <2> DEFINE hit(c) ==
        IF session[c].at = d
        THEN [session[c] EXCEPT !.hurt = TRUE, !.end["listener"].cut = TRUE] ELSE session[c]
  <2>1. session' = [c \in Clients |-> hit(c)] /\ inode' \in Dialers \union {Nobody, Leftover}
    BY <1>2 DEF PathLost, TunnelInv
  <2>2. ASSUME NEW c \in Clients, session[c].at = d PROVE hit(c) \in Session /\ hit(c).hurt
    <3> DEFINE s == session[c]
               near == s.end["dialer"]
               far == [s.end["listener"] EXCEPT !.cut = TRUE]
    <3>1. /\ s \in Session /\ s.end \in [Sides -> End] /\ near \in End /\ far \in End
          /\ s.at \in Dialers \union {Nobody}
      BY <1>t, HurtEnds
    <3>2. hit(c) = [s EXCEPT !.at = s.at, !.hurt = TRUE,
                             !.end = [s.end EXCEPT !["dialer"] = near, !["listener"] = far]]
      BY <2>2, <3>1 DEF Session, Sides
    <3>3. hit(c) = [s EXCEPT !.at = s.at, !.hurt = TRUE,
                             !.end = [s.end EXCEPT !["dialer"] = near, !["listener"] = far]]
          => hit(c) \in Session /\ hit(c).hurt
      <4> HIDE DEF hit, s, near, far
      <4> QED BY <3>1, HurtSession
    <3> QED BY <3>2, <3>3
  <2>3. \A c \in Clients : hit(c) = session[c] \/ (hit(c) \in Session /\ hit(c).hurt)
    BY <2>2
  <2> HIDE DEF hit
  <2>4. /\ session' = [c \in Clients |-> session'[c]]
        /\ \A c \in Clients : \/ session'[c] = session[c]
                              \/ session'[c] \in Session /\ session'[c].hurt
    BY <2>1, <2>3
  <2> QED BY <2>1, <2>4, LeavesOrHurts
<1>3. ASSUME NEW d \in Dialers, Noticed(d) PROVE TunnelInv'
  <2> DEFINE hit(c) ==
        IF session[c].at = d
        THEN [session[c] EXCEPT !.hurt = TRUE, !.end["dialer"].cut = TRUE] ELSE session[c]
  <2>1. session' = [c \in Clients |-> hit(c)] /\ inode' \in Dialers \union {Nobody, Leftover}
    BY <1>3 DEF Noticed, TunnelInv
  <2>2. ASSUME NEW c \in Clients, session[c].at = d PROVE hit(c) \in Session /\ hit(c).hurt
    <3> DEFINE s == session[c]
               near == [s.end["dialer"] EXCEPT !.cut = TRUE]
               far == s.end["listener"]
    <3>1. /\ s \in Session /\ s.end \in [Sides -> End] /\ near \in End /\ far \in End
          /\ s.at \in Dialers \union {Nobody}
      BY <1>t, HurtEnds
    <3>2. hit(c) = [s EXCEPT !.at = s.at, !.hurt = TRUE,
                             !.end = [s.end EXCEPT !["dialer"] = near, !["listener"] = far]]
      BY <2>2, <3>1 DEF Session, Sides
    <3>3. hit(c) = [s EXCEPT !.at = s.at, !.hurt = TRUE,
                             !.end = [s.end EXCEPT !["dialer"] = near, !["listener"] = far]]
          => hit(c) \in Session /\ hit(c).hurt
      <4> HIDE DEF hit, s, near, far
      <4> QED BY <3>1, HurtSession
    <3> QED BY <3>2, <3>3
  <2>3. \A c \in Clients : hit(c) = session[c] \/ (hit(c) \in Session /\ hit(c).hurt)
    BY <2>2
  <2> HIDE DEF hit
  <2>4. /\ session' = [c \in Clients |-> session'[c]]
        /\ \A c \in Clients : \/ session'[c] = session[c]
                              \/ session'[c] \in Session /\ session'[c].hurt
    BY <2>1, <2>3
  <2> QED BY <2>1, <2>4, LeavesOrHurts
<1>4. CASE ListenerStops
  <2> DEFINE hit(c) ==
        IF session[c].stage = "idle" THEN session[c]
        ELSE [session[c] EXCEPT !.hurt = TRUE, !.end["listener"] =
                [(IF session[c].stage = "served" THEN Dead(@) ELSE @) EXCEPT !.cut = TRUE]]
  <2>1. session' = [c \in Clients |-> hit(c)] /\ inode' \in Dialers \union {Nobody, Leftover}
    BY <1>4 DEF ListenerStops, TunnelInv
  <2>2. ASSUME NEW c \in Clients, session[c].stage # "idle" PROVE hit(c) \in Session /\ hit(c).hurt
    <3> DEFINE s == session[c]
               near == s.end["dialer"]
               dead == IF s.stage = "served" THEN Dead(s.end["listener"]) ELSE s.end["listener"]
               far == [dead EXCEPT !.cut = TRUE]
    <3>1. /\ s \in Session /\ s.end \in [Sides -> End] /\ near \in End /\ far \in End
          /\ s.at \in Dialers \union {Nobody}
      <4>1. dead \in End
        BY <1>t, HurtEnds
      <4> HIDE DEF dead
      <4> QED BY <1>t, <4>1, HurtEnds
    <3>2. hit(c) = [s EXCEPT !.at = s.at, !.hurt = TRUE,
                             !.end = [s.end EXCEPT !["dialer"] = near, !["listener"] = far]]
      BY <2>2, <3>1 DEF Session, Sides
    <3>3. hit(c) = [s EXCEPT !.at = s.at, !.hurt = TRUE,
                             !.end = [s.end EXCEPT !["dialer"] = near, !["listener"] = far]]
          => hit(c) \in Session /\ hit(c).hurt
      <4> HIDE DEF hit, s, near, far
      <4> QED BY <3>1, HurtSession
    <3> QED BY <3>2, <3>3
  <2>3. \A c \in Clients : hit(c) = session[c] \/ (hit(c) \in Session /\ hit(c).hurt)
    BY <2>2
  <2> HIDE DEF hit
  <2>4. /\ session' = [c \in Clients |-> session'[c]]
        /\ \A c \in Clients : \/ session'[c] = session[c]
                              \/ session'[c] \in Session /\ session'[c].hurt
    BY <2>1, <2>3
  <2> QED BY <2>1, <2>4, LeavesOrHurts
<1>5. CASE ListenerStarts \/ Calms
  BY <1>5, <1>u DEF ListenerStarts, Calms, TunnelInv
<1>6. ASSUME NEW d \in Dialers, DialerSteps(d) \/ DialerStops(d) PROVE TunnelInv'
  <2>1. \/ Quits(d)
        \/ session' = session /\ (inode' = inode \/ inode' = d \/ inode' = Nobody)
    BY <1>6 DEF DialerSteps, DialerStops, Dials, bind, NotServed, remove_file, finish_bind, ConnectionClosed, TunnelInv
  <2>2. CASE session' = session /\ (inode' = inode \/ inode' = d \/ inode' = Nobody)
    BY <1>u, <2>2 DEF TunnelInv
  <2> QED BY <1>1, <2>1, <2>2
<1> QED BY <1>1, <1>2, <1>3, <1>4, <1>5, <1>6
-----------------------------------------------------------------------------
(***************************************************************************)
(* Nobody is connected at the start.                                       *)
(***************************************************************************)
LEMMA TunnelInvInit == TunnelInit => TunnelInv
  BY FreshIsSound DEF TunnelInit, TunnelInv

(***************************************************************************)
(* No step of a process, a session, a task or a peer breaks it.            *)
(***************************************************************************)
LEMMA TunnelInvNext == TunnelInv /\ [TunnelNext]_tunnel_vars => TunnelInv'
<1> SUFFICES ASSUME TunnelInv, [TunnelNext]_tunnel_vars PROVE TunnelInv'
  OBVIOUS
<1>1. CASE \/ \E d \in Dialers : DialerSteps(d) \/ DialerStops(d) \/ PathLost(d) \/ Noticed(d)
           \/ ListenerStarts \/ ListenerStops \/ Calms
  BY <1>1, ProcessStep
<1>2. CASE \E c \in Clients : ClientConnects(c) \/ SessionSteps(c)
  BY <1>2, ComesAndGoesStep, AcceptStep DEF SessionSteps
<1>3. CASE \E c \in Clients, side \in Sides : forward_bidi(c, side)
  BY <1>3, ForwardStep
<1>4. CASE \E c \in Clients, side \in Sides :
             PeerWrites(c, side) \/ PeerShuts(c, side) \/ PeerLeaves(c, side)
  BY <1>4, PeerStep
<1>5. CASE UNCHANGED tunnel_vars
  BY <1>5 DEF tunnel_vars, TunnelInv
<1> QED BY <1>1, <1>2, <1>3, <1>4, <1>5 DEF TunnelNext

(***************************************************************************)
(* For any number of clients and dialers and any amount of data, with      *)
(* processes, the path, backends and peers failing at any time: a peer     *)
(* that reads the end of file in a session nothing happened to has read    *)
(* everything the other one wrote (forward_bidi of lib.rs).                *)
(***************************************************************************)
THEOREM SessionsAreWhole == TunnelSpec => []CutShortOnlyByFailure
<1>1. TunnelInv => CutShortOnlyByFailure
  <2> SUFFICES ASSUME TunnelInv, NEW c \in Clients, NEW side \in Sides,
                      session[c].end[side].eof, ~session[c].hurt
               PROVE  /\ session[c].end[Other(side)].shut
                      /\ session[c].end[side].got = session[c].end[Other(side)].sent
    BY DEF CutShortOnlyByFailure
  <2>1. /\ ReadOut(session[c].end[side], session[c].end[Other(side)])
        /\ Complete(session[c].end[Other(side)])
    BY Ends DEF TunnelInv, Sound
  <2> QED BY <2>1 DEF ReadOut, Complete
<1> QED BY TunnelInvInit, TunnelInvNext, <1>1, PTL DEF TunnelSpec
=============================================================================
