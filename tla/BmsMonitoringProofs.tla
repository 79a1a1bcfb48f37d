------------------------- MODULE BmsMonitoringProofs -------------------------
(***************************************************************************)
(* BmsMonitoring for every unit of time, every line and every length of    *)
(* the tty's queue.                                                        *)
(***************************************************************************)
EXTENDS BmsMonitoring, TLAPS

Held == [age : Nat, held : Nat, told : BOOLEAN]
Burst == [kinds : SUBSET Kinds, age : Nat]

LoopTypeOK ==
  /\ line \in Lines /\ pushing \in BOOLEAN
  /\ pc \in {"settings", "drain", "posting", "between", "exited"}
  /\ job \in {"first", "status", "again"}
  /\ wait \in Nat /\ left \in Int /\ since \in Nat /\ silent \in Nat /\ seed \in Nat
  /\ realtime \in Held /\ settings \in Held /\ queue \in Seq(Burst)

\* In the loop, between a measurement and the next drain.
Publishing == pc = "between" \/ (pc = "posting" /\ job # "first")

\* A measurement is never late: the two POSTs of a cycle fit into it.
OnTime ==
  /\ pc = "drain" => 0 <= left /\ left <= Interval
  /\ Publishing => left <= 0
  /\ pc = "between" => -PostTime <= left
  /\ pc = "posting" => wait <= PostTime
  /\ pc = "posting" /\ job = "status" => wait - PostTime <= left
  /\ pc = "posting" /\ job = "again" => wait - 2 * PostTime <= left

\* The frame has been held for n units, or for too long to tell.
Old(f, n) == f.held >= n \/ f.held >= Stale

\* A frame that is held is one of the last measurement or an earlier one, or
\* it arrived since then and has not been reported.
News ==
  /\ pc = "drain" => \/ Old(realtime, Interval - left)
                     \/ ~realtime.told /\ realtime.age <= Interval - left
  /\ Publishing => Old(realtime, -left) /\ Old(settings, -left)

YoungerThan(n) == \A i \in 1..Len(queue) : queue[i].age <= n

\* What is in the queue arrived since the last measurement, unless a cycle
\* without a drain has left it there, which then has nothing to publish.
Queued ==
  /\ pc = "drain" /\ left > 0 => left = Interval \/ YoungerThan(Interval - left)
  /\ pc = "drain" /\ left = 0 /\ queue # <<>> => ~Fresh(realtime) /\ ~Fresh(settings)
  /\ pc = "posting" /\ job # "first" =>
       YoungerThan(-left) /\ (left = 0 => queue = <<>>)
  /\ pc = "between" => /\ left < 0 => YoungerThan(-left)
                       /\ left = 0 /\ queue # <<>> => ~Fresh(settings)

\* While the pack talks, a cycle without a drain follows a settings
\* measurement, and no other.
Talks ==
  /\ ~line.faults => pushing
  /\ Talking =>
       /\ silent <= 1
       /\ pc = "settings" => since = 0 /\ silent = 0
       /\ pc = "posting" => silent = 0
       /\ pc = "posting" /\ job = "first" => since + wait <= PostTime + 1
       /\ pc = "drain" \/ Publishing => since + left <= SettingsInterval + Interval - 1
       /\ pc = "between" /\ silent # 0 => since = 0
       /\ pc = "drain" /\ left = 0 =>
            (realtime.held = 0 /\ settings.held = 0) \/ (since = 0 /\ silent = 0)
       /\ pc = "between" \/ (pc = "posting" /\ job = "status") =>
            settings.held <= -left \/ since <= -left
       /\ pc = "exited" => once

LoopInv == LoopTypeOK /\ OnTime /\ News /\ Queued /\ Talks

-----------------------------------------------------------------------------
(***************************************************************************)
(* The durations are natural numbers, a POST fits into the frame timeout   *)
(* and a frame that counts as stale is too old to be published.            *)
(***************************************************************************)
LEMMA Durations ==
  /\ Interval \in Nat /\ FrameTimeout \in Nat /\ SettingsInterval \in Nat /\ PostTime \in Nat
  /\ Stale \in Nat /\ FrameTimeout < Stale /\ PostTime <= FrameTimeout
  /\ 0 < Interval /\ 0 < SettingsInterval /\ 2 * PostTime <= Interval /\ PostTime < Interval
  /\ FrameTimeout < Interval /\ Interval <= FrameTimeout + PostTime
  /\ MaxSince \in Nat /\ MaxSilentCycles \in Nat /\ 1 < MaxSilentCycles
  BY PositiveAssumption, DefaultsAssumption DEF Stale, MaxSince

(***************************************************************************)
(* A unit of time adds at most one to an age (Instant::elapsed).           *)
(***************************************************************************)
LEMMA OlderByOne ==
  ASSUME NEW a \in Nat
  PROVE  /\ Older(a) \in Nat /\ Older(a) <= a + 1
         /\ a < Stale => Older(a) = a + 1
         /\ a >= Stale => Older(a) >= Stale
  BY Durations DEF Older

(***************************************************************************)
(* What a unit of time does to a frame that is held: neither age grows by  *)
(* more than one, it stays reported or not, and an old one stays old.      *)
(***************************************************************************)
LEMMA FrameAges ==
  ASSUME NEW f \in Held
  PROVE  /\ Aged(f) \in Held
         /\ Aged(f).age <= f.age + 1 /\ Aged(f).held <= f.held + 1
         /\ Aged(f).told = f.told
         /\ \A n \in Int : Old(f, n) => Old(Aged(f), n + 1)
<1>1. f.age \in Nat /\ f.held \in Nat /\ f.told \in BOOLEAN
  BY DEF Held
<1>2. Aged(f).age = Older(f.age) /\ Aged(f).held = Older(f.held) /\ Aged(f).told = f.told
  BY DEF Aged
<1>3. Aged(f) \in Held
  BY <1>1, OlderByOne DEF Aged, Held
<1>4. ASSUME NEW n \in Int, Old(f, n) PROVE Old(Aged(f), n + 1)
  BY <1>1, <1>2, <1>4, OlderByOne, Durations DEF Old
<1> QED BY <1>1, <1>2, <1>3, <1>4, OlderByOne

\* The queue after a unit of time.
OlderQueue == [i \in DOMAIN queue |-> [queue[i] EXCEPT !.age = Older(@)]]

(***************************************************************************)
(* A unit of time loses nothing from the queue, adds at most one to the    *)
(* ages in it, and a burst that is appended is new (drain_until).          *)
(***************************************************************************)
LEMMA QueueAges ==
  ASSUME queue \in Seq(Burst)
  PROVE  /\ OlderQueue \in Seq(Burst) /\ Len(OlderQueue) = Len(queue)
         /\ queue = <<>> => OlderQueue = <<>>
         /\ \A i \in 1..Len(queue) : OlderQueue[i].age <= queue[i].age + 1
<1>1. DOMAIN queue = 1..Len(queue) /\ Len(queue) \in Nat
  OBVIOUS
<1>2. ASSUME NEW i \in 1..Len(queue)
      PROVE  /\ OlderQueue[i] \in Burst /\ OlderQueue[i].age <= queue[i].age + 1
  <2>1. queue[i] \in Burst
    OBVIOUS
  <2>2. queue[i].age \in Nat /\ queue[i].kinds \in SUBSET Kinds
    BY <2>1 DEF Burst
  <2>3. OlderQueue[i] = [queue[i] EXCEPT !.age = Older(queue[i].age)]
    BY <1>1 DEF OlderQueue
  <2>4. OlderQueue[i] = [kinds |-> queue[i].kinds, age |-> Older(queue[i].age)]
    BY <2>1, <2>3 DEF Burst
  <2>5. Older(queue[i].age) \in Nat /\ Older(queue[i].age) <= queue[i].age + 1
    BY <2>2, OlderByOne
  <2>6. OlderQueue[i] \in Burst
    BY <2>2, <2>4, <2>5 DEF Burst
  <2>7. OlderQueue[i].age = Older(queue[i].age)
    BY <2>4
  <2> QED BY <2>5, <2>6, <2>7
<1>3. OlderQueue \in [1..Len(queue) -> Burst]
  BY <1>1, <1>2 DEF OlderQueue
<1>4. OlderQueue \in Seq(Burst) /\ Len(OlderQueue) = Len(queue)
  BY <1>1, <1>3
<1>5. queue = <<>> => OlderQueue = <<>>
  BY <1>4
<1> QED BY <1>2, <1>4, <1>5
-----------------------------------------------------------------------------
(***************************************************************************)
(* The frames the daemon makes up are frames.                              *)
(***************************************************************************)
LEMMA MadeFrames ==
  /\ NoFrame \in Held /\ NoFrame.held = Stale
  /\ \A a \in Nat : /\ Stamped(a) \in Held /\ Stamped(a).held = 0
                    /\ Stamped(a).age = a /\ Stamped(a).told = FALSE
  BY Durations DEF NoFrame, Stamped, Held

(***************************************************************************)
(* The first settings frame is waited for at the start of the program.     *)
(***************************************************************************)
LEMMA LoopInvInit == BmsInit => LoopInv
<1> SUFFICES ASSUME BmsInit PROVE LoopInv
  OBVIOUS
<1>1. LoopTypeOK
  <2>1. queue \in Seq(Burst)
    BY DEF BmsInit
  <2> QED BY <2>1, MadeFrames, Durations DEF BmsInit, LoopTypeOK
<1>2. OnTime /\ News
  BY DEF BmsInit, OnTime, News, Publishing
<1>3. Queued
  BY DEF BmsInit, Queued
<1>4. Talks
  BY DEF BmsInit, Talks, Publishing
<1> QED BY <1>1, <1>2, <1>3, <1>4 DEF LoopInv

(***************************************************************************)
(* connect_within returns: a new session starts like the first.            *)
(***************************************************************************)
LEMMA RestartsStep == LoopInv /\ Restarts => LoopInv'
<1> SUFFICES ASSUME LoopInv, Restarts PROVE LoopInv'
  OBVIOUS
<1> USE DEF LoopInv, Restarts, Session
<1>1. LoopTypeOK'
  <2>1. queue' \in Seq(Burst)
    OBVIOUS
  <2> QED BY <2>1, MadeFrames, Durations DEF LoopTypeOK
<1>2. OnTime' /\ News'
  BY DEF OnTime, News, Publishing
<1>3. Queued'
  BY DEF Queued
<1>4. Talks'
  BY DEF Talks, Publishing, Talking
<1> QED BY <1>1, <1>2, <1>3, <1>4

(***************************************************************************)
(* The loop is entered with the frame discovery read, stamped now.         *)
(***************************************************************************)
LEMMA EnterLoopStep == LoopInv /\ EnterLoop => LoopInv'
<1> SUFFICES ASSUME LoopInv, EnterLoop PROVE LoopInv'
  OBVIOUS
<1> USE DEF LoopInv, EnterLoop
<1>1. LoopTypeOK'
  BY MadeFrames, Durations DEF LoopTypeOK
<1>2. OnTime'
  BY Durations DEF OnTime, Publishing
<1>3. News'
  <2>1. realtime'.held = 0 /\ Interval - left' = 0
    BY MadeFrames, Durations DEF LoopTypeOK
  <2> QED BY <2>1 DEF News, Publishing, Old
<1>4. Queued'
  BY Durations DEF Queued
<1>5. Talks'
  BY Durations DEF Talks, Publishing, Talking
<1> QED BY <1>1, <1>2, <1>3, <1>4, <1>5

(***************************************************************************)
(* next_frame gives up on the first settings frame.                        *)
(***************************************************************************)
LEMMA NoSettingsStep == LoopInv /\ NoSettings => LoopInv'
  BY EnterLoopStep DEF NoSettings

(***************************************************************************)
(* A vanished adapter or a switched pack is no line that talks.            *)
(***************************************************************************)
LEMMA FaultStep == LoopInv /\ (PortGone \/ PowerSwitched) => LoopInv'
<1> SUFFICES ASSUME LoopInv, PortGone \/ PowerSwitched PROVE LoopInv'
  OBVIOUS
<1>1. CASE PortGone
  <2> USE <1>1 DEF LoopInv, PortGone
  <2>1. LoopTypeOK'
    BY DEF LoopTypeOK
  <2>2. OnTime' /\ News'
    BY DEF OnTime, News, Publishing
  <2>3. Queued'
    BY DEF Queued
  <2>4. Talks'
    BY DEF Talks, Talking
  <2> QED BY <2>1, <2>2, <2>3, <2>4
<1>2. CASE PowerSwitched
  <2> USE <1>2 DEF LoopInv, PowerSwitched
  <2>1. LoopTypeOK'
    BY DEF LoopTypeOK
  <2>2. OnTime' /\ News'
    BY DEF OnTime, News, Publishing, Old
  <2>3. Queued'
    BY DEF Queued, Fresh, YoungerThan
  <2>4. Talks'
    BY DEF Talks, Talking
  <2> QED BY <2>1, <2>2, <2>3, <2>4
<1> QED BY <1>1, <1>2
(***************************************************************************)
(* drain_until reads a queued burst: it is stamped now, and came since the *)
(* last measurement unless the cycle has only begun.                       *)
(***************************************************************************)
LEMMA DrainReadsStep == LoopInv /\ DrainReads => LoopInv'
<1> SUFFICES ASSUME LoopInv, DrainReads PROVE LoopInv'
  OBVIOUS
<1> DEFINE burst == Head(queue)
<1>t. LoopTypeOK
  BY DEF LoopInv
<1>q. /\ queue \in Seq(Burst) /\ queue # <<>> /\ queue' = Tail(queue)
      /\ pc = "drain" /\ left > 0 /\ left \in Int
      /\ UNCHANGED <<line, once, pushing, pc, job, wait, left, seed, silent, since, ticks>>
  BY DEF LoopInv, LoopTypeOK, DrainReads
<1>h. /\ burst = queue[1] /\ burst \in Burst /\ 1 \in 1..Len(queue)
      /\ queue' \in Seq(Burst) /\ Len(queue') = Len(queue) - 1
      /\ \A i \in 1..Len(queue') : queue'[i] = queue[i + 1] /\ i + 1 \in 1..Len(queue)
  BY <1>q
<1>a. burst.age \in Nat
  BY <1>h DEF Burst
<1>m. Stamped(burst.age) \in Held /\ Stamped(burst.age).held = 0
      /\ Stamped(burst.age).age = burst.age /\ Stamped(burst.age).told = FALSE
  BY <1>a, MadeFrames
<1>r. /\ realtime' = realtime \/ realtime' = Stamped(burst.age)
      /\ settings' = settings \/ settings' = Stamped(burst.age)
  BY DEF DrainReads
<1>1. LoopTypeOK'
  <2>1. realtime' \in Held /\ settings' \in Held
    BY <1>t, <1>m, <1>r DEF LoopTypeOK
  <2> QED BY <1>t, <1>q, <1>h, <2>1 DEF LoopTypeOK
<1>2. OnTime'
  BY <1>q DEF LoopInv, OnTime, Publishing
<1>3. News'
  <2>1. left = Interval \/ burst.age <= Interval - left
    BY <1>q, <1>h DEF LoopInv, Queued, YoungerThan
  <2>2. CASE realtime' = realtime
    BY <1>q, <2>2 DEF LoopInv, News, Publishing
  <2>3. CASE realtime' = Stamped(burst.age) /\ left = Interval
    <3>1. realtime'.held >= Interval - left'
      BY <1>q, <1>m, <2>3, Durations
    <3> QED BY <1>q, <3>1 DEF News, Publishing, Old
  <2>4. CASE realtime' = Stamped(burst.age) /\ burst.age <= Interval - left
    <3>1. ~realtime'.told /\ realtime'.age <= Interval - left'
      BY <1>q, <1>m, <2>4
    <3> QED BY <1>q, <3>1 DEF News, Publishing
  <2> QED BY <1>r, <2>1, <2>2, <2>3, <2>4
<1>4. Queued'
  <2>1. left = Interval \/ YoungerThan(Interval - left)
    BY <1>q DEF LoopInv, Queued
  <2>2. left' = Interval \/ YoungerThan(Interval - left)'
    BY <1>q, <1>h, <2>1 DEF YoungerThan
  <2> QED BY <1>q, <2>2 DEF Queued
<1>5. Talks'
  BY <1>q DEF LoopInv, Talks, Publishing, Talking
<1> QED BY <1>1, <1>2, <1>3, <1>4, <1>5 DEF LoopInv

(***************************************************************************)
(* A measurement is due: it happens on time, so what is posted goes out    *)
(* with an empty queue and a silent cycle is the first in a row.           *)
(***************************************************************************)
LEMMA MeasuresStep == LoopInv /\ Measures => LoopInv'
<1> SUFFICES ASSUME LoopInv, Measures PROVE LoopInv'
  OBVIOUS
<1>t. LoopTypeOK
  BY DEF LoopInv
<1>z. left = 0 /\ pc = "drain"
  BY <1>t DEF LoopInv, LoopTypeOK, OnTime, Measures
<1>u. UNCHANGED <<line, once, pushing, left, queue, seed, settings, since>>
  BY DEF Measures
<1>h. /\ realtime \in Held /\ realtime.held \in Nat /\ settings \in Held /\ settings.held \in Nat
      /\ silent \in Nat /\ since \in Nat /\ queue \in Seq(Burst)
  BY <1>t DEF LoopTypeOK, Held
<1>f. realtime' \in Held /\ realtime'.held = realtime.held
  <2>1. [realtime EXCEPT !.told = TRUE] \in Held
        /\ [realtime EXCEPT !.told = TRUE].held = realtime.held
    BY <1>h DEF Held
  <2> QED BY <1>h, <2>1 DEF Measures
<1>c. \/ /\ Fresh(realtime) /\ silent' = 0 /\ pc' = "posting" /\ job' = "status" /\ wait' = PostTime
      \/ /\ Fresh(realtime) /\ silent' = 0 /\ line.faults /\ pc' = "between" /\ UNCHANGED <<job, wait>>
      \/ /\ ~Fresh(realtime) /\ silent' = silent + 1 /\ UNCHANGED <<job, wait>>
         /\ pc' = IF silent + 1 >= MaxSilentCycles THEN "exited" ELSE "between"
  BY DEF Measures, Posting
<1>1. LoopTypeOK'
  <2>1. silent' \in Nat /\ wait' \in Nat
    BY <1>t, <1>h, <1>c, Durations DEF LoopTypeOK
  <2>2. pc' \in {"settings", "drain", "posting", "between", "exited"}
        /\ job' \in {"first", "status", "again"}
    BY <1>t, <1>c DEF LoopTypeOK
  <2> QED BY <1>t, <1>u, <1>f, <2>1, <2>2 DEF LoopTypeOK
<1>2. OnTime'
  BY <1>z, <1>u, <1>c, Durations DEF OnTime, Publishing
<1>3. News'
  <2>1. realtime'.held >= -left' /\ settings'.held >= -left'
    BY <1>z, <1>u, <1>h, <1>f
  <2>2. pc' # "drain"
    BY <1>c
  <2> QED BY <2>1, <2>2 DEF News, Old
<1>4. Queued'
  <2>1. Fresh(realtime) => queue = <<>>
    BY <1>z DEF LoopInv, Queued
  <2>2. queue # <<>> => ~Fresh(settings)
    BY <1>z DEF LoopInv, Queued
  <2>3. pc' = "posting" => queue' = <<>> /\ Len(queue') = 0
    BY <1>u, <1>c, <2>1
  <2>4. pc' # "drain" /\ left' = 0 /\ (queue' # <<>> => ~Fresh(settings)')
    BY <1>z, <1>u, <1>c, <2>2 DEF Fresh
  <2> QED BY <2>3, <2>4 DEF Queued, YoungerThan
<1>5. Talks'
  <2>1. CASE ~Talking
    <3>1. ~Talking'
      BY <1>u, <2>1 DEF Talking
    <3>2. (~line.faults => pushing)'
      BY <1>u DEF LoopInv, Talks
    <3> QED BY <3>1, <3>2 DEF Talks
  <2>2. CASE Talking
    <3>1. /\ ~line.faults /\ silent <= 1 /\ since + left <= SettingsInterval + Interval - 1
          /\ (realtime.held = 0 /\ settings.held = 0) \/ (since = 0 /\ silent = 0)
          /\ ~line.faults => pushing
      BY <1>z, <2>2 DEF LoopInv, Talks, Talking
    <3>2. \/ silent' = 0 /\ pc' = "posting" /\ job' = "status" /\ wait' = PostTime
          \/ silent' = 1 /\ since = 0 /\ pc' = "between"
      <4>1. CASE Fresh(realtime)
        BY <1>c, <3>1, <4>1
      <4>2. CASE ~Fresh(realtime)
        <5>1. realtime.held # 0
          BY <4>2, Durations DEF Fresh
        <5>2. since = 0 /\ silent = 0
          BY <3>1, <5>1
        <5> QED BY <1>c, <4>2, <5>2, Durations
      <4> QED BY <4>1, <4>2
    <3>3. settings'.held <= -left' \/ since' <= -left'
      BY <1>z, <1>u, <3>1
    <3>4. since' + left' <= SettingsInterval + Interval - 1 /\ (~line.faults => pushing)'
      BY <1>u, <3>1
    <3> QED BY <1>u, <3>2, <3>3, <3>4 DEF Talks, Publishing
  <2> QED BY <2>1, <2>2
<1> QED BY <1>1, <1>2, <1>3, <1>4, <1>5 DEF LoopInv
(***************************************************************************)
(* The next cycle begins early enough to be on time, with everything held  *)
(* and queued as old as the part of the cycle that has passed.             *)
(***************************************************************************)
LEMMA CycleBegins ==
  ASSUME LoopInv, NextCycle, Publishing, -2 * PostTime <= left,
         UNCHANGED <<line, queue, realtime, settings>>
  PROVE  /\ OnTime' /\ News'
         /\ (pc = "between" \/ YoungerThan(-left)) => Queued'
<1>t. left \in Int /\ left <= 0 /\ realtime \in Held /\ settings \in Held
  BY DEF LoopInv, LoopTypeOK, OnTime
<1>n. pc' = "drain" /\ left' = left + Interval /\ Interval - left' = -left
      /\ 0 <= left' /\ left' <= Interval
  BY <1>t, Durations DEF NextCycle
<1>h. realtime.held \in Nat /\ settings.held \in Nat
  BY <1>t DEF Held
<1>1. OnTime'
  BY <1>n DEF OnTime, Publishing
<1>o. Old(realtime, -left) /\ Old(settings, -left)
  BY DEF LoopInv, News
<1>2. News'
  <2>1. Old(realtime, Interval - left)'
    BY <1>n, <1>o DEF Old
  <2> QED BY <1>n, <2>1 DEF News, Publishing
<1>3. ASSUME pc = "between" \/ YoungerThan(-left) PROVE Queued'
  <2>1. left' = Interval \/ YoungerThan(Interval - left)'
    <3>1. left = 0 \/ YoungerThan(-left)
      <4>1. pc = "between" /\ left < 0 => YoungerThan(-left)
        BY DEF LoopInv, Queued
      <4> QED BY <1>3, <1>t, <4>1
    <3>2. CASE left = 0
      BY <1>n, <3>2, Durations
    <3>3. CASE YoungerThan(-left)
      <4>1. YoungerThan(Interval - left)'
        BY <1>n, <3>3 DEF YoungerThan
      <4> QED BY <4>1
    <3> QED BY <3>1, <3>2, <3>3
  <2>2. left' = 0 => ~Fresh(realtime)' /\ ~Fresh(settings)'
    <3>1. left' = 0 => -left > FrameTimeout
      BY <1>t, <1>n, Durations
    <3> QED BY <1>t, <1>h, <1>o, <3>1, Durations DEF Old, Fresh
  <2> QED BY <1>n, <2>1, <2>2 DEF Queued
<1> QED BY <1>1, <1>2, <1>3

(***************************************************************************)
(* After a measurement: the settings of a pack that talks are sent when    *)
(* they are due, and they are fresh then, so a cycle that goes on without  *)
(* sending them had them sent recently.                                    *)
(***************************************************************************)
LEMMA BetweenStep == LoopInv /\ Between => LoopInv'
<1> SUFFICES ASSUME LoopInv, Between PROVE LoopInv'
  OBVIOUS
<1>t. LoopTypeOK
  BY DEF LoopInv
<1>p. pc = "between" /\ Publishing /\ left <= 0 /\ -PostTime <= left /\ -2 * PostTime <= left
  <2>1. pc = "between" /\ Publishing /\ left \in Int
    BY <1>t DEF Between, Publishing, LoopTypeOK
  <2> QED BY <2>1, Durations DEF LoopInv, OnTime
<1>u. UNCHANGED <<line, once, pushing, queue, seed, realtime, settings, silent, ticks>>
  BY DEF Between
<1>h. /\ realtime.held \in Nat /\ settings.held \in Nat /\ settings \in Held
      /\ silent \in Nat /\ since \in Nat /\ left \in Int /\ queue \in Seq(Burst)
  BY <1>t DEF LoopTypeOK, Held
<1>c. \/ once /\ pc' = "exited" /\ UNCHANGED <<job, wait, left, since>>
      \/ /\ since >= SettingsInterval /\ Fresh(settings)
         /\ pc' = "posting" /\ job' = "again" /\ wait' = PostTime /\ UNCHANGED <<left, since>>
      \/ line.faults /\ NextCycle /\ since' = 0 /\ UNCHANGED <<job, wait>>
      \/ /\ ~(since >= SettingsInterval /\ Fresh(settings))
         /\ NextCycle /\ UNCHANGED <<job, wait, since>>
  BY DEF Between, Posting
<1>k. Talking => /\ ~line.faults /\ silent <= 1 /\ since + left <= SettingsInterval + Interval - 1
                 /\ silent # 0 => since = 0
                 /\ settings.held <= -left \/ since <= -left
  BY <1>p DEF LoopInv, Talks, Talking
<1>l. /\ ~line.faults => pushing
      /\ Talking' = Talking
  BY <1>u DEF LoopInv, Talks, Talking
<1>1. CASE once /\ pc' = "exited" /\ UNCHANGED <<job, wait, left, since>>
  <2>1. LoopTypeOK'
    BY <1>t, <1>u, <1>1 DEF LoopTypeOK
  <2>2. OnTime' /\ News' /\ Queued'
    BY <1>1 DEF OnTime, News, Queued, Publishing
  <2>3. Talks'
    BY <1>u, <1>k, <1>l, <1>1 DEF Talks, Publishing
  <2> QED BY <2>1, <2>2, <2>3 DEF LoopInv
<1>2. CASE /\ since >= SettingsInterval /\ Fresh(settings)
           /\ pc' = "posting" /\ job' = "again" /\ wait' = PostTime /\ UNCHANGED <<left, since>>
  <2>1. LoopTypeOK'
    BY <1>t, <1>u, <1>2, Durations DEF LoopTypeOK
  <2>2. OnTime'
    BY <1>p, <1>h, <1>2, Durations DEF OnTime, Publishing
  <2>3. News'
    <3>1. Old(realtime, -left) /\ Old(settings, -left)
      BY <1>p DEF LoopInv, News
    <3> QED BY <1>u, <1>2, <3>1 DEF News, Publishing, Old
  <2>4. Queued'
    <3>1. left < 0 => YoungerThan(-left)
      BY <1>p DEF LoopInv, Queued
    <3>2. left = 0 => queue = <<>>
      BY <1>p, <1>2 DEF LoopInv, Queued
    <3>3. YoungerThan(-left)
      BY <1>p, <1>h, <3>1, <3>2 DEF YoungerThan
    <3>4. YoungerThan(-left)'
      BY <1>u, <1>2, <3>3 DEF YoungerThan
    <3>5. (left = 0 => queue = <<>>)'
      BY <1>u, <1>2, <3>2
    <3> QED BY <1>2, <3>4, <3>5 DEF Queued
  <2>5. Talks'
    <3>1. Talking => silent = 0
      BY <1>k, <1>2, <1>h, Durations
    <3> QED BY <1>u, <1>k, <1>l, <1>2, <3>1 DEF Talks, Publishing
  <2> QED BY <2>1, <2>2, <2>3, <2>4, <2>5 DEF LoopInv
<1>3. CASE /\ NextCycle /\ UNCHANGED <<job, wait>>
           /\ \/ line.faults /\ since' = 0
              \/ ~(since >= SettingsInterval /\ Fresh(settings)) /\ since' = since
  <2>1. LoopTypeOK'
    <3>1. since' \in Nat /\ left' \in Int /\ pc' = "drain"
      BY <1>h, <1>3, Durations DEF NextCycle
    <3> QED BY <1>t, <1>u, <1>3, <3>1 DEF LoopTypeOK
  <2>2. OnTime' /\ News' /\ Queued'
    BY <1>p, <1>u, <1>3, CycleBegins
  <2>3. Talks'
    <3>1. CASE ~Talking
      BY <1>u, <1>l, <3>1 DEF Talks
    <3>2. CASE Talking
      <4>1. since' = since /\ ~(since >= SettingsInterval /\ Fresh(settings))
        BY <1>k, <1>3, <3>2
      <4>2. since + left <= SettingsInterval - 1
        <5>1. CASE since >= SettingsInterval
          <6>1. settings.held > FrameTimeout
            BY <4>1, <5>1, <1>h, Durations DEF Fresh
          <6>2. since <= -left
            BY <1>k, <1>p, <1>h, <3>2, <6>1, Durations
          <6> QED BY <1>h, <6>2, Durations
        <5>2. CASE ~(since >= SettingsInterval)
          BY <1>p, <1>h, <5>2, Durations
        <5> QED BY <5>1, <5>2
      <4>3. pc' = "drain" /\ since' + left' <= SettingsInterval + Interval - 1 /\ left' > 0
        BY <1>p, <1>h, <1>3, <4>1, <4>2, Durations DEF NextCycle
      <4> QED BY <1>u, <1>k, <1>l, <3>2, <4>3 DEF Talks, Publishing
    <3> QED BY <3>1, <3>2
  <2> QED BY <2>1, <2>2, <2>3 DEF LoopInv
<1> QED BY <1>c, <1>1, <1>2, <1>3

(***************************************************************************)
(* A POST ends: the loop begins, or goes on, and a cycle that two POSTs    *)
(* have used up leaves nothing fresh to measure.                           *)
(***************************************************************************)
LEMMA PostEndsStep == LoopInv /\ PostEnds => LoopInv'
<1> SUFFICES ASSUME LoopInv, PostEnds PROVE LoopInv'
  OBVIOUS
<1>t. LoopTypeOK
  BY DEF LoopInv
<1>p. pc = "posting" /\ wait \in Nat /\ left \in Int
  BY <1>t DEF PostEnds, LoopTypeOK
<1>j. job \in {"first", "status", "again"}
  BY <1>t DEF LoopTypeOK
<1>1. CASE job = "first"
  BY <1>1, EnterLoopStep DEF PostEnds
<1>2. CASE job = "status"
  <2>u. /\ pc' = "between"
        /\ UNCHANGED <<line, once, pushing, job, wait, left, queue, seed, realtime, settings,
                       silent, since, ticks>>
    BY <1>2 DEF PostEnds
  <2>p. Publishing
    BY <1>p, <1>2 DEF Publishing
  <2>1. LoopTypeOK'
    BY <1>t, <2>u DEF LoopTypeOK
  <2>2. OnTime'
    <3>1. left <= 0 /\ -PostTime <= left
      BY <1>p, <1>2, <2>p, Durations DEF LoopInv, OnTime
    <3> QED BY <2>u, <3>1 DEF OnTime, Publishing
  <2>3. News'
    <3>1. Old(realtime, -left) /\ Old(settings, -left)
      BY <2>p DEF LoopInv, News
    <3> QED BY <2>u, <3>1 DEF News, Publishing, Old
  <2>4. Queued'
    <3>1. YoungerThan(-left) /\ (left = 0 => queue = <<>>)
      BY <1>p, <1>2 DEF LoopInv, Queued
    <3>2. YoungerThan(-left)'
      BY <2>u, <3>1 DEF YoungerThan
    <3> QED BY <2>u, <3>1, <3>2 DEF Queued
  <2>5. Talks'
    <3>1. Talking' = Talking /\ (~line.faults => pushing)'
      BY <2>u DEF LoopInv, Talks, Talking
    <3>2. Talking => /\ silent = 0 /\ since + left <= SettingsInterval + Interval - 1
                     /\ settings.held <= -left \/ since <= -left
      BY <1>p, <1>2, <2>p DEF LoopInv, Talks
    <3> QED BY <2>u, <3>1, <3>2 DEF Talks
  <2> QED BY <2>1, <2>2, <2>3, <2>4, <2>5 DEF LoopInv
<1>3. CASE job = "again"
  <2>u. /\ NextCycle /\ since' = 0 /\ pc' = "drain" /\ left' = left + Interval
        /\ UNCHANGED <<line, once, pushing, job, wait, queue, seed, realtime, settings, silent, ticks>>
    BY <1>3 DEF PostEnds, NextCycle
  <2>p. Publishing /\ -2 * PostTime <= left /\ left <= 0
    <3>1. Publishing
      BY <1>p, <1>3 DEF Publishing
    <3> QED BY <1>p, <1>3, <3>1, Durations DEF LoopInv, OnTime
  <2>1. LoopTypeOK'
    BY <1>t, <1>p, <2>u, Durations DEF LoopTypeOK
  <2>2. OnTime' /\ News' /\ Queued'
    <3>1. YoungerThan(-left)
      BY <1>p, <1>3 DEF LoopInv, Queued
    <3> QED BY <2>p, <2>u, <3>1, CycleBegins
  <2>3. Talks'
    <3>1. Talking' = Talking /\ (~line.faults => pushing)'
      BY <2>u DEF LoopInv, Talks, Talking
    <3>2. Talking => silent = 0
      BY <1>p DEF LoopInv, Talks
    <3>3. since' + left' <= SettingsInterval + Interval - 1
      BY <1>p, <2>p, <2>u, Durations
    <3> QED BY <2>u, <3>1, <3>2, <3>3 DEF Talks, Publishing
  <2> QED BY <2>1, <2>2, <2>3 DEF LoopInv
<1> QED BY <1>j, <1>1, <1>2, <1>3
(***************************************************************************)
(* A time that grows by at most one and a time left that shrinks by one.   *)
(***************************************************************************)
LEMMA CountsUp ==
  ASSUME NEW a \in Nat, NEW b \in Nat, b <= a + 1
  PROVE  \A n, m \in Int : a + n <= m => b + (n - 1) <= m
  OBVIOUS

(***************************************************************************)
(* A unit of time passes: what was late grows later by one, what was held  *)
(* older by one, and a read or a full burst starts over.                   *)
(***************************************************************************)
LEMMA TickStep == LoopInv /\ Tick => LoopInv'
<1> SUFFICES ASSUME LoopInv, Tick PROVE LoopInv'
  OBVIOUS
<1>t. LoopTypeOK
  BY DEF LoopInv
<1>h. /\ realtime \in Held /\ settings \in Held /\ queue \in Seq(Burst)
      /\ realtime.held \in Nat /\ realtime.age \in Nat
      /\ settings.held \in Nat /\ settings.age \in Nat
      /\ left \in Int /\ wait \in Nat /\ since \in Nat /\ silent \in Nat /\ seed \in Nat
  BY <1>t DEF LoopTypeOK, Held
<1>i. line \in Lines /\ pushing \in BOOLEAN
  BY <1>t DEF LoopTypeOK
<1>u. UNCHANGED <<line, once, pushing, silent, ticks>>
  BY DEF Tick
<1>k. (IF pushing THEN line.bursts ELSE {{}}) \subseteq SUBSET Kinds
  <2>1. line.bursts \in SUBSET SUBSET Kinds
    BY <1>i, LinesAssumption
  <2> QED BY <2>1
<1>b. PICK burst \in SUBSET Kinds :
        /\ pushing => burst \in line.bursts
        /\ IF pc = "settings" /\ "settings" \in burst
           THEN \/ Posting("first")
                \/ line.faults /\ pc' = "settings" /\ wait' = 0 /\ UNCHANGED job
           ELSE /\ UNCHANGED <<pc, job>>
                /\ wait' = IF pc \in {"settings", "posting"} THEN wait - 1 ELSE wait
        /\ realtime' = IF pc = "drain" /\ "realtime" \in burst THEN Stamped(0) ELSE Aged(realtime)
        /\ settings' = IF pc = "drain" /\ "settings" \in burst THEN Stamped(0) ELSE Aged(settings)
        /\ queue' = IF pc = "posting" /\ burst # {} /\ Len(queue) < QueueLength
                    THEN Append(OlderQueue, [kinds |-> burst, age |-> 0]) ELSE OlderQueue
  BY <1>k DEF Tick, OlderQueue
<1>w. MayWait
  BY DEF Tick
<1>s. since' \in Nat /\ since' <= since + 1 /\ seed' \in Nat
  <2>1. since' = since + 1 \/ since' = since
    BY DEF Tick
  <2>2. seed' = Older(seed)
    BY DEF Tick
  <2>3. seed' \in Nat
    BY <1>h, <2>2, OlderByOne
  <2> QED BY <1>h, <2>1, <2>3
<1>g. /\ Aged(realtime) \in Held /\ Aged(realtime).age <= realtime.age + 1
      /\ Aged(realtime).held <= realtime.held + 1 /\ Aged(realtime).told = realtime.told
      /\ Aged(settings) \in Held /\ Aged(settings).held <= settings.held + 1
      /\ \A n \in Int : Old(realtime, n) => Old(Aged(realtime), n + 1)
      /\ \A n \in Int : Old(settings, n) => Old(Aged(settings), n + 1)
  BY <1>h, FrameAges
<1>x. Stamped(0) \in Held /\ Stamped(0).held = 0 /\ Stamped(0).age = 0 /\ Stamped(0).told = FALSE
  BY MadeFrames
<1>q. /\ queue' \in Seq(Burst)
      /\ pc # "posting" /\ queue = <<>> => queue' = <<>>
      /\ \A n \in Nat : YoungerThan(n) => YoungerThan(n + 1)'
  <2>1. /\ OlderQueue \in Seq(Burst) /\ Len(OlderQueue) = Len(queue)
        /\ queue = <<>> => OlderQueue = <<>>
        /\ \A i \in 1..Len(queue) : OlderQueue[i].age <= queue[i].age + 1
    BY <1>h, QueueAges
  <2>2. \A i \in 1..Len(queue) : OlderQueue[i].age \in Nat /\ queue[i].age \in Nat
    <3>1. \A i \in 1..Len(queue) : OlderQueue[i] \in Burst /\ queue[i] \in Burst
      BY <1>h, <2>1
    <3> QED BY <3>1 DEF Burst
  <2> DEFINE new == [kinds |-> burst, age |-> 0]
  <2>3. new \in Burst /\ new.age = 0
    BY DEF Burst
  <2>4. CASE queue' = OlderQueue
    <3>1. ASSUME NEW n \in Nat, YoungerThan(n) PROVE YoungerThan(n + 1)'
      BY <2>1, <2>2, <2>4, <3>1 DEF YoungerThan
    <3> QED BY <2>1, <2>4, <3>1
  <2>5. CASE pc = "posting" /\ queue' = Append(OlderQueue, new)
    <3>1. /\ queue' \in Seq(Burst) /\ Len(queue') = Len(queue) + 1
          /\ queue'[Len(queue) + 1] = new
          /\ \A i \in 1..Len(queue) : queue'[i] = OlderQueue[i]
      BY <2>1, <2>3, <2>5
    <3>2. ASSUME NEW n \in Nat, YoungerThan(n) PROVE YoungerThan(n + 1)'
      <4>1. ASSUME NEW i \in 1..Len(queue') PROVE queue'[i].age <= n + 1
        <5>1. Len(queue) \in Nat /\ (i \in 1..Len(queue) \/ i = Len(queue) + 1)
          BY <1>h, <3>1
        <5>2. CASE i \in 1..Len(queue)
          <6>1. queue'[i] = OlderQueue[i] /\ queue[i].age <= n
            BY <3>1, <3>2, <5>2 DEF YoungerThan
          <6>2. OlderQueue[i].age \in Nat /\ queue[i].age \in Nat
                /\ OlderQueue[i].age <= queue[i].age + 1
            BY <2>1, <2>2, <5>2
          <6> QED BY <6>1, <6>2
        <5>3. CASE i = Len(queue) + 1
          BY <2>3, <3>1, <5>3
        <5> QED BY <5>1, <5>2, <5>3
      <4> QED BY <4>1 DEF YoungerThan
    <3> QED BY <2>5, <3>1, <3>2
  <2> QED BY <1>b, <2>4, <2>5
<1>f. realtime' \in Held /\ settings' \in Held
  BY <1>b, <1>g, <1>x
<1>v. left' \in Int
  BY <1>h DEF Tick
<1>d. \A n, m \in Int : since + n <= m => since' + (n - 1) <= m
  BY <1>h, <1>s, CountsUp
<1>e. SettingsInterval + Interval - 1 \in Int /\ PostTime + 1 \in Int
  BY Durations
<1>1. CASE pc = "settings"
  <2>1. /\ pc' \in {"settings", "posting"} /\ job' \in {"first", "status", "again"}
        /\ pc' = "posting" => job' = "first" /\ wait' = PostTime
        /\ wait' \in Nat /\ wait > 0
    <3>1. wait > 0
      BY <1>1, <1>w DEF MayWait
    <3> QED BY <1>1, <1>b, <1>t, <1>h, <3>1, Durations DEF LoopTypeOK, Posting
  <2>2. LoopTypeOK'
    <3>1. wait' \in Nat /\ since' \in Nat /\ seed' \in Nat /\ silent' \in Nat /\ left' \in Int
      BY <1>h, <1>u, <1>s, <1>v, <2>1
    <3>2. pc' \in {"settings", "drain", "posting", "between", "exited"}
          /\ job' \in {"first", "status", "again"}
      BY <2>1
    <3>3. line' \in Lines /\ pushing' \in BOOLEAN
      BY <1>u, <1>i
    <3> QED BY <1>q, <1>f, <3>1, <3>2, <3>3 DEF LoopTypeOK
  <2>3. OnTime' /\ News' /\ Queued'
    BY <2>1, Durations DEF OnTime, News, Queued, Publishing
  <2>4. Talks'
    <3>1. CASE ~Talking
      BY <1>u, <3>1 DEF LoopInv, Talks, Talking
    <3>2. CASE Talking
      <4>1. /\ ~line.faults /\ pushing /\ line.bursts = {Kinds} /\ since = 0 /\ silent = 0
        BY <1>1, <3>2 DEF LoopInv, Talks, Talking
      <4>2. "settings" \in burst
        BY <1>b, <4>1 DEF Kinds
      <4>3. pc' = "posting" /\ job' = "first" /\ wait' = PostTime
        BY <1>1, <1>b, <4>1, <4>2 DEF Posting
      <4>4. since' + wait' <= PostTime + 1
        <5>1. since + (PostTime + 1) <= PostTime + 1 /\ (PostTime + 1) - 1 = PostTime
          BY <4>1, Durations
        <5>2. since' + PostTime <= PostTime + 1
          BY <1>d, <1>e, <5>1
        <5> QED BY <4>3, <5>2
      <4> QED BY <1>u, <4>1, <4>3, <4>4 DEF Talks, Publishing
    <3> QED BY <3>1, <3>2
  <2> QED BY <2>2, <2>3, <2>4 DEF LoopInv
<1>2. CASE pc = "drain"
  <2>1. pc' = "drain" /\ UNCHANGED <<job, wait>> /\ left' = left - 1 /\ left > 0 /\ queue = <<>>
        /\ left <= Interval /\ queue' = <<>>
    <3>1. left > 0 /\ queue = <<>>
      BY <1>2, <1>w DEF MayWait
    <3>2. left <= Interval
      BY <1>2 DEF LoopInv, OnTime
    <3>3. left' = left - 1
      BY <1>2 DEF Tick, Looping
    <3> QED BY <1>2, <1>b, <1>q, <3>1, <3>2, <3>3
  <2>2. LoopTypeOK'
    BY <1>t, <1>u, <1>s, <1>q, <1>f, <1>v, <2>1 DEF LoopTypeOK
  <2>3. OnTime'
    BY <1>h, <2>1, Durations DEF OnTime, Publishing
  <2>4. News'
    <3>1. Old(realtime, Interval - left)' \/ (~realtime.told /\ realtime.age <= Interval - left)'
      <4>1. CASE realtime' = Stamped(0)
        BY <1>h, <1>x, <2>1, <4>1, Durations
      <4>2. CASE realtime' = Aged(realtime)
        <5>1. Interval - left \in Int /\ Interval - left' = (Interval - left) + 1
          BY <1>h, <2>1, Durations
        <5>2. CASE Old(realtime, Interval - left)
          BY <1>g, <4>2, <5>1, <5>2 DEF Old
        <5>3. CASE ~realtime.told /\ realtime.age <= Interval - left
          <6>1. Aged(realtime).age \in Nat
            BY <1>g DEF Held
          <6> QED BY <1>h, <1>g, <4>2, <5>1, <5>3, <6>1
        <5> QED BY <1>2, <5>2, <5>3 DEF LoopInv, News
      <4> QED BY <1>b, <4>1, <4>2
    <3> QED BY <2>1, <3>1 DEF News, Publishing
  <2>5. Queued'
    BY <2>1 DEF Queued, YoungerThan
  <2>6. Talks'
    <3>1. CASE ~Talking
      BY <1>u, <3>1 DEF LoopInv, Talks, Talking
    <3>2. CASE Talking
      <4>1. /\ ~line.faults /\ pushing /\ line.bursts = {Kinds} /\ silent <= 1
            /\ since + left <= SettingsInterval + Interval - 1
        BY <1>2, <3>2 DEF LoopInv, Talks, Talking
      <4>2. realtime'.held = 0 /\ settings'.held = 0
        BY <1>2, <1>b, <1>x, <4>1 DEF Kinds
      <4>3. since' + left' <= SettingsInterval + Interval - 1
        <5>1. left' = left - 1 /\ since + left <= SettingsInterval + Interval - 1
          BY <2>1, <4>1
        <5> QED BY <1>h, <1>d, <1>e, <5>1
      <4> QED BY <1>u, <2>1, <4>1, <4>2, <4>3 DEF Talks, Publishing
    <3> QED BY <3>1, <3>2
  <2> QED BY <2>2, <2>3, <2>4, <2>5, <2>6 DEF LoopInv
<1>3. CASE pc = "posting"
  <2>1. pc' = "posting" /\ job' = job /\ wait' = wait - 1 /\ wait > 0
        /\ left' = IF job # "first" THEN left - 1 ELSE left
    <3>1. wait > 0
      BY <1>3, <1>w DEF MayWait
    <3>2. left' = IF job # "first" THEN left - 1 ELSE left
      BY <1>3 DEF Tick, Looping
    <3> QED BY <1>3, <1>b, <3>1, <3>2
  <2>2. LoopTypeOK'
    <3>1. wait' \in Nat
      BY <1>h, <2>1
    <3> QED BY <1>t, <1>u, <1>s, <1>q, <1>f, <1>v, <2>1, <3>1 DEF LoopTypeOK
  <2>a. realtime' = Aged(realtime) /\ settings' = Aged(settings)
    BY <1>3, <1>b
  <2>3. OnTime'
    <3>1. wait <= PostTime
      BY <1>3 DEF LoopInv, OnTime
    <3>2. CASE job = "first"
      BY <1>h, <2>1, <3>1, <3>2, Durations DEF OnTime, Publishing
    <3>3. CASE job # "first"
      <4>1. left <= 0
        BY <1>3, <3>3 DEF LoopInv, OnTime, Publishing
      <4>2. job = "status" => wait - PostTime <= left
        BY <1>3 DEF LoopInv, OnTime
      <4>3. job = "again" => wait - 2 * PostTime <= left
        BY <1>3 DEF LoopInv, OnTime
      <4> QED BY <1>h, <2>1, <3>1, <3>3, <4>1, <4>2, <4>3, Durations DEF OnTime, Publishing
    <3> QED BY <3>2, <3>3
  <2>4. News'
    <3>1. CASE job = "first"
      BY <2>1, <3>1 DEF News, Publishing
    <3>2. CASE job # "first"
      <4>1. Old(realtime, -left) /\ Old(settings, -left)
        BY <1>3, <3>2 DEF LoopInv, News, Publishing
      <4>2. -left \in Int /\ -left' = -left + 1
        BY <1>h, <2>1, <3>2
      <4>3. Old(Aged(realtime), -left + 1) /\ Old(Aged(settings), -left + 1)
        BY <1>g, <4>1, <4>2
      <4>4. Old(realtime, -left)' /\ Old(settings, -left)'
        BY <2>a, <4>2, <4>3 DEF Old
      <4> QED BY <2>1, <4>4 DEF News
    <3> QED BY <3>1, <3>2
  <2>5. Queued'
    <3>1. CASE job = "first"
      BY <2>1, <3>1 DEF Queued
    <3>2. CASE job # "first"
      <4>1. left <= 0 /\ YoungerThan(-left)
        BY <1>3, <3>2 DEF LoopInv, OnTime, Publishing, Queued
      <4>2. -left \in Nat /\ -left' = -left + 1 /\ left' # 0
        BY <1>h, <2>1, <3>2, <4>1
      <4>3. YoungerThan(-left)'
        BY <1>q, <4>1, <4>2 DEF YoungerThan
      <4> QED BY <2>1, <4>2, <4>3 DEF Queued
    <3> QED BY <3>1, <3>2
  <2>6. Talks'
    <3>1. CASE ~Talking
      BY <1>u, <3>1 DEF LoopInv, Talks, Talking
    <3>2. CASE Talking
      <4>1. ~line.faults /\ pushing /\ silent = 0
        BY <1>3, <3>2 DEF LoopInv, Talks, Talking
      <4>2. CASE job = "first"
        <5>1. since' + wait' <= PostTime + 1
          <6>1. since + wait <= PostTime + 1
            BY <1>3, <3>2, <4>2 DEF LoopInv, Talks
          <6>2. since' + (wait - 1) <= PostTime + 1
            BY <1>h, <1>d, <1>e, <6>1
          <6> QED BY <2>1, <6>2
        <5> QED BY <1>u, <2>1, <4>1, <4>2, <5>1 DEF Talks, Publishing
      <4>3. CASE job # "first"
        <5>1. since + left <= SettingsInterval + Interval - 1
              /\ (job = "status" => settings.held <= -left \/ since <= -left)
          BY <1>3, <3>2, <4>3 DEF LoopInv, Talks, Publishing
        <5>2. since' + left' <= SettingsInterval + Interval - 1
          <6>1. left' = left - 1 /\ since + left <= SettingsInterval + Interval - 1
            BY <2>1, <4>3, <5>1
          <6> QED BY <1>h, <1>d, <1>e, <6>1
        <5>3. job = "status" => settings'.held <= -left' \/ since' <= -left'
          <6>1. settings'.held \in Nat
            BY <1>f DEF Held
          <6> QED BY <1>h, <1>g, <1>s, <2>1, <2>a, <4>3, <5>1, <6>1
        <5> QED BY <1>u, <2>1, <4>1, <4>3, <5>2, <5>3 DEF Talks, Publishing
      <4> QED BY <4>2, <4>3
    <3> QED BY <3>1, <3>2
  <2> QED BY <2>2, <2>3, <2>4, <2>5, <2>6 DEF LoopInv
<1>4. CASE pc = "exited"
  <2>1. pc' = "exited" /\ UNCHANGED <<job, wait>>
    BY <1>4, <1>b
  <2>2. LoopTypeOK'
    BY <1>t, <1>u, <1>s, <1>q, <1>f, <1>v, <2>1 DEF LoopTypeOK
  <2>3. OnTime' /\ News' /\ Queued'
    BY <2>1 DEF OnTime, News, Queued, Publishing
  <2>4. Talks'
    BY <1>4, <1>u, <2>1 DEF LoopInv, Talks, Talking, Publishing
  <2> QED BY <2>2, <2>3, <2>4 DEF LoopInv
<1> QED BY <1>1, <1>2, <1>3, <1>4, <1>w DEF MayWait
(***************************************************************************)
(* The invariant survives every step of the daemon, the line and time.     *)
(***************************************************************************)
LEMMA LoopInvNext == LoopInv /\ [BmsNext]_bms_vars => LoopInv'
<1> SUFFICES ASSUME LoopInv, [BmsNext]_bms_vars PROVE LoopInv'
  OBVIOUS
<1>1. CASE NoSettings
  BY <1>1, NoSettingsStep
<1>2. CASE DrainReads
  BY <1>2, DrainReadsStep
<1>3. CASE Measures
  BY <1>3, MeasuresStep
<1>4. CASE Between
  BY <1>4, BetweenStep
<1>5. CASE PostEnds
  BY <1>5, PostEndsStep
<1>6. CASE Restarts
  BY <1>6, RestartsStep
<1>7. CASE PortGone \/ PowerSwitched
  BY <1>7, FaultStep
<1>8. CASE Tick
  BY <1>8, TickStep
<1>9. CASE UNCHANGED bms_vars
  <2> USE <1>9 DEF bms_vars
  <2>1. LoopTypeOK'
    BY DEF LoopInv, LoopTypeOK
  <2>2. OnTime'
    BY DEF LoopInv, OnTime, Publishing
  <2>3. News'
    BY DEF LoopInv, News, Publishing, Old
  <2>4. Queued'
    BY DEF LoopInv, Queued, YoungerThan, Fresh
  <2>5. Talks'
    BY DEF LoopInv, Talks, Talking, Publishing
  <2> QED BY <2>1, <2>2, <2>3, <2>4, <2>5 DEF LoopInv
<1> QED BY <1>1, <1>2, <1>3, <1>4, <1>5, <1>6, <1>7, <1>8, <1>9 DEF BmsNext, Daemon

-----------------------------------------------------------------------------
(***************************************************************************)
(* For every interval, timeout, queue and line: a pack that keeps pushing  *)
(* is never declared silent (silent_cycles and MAX_SILENT_CYCLES of run).  *)
(***************************************************************************)
THEOREM TalkingPacksAreKept == BmsSpec => []TalkingPackIsKept
<1>1. LoopInv => TalkingPackIsKept
  BY DEF LoopInv, Talks, TalkingPackIsKept
<1> QED BY LoopInvInit, LoopInvNext, <1>1, PTL DEF BmsSpec

(***************************************************************************)
(* For every interval, timeout, queue and line: the settings of a pack     *)
(* that talks go out within a cycle and its POSTs of being due             *)
(* (last_settings of run).                                                 *)
(***************************************************************************)
THEOREM SettingsAreCurrent == BmsSpec => []SettingsStayCurrent
<1>1. LoopInv => SettingsStayCurrent
  <2> SUFFICES ASSUME LoopInv, Talking, pc # "exited"
               PROVE  since <= SettingsInterval + Interval + 2 * PostTime
    BY DEF SettingsStayCurrent
  <2>t. /\ since \in Nat /\ wait \in Nat /\ left \in Int
        /\ pc \in {"settings", "drain", "posting", "between", "exited"}
        /\ job \in {"first", "status", "again"}
    BY DEF LoopInv, LoopTypeOK
  <2>1. CASE pc = "settings"
    BY <2>1, Durations DEF LoopInv, Talks
  <2>2. CASE pc = "posting" /\ job = "first"
    <3>1. since + wait <= PostTime + 1
      BY <2>2 DEF LoopInv, Talks
    <3> QED BY <2>t, <3>1, Durations
  <2>3. CASE pc = "drain" \/ Publishing
    <3>1. since + left <= SettingsInterval + Interval - 1
      BY <2>3 DEF LoopInv, Talks
    <3>2. CASE pc = "drain"
      <4>1. 0 <= left
        BY <3>2 DEF LoopInv, OnTime
      <4> QED BY <2>t, <3>1, <4>1, Durations
    <3>3. CASE pc = "between"
      <4>1. -PostTime <= left
        BY <3>3 DEF LoopInv, OnTime
      <4> QED BY <2>t, <3>1, <4>1, Durations
    <3>4. CASE pc = "posting" /\ job = "status"
      <4>1. wait - PostTime <= left
        BY <3>4 DEF LoopInv, OnTime
      <4> QED BY <2>t, <3>1, <4>1, Durations
    <3>5. CASE pc = "posting" /\ job = "again"
      <4>1. wait - 2 * PostTime <= left
        BY <3>5 DEF LoopInv, OnTime
      <4> QED BY <2>t, <3>1, <4>1, Durations
    <3> QED BY <2>3, <2>t, <3>2, <3>3, <3>4, <3>5 DEF Publishing
  <2> QED BY <2>t, <2>1, <2>2, <2>3 DEF Publishing
<1> QED BY LoopInvInit, LoopInvNext, <1>1, PTL DEF BmsSpec

(***************************************************************************)
(* For every interval, timeout, queue and line: a status record carries a  *)
(* frame no record has carried, no older than the timeout and a POST       *)
(* (Freshest, drain_until and the anchored publish_at of run).             *)
(***************************************************************************)
THEOREM StatusIsNews == BmsSpec => PublishedIsNews
<1>1. LoopInv /\ [BmsNext]_bms_vars
        => (Publishes("status") => realtime.age <= FrameTimeout + PostTime /\ ~realtime.told)
  <2> SUFFICES ASSUME LoopInv, [BmsNext]_bms_vars, Publishes("status")
               PROVE  realtime.age <= FrameTimeout + PostTime /\ ~realtime.told
    OBVIOUS
  <2>p. pc # "posting" /\ pc' = "posting" /\ job' = "status"
    BY DEF Publishes
  <2>t. left \in Int /\ realtime.age \in Nat /\ realtime.held \in Nat
    BY DEF LoopInv, LoopTypeOK, Held
  <2>1. Measures
    <3>1. ~NoSettings /\ ~DrainReads /\ ~Restarts
      BY <2>p DEF NoSettings, EnterLoop, DrainReads, Restarts, Session
    <3>2. ~Between /\ ~PostEnds
      BY <2>p DEF Between, NextCycle, Posting, PostEnds
    <3>3. ~PortGone /\ ~PowerSwitched /\ ~UNCHANGED bms_vars
      BY <2>p DEF PortGone, PowerSwitched, bms_vars
    <3>4. ~Tick
      BY <2>p DEF Tick, Posting
    <3> QED BY <3>1, <3>2, <3>3, <3>4 DEF BmsNext, Daemon
  <2>2. pc = "drain" /\ left = 0 /\ Fresh(realtime)
    BY <2>p, <2>1, <2>t DEF Measures, LoopInv, OnTime
  <2>3. ~Old(realtime, Interval - left)
    BY <2>t, <2>2, Durations DEF Old, Fresh
  <2>4. ~realtime.told /\ realtime.age <= Interval - left
    BY <2>2, <2>3 DEF LoopInv, News
  <2> QED BY <2>t, <2>2, <2>4, Durations
<1> QED BY LoopInvInit, LoopInvNext, <1>1, PTL DEF BmsSpec, PublishedIsNews
=============================================================================
