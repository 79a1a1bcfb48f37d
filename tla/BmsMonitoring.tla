---------------------------- MODULE BmsMonitoring ----------------------------
(***************************************************************************)
(* The BMS daemon once it has found its port: `run` of                     *)
(* packages/bms-monitoring/src/main.rs with drain_until, next_frame,       *)
(* Freshest and publish, and read_until of port.rs.                        *)
(*                                                                         *)
(* Time is counted in units of a few seconds, long enough for the pack to  *)
(* push its realtime and its settings frame once.  A unit passes in Tick;  *)
(* what the daemon does in between takes no time.  Every clock is an age   *)
(* or a time left, so behaviours are not cut off; an age stops counting at *)
(* Stale, where only "too old" matters, and a frame that never came is one *)
(* of that age: `run` treats both alike.                                   *)
(*                                                                         *)
(* The tty's input queue holds what arrives while a POST blocks the only   *)
(* thread; a read from it stamps the frame with the time of the read.      *)
(***************************************************************************)
EXTENDS Integers, Sequences

CONSTANTS
  Interval,          \* --interval-seconds
  FrameTimeout,      \* --frame-timeout-seconds
  SettingsInterval,  \* --settings-interval-seconds
  PostTime,          \* the longest POST: uds.rs gives up on a receiver silent for 30 s
  QueueLength,       \* units of traffic the tty buffer holds (4 KiB)
  MaxSilentCycles,   \* MAX_SILENT_CYCLES
  Lines              \* the lines to consider: what of the two frames may survive
                     \* a unit, and whether packs are switched off, adapters
                     \* vanish and frames do not decode

Kinds == {"realtime", "settings"}

ASSUME PositiveAssumption ==
  /\ Interval \in Nat \ {0} /\ FrameTimeout \in Nat \ {0} /\ SettingsInterval \in Nat \ {0}
  /\ PostTime \in Nat /\ QueueLength \in Nat /\ MaxSilentCycles \in Nat \ {0}
\* Not asserted by the code: true of the defaults (60 s, 30 s), the timeout of
\* uds.rs (30 s) and the constant (3), in any unit of time.
ASSUME DefaultsAssumption ==
  /\ 2 * PostTime <= Interval
  /\ FrameTimeout < Interval /\ Interval <= FrameTimeout + PostTime
  /\ MaxSilentCycles > 1
ASSUME LinesAssumption == Lines \subseteq [bursts : SUBSET SUBSET Kinds, faults : BOOLEAN]

Stale == FrameTimeout + 2 * PostTime + 1
MaxSince == SettingsInterval + Interval + 2 * PostTime + 1

VARIABLES
  line,      \* the line of this behaviour
  once,      \* --once
  pushing,   \* the pack is powered and pushes
  pc,        \* settings, drain, posting, between or exited
  job,       \* what a POST carries: first, status or again
  wait,      \* time left for the settings frame, or for the POST
  left,      \* time left to publish_at
  queue,     \* unread bursts: [kinds, age]
  seed,      \* age of the frame discovery read
  realtime,  \* the freshest realtime frame: its age, and the age of its stamp
  settings,  \* the freshest settings frame, likewise
  silent,    \* silent_cycles
  since,     \* last_settings.elapsed()
  ticks      \* measurements decided, up to 1

bms_vars == <<line, once, pushing, pc, job, wait, left, queue, seed, realtime, settings, silent, since, ticks>>

Older(age) == IF age < Stale THEN age + 1 ELSE age
Aged(f) == [age |-> Older(f.age), held |-> Older(f.held), told |-> f.told]
Stamped(age) == [age |-> age, held |-> 0, told |-> FALSE]
NoFrame == [age |-> Stale, held |-> Stale, told |-> FALSE]
\* Mutant: no frame is too old.
AnyAge(f) == f.held <= Stale

\* The filter of `run`: a frame older than the timeout is no measurement.
Fresh(f) == f.held <= FrameTimeout

-----------------------------------------------------------------------------
\* connect_within has returned: the settings measurement goes first.
Session ==
  /\ pc' = "settings" /\ job' = "first" /\ wait' = FrameTimeout /\ left' = 0
  /\ queue' = <<>> /\ seed' = 0 /\ realtime' = NoFrame /\ settings' = NoFrame
  /\ silent' = 0 /\ since' = 0 /\ ticks' = 0
  /\ UNCHANGED <<line, once, pushing>>

\* The loop is entered: the frame discovery read is stamped now.
EnterLoop ==
  /\ pc' = "drain" /\ left' = Interval
  /\ realtime' = Stamped(seed) /\ settings' = NoFrame
  /\ silent' = 0 /\ since' = 0
  /\ UNCHANGED <<line, once, pushing, job, wait, queue, seed, ticks>>

Posting(what) ==
  /\ pc' = "posting" /\ job' = what /\ wait' = PostTime

\* next_frame gives up on the settings frame; status records only.
NoSettings == pc = "settings" /\ wait = 0 /\ EnterLoop

\* drain_until reads what queued up, one burst at a time, while time is left.
DrainReads ==
  /\ pc = "drain" /\ left > 0 /\ queue # <<>>
  /\ queue' = Tail(queue)
  /\ LET burst == Head(queue)
     IN  /\ realtime' = IF "realtime" \in burst.kinds THEN Stamped(burst.age) ELSE realtime
         /\ settings' = IF "settings" \in burst.kinds THEN Stamped(burst.age) ELSE settings
  /\ UNCHANGED <<line, once, pushing, pc, job, wait, left, seed, silent, since, ticks>>

\* Mutant: a measurement does not break the silence.
MeasuresKeepingCount ==
  /\ pc = "drain" /\ left <= 0
  /\ ticks' = 1
  /\ IF Fresh(realtime)
     THEN /\ Posting("status") /\ realtime' = [realtime EXCEPT !.told = TRUE]
          /\ UNCHANGED silent
     ELSE /\ silent' = silent + 1
          /\ pc' = IF silent + 1 >= MaxSilentCycles THEN "exited" ELSE "between"
          /\ UNCHANGED <<job, wait, realtime>>
  /\ UNCHANGED <<line, once, pushing, left, queue, seed, settings, since>>

\* publish_at: publish the freshest realtime frame, or count a silent cycle
\* and give up at the third.
Measures ==
  /\ pc = "drain" /\ left <= 0
  /\ ticks' = 1
  /\ IF Fresh(realtime)
     THEN /\ silent' = 0
          /\ \/ Posting("status") /\ realtime' = [realtime EXCEPT !.told = TRUE]
             \/ line.faults /\ pc' = "between" /\ UNCHANGED <<job, wait, realtime>>
     ELSE /\ silent' = silent + 1
          /\ pc' = IF silent + 1 >= MaxSilentCycles THEN "exited" ELSE "between"
          /\ UNCHANGED <<job, wait, realtime>>
  /\ UNCHANGED <<line, once, pushing, left, queue, seed, settings, since>>

NextCycle == pc' = "drain" /\ left' = left + Interval

\* Mutant: settings are due at one instant only.
BetweenExactly ==
  /\ pc = "between"
  /\ IF once THEN pc' = "exited" /\ UNCHANGED <<job, wait, left, since>>
     ELSE IF since = SettingsInterval /\ Fresh(settings)
     THEN Posting("again") /\ UNCHANGED <<left, since>>
     ELSE NextCycle /\ UNCHANGED <<job, wait, since>>
  /\ UNCHANGED <<line, once, pushing, queue, seed, realtime, settings, silent, ticks>>

\* After the measurement: --once returns; settings that are due go out if
\* there is a fresh frame, or wait for the next cycle.
Between ==
  /\ pc = "between"
  /\ IF once THEN pc' = "exited" /\ UNCHANGED <<job, wait, left, since>>
     ELSE IF since >= SettingsInterval /\ Fresh(settings)
     THEN \/ Posting("again") /\ UNCHANGED <<left, since>>
          \/ line.faults /\ NextCycle /\ since' = 0 /\ UNCHANGED <<job, wait>>
     ELSE NextCycle /\ UNCHANGED <<job, wait, since>>
  /\ UNCHANGED <<line, once, pushing, queue, seed, realtime, settings, silent, ticks>>

\* The POST is answered, refused or timed out; all the same to the daemon.
PostEnds ==
  /\ pc = "posting"
  /\ CASE job = "first" -> EnterLoop
       [] job = "status" ->
            /\ pc' = "between"
            /\ UNCHANGED <<line, once, pushing, job, wait, left, queue, seed, realtime, settings,
                           silent, since, ticks>>
       [] job = "again" ->
            /\ NextCycle /\ since' = 0
            /\ UNCHANGED <<line, once, pushing, job, wait, queue, seed, realtime, settings, silent, ticks>>

\* A read finds the adapter gone.
PortGone ==
  /\ line.faults
  /\ pc \in {"settings", "drain"}
  /\ pc' = "exited"
  /\ UNCHANGED <<line, once, pushing, job, wait, left, queue, seed, realtime, settings, silent,
                 since, ticks>>

\* RestartSec has passed and discovery sees the pack push.
Restarts == pc = "exited" /\ pushing /\ Session

-----------------------------------------------------------------------------
\* Time may pass: nothing that takes no time is left to do.
MayWait ==
  \/ pc \in {"settings", "posting"} /\ wait > 0
  \/ pc = "drain" /\ left > 0 /\ queue = <<>>
  \/ pc = "exited"

\* publish_at is known.
Looping == pc = "drain" \/ (pc = "posting" /\ job # "first")

\* A unit of time and what the pack pushed in it.  A daemon in a read takes
\* it at once: waiting for settings it drops a realtime frame and goes on to
\* publish at the settings frame, draining it keeps the freshest of each kind.
\* A daemon in a POST leaves it in the queue, and a full queue loses it.
Tick ==
  /\ MayWait
  /\ \E burst \in IF pushing THEN line.bursts ELSE {{}} :
       /\ IF pc = "settings" /\ "settings" \in burst
          THEN \/ Posting("first")
               \/ line.faults /\ pc' = "settings" /\ wait' = 0 /\ UNCHANGED job
          ELSE /\ UNCHANGED <<pc, job>>
               /\ wait' = IF pc \in {"settings", "posting"} THEN wait - 1 ELSE wait
       /\ realtime' = IF pc = "drain" /\ "realtime" \in burst THEN Stamped(0) ELSE Aged(realtime)
       /\ settings' = IF pc = "drain" /\ "settings" \in burst THEN Stamped(0) ELSE Aged(settings)
       /\ LET older == [i \in DOMAIN queue |-> [queue[i] EXCEPT !.age = Older(@)]]
          IN  queue' = IF pc = "posting" /\ burst # {} /\ Len(queue) < QueueLength
                       THEN Append(older, [kinds |-> burst, age |-> 0]) ELSE older
  /\ left' = IF Looping THEN left - 1 ELSE left
  /\ since' = IF pc # "exited" /\ since < MaxSince THEN since + 1 ELSE since
  /\ seed' = Older(seed)
  /\ UNCHANGED <<line, once, pushing, silent, ticks>>

\* The pack is switched off, or on.
PowerSwitched ==
  /\ line.faults
  /\ pushing' = ~pushing
  /\ UNCHANGED <<line, once, pc, job, wait, left, queue, seed, realtime, settings, silent, since, ticks>>

BmsInit ==
  /\ line \in Lines /\ once \in BOOLEAN /\ pushing = TRUE
  /\ pc = "settings" /\ job = "first" /\ wait = FrameTimeout /\ left = 0
  /\ queue = <<>> /\ seed = 0 /\ realtime = NoFrame /\ settings = NoFrame
  /\ silent = 0 /\ since = 0 /\ ticks = 0

Daemon == NoSettings \/ DrainReads \/ Measures \/ Between \/ PostEnds \/ Restarts

BmsNext == Daemon \/ PortGone \/ Tick \/ PowerSwitched

BmsSpec == BmsInit /\ [][BmsNext]_bms_vars

(***************************************************************************)
(* Time passes, and the daemon goes on when it can; nobody has to touch    *)
(* the pack's switch.                                                      *)
(***************************************************************************)
BmsFairSpec == BmsSpec /\ WF_bms_vars(Tick) /\ WF_bms_vars(Daemon)
-----------------------------------------------------------------------------
(* Properties.                                                             *)

BmsTypeOK ==
  /\ line \in Lines /\ once \in BOOLEAN /\ pushing \in BOOLEAN
  /\ pc \in {"settings", "drain", "posting", "between", "exited"}
  /\ job \in {"first", "status", "again"}
  /\ wait \in 0..(IF FrameTimeout > PostTime THEN FrameTimeout ELSE PostTime)
  /\ left \in Int /\ left <= Interval
  /\ Len(queue) <= QueueLength
  /\ seed \in 0..Stale /\ silent \in 0..MaxSilentCycles /\ since \in 0..MaxSince
  /\ {realtime.age, realtime.held, settings.age, settings.held} \subseteq 0..Stale

\* The pack pushes and nothing is lost on the way.
Talking == ~line.faults /\ line.bursts = {Kinds}

Publishes(what) == pc # "posting" /\ pc' = "posting" /\ job' = what

(***************************************************************************)
(* What is published is news: no frame is reported as two measurements,    *)
(* and none is older than the timeout and the POST that kept the daemon    *)
(* from reading and stamping it.  Even after two POSTs in a row, or a long *)
(* wait for the first settings frame, the cycle that follows counts as     *)
(* silent instead (Freshest, drain_until, the anchored deadlines of run).  *)
(***************************************************************************)
PublishedIsNews ==
  [][Publishes("status") =>
       realtime.age <= FrameTimeout + PostTime /\ ~realtime.told]_bms_vars

(***************************************************************************)
(* A pack that keeps pushing is never declared silent, however slow the    *)
(* receiver is: skipped drains and lost queues cost single measurements    *)
(* (silent_cycles, drain_until).                                           *)
(***************************************************************************)
TalkingPackIsKept == Talking /\ ~once => pc # "exited"

(***************************************************************************)
(* Settings go out again within a cycle of being due (last_settings).      *)
(***************************************************************************)
SettingsStayCurrent ==
  Talking /\ pc # "exited" => since <= SettingsInterval + Interval + 2 * PostTime

(***************************************************************************)
(* A pack that falls silent ends the run, so that systemd starts a new     *)
(* discovery (MAX_SILENT_CYCLES: without it "a powered-down BMS would      *)
(* leave this process publishing nothing, forever, while `active`").       *)
(***************************************************************************)
SilentPackEndsTheRun == ~pushing ~> (pc = "exited" \/ pushing)

(***************************************************************************)
(* run's comment: "Seeded with the frame discovery already read, so the    *)
(* first status record is published at once rather than an interval later" *)
(* -- so no time passes in the loop before the first measurement.          *)
(***************************************************************************)
FirstStatusAtOnce == pc = "drain" /\ ticks = 0 => left = Interval
=============================================================================
