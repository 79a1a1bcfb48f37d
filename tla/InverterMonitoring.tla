------------------------- MODULE InverterMonitoring -------------------------
(***************************************************************************)
(* The inverter daemon once it has found its port: `run` of                *)
(* packages/inverter-monitoring/src/main.rs with exchange, read_command,   *)
(* poll_cycle and read_identity, and write_request and read_frame of       *)
(* port.rs.                                                                *)
(*                                                                         *)
(* The line is half-duplex: one request, one answer.  The unit answers in  *)
(* the order it was asked, but possibly after the daemon stopped waiting.  *)
(* An answer is the command it is for, the unit that sent it and whether   *)
(* it is a payload, a NAK or noise.                                        *)
(***************************************************************************)
EXTENDS Integers, Sequences, FiniteSets, Functions

CONSTANTS
  Static, Live,      \* STATIC_COMMANDS, LIVE_COMMANDS
  Units,             \* the inverters that may be behind the adapter
  Implements,        \* unit -> the commands it knows
  Length,            \* command -> the bytes of its payload
  NoUnit,            \* the inverter is off or unplugged behind the adapter
  None,              \* a value that was not read
  Lines,             \* the lines to consider.  late -- prompt: answers come in
                     \* time; settled: a late one is there before the next
                     \* request; any: at any time.  noisy: answers are lost and
                     \* corrupted.  faults: units are switched and swapped,
                     \* adapters vanish
  MaxPending,        \* requests a unit that is behind remembers
  MAX_SILENT_CYCLES

Commands == Range(Static) \union Range(Live)

ASSUME CommandsAssumption ==
  /\ Static \in Seq(Commands) /\ Live \in Seq(Commands)
  /\ Static # <<>> /\ Live # <<>> /\ IsInjective(Live)
  /\ Range(Static) \intersect Range(Live) = {}
  /\ Implements \in [Units -> SUBSET Commands] /\ Length \in [Commands -> Nat]
ASSUME NobodyAssumption == NoUnit \notin Units /\ None \notin [of : Commands, unit : Units]
ASSUME LinesAssumption ==
  /\ Lines \subseteq [late : {"prompt", "settled", "any"}, noisy : BOOLEAN, faults : BOOLEAN]
  /\ MaxPending \in Nat \ {0} /\ MAX_SILENT_CYCLES \in Nat \ {0}

VARIABLES
  line,         \* the line of this behaviour
  once,         \* --once
  unit,         \* the inverter behind the adapter now
  pc,           \* connect, poll, publish, refresh, sleep or exited
  at,           \* the command of the list that is next, or being answered
  waiting,      \* in read_frame
  pending,      \* what the unit was asked and has not answered: commands
  input,        \* the tty's input queue: answers
  unsupported,  \* Session::unsupported
  fields,       \* what the commands of this pass yielded so far
  identity,     \* Session::identity
  lost,         \* by how much discarded_frames has moved since the cycle began
  silent,       \* silent_cycles
  due,          \* last_static is older than static_refresh
  missed        \* history: since the daemon last slept, an answer was late, lost or damaged

inverter_vars == <<line, once, unit, pc, at, waiting, pending, input, unsupported, fields, identity, lost,
                   silent, due, missed>>
line_vars == <<unit, pending, input>>

Asking == pc \in {"connect", "poll", "refresh"}
Plan == IF pc = "poll" THEN Live ELSE Static
Blank == [c \in Commands |-> None]

-----------------------------------------------------------------------------
(* The line.                                                               *)

Answer(c, u) ==
  {[of |-> c, unit |-> u, kind |-> IF c \in Implements[u] THEN "payload" ELSE "nak"]}
    \union (IF line.noisy THEN {[of |-> c, unit |-> u, kind |-> "noise"]} ELSE {})

\* The unit's next answer reaches the input queue, or is lost on the way.
Answers ==
  /\ pending # <<>>
  /\ pending' = Tail(pending)
  /\ \/ \E answer \in Answer(Head(pending), unit) : input' = Append(input, answer)
     \/ line.noisy /\ UNCHANGED input
  /\ UNCHANGED <<line, once, unit, pc, at, waiting, unsupported, fields, identity, lost, silent, due, missed>>

\* The inverter is switched off, on, or another one is put in its place.
UnitSwapped ==
  /\ line.faults
  /\ \E u \in Units \union {NoUnit} : u # unit /\ unit' = u
  /\ pending' = <<>>
  /\ UNCHANGED <<line, once, pc, at, waiting, input, unsupported, fields, identity, lost, silent, due, missed>>

-----------------------------------------------------------------------------
(* One command.                                                            *)

\* The list is done: the pass becomes the session's identity, or the cycle to
\* publish.
PassEnds(values) ==
  /\ at' = 1
  /\ IF pc = "poll"
     THEN pc' = "publish" /\ fields' = values /\ UNCHANGED <<identity, due>>
     ELSE /\ identity' = Restrict(values, Range(Static))
          /\ fields' = Blank
          /\ IF pc = "connect" THEN pc' = "poll" /\ UNCHANGED due
             ELSE pc' = "sleep" /\ due' = FALSE

\* The command yielded `value`; the next one follows.
Yields(value) ==
  LET values == [fields EXCEPT ![Plan[at]] = value]
  IN  IF at = Len(Plan) THEN PassEnds(values)
      ELSE at' = at + 1 /\ fields' = values /\ UNCHANGED <<pc, identity, due>>

\* read_command: what answered NAK once is not asked again.
SkipsUnsupported ==
  /\ Asking /\ ~waiting /\ Plan[at] \in unsupported
  /\ Yields(None)
  /\ UNCHANGED <<line, once, waiting, unsupported, lost, silent, missed, line_vars>>

\* Mutant: the input queue is not flushed.
write_request_only ==
  /\ Asking /\ ~waiting /\ Plan[at] \notin unsupported
  /\ line.late = "settled" => pending = <<>>
  /\ pending' = IF unit # NoUnit /\ Len(pending) < MaxPending THEN Append(pending, Plan[at]) ELSE pending
  /\ waiting' = TRUE
  /\ UNCHANGED <<line, once, unit, pc, at, input, unsupported, fields, identity, lost, silent, due, missed>>

\* tcflush, then the request; a unit too far behind does not hear it.
write_request ==
  /\ Asking /\ ~waiting /\ Plan[at] \notin unsupported
  /\ line.late = "settled" => pending = <<>>
  /\ input' = <<>>
  /\ pending' = IF unit # NoUnit /\ Len(pending) < MaxPending THEN Append(pending, Plan[at]) ELSE pending
  /\ waiting' = TRUE
  /\ UNCHANGED <<line, once, unit, pc, at, unsupported, fields, identity, lost, silent, due, missed>>

\* The parser of a live command takes any payload of exactly its length, and
\* parse_identity any printable text: neither asks what it is the answer to.  A
\* unit that has changed its fields' widths or signs is noise.
parses(c, answer) ==
  answer.kind = "payload" /\ (c \in Range(Live) => Length[answer.of] = Length[c])

\* Mutant: noise is taken for a NAK.
is_nak_or_noise(answer) == answer.kind # "payload"

is_nak(answer) == answer.kind = "nak"

\* Mutant: only what never arrived is counted.
lost_if_missing(answer) == 0

\* discarded_frames moves for noise and for a live payload that does not
\* parse; read_identity only logs.
lost_with(answer) ==
  IF answer.kind = "noise" \/ (answer.kind = "payload" /\ ~parses(Plan[at], answer)) THEN 1 ELSE 0

\* exchange and read_command take the first frame that arrives.
read_frame ==
  /\ Asking /\ waiting /\ input # <<>>
  /\ LET answer == Head(input)
     IN  /\ unsupported' = IF is_nak(answer) THEN unsupported \union {Plan[at]} ELSE unsupported
         /\ lost' = IF pc = "poll" THEN lost + lost_with(answer) ELSE lost
         /\ Yields(IF parses(Plan[at], answer) THEN [of |-> answer.of, unit |-> answer.unit] ELSE None)
  /\ input' = Tail(input)
  /\ missed' = (missed \/ Head(input).kind = "noise")
  /\ waiting' = FALSE
  /\ UNCHANGED <<line, once, unit, pending, silent>>

\* The deadline passes: a discarded frame like any other.
TimesOut ==
  /\ Asking /\ waiting /\ input = <<>>
  /\ line.late = "prompt" => pending = <<>>
  /\ lost' = IF pc = "poll" THEN lost + 1 ELSE lost
  /\ Yields(None)
  /\ waiting' = FALSE /\ missed' = TRUE
  /\ UNCHANGED <<line, once, unsupported, silent, line_vars>>

-----------------------------------------------------------------------------
(* The loop of `run`.                                                      *)

\* Mutant: a cycle in which nothing was asked does not count as silent.
is_empty_if_asked(cycle) ==
  /\ \A c \in Range(Live) : cycle[c] = None
  /\ \E c \in Range(Live) : c \notin unsupported

\* Mutant: one null makes the cycle empty.
is_incomplete(cycle) == \E c \in Range(Live) : cycle[c] = None

is_empty(cycle) == \A c \in Range(Live) : cycle[c] = None

\* Count silent cycles and give up before the third is published; publish;
\* re-read the identity if it is due.
CycleEnds ==
  /\ pc = "publish"
  /\ silent' = IF is_empty(fields) THEN silent + 1 ELSE 0
  /\ pc' = IF silent' >= MAX_SILENT_CYCLES \/ once THEN "exited"
           ELSE IF due THEN "refresh" ELSE "sleep"
  /\ fields' = Blank
  /\ UNCHANGED <<line, once, at, waiting, unsupported, identity, lost, due, missed, line_vars>>

\* Mutant: the refresh is never due.
static_never_elapses ==
  /\ pc \in {"poll", "publish", "sleep"} /\ ~due
  /\ UNCHANGED inverter_vars

static_refresh_elapses ==
  /\ pc \in {"poll", "publish", "sleep"} /\ ~due
  /\ due' = TRUE
  /\ UNCHANGED <<line, once, pc, at, waiting, unsupported, fields, identity, lost, silent, missed, line_vars>>

\* The next cycle starts; by then a unit that was behind has caught up.
Wakes ==
  /\ pc = "sleep" /\ pending = <<>>
  /\ pc' = "poll" /\ lost' = 0 /\ missed' = FALSE
  /\ UNCHANGED <<line, once, at, waiting, unsupported, fields, identity, silent, due, line_vars>>

\* A call on the port fails: the adapter is gone.
PortGone ==
  /\ line.faults /\ Asking
  /\ pc' = "exited"
  /\ UNCHANGED <<line, once, at, waiting, unsupported, fields, identity, lost, silent, due, missed, line_vars>>

\* Everything a session starts with.
Session(u) ==
  /\ pc' = "connect" /\ at' = 1 /\ waiting' = FALSE /\ pending' = <<>> /\ input' = <<>>
  /\ unsupported' = {} /\ fields' = Blank /\ identity' = [c \in Range(Static) |-> None]
  /\ lost' = 0 /\ silent' = 0 /\ due' = FALSE /\ missed' = FALSE
  /\ unit' = u

\* RestartSec has passed and a unit answers the probe.
Restarts == pc = "exited" /\ unit # NoUnit /\ Session(unit) /\ UNCHANGED <<line, once>>

InverterInit ==
  /\ line \in Lines /\ once \in BOOLEAN /\ unit \in Units
  /\ pc = "connect" /\ at = 1 /\ waiting = FALSE /\ pending = <<>> /\ input = <<>>
  /\ unsupported = {} /\ fields = Blank /\ identity = [c \in Range(Static) |-> None]
  /\ lost = 0 /\ silent = 0 /\ due = FALSE /\ missed = FALSE

Daemon == SkipsUnsupported \/ write_request \/ read_frame \/ TimesOut \/ CycleEnds \/ Wakes

InverterNext ==
  \/ Daemon \/ static_refresh_elapses \/ PortGone \/ Restarts
  \/ Answers \/ UnitSwapped

InverterSpec == InverterInit /\ [][InverterNext]_inverter_vars

(***************************************************************************)
(* The daemon goes on when it can, the refresh interval elapses, and a     *)
(* unit works off what it was asked.                                       *)
(***************************************************************************)
InverterFairSpec ==
  /\ InverterSpec
  /\ WF_inverter_vars(Daemon) /\ WF_inverter_vars(Answers) /\ WF_inverter_vars(static_refresh_elapses)
-----------------------------------------------------------------------------
(* Properties.                                                             *)

Value == [of : Commands, unit : Units] \union {None}

InverterTypeOK ==
  /\ line \in Lines /\ once \in BOOLEAN /\ unit \in Units \union {NoUnit}
  /\ pc \in {"connect", "poll", "publish", "refresh", "sleep", "exited"}
  /\ (Asking => at \in DOMAIN Plan) /\ {waiting, due, missed} \subseteq BOOLEAN
  /\ Len(pending) <= MaxPending
  /\ \A i \in DOMAIN input : input[i].kind \in {"payload", "nak", "noise"}
  /\ unsupported \subseteq Commands
  /\ fields \in [Commands -> Value] /\ identity \in [Range(Static) -> Value]
  /\ lost \in 0..Len(Live) /\ silent \in 0..MAX_SILENT_CYCLES

(***************************************************************************)
(* A late answer costs the pass it was late in and no other: a cycle whose *)
(* answers all came, whole and in time, has every live value the unit was  *)
(* asked for, each the answer to its own command, whatever was late,       *)
(* refused or swapped in the passes before it (write_request: a frame left *)
(* over is discarded, so that it is not "read as this command's answer").  *)
(***************************************************************************)
CleanCycleIsWhole ==
  pc = "publish" /\ ~missed =>
    \A c \in Range(Live) \ unsupported : fields[c] # None /\ fields[c].of = c

(***************************************************************************)
(* Every null of a published cycle is explained by a counter: commands     *)
(* given up on, and frames discarded since the cycle began ("the affected  *)
(* keys go null, a counter moves").                                        *)
(***************************************************************************)
NullsAreCounted ==
  pc = "publish" =>
    Cardinality({c \in Range(Live) : fields[c] = None})
      = Cardinality(unsupported \intersect Range(Live)) + lost

(***************************************************************************)
(* write_request: what is left of an earlier exchange must not be "read as *)
(* this command's answer" -- every identity attribute is the answer to its *)
(* own command.                                                            *)
(***************************************************************************)
IdentityIsItsOwn ==
  \A c \in Range(Static) : identity[c] # None => identity[c].of = c

(***************************************************************************)
(* On such a line a command is given up on only when the unit does not     *)
(* implement it: no late NAK and no noise switches one off (Response::Nak: *)
(* "saying the unit does not implement the command").                      *)
(***************************************************************************)
GivenUpIsUnimplemented ==
  line.late # "any" /\ ~line.faults => unsupported \intersect Implements[unit] = {}

(***************************************************************************)
(* A unit that implements any live command and answers in time is never    *)
(* declared dead, whatever else it refuses (silent_cycles).                *)
(***************************************************************************)
AnsweringUnitIsKept ==
  /\ ~line.faults /\ ~line.noisy /\ line.late = "prompt"
  /\ ~once /\ Implements[unit] \intersect Range(Live) # {}
  => pc # "exited"

(***************************************************************************)
(* A port that is open but answers nothing ends the run, even when every   *)
(* command was given up on and nothing is asked any more                   *)
(* (MAX_SILENT_CYCLES).                                                    *)
(***************************************************************************)
DeadPortEndsTheRun == unit = NoUnit ~> (pc = "exited" \/ unit # NoUnit)

(***************************************************************************)
(* "a unit swapped behind the same adapter stops being reported under the  *)
(* old serial number" (the static refresh of `run`).                       *)
(***************************************************************************)
OldSerialGoesAway ==
  \A u, v \in Units : u # v =>
    (identity[Static[1]] # None /\ identity[Static[1]].unit = u /\ unit = v)
      ~> (identity[Static[1]] = None \/ identity[Static[1]].unit # u \/ unit # v \/ pc = "exited")
=============================================================================
