------------------------------ MODULE Collector ------------------------------
(***************************************************************************)
(* The skeleton of the two oneshot producers, packages/system-metrics and  *)
(* packages/detected-devices: read the command line, collect one group of  *)
(* records after the other, POST the batch to the receiver's unix socket   *)
(* (uds.rs), read the answer to EOF and turn it into an exit status        *)
(* (otlp.rs, main.rs).                                                     *)
(*                                                                         *)
(* The receiver is another program (external): it keeps all of a batch or  *)
(* all but a few records, answers in pieces, and may stall or die between  *)
(* any two of them.                                                        *)
(***************************************************************************)
EXTENDS Optional

CONSTANT
  MaxRejected   \* the most records a receiver that does not refuse all of them refuses

ASSUME MaxRejectedAssumption == MaxRejected \in Nat

\* A body that does not decode is not one that rejects nothing.
ASSUME NoneAssumption == None # {}

VARIABLES
  options,   \* the command line
  step,      \* where the run is
  pos,       \* the number of the group that was collected last
  records,   \* group -> the records collected for it, each under a name of its own
  reply,     \* what the receiver decided: [status, rejected], or None; of the
             \* rejected records the body has the number
  seen,      \* how many pieces of the answer have arrived
  eof,       \* the receiver has closed the connection
  stored,    \* the records the receiver kept
  exit       \* how the run ended

collector_vars == <<options, step, pos, records, reply, seen, eof, stored, exit>>
connection_vars == <<reply, seen, eof, stored>>

\* The answer as it arrives: nothing, part of the head, the head with the
\* blank line after it, part of the body, all of the body.
NothingSeen == 0
HeadSeen == 2
WholeSeen == 4

\* What system-metrics and what detected-devices collects.
GroupNames ==
  {"cpu", "memory", "filesystem", "drive", "generation", "host", "iroh_failsafe", "sensor",
   "unit", "timer", "journal", "time_provider", "dns_provider"} \union {"usb", "usb_port", "wifi_scan", "wifi", "ble_scan", "ble"}

\* The LogRecords of the request: what every group collected, under one time.
build_request == UNION {{<<g, i>> : i \in DOMAIN records[g]} : g \in DOMAIN records}

Exit(how) ==
  /\ step' = "exited"
  /\ exit' = how

\* `lines` are the command lines the program may be started with.
CollectorInit(lines) ==
  /\ options \in lines
  /\ step = "args"
  /\ pos = 0
  /\ records = [g \in GroupNames |-> <<>>]
  /\ reply = None
  /\ seen = NothingSeen
  /\ eof = FALSE
  /\ stored = {}
  /\ exit = None

-----------------------------------------------------------------------------
\* parse_args and main: --help prints and succeeds, a line that does not parse
\* (an unknown argument, a value missing or not a number, a zero where a
\* positive number is due) ends the run with status 2.
ParseArgs ==
  /\ step = "args"
  /\ \/ /\ options.line = "help"
        /\ Exit("helped")
     \/ /\ options.line = "invalid"
        /\ Exit("usage")
     \/ /\ options.line = "run"
        /\ step' = "collect"
        /\ UNCHANGED exit
  /\ UNCHANGED <<options, pos, records, connection_vars>>

\* No group is left to collect: a dry run prints the batch and is done.
Publish(left) ==
  /\ step = "collect"
  /\ left = {}
  /\ IF options.dry_run THEN Exit("ok")
     ELSE step' = "connect" /\ UNCHANGED exit
  /\ UNCHANGED <<options, pos, records, connection_vars>>

\* UnixStream::connect.
Connect ==
  /\ step = "connect"
  /\ \/ step' = "request" /\ UNCHANGED exit
     \/ Exit("failed")
  /\ UNCHANGED <<options, pos, records, connection_vars>>

\* write_all of the head and of the body, flush; each under its own timeout.
WriteRequest ==
  /\ step = "request"
  /\ \/ step' = "response" /\ UNCHANGED exit
     \/ Exit("failed")
  /\ UNCHANGED <<options, pos, records, connection_vars>>

\* Mutant: no read timeout, a run waits for as long as the receiver does.
WaitForever == FALSE

\* read_to_end: TIMEOUT has passed since the last byte arrived.
ReadTimeout ==
  /\ step = "response"
  /\ ~eof
  /\ Exit("failed")
  /\ UNCHANGED <<options, pos, records, connection_vars>>

\* What decode_rejections reads out of the body that arrived: an empty
\* body is the encoding of an answer that rejects nothing, a body cut short
\* does not decode.
decode_rejections ==
  IF seen = HeadSeen THEN {}
  ELSE IF seen = WholeSeen THEN reply.rejected
  ELSE None

\* Mutant: a 200 is taken for a success whatever its body says.
StatusIsEnough ==
  /\ seen >= HeadSeen
  /\ reply.status = 200

\* parse_response wants the blank line after the head; the status and the
\* rejections of the body decide.
Delivered ==
  /\ seen >= HeadSeen
  /\ reply.status = 200
  /\ decode_rejections = {}

\* read_to_end returns at EOF.
ReadResponse ==
  /\ step = "response"
  /\ eof
  /\ Exit(IF Delivered THEN "ok" ELSE "failed")
  /\ UNCHANGED <<options, pos, records, connection_vars>>

-----------------------------------------------------------------------------
\* The receiver has the whole request and keeps what it accepts.
Receive ==
  /\ step = "response"
  /\ reply = None /\ ~eof
  /\ \/ \E rejected \in SUBSET build_request :
          /\ rejected = build_request \/ Cardinality(rejected) <= MaxRejected
          /\ reply' = [status |-> 200, rejected |-> rejected]
          /\ stored' = build_request \ rejected
     \/ /\ reply' = [status |-> 500, rejected |-> {}]
        /\ UNCHANGED stored
  /\ UNCHANGED <<options, step, pos, records, seen, eof, exit>>

\* The next piece of the answer.
Answer ==
  /\ step = "response"
  /\ reply # None /\ ~eof /\ seen < WholeSeen
  /\ seen' = seen + 1
  /\ UNCHANGED <<options, step, pos, records, reply, eof, stored, exit>>

\* The receiver closes the connection, because it is done or because it died.
Close ==
  /\ step = "response"
  /\ ~eof
  /\ eof' = TRUE
  /\ UNCHANGED <<options, step, pos, records, reply, seen, stored, exit>>

Receiver ==
  \/ Receive
  \/ Answer
  \/ Close

-----------------------------------------------------------------------------
\* A run that posted its batch and ended with success has had every record
\* kept; a receiver that dies with the head out and the body not yet is the
\* one case the exit status cannot tell (an empty body says "none rejected").
ExitTellsDelivery ==
  (exit = "ok" /\ ~options.dry_run /\ ~(seen = HeadSeen /\ reply.rejected # {}))
    => stored = build_request

\* A run started by its unit ends by itself, also when the receiver never
\* answers, stops within its answer or dies: the timer starts the next one only
\* once this one is over.  (The read timeout is that of one read: a receiver that
\* sends its answer byte by byte is not bounded by it.)
RunEnds == options.unit ~> (step = "exited")
=============================================================================
