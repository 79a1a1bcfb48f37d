---------------------------- MODULE DnsProviders ----------------------------
(***************************************************************************)
(* The health of the DoH providers as packages/system-metrics reads it out *)
(* of dnscrypt-proxy's journal (dnscrypt.rs).                              *)
(*                                                                         *)
(* The proxy (external) probes all its servers at once, every Delay, and   *)
(* Retry after a pass none of them answered.  A success logs one line, at  *)
(* NOTICE the first time and at INFO later; a failure logs a line that     *)
(* names the server, a line about something else, or nothing.  The host's  *)
(* clock starts Behind and is corrected once.                              *)
(***************************************************************************)
EXTENDS Optional

CONSTANTS
  DohProviders,     \* the configured providers, in their order
  Delay,            \* cert_refresh_delay
  Retry,            \* the wait after a pass without a success
  PassSpan,         \* a pass takes no longer than this
  PASS_GAP,         \* PASS_GAP_MICROS
  Window,           \* --dns-window-seconds
  Behind,           \* how far the clock is behind until it is set
  MaxTime,          \* bound on time
  MaxUnsynced,      \* bound on the time the clock is wrong
  MaxPasses         \* bound on passes

ASSUME ScalesAssumption ==
  /\ {Delay, Retry, PassSpan, PASS_GAP, Window, Behind, MaxTime, MaxUnsynced, MaxPasses} \subseteq Nat
  /\ PassSpan <= PASS_GAP
  /\ PASS_GAP + PassSpan < Delay
  /\ Delay <= Window

VARIABLES
  time,       \* time since the proxy was started
  synced,     \* the clock has been set
  journal,    \* the lines of the proxy's unit, each under its place in the log
  logged,     \* how many lines there have been
  known,      \* the servers that have answered before
  due,        \* when the next pass starts
  pass,       \* the pass under way or the last one: its number and what came of it
  witnessed   \* the last pass that is over and was answered, and the number of the one before

proxy_vars == <<time, synced, journal, logged, known, due, pass, witnessed>>

wall == IF synced THEN time + Behind ELSE time
Providers == ToSet(DohProviders)

-----------------------------------------------------------------------------
(***************************************************************************)
(* dnscrypt.rs.  A journal line is [at, severity, kind, name, value]; its  *)
(* value is the rtt of a success and the reason of a failure.              *)
(***************************************************************************)
\* Mutant: only the first success of a server is recognised.
ParseNoticeOnly(line) == line.kind = "ok" /\ line.severity = "NOTICE"

\* `[NAME] OK (DoH) - rtt: NNNms`, whatever its severity.
parse_ok(line) == line.kind = "ok"

\* `[NAME]: error` and `[NAME] [URL]: error`.
parse_failure(line) == line.kind = "failure"

\* The last of some lines: the latest, and of several the one logged last.
Latest(entries, places) ==
  CHOOSE i \in places : \A j \in places :
    entries[j].at < entries[i].at \/ (entries[j].at = entries[i].at /\ j <= i)

\* The successes of configured providers, grouped where they are at most
\* PASS_GAP apart; a pass is kept under the time it started.
passes(entries) ==
  LET observations == {i \in DOMAIN entries : parse_ok(entries[i]) /\ entries[i].name \in Providers}
      times == {entries[i].at : i \in observations}
      starts == {t \in times : \A u \in times : u < t => t - u > PASS_GAP}
      PassOf(s) ==
        LET members == {i \in observations : entries[i].at >= s /\ \A t \in starts : t > s => entries[i].at < t}
            Of(p) == {i \in members : entries[i].name = p}
        IN  [start |-> s,
             end |-> Max({entries[i].at : i \in members}),
             successes |-> [p \in {entries[i].name : i \in members} |-> entries[Latest(entries, Of(p))].value]]
  IN  [s \in starts |-> PassOf(s)]

Age(now, then) == IF then = None \/ now < then THEN None ELSE now - then

\* One status per configured provider: it is up when the last pass has its
\* success, down when that pass went by without it, unknown with no pass.
dns_statuses(entries, now) ==
  LET groups == passes(entries)
      last == groups[Max(DOMAIN groups)]
      EndOf(S) == IF S = {} THEN None ELSE groups[Max(S)].end
      Near(line) == line.at + PASS_GAP >= last.start /\ line.at <= last.end + PASS_GAP
      Errors(p) == {i \in DOMAIN entries : Near(entries[i]) /\ parse_failure(entries[i]) /\ entries[i].name = p}
      Status(p) ==
        [provider |-> p,
         ok |-> p \in DOMAIN last.successes,
         rtt |-> IF p \in DOMAIN last.successes THEN last.successes[p] ELSE None,
         error |-> IF Errors(p) = {} THEN None ELSE entries[Latest(entries, Errors(p))].value,
         probe_age |-> Age(now, last.end),
         last_ok |-> Age(now, EndOf({i \in DOMAIN groups : p \in DOMAIN groups[i].successes})),
         last_fail |-> Age(now, EndOf({i \in DOMAIN groups : p \notin DOMAIN groups[i].successes}))]
      Unknown(p) ==
        [provider |-> p, ok |-> None, rtt |-> None, error |-> None, probe_age |-> None,
         last_ok |-> None, last_fail |-> None]
  IN  [i \in DOMAIN DohProviders |->
        IF DOMAIN groups = {} THEN Unknown(DohProviders[i]) ELSE Status(DohProviders[i])]

\* journalctl --since (external), then parse_entries and the statuses.
dns_provider_records(now) ==
  dns_statuses(RestrictDomain(journal, LAMBDA i : journal[i].at >= wall - Window), now)

-----------------------------------------------------------------------------
(***************************************************************************)
(* dnscrypt-proxy and the clock.                                           *)
(***************************************************************************)
ProxyInit ==
  /\ time = 0
  /\ synced \in BOOLEAN
  /\ journal = <<>> /\ logged = 0
  /\ known = {}
  /\ due = 0
  /\ pass = [number |-> 0, started |-> 0, wall |-> 0, synced |-> synced,
             probing |-> {}, answered |-> {}]
  /\ witnessed = [pass |-> pass, end |-> 0, torn |-> FALSE, before |-> 0]

StartPass ==
  /\ pass.probing = {} /\ time >= due
  /\ pass.number < MaxPasses
  /\ pass' = [number |-> pass.number + 1, started |-> time, wall |-> wall, synced |-> synced,
              probing |-> Providers, answered |-> {}]
  /\ UNCHANGED <<time, synced, journal, logged, known, due, witnessed>>

Log(p, kind) ==
  LET line == [at |-> wall, severity |-> IF p \in known THEN "INFO" ELSE "NOTICE",
               kind |-> kind, name |-> p, value |-> pass.number]
  IN  /\ logged' = logged + 1
      /\ journal' = [i \in DOMAIN journal \union {logged + 1} |-> IF i = logged + 1 THEN line ELSE journal[i]]

\* A server's probe ends; with the last of them the pass is over.
Probe(p) ==
  /\ p \in pass.probing
  /\ \/ /\ Log(p, "ok")
        /\ known' = known \union {p}
        /\ pass' = [pass EXCEPT !.probing = @ \ {p}, !.answered = @ \union {p}]
     \/ /\ \E kind \in {"failure", "TLS version"} : Log(p, kind)
        /\ pass' = [pass EXCEPT !.probing = @ \ {p}]
        /\ UNCHANGED known
  /\ IF pass'.probing # {} THEN UNCHANGED <<due, witnessed>>
     ELSE /\ due' = time + (IF pass'.answered = {} THEN Retry ELSE Delay)
          /\ witnessed' = IF pass'.answered = {} THEN witnessed
                          ELSE [pass |-> pass', end |-> wall, torn |-> pass.synced # synced,
                                before |-> witnessed.pass.number]
  /\ UNCHANGED <<time, synced>>

SetClock ==
  /\ ~synced
  /\ synced' = TRUE
  /\ UNCHANGED <<time, journal, logged, known, due, pass, witnessed>>

\* Time passes; a line the window has left behind cannot be read any more.
ProxyTick ==
  /\ time < MaxTime /\ (synced \/ time < MaxUnsynced)
  /\ IF pass.probing = {} THEN time < due \/ pass.number = MaxPasses ELSE time < pass.started + PassSpan
  /\ time' = time + 1
  /\ journal' = RestrictDomain(journal, LAMBDA i : journal[i].at >= wall + 1 - Window)
  /\ UNCHANGED <<synced, logged, known, due, pass, witnessed>>

ProxyWithinTick ==
  \/ StartPass
  \/ \E p \in Providers : Probe(p)

ProxyNext ==
  \/ ProxyWithinTick
  \/ SetClock
  \/ ProxyTick

-----------------------------------------------------------------------------
\* What the records say, read between two passes, is what came of the last
\* pass a server answered: who answered is up with that pass's time, who did
\* not is down, and a reason that is given is no older than that verdict.
\* With no answer in the window nobody is called down.  A pass that the
\* window or the setting of the clock cuts in two is not spoken for.
IsVerdict(rs) ==
  pass.probing = {} =>
    /\ (witnessed.pass.number = 0 \/ witnessed.end < wall - Window)
         => \A i \in DOMAIN rs : rs[i].ok = None
    /\ (witnessed.pass.number > 0 /\ ~witnessed.torn /\ witnessed.pass.wall >= wall - Window)
         => \A i \in DOMAIN rs :
              /\ rs[i].ok = (rs[i].provider \in witnessed.pass.answered)
              /\ rs[i].ok => rs[i].rtt = witnessed.pass.number
              /\ rs[i].error # None => rs[i].error \in (witnessed.before + 1)..witnessed.pass.number
=============================================================================
