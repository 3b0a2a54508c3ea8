------------------------------- MODULE Server -------------------------------
(***************************************************************************)
(* The server from a request's arrival to its answer: the HTTP front with  *)
(* caller class and rate limiter (or stdio), the SDK, the audit middleware *)
(* and the tools, one goroutine per request, while the clock runs (main.go,*)
(* audit.go, log.go, client.go, ratelimit.go).                             *)
(*                                                                         *)
(* The limiter is RateLimiter's, with no time between time.Now() and the   *)
(* lock.  What comes of an upstream request, and what is logged of it, is  *)
(* Upstream's.  The contents of check_stack's pages are CheckStack's: here *)
(* only how many requests the call makes, and how they end.                *)
(*                                                                         *)
(* A tick is UpstreamTimeout's unit.  Only an upstream request takes time: *)
(* the clock stands while a goroutine has anything else to do.             *)
(***************************************************************************)
EXTENDS Upstream, Sequences, FiniteSets

CONSTANTS
  Clients, Edges, Blank, Ports, Procs, Limit, Window, TicksPerSecond,
  MaxTracked, MaxDelay, MaxClock, MaxRequests,     (* as in RateLimiter    *)
  SelfCallers,       (* the keys an entry of MCP_SELF_CALLERS matches      *)
  Settings,          (* the deployments                                    *)
  Forms,             (* what may be asked: method, tool and arguments      *)
  Traces,            (* what is sent for a traceparent: see Carried        *)
  Results,           (* what may come of an upstream request               *)
  UpstreamTimeout,   (* the Timeout of apiClient.http, in ticks            *)
  WriteTimeout,      (* of http.Server, in ticks                           *)
  LastArrival,       (* bound: the last tick at which a request arrives    *)
  MaxPages           (* bound: the pages of one project                    *)

VARIABLES
  clock, seen, pending, asked, hist,   (* RateLimiter's                    *)
  config,            (* the deployment, for good                           *)
  call,              (* what each goroutine is doing                       *)
  trail,             (* the audit records written                          *)
  exchange           (* history: the upstream request a step ended, if any *)

vars == <<clock, seen, pending, asked, hist, config, call, trail, exchange>>

Limiter == INSTANCE RateLimiter

limiter == <<clock, seen, pending, asked, hist>>

ASSUME LimiterAssumption == Limiter!AddressAssumption /\ Limiter!NumberAssumption

(***************************************************************************)
(* A deployment: the transport, MCP_RATE_LIMIT_PER_MIN (0 for whatever     *)
(* rateLimitFromEnv takes for none), MCP_AUDIT (initAudit; "on" for        *)
(* whatever is not a mode), MCP_LOG, MCP_HTTP_STATELESS, and whether       *)
(* RATATOSK_URL parses.                                                    *)
(***************************************************************************)
Setting ==
  [http : BOOLEAN, rate : {0, Limit}, stateless : BOOLEAN, audit : {"", "metadata", "full", "on"},
   log : {"", "debug", "warn", "error"}, base : BOOLEAN]

Limited == config.http /\ config.rate > 0

auditMode == IF config.audit \in {"metadata", "full"} THEN config.audit ELSE "off"

(***************************************************************************)
(* What is asked: any method but tools/call has no tool.  `raw` are the    *)
(* keys of the argument object as it was sent, or says that it is none;    *)
(* `given` are the arguments the tool is handed that are not empty.  Of a  *)
(* check_stack call, `components` are                                      *)
(* those it needs upstream for, the others (no key for the running         *)
(* version) are reported without; `refused` stands for Stack's Refused,    *)
(* and `fits` for what the SDK lets pass: arguments that meet the schema,  *)
(* of a tool that exists.                                                  *)
(***************************************************************************)
Tools ==
  {"check_stack", "list_projects", "list_changes", "changes_by_entity",
   "list_releases", "get_release", "get_matter"}

ArgumentNames ==
  {"project", "family", "bucket", "since", "limit", "name", "kind", "version",
   "include_raw", "matter_key", "include_all", "components", "severity_min", "detail"}

Form ==
  {f \in [tool : Tools \cup {"", "unknown"},
          raw : SUBSET (ArgumentNames \cup {"not an object", "another key"}),
          given : SUBSET ArgumentNames,
          components : Nat, refused : BOOLEAN, fits : BOOLEAN] :
     f.fits => /\ f.tool # "unknown"
               /\ "not an object" \notin f.raw
               /\ f.given \subseteq f.raw}

Trace ==
  {t \in [text : BOOLEAN, wellFormed : BOOLEAN, id : {t.id : t \in Traces}] :
     t.wellFormed => t.text}

ASSUME ServerAssumption ==
  /\ MaxDelay = 0
  /\ UpstreamTimeout \in Nat \ {0}
  /\ WriteTimeout \in Nat
  /\ LastArrival \in Nat
  /\ MaxPages \in Nat \ {0}
  /\ Settings \subseteq Setting
  /\ Forms \subseteq Form
  /\ Traces \subseteq Trace
  /\ Results \subseteq Result

Required(tool) ==
  CASE tool = "changes_by_entity" -> {"name"}
    [] tool \in {"list_releases", "get_release"} -> {"project"}
    [] tool = "get_matter" -> {"matter_key"}
    [] OTHER -> {}

Refuses(form) ==
  IF form.tool = "check_stack" THEN form.refused ELSE ~(Required(form.tool) \subseteq form.given)

Idle ==
  [phase |-> "idle", client |-> Blank, class |-> "", id |-> 0,
   form |-> [tool |-> "", raw |-> {}, given |-> {}, components |-> 0,
             refused |-> FALSE, fits |-> TRUE],
   meta |-> [text |-> FALSE, wellFormed |-> FALSE, id |-> ""],
   began |-> 0, sent |-> 0, left |-> 0, stage |-> "", pages |-> 0,
   ctx |-> "live", gone |-> FALSE, outcome |-> "", requests |-> 0, traced |-> {}]

Init ==
  /\ Limiter!Init
  /\ config \in Settings
  /\ call = [p \in Procs |-> Idle]
  /\ trail = <<>>
  /\ exchange = {}

Phase(p) == call[p].phase

Fetching(p) == Phase(p) = "fetching"

(* Goroutine p goes on by itself. *)
Goes(p, c) ==
  /\ call' = [call EXCEPT ![p] = c]
  /\ UNCHANGED <<limiter, config, trail>>
  /\ exchange' = {}

-----------------------------------------------------------------------------
(* The front. *)

Arrived(c, class, form, meta) ==
  [Idle EXCEPT !.client = c, !.class = class, !.form = form, !.meta = meta,
               !.id = asked + 1, !.began = clock]

(* callerClassMiddleware: one bit of callerKey. *)
ClassOf(key) == IF key \in SelfCallers THEN "self" ELSE "external"

(* A request waits for the limiter's lock. *)
ArriveLimited(p, c, form, meta) ==
  /\ Phase(p) = "idle" /\ clock <= LastArrival
  /\ Limited
  /\ Limiter!Arrive(p, c)
  /\ \E r \in pending' :
       /\ r.proc = p
       /\ call' = [call EXCEPT ![p] =
                    [Arrived(c, ClassOf(r.key), form, meta) EXCEPT !.phase = "waiting"]]
  /\ UNCHANGED <<config, trail>>
  /\ exchange' = {}

(* No limiter: rateLimitMiddleware is the identity.  Stdio has no front.   *)
ArriveUnlimited(p, c, form, meta) ==
  /\ Phase(p) = "idle" /\ clock <= LastArrival
  /\ ~Limited
  /\ asked < MaxRequests
  /\ asked' = asked + 1
  /\ \E class \in IF config.http
                  THEN {ClassOf(Limiter!callerKey(h)) : h \in Limiter!Forwarded(c)}
                  ELSE {""} :
       call' = [call EXCEPT ![p] =
                 [Arrived(c, class, form, meta) EXCEPT !.phase = "serving"]]
  /\ UNCHANGED <<clock, seen, pending, hist, config, trail>>
  /\ exchange' = {}

Admit(p) ==
  \E r \in pending :
    /\ r.proc = p
    /\ Limiter!OpenWindow(r) \/ Limiter!CountRequest(r)
    /\ call' = [call EXCEPT ![p].phase = "serving"]
    /\ UNCHANGED <<config, trail>>
    /\ exchange' = {}

(* 429, before the SDK, the audit middleware and the tools. *)
Deny(p) ==
  \E r \in pending :
    /\ r.proc = p
    /\ Limiter!Deny(r)
    /\ call' = [call EXCEPT ![p] = Idle]
    /\ UNCHANGED <<config, trail>>
    /\ exchange' = {}

-----------------------------------------------------------------------------
(* The call, up to the result of the handler. *)

(* Mutant of Return: the outcome is not kept. *)
ReturnWithoutOutcome(c, outcome) ==
  [c EXCEPT !.phase = "returned", !.stage = "", !.sent = 0, !.pages = 0, !.ctx = "live"]

(* The handler is done: what it kept for its requests is gone. *)
Return(c, outcome) ==
  [c EXCEPT !.phase = "returned", !.outcome = outcome,
            !.stage = "", !.sent = 0, !.pages = 0, !.ctx = "live"]

(* Another method: the SDK's own business, and not audited. *)
ServeProtocol(p) ==
  /\ Phase(p) = "serving"
  /\ call[p].form.tool = ""
  /\ Goes(p, [call[p] EXCEPT !.phase = "answering", !.outcome = "ok"])

(* Arguments that do not decode, or no such tool: the SDK answers.         *)
SdkRefuses(p) ==
  /\ Phase(p) = "serving"
  /\ call[p].form.tool # ""
  /\ ~call[p].form.fits
  /\ \E outcome \in {"error", "tool_error"} : Goes(p, Return(call[p], outcome))

Accepted(p) == Phase(p) = "serving" /\ call[p].form.tool # "" /\ call[p].form.fits

ToolRefuses(p) ==
  /\ Accepted(p)
  /\ Refuses(call[p].form)
  /\ Goes(p, Return(call[p], "tool_error"))

(***************************************************************************)
(* Upstream requests are made one after the other, under the call's        *)
(* context: once that is cancelled, a request in flight may still be       *)
(* answered, and every further one fails at once.                          *)
(***************************************************************************)
Asking(c, stage) ==
  [c EXCEPT !.phase = "fetching", !.stage = stage, !.sent = clock,
            !.ctx = IF @ = "cancelling" THEN "cancelled" ELSE @]

(* The six tools that pass one request on. *)
AskSingle(p) ==
  /\ Accepted(p)
  /\ call[p].form.tool # "check_stack"
  /\ ~Refuses(call[p].form)
  /\ Goes(p, Asking(call[p], "single"))

(* The components of a check_stack call, one after the other. *)
NextComponent(c) ==
  IF c.left = 0 THEN Return(c, "ok")
  ELSE Asking([c EXCEPT !.left = @ - 1, !.pages = 0], "page")

AskStack(p) ==
  /\ Accepted(p)
  /\ call[p].form.tool = "check_stack"
  /\ ~Refuses(call[p].form)
  /\ Goes(p, NextComponent([call[p] EXCEPT !.left = call[p].form.components]))

Probing(c) == c.stage = "probe"

RouteOf(c) ==
  CASE c.stage = "single" -> Single(c.form.tool, c.form.given)
    [] c.stage = "page" -> PageRoute(c.pages)
    [] c.stage = "probe" -> ProbeRoute

(* Mutant of May: the client has no timeout. *)
MayWithoutTimeout(c, r) ==
  IF ~config.base THEN r = Unbuilt
  ELSE /\ r # Unbuilt
       /\ "canceled" \in r.error => c.ctx # "live"
       /\ "canceled" \notin r.error => c.ctx # "cancelled"
       /\ "deadline" \notin r.error

(* What may come of the request in flight, and when. *)
May(c, r) ==
  IF ~config.base THEN r = Unbuilt
  ELSE /\ r # Unbuilt
       /\ "canceled" \in r.error => c.ctx # "live"
       /\ "canceled" \notin r.error => c.ctx # "cancelled"
       /\ "deadline" \in r.error => clock - c.sent >= UpstreamTimeout

(* What a request leaves upstream, in the log and with the tool.           *)
Exchanged(p, r) ==
  LET c == call[p]
      route == RouteOf(c)
      logged == IF Probing(c) THEN LogProbe(r) ELSE LogGet(r, route)
  IN  [proc |-> p, tool |-> c.form.tool, endpoint |-> route.endpoint.says,
       probe |-> Probing(c), result |-> r,
       sent |-> IF r = Unbuilt THEN {} ELSE {[trace |-> Carried(c.meta), class |-> c.class]},
       lines |-> {Stamped(l, c.form.tool, c.meta) : l \in {m \in logged : Written(m.level, config.log)}},
       says |-> IF Probing(c) THEN ProbeError(r) ELSE GetError(r, route)]

(* Goroutine p goes on with what came of its request. *)
Hears(p, r, c) ==
  /\ May(call[p], r)
  /\ call' = [call EXCEPT ![p] = c]
  /\ exchange' = {Exchanged(p, r)}
  /\ UNCHANGED <<limiter, config, trail>>

Stage(p, stage) == Fetching(p) /\ call[p].stage = stage

(* The request that ended counts, and its trace context went upstream,     *)
(* unless it could not be built.                                           *)
Counted(p, r) ==
  IF r = Unbuilt THEN call[p]
  ELSE [call[p] EXCEPT !.requests = @ + 1, !.traced = @ \cup {Carried(call[p].meta)}]

(* A tool that passes one request on: its answer or its error.             *)
FetchSingle(p, r) ==
  /\ Stage(p, "single")
  /\ Hears(p, r, Return(Counted(p, r), IF GetSucceeds(r) THEN "ok" ELSE "tool_error"))

(* A full page: the same project again. *)
FetchMore(p, r) ==
  /\ Stage(p, "page") /\ GetSucceeds(r)
  /\ call[p].pages + 1 < MaxPages
  /\ Hears(p, r, Asking([Counted(p, r) EXCEPT !.pages = @ + 1], "page"))

(* The last page, and there were changes. *)
FetchLast(p, r) ==
  /\ Stage(p, "page") /\ GetSucceeds(r)
  /\ Hears(p, r, NextComponent(Counted(p, r)))

(* The first page is the last, and empty. *)
FetchEmpty(p, r) ==
  /\ Stage(p, "page") /\ GetSucceeds(r)
  /\ call[p].pages = 0
  /\ Hears(p, r, Asking(Counted(p, r), "probe"))

(* "fetch failed" is a note of the component's report; the call goes on.   *)
FetchFails(p, r) ==
  /\ Stage(p, "page") /\ ~GetSucceeds(r)
  /\ Hears(p, r, NextComponent(Counted(p, r)))

Probe(p, r) ==
  /\ Stage(p, "probe")
  /\ Hears(p, r, NextComponent(Counted(p, r)))

-----------------------------------------------------------------------------
(* From the handler's result to the answer. *)

(* auditMiddleware reads the traceparent for itself. *)

(* Mutant of AuditTrace: any text will do. *)
AuditTraceLax(meta) == IF meta.text THEN {meta.id} ELSE {}

AuditTrace(meta) == IF meta.text /\ meta.wellFormed THEN {meta.id} ELSE {}

(* The keys of the argument object, none if it is not an object. *)
argument_names(form) == form.raw \ {"not an object"}

(* Mutant of Record: a tool's error is an answer like another. *)
RecordWithoutToolError(c) ==
  [id |-> c.id, tool |-> c.form.tool,
   outcome |-> IF c.outcome = "error" THEN "error" ELSE "ok", names |-> argument_names(c.form),
   values |-> IF auditMode = "full" THEN c.form.raw ELSE {},
   transport |-> IF config.http THEN "http" ELSE "stdio",
   session |-> IF config.http /\ ~config.stateless THEN c.client ELSE Blank,
   trace |-> AuditTrace(c.meta)]

(* auditMiddleware, after the handler returned. *)
Record(c) ==
  [id |-> c.id, tool |-> c.form.tool, outcome |-> c.outcome, names |-> argument_names(c.form),
   values |-> IF auditMode = "full" THEN c.form.raw ELSE {},
   transport |-> IF config.http THEN "http" ELSE "stdio",
   session |-> IF config.http /\ ~config.stateless THEN c.client ELSE Blank,
   trace |-> AuditTrace(c.meta)]

Audit(p) ==
  /\ Phase(p) = "returned"
  /\ trail' = IF auditMode = "off" THEN trail ELSE Append(trail, Record(call[p]))
  /\ call' = [call EXCEPT ![p].phase = "answering"]
  /\ exchange' = {}
  /\ UNCHANGED <<limiter, config>>

CanWrite(c) == ~c.gone /\ (config.http => clock - c.began < WriteTimeout)

Deliver(p) ==
  /\ Phase(p) = "answering" /\ CanWrite(call[p])
  /\ Goes(p, Idle)

(* The connection is gone, or past its write deadline. *)
Lose(p) ==
  /\ Phase(p) = "answering" /\ ~CanWrite(call[p])
  /\ Goes(p, Idle)

(***************************************************************************)
(* The caller leaves, or cancels the call; the SDK may or may not turn the *)
(* first into the second.                                                  *)
(***************************************************************************)
Leave(p) ==
  /\ Fetching(p) /\ ~call[p].gone
  /\ Goes(p, [call[p] EXCEPT !.gone = TRUE])

Cancel(p) ==
  /\ Fetching(p) /\ call[p].ctx = "live"
  /\ Goes(p, [call[p] EXCEPT !.ctx = "cancelling"])

(* Mutant of Patient: a request may take for ever. *)
PatientForEver(c) == c.phase = "fetching" /\ config.base /\ c.ctx # "cancelled"

(* A request in flight may take until its timeout. *)
Patient(c) ==
  /\ c.phase = "fetching"
  /\ config.base
  /\ c.ctx # "cancelled"
  /\ clock - c.sent < UpstreamTimeout

Tick ==
  /\ \A p \in Procs : Phase(p) = "idle" \/ Patient(call[p])
  /\ Limiter!Tick
  /\ UNCHANGED <<config, call, trail>>
  /\ exchange' = {}

(* The bounds are used up. *)
Finished ==
  /\ \A p \in Procs : Phase(p) = "idle"
  /\ clock > LastArrival \/ asked = MaxRequests
  /\ UNCHANGED vars

Hear(p) ==
  \E r \in Results :
    \/ FetchSingle(p, r)
    \/ FetchMore(p, r)
    \/ FetchLast(p, r)
    \/ FetchEmpty(p, r)
    \/ FetchFails(p, r)
    \/ Probe(p, r)

(* What a goroutine does by itself. *)
Run(p) ==
  \/ Admit(p)
  \/ Deny(p)
  \/ ServeProtocol(p)
  \/ SdkRefuses(p)
  \/ ToolRefuses(p)
  \/ AskSingle(p)
  \/ AskStack(p)
  \/ Audit(p)
  \/ Deliver(p)
  \/ Lose(p)

Next ==
  \/ Tick
  \/ \E p \in Procs, c \in Clients, form \in Forms, meta \in Traces :
       ArriveLimited(p, c, form, meta) \/ ArriveUnlimited(p, c, form, meta)
  \/ \E p \in Procs : Run(p) \/ Hear(p)
  \/ \E p \in Procs : Leave(p) \/ Cancel(p)
  \/ Finished

Spec == Init /\ [][Next]_vars

(***************************************************************************)
(* What is owed to a request, whatever upstream does: the client's Timeout *)
(* (client.go:28), the end of a cancelled context, the error of a URL that *)
(* does not parse.                                                         *)
(***************************************************************************)
GivesUp(p) ==
  \E r \in Results :
    /\ "deadline" \in r.error \/ call[p].ctx = "cancelled" \/ r = Unbuilt
    /\ \/ FetchSingle(p, r)
       \/ FetchFails(p, r)
       \/ Probe(p, r)

(* Goroutines run, time passes, and requests are given up.                 *)
FairSpec ==
  /\ Spec
  /\ WF_vars(Tick)
  /\ \A p \in Procs : WF_vars(Run(p)) /\ WF_vars(GivesUp(p))

-----------------------------------------------------------------------------
Phases == {"idle", "waiting", "serving", "fetching", "returned", "answering"}

(***************************************************************************)
(* Exactly the goroutines that wait for the limiter's lock have a request  *)
(* there, and a call has an outcome from the handler's return to its       *)
(* answer, the one auditMiddleware reads.                                  *)
(***************************************************************************)
TypeOK ==
  /\ Limiter!TypeOK
  /\ config \in Setting
  /\ \A p \in Procs :
       LET c == call[p] IN
       /\ c.phase \in Phases
       /\ c.phase = "waiting" <=> \E r \in pending : r.proc = p
       /\ c.phase # "idle" => c.id \in 1 .. asked /\ c.form \in Forms /\ c.client \in Clients
       /\ Fetching(p) => c.stage \in {"single", "page", "probe"}
       /\ c.outcome = "" <=> c.phase \notin {"returned", "answering"}
       /\ c.ctx \in {"live", "cancelling", "cancelled"}
  /\ \A i \in DOMAIN trail : trail[i].id \in 1 .. asked
  /\ \A x \in exchange : x.proc \in Procs /\ x.result \in Results /\ Cardinality(exchange) = 1

(***************************************************************************)
(* A call that stays short of the write deadline is heard: an answer is    *)
(* lost only when the caller left, or when its upstream requests can take  *)
(* WriteTimeout in all (http.Server's WriteTimeout, apiClient's Timeout).  *)
(***************************************************************************)
ShortCallsAreHeard ==
  [][\A p \in Procs : Lose(p) =>
       call[p].gone \/ call[p].requests * UpstreamTimeout >= WriteTimeout]_vars

(***************************************************************************)
(* A caller who is answered 429 and waits a second longer than Retry-After *)
(* finds its window over, with the seconds truncated and the window open   *)
(* since whenever (allow): RateLimiter's property, here of every request   *)
(* that comes in while calls are served.                                   *)
(***************************************************************************)
WaitingHelps == Limiter!WaitingHelps

(***************************************************************************)
(* Whatever upstream and the caller do, as long as a project's pages come  *)
(* to an end (MaxPages; the loop of client.go:306 has no bound), a request *)
(* that arrives leaves its goroutine free again (the Timeout of            *)
(* apiClient.http, client.go:28).                                          *)
(***************************************************************************)
CallsReturn == \A p \in Procs : Phase(p) # "idle" ~> Phase(p) = "idle"

(***************************************************************************)
(* No log line, of any request, outcome and level, has a text that holds   *)
(* an argument or the upstream's address: every log call of get and        *)
(* projectTracked is given the pattern and the kind of the error, never    *)
(* the path or the error itself (client.go:200-203, log.go:3-7).           *)
(***************************************************************************)
ArgumentsStayHome ==
  \A x \in exchange : \A l \in x.lines : l.upstream.holds \cup l.kind.holds = {}

(***************************************************************************)
(* The caller never reads the upstream's address: get hides it in every    *)
(* error, and the probe's one error that does not (client.go:389) cannot   *)
(* happen, since a page of the same base URL came before it.               *)
(***************************************************************************)
UpstreamStaysHidden == \A x \in exchange : "address" \notin x.says

(***************************************************************************)
(* The log tells an outage from what the caller did, whatever MCP_LOG is:  *)
(* a request that upstream, the network or the timeout failed leaves an    *)
(* ERROR line of its endpoint and tool that is not of kind "canceled"; one *)
(* that only the caller's cancellation ended leaves none but of that kind, *)
(* by which an alert can tell it; any other leaves no ERROR, and a WARN    *)
(* only for a 429 (get, projectTracked, errKind, setupLogging).            *)
(***************************************************************************)
OutagesAreLogged ==
  \A x \in exchange :
    LET errors == {l \in x.lines : l.level = "ERROR"}
        r == x.result
    IN  CASE Outage(x.probe, r) ->
               \E l \in errors :
                 l.tool = x.tool /\ l.upstream.says = x.endpoint /\ l.kind.says # "canceled"
          [] ~Outage(x.probe, r) /\ Lost(x.probe, r) ->
               r.error \subseteq {"canceled", "dns"} => \A l \in errors : l.kind.says = "canceled"
          [] OTHER ->
               /\ errors = {}
               /\ (\E l \in x.lines : l.level = "WARN") => r.status = 429

(***************************************************************************)
(* One trace id joins what a call leaves in the log, upstream and in the   *)
(* audit stream: a line is stamped with the id of the header its request   *)
(* had, the header is the caller's own and well formed, and the record has *)
(* the id of every request that the call made before it, though            *)
(* requestContext and auditMiddleware each check what was sent.            *)
(***************************************************************************)
TraceIds(traces) == {t.id : t \in traces}

TraceJoins ==
  /\ \A x \in exchange : \A h \in x.sent :
       /\ \A l \in x.lines : l.trace = TraceIds(h.trace)
       /\ \A t \in h.trace : t = call[x.proc].meta /\ t.wellFormed
  /\ \A p \in Procs, i \in DOMAIN trail :
       Phase(p) = "answering" /\ trail[i].id = call[p].id =>
         \A traces \in call[p].traced : trail[i].trace = TraceIds(traces)

(***************************************************************************)
(* Upstream is told of each call whether its own client is one of the      *)
(* operator's, whatever proxies it came through, and nothing over stdio    *)
(* (callerClassMiddleware, callerKey).                                     *)
(***************************************************************************)
CallersStayApart ==
  \A x \in exchange : \A h \in x.sent :
    h.class = IF ~config.http THEN ""
                   ELSE IF call[x.proc].client \in SelfCallers THEN "self" ELSE "external"

(***************************************************************************)
(* The audit stream keeps its promise while requests are denied, refused,  *)
(* cancelled, left and served at once (auditMiddleware): see AuditedCalls. *)
(***************************************************************************)
TakenOn(p) == call[p].form.tool # "" /\ Phase(p) \in {"serving", "fetching", "returned"}

Asked(form) == [tool |-> form.tool, sent |-> form.raw, names |-> argument_names(form)]

Audited == INSTANCE AuditedCalls WITH
  Ids <- 1 .. MaxRequests,
  Forms <- {Asked(f) : f \in Forms},
  Outcomes <- {"ok", "tool_error", "error"},
  mode <- auditMode,
  open <- {[id |-> call[p].id, form |-> Asked(call[p].form)] : p \in {q \in Procs : TakenOn(q)}},
  closed <- {[id |-> call[p].id, outcome |-> call[p].outcome] :
               p \in {q \in Procs : Phase(q) = "answering" /\ call[q].form.tool # ""}},
  trail <- [i \in DOMAIN trail |->
              [id |-> trail[i].id, tool |-> trail[i].tool, outcome |-> trail[i].outcome,
               names |-> trail[i].names, values |-> trail[i].values]]

ImplementsAuditedCalls == Audited!Promise

-----------------------------------------------------------------------------
(***************************************************************************)
(* docs/logging-design.md:4, "failures make noise", and :110, WARN for     *)
(* "upstream 429": a request that fails, and not by its caller's doing,    *)
(* leaves a line above DEBUG.                                              *)
(***************************************************************************)
CallersDoing(r) ==
  \/ Answered(r) /\ r.status \in (400 .. 499) \ {429}
  \/ "canceled" \in r.error

FailuresMakeNoise ==
  \A x \in exchange :
    \/ x.result = AnswerOf(200, "whole") \/ CallersDoing(x.result)
    \/ \E l \in x.lines : l.level \in {"WARN", "ERROR"}

(***************************************************************************)
(* docs/install.en.md:66-69, with egress blocked "check_stack reports      *)
(* fetch failed in each component's note field instead of erroring": the   *)
(* report reaches a caller who waits for it.                               *)
(***************************************************************************)
StackReportsArrive ==
  [][\A p \in Procs : Lose(p) /\ call[p].form.tool = "check_stack" => call[p].gone]_vars

=============================================================================
