------------------------------ MODULE Upstream ------------------------------
(***************************************************************************)
(* One request to the /v1 API: what it carries, what of its outcome is     *)
(* logged, and what the tool reads back (get, projectTracked and the thin  *)
(* wrappers in client.go, errKind and requestContext in log.go).           *)
(*                                                                         *)
(* Of a text - a path, a field of a log line, an error - the model keeps   *)
(* what can be read in it of the request: argument names stand for the     *)
(* arguments' values, "address" for the upstream's address.                *)
(***************************************************************************)
EXTENDS Naturals

(* A text as it reads in the source, and what is filled into it. *)
Text(says, holds) == [says |-> says, holds |-> holds]

Literal(says) == Text(says, {})

(***************************************************************************)
(* A transport error, by what can be found in its chain.  The errors of    *)
(* the deployment are those of net/http: the client's own timeout, a name  *)
(* lookup that fails or times out, a refused connection, the caller's      *)
(* cancellation, anything else.                                            *)
(***************************************************************************)
TimedOut == {"deadline", "net timeout"}
Canceled == {"canceled"}

TransportErrors == {{}, {"refused"}, {"dns"}, {"dns", "net timeout"}}

errKind(e) ==
  CASE e \cap {"deadline", "net timeout"} # {} -> "timeout"
    [] e \cap {"deadline", "net timeout"} = {} /\ "refused" \in e -> "connection_refused"
    [] e \cap {"deadline", "net timeout", "refused"} = {} /\ "canceled" \in e -> "canceled"
    [] e \cap {"deadline", "net timeout", "refused", "canceled"} = {} /\ "dns" \in e -> "dns"
    [] OTHER -> "transport"

(***************************************************************************)
(* What comes of a request: it cannot be built (the base URL does not      *)
(* parse), gets no answer, or an answer with a status, whose body is       *)
(* whole, broken off by a transport error, or not the JSON expected, which *)
(* includes one that was cut at 8 MiB.                                     *)
(***************************************************************************)
Unbuilt == [at |-> "build", error |-> {}, status |-> 0, body |-> "none"]

NoAnswer(e) == [at |-> "request", error |-> e, status |-> 0, body |-> "none"]

Broken(e, status) == [at |-> "body", error |-> e, status |-> status, body |-> "broken"]

AnswerOf(status, body) == [at |-> "answer", error |-> {}, status |-> status, body |-> body]

Statuses == {200, 404, 429, 499, 500}
Bodies == {"whole", "not json"}

Errors == SUBSET (UNION TransportErrors \cup TimedOut \cup Canceled)

Result ==
  {Unbuilt} \cup {NoAnswer(e) : e \in Errors}
  \cup {Broken(e, status) : e \in Errors, status \in Statuses}
  \cup {AnswerOf(status, body) : status \in Statuses, body \in Bodies}

Answered(r) == r.at \in {"body", "answer"}

(* The probe (projectTracked) reads no body, so it has none to lose.       *)
Lost(probe, r) == r.at = "request" \/ (r.at = "body" /\ ~probe)

HasStatus(probe, r) == r.at = "answer" \/ (probe /\ Answered(r))

(* An infrastructure failure: nothing the caller of the tool did or could  *)
(* change.  A request that its caller cancelled is none.                   *)
Outage(probe, r) ==
  \/ Lost(probe, r) /\ "canceled" \notin r.error
  \/ HasStatus(probe, r) /\ r.status >= 500

-----------------------------------------------------------------------------
(* The routes.  get is handed the log-safe pattern and the real path, which *)
(* is the pattern filled in; both are followed by the query.               *)

Route(pattern, inPath, query) ==
  [endpoint |-> Literal(pattern), path |-> Text(pattern, inPath), query |-> query]

(* listChanges leaves out what is empty or 0. *)
ListChanges(args) ==
  Route("/v1/changes", {}, args \cap {"project", "family", "bucket", "since", "limit"})

Single(tool, given) ==
  CASE tool = "list_projects" -> Route("/v1/projects", {}, {})
    [] tool = "list_changes" -> ListChanges(given \cup {"limit"})
    [] tool = "changes_by_entity" -> Route("/v1/changes/by-entity", {}, given)
    [] tool = "list_releases" -> Route("/v1/releases/{project}", {"project"}, {"limit"})
    [] tool = "get_release" /\ "version" \notin given ->
         Route("/v1/releases/{project}", {"project"}, given \cap {"include_raw"})
    [] tool = "get_release" /\ "version" \in given ->
         Route("/v1/releases/{project}/{version}", {"project", "version"}, given \cap {"include_raw"})
    [] tool = "get_matter" -> Route("/v1/matters/{key}", {"matter_key"}, given \cap {"include_all"})

(* The two requests of check_stack: a page of changes after `pages` others, *)
(* and the probe.                                                          *)
PageRoute(pages) ==
  ListChanges({"project", "limit"} \cup IF pages > 0 THEN {"since"} ELSE {})

ProbeRoute == Route("/v1/releases/{project}", {"project"}, {})

-----------------------------------------------------------------------------
(***************************************************************************)
(* What get and projectTracked hand the log, site by site: a level, the    *)
(* text of "upstream", and either a status or the text of "kind".          *)
(***************************************************************************)
FailureLine(endpoint, kind) ==
  [level |-> "ERROR", upstream |-> endpoint, status |-> 0, kind |-> kind]

StatusLine(level, endpoint, status) ==
  [level |-> level, upstream |-> endpoint, status |-> status, kind |-> Literal("")]

(* Mutant of LogAnswer: a rejected request is logged with its path. *)
LogAnswerPath(r, route) ==
  CASE r.status = 200 -> StatusLine("DEBUG", route.endpoint, r.status)
    [] r.status = 429 -> StatusLine("WARN", route.endpoint, r.status)
    [] r.status >= 500 -> StatusLine("ERROR", route.endpoint, r.status)
    [] OTHER -> StatusLine("DEBUG", route.path, r.status)

LogAnswer(r, route) ==
  CASE r.status = 200 -> StatusLine("DEBUG", route.endpoint, r.status)
    [] r.status = 429 -> StatusLine("WARN", route.endpoint, r.status)
    [] r.status >= 500 -> StatusLine("ERROR", route.endpoint, r.status)
    [] OTHER -> StatusLine("DEBUG", route.endpoint, r.status)

(* Mutant of LogGet: a broken body is passed on without a word. *)
LogGetDeaf(r, route) ==
  CASE r.at \in {"build", "body"} -> {}
    [] r.at = "request" -> {FailureLine(route.endpoint, Literal(errKind(r.error)))}
    [] r.at = "answer" -> {LogAnswer(r, route)}

LogGet(r, route) ==
  CASE r.at = "build" -> {}
    [] r.at = "request" -> {FailureLine(route.endpoint, Literal(errKind(r.error)))}
    [] r.at = "body" -> {FailureLine(route.endpoint, Literal(errKind(r.error)))}
    [] r.at = "answer" -> {LogAnswer(r, route)}

(* projectTracked names the pattern itself. *)
LogProbe(r) ==
  CASE r.at = "request" ->
         {FailureLine(Literal("/v1/releases/{project}"), Literal(errKind(r.error)))}
    [] Answered(r) /\ r.status >= 500 ->
         {StatusLine("ERROR", Literal("/v1/releases/{project}"), r.status)}
    [] OTHER -> {}

-----------------------------------------------------------------------------
(* What the tool reads: its answer, or what an error's text holds. *)

GetSucceeds(r) == r = AnswerOf(200, "whole")

(* Mutant of GetError: the transport error is wrapped. *)
GetErrorWrapped(r, route) ==
  CASE r.at \in {"request", "body"} -> {"kind", "address"} \cup route.path.holds \cup route.query
    [] r.at = "answer" /\ r.status # 200 -> {"status", "body"} \cup route.path.holds
    [] OTHER -> {}

GetError(r, route) ==
  CASE r.at \in {"request", "body"} -> {"kind"}
    [] r.at = "answer" /\ r.status # 200 -> {"status", "body"} \cup route.path.holds
    [] OTHER -> {}

(* projectTracked reads only the status. *)
ProbeError(r) ==
  CASE r.at = "build" -> {"address", "project"}
    [] r.at = "request" -> {"kind"}
    [] Answered(r) /\ r.status \notin {200, 404} -> {"status"}
    [] OTHER -> {}

-----------------------------------------------------------------------------
(* The log: MCP_LOG selects the least level that is written. *)

Threshold(mcpLog) ==
  CASE mcpLog = "debug" -> 0
    [] mcpLog = "warn" -> 2
    [] mcpLog = "error" -> 3
    [] OTHER -> 1

Rank == [DEBUG |-> 0, WARN |-> 2, ERROR |-> 3]

Written(level, mcpLog) == Rank[level] >= Threshold(mcpLog)

(***************************************************************************)
(* requestContext.  A traceparent is what a caller sends under that key of *)
(* _meta: whether it is text, whether the text is well formed, and the     *)
(* trace id in it.  The context carries it, or nothing.                    *)
(***************************************************************************)
Carried(meta) == IF meta.text /\ meta.wellFormed THEN {meta} ELSE {}

(* ctxHandler stamps the tool and the trace id of the context. *)
Stamped(line, tool, meta) ==
  [level |-> line.level, upstream |-> line.upstream, status |-> line.status, kind |-> line.kind,
   tool |-> tool, trace |-> {t.id : t \in Carried(meta)}]

=============================================================================
