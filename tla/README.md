# ratatosk-mcp in TLA+

This directory specifies, model-checks and proves properties of ratatosk-mcp,
the MCP server that answers questions about release notes: the server as a
whole, from a request's arrival to its answer (rate limiter, audit stream,
tools, upstream requests, log, deadlines), and in detail the limiter, the
version arithmetic, the walk of `check_stack` over the upstream API, the report
it makes of what it found, and the decodings at both ends. Line numbers are
those of the sources under `src/`.

Contents

1. The system and its parts
2. The modules, and how they correspond to the code
3. What each run checks, its bounds, and the fairness assumed
4. What is proved
5. Where the code and its documentation disagree
6. What is only model-checked, and what is not modelled
7. Plan
8. Running it

## 1. The system and its parts

One Go process. Requests arrive over stdio, or over HTTP when `MCP_HTTP_ADDR`
is set; every HTTP request runs in a goroutine of its own. Each tool call asks
the upstream `/v1` API (another service, not in this repository) over HTTP and
formats the answer. Nothing is persisted and tool calls share no state: the
only mutable state that outlives a request is the rate limiter's map and the
SDK's sessions.

| part | source | state | operations | what makes it correct |
| --- | --- | --- | --- | --- |
| Rate limiter | `ratelimit.go` | `rateLimiter.seen`, a map from caller to `{count, resetAt}`, under one mutex | `callerKey`, `allow`, `rateLimitMiddleware` | a caller is charged for its own requests only; a 429 means the caller spent its budget; nobody gets more than the window allows, in whatever order goroutines take the lock; the map stays small |
| Release versions | `internal/version/version.go` | none | `Compare`, `SplitLine`, `Line`, `SameLine`, `NormalizeVersion` | keys are totally ordered; the line and the version of a tag are read back whatever the prefix holds; a suffix in words changes neither |
| `check_stack` briefing | `main.go:733-1174`, `client.go:42-193` | none (one call's slices, some edited in place) | the scan of a component's changes, `addressedOnRunningBranch`, `resolveTarget`, `briefReport`, `mergeSharedQuotes`, `EffSeverity` | nothing the caller needs to decide is hidden; nothing is asked for that the install has; upgrading in hops loses nothing; silence and summary are true |
| `check_stack` call and paging | `main.go:670-862`, `client.go:271-317`, `381-418` | the reports made so far; the cursor and the changes read | refusals, `allProjectChanges`, `projectTracked` | every component is judged by a snapshot of its project, and has exactly one report; a call ends; a failure does not read as silence |
| Argument decoding | `main.go:383-490` | none | `stackComponents.UnmarshalJSON`, `stackComponent.UnmarshalJSON` | the shapes the docs accept, and no others |
| Upstream client | `client.go:20-40`, `204-269`, `log.go:107-127` | an `http.Client` | `get`, `errKind`, the six thin wrappers | failures reach the caller without internals, and the log at the right level |
| Decoding of changes | `client.go:72-167` | none | `Change.UnmarshalJSON`, `joinPhrase`, `conditionPhrase` | a condition says what the wire object says |
| Pass-through tools | `main.go:248-380`, `1180-1196` | none | `list_projects`, `list_changes`, `changes_by_entity`, `list_releases`, `get_release`, `get_matter` | one validation, one upstream request, one answer |
| HTTP front | `main.go:175-243`, `ratelimit.go:126-160`, `log.go:23-60` | request contexts, SDK sessions | caller class, trace context, server timeouts | limiter before handler; the class is its own client's; an answer is written before the connection's deadline |
| Audit stream | `audit.go` | none | `auditMiddleware`, `auditRecord` | one record for every tools/call, with the outcome its caller reads, by the mode's rules; every call comes to one |
| Logging set-up | `log.go:62-105` | the default logger | `setupLogging` | configuration |
| Chart, examples, CI, scripts | `charts/`, `examples/`, `.github/`, `scripts/` | | | deployment, no logic |

How they interact. An HTTP request passes `callerClassMiddleware`, then
`rateLimitMiddleware`, which asks `rateLimiter.allow` under the mutex; only what
it admits reaches the MCP handler, the audit middleware and a tool. Of the
tools only `check_stack` makes more than one upstream request: for each
component it pages `/v1/changes` by a cursor, may probe `/v1/releases/{project}`
when it found nothing, and turns the changes into a report with the version
arithmetic. The upstream service publishes all the time, so two requests of
one call may see different feeds.

What is hard about it:

- *Concurrency.* `allow` gets an instant that was read before the lock
  (`ratelimit.go:167`), so windows are opened, judged and swept with instants
  out of order.
- *A moving upstream.* Pages of one walk come from different moments, and so
  does the probe after it.
- *Partial failure.* Any of a call's requests may fail, in one of a dozen ways
  with a level, an error text and a consequence each, and the rest of the call
  goes on.
- *Deadlines that do not know of each other.* Every upstream request may take
  20 seconds, one after the other; the connection's write deadline is one for
  the whole call; the caller may leave or cancel meanwhile.
- *Three records of one call.* What is logged, what goes upstream and what is
  audited are written in three places, which must agree on the trace and keep
  the arguments to themselves.
- *A long pipeline of filters and merges.* Line, key, running version, settled
  matters, target, severity, matter, quote, bucket, cap - each correct, and
  each able to hide what the next should have shown.
- *Version strings.* There is no order between release lines, and what is a
  line depends on what looks like a version.

The hazards, with the lines where they bite and the properties that cover them,
are listed in `PROJECT.json` under `hazards`.

## 2. The modules, and how they correspond to the code

```
RateLimiter <- RateLimiterProofs          Versions <- VersionLaws <- MCVersionLaws
     ^ ^                                     ^            ^
     | MCRateLimiter                         |       VersionProofs
     |                                       |
     | instance                           Briefing <- BriefingLaws <- MCBriefingLaws
     |                                       ^            ^
Server <- MCServer                           |       BriefingProofs
  |  ^                                       |
  |  ServerProofs                         Stack
  |                                          ^   implements AtomicCheck
  | implements AuditedCalls               CheckStack <- MCCheckStack
  v extends                                  ^
Upstream                                  CheckStackProofs

Arguments, Conditions <- DecodingLaws <- MCDecodingLaws
                              ^
                         DecodingProofs

SetLemmas <- KeyOrder, CheckStackProofs, DecodingProofs
KeyOrder  <- VersionProofs, BriefingProofs
```

(`A <- B`: B extends A.) `PROJECT.json` maps every definition that models code
to its lines. A definition preceded by "Mutant of" is a plausible bug in the
definition after it, and shows that a property of the runs can fail. The
modules named `...Proofs`, SetLemmas and KeyOrder hold theorems (section 4) and
model nothing.

**RateLimiter** - `rateLimitMiddleware` and `rateLimiter.allow`.
A request is two steps. `Arrive` derives the key (`callerKey`) from the headers
a deployment of the code sets and reads the clock; then, under the mutex, one
of the three ways through `allow`: `OpenWindow` (no bucket, or an expired one),
`CountRequest` (within the limit) and `Deny` (over it; counted all the same).
Each starts with the sweep of expired buckets, which runs only when the map is
over `maxTrackedCallers`. `Tick` moves the clock between any two steps, but no
more than `MaxDelay` past the instant of a waiting request; `hist` is history,
the instants (at the lock) each client was admitted at. `Headers`,
`ForwardedBy` and `Forwarded` are external: the header combinations of the
deployments the comments of `callerKey` describe. A limit of zero or an
unreadable one (`rateLimitFromEnv`) means that there is no limiter at all, so
`Limit > 0` is an assumption.

**Versions** - `internal/version`. A tag is a sequence of tokens: numbers, `v`,
the dot, the three separators `/`, `_`, `-`, and other text. `Splits` are the
cuts `SplitLine` tries, `looksLikeVersion` decides among them, and
`NormalizeVersion` reads a key that stops at the first thing that is not a
number, a number above `MaxInt` included (`strconv.Atoi` fails on it).
Everything is written with sets and comprehensions, without recursion, so that
it can be used from modules that are proved about. White space around a tag is
left out.

**Briefing** - the pure part of `check_stack`. The code makes one pass over the
changes with a chain of `continue`s; here each class of change is a set
(`OffLine`, `Unparseable`, `Newer`, `Settled`, `Relevant`), with the filters in
the code's order. `Notes` names the sentences of a component's note.
`briefReport` collapses the relevant changes by matter (`Heads`, `Entry`),
merges entries of one release and one quote (`mergeSharedQuotes`), splits them
by bucket and caps the third list; `Summary` counts between the two merges, as
the code does. Lists are sets, with the order that decides what a cap cuts
(`Precedes`, `seq`) explicit. The order of ids and releases inside an entry and the wording
are left out.

**BriefingLaws** - the state machine that feeds Briefing: a feed grows change
by change for a component and a `severity_min`, and the report made of it is
kept in `report`. Its assumptions say what a feed can hold (`Stated`: the fields
of `Change` that the walk fills in), what a component can ask (`Asked`) and no
more; the sets of the run are small parts of those.

**Stack**, **AtomicCheck**, **CheckStack** - the call. Stack has what the other
two share: the feed, the calls that are refused (`Refused`: no component, too
many, one without a project, an unknown `severity_min` or `detail`) and the
report on a component. AtomicCheck is the abstract specification, what
`check_stack` promises: a component is judged by *all* changes of its project at
*one* instant of the call, or by a failure that is reported as one, and an
empty project is asked about once more. What a report says of its changes is no
part of that promise, so `Refused`, `Answered` and the other operators of Stack
are parameters of AtomicCheck (CONSTANT operators), which CheckStack gives it.
CheckStack is the code: `FetchPage` and
`FetchLast` are iterations of `allProjectChanges` (200 changes a page in the
code, `PageSize` here), `FetchFails` an error of one, `Probe`/`ProbeFails` the
`projectTracked` call, `Unparsed` the running version without a key. `Publish`
and `Track` are the upstream service, at any moment. A step of the handler
ends with the answer of one upstream request; what happens between two requests
is local to the goroutine and part of the step. Since calls share no state, one
call is the general case.

**Upstream** - one request to `/v1`: `get`, `projectTracked`, the thin
wrappers, `errKind`, `MCP_LOG`. A result is where the request ended (not built,
no answer, body broken off, answered), the transport error by what can be found
in its chain, the status and the body. A route (`Single`, `PageRoute`,
`ProbeRoute`) has the pattern for the log and the path and query that are sent.
A text - a path, a field of a log line - is how it reads in the source and what
is filled into it of the request (`Text`). `LogGet`, with `LogAnswer`, and
`LogProbe` have one arm for each log call of `get` and `projectTracked`, with
the texts that call is handed, and `Stamped` adds what `ctxHandler` does;
`GetError` and `ProbeError` are what the caller is told. `Carried` is
requestContext's check of the traceparent; auditMiddleware's is another
operator (`AuditTrace`, in Server), as it is another line of the code.

**Server** - the composition. Each goroutine serves one request: `Arrive*`
(caller class from the same headers as the limiter's key), `Admit`/`Deny`, the
SDK (`ServeProtocol`, `SdkRefuses`), the tool's own refusal, the upstream
requests one after the other, `Audit` after the handler returned, and `Deliver`
or `Lose`. The limiter is the module RateLimiter itself, an `INSTANCE` over the
same variables with `MaxDelay = 0` (the race around its lock is RateLimiter's
subject); a result of an upstream request, and what it leaves, is Upstream's
(`Exchanged`); of `check_stack` there is the number of its requests and how they
end, not the contents of pages. `Leave` and `Cancel` are the caller's: after a
cancellation the request in flight may still be answered, every further one
fails at once, and the call still goes through all its components, as in the
code. A setting (`config`) is a deployment: transport, limit, audit mode, log
level, stateless or not, a base URL that parses or not. A form of a call has the
keys of its argument object as they were sent (what `auditRecord` lists) and the
arguments that the tool is handed. Time: a tick is the unit of
`UpstreamTimeout`, and only upstream requests take time. `requests` and `traced`
of a call are history: the requests it made and the trace context each had.

**AuditedCalls** - the abstract specification of the audit stream: a call is
open, then closed in the same step that writes its one record, with the outcome
its caller is about to read and values only if the mode says so; and every open
call is closed in the end (`Promise`). Server implements it.

**Arguments** - `stackComponents.UnmarshalJSON` (an array, or an array in a
string, but no deeper), `stackComponent.UnmarshalJSON` (the alias `name`, the
keys that a refusal repeats) and the refusals of `checkStackTool` that depend on
them. A JSON text is its value. **Conditions** - `Change.UnmarshalJSON` from
`applies_if` to condition and targets, a text being the sequence of its words.
**DecodingLaws** builds every input of a bounded size and states what the
decodings owe its author.

## 3. What each run checks

Passing runs:

| run | question | properties beside the type invariant |
| --- | --- | --- |
| `rate_limiter` | Is the budget right, whatever the goroutines do? | `SlidingBound`, `DenialJustified`, `NoEarlyRefill`, and the inductive invariant `IInv` of the proofs |
| `version_laws` | Do keys, lines and tags fit together? | `CompareIsTheOrder`, `PrefixIsTheLine`, `WordTailIsNoise`, `SplitOnce` |
| `briefing_laws` | What does a report owe the changes it was made from? | `NeverBuried`, `UpgradeSettles`, `HopByHop`, `SilenceIsEarned`, `SummaryAgrees`, `EntriesAreEvidenced`, `NearestRelease` |
| `check_stack` | Does paging against a moving upstream keep the promise? | `Complete`, `EachItsOwn`, `AllClear`, `WithinBudget`, `CallsAreAnswered`, `ImplementsAtomicCheck` |
| `server` | Do concurrent requests through limiter, tools and audit keep the audit stream's promise, who loses an answer, and is Retry-After worth waiting for? | `ShortCallsAreHeard`, `WaitingHelps`, `ImplementsAuditedCalls` |
| `server_call` | What does one call send, log, tell and record, whatever its upstream requests come to, and does it end? | `ArgumentsStayHome`, `UpstreamStaysHidden`, `OutagesAreLogged`, `TraceJoins`, `CallersStayApart`, `CallsReturn` |
| `decoding_laws` | Is what was sent what is used? | `OneStringIsTransparent`, `OnlyNamedProjectsGoUpstream`, `RefusalsTeach`, `NeverUnconditional`, `ClausesReadBack`, `TargetsAreSaid` |

`rate_limiter`. `SlidingBound` is what a fixed window is worth: of any
2*Limit+1 admissions of a client the first and last are more than
Window - MaxDelay apart. The delay
is real, and takes eight requests to matter: a sweep may end a client's window
for a request of another client while an older request of its own still waits
for the lock; that one then opens a window in the past, which ends early. With
"> Window" in place of "> Window - MaxDelay" TLC finds this behaviour within the
bounds of the run. `DenialJustified` says that a denial is the client's own
doing - no other client, no sweep, no earlier denial costs anyone a request,
though denials are counted too. `NoEarlyRefill` says that a bucket whose window is open
on the wall clock is neither swept nor reset by a request with an older or a
newer instant.
Bounds: two clients, two goroutines, a limit of 2, a window of 2 ticks of a
second, `MaxTracked` 1 so that the sweep runs with two
buckets in the map, instants up to one tick old, 5 ticks and 8 requests: enough
for a client to go through two windows, be denied in each and come back, while
the other's requests sweep its bucket, the race above included. Clients and
goroutines are interchangeable and symmetric.

`version_laws`. Every tag of up to five tokens over eight (two numbers that
fit, one that does not, `v`, the dot, two separators, text), against keys of up
to two numbers out of three. Five tokens hold two separators with a version
before, between and after them, which is where `SplitLine` has to choose.

`briefing_laws`. Every feed of three changes out of eighteen, for four
components (no target, a target above with an inferred source, a target below, a
component on another line) and two thresholds. The universe has one matter
over five releases - before, at and after the running one, on its branch and
the next, and on another line - changes without a matter, a tag that is not a
version, quotes equal in full and equal only after the cut, advisories of every
kind `EffSeverity` distinguishes, and buckets of every rank. Three changes
suffice for every pairwise interaction of the merges with a third change to
bring in a cap (both are 1), a second release or another bucket. `NeverBuried`
covers what "never dropped silently" (`main.go:556`) means for a reader of the
brief report; `UpgradeSettles` and `HopByHop` relate the report
to the one the same component would get after following it. `SummaryAgrees` is
exact: it counts the matters and the stories (a quote at a release) of the
relevant changes by themselves, and no list, no distribution and no `omitted`
may have one more or less. `SilenceIsEarned` covers the component whose target
is not above the version it runs: its report is empty of entries only when the
record is.

`check_stack`. Two projects, three possible changes, a feed of up to three
changes and a page size of two, so a walk has up to two pages and can be
overtaken at either; three calls that are answered (two components, an
unreadable one among two, a filtered full report) and five that are refused,
one for each reason. The run has no symmetry. `Complete`, the instant of a
report, is weaker than the refinement and easier to read;
`ImplementsAtomicCheck` is the refinement itself:
every behaviour of the paged call, projected on `log, tracked, call, phase,
reports`, is one of AtomicCheck (a full page is a stutter). `AllClear` reads a
report the way the docs tell an agent to, as a clean bill.

`server`. Two goroutines, two clients, two requests, with a limiter (limit 1, so
that one of them may be denied while the other is in flight) and audit in
metadata mode, or without a limiter and audit in full mode; an MCP request that
is no tool call, a pass-through call, a stack, and arguments the SDK refuses.
Every upstream request may be answered, time out or be cancelled. The scale is
`UpstreamTimeout = 1`, `WriteTimeout = 2` in place of 20 s and 120 s: a stack of
one component makes two requests (page and probe) and can just miss its
deadline, one request cannot. `ShortCallsAreHeard` says that nothing else does.
The sequences a test would hardly set up - two calls that end in another order
than they began, a cancelled call beside a denied one, a caller that left before
the record is written - are what `ImplementsAuditedCalls` ranges over. `WaitingHelps` is what
Retry-After is worth: truncated to whole seconds as it is, a client that waits a
second longer finds its window over. A second is two ticks here and a window
four, so a request denied a tick after the window opened is told 1 with three
ticks to go, where a run at one tick a second never truncates.

`server_call`. One request at a time, 17 calls (each tool with and without what
it requires, a stack refused, empty and of two components), 17 results of every
upstream request, both transports, three audit modes, three log levels, a base
URL that parses or not, and four traceparents: none, one that is no text, one
that is not well formed, a good one. One call suffices: these properties are
about what a call leaves behind, and calls share no state but the limiter.
`ArgumentsStayHome` is the privacy the docs promise, of every log call at every
level. `OutagesAreLogged` and `UpstreamStaysHidden` range over every way a
request can fail at every place of a call; the first asks of the log that it
tells an outage from a request that the caller cancelled, by the kind, and from
the caller's own mistakes, by the level. `TraceJoins` relates three streams, of
which two check the traceparent each for itself. `CallsReturn` holds as long as
a project's pages come to an end: `MaxPages` bounds a walk that the code does
not (`client.go:306`).

`decoding_laws`. Every `components` argument of up to two elements over
`SmallElements` (named, by its alias, both, blank, with an unread key, of the
wrong types, null, no object), in none, one or two strings; every `applies_if`
of up to three clauses (with and without verb, kind and name, kinds with a noun
of their own or none) in every mode, with and without the raw sentence. Three
clauses let an empty one stand between two others.

Deadlines with real figures are a violation run, `lost_answer`: seven components
and `WriteTimeout` six times `UpstreamTimeout`, as 120 s to 20 s.

Fairness in `CheckStack`. Only `CallsAreAnswered` uses it, in `FairSpec`: a handler in progress
takes a step again and again. The code justifies it: every step but one is an
upstream request, the client gives each 20 seconds (`client.go:28`), and the
remaining step is local. Nothing is assumed of upstream: it may publish or not,
and may fail every request. Termination also needs that feeds are finite for
the length of a call, which the bound `MaxChanges` stands for: a project that
publishes a full page in the time of every request would keep the walk going
(the code has no bound on pages). The fairness formula spells out `Busy` where
`WF_vars(Step)` would say ENABLED; the two agree since `FetchFails`, `ProbeFails`
are enabled whenever the phase is "working" (with a readable version; `Unparsed`
otherwise) or "doubt".

Fairness in `Server`. `FairSpec` has weak fairness of `Tick` (time passes), of
`Run(p)` (a goroutine that can go on by itself does) and of `GivesUp(p)`: a
request in flight is given up once its 20 seconds are over, its context is
cancelled or its URL cannot be built, which is what `http.Client.Timeout`
(`client.go:28`) and the request's context promise. Nothing is assumed of
upstream, which may stay silent for ever, nor of the caller. That `Lose` follows
from `WriteTimeout` assumes that the SDK's answer is written once, at the end,
on a connection that `http.Server` watches; keep-alives or an event store would
change it, and the code sets up neither.

Deadlock is checked in every run: `Finished` and `Stop` stutter where the bounds
end a model, so any other state without a step is reported.

Violation runs are those of section 5; each checks one property.

## 4. What is proved

Everything here is checked by TLAPS, for every value of the constants that meets
the assumptions listed at the end of the section.

### The limiter: `RateLimiterProofs`

For any number of clients, goroutines, requests, any limit, window, sweep
threshold and lock delay:

| theorem | property |
| --- | --- |
| `TypeCorrect` | `Spec => []TypeOK` |
| `InductiveInvariant` | `Spec => []IInv` |
| `SlidingBoundHolds` | `Spec => []SlidingBound` |
| `DenialsJustified` | `Spec => DenialJustified` |
| `NoEarlyRefills` | `Spec => NoEarlyRefill` |
| `WaitingAlwaysHelps` | `Spec => WaitingHelps` |

Assumptions: `AddressAssumption` (a blank header is not an address) and
`NumberAssumption` (the limit, window and ticks are positive, the rest natural).
That a request is charged to its own client is not assumed but proved from
`callerKey` and the header combinations (`KeyIsClient`).

The argument. `SlidingBound` speaks of the history only, and says nothing of a
client whose budget is about to be handed back; it is not inductive. `IInv` adds
what connects the map to the histories:

- `RequestsCurrent`: a waiting request carries its client's key and an instant
  at most `MaxDelay` old;
- `HistoryPast`: admissions are in the past;
- `BucketsAccounted`: the latest min(count, Limit) admissions of a bucket's
  client are its own, made since it was opened; those before were made before it
  (plus the delay), and what is older than Limit before it is more than a window
  away from its first;
- `UntrackedSpaced`: a client *without* a bucket - never seen, or swept - has
  only its last Limit admissions within the window. This is what the sweep must
  preserve: it drops a bucket only when its window is over, so the account the
  bucket kept is not needed any more.

There is one lemma per action (`OpenWindowStep`, `CountRequestStep`, `DenyStep`,
`ArriveStep`, `TickStep`); the arithmetic of an admission is in `AdmitBound` and
`AccountExtended`, the sweep's in `SweptSpaced`. `DenialsJustified` and
`NoEarlyRefills` are action properties that follow from `IInv` at the step's
first state. `WaitingAlwaysHelps` needs the type invariant and the arithmetic of
the truncation (`SecondsShort`: the quotient falls short by less than a second;
`RetryAfterReaches`), for any number of ticks a second; TLC sees it in the run
`server`, at two. `IInv` is also checked by TLC in `rate_limiter`.

### The call: `CheckStackProofs`

For any projects, feed, calls, page size and number of components:

| theorem | property |
| --- | --- |
| `WalkInvariant` | `Spec => []IInv` |
| `TypesHold`, `CompleteHolds`, `EachItsOwnHolds`, `AllClearHolds`, `WithinBudgetHolds` | `TypeOK`, `Complete`, `EachItsOwn`, `AllClear`, `WithinBudget` |
| `WalkIsAtomic` | `Spec => ImplementsAtomicCheck` (all of it: AtomicCheck states no fairness) |

`Complete` speaks of reports that are made; what makes it inductive is the walk
in between. `WalkIsPrefix` says that `found` is exactly the project's feed up to
the cursor: a page takes the first `PageSize` changes after the cursor, so none
of those up to the last one taken is left out (`FirstOnes`), and a page that is
not full is all there is. It survives a change published meanwhile because the
feed is numbered (`FeedNumbered`): the new change is past every cursor.
`DoubtIsEarned` and `ReportsFounded` keep what a report was founded on - an
instant since the call began, an answer of the probe - after the walk has moved
on. `AtomicStep` maps `FetchLast` to `Answer` or `Silence` at the instant of the
last page, and a full page to a stutter.

`WithinBudget` is not a consequence of `IInv`: `RequestsCounted` adds that the
requests made are within the budgets of the components that have a report, plus
the k of the one at hand, which brought k full pages (`Cardinality(found) =
PageSize * k`) or found its feed empty. Budgets grow with the feed, and what a
component has spent fits into its own (`QuotientIs`).

### The server: `ServerProofs`

For any clients, goroutines, deployments, forms of calls, results of upstream
requests, timeouts and deadlines:

| theorem | property |
| --- | --- |
| `CallsInvariant` | `Spec => []IInv` |
| `TypesHold`, `ArgumentsStayHomeHolds`, `UpstreamStaysHiddenHolds`, `CallersStayApartHolds`, `OutagesAreLoggedHolds`, `TraceJoinsHolds` | the invariants of `server` and `server_call` |
| `ShortCallsAreHeardHolds` | `Spec => ShortCallsAreHeard` |
| `KeepsAuditedCalls` | `Spec => Audited!Spec`: the safety part of `ImplementsAuditedCalls` |
| `KeepsRateLimiter` | `Spec /\ Limited => Limiter!Spec` |
| `DeployedLimits` | so `SlidingBound`, `DenialJustified` and `WaitingHelps` hold of a deployed server |

`IInv` says what is known of each goroutine's call whatever the others do
(`CallSound`), and the little that they share: `IdsOnce` (ids are given once,
and a record carries the id of a call that is over or about to be answered),
`TrailSound`, and `WaitingMatches` (the limiter holds exactly one request of each
goroutine that waits for it). `OnTime` is the part behind `ShortCallsAreHeard`:
the clock is never further past a call's arrival than its requests, each of at
most `UpstreamTimeout`, account for. `UpstreamStaysHidden` rests on `Underway`: a
probe is only ever in flight under a base URL that parses, since a page came
before it. What is logged is gone through site by site: `LogSites` says of
every arm of `LogGet` and `LogProbe` which endpoint, kind and level it writes,
whatever the result, `RouteTexts` that an endpoint is a literal whatever the
route, and `LogTold` what that makes of an outage and of a cancellation.
`ChecksAgree` is where the two checks of a traceparent meet; the rest of
`TraceJoins` is in `IInv`, where a call's requests keep the context they were
sent with (`TracesJoined`). One lemma for each action shows the invariant kept
(`ToReturned` is the return of a handler, however it came to that).

For the refinement, `IdsOnce` gives what AuditedCalls asks of a new call, that
its id is fresh, and of an ending one, that no other open call shares it.
`SameLimiter` and `LimiterAssumptions` carry the limiter's theorems over to the
instance in Server. The liveness of AuditedCalls' `Promise` is TLC's.

### The briefing: `BriefingProofs`

For feeds of any length, any components, thresholds, matters, quotes and caps:

| theorem | property |
| --- | --- |
| `FeedInvariant` | `Spec => []Inv` |
| `TypesHold`, `NothingIsBuried`, `SilenceIsEarnedHolds`, `FollowingSettles`, `NearestIsNamed`, `EvidenceIsKept`, `HopsLoseNothing`, `SummaryAgreesHolds` | all eight invariants of `briefing_laws` |

`Inv` is small: the feed is finite with one change for each id, and `report` is
the answer to the question at hand. The work is in what the pipeline does to one
feed. `PrecedesIsStrict` and `FirstOf`, from the order of keys (KeyOrder), make
the head of a matter unique and the earliest; `Covers`
(an entry shows a change: its matter or its quote, at least its severity and
its bucket) is shown to survive the collapse, the merge by quote and the cap in
turn. `HopsLoseNothing` needs that `Compare` is transitive, and the line gate.
The summary's distributions are folds over finite sets: an induction theorem
cannot be used, so SetLemmas proves the few facts about sums from the
definition of the fold and the well-ordering of the numbers (`LeastExists`: the
smallest set for which a sum is wrong), as the cardinality of a set of pairs
(`Pairs`), and `PartsAddUp` does the rest.

### Versions and decodings: `VersionProofs`, `DecodingProofs`

| theorem | property |
| --- | --- |
| `CompareOrders` | `CompareIsTheOrder`, for the keys of any tags |
| `SplitsOnce`, `WordTailsAreNoise`, `PrefixesAreLines` | `SplitOnce`, `WordTailIsNoise`, `PrefixIsTheLine`, for tags of any length |
| `OneString`, `OnlyNamedProjects`, `RefusalsAreEarned` | `OneStringIsTransparent`, `OnlyNamedProjectsGoUpstream`, `RefusalsTeach`, for any number of elements |
| `ConditionsAreKept` | `NeverUnconditional`, for any number of clauses |
| `TargetsStand` | under `KindsApart`, `Spec => []TargetsAreSaid` |
| `ClausesStand` | under `SeparatorsApart`, `Spec => []ClausesReadBack`, for any number of clauses, empty ones among them |

The invariants behind them are typings (`Tokens`, `SentIs`, `WhenIs`): these laws
are about functions of one input. `NormalizeVersion` and `SplitLine` are
comprehensions, so the proofs are about where their cuts fall. A condition is a
fold over clauses; `JoiningExists` constructs the sequence of its partial
results from the fold's definition, the first place where it would fail being
the least of a set, and `JoinedSays` reads off what the last one says.
`ClausesStand` needs to know where: `LiesAt` says where in a text each phrase
starts, that the phrases stand in their order with one separator between two of
them, and that they fill the text. `NextLies` (by `OneMoreLies`) carries it from
one partial result to the next, and `PartsAre` reads it back: where no phrase has
a separator for a word, the separators of the text are the cuts between its
phrases.

### Assumptions

Each is named, in the module that declares the constants, and evaluated by TLC.
`AddressAssumption`, `NumberAssumption`: above. `BriefingAssumption`: "none" is no matter,
condition or text; the quote length and the caps are positive (120, 25 and 50,
`main.go:590`, `568`, `579`). `StackAssumption`, `PagingAssumption`: a blank is no
slug, a page holds something, a call has its types. `WalkAssumption`, `LawsAssumption`,
`ArgumentsAssumption`, `DecodingAssumption`: inputs have their types, slugs are not blank, and
the keys the code does not read are not the ones it reads. `ServerAssumption`,
`LimiterAssumption`: timeouts and bounds are numbers, forms and results have their types,
`MaxDelay = 0` in the instance. `KindsApart` is no assumption of a module but the
hypothesis of `TargetsStand`: the kinds of clauses are words that no verb, name,
noun or sentence of the feed uses ("flag" apart, which is its own noun). Without
it the property cannot be told from the words: a clause named "subsystem" would
show one. `SeparatorsApart`, the hypothesis of `ClausesStand`, says that no clause
has "and" or "or" for its verb, kind or name: upstream's names are identifiers, and
a condition with such a name reads back as another one in the code, too. TLC
evaluates both on the run's clauses.

## 5. Where the code and its documentation disagree

Each row is a run that TLC ends with a counterexample.

| run | the text | the code |
| --- | --- | --- |
| `limiter_map_bound` | `ratelimit.go:53`: the bound keeps a caller cycling addresses from growing the map "without limit" | the sweep removes expired buckets only; within one window the map grows with the callers |
| `briefing_settled_line` | `docs/tools.en.md:176`: other lines "are now dropped before any comparison" | `addressedOnRunningBranch` gets every line, so a fix at `api/v1.1` settles the matter for `v1.1` |
| `briefing_matter_ids` | `main.go:878`: merged "ids listed together" | a matter's entry keeps the ids (and condition) of its first change |
| `silent_failure` | `docs/logging-design.md:4`: "failures make noise" | a 200 with a body that does not decode, a probe answered 429 and a base URL that does not parse fail without a line above DEBUG |
| `lost_answer` | `docs/install.en.md:67`: with egress blocked `check_stack` reports `fetch failed` in each note "instead of erroring" | six timeouts of 20 s use up the 120 s of `WriteTimeout`, and the report is not delivered |

Further observations, without a run:

- *Limiter.* An expired entry is dropped by the next sweep over the bound only,
  while `ratelimit.go:20` says it is "dropped when its window expires".
  Retry-After is truncated to whole seconds, so it can be less than "how many
  seconds remain in the window" (`ratelimit.go:61`). It counts every HTTP
  request, `initialize` included, where the docs speak of tool calls.
- *Versions.* A pre-release suffix that begins with a digit (`2.0.0-1`) is taken
  for the version, and what precedes it for the line.
- *Briefing.* `resolveTarget` compares a target of another line by key, where
  `version.go:6` says "Callers that compare must gate on SameLine first". An
  advisory of severity info never counts towards "the highest severity among the
  entry's advisories" (`docs/tools.en.md:151`). `severity_min` is applied before
  the collapse, so the "earliest fix" of `docs/tools.en.md:160` may be gone.
  `mergeSharedQuotes` gives the entry that stays the sibling releases of the
  entry it absorbs, whose matter is another one; and when a change without a
  condition and one with a condition are merged, the entry lists the condition
  only.
- *check_stack.* A component costs one request per page, and one more for an
  empty project, where `main.go:54` says "one upstream request per component".
  After a cancellation each remaining component logs an ERROR of kind
  `canceled`, though `docs/logging-design.md:111` keeps ERROR for what an
  operator can act on and `:114` would not have a caller page anyone.
  `OutagesAreLogged` shows that the kind still tells the two apart.
  `docs/tools.en.md:198` calls a component clean when it has neither marker;
  `AllClear` asks for no note at all.
- *Decodings.* A `project` of white space hides the alias `name`, and the
  refusal then names no keys. The polarity of a clause is decoded and dropped,
  so two clauses that differ in it alone read alike. A clause without a name
  leaves an empty text among the targets.

## 6. What is only model-checked, and what is not modelled

Only model-checked: `CallsAreAnswered`, `CallsReturn` and the liveness in
`ImplementsAuditedCalls`. Temporal properties under fairness, and the ENABLED in
it, are out of the prover's reach. Every other property of a passing run is also
a theorem, the last two of the decodings under the hypotheses of section 4.

Left out of the modules above: the wording of notes, windows and texts; the
order of ids, targets and sibling releases inside an entry (and with it the
comparison at `main.go:1060`); `version_source` beyond whether it reads as an
inference; white space around tags; numeric limits and their defaults; bytes of
bodies and the cut of an error at 400 characters; the format of log lines and
records.

Not modelled, and why:

- *The SDK* (sessions, `SessionTimeout`, stateless mode, the schema check of
  arguments): a library. Server uses what the code relies on: it decodes or
  refuses, calls the middleware around the handler, and carries one answer.
- *Process start, `/healthz` and exit*: configuration read once. Nothing is
  persisted, so a restart is a new behaviour from `Init`; the process has no
  shutdown logic of its own to interleave with calls.
- *An address without a port* (`ratelimit.go:122`): `net/http` writes
  `RemoteAddr` with one, so `callerKey`'s fallback is not reached.
- *A walk without end*: `MaxPages` (Server) and `MaxChanges` (CheckStack) bound
  the pages of a project.
- *`http.Server`'s read and idle timeouts and size limits*: they end requests
  before any code of this repository runs.
- *Chart, examples, CI and scripts*: no behaviour to check.

## 7. Plan

Done: the core (RateLimiter, Versions, Briefing, CheckStack), the rest of the
process (Upstream, Server, AuditedCalls, Arguments, Conditions), and proofs of
every safety property that a run checks. No module has a RECURSIVE operator.

Next:

1. Theorems across the parts: `Complete` says that a report is made of a snapshot
   of its project, and the laws of BriefingProofs hold of the report on any feed;
   no theorem yet says both of a report that CheckStack delivers.
2. Shorter proofs: the step lemmas of ServerProofs repeat the parts of the
   invariant that a call of another goroutine keeps.

## 8. Running it

```
tlc -workers 2 -config RateLimiter.cfg MCRateLimiter.tla
tlc -workers 2 -config CheckStack.cfg  MCCheckStack.tla
tlc -workers 2 -config Server.cfg      MCServer.tla
tlc -workers 2 -config Server_Call.cfg MCServer.tla
tlapm RateLimiterProofs.tla
tlapm ServerProofs.tla
```

and likewise for the other configurations; `PROJECT.json` names the module of
each. The modules with theorems are checked the same way: SetLemmas, KeyOrder
and those named `...Proofs`.
