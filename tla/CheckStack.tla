----------------------------- MODULE CheckStack -----------------------------
(***************************************************************************)
(* One check_stack call as the code runs it: component by component, page  *)
(* by page, while upstream goes on publishing (checkStackTool in main.go,  *)
(* allProjectChanges, listChanges and projectTracked in client.go).        *)
(*                                                                         *)
(* A step of the handler ends with the answer to one upstream request;     *)
(* what it computes between two requests is local to the call and part of  *)
(* the step.  Calls share nothing that changes, so one is enough.  Any     *)
(* request may fail: a refusal, a transport error, the client's timeout or *)
(* the caller's cancellation all reach the handler as an error.            *)
(*                                                                         *)
(* The upstream service is external: feeds only grow, in the order of seq, *)
(* a page holds the next PageSize changes of a project, and next_since is  *)
(* given exactly when the page is full (docs/tools.en.md).                 *)
(***************************************************************************)
EXTENDS Stack, FiniteSetsExt

CONSTANTS
  Universe,          (* what a change may be, but for its seq and id       *)
  Calls,             (* the calls that may be made                         *)
  PageSize,          (* the limit allProjectChanges asks for               *)
  MaxChanges,        (* bound: the changes upstream ever publishes         *)
  MaxRequests        (* bound: the requests that are told apart            *)

ASSUME PagingAssumption ==
  /\ PageSize \in Nat \ {0}
  /\ MaxChanges \in Nat
  /\ MaxRequests \in Nat
  /\ \A u \in Universe : Numbered(u, 1) \in Change
  /\ Calls \subseteq Call

VARIABLES
  log, tracked,      (* upstream: the feed and the projects it tracks      *)
  call, phase,       (* the call; "idle", "working", "doubt" or "done"     *)
  reports,           (* the reports made so far, in component order        *)
  since, found,      (* allProjectChanges: the cursor and the changes read *)
  requests,          (* history: the upstream requests of the call         *)
  began              (* history: the length of log when the call was made  *)

upstream == <<log, tracked>>
vars == <<log, tracked, call, phase, reports, since, found, requests, began>>

NoCall == [components |-> <<>>, severityMin |-> "", detail |-> ""]

Init ==
  /\ log = <<>>
  /\ tracked = {}
  /\ call = NoCall
  /\ phase = "idle"
  /\ reports = <<>>
  /\ since = 0
  /\ found = {}
  /\ requests = 0
  /\ began = 0

-----------------------------------------------------------------------------
(* Upstream moves on its own. *)

Others == UNCHANGED <<call, phase, reports, since, found, requests, began>>

Publish(p, u) ==
  /\ Len(log) < MaxChanges
  /\ p \in tracked
  /\ log' = Append(log, [project |-> p, change |-> Numbered(u, Len(log) + 1)])
  /\ UNCHANGED tracked
  /\ Others

Track(p) ==
  /\ p \notin tracked
  /\ tracked' = tracked \cup {p}
  /\ UNCHANGED log
  /\ Others

-----------------------------------------------------------------------------
(* The next page of a project after a place in the feed. *)
Page(project, after) ==
  LET rest == {c \in ChangesOf(project, log) : c.seq > after}
  IN  {c \in rest : Cardinality({d \in rest : d.seq < c.seq}) < PageSize}

Full(page) == Cardinality(page) = PageSize

(* Mutants of NextSince: a change is skipped; the cursor does not move.    *)
NextSinceSkips(page) == (CHOOSE s \in {c.seq : c \in page} : \A c \in page : c.seq <= s) + 1

NextSinceStays(page) == 0

NextSince(page) == CHOOSE s \in {c.seq : c \in page} : \A c \in page : c.seq <= s

comp == call.components[Len(reports) + 1]

Requested == requests' = IF requests < MaxRequests THEN requests + 1 ELSE requests

(* The report on the component at hand ends its turn. *)
Report(r) ==
  /\ reports' = Append(reports, r)
  /\ phase' = IF Len(reports') = Len(call.components) THEN "done" ELSE "working"
  /\ since' = 0
  /\ found' = {}

Ask(c) ==
  /\ phase = "idle"
  /\ call' = c
  /\ phase' = IF Refused(c) THEN "done" ELSE "working"
  /\ began' = Len(log)
  /\ UNCHANGED <<upstream, reports, since, found, requests>>

(* A running version without a key is reported and costs no request. *)
Unparsed ==
  /\ phase = "working"
  /\ Key(comp.version) = <<>>
  /\ Report(Unanswered(comp, "unparsed"))
  /\ UNCHANGED <<upstream, call, requests, began>>

(* A blank project would drop the filter upstream: it is never sent, and   *)
(* Refused lets none come here, white space included; allProjectChanges    *)
(* itself stops the empty slug alone.                                      *)
Fetching ==
  /\ phase = "working"
  /\ Key(comp.version) # <<>>
  /\ IF comp.project = Blank THEN UNCHANGED requests ELSE Requested
  /\ UNCHANGED <<upstream, call, began>>

(* A full page: there may be more. *)
FetchPage ==
  LET page == Page(comp.project, since) IN
  /\ Fetching
  /\ comp.project # Blank
  /\ Full(page)
  /\ found' = found \cup page
  /\ since' = NextSince(page)
  /\ UNCHANGED <<phase, reports>>

(* Mutant of FetchLast: an empty feed is taken for an answer. *)
FetchLastWithoutDoubt ==
  /\ Fetching
  /\ comp.project # Blank
  /\ ~Full(Page(comp.project, since))
  /\ Report(Answered(call, comp, found \cup Page(comp.project, since), ""))

(* Mutant of FetchLast: a page that is not full is not read. *)
FetchLastWithoutPage ==
  /\ Fetching
  /\ comp.project # Blank
  /\ ~Full(Page(comp.project, since))
  /\ IF found = {}
     THEN phase' = "doubt" /\ UNCHANGED <<reports, since, found>>
     ELSE Report(Answered(call, comp, found, ""))

(* Mutant of FetchLast: the end of the feed is taken for its beginning. *)
FetchLastGoesOn ==
  /\ Fetching
  /\ comp.project # Blank
  /\ ~Full(Page(comp.project, since))
  /\ found' = found \cup Page(comp.project, since)
  /\ since' = 0
  /\ UNCHANGED <<phase, reports>>

(* The last page: the component is answered, unless nothing was found. *)
FetchLast ==
  LET page == Page(comp.project, since)
      all == found \cup page
  IN
  /\ Fetching
  /\ comp.project # Blank
  /\ ~Full(page)
  /\ IF all = {}
     THEN phase' = "doubt" /\ UNCHANGED <<reports, since, found>>
     ELSE Report(Answered(call, comp, all, ""))

FetchFails ==
  /\ Fetching
  /\ Report(Unanswered(comp, "fetch failed"))

Probing ==
  /\ phase = "doubt"
  /\ Requested
  /\ UNCHANGED <<upstream, call, began>>

(* Mutant of Probe: whatever the answer, the project is tracked. *)
ProbeWithoutLooking ==
  /\ Probing
  /\ Report(Answered(call, comp, {}, "quiet"))

Probe ==
  /\ Probing
  /\ Report(Answered(call, comp, {},
              IF comp.project \in tracked THEN "quiet" ELSE "not tracked"))

ProbeFails ==
  /\ Probing
  /\ Report(Answered(call, comp, {}, "probe failed"))

Step == Unparsed \/ FetchPage \/ FetchLast \/ FetchFails \/ Probe \/ ProbeFails

(* Nothing is left to do or to publish. *)
Finished ==
  /\ phase = "done"
  /\ Len(log) = MaxChanges
  /\ UNCHANGED vars

Next ==
  \/ \E p \in Projects, u \in Universe : Publish(p, u)
  \/ \E p \in Projects : Track(p)
  \/ \E c \in Calls : Ask(c)
  \/ Step
  \/ Finished

Spec == Init /\ [][Next]_vars

(***************************************************************************)
(* A request ends, for the client gives up after 20 seconds (client.go:28),*)
(* so the handler of a call in progress goes on: weak fairness of Step,    *)
(* with Busy written for ENABLED <<Step>>_vars, which TLC is slow at.      *)
(***************************************************************************)
Busy == phase \in {"working", "doubt"}

FairSpec == Spec /\ ([]<>~Busy \/ []<><<Step>>_vars)

-----------------------------------------------------------------------------
Outcomes == {"unparsed", "fetch failed", "answered"}
Probes == {"", "quiet", "not tracked", "probe failed"}

(* The call's state has its types, and an empty answer was asked about     *)
(* (main.go:743): a report on no changes says what the probe said.         *)
TypeOK ==
  /\ log \in Seq(Published) /\ Len(log) <= MaxChanges
  /\ tracked \subseteq Projects
  /\ call \in Calls \cup {NoCall}
  /\ phase \in {"idle", "working", "doubt", "done"}
  /\ \A i \in DOMAIN reports :
       /\ reports[i].outcome \in Outcomes
       /\ reports[i].probe \in Probes
       /\ reports[i].scanned = {} => reports[i].outcome # "answered" \/ reports[i].probe # ""
  /\ since \in 0 .. Len(log)
  /\ found \subseteq Change
  /\ requests \in 0 .. MaxRequests
  /\ began \in 0 .. Len(log)

Before(project, n) == {c \in ChangesOf(project, log) : c.seq <= n}

(***************************************************************************)
(* A component is judged by all that was on record of its project when the *)
(* call was made, by nothing of another project, and by no change without  *)
(* those before it, however the pages of the walk interleave with what is  *)
(* published meanwhile (allProjectChanges).                                *)
(***************************************************************************)
Complete ==
  \A i \in DOMAIN reports : reports[i].outcome = "answered" =>
    \E n \in began .. Len(log) : reports[i].scanned = Before(reports[i].project, n)

(***************************************************************************)
(* Every component has its own report, in the caller's order: one that     *)
(* cannot be read or fetched takes nothing from the others, and a call     *)
(* with a component that names no project is answered for none of them     *)
(* (checkStackTool).                                                       *)
(***************************************************************************)
EachItsOwn ==
  /\ Len(reports) <= Len(call.components)
  /\ \A i \in DOMAIN reports :
       /\ reports[i].project = call.components[i].project
       /\ reports[i].project \in Projects
  /\ phase = "done" =>
       Len(reports) = IF Refused(call) THEN 0 ELSE Len(call.components)

(***************************************************************************)
(* A report that lists nothing and notes nothing, or nothing but that the  *)
(* project is tracked, is a clean bill: the project is tracked, and none   *)
(* of its releases on record when the call was made is of another line,    *)
(* unreadable or above the running version (docs/tools.en.md:191, "tracked,*)
(* scanned, nothing above the running version").                           *)
(***************************************************************************)
AllClear ==
  \A i \in DOMAIN reports :
    LET r == reports[i]
        c == call.components[i]
    IN  /\ r.outcome = "answered"
        /\ r.relevant = {}
        /\ r.notes \subseteq {"quiet"}
        /\ MinRank(call) = 0
        /\ ~TargetHonoured(c)
        => /\ r.project \in tracked
           /\ \A d \in Before(r.project, began) :
                /\ SameLine(d.version, c.version)
                /\ Key(d.version) # <<>>
                /\ ~Above(d.version, Key(c.version))

(***************************************************************************)
(* The walk of a feed asks for each page once and stops: a component costs *)
(* a request for every full page of its project, one more for the end of   *)
(* the feed and at most one probe (allProjectChanges, maxComponents).      *)
(***************************************************************************)
Budget(i) ==
  Cardinality(ChangesOf(call.components[i].project, log)) \div PageSize + 2

WithinBudget ==
  LET started == {i \in DOMAIN call.components : i <= Len(reports) + 1}
  IN  requests <= MapThenSumSet(Budget, started)

(* Every call that is made is answered (the timeout of apiClient.http). *)
CallsAreAnswered == phase = "working" ~> phase = "done"

(***************************************************************************)
(* Page by page amounts to one look: the component's part in the call is   *)
(* the one AtomicCheck promises, the instant being that of the last page   *)
(* (allProjectChanges).                                                    *)
(***************************************************************************)
Atomic == INSTANCE AtomicCheck

ImplementsAtomicCheck == Atomic!Spec

=============================================================================
