---------------------------- MODULE AtomicCheck ----------------------------
(***************************************************************************)
(* What check_stack promises: each component is judged by the changes on   *)
(* record at one instant of the call, all of them, and a component without *)
(* any is asked about once more before its silence is reported.  How the   *)
(* changes are fetched, page by page, is left to CheckStack, and what a    *)
(* report says of its changes to Stack, whose operators are parameters.    *)
(***************************************************************************)
EXTENDS Naturals, Sequences

CONSTANTS
  Projects,          (* project slugs                                      *)
  Universe,          (* what a change may be, but for its seq and id       *)
  Calls,             (* the calls that may be made                         *)
  MaxChanges,        (* bound: the changes upstream ever publishes         *)
  Key(_),            (* of a version, <<>> when it cannot be read          *)
  Refused(_),        (* the calls that are answered for no component       *)
  Numbered(_, _),    (* a change with its place in the feed                *)
  ChangesOf(_, _),   (* the changes of a project in a feed                 *)
  Unanswered(_, _),  (* the report on a component, with why                *)
  Answered(_, _, _, _)  (* the report made of changes and a probe          *)

VARIABLES
  log,               (* the feed upstream                                  *)
  tracked,           (* the projects upstream tracks                       *)
  call,              (* the call, once made                                *)
  phase,             (* "idle", "working", "doubt" (no changes), "done"    *)
  reports            (* the reports made so far, in component order        *)

vars == <<log, tracked, call, phase, reports>>

NoCall == [components |-> <<>>, severityMin |-> "", detail |-> ""]

Init ==
  /\ log = <<>>
  /\ tracked = {}
  /\ call = NoCall
  /\ phase = "idle"
  /\ reports = <<>>

comp == call.components[Len(reports) + 1]

Report(r) ==
  /\ reports' = Append(reports, r)
  /\ phase' = IF Len(reports') = Len(call.components) THEN "done" ELSE "working"

-----------------------------------------------------------------------------
Upstream == UNCHANGED <<call, phase, reports>>

Publish(p, u) ==
  /\ Len(log) < MaxChanges
  /\ p \in tracked
  /\ log' = Append(log, [project |-> p, change |-> Numbered(u, Len(log) + 1)])
  /\ UNCHANGED tracked
  /\ Upstream

Track(p) ==
  /\ tracked' = tracked \cup {p}
  /\ UNCHANGED log
  /\ Upstream

Ask(c) ==
  /\ phase = "idle"
  /\ call' = c
  /\ phase' = IF Refused(c) THEN "done" ELSE "working"
  /\ UNCHANGED <<log, tracked, reports>>

Handler == UNCHANGED <<log, tracked, call>>

Unparsed ==
  /\ phase = "working"
  /\ Key(comp.version) = <<>>
  /\ Report(Unanswered(comp, "unparsed"))
  /\ Handler

(* All the changes of the project, as they are now. *)
Answer ==
  LET found == ChangesOf(comp.project, log) IN
  /\ phase = "working"
  /\ Key(comp.version) # <<>>
  /\ found # {}
  /\ Report(Answered(call, comp, found, ""))
  /\ Handler

Silence ==
  /\ phase = "working"
  /\ Key(comp.version) # <<>>
  /\ ChangesOf(comp.project, log) = {}
  /\ phase' = "doubt"
  /\ UNCHANGED reports
  /\ Handler

FetchFails ==
  /\ phase = "working"
  /\ Key(comp.version) # <<>>
  /\ Report(Unanswered(comp, "fetch failed"))
  /\ Handler

Probe ==
  /\ phase = "doubt"
  /\ Report(Answered(call, comp, {},
              IF comp.project \in tracked THEN "quiet" ELSE "not tracked"))
  /\ Handler

ProbeFails ==
  /\ phase = "doubt"
  /\ Report(Answered(call, comp, {}, "probe failed"))
  /\ Handler

Next ==
  \/ \E p \in Projects, u \in Universe : Publish(p, u)
  \/ \E p \in Projects : Track(p)
  \/ \E c \in Calls : Ask(c)
  \/ Unparsed \/ Answer \/ Silence \/ FetchFails \/ Probe \/ ProbeFails

Spec == Init /\ [][Next]_vars

=============================================================================
