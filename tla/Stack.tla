------------------------------- MODULE Stack -------------------------------
(***************************************************************************)
(* What a check_stack call is made of, whichever way its answer is found:  *)
(* the feed upstream keeps, the calls that are refused, and the report on  *)
(* one component (checkStackTool in main.go; the feed is the service       *)
(* behind the /v1 API, seen only through the client in client.go).         *)
(***************************************************************************)
EXTENDS Briefing

CONSTANTS
  Projects,          (* project slugs                                      *)
  Blank,             (* a project that is empty or white space             *)
  MaxComponents      (* maxComponents                                      *)

ASSUME StackAssumption ==
  /\ Blank \notin Projects
  /\ MaxComponents \in Nat \ {0}

(* The feed upstream: every change ever published, with its project.  The  *)
(* seq of a change is its place in the feed.                               *)
Published == [project : Projects, change : Change]

ChangesOf(project, feed) ==
  {feed[i].change : i \in {j \in DOMAIN feed : feed[j].project = project}}

(* What a caller may ask of check_stack. *)
Component ==
  [project : Projects \cup {Blank}, version : Seq(Token), target : Seq(Token),
   inferred : BOOLEAN]

Call == [components : Seq(Component), severityMin : STRING, detail : STRING]

(***************************************************************************)
(* A call: its components, severity_min ("" when it is not given) and      *)
(* detail.  Unknown spellings of the two stand for every other string.     *)
(***************************************************************************)
severityRank ==
  [info |-> 0, low |-> 1, medium |-> 2, high |-> 3, critical |-> 4]

MinRank(call) == IF call.severityMin = "" THEN 0 ELSE severityRank[call.severityMin]

(* Mutant of Refused: components without a project go through. *)
RefusedWithProjects(call) ==
  \/ call.components = <<>>
  \/ Len(call.components) > MaxComponents
  \/ call.severityMin \notin DOMAIN severityRank \cup {""}
  \/ call.detail \notin {"", "brief", "full"}

Refused(call) ==
  \/ call.components = <<>>
  \/ Len(call.components) > MaxComponents
  \/ \E i \in DOMAIN call.components : call.components[i].project = Blank
  \/ call.severityMin \notin DOMAIN severityRank \cup {""}
  \/ call.detail \notin {"", "brief", "full"}

-----------------------------------------------------------------------------
(***************************************************************************)
(* The report on one component: its outcome, the changes scanned, what the *)
(* probe said of the project ("" when it was not asked), the note and, of  *)
(* an answered component, the body.                                        *)
(***************************************************************************)
Unanswered(comp, outcome) ==
  [project |-> comp.project, outcome |-> outcome, scanned |-> {}, probe |-> "",
   notes |-> {outcome}, relevant |-> {}, body |-> <<>>]

Body(call, relevant, found) ==
  IF call.detail = "full" THEN fullReport(relevant) ELSE briefReport(relevant, found)

Answered(call, comp, found, probe) ==
  LET relevant == Relevant(comp, MinRank(call), found)
  IN  [project |-> comp.project, outcome |-> "answered", scanned |-> found,
       probe |-> probe, notes |-> Notes(comp, found) \cup ({probe} \ {""}),
       relevant |-> relevant, body |-> Body(call, relevant, found)]

=============================================================================
