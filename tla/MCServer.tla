------------------------------ MODULE MCServer ------------------------------
(* Small instances of Server for TLC. *)
EXTENDS Server

Sent(tool, given, components) ==
  [tool |-> tool, raw |-> given, given |-> given, components |-> components,
   refused |-> FALSE, fits |-> TRUE]

Initialize == Sent("", {}, 0)

BadArguments == [Sent("check_stack", {"components"}, 0) EXCEPT !.fits = FALSE]

NoArguments == [Sent("get_matter", {}, 0) EXCEPT !.raw = {"not an object"}, !.fits = FALSE]

NoSuchTool == [Sent("unknown", {}, 0) EXCEPT !.raw = {"project", "another key"}, !.fits = FALSE]

StackOf(n) == Sent("check_stack", {"components"}, n)

ServerForms ==
  {Initialize, [Sent("get_release", {"project"}, 0) EXCEPT !.raw = {"project", "version"}],
   StackOf(1), NoArguments}

Timeout == NoAnswer(TimedOut)
Cancellation == NoAnswer(Canceled)

ServerResults == {Timeout, Cancellation, AnswerOf(200, "whole")}

Deploy(http, rate, audit) ==
  [http |-> http, rate |-> rate, stateless |-> FALSE, audit |-> audit, log |-> "", base |-> TRUE]

ServerSettings == {Deploy(TRUE, Limit, "metadata"), Deploy(TRUE, 0, "full")}

Untraced == [text |-> FALSE, wellFormed |-> FALSE, id |-> "none"]

NoTraces == {Untraced}

-----------------------------------------------------------------------------
(* One call at a time, of every tool, in every deployment, whatever comes  *)
(* of its requests.                                                        *)

CallForms ==
  {Initialize, BadArguments, NoSuchTool,
   [StackOf(0) EXCEPT !.refused = TRUE], StackOf(0), StackOf(2),
   Sent("list_projects", {}, 0),
   Sent("list_changes", {"project", "family", "bucket", "since"}, 0),
   Sent("changes_by_entity", {}, 0), Sent("changes_by_entity", {"name", "kind"}, 0),
   Sent("list_releases", {"limit"}, 0), Sent("list_releases", {"project"}, 0),
   Sent("get_release", {"version"}, 0), Sent("get_release", {"project", "include_raw"}, 0),
   Sent("get_release", {"project", "version"}, 0),
   Sent("get_matter", {"include_all"}, 0), Sent("get_matter", {"matter_key", "include_all"}, 0)}

CallResults ==
  {Unbuilt, Timeout, Cancellation, NoAnswer({"canceled", "dns"}), Broken(TimedOut, 200), Broken(Canceled, 200),
   Broken({}, 500), AnswerOf(200, "whole"), AnswerOf(200, "not json")} \cup
  {NoAnswer(e) : e \in TransportErrors} \cup
  {AnswerOf(status, "whole") : status \in Statuses}

CallSettings ==
  {s \in [http : BOOLEAN, rate : {0, Limit}, stateless : {TRUE}, audit : {"metadata", "full", "on"},
          log : {"", "debug", "error"}, base : BOOLEAN] :
    ~s.http => s.rate = 0}

(* None, one that is not text, one that is not well formed, a good one. *)
CallTraces ==
  {Untraced, [Untraced EXCEPT !.id = "17"],
   [text |-> TRUE, wellFormed |-> FALSE, id |-> "t"], [text |-> TRUE, wellFormed |-> TRUE, id |-> "t"]}

(* The default log level, and a base URL that parses. *)
LoudSettings == {Deploy(TRUE, 0, "")}

(* Upstream answers or is silent, and a stack has one component for every  *)
(* UpstreamTimeout of WriteTimeout, and one more.                          *)
SilentResults == {Timeout, Cancellation, AnswerOf(200, "whole")}

LargeStack == {StackOf(7)}

=============================================================================
