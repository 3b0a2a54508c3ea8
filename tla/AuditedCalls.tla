---------------------------- MODULE AuditedCalls ----------------------------
(***************************************************************************)
(* What the audit stream promises (docs/install.en.md, "When on, every     *)
(* tool call emits one line"): a call that the server takes on comes to an *)
(* outcome; the same step writes its one record, with the outcome its      *)
(* caller is about to read, and with values only where the mode says so;   *)
(* and nothing else writes a record.  How calls are limited, dispatched,   *)
(* served and cancelled is left to Server.                                 *)
(***************************************************************************)
EXTENDS Naturals, Sequences

CONSTANTS
  Ids,               (* the identities of the calls                        *)
  Forms,             (* the calls: a tool, what was sent, names in it       *)
  Outcomes

VARIABLES
  mode,              (* "off", "metadata" or "full", for good              *)
  open,              (* the calls taken on                                 *)
  closed,            (* the outcomes not yet read                          *)
  trail              (* the records written                                *)

vars == <<mode, open, closed, trail>>

Init ==
  /\ mode \in {"off", "metadata", "full"}
  /\ open = {}
  /\ closed = {}
  /\ trail = <<>>

Entry(id, form, outcome) ==
  [id |-> id, tool |-> form.tool, outcome |-> outcome, names |-> form.names,
   values |-> IF mode = "full" THEN form.sent ELSE {}]

Fresh(id) ==
  /\ \A c \in open \cup closed : c.id # id
  /\ \A i \in DOMAIN trail : trail[i].id # id

Begin(id, form) ==
  /\ Fresh(id)
  /\ open' = open \cup {[id |-> id, form |-> form]}
  /\ UNCHANGED <<mode, closed, trail>>

End(c, outcome) ==
  /\ open' = open \ {c}
  /\ closed' = closed \cup {[id |-> c.id, outcome |-> outcome]}
  /\ trail' = IF mode = "off" THEN trail ELSE Append(trail, Entry(c.id, c.form, outcome))
  /\ UNCHANGED mode

(* The answer is read, or lost with its connection. *)
Answer(e) ==
  /\ closed' = closed \ {e}
  /\ UNCHANGED <<mode, open, trail>>

Next ==
  \/ \E id \in Ids, form \in Forms : Begin(id, form)
  \/ \E c \in open, outcome \in Outcomes : End(c, outcome)
  \/ \E e \in closed : Answer(e)

Spec == Init /\ [][Next]_vars

Open(id) == \E c \in open : c.id = id

Closed(id) == \E e \in closed : e.id = id

Promise == Spec /\ \A id \in Ids : Open(id) ~> Closed(id)

=============================================================================
