------------------------------ MODULE Briefing ------------------------------
(***************************************************************************)
(* From the changes on record for one project to the report on one         *)
(* component of a check_stack call: which changes are the upgrade path,    *)
(* which are held back and counted, and how a brief report compresses the  *)
(* rest (the per-component body of checkStackTool and briefReport in       *)
(* main.go, Change.EffSeverity in client.go).                              *)
(*                                                                         *)
(* The changes of a feed are a set: seq is a change's place in the feed    *)
(* and id its change_id, both unique.  The lists of a report are sets as   *)
(* well, with the order that decides which entries a cap cuts made         *)
(* explicit; so are the advisories, targets and sibling releases of an     *)
(* entry, whose order in the answer is left out, like every wording.       *)
(*                                                                         *)
(* A component is a record of its version, target (<<>> when not given)    *)
(* and inferred, whether version_source reads as an inference              *)
(* (confessionRe); the caller's severity_min is a rank.                    *)
(***************************************************************************)
EXTENDS Versions, FiniteSets

CONSTANTS
  Ids, Matters, Conditions, Texts,  (* advisory ids, matter keys, phrases, quoted text *)
  NoMatter, NoCondition,            (* the empty matter_key and applies_if *)
  Ellipsis,                         (* what briefQuote puts after a cut    *)
  QuoteChars,                       (* briefQuoteChars                     *)
  OtherCap,                         (* otherChangesCap                     *)
  RelevantCap                       (* relevantChangesCap                  *)

ASSUME BriefingAssumption ==
  /\ NoMatter \notin Matters
  /\ NoCondition \notin Conditions
  /\ Ellipsis \notin Texts
  /\ QuoteChars \in Nat \ {0} /\ OtherCap \in Nat \ {0} /\ RelevantCap \in Nat \ {0}

Severities == 0 .. 4         (* severityRank: info, low, medium, high, critical *)
Buckets == {"action", "check", "plan", "note"}
Families == {"security", "feature"}

Change ==
  [seq : Nat, id : Nat, version : Seq(Token), matter : Matters \cup {NoMatter},
   family : Families, bucket : Buckets, cond : Conditions \cup {NoCondition},
   quote : Seq(Texts), advisories : SUBSET [id : Ids, sev : Severities]]

(* A change as it enters a feed, given everything but its seq and id.      *)
Numbered(u, n) ==
  [f \in DOMAIN u \cup {"seq", "id"} |-> IF f \in {"seq", "id"} THEN n ELSE u[f]]

-----------------------------------------------------------------------------
Worst(ranks) == CHOOSE r \in ranks : \A s \in ranks : s <= r

(* The rank EffSeverity stands for: an advisory counts only above "info". *)
EffSeverity(c) ==
  LET best == Worst({a.sev : a \in c.advisories} \cup {0})
  IN  CASE best > 0 -> best
        [] best = 0 /\ c.family = "security" -> 3
        [] best = 0 /\ c.family # "security" ->
             (CASE c.bucket = "action" -> 2
                [] c.bucket = "check" -> 1
                [] OTHER -> 0)

bucketRank(b) ==
  CASE b = "action" -> 0 [] b = "check" -> 1 [] b = "plan" -> 2 [] OTHER -> 3

MostUrgent(buckets) ==
  CHOOSE b \in buckets : \A d \in buckets : bucketRank(b) <= bucketRank(d)

briefQuote(q) ==
  IF Len(q) <= QuoteChars THEN q ELSE Append(SubSeq(q, 1, QuoteChars), Ellipsis)

-----------------------------------------------------------------------------
(* The upgrade path: what of a feed is newer than the running version.     *)

Key(tag) == NormalizeVersion(tag)

Above(tag, key) == Compare(Key(tag), key) > 0

sameBranch(a, b) ==
  Len(a) >= 2 /\ Len(b) >= 2 /\ a[1] = b[1] /\ a[2] = b[2]

(* Mutant of addressedOnRunningBranch: the running release itself does not  *)
(* count.                                                                  *)
addressedBelow(changes, current) ==
  {c.matter : c \in {d \in changes :
     /\ d.matter # NoMatter
     /\ sameBranch(Key(d.version), current)
     /\ Compare(Key(d.version), current) < 0}}

(* The matters with an occurrence at or below the running version on its   *)
(* branch.                                                                 *)
addressedOnRunningBranch(changes, current) ==
  {c.matter : c \in {d \in changes :
     /\ d.matter # NoMatter
     /\ sameBranch(Key(d.version), current)
     /\ ~Above(d.version, current)}}

(* The key of a target that is honoured, <<>> when there is none.  A       *)
(* target that is unreadable or not above the running version is ignored,  *)
(* with a note.                                                            *)
TargetHonoured(comp) ==
  /\ Key(comp.target) # <<>>
  /\ Above(comp.target, Key(comp.version))

(* Mutants of InRange: the target's own changes are left out; any target   *)
(* that can be read is one.                                                *)
InOpenRange(c, comp) ==
  TargetHonoured(comp) => Compare(Key(c.version), Key(comp.target)) < 0

InAnyRange(c, comp) ==
  Key(comp.target) # <<>> => ~Above(c.version, Key(comp.target))

InRange(c, comp) ==
  TargetHonoured(comp) => ~Above(c.version, Key(comp.target))

OffLine(comp, changes) == {c \in changes : ~SameLine(comp.version, c.version)}

OnLine(comp, changes) == changes \ OffLine(comp, changes)

Unparseable(comp, changes) == {c \in OnLine(comp, changes) : Key(c.version) = <<>>}

Parsed(comp, changes) == OnLine(comp, changes) \ Unparseable(comp, changes)

Newer(comp, changes) ==
  {c \in Parsed(comp, changes) : Above(c.version, Key(comp.version))}

Settled(comp, changes) ==
  LET held == addressedOnRunningBranch(changes, Key(comp.version))
  IN  {c \in Newer(comp, changes) : c.matter \in held}

Relevant(comp, minRank, changes) ==
  {c \in Newer(comp, changes) \ Settled(comp, changes) :
     InRange(c, comp) /\ EffSeverity(c) >= minRank}

-----------------------------------------------------------------------------
(* What the note of a report says, each sentence named by what it reports. *)

BelowCoverage(comp, changes) ==
  /\ Parsed(comp, changes) # {}
  /\ \A c \in Parsed(comp, changes) : Above(c.version, Key(comp.version))

LineMissing(comp, changes) ==
  /\ changes # {}
  /\ Line(comp.version) \notin {Line(c.version) : c \in changes}

Notes(comp, changes) ==
  {n \in {"target ignored", "unparseable", "other lines", "line missing",
          "settled", "below coverage", "inferred"} :
     CASE n = "target ignored" -> comp.target # <<>> /\ ~TargetHonoured(comp)
       [] n = "unparseable"    -> Unparseable(comp, changes) # {}
       [] n = "other lines"    -> OffLine(comp, changes) # {}
       [] n = "line missing"   -> LineMissing(comp, changes)
       [] n = "settled"        -> Settled(comp, changes) # {}
       [] n = "below coverage" -> BelowCoverage(comp, changes)
       [] n = "inferred"       -> comp.inferred}

-----------------------------------------------------------------------------
(* The brief report: one entry per matter at its earliest release.         *)

(* Mutant of Precedes: the versions are not looked at. *)
PrecedesById(c, d) == c.id < d.id

(* The order of a brief report: by version key, then by change id. *)
Precedes(c, d) ==
  \/ Compare(Key(c.version), Key(d.version)) < 0
  \/ Compare(Key(c.version), Key(d.version)) = 0 /\ c.id < d.id

(* Mutant of SameMatter: no matter is a matter like any other. *)
SameKey(c, d) == c.matter = d.matter

SameMatter(c, d) == c.matter = d.matter /\ c.matter # NoMatter

(* A change opens an entry unless an earlier one is on the same matter. *)
Heads(relevant) ==
  {c \in relevant : \A d \in relevant : SameMatter(c, d) => ~Precedes(d, c)}

MatterGroup(c, relevant) == {c} \cup {d \in relevant : SameMatter(c, d)}

(* Every release on record with the matter, the entry's own excepted. *)
occurrencesByMatter(matter, changes) ==
  {c.version : c \in {d \in changes : d.matter = matter /\ matter # NoMatter}}

(* The entry a head opens: the group decides its severity and bucket, the  *)
(* head the rest of it.                                                    *)
Entry(c, relevant, changes) ==
  LET group == MatterGroup(c, relevant) IN
  [id |-> c.id, version |-> c.version, matter |-> c.matter, family |-> c.family,
   severity |-> Worst({EffSeverity(d) : d \in group}),
   bucket |-> MostUrgent({d.bucket : d \in group}),
   cond |-> c.cond, conds |-> {},
   quote |-> briefQuote(c.quote),
   ids |-> {a.id : a \in c.advisories},
   alsoIn |-> occurrencesByMatter(c.matter, changes) \ {c.version}]

Entries(relevant, changes) ==
  {Entry(c, relevant, changes) : c \in Heads(relevant)}

(* Mutant of SharesQuote: the release is not looked at. *)
SameQuote(e, f) == e.quote # <<>> /\ e.quote = f.quote

SharesQuote(e, f) == e.quote # <<>> /\ e.quote = f.quote /\ e.version = f.version

(* Mutant of MergedEntry: applies_if_any lists the empty condition too. *)
MergedWithEmpty(e, entries) ==
  LET group == {e} \cup {f \in entries : SharesQuote(e, f)}
      conds == {f.cond : f \in group}
  IN  [e EXCEPT
         !.ids = UNION {f.ids : f \in group},
         !.alsoIn = UNION {f.alsoIn : f \in group},
         !.severity = Worst({f.severity : f \in group}),
         !.bucket = MostUrgent({f.bucket : f \in group}),
         !.cond = IF conds = {e.cond} THEN e.cond ELSE NoCondition,
         !.conds = IF conds = {e.cond} THEN {} ELSE conds]

(* Mutant of MergedEntry: the first entry keeps its bucket. *)
MergedInFirstBucket(e, entries) == [MergedWithEmpty(e, entries) EXCEPT !.bucket = e.bucket]

(* The entries that share a quote, as the first of them is left: its       *)
(* condition stands when all agree, else the non-empty ones are listed.    *)
MergedEntry(e, entries) ==
  LET group == {e} \cup {f \in entries : SharesQuote(e, f)}
      conds == {f.cond : f \in group}
  IN  [e EXCEPT
         !.ids = UNION {f.ids : f \in group},
         !.alsoIn = UNION {f.alsoIn : f \in group},
         !.severity = Worst({f.severity : f \in group}),
         !.bucket = MostUrgent({f.bucket : f \in group}),
         !.cond = IF conds = {e.cond} THEN e.cond ELSE NoCondition,
         !.conds = IF conds = {e.cond} THEN {} ELSE conds \ {NoCondition}]

mergeSharedQuotes(entries) ==
  {MergedEntry(e, entries) : e \in
     {f \in entries : \A g \in entries : SharesQuote(f, g) => ~Precedes(g, f)}}

(* The summary counts the entries before quotes are merged. *)
Summary(relevant, changes) ==
  LET entries == Entries(relevant, changes) IN
  [newChanges |-> Cardinality(relevant),
   distinctMatters |-> Cardinality(entries),
   bySeverity |-> [s \in Severities |-> Cardinality({e \in entries : e.severity = s})],
   byFamily |-> [f \in Families |-> Cardinality({e \in entries : e.family = f})],
   byBucket |-> [b \in Buckets |-> Cardinality({e \in entries : e.bucket = b})]]

(* The first n entries of a list. *)
Capped(entries, n) ==
  {e \in entries : Cardinality({f \in entries : Precedes(f, e)}) < n}

briefReport(relevant, changes) ==
  LET merged == mergeSharedQuotes(Entries(relevant, changes))
      other == {e \in merged : e.bucket \notin {"action", "check"}}
      shown == Capped(other, OtherCap)
  IN  [summary |-> Summary(relevant, changes),
       action |-> {e \in merged : e.bucket = "action"},
       check |-> {e \in merged : e.bucket = "check"},
       other |-> shown,
       omitted |-> Cardinality(other) - Cardinality(shown)]

(* The full report: the first changes of the feed as they are. *)
fullReport(relevant) ==
  LET shown == {c \in relevant :
                  Cardinality({d \in relevant : d.seq < c.seq}) < RelevantCap}
  IN  [relevant |-> shown, omitted |-> Cardinality(relevant) - Cardinality(shown)]

=============================================================================
