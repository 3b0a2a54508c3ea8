---------------------------- MODULE BriefingLaws ----------------------------
(***************************************************************************)
(* What a component's report owes the changes it was made from.  A feed    *)
(* grows change by change, so every feed of MaxChanges changes of Universe *)
(* is a state, for every component and severity_min asked about, and each  *)
(* law is an invariant of the feed reached.                                *)
(*                                                                         *)
(* Changes enter with equal seq and id: the order of ids against each      *)
(* other is arbitrary all the same, for Universe is taken in every order,  *)
(* and nothing relates an id to a seq.                                     *)
(***************************************************************************)
EXTENDS Briefing, FiniteSetsExt

CONSTANTS
  Universe,       (* what a change may be, but for its seq and id          *)
  Components,     (* the components asked about                            *)
  Ranks,          (* the ranks of severity_min asked for                   *)
  MaxChanges      (* bound: the length of a feed                           *)

(* What upstream says of a change, its place in the feed and its id aside, *)
(* and what a caller asks about.                                           *)
Stated ==
  [version : Seq(Token), matter : Matters \cup {NoMatter}, family : Families,
   bucket : Buckets, cond : Conditions \cup {NoCondition}, quote : Seq(Texts),
   advisories : SUBSET [id : Ids, sev : Severities]]

Asked == [version : Seq(Token), target : Seq(Token), inferred : BOOLEAN]

ASSUME WalkAssumption ==
  /\ Universe \subseteq Stated
  /\ Components \subseteq Asked
  /\ Ranks \subseteq Severities
  /\ MaxChanges \in Nat

VARIABLES
  changes,        (* the feed of the component's project                   *)
  comp, minRank,  (* the component and the rank asked for                  *)
  report          (* the answer: what it is about, brief, full and note    *)

vars == <<changes, comp, minRank, report>>

Answer(asked, rank, feed) ==
  LET relevant == Relevant(asked, rank, feed)
  IN  [relevant |-> relevant,
       brief |-> briefReport(relevant, feed),
       full |-> fullReport(relevant),
       notes |-> Notes(asked, feed)]

Init ==
  /\ changes = {}
  /\ comp \in Components
  /\ minRank \in Ranks
  /\ report = Answer(comp, minRank, {})

Publish(u) ==
  LET n == Cardinality(changes) + 1 IN
  /\ n <= MaxChanges
  /\ changes' = changes \cup {Numbered(u, n)}
  /\ report' = Answer(comp, minRank, changes')
  /\ UNCHANGED <<comp, minRank>>

(* The longest feeds are the end of the walk. *)
Stop == Cardinality(changes) = MaxChanges /\ UNCHANGED vars

Next == (\E u \in Universe : Publish(u)) \/ Stop

Spec == Init /\ [][Next]_vars

-----------------------------------------------------------------------------
brief == report.brief
Urgent == brief.action \cup brief.check
Listed == Urgent \cup brief.other

(* The component as it is once it runs a given release. *)
Running(tag) == [comp EXCEPT !.version = tag, !.target = <<>>]

(* What is left to see for the component, at any severity. *)
Open(c) == Relevant(c, 0, changes)

(* A matter all of whose releases are on the running line. *)
OneLine(matter) ==
  \A c \in changes : c.matter = matter => SameLine(c.version, comp.version)

ReportEntry ==
  [id : Nat, version : Seq(Token), matter : Matters \cup {NoMatter},
   family : Families, severity : Severities, bucket : Buckets,
   cond : Conditions \cup {NoCondition}, conds : SUBSET Conditions,
   quote : Seq(Texts \cup {Ellipsis}), ids : SUBSET Ids, alsoIn : SUBSET Seq(Token)]

(***************************************************************************)
(* Feeds and entries have their types, and applies_if and applies_if_any   *)
(* are never both given (briefChange, mergeSharedQuotes).                  *)
(***************************************************************************)
TypeOK ==
  /\ changes \subseteq Change
  /\ Listed \subseteq ReportEntry
  /\ \A e \in Listed : e.cond # NoCondition => e.conds = {}

(***************************************************************************)
(* No change the caller asked for can hide: it stands in an entry at its   *)
(* release or an earlier one, no less severe and no less urgent than the   *)
(* change itself, from which its own release can be read.  What needs a    *)
(* decision (action, check) is always shown; the rest may fall to the cap, *)
(* and then the cut is counted (briefReport; main.go:556, "never dropped   *)
(* silently").                                                             *)
(***************************************************************************)
Covers(e, c) ==
  /\ Compare(Key(e.version), Key(c.version)) <= 0
  /\ e.severity >= EffSeverity(c)
  /\ bucketRank(e.bucket) <= bucketRank(c.bucket)
  /\ c.version \in {e.version} \cup e.alsoIn

NeverBuried ==
  \A c \in report.relevant :
    \/ \E e \in Listed : Covers(e, c)
    \/ bucketRank(c.bucket) > 1 /\ brief.omitted > 0

(***************************************************************************)
(* A report never asks for what the install has, and following it settles  *)
(* it: no entry is on a matter fixed at or below the running version on    *)
(* its branch, and once the component runs an entry's release the matter   *)
(* is never listed again (addressedOnRunningBranch).  A key of one number  *)
(* names no branch, so the second half asks for two.                       *)
(***************************************************************************)
Holds(tag, matter) ==
  \E c \in changes :
    /\ c.matter = matter
    /\ SameLine(c.version, tag)
    /\ sameBranch(Key(c.version), Key(tag))
    /\ ~Above(c.version, Key(tag))

UpgradeSettles ==
  \A e \in Listed : e.matter # NoMatter =>
    /\ ~Holds(comp.version, e.matter)
    /\ Len(Key(e.version)) >= 2 =>
         \A c \in Open(Running(e.version)) : c.matter # e.matter

(***************************************************************************)
(* Upgrading in hops loses nothing: what the whole path shows is shown by  *)
(* the hop to a target, or by the path from the target on, or its matter   *)
(* was fixed in the hop (resolveTarget, the range (running, target]).      *)
(***************************************************************************)
HopByHop ==
  TargetHonoured(comp) /\ SameLine(comp.target, comp.version) =>
    \A c \in Open(Running(comp.version)) : OneLine(c.matter) =>
      \/ c \in Open(comp) \cup Open(Running(comp.target))
      \/ \E d \in Open(comp) : SameMatter(c, d)

(***************************************************************************)
(* Silence means what it says: a report without an entry whose note says   *)
(* nothing, or only that the target was ignored, on a feed that has        *)
(* changes, is of a component every one of whose releases on record is on  *)
(* its line, readable and at or below the version it runs.  So a target    *)
(* that is unreadable or not above that version empties no report (the     *)
(* notes of checkStackTool, resolveTarget).                                *)
(***************************************************************************)
SilenceIsEarned ==
  /\ Listed = {}
  /\ report.notes \subseteq {"target ignored"}
  /\ minRank = 0
  /\ ~TargetHonoured(comp)
  => \A c \in changes :
       /\ SameLine(c.version, comp.version)
       /\ Key(c.version) # <<>>
       /\ ~Above(c.version, Key(comp.version))

(***************************************************************************)
(* The summary and the lists tell one story, to the last entry.  Every     *)
(* matter is counted once in every distribution, under the most urgent     *)
(* bucket any of its changes has; matters that are one quote of one        *)
(* release are one entry, in the most urgent list of any of them; no list  *)
(* has an entry more or less, but for those of the last that `omitted`     *)
(* counts, and nothing is omitted while there is room.  Brief and full     *)
(* report on the same changes (briefSummary, mergeSharedQuotes,            *)
(* otherChangesCap, relevantChangesCap).                                   *)
(***************************************************************************)
Total(counts) == MapThenSumSet(LAMBDA x : counts[x], DOMAIN counts)

(* The matters of a bucket, each by the change that opens its entry. *)
Opening(b) ==
  {h \in Heads(report.relevant) :
     LET buckets == {c.bucket : c \in MatterGroup(h, report.relevant)}
     IN  b \in buckets /\ \A d \in buckets : bucketRank(b) <= bucketRank(d)}

(* What tells an entry from another: its quote at its release, or, without *)
(* a quote, its change.                                                    *)
Story(c) ==
  LET quote == briefQuote(c.quote)
  IN  [version |-> c.version, quote |-> quote, id |-> IF quote = <<>> THEN c.id ELSE 0]

Told(b) == {Story(c) : c \in Opening(b)}

SummaryAgrees ==
  LET sum == brief.summary
      decisive == Told("action") \cup Told("check")
  IN
  /\ \A b \in Buckets : sum.byBucket[b] = Cardinality(Opening(b))
  /\ \A counts \in {sum.bySeverity, sum.byFamily, sum.byBucket} :
       Total(counts) = sum.distinctMatters
  /\ Cardinality(brief.action) = Cardinality(Told("action"))
  /\ Cardinality(brief.check) = Cardinality(Told("check") \ Told("action"))
  /\ Cardinality(brief.other) + brief.omitted =
       Cardinality((Told("plan") \cup Told("note")) \ decisive)
  /\ brief.omitted > 0 => Cardinality(brief.other) = OtherCap
  /\ Cardinality(report.full.relevant) + report.full.omitted = sum.newChanges

(***************************************************************************)
(* Entries carry their evidence: what an entry says of advisories and      *)
(* conditions was said of a change of its release, and the change an entry *)
(* was opened by keeps its own, whatever it was merged with                *)
(* (mergeSharedQuotes).                                                    *)
(***************************************************************************)
Phrases(e) == (e.conds \cup {e.cond}) \ {NoCondition}

EntriesAreEvidenced ==
  /\ \A e \in Listed :
       LET at == {c \in report.relevant : c.version = e.version} IN
       /\ e.ids \subseteq {a.id : a \in UNION {c.advisories : c \in at}}
       /\ Phrases(e) \subseteq {c.cond : c \in at}
  /\ \A c \in Heads(report.relevant) : bucketRank(c.bucket) <= 1 =>
       \E e \in Urgent :
         /\ e.version = c.version
         /\ {a.id : a \in c.advisories} \subseteq e.ids
         /\ c.cond # NoCondition => c.cond \in Phrases(e)

(***************************************************************************)
(* An entry names the nearest release that closes its matter: none above   *)
(* the running version and below the entry does (briefReport, "the nearest *)
(* release that closes it is the actionable one").                         *)
(***************************************************************************)
NearestRelease ==
  minRank = 0 =>
    \A e \in Listed : \A c \in Newer(comp, changes) :
      e.matter # NoMatter /\ c.matter = e.matter => ~Above(e.version, Key(c.version))

-----------------------------------------------------------------------------
(* What the documentation says and the code does not do.                   *)

(***************************************************************************)
(* docs/tools.en.md:176, "Changes from other lines are now dropped before  *)
(* any comparison": addressedOnRunningBranch compares every change of the  *)
(* project, so a fix on another line settles a matter of this one.         *)
(***************************************************************************)
SettledOnTheLine ==
  \A c \in Settled(comp, changes) : Holds(comp.version, c.matter)

(***************************************************************************)
(* main.go:878, "Changes on the same matter_key are merged (ids listed     *)
(* together": an entry keeps the advisories of its first change only       *)
(* (briefReport).                                                          *)
(***************************************************************************)
MatterListsIds ==
  \A c \in report.relevant : \A e \in Urgent :
    c.matter # NoMatter /\ c.matter = e.matter => {a.id : a \in c.advisories} \subseteq e.ids

=============================================================================
