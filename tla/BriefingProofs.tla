-------------------------- MODULE BriefingProofs --------------------------
(***************************************************************************)
(* What the report on a component owes its feed, proved for every feed,    *)
(* component and severity_min: of the walk of BriefingLaws only that feeds *)
(* are finite, that no two changes share an id, and that the report is the *)
(* answer on the feed.                                                     *)
(***************************************************************************)
EXTENDS BriefingLaws, KeyOrder

-----------------------------------------------------------------------------
(* The order of a report. *)

(* Lists that Precedes can sort: their members have a release and an id of *)
(* their own.                                                              *)
Sortable(S) ==
  /\ IsFiniteSet(S)
  /\ \A c \in S : c.version \in Seq(Token) /\ c.id \in Nat
  /\ \A c, d \in S : c.id = d.id => c = d

(* A key is a sequence of natural numbers. *)
LEMMA KeyOfTag == \A tag \in Seq(Token) : Key(tag) \in Seq(Nat)
<1>1. 0 .. MaxInt \subseteq Nat
  BY MaxIntAssumption
<1>2. \A tag \in Seq(Token) : Key(tag) \in Seq(0 .. MaxInt)
  BY KeyIs DEF Key
<1> QED BY <1>1, <1>2, SeqMonotonic

(* Precedes is a strict order. *)
LEMMA PrecedesIsStrict ==
  ASSUME NEW S, Sortable(S), NEW c \in S, NEW d \in S
  PROVE  /\ ~Precedes(c, c)
         /\ \A e \in S : Precedes(e, d) /\ Precedes(d, c) => Precedes(e, c)
<1>1. \A e \in S : Key(e.version) \in Seq(Nat) /\ e.id \in Nat
  BY KeyOfTag DEF Sortable
<1>2. \A a, b \in Seq(Nat) : Compare(a, b) \in {-1, 0, 1} /\ (Compare(a, b) = 0 <=> a = b)
  BY CompareDecides
<1>3. ~Precedes(c, c)
  BY <1>1, <1>2 DEF Precedes
<1>4. ASSUME NEW e \in S, Precedes(e, d), Precedes(d, c) PROVE Precedes(e, c)
  <2>1. PICK ke \in Seq(Nat), kd \in Seq(Nat), kc \in Seq(Nat) :
          ke = Key(e.version) /\ kd = Key(d.version) /\ kc = Key(c.version)
    BY <1>1
  <2>2. /\ Compare(ke, kd) < 0 \/ (ke = kd /\ e.id < d.id)
        /\ Compare(kd, kc) < 0 \/ (kd = kc /\ d.id < c.id)
    BY <1>2, <1>4, <2>1 DEF Precedes
  <2>3. Compare(ke, kd) <= 0 /\ Compare(kd, kc) <= 0
    <3>1. /\ Compare(ke, kd) \in Int /\ (ke = kd => Compare(ke, kd) = 0)
          /\ Compare(kd, kc) \in Int /\ (kd = kc => Compare(kd, kc) = 0)
      BY <1>2
    <3> QED BY <2>2, <3>1
  <2>4. CASE Compare(ke, kd) < 0 \/ Compare(kd, kc) < 0
    <3>1. Compare(ke, kc) < 0
      BY <2>3, <2>4, CompareTransitive
    <3> QED BY <2>1, <3>1 DEF Precedes
  <2>5. CASE ke = kd /\ e.id < d.id /\ kd = kc /\ d.id < c.id
    <3>1. Compare(ke, kc) = 0
      BY <1>2, <2>5
    <3>2. e.id < c.id
      BY <1>1, <2>5
    <3> QED BY <2>1, <3>1, <3>2 DEF Precedes
  <2> QED BY <2>2, <2>4, <2>5
<1> QED BY <1>3, <1>4

(* What is not preceded by another release's entry is at its release or    *)
(* an earlier one.                                                         *)
LEMMA NotPreceded ==
  ASSUME NEW S, Sortable(S), NEW c \in S, NEW d \in S, ~Precedes(d, c)
  PROVE  Compare(Key(c.version), Key(d.version)) <= 0
<1>1. PICK kc \in Seq(Nat), kd \in Seq(Nat) : kc = Key(c.version) /\ kd = Key(d.version)
  BY KeyOfTag DEF Sortable
<1>2. /\ Compare(kd, kc) \in {-1, 0, 1}
      /\ Compare(kc, kd) = -Compare(kd, kc)
  BY CompareDecides
<1>3. ~(Compare(kd, kc) < 0)
  BY <1>1 DEF Precedes
<1> QED BY <1>1, <1>2, <1>3

(* Of two that are not the same, one precedes the other. *)
LEMMA PrecedesIsTotal ==
  ASSUME NEW S, Sortable(S), NEW c \in S, NEW d \in S, ~Precedes(c, d), ~Precedes(d, c)
  PROVE  c = d
<1>1. PICK kc \in Seq(Nat), kd \in Seq(Nat) : kc = Key(c.version) /\ kd = Key(d.version)
  BY KeyOfTag DEF Sortable
<1>2. /\ Compare(kd, kc) \in {-1, 0, 1}
      /\ Compare(kc, kd) = -Compare(kd, kc)
  BY CompareDecides
<1>3. ~(Compare(kc, kd) < 0) /\ ~(Compare(kd, kc) < 0)
  BY <1>1 DEF Precedes
<1>4. Compare(kc, kd) = 0 /\ Compare(kd, kc) = 0
  BY <1>2, <1>3
<1>5. ~(c.id < d.id) /\ ~(d.id < c.id)
  BY <1>1, <1>4 DEF Precedes
<1>6. c.id \in Nat /\ d.id \in Nat
  BY DEF Sortable
<1>7. c.id = d.id
  BY <1>5, <1>6
<1> QED BY <1>7 DEF Sortable

(* Of a finite set that is not empty, an element has the fewest before it; *)
(* so sorting a list puts something first.                                 *)
LEMMA FirstOf ==
  ASSUME NEW S, Sortable(S), NEW T \in SUBSET S, T # {}
  PROVE  \E c \in T : \A d \in T : ~Precedes(d, c)
<1> DEFINE Before(c) == {d \in T : Precedes(d, c)}
           Counts == {Cardinality(Before(c)) : c \in T}
<1>1. IsFiniteSet(T)
  BY FS_Subset DEF Sortable
<1>2. \A c \in T : IsFiniteSet(Before(c)) /\ Cardinality(Before(c)) \in Nat
  <2> SUFFICES ASSUME NEW c \in T
               PROVE  IsFiniteSet(Before(c)) /\ Cardinality(Before(c)) \in Nat
    OBVIOUS
  <2>1. Before(c) \in SUBSET T
    OBVIOUS
  <2> HIDE DEF Before
  <2> QED BY <1>1, <2>1, FS_Subset, FS_CardinalityType
<1>3. Counts \in SUBSET Nat /\ Counts # {}
  BY <1>2
<1>4. PICK n \in Counts : \A k \in Counts : n <= k
  <2> HIDE DEF Counts
  <2> QED BY <1>3, LeastExists
<1>5. PICK c \in T : n = Cardinality(Before(c))
  BY <1>4
<1>6. ASSUME NEW d \in T, Precedes(d, c) PROVE FALSE
  <2>1. /\ Before(d) \in SUBSET Before(c)
        /\ d \in Before(c) /\ d \notin Before(d)
    BY <1>6, PrecedesIsStrict
  <2>2. Cardinality(Before(d)) \in Counts /\ Cardinality(Before(c)) \in Nat
        /\ Cardinality(Before(d)) \in Nat /\ IsFiniteSet(Before(c))
    BY <1>2
  <2> HIDE DEF Before, Counts
  <2>3. /\ Cardinality(Before(d)) <= Cardinality(Before(c))
        /\ Cardinality(Before(c)) = Cardinality(Before(d)) => Before(c) = Before(d)
    BY <2>1, <2>2, FS_Subset
  <2>4. Cardinality(Before(d)) < Cardinality(Before(c))
    BY <2>1, <2>2, <2>3
  <2>5. Cardinality(Before(c)) <= Cardinality(Before(d))
    BY <1>4, <1>5, <2>2
  <2> QED BY <2>2, <2>4, <2>5
<1> QED BY <1>6

-----------------------------------------------------------------------------
(* The worst and the most urgent of a group. *)

(* The worst of some ranks is one of them and no less severe than any. *)
LEMMA WorstIs ==
  ASSUME NEW R \in SUBSET Severities, R # {}
  PROVE  Worst(R) \in R /\ \A r \in R : r <= Worst(R)
<1>1. R \in SUBSET Nat /\ \A r \in R : r <= 4
  BY DEF Severities
<1>2. \E r \in R : \A s \in R : s <= r
  BY <1>1, GreatestExists
<1> QED BY <1>2 DEF Worst

(* A bucket has a rank, and no two share one. *)
LEMMA RankIs ==
  \A b \in Buckets :
    /\ bucketRank(b) \in Nat
    /\ bucketRank(b) <= 1 <=> b \in {"action", "check"}
  BY DEF Buckets, bucketRank

(* The most urgent of some buckets is one of them and no less urgent than  *)
(* any.                                                                    *)
LEMMA MostUrgentIs ==
  ASSUME NEW B \in SUBSET Buckets, B # {}
  PROVE  MostUrgent(B) \in B /\ \A b \in B : bucketRank(MostUrgent(B)) <= bucketRank(b)
<1> DEFINE R == {bucketRank(b) : b \in B}
<1>1. R \in SUBSET Nat /\ R # {}
  BY RankIs
<1>2. PICK n \in R : \A k \in R : n <= k
  <2> HIDE DEF R
  <2> QED BY <1>1, LeastExists
<1>3. \E b \in B : \A d \in B : bucketRank(b) <= bucketRank(d)
  BY <1>2
<1> QED BY <1>3 DEF MostUrgent

-----------------------------------------------------------------------------
(* A feed and the entry a change of it opens. *)

(* Upstream keeps finitely many changes, each under an id of its own. *)
Feed(F) ==
  /\ F \in SUBSET Change
  /\ IsFiniteSet(F)
  /\ \A c, d \in F : c.id = d.id => c = d

(* Any part of a feed can be sorted. *)
LEMMA FeedIsSortable ==
  ASSUME NEW F, Feed(F), NEW R \in SUBSET F
  PROVE  Sortable(R)
<1>1. IsFiniteSet(R)
  BY FS_Subset DEF Feed
<1>2. \A c \in R : c.version \in Seq(Token) /\ c.id \in Nat
  BY DEF Feed, Change
<1> QED BY <1>1, <1>2 DEF Feed, Sortable

(* No severity is below info. *)
LEMMA SeveritiesStartAtZero == \A sev \in Severities : sev >= 0
BY DEF Severities

(* The severity of a change is one. *)
LEMMA EffSeverityIs == \A c \in Change : EffSeverity(c) \in Severities
<1> SUFFICES ASSUME NEW c \in Change PROVE EffSeverity(c) \in Severities
  OBVIOUS
<1> DEFINE R == {a.sev : a \in c.advisories} \cup {0}
<1>1. R \in SUBSET Severities /\ R # {}
  BY DEF Change, Severities
<1>2. PICK best \in Severities : best = Worst(R)
  <2> HIDE DEF R
  <2> QED BY <1>1, WorstIs
<1>3. EffSeverity(c) = CASE best > 0 -> best
        [] best = 0 /\ c.family = "security" -> 3
        [] best = 0 /\ c.family # "security" ->
             (CASE c.bucket = "action" -> 2
                [] c.bucket = "check" -> 1
                [] OTHER -> 0)
  BY <1>2 DEF EffSeverity
<1> QED BY <1>2, <1>3 DEF Severities

(* A quote stays one, cut or not. *)
LEMMA QuoteIs == \A q \in Seq(Texts) : briefQuote(q) \in Seq(Texts \cup {Ellipsis})
<1> SUFFICES ASSUME NEW q \in Seq(Texts) PROVE briefQuote(q) \in Seq(Texts \cup {Ellipsis})
  OBVIOUS
<1>1. q \in Seq(Texts \cup {Ellipsis}) /\ Len(q) \in Nat
  BY SeqMonotonic
<1>2. ASSUME Len(q) > QuoteChars
      PROVE  Append(SubSeq(q, 1, QuoteChars), Ellipsis) \in Seq(Texts \cup {Ellipsis})
  <2>1. QuoteChars \in Nat
    BY BriefingAssumption
  <2>2. SubSeq(q, 1, QuoteChars) \in Seq(Texts \cup {Ellipsis})
    BY <1>1, <1>2, <2>1
  <2> QED BY <2>2
<1> QED BY <1>1, <1>2, BriefingAssumption DEF briefQuote

(* What an entry says of its group, and of its head. *)
GroupSeverity(c, R) == Worst({EffSeverity(d) : d \in MatterGroup(c, R)})
GroupBucket(c, R) == MostUrgent({d.bucket : d \in MatterGroup(c, R)})
AdvisoryIds(c) == {a.id : a \in c.advisories}
Elsewhere(c, F) == occurrencesByMatter(c.matter, F) \ {c.version}

(* An entry, field by field. *)
LEMMA EntryFields ==
  \A c, R, F, e : e = Entry(c, R, F) =>
    /\ e = [id |-> c.id, version |-> c.version, matter |-> c.matter, family |-> c.family,
             severity |-> GroupSeverity(c, R), bucket |-> GroupBucket(c, R),
             cond |-> c.cond, conds |-> {}, quote |-> briefQuote(c.quote),
             ids |-> AdvisoryIds(c), alsoIn |-> Elsewhere(c, F)]
    /\ e.id = c.id /\ e.version = c.version /\ e.matter = c.matter /\ e.family = c.family
    /\ e.severity = GroupSeverity(c, R) /\ e.bucket = GroupBucket(c, R)
    /\ e.cond = c.cond /\ e.conds = {}
    /\ e.ids = AdvisoryIds(c) /\ e.alsoIn = Elsewhere(c, F)
<1> SUFFICES ASSUME NEW c, NEW R, NEW F, NEW e, e = Entry(c, R, F)
             PROVE  e = [id |-> c.id, version |-> c.version, matter |-> c.matter,
                         family |-> c.family, severity |-> GroupSeverity(c, R),
                         bucket |-> GroupBucket(c, R), cond |-> c.cond, conds |-> {},
                         quote |-> briefQuote(c.quote), ids |-> AdvisoryIds(c),
                         alsoIn |-> Elsewhere(c, F)]
  OBVIOUS
<1> QED BY Zenon DEF Entry, GroupSeverity, GroupBucket, AdvisoryIds, Elsewhere

(* An entry is as severe and as urgent as any change on its matter. *)
LEMMA EntryIsWorst ==
  ASSUME NEW R \in SUBSET Change, NEW c \in R, NEW F, NEW e, e = Entry(c, R, F)
  PROVE  /\ e.severity \in Severities /\ e.bucket \in Buckets
         /\ \A d \in MatterGroup(c, R) :
              EffSeverity(d) <= e.severity /\ bucketRank(e.bucket) <= bucketRank(d.bucket)
<1> DEFINE G == MatterGroup(c, R)
           S == {EffSeverity(d) : d \in G}
           B == {d.bucket : d \in G}
<1>1. G \in SUBSET Change /\ G # {}
  BY DEF MatterGroup
<1>2. S \in SUBSET Severities /\ S # {} /\ \A d \in G : EffSeverity(d) \in S
  BY <1>1, EffSeverityIs
<1>3. B \in SUBSET Buckets /\ B # {} /\ \A d \in G : d.bucket \in B
  BY <1>1 DEF Change
<1>4. e.severity = Worst(S) /\ e.bucket = MostUrgent(B)
  <2>1. e.severity = GroupSeverity(c, R) /\ e.bucket = GroupBucket(c, R)
    BY EntryFields
  <2>2. GroupSeverity(c, R) = Worst(S) /\ GroupBucket(c, R) = MostUrgent(B)
    BY DEF GroupSeverity, GroupBucket
  <2> HIDE DEF S, B
  <2> QED BY <2>1, <2>2
<1> HIDE DEF S, B
<1>5. Worst(S) \in S /\ \A s \in S : s <= Worst(S)
  BY <1>2, WorstIs
<1>6. MostUrgent(B) \in B /\ \A b \in B : bucketRank(MostUrgent(B)) <= bucketRank(b)
  BY <1>3, MostUrgentIs
<1> QED BY <1>2, <1>3, <1>4, <1>5, <1>6

(* An entry has its type. *)
LEMMA EntryIs ==
  ASSUME NEW R \in SUBSET Change, NEW c \in R, NEW F \in SUBSET Change
  PROVE  Entry(c, R, F) \in ReportEntry
<1>1. PICK e : e = Entry(c, R, F)
  OBVIOUS
<1>2. e.severity \in Severities /\ e.bucket \in Buckets
  BY <1>1, EntryIsWorst
<1>3. Elsewhere(c, F) \in SUBSET Seq(Token)
  BY DEF Elsewhere, occurrencesByMatter, Change
<1>4. AdvisoryIds(c) \in SUBSET Ids
  BY DEF AdvisoryIds, Change
<1>5. briefQuote(c.quote) \in Seq(Texts \cup {Ellipsis})
  BY QuoteIs DEF Change
<1>6. /\ c.id \in Nat /\ c.version \in Seq(Token) /\ c.matter \in Matters \cup {NoMatter}
      /\ c.family \in Families /\ c.cond \in Conditions \cup {NoCondition}
  BY DEF Change
<1>7. GroupSeverity(c, R) \in Severities /\ GroupBucket(c, R) \in Buckets
  BY <1>1, <1>2, EntryFields
<1>8. Entry(c, R, F) = [id |-> c.id, version |-> c.version, matter |-> c.matter,
                       family |-> c.family, severity |-> GroupSeverity(c, R),
                       bucket |-> GroupBucket(c, R), cond |-> c.cond, conds |-> {},
                       quote |-> briefQuote(c.quote), ids |-> AdvisoryIds(c),
                       alsoIn |-> Elsewhere(c, F)]
  BY EntryFields
<1> QED BY <1>3, <1>4, <1>5, <1>6, <1>7, <1>8 DEF ReportEntry

(* Every change has a head: itself, or the first change on its matter. *)
LEMMA MatterHasHead ==
  ASSUME NEW F, Feed(F), NEW R \in SUBSET F, NEW c \in R
  PROVE  \E h \in Heads(R) : c \in MatterGroup(h, R) /\ ~Precedes(c, h)
<1>1. Sortable(R)
  BY FeedIsSortable
<1>2. CASE c.matter = NoMatter
  <2>1. c \in Heads(R)
    BY <1>2 DEF Heads, SameMatter
  <2> QED BY <1>1, <2>1, PrecedesIsStrict DEF MatterGroup
<1>3. CASE c.matter # NoMatter
  <2> DEFINE T == {d \in R : d.matter = c.matter}
  <2>1. T \in SUBSET R /\ c \in T
    OBVIOUS
  <2>2. PICK h \in T : \A d \in T : ~Precedes(d, h)
    <3> HIDE DEF T
    <3> QED BY <1>1, <2>1, FirstOf
  <2>3. h \in Heads(R)
    BY <2>2 DEF Heads, SameMatter
  <2>4. c \in MatterGroup(h, R)
    BY <1>3, <2>2 DEF MatterGroup, SameMatter
  <2> QED BY <2>1, <2>2, <2>3, <2>4
<1> QED BY <1>2, <1>3

(* The entry of a head covers every change of its matter.  *)
LEMMA EntryCovers ==
  ASSUME NEW F, Feed(F), NEW R \in SUBSET F, NEW c \in R,
         NEW h \in R, c \in MatterGroup(h, R), ~Precedes(c, h)
  PROVE  Covers(Entry(h, R, F), c)
<1>1. PICK e : e = Entry(h, R, F)
  OBVIOUS
<1>2. R \in SUBSET Change
  BY DEF Feed
<1>3. EffSeverity(c) <= e.severity /\ bucketRank(e.bucket) <= bucketRank(c.bucket)
  BY <1>1, <1>2, EntryIsWorst
<1>4. EffSeverity(c) \in Int /\ e.severity \in Int
  BY <1>1, <1>2, EntryIsWorst, EffSeverityIs DEF Severities
<1>5. e.version = h.version /\ e.alsoIn = Elsewhere(h, F)
  BY <1>1, EntryFields
<1>6. Compare(Key(e.version), Key(c.version)) <= 0
  <2>1. Compare(Key(h.version), Key(c.version)) <= 0
    BY FeedIsSortable, NotPreceded
  <2> QED BY <1>5, <2>1
<1>7. c.version \in {e.version} \cup e.alsoIn
  <2>1. c = h \/ (h.matter = c.matter /\ h.matter # NoMatter /\ c \in F)
    BY DEF MatterGroup, SameMatter
  <2>2. c = h \/ c.version \in occurrencesByMatter(h.matter, F)
    BY <2>1 DEF occurrencesByMatter
  <2> QED BY <1>5, <2>2 DEF Elsewhere
<1> QED BY <1>1, <1>3, <1>4, <1>6, <1>7 DEF Covers

(* The entries of a report can be sorted, each is of a head, and each is   *)
(* an entry.                                                               *)
LEMMA EntriesAre ==
  ASSUME NEW F, Feed(F), NEW R \in SUBSET F
  PROVE  /\ Entries(R, F) \in SUBSET ReportEntry
         /\ Sortable(Entries(R, F))
<1> DEFINE E == Entries(R, F)
           f == [h \in Heads(R) |-> Entry(h, R, F)]
<1>1. R \in SUBSET Change /\ F \in SUBSET Change /\ Heads(R) \in SUBSET R
  BY DEF Feed, Heads
<1>2. E \in SUBSET ReportEntry
  BY <1>1, EntryIs DEF Entries
<1>3. IsFiniteSet(E)
  <2>1. IsFiniteSet(Heads(R))
    BY <1>1, FeedIsSortable, FS_Subset DEF Sortable
  <2>2. f \in Surjection(Heads(R), E)
    BY DEF Surjection, Entries
  <2> HIDE DEF f, E
  <2> QED BY <2>1, <2>2, FS_Surjection
<1>4. ASSUME NEW d \in E, NEW e \in E, d.id = e.id PROVE d = e
  <2>1. PICK g \in Heads(R), h \in Heads(R) : d = Entry(g, R, F) /\ e = Entry(h, R, F)
    BY <1>4 DEF Entries
  <2>2. d.id = g.id /\ e.id = h.id
    BY <2>1, EntryFields
  <2>3. g = h
    BY <1>1, <1>4, <2>2 DEF Feed
  <2> QED BY <2>1, <2>3
<1>5. \A e \in E : e.version \in Seq(Token) /\ e.id \in Nat
  BY <1>2 DEF ReportEntry
<1> QED BY <1>2, <1>3, <1>4, <1>5 DEF Sortable

-----------------------------------------------------------------------------
(* The entries that share a quote. *)

Sharing(e, E) == {e} \cup {f \in E : SharesQuote(e, f)}

(* What is left of them in the first. *)
SharedIds(e, E) == UNION {f.ids : f \in Sharing(e, E)}
SharedReleases(e, E) == UNION {f.alsoIn : f \in Sharing(e, E)}
SharedSeverity(e, E) == Worst({f.severity : f \in Sharing(e, E)})
SharedBucket(e, E) == MostUrgent({f.bucket : f \in Sharing(e, E)})
SharedConds(e, E) == {f.cond : f \in Sharing(e, E)}

(* A merged entry, field by field. *)
LEMMA MergedFields ==
  ASSUME NEW E, NEW e \in ReportEntry, NEW x, x = MergedEntry(e, E)
  PROVE  /\ x.id = e.id /\ x.version = e.version /\ x.matter = e.matter /\ x.family = e.family
         /\ x.quote = e.quote
         /\ x.severity = SharedSeverity(e, E) /\ x.bucket = SharedBucket(e, E)
         /\ x.ids = SharedIds(e, E) /\ x.alsoIn = SharedReleases(e, E)
         /\ SharedConds(e, E) = {e.cond} => x.cond = e.cond /\ x.conds = {}
         /\ SharedConds(e, E) # {e.cond} =>
              x.cond = NoCondition /\ x.conds = SharedConds(e, E) \ {NoCondition}
         /\ x = [id |-> x.id, version |-> x.version, matter |-> x.matter, family |-> x.family,
                 severity |-> x.severity, bucket |-> x.bucket, cond |-> x.cond,
                 conds |-> x.conds, quote |-> x.quote, ids |-> x.ids, alsoIn |-> x.alsoIn]
<1>1. x = [e EXCEPT
             !.ids = SharedIds(e, E),
             !.alsoIn = SharedReleases(e, E),
             !.severity = SharedSeverity(e, E),
             !.bucket = SharedBucket(e, E),
             !.cond = IF SharedConds(e, E) = {e.cond} THEN e.cond ELSE NoCondition,
             !.conds = IF SharedConds(e, E) = {e.cond} THEN {}
                       ELSE SharedConds(e, E) \ {NoCondition}]
  BY Zenon DEF MergedEntry, Sharing, SharedIds, SharedReleases, SharedSeverity, SharedBucket,
               SharedConds
<1> QED BY <1>1 DEF ReportEntry

(* A merged entry speaks for every entry that shares its quote, at their   *)
(* common release.                                                         *)
LEMMA MergedSpeaksFor ==
  ASSUME NEW E \in SUBSET ReportEntry, NEW e \in E, NEW x, x = MergedEntry(e, E)
  PROVE  /\ x.severity \in Severities /\ x.bucket \in Buckets
         /\ \A f \in Sharing(e, E) :
              /\ f.version = x.version
              /\ f.severity <= x.severity
              /\ bucketRank(x.bucket) <= bucketRank(f.bucket)
              /\ f.ids \subseteq x.ids /\ f.alsoIn \subseteq x.alsoIn
              /\ f.cond # NoCondition => f.cond \in Phrases(x)
<1> DEFINE G == Sharing(e, E)
           S == {f.severity : f \in G}
           B == {f.bucket : f \in G}
<1>1. G \in SUBSET E /\ G # {}
  BY DEF Sharing
<1>2. S \in SUBSET Severities /\ S # {} /\ \A f \in G : f.severity \in S
  BY <1>1 DEF ReportEntry
<1>3. B \in SUBSET Buckets /\ B # {} /\ \A f \in G : f.bucket \in B
  BY <1>1 DEF ReportEntry
<1>4. x.severity = Worst(S) /\ x.bucket = MostUrgent(B)
  <2>1. x.severity = SharedSeverity(e, E) /\ x.bucket = SharedBucket(e, E)
    BY MergedFields
  <2>2. SharedSeverity(e, E) = Worst(S) /\ SharedBucket(e, E) = MostUrgent(B)
    BY DEF SharedSeverity, SharedBucket
  <2> HIDE DEF S, B
  <2> QED BY <2>1, <2>2
<1> HIDE DEF S, B
<1>5. Worst(S) \in S /\ \A s \in S : s <= Worst(S)
  BY <1>2, WorstIs
<1>6. MostUrgent(B) \in B /\ \A b \in B : bucketRank(MostUrgent(B)) <= bucketRank(b)
  BY <1>3, MostUrgentIs
<1>7. ASSUME NEW f \in G
      PROVE  /\ f.version = x.version
             /\ f.ids \subseteq x.ids /\ f.alsoIn \subseteq x.alsoIn
             /\ f.cond # NoCondition => f.cond \in Phrases(x)
  <2>1. f.version = x.version
    <3>1. x.version = e.version
      BY MergedFields
    <3> QED BY <3>1 DEF Sharing, SharesQuote
  <2>2. f.ids \subseteq x.ids /\ f.alsoIn \subseteq x.alsoIn
    <3>1. x.ids = SharedIds(e, E) /\ x.alsoIn = SharedReleases(e, E)
      BY MergedFields
    <3>2. f.ids \subseteq SharedIds(e, E) /\ f.alsoIn \subseteq SharedReleases(e, E)
      BY DEF SharedIds, SharedReleases
    <3> QED BY <3>1, <3>2
  <2>3. f.cond # NoCondition => f.cond \in Phrases(x)
    <3>1. f.cond \in SharedConds(e, E)
      BY DEF SharedConds
    <3>2. CASE SharedConds(e, E) = {e.cond}
      <4>1. x.cond = e.cond
        BY <3>2, MergedFields
      <4>2. f.cond = e.cond
        BY <3>1, <3>2
      <4> QED BY <4>1, <4>2 DEF Phrases
    <3>3. CASE SharedConds(e, E) # {e.cond}
      <4>1. x.conds = SharedConds(e, E) \ {NoCondition}
        BY <3>3, MergedFields
      <4> QED BY <3>1, <4>1 DEF Phrases
    <3> QED BY <3>2, <3>3
  <2> QED BY <2>1, <2>2, <2>3
<1> QED BY <1>2, <1>3, <1>4, <1>5, <1>6, <1>7

(* A merged entry is an entry, and says one condition or several. *)
LEMMA MergedIs ==
  ASSUME NEW E \in SUBSET ReportEntry, NEW e \in E, NEW x, x = MergedEntry(e, E)
  PROVE  x \in ReportEntry /\ (e.conds = {} /\ x.cond # NoCondition => x.conds = {})
<1>1. Sharing(e, E) \in SUBSET ReportEntry
  BY DEF Sharing
<1>2. SharedConds(e, E) \in SUBSET (Conditions \cup {NoCondition})
  BY <1>1 DEF SharedConds, ReportEntry
<1>3. SharedIds(e, E) \in SUBSET Ids /\ SharedReleases(e, E) \in SUBSET Seq(Token)
  BY <1>1 DEF SharedIds, SharedReleases, ReportEntry
<1>4. x.severity \in Severities /\ x.bucket \in Buckets
  BY MergedSpeaksFor
<1>5. /\ x.id \in Nat /\ x.version \in Seq(Token) /\ x.matter \in Matters \cup {NoMatter}
      /\ x.family \in Families /\ x.quote \in Seq(Texts \cup {Ellipsis})
      /\ e.cond \in Conditions \cup {NoCondition}
  <2>1. /\ x.id = e.id /\ x.version = e.version /\ x.matter = e.matter /\ x.family = e.family
        /\ x.quote = e.quote
    BY MergedFields
  <2> QED BY <2>1 DEF ReportEntry
<1>6. x.ids \in SUBSET Ids /\ x.alsoIn \in SUBSET Seq(Token)
  BY <1>3, MergedFields
<1>7. /\ x.cond \in Conditions \cup {NoCondition} /\ x.conds \in SUBSET Conditions
      /\ x.cond # NoCondition => x.conds = {}
  <2>1. CASE SharedConds(e, E) = {e.cond}
    <3>1. x.cond = e.cond /\ x.conds = {}
      BY <2>1, MergedFields
    <3> QED BY <1>5, <3>1
  <2>2. CASE SharedConds(e, E) # {e.cond}
    <3>1. x.cond = NoCondition /\ x.conds = SharedConds(e, E) \ {NoCondition}
      BY <2>2, MergedFields
    <3> QED BY <1>2, <3>1
  <2> QED BY <2>1, <2>2
<1>8. x = [id |-> x.id, version |-> x.version, matter |-> x.matter, family |-> x.family,
           severity |-> x.severity, bucket |-> x.bucket, cond |-> x.cond,
           conds |-> x.conds, quote |-> x.quote, ids |-> x.ids, alsoIn |-> x.alsoIn]
  BY MergedFields
<1>9. x \in ReportEntry
  BY <1>4, <1>5, <1>6, <1>7, <1>8 DEF ReportEntry
<1> QED BY <1>7, <1>9

(* Every entry is merged into one. *)
LEMMA EntryIsMerged ==
  ASSUME NEW E \in SUBSET ReportEntry, Sortable(E), NEW e \in E
  PROVE  \E h \in E : e \in Sharing(h, E) /\ MergedEntry(h, E) \in mergeSharedQuotes(E)
<1>1. ASSUME NEW h \in E, \A g \in E : SharesQuote(h, g) => ~Precedes(g, h)
      PROVE  MergedEntry(h, E) \in mergeSharedQuotes(E)
  BY <1>1 DEF mergeSharedQuotes
<1>2. CASE e.quote = <<>>
  <2>1. \A g \in E : ~SharesQuote(e, g)
    BY <1>2 DEF SharesQuote
  <2> QED BY <1>1, <2>1 DEF Sharing
<1>3. CASE e.quote # <<>>
  <2> DEFINE T == {f \in E : SharesQuote(e, f)}
  <2>1. T \in SUBSET E /\ e \in T
    BY <1>3 DEF SharesQuote
  <2>2. PICK h \in T : \A f \in T : ~Precedes(f, h)
    <3> HIDE DEF T
    <3> QED BY <2>1, FirstOf
  <2>3. \A g \in E : SharesQuote(h, g) => g \in T
    BY DEF SharesQuote
  <2>4. e \in Sharing(h, E)
    BY <2>1 DEF Sharing, SharesQuote
  <2> QED BY <1>1, <2>2, <2>3, <2>4
<1> QED BY <1>2, <1>3

-----------------------------------------------------------------------------
(* The lists of a report. *)

MergedEntries(R, F) == mergeSharedQuotes(Entries(R, F))

OtherEntries(R, F) == {x \in MergedEntries(R, F) : x.bucket \notin {"action", "check"}}

(* What is listed has a head, whose release and matter it names. *)
LEMMA MergedHas ==
  ASSUME NEW F, Feed(F), NEW R \in SUBSET F, NEW x \in MergedEntries(R, F)
  PROVE  \E h \in Heads(R) :
           /\ x = MergedEntry(Entry(h, R, F), Entries(R, F))
           /\ Entry(h, R, F) \in Entries(R, F)
           /\ x.id = h.id /\ x.version = h.version /\ x.matter = h.matter
<1>1. PICK e \in Entries(R, F) : x = MergedEntry(e, Entries(R, F))
  BY DEF MergedEntries, mergeSharedQuotes
<1>2. PICK h \in Heads(R) : e = Entry(h, R, F)
  BY DEF Entries
<1>3. e \in ReportEntry
  BY EntriesAre
<1>4. x.id = e.id /\ x.version = e.version /\ x.matter = e.matter
  BY <1>1, <1>3, MergedFields
<1>5. e.id = h.id /\ e.version = h.version /\ e.matter = h.matter
  BY <1>2, EntryFields
<1> QED BY <1>1, <1>2, <1>4, <1>5

(* The merged entries are entries, in a list that can be sorted. *)
LEMMA MergedAre ==
  ASSUME NEW F, Feed(F), NEW R \in SUBSET F
  PROVE  /\ MergedEntries(R, F) \in SUBSET ReportEntry
         /\ \A x \in MergedEntries(R, F) : x.cond # NoCondition => x.conds = {}
         /\ Sortable(MergedEntries(R, F))
<1> DEFINE E == Entries(R, F)
           M == MergedEntries(R, F)
           D == {f \in E : \A g \in E : SharesQuote(f, g) => ~Precedes(g, f)}
           m == [e \in D |-> MergedEntry(e, E)]
<1>1. E \in SUBSET ReportEntry /\ Sortable(E)
  BY EntriesAre
<1>2. \A x \in M : x \in ReportEntry /\ (x.cond # NoCondition => x.conds = {})
  <2> SUFFICES ASSUME NEW x \in M
               PROVE  x \in ReportEntry /\ (x.cond # NoCondition => x.conds = {})
    OBVIOUS
  <2>1. PICK h \in Heads(R) : x = MergedEntry(Entry(h, R, F), E) /\ Entry(h, R, F) \in E
    BY MergedHas
  <2>2. PICK e \in E : e = Entry(h, R, F)
    BY <2>1
  <2>3. e.conds = {}
    BY <2>2, EntryFields
  <2>4. x = MergedEntry(e, E)
    BY <2>1, <2>2
  <2> HIDE DEF E
  <2> QED BY <1>1, <2>3, <2>4, MergedIs
<1>3. IsFiniteSet(M)
  <2>1. IsFiniteSet(D)
    BY <1>1, FS_Subset DEF Sortable
  <2>2. m \in Surjection(D, M)
    BY DEF Surjection, MergedEntries, mergeSharedQuotes
  <2> HIDE DEF m, D, M
  <2> QED BY <2>1, <2>2, FS_Surjection
<1>4. ASSUME NEW x \in M, NEW y \in M, x.id = y.id PROVE x = y
  <2>1. PICK g \in Heads(R) : x = MergedEntry(Entry(g, R, F), E) /\ x.id = g.id
    BY MergedHas
  <2>2. PICK h \in Heads(R) : y = MergedEntry(Entry(h, R, F), E) /\ y.id = h.id
    BY MergedHas
  <2>3. g = h
    BY <1>4, <2>1, <2>2 DEF Feed, Heads
  <2> QED BY <2>1, <2>2, <2>3
<1>5. \A x \in M : x.version \in Seq(Token) /\ x.id \in Nat
  BY <1>2 DEF ReportEntry
<1> QED BY <1>2, <1>3, <1>4, <1>5 DEF Sortable

(* The lists of a brief report. *)
LEMMA BriefFields ==
  ASSUME NEW F, NEW R, NEW b, b = briefReport(R, F)
  PROVE  /\ b.action = {x \in MergedEntries(R, F) : x.bucket = "action"}
         /\ b.check = {x \in MergedEntries(R, F) : x.bucket = "check"}
         /\ b.other = Capped(OtherEntries(R, F), OtherCap)
         /\ b.omitted = Cardinality(OtherEntries(R, F)) - Cardinality(Capped(OtherEntries(R, F), OtherCap))
<1>1. b = [summary |-> Summary(R, F),
           action |-> {x \in MergedEntries(R, F) : x.bucket = "action"},
           check |-> {x \in MergedEntries(R, F) : x.bucket = "check"},
           other |-> Capped(OtherEntries(R, F), OtherCap),
           omitted |-> Cardinality(OtherEntries(R, F)) - Cardinality(Capped(OtherEntries(R, F), OtherCap))]
  BY Zenon DEF briefReport, MergedEntries, OtherEntries
<1> QED BY <1>1

(* What is merged is listed, or it asks for no decision and is counted as  *)
(* omitted; and a cap leaves something of what it cuts.                    *)
LEMMA BriefLists ==
  ASSUME NEW F, Feed(F), NEW R \in SUBSET F, NEW b, b = briefReport(R, F)
  PROVE  LET listed == b.action \cup b.check \cup b.other IN
         /\ listed \in SUBSET MergedEntries(R, F)
         /\ \A x \in MergedEntries(R, F) :
              /\ x.bucket \in {"action", "check"} => x \in b.action \cup b.check
              /\ x \in listed \/ (x.bucket \notin {"action", "check"} /\ b.omitted > 0)
         /\ MergedEntries(R, F) # {} => listed # {}
<1> DEFINE M == MergedEntries(R, F)
           O == OtherEntries(R, F)
           shown == Capped(O, OtherCap)
<1>1. Sortable(M) /\ O \in SUBSET M /\ shown \in SUBSET O
  BY MergedAre DEF OtherEntries, Capped
<1>2. IsFiniteSet(O) /\ IsFiniteSet(shown) /\ Cardinality(O) \in Nat /\ Cardinality(shown) \in Nat
  BY <1>1, FS_Subset, FS_CardinalityType DEF Sortable
<1>3. /\ b.action = {x \in M : x.bucket = "action"}
      /\ b.check = {x \in M : x.bucket = "check"}
      /\ b.other = shown /\ b.omitted = Cardinality(O) - Cardinality(shown)
  BY BriefFields
<1>4. \A x \in M : x \notin O => x.bucket \in {"action", "check"}
  BY DEF OtherEntries
<1>5. \A x \in O : x.bucket \notin {"action", "check"}
  BY DEF OtherEntries
<1>6. ASSUME NEW x \in O, x \notin shown PROVE b.omitted > 0
  <2> HIDE DEF shown, O
  <2>1. Cardinality(shown) <= Cardinality(O) /\ Cardinality(shown) # Cardinality(O)
    BY <1>1, <1>2, <1>6, FS_Subset
  <2> QED BY <1>2, <1>3, <2>1
<1>7. ASSUME O # {} PROVE shown # {}
  <2>1. PICK c \in O : \A d \in O : ~Precedes(d, c)
    BY <1>1, <1>7, FirstOf
  <2>2. {f \in O : Precedes(f, c)} = {}
    BY <2>1
  <2>3. Cardinality({f \in O : Precedes(f, c)}) < OtherCap
    BY <2>2, FS_EmptySet, BriefingAssumption
  <2> QED BY <2>3 DEF Capped
<1> HIDE DEF M, O, shown
<1>8. \A x \in M : x.bucket \in {"action", "check"} => x \in b.action \cup b.check
  BY <1>3
<1> QED BY <1>1, <1>3, <1>4, <1>5, <1>6, <1>7, <1>8 DEF M

(* Every change of a report is covered by what is listed or omitted. *)
LEMMA MergedCovers ==
  ASSUME NEW F, Feed(F), NEW R \in SUBSET F, NEW c \in R
  PROVE  \E x \in MergedEntries(R, F) : Covers(x, c)
<1>1. PICK h \in Heads(R) : c \in MatterGroup(h, R) /\ ~Precedes(c, h)
  BY MatterHasHead
<1>2. PICK E : E = Entries(R, F)
  OBVIOUS
<1>3. E \in SUBSET ReportEntry /\ Sortable(E)
  BY <1>2, EntriesAre
<1>4. PICK e \in E : e = Entry(h, R, F)
  BY <1>2 DEF Entries
<1>5. Covers(e, c)
  BY <1>1, <1>4, EntryCovers DEF Heads
<1>6. PICK g \in E : e \in Sharing(g, E) /\ MergedEntry(g, E) \in mergeSharedQuotes(E)
  BY <1>3, EntryIsMerged
<1>7. PICK x : x = MergedEntry(g, E)
  OBVIOUS
<1>8. /\ e.version = x.version /\ e.severity <= x.severity /\ e.alsoIn \subseteq x.alsoIn
      /\ bucketRank(x.bucket) <= bucketRank(e.bucket)
      /\ x.severity \in Severities /\ x.bucket \in Buckets
  BY <1>3, <1>6, <1>7, MergedSpeaksFor
<1>9. /\ EffSeverity(c) \in Nat /\ e.severity \in Nat /\ x.severity \in Nat
      /\ bucketRank(x.bucket) \in Nat /\ bucketRank(e.bucket) \in Nat /\ bucketRank(c.bucket) \in Nat
  <2>1. c \in Change
    BY DEF Feed
  <2>2. e \in ReportEntry
    BY <1>3
  <2>3. EffSeverity(c) \in Severities /\ e.severity \in Severities
    BY <2>1, <2>2, EffSeverityIs DEF ReportEntry
  <2>4. e.bucket \in Buckets /\ c.bucket \in Buckets
    BY <2>1, <2>2 DEF ReportEntry, Change
  <2>5. Severities \subseteq Nat
    BY DEF Severities
  <2> QED BY <1>8, <2>3, <2>4, <2>5, RankIs
<1>10. Covers(x, c)
  <2>1. /\ Compare(Key(x.version), Key(c.version)) <= 0
        /\ c.version \in {x.version} \cup x.alsoIn
    BY <1>5, <1>8 DEF Covers
  <2>2. EffSeverity(c) <= e.severity /\ bucketRank(e.bucket) <= bucketRank(c.bucket)
    BY <1>5, <1>9 DEF Covers
  <2>3. x.severity >= EffSeverity(c) /\ bucketRank(x.bucket) <= bucketRank(c.bucket)
    BY <1>8, <1>9, <2>2
  <2> QED BY <2>1, <2>3 DEF Covers
<1> QED BY <1>2, <1>6, <1>7, <1>10 DEF MergedEntries

-----------------------------------------------------------------------------
(* What is reached. *)

(* Ids are given out in order, so a new change has one of its own. *)
FeedGrows ==
  /\ Feed(changes)
  /\ \A c \in changes : c.id <= Cardinality(changes)

QuestionIs == comp \in Asked /\ minRank \in Severities

ReportIsAnswer == report = Answer(comp, minRank, changes)

Inv == FeedGrows /\ QuestionIs /\ ReportIsAnswer

(* A stated change and a number make a change. *)
LEMMA NumberedIs ==
  ASSUME NEW u \in Stated, NEW n \in Nat
  PROVE  Numbered(u, n) \in Change /\ Numbered(u, n).id = n
<1>1. DOMAIN u = {"version", "matter", "family", "bucket", "cond", "quote", "advisories"}
  BY DEF Stated
<1>2. Numbered(u, n) =
        [seq |-> n, id |-> n, version |-> u.version, matter |-> u.matter, family |-> u.family,
         bucket |-> u.bucket, cond |-> u.cond, quote |-> u.quote, advisories |-> u.advisories]
  BY <1>1 DEF Numbered
<1>3. /\ u.version \in Seq(Token) /\ u.matter \in Matters \cup {NoMatter}
      /\ u.family \in Families /\ u.bucket \in Buckets /\ u.cond \in Conditions \cup {NoCondition}
      /\ u.quote \in Seq(Texts) /\ u.advisories \in SUBSET [id : Ids, sev : Severities]
  BY DEF Stated
<1> QED BY <1>2, <1>3 DEF Change

(* The feed of a project is as it should be, and the report is on it. *)
THEOREM FeedInvariant == Spec => []Inv
<1>1. Init => Inv
  <2> SUFFICES ASSUME Init PROVE Inv
    OBVIOUS
  <2>1. Feed(changes)
    BY FS_EmptySet DEF Init, Feed
  <2> QED BY <2>1, WalkAssumption DEF Init, Inv, FeedGrows, QuestionIs, ReportIsAnswer
<1>2. Inv /\ [Next]_vars => Inv'
  <2> SUFFICES ASSUME Inv, [Next]_vars PROVE Inv'
    OBVIOUS
  <2>1. ASSUME NEW u \in Universe, Publish(u) PROVE Inv'
    <3>1. PICK n : n = Cardinality(changes) + 1
      OBVIOUS
    <3>2. IsFiniteSet(changes) /\ n \in Nat /\ \A c \in changes : c.id \in Nat /\ c.id < n
      BY <3>1, FS_CardinalityType DEF Inv, FeedGrows, Feed, Change
    <3>3. PICK c \in Change : c = Numbered(u, n) /\ c.id = n
      BY <3>2, NumberedIs, WalkAssumption
    <3>4. changes' = changes \cup {c}
      BY <2>1, <3>1, <3>3 DEF Publish
    <3>5. c \notin changes
      BY <3>2, <3>3
    <3>6. IsFiniteSet(changes') /\ Cardinality(changes') = n
      BY <3>1, <3>2, <3>4, <3>5, FS_AddElement
    <3>7. Feed(changes')
      <4>1. changes' \in SUBSET Change
        BY <3>3, <3>4 DEF Inv, FeedGrows, Feed
      <4>2. \A d, e \in changes' : d.id = e.id => d = e
        BY <3>2, <3>3, <3>4 DEF Inv, FeedGrows, Feed
      <4> QED BY <3>6, <4>1, <4>2 DEF Feed
    <3>8. FeedGrows'
      BY <3>2, <3>3, <3>4, <3>6, <3>7 DEF FeedGrows
    <3>9. QuestionIs' /\ ReportIsAnswer'
      BY <2>1 DEF Publish, Inv, QuestionIs, ReportIsAnswer
    <3> QED BY <3>8, <3>9 DEF Inv
  <2>2. UNCHANGED vars => Inv'
    BY DEF Inv, FeedGrows, QuestionIs, ReportIsAnswer, vars
  <2> QED BY <2>1, <2>2 DEF Next, Stop
<1> QED BY <1>1, <1>2, PTL DEF Spec

-----------------------------------------------------------------------------
(* What a report is about. *)

(* The changes a report is about. *)
Found == Relevant(comp, minRank, changes)

(* What is on the upgrade path is newer, on record and asked for. *)
LEMMA RelevantIs ==
  \A asked, rank, F :
    /\ Relevant(asked, rank, F) \in SUBSET F
    /\ Newer(asked, F) \in SUBSET F
    /\ Settled(asked, F) \in SUBSET F
    /\ \A c \in Newer(asked, F) :
         /\ c \in Parsed(asked, F) /\ Above(c.version, Key(asked.version))
         /\ Key(c.version) # <<>> /\ SameLine(asked.version, c.version)
  BY DEF Relevant, Newer, Settled, Parsed, OnLine, OffLine, Unparseable

(* The parts of the answer. *)
LEMMA ReportFields ==
  ASSUME Inv
  PROVE  /\ report.relevant = Found /\ Found \in SUBSET changes
         /\ brief = briefReport(Found, changes)
         /\ report.notes = Notes(comp, changes)
         /\ Feed(changes)
<1>1. report = [relevant |-> Found, brief |-> briefReport(Found, changes),
                full |-> fullReport(Found), notes |-> Notes(comp, changes)]
  BY Zenon DEF Inv, ReportIsAnswer, Answer, Found
<1>2. Found \in SUBSET changes
  BY RelevantIs, Zenon DEF Found
<1> HIDE DEF Found
<1> QED BY <1>1, <1>2 DEF brief, Inv, FeedGrows

(* What is listed is merged, and what is merged is listed or counted.  *)
LEMMA ListedAre ==
  ASSUME Inv
  PROVE  /\ Listed \in SUBSET MergedEntries(Found, changes)
         /\ \A x \in MergedEntries(Found, changes) :
              /\ x.bucket \in {"action", "check"} => x \in Urgent
              /\ x \in Listed \/ (x.bucket \notin {"action", "check"} /\ brief.omitted > 0)
         /\ MergedEntries(Found, changes) # {} => Listed # {}
<1>1. Feed(changes) /\ Found \in SUBSET changes /\ brief = briefReport(Found, changes)
  BY ReportFields
<1> QED BY <1>1, BriefLists DEF Listed, Urgent

-----------------------------------------------------------------------------
(* The laws. *)

(***************************************************************************)
(* Feeds and entries have their types, and applies_if and applies_if_any   *)
(* are never both given (briefChange, mergeSharedQuotes).                  *)
(***************************************************************************)
THEOREM TypesHold == Spec => []TypeOK
<1>1. Inv => TypeOK
  <2> SUFFICES ASSUME Inv PROVE TypeOK
    OBVIOUS
  <2>1. Feed(changes) /\ Found \in SUBSET changes
    BY ReportFields
  <2>2. /\ MergedEntries(Found, changes) \in SUBSET ReportEntry
        /\ \A x \in MergedEntries(Found, changes) : x.cond # NoCondition => x.conds = {}
    BY <2>1, MergedAre
  <2> QED BY <2>1, <2>2, ListedAre DEF TypeOK, Feed
<1> QED BY <1>1, FeedInvariant, PTL

(***************************************************************************)
(* No change the caller asked for can hide, in a feed of any length under  *)
(* any caps: a listed entry covers it, or it asks for no decision and the  *)
(* cut is counted (briefReport).                                           *)
(***************************************************************************)
THEOREM NothingIsBuried == Spec => []NeverBuried
<1>1. Inv => NeverBuried
  <2> SUFFICES ASSUME Inv, NEW c \in report.relevant
               PROVE  \/ \E e \in Listed : Covers(e, c)
                      \/ bucketRank(c.bucket) > 1 /\ brief.omitted > 0
    BY DEF NeverBuried
  <2>1. c \in Found /\ Found \in SUBSET changes /\ Feed(changes)
    BY ReportFields
  <2>2. PICK x \in MergedEntries(Found, changes) : Covers(x, c)
    BY <2>1, MergedCovers
  <2>3. x.bucket \in Buckets /\ c.bucket \in Buckets
    BY <2>1, MergedAre DEF ReportEntry, Feed, Change
  <2>4. bucketRank(x.bucket) <= bucketRank(c.bucket)
    BY <2>2 DEF Covers
  <2>5. bucketRank(c.bucket) <= 1 => x.bucket \in {"action", "check"}
    BY <2>3, <2>4, RankIs
  <2>6. bucketRank(c.bucket) \in Nat
    BY <2>3, RankIs
  <2> QED BY <2>2, <2>5, <2>6, ListedAre
<1> QED BY <1>1, FeedInvariant, PTL

(* The sentences of the note that silence leaves out. *)
LEMMA NotesSay ==
  ASSUME NEW asked, NEW F, Notes(asked, F) \subseteq {"target ignored"}
  PROVE  Unparseable(asked, F) = {} /\ OffLine(asked, F) = {} /\ Settled(asked, F) = {}
<1>1. Unparseable(asked, F) # {} => "unparseable" \in Notes(asked, F)
  BY DEF Notes
<1>2. OffLine(asked, F) # {} => "other lines" \in Notes(asked, F)
  BY DEF Notes
<1>3. Settled(asked, F) # {} => "settled" \in Notes(asked, F)
  BY DEF Notes
<1> QED BY <1>1, <1>2, <1>3

(***************************************************************************)
(* A report without an entry and a note, but for the one on an ignored     *)
(* target, means that nothing on record is newer than what runs, or        *)
(* unreadable, or on another line (checkStackTool).                        *)
(***************************************************************************)
THEOREM SilenceIsEarnedHolds == Spec => []SilenceIsEarned
<1>1. Inv => SilenceIsEarned
  <2> SUFFICES ASSUME Inv, Listed = {}, report.notes \subseteq {"target ignored"}, minRank = 0,
                      ~TargetHonoured(comp), NEW c \in changes
               PROVE  /\ SameLine(c.version, comp.version)
                      /\ Key(c.version) # <<>>
                      /\ ~Above(c.version, Key(comp.version))
    BY DEF SilenceIsEarned
  <2>1. Found = {}
    BY ReportFields, ListedAre, MergedCovers
  <2>2. /\ Unparseable(comp, changes) = {} /\ OffLine(comp, changes) = {}
        /\ Settled(comp, changes) = {}
    BY ReportFields, NotesSay
  <2>3. c \in Parsed(comp, changes)
    BY <2>2 DEF Parsed, OnLine
  <2>4. Key(c.version) # <<>> /\ SameLine(comp.version, c.version)
    BY <2>2, <2>3 DEF Parsed, Unparseable, OnLine, OffLine
  <2>5. ASSUME Above(c.version, Key(comp.version)) PROVE FALSE
    <3>1. c \in Newer(comp, changes) \ Settled(comp, changes)
      BY <2>2, <2>3, <2>5 DEF Newer
    <3>2. EffSeverity(c) >= minRank
      <4>1. c \in Change
        BY <2>2, ReportFields DEF Feed
      <4>2. PICK sev \in Severities : sev = EffSeverity(c)
        BY Zenon, <4>1, EffSeverityIs
      <4>3. sev >= 0
        BY Zenon, SeveritiesStartAtZero
      <4> QED BY <4>2, <4>3
    <3>3. InRange(c, comp)
      BY DEF InRange
    <3> QED BY <2>1, <3>1, <3>2, <3>3 DEF Found, Relevant
  <2> QED BY <2>4, <2>5 DEF SameLine
<1> QED BY <1>1, FeedInvariant, PTL

(***************************************************************************)
(* No entry is on a matter the running version has, and an install that    *)
(* follows an entry is never asked for its matter again                    *)
(* (addressedOnRunningBranch).                                             *)
(***************************************************************************)
THEOREM FollowingSettles == Spec => []UpgradeSettles
<1>1. Inv => UpgradeSettles
  <2> SUFFICES ASSUME Inv, NEW e \in Listed, e.matter # NoMatter
               PROVE  /\ ~Holds(comp.version, e.matter)
                      /\ Len(Key(e.version)) >= 2 =>
                           \A c \in Open(Running(e.version)) : c.matter # e.matter
    BY DEF UpgradeSettles
  <2>1. PICK h \in Heads(Found) : e.version = h.version /\ e.matter = h.matter
    BY ReportFields, ListedAre, MergedHas
  <2>2. h \in changes /\ h \in Newer(comp, changes) /\ h \notin Settled(comp, changes)
    BY ReportFields DEF Heads, Found, Relevant
  <2>3. ~Holds(comp.version, e.matter)
    <3> SUFFICES ASSUME Holds(comp.version, e.matter) PROVE FALSE
      OBVIOUS
    <3>1. e.matter \in addressedOnRunningBranch(changes, Key(comp.version))
      BY DEF Holds, addressedOnRunningBranch
    <3> QED BY <2>1, <2>2, <3>1 DEF Settled
  <2>4. ASSUME Len(Key(e.version)) >= 2, NEW c \in Open(Running(e.version)), c.matter = e.matter
        PROVE  FALSE
    <3>1. PICK at : at = Running(e.version)
      OBVIOUS
    <3>2. at.version = e.version
      BY <3>1 DEF Running, Inv, QuestionIs, Asked
    <3>3. c \in Newer(at, changes) /\ c \notin Settled(at, changes)
      BY <2>4, <3>1 DEF Open, Relevant
    <3>4. PICK key \in Seq(Nat) : key = Key(e.version)
      BY <2>1, <2>2, ReportFields, KeyOfTag DEF Feed, Change
    <3>5. Compare(key, key) = 0
      BY CompareDecides
    <3>6. sameBranch(Key(h.version), key) /\ ~Above(h.version, key)
      BY <2>1, <2>4, <3>4, <3>5 DEF sameBranch, Above
    <3>7. h.matter \in addressedOnRunningBranch(changes, key)
      BY <2>1, <2>2, <3>6 DEF addressedOnRunningBranch
    <3> QED BY <2>1, <2>4, <3>2, <3>3, <3>4, <3>7 DEF Settled
  <2> QED BY <2>3, <2>4
<1> QED BY <1>1, FeedInvariant, PTL

(***************************************************************************)
(* An entry names the nearest release above the running version that       *)
(* closes its matter (briefReport).                                        *)
(***************************************************************************)
THEOREM NearestIsNamed == Spec => []NearestRelease
<1>1. Inv => NearestRelease
  <2> SUFFICES ASSUME Inv, minRank = 0, NEW e \in Listed, NEW c \in Newer(comp, changes),
                      e.matter # NoMatter, c.matter = e.matter
               PROVE  ~Above(e.version, Key(c.version))
    BY DEF NearestRelease
  <2>1. PICK h \in Heads(Found) : e.version = h.version /\ e.matter = h.matter
    BY ReportFields, ListedAre, MergedHas
  <2>2. h \in Newer(comp, changes) /\ h \notin Settled(comp, changes) /\ InRange(h, comp)
        /\ h \in Found /\ h \in changes
    BY ReportFields DEF Heads, Found, Relevant
  <2>3. c \in changes /\ c \in Newer(comp, changes) \ Settled(comp, changes)
    BY <2>1, <2>2, RelevantIs DEF Settled
  <2>4. PICK kh \in Seq(Nat), kc \in Seq(Nat) : kh = Key(h.version) /\ kc = Key(c.version)
    BY <2>2, <2>3, ReportFields, KeyOfTag DEF Feed, Change
  <2>5. Compare(kh, kc) \in Int
    BY CompareDecides
  <2>6. CASE InRange(c, comp)
    <3>1. EffSeverity(c) >= minRank
      BY <2>3, ReportFields, EffSeverityIs DEF Feed, Severities
    <3>2. c \in Found
      BY <2>3, <2>6, <3>1 DEF Found, Relevant
    <3>3. ~Precedes(c, h)
      BY <2>1, <3>2 DEF Heads, SameMatter
    <3>4. Compare(kh, kc) <= 0
      BY <2>2, <2>4, <3>2, <3>3, ReportFields, FeedIsSortable, NotPreceded
    <3> QED BY <2>1, <2>4, <2>5, <3>4 DEF Above
  <2>7. CASE ~InRange(c, comp)
    <3>1. PICK kt \in Seq(Nat) : kt = Key(comp.target)
      BY KeyOfTag DEF Inv, QuestionIs, Asked
    <3>2. TargetHonoured(comp) /\ Compare(kc, kt) > 0
      BY <2>4, <2>7, <3>1 DEF InRange, Above
    <3>3. ~(Compare(kh, kt) > 0)
      BY <2>2, <2>4, <3>1, <3>2 DEF InRange, Above
    <3>4. Compare(kh, kt) <= 0 /\ Compare(kt, kc) < 0
      <4>1. /\ Compare(kh, kt) \in Int /\ Compare(kc, kt) \in Int
            /\ Compare(kt, kc) = -Compare(kc, kt)
        BY CompareDecides
      <4> QED BY <3>2, <3>3, <4>1
    <3>5. Compare(kt, kc) <= 0
      <4>1. Compare(kt, kc) \in Int
        BY CompareDecides
      <4> QED BY <3>4, <4>1
    <3>6. Compare(kh, kc) <= 0
      BY <3>4, <3>5, CompareTransitive
    <3> QED BY <2>1, <2>4, <2>5, <3>6 DEF Above
  <2> QED BY <2>6, <2>7
<1> QED BY <1>1, FeedInvariant, PTL

(* A merged entry says no more than the entries it was made of. *)
LEMMA MergedSaysNoMore ==
  ASSUME NEW E \in SUBSET ReportEntry, NEW e \in E, NEW x, x = MergedEntry(e, E)
  PROVE  x.ids = SharedIds(e, E) /\ Phrases(x) \subseteq SharedConds(e, E)
<1>1. x.ids = SharedIds(e, E)
  BY MergedFields
<1>2. CASE SharedConds(e, E) = {e.cond}
  <2>1. x.cond = e.cond /\ x.conds = {}
    BY <1>2, MergedFields
  <2> QED BY <1>1, <1>2, <2>1 DEF Phrases
<1>3. CASE SharedConds(e, E) # {e.cond}
  <2>1. x.cond = NoCondition /\ x.conds = SharedConds(e, E) \ {NoCondition}
    BY <1>3, MergedFields
  <2> QED BY <1>1, <2>1 DEF Phrases
<1> QED BY <1>2, <1>3

(***************************************************************************)
(* What an entry says of advisories and conditions was said of a change of *)
(* its release, and the change an entry was opened by keeps its own        *)
(* (mergeSharedQuotes).                                                    *)
(***************************************************************************)
THEOREM EvidenceIsKept == Spec => []EntriesAreEvidenced
<1>1. Inv => EntriesAreEvidenced
  <2> SUFFICES ASSUME Inv PROVE EntriesAreEvidenced
    OBVIOUS
  <2>1. /\ Feed(changes) /\ Found \in SUBSET changes /\ report.relevant = Found
        /\ Found \in SUBSET Change
    BY ReportFields DEF Feed
  <2>2. PICK E : E = Entries(Found, changes)
    OBVIOUS
  <2>3. E \in SUBSET ReportEntry /\ Sortable(E)
    BY <2>1, <2>2, EntriesAre
  <2>4. ASSUME NEW x \in Listed
        PROVE  LET at == {c \in report.relevant : c.version = x.version} IN
               /\ x.ids \subseteq {a.id : a \in UNION {c.advisories : c \in at}}
               /\ Phrases(x) \subseteq {c.cond : c \in at}
    <3> DEFINE at == {c \in report.relevant : c.version = x.version}
    <3>1. PICK e \in E : x = MergedEntry(e, E)
      BY <2>1, <2>2, ListedAre, MergedHas
    <3>2. ASSUME NEW f \in Sharing(e, E)
          PROVE  \E c \in at : f.ids = AdvisoryIds(c) /\ f.cond = c.cond
      <4>1. f \in E /\ f.version = x.version
        <5>1. f \in E
          BY <3>1, <3>2 DEF Sharing
        <5>2. f.version = x.version
          BY <2>3, <3>1, <3>2, MergedSpeaksFor
        <5> QED BY <5>1, <5>2
      <4>2. PICK c \in Heads(Found) : f = Entry(c, Found, changes)
        BY <2>2, <4>1 DEF Entries
      <4>3. f.version = c.version /\ f.ids = AdvisoryIds(c) /\ f.cond = c.cond
        BY <4>2, EntryFields
      <4> QED BY <2>1, <4>1, <4>3 DEF Heads
    <3>3. x.ids = SharedIds(e, E) /\ Phrases(x) \subseteq SharedConds(e, E)
      BY <2>3, <3>1, MergedSaysNoMore
    <3>4. SharedIds(e, E) \subseteq {a.id : a \in UNION {c.advisories : c \in at}}
      <4> HIDE DEF at
      <4> QED BY <3>2 DEF SharedIds, AdvisoryIds
    <3>5. SharedConds(e, E) \subseteq {c.cond : c \in at}
      <4> HIDE DEF at
      <4> QED BY <3>2 DEF SharedConds
    <3> QED BY <3>3, <3>4, <3>5
  <2>5. ASSUME NEW c \in Heads(report.relevant), bucketRank(c.bucket) <= 1
        PROVE  \E x \in Urgent :
                 /\ x.version = c.version
                 /\ {a.id : a \in c.advisories} \subseteq x.ids
                 /\ c.cond # NoCondition => c.cond \in Phrases(x)
    <3>1. c \in Heads(Found) /\ c \in Found /\ c \in MatterGroup(c, Found)
      BY <2>1, <2>5 DEF Heads, MatterGroup
    <3>2. PICK e \in E : e = Entry(c, Found, changes)
      BY <2>2, <3>1 DEF Entries
    <3>3. /\ e.version = c.version /\ e.ids = AdvisoryIds(c) /\ e.cond = c.cond
          /\ bucketRank(e.bucket) <= bucketRank(c.bucket)
      BY <2>1, <3>1, <3>2, EntryFields, EntryIsWorst
    <3>4. PICK g \in E : e \in Sharing(g, E) /\ MergedEntry(g, E) \in mergeSharedQuotes(E)
      BY <2>3, EntryIsMerged
    <3>5. PICK x : x = MergedEntry(g, E)
      OBVIOUS
    <3>6. /\ x.bucket \in Buckets /\ e.version = x.version /\ e.ids \subseteq x.ids
          /\ bucketRank(x.bucket) <= bucketRank(e.bucket)
          /\ e.cond # NoCondition => e.cond \in Phrases(x)
      BY <2>3, <3>4, <3>5, MergedSpeaksFor
    <3>7. e.bucket \in Buckets /\ c.bucket \in Buckets
      BY <2>1, <2>3, <3>1 DEF ReportEntry, Change
    <3>8. bucketRank(x.bucket) <= 1
      BY <2>5, <3>3, <3>6, <3>7, RankIs
    <3>9. x \in Urgent
      BY <2>2, <3>4, <3>5, <3>6, <3>8, ListedAre, RankIs DEF MergedEntries
    <3> QED BY <3>3, <3>6, <3>9 DEF AdvisoryIds
  <2> QED BY <2>4, <2>5 DEF EntriesAreEvidenced
<1> QED BY <1>1, FeedInvariant, PTL

(* A branch is an interval of the order: what lies between two of its keys *)
(* is on it.                                                               *)
LEMMA BranchBetween ==
  ASSUME NEW a \in Seq(Nat), NEW b \in Seq(Nat), NEW c \in Seq(Nat), sameBranch(a, c),
         Compare(a, b) <= 0, Compare(b, c) <= 0
  PROVE  sameBranch(a, b)
<1>1. /\ Len(a) \in Nat /\ Len(b) \in Nat /\ Len(c) \in Nat
      /\ \A i \in 1 .. Len(a) : a[i] \in Nat
      /\ \A i \in 1 .. Len(b) : b[i] \in Nat
      /\ \A i \in 1 .. Len(c) : c[i] \in Nat
  OBVIOUS
<1>2. Len(a) >= 2 /\ Len(c) >= 2 /\ a[1] = c[1] /\ a[2] = c[2]
  BY DEF sameBranch
<1>3. \A x, y \in Seq(Nat) : Compare(x, y) <= 0 <=> Less(x, y) \/ x = y
  BY CompareDecides
<1>4. (Less(a, b) \/ a = b) /\ (Less(b, c) \/ b = c)
  BY <1>3
<1>5. CASE a = b \/ b = c
  BY <1>2, <1>5 DEF sameBranch
<1>6. CASE Less(a, b) /\ Less(b, c)
  <2>1. CASE Len(a) < Len(b) /\ \A i \in 1 .. Len(a) : a[i] = b[i]
    BY <1>1, <1>2, <2>1 DEF sameBranch
  <2>2. CASE \E i \in 1 .. Len(a) :
               i <= Len(b) /\ a[i] < b[i] /\ \A j \in 1 .. i - 1 : a[j] = b[j]
    <3>1. PICK i \in 1 .. Len(a) :
            i <= Len(b) /\ a[i] < b[i] /\ \A j \in 1 .. i - 1 : a[j] = b[j]
      BY <2>2
    <3>2. CASE i > 2
      <4>1. Len(b) >= 2 /\ 1 \in 1 .. i - 1 /\ 2 \in 1 .. i - 1
        BY <1>1, <3>1, <3>2
      <4> QED BY <1>2, <3>1, <4>1 DEF sameBranch
    <3>3. CASE i \in {1, 2}
      <4>1. i \in 1 .. Len(b) /\ i \in 1 .. Len(c) /\ a[i] = c[i]
            /\ \A j \in 1 .. i - 1 : b[j] = c[j]
        <5>1. i \in 1 .. Len(b) /\ i \in 1 .. Len(c)
          BY <1>1, <1>2, <3>1, <3>3
        <5>2. a[i] = c[i]
          BY <1>2, <3>3
        <5>3. \A j \in 1 .. i - 1 : j = 1
          BY <3>3
        <5>4. \A j \in 1 .. i - 1 : b[j] = c[j]
          BY <1>2, <3>1, <5>3
        <5> QED BY <5>1, <5>2, <5>4
      <4>2. c[i] < b[i] /\ c[i] \in Nat /\ b[i] \in Nat
        BY <1>1, <3>1, <4>1
      <4>3. CASE Len(b) < Len(c) /\ \A j \in 1 .. Len(b) : b[j] = c[j]
        BY <4>1, <4>2, <4>3
      <4>4. CASE \E k \in 1 .. Len(b) :
                   k <= Len(c) /\ b[k] < c[k] /\ \A j \in 1 .. k - 1 : b[j] = c[j]
        <5>1. PICK k \in 1 .. Len(b) :
                k <= Len(c) /\ b[k] < c[k] /\ \A j \in 1 .. k - 1 : b[j] = c[j]
          BY <4>4
        <5>2. k \in Nat /\ b[k] \in Nat /\ c[k] \in Nat
          BY <1>1, <5>1
        <5>3. k < i => b[k] = c[k]
          BY <4>1, <5>1, <5>2
        <5>4. k > i => b[i] = c[i]
          BY <4>1, <5>1, <5>2
        <5>5. b[k] # c[k] /\ b[i] # c[i]
          <6>1. \A x, y \in Nat : x < y => x # y
            OBVIOUS
          <6>2. b[k] # c[k]
            BY <5>1, <5>2, <6>1
          <6>3. c[i] # b[i]
            BY <4>2, <6>1
          <6> QED BY <6>2, <6>3
        <5>6. i = k
          BY <3>1, <5>2, <5>3, <5>4, <5>5
        <5> QED BY <4>2, <5>1, <5>2, <5>6
      <4> QED BY <1>6, <4>3, <4>4, LessMeans
    <3> QED BY <1>1, <3>1, <3>2, <3>3
  <2> QED BY <1>6, <2>1, <2>2, LessMeans
<1> QED BY <1>4, <1>5, <1>6

(* The empty text has no key, so it is no target. *)
LEMMA KeyOfNothing == Key(<<>>) = <<>>
<1>1. <<>> \in Seq(Token) /\ Len(<<>>) = 0
  OBVIOUS
<1>2. PICK s \in Seq(Token) : s = <<>>
  BY <1>1
<1>3. PICK rest \in Seq(Token) : rest = SplitLine(s).rest /\ rest = From(s, SplitAt(s) + 1)
  BY RestIs
<1>4. Len(rest) = 0
  <2>1. SplitAt(s) = 0
    <3>1. SplitAt(s) \in 0 .. Len(s) /\ Len(s) = 0
      BY <1>1, <1>2, SplitAtIs
    <3> QED BY <3>1
  <2>2. 1 \in 1 .. Len(s) + 1 /\ rest = From(s, 1)
    BY <1>1, <1>2, <1>3, <2>1
  <2>3. Len(From(s, 1)) = Len(s) - 1 + 1
    BY <2>2, FromIs
  <2> QED BY <1>1, <1>2, <2>2, <2>3
<1>5. WithoutV(rest) = rest
  BY <1>4 DEF WithoutV
<1>6. RunLength(rest) = 0
  <2>1. RunLength(rest) \in Nat /\ 2 * RunLength(rest) <= Len(rest) + 1
    BY RunLengthIs
  <2> QED BY <1>4, <2>1
<1>7. Key(s) = [i \in 1 .. 0 |-> rest[2 * i - 1].n]
  BY <1>3, <1>5, <1>6 DEF Key, NormalizeVersion
<1>8. [i \in 1 .. 0 |-> rest[2 * i - 1].n] = <<>>
  OBVIOUS
<1> QED BY <1>2, <1>7, <1>8

(* What is on a path, settled, and open. *)
LEMMA PathIs ==
  \A asked, F, c :
    /\ c \in Newer(asked, F) <=>
         /\ c \in F /\ SameLine(asked.version, c.version)
         /\ Key(c.version) # <<>> /\ Above(c.version, Key(asked.version))
    /\ c \in Settled(asked, F) <=>
         c \in Newer(asked, F) /\ c.matter \in addressedOnRunningBranch(F, Key(asked.version))
  BY DEF Newer, Settled, Parsed, OnLine, OffLine, Unparseable

(* What is open for a component is what its path has and nothing settles.  *)
LEMMA OpenIs ==
  ASSUME Inv, NEW asked, NEW c
  PROVE  c \in Open(asked) <=>
           c \in Newer(asked, changes) /\ c \notin Settled(asked, changes) /\ InRange(c, asked)
<1>1. c \in Newer(asked, changes) => EffSeverity(c) >= 0
  <2> SUFFICES ASSUME c \in Newer(asked, changes) PROVE EffSeverity(c) >= 0
    OBVIOUS
  <2>1. c \in Change
    BY PathIs, ReportFields DEF Feed
  <2> QED BY <2>1, EffSeverityIs DEF Severities
<1> QED BY <1>1 DEF Open, Relevant

(***************************************************************************)
(* Upgrading in hops loses nothing: what the whole path shows, the hop to  *)
(* the target shows, or the path on from it, or the hop fixed its matter   *)
(* (resolveTarget, addressedOnRunningBranch).                              *)
(***************************************************************************)
THEOREM HopsLoseNothing == Spec => []HopByHop
<1>1. Inv => HopByHop
  <2> SUFFICES ASSUME Inv, TargetHonoured(comp), SameLine(comp.target, comp.version),
                      NEW c \in Open(Running(comp.version)), OneLine(c.matter)
               PROVE  \/ c \in Open(comp) \cup Open(Running(comp.target))
                      \/ \E d \in Open(comp) : SameMatter(c, d)
    BY DEF HopByHop
  <2>1. PICK whole, rest : whole = Running(comp.version) /\ rest = Running(comp.target)
    OBVIOUS
  <2>2. whole.version = comp.version /\ rest.version = comp.target /\ rest.target = <<>>
    BY <2>1 DEF Running, Inv, QuestionIs, Asked
  <2>3. PICK here \in Seq(Nat), there \in Seq(Nat) :
          here = Key(comp.version) /\ there = Key(comp.target)
    BY KeyOfTag DEF Inv, QuestionIs, Asked
  <2>4. /\ c \in changes /\ SameLine(comp.version, c.version) /\ Key(c.version) # <<>>
        /\ Above(c.version, here)
        /\ c.matter \notin addressedOnRunningBranch(changes, here)
    BY <2>1, <2>2, <2>3, PathIs, OpenIs
  <2>5. \A d \in changes :
          /\ SameLine(comp.version, d.version) /\ Key(d.version) # <<>> /\ Above(d.version, here)
          /\ d.matter = c.matter /\ InRange(d, comp)
          => d \in Open(comp)
    BY <2>3, <2>4, PathIs, OpenIs
  <2>6. CASE InRange(c, comp)
    BY <2>4, <2>5, <2>6
  <2>7. CASE ~InRange(c, comp)
    <3>1. Above(c.version, there)
      BY <2>3, <2>7 DEF InRange
    <3>2. SameLine(comp.target, c.version)
      BY <2>4 DEF SameLine
    <3>3. CASE c.matter \notin addressedOnRunningBranch(changes, there)
      <4>1. InRange(c, rest)
        BY <2>2, KeyOfNothing DEF InRange, TargetHonoured
      <4>2. c \in Open(rest)
        BY <2>2, <2>3, <2>4, <3>1, <3>2, <3>3, <4>1, PathIs, OpenIs
      <4> QED BY <2>1, <4>2
    <3>4. CASE c.matter \in addressedOnRunningBranch(changes, there)
      <4>1. PICK d \in changes :
              /\ d.matter # NoMatter /\ d.matter = c.matter
              /\ sameBranch(Key(d.version), there) /\ ~Above(d.version, there)
        BY <3>4 DEF addressedOnRunningBranch
      <4>2. PICK kd \in Seq(Nat) : kd = Key(d.version)
        BY KeyOfTag, ReportFields DEF Feed, Change
      <4>3. SameLine(comp.version, d.version)
        BY <4>1 DEF OneLine, SameLine
      <4>4. kd # <<>>
        BY <4>1, <4>2 DEF sameBranch
      <4>5. CASE Above(d.version, here)
        <5>1. InRange(d, comp)
          BY <2>3, <4>1 DEF InRange
        <5> QED BY <2>5, <4>1, <4>2, <4>3, <4>4, <4>5, <5>1 DEF SameMatter
      <4>6. CASE ~Above(d.version, here)
        <5>1. ~(Compare(kd, here) > 0) /\ Compare(there, here) > 0
          BY <2>3, <4>2, <4>6 DEF Above, TargetHonoured
        <5>2. Compare(kd, here) <= 0 /\ Compare(here, there) <= 0
          <6>1. /\ Compare(kd, here) \in Int /\ Compare(there, here) \in Int
                /\ Compare(here, there) = -Compare(there, here)
            BY CompareDecides
          <6> QED BY <5>1, <6>1
        <5>3. sameBranch(kd, here)
          BY <4>1, <4>2, <5>2, BranchBetween
        <5>4. d.matter \in addressedOnRunningBranch(changes, here)
          BY <4>1, <4>2, <4>6, <5>3 DEF addressedOnRunningBranch
        <5> QED BY <2>4, <4>1, <5>4
      <4> QED BY <4>5, <4>6
    <3> QED BY <3>3, <3>4
  <2> QED BY <2>6, <2>7
<1> QED BY <1>1, FeedInvariant, PTL

-----------------------------------------------------------------------------
(* The summary of a report. *)

(* How many entries a summary counts under each value of a field. *)
Counts(w, E, D) == [d \in D |-> Cardinality({e \in E : w[e] = d})]

BySeverity(E) == [s \in Severities |-> Cardinality({e \in E : e.severity = s})]
ByFamily(E) == [f \in Families |-> Cardinality({e \in E : e.family = f})]
ByBucket(E) == [b \in Buckets |-> Cardinality({e \in E : e.bucket = b})]

(* The fields of a summary and of a full report. *)
LEMMA SummaryFields ==
  ASSUME NEW R, NEW F
  PROVE  /\ briefReport(R, F).summary.newChanges = Cardinality(R)
         /\ briefReport(R, F).summary.distinctMatters = Cardinality(Entries(R, F))
         /\ briefReport(R, F).summary.bySeverity = BySeverity(Entries(R, F))
         /\ briefReport(R, F).summary.byFamily = ByFamily(Entries(R, F))
         /\ briefReport(R, F).summary.byBucket = ByBucket(Entries(R, F))
<1>1. briefReport(R, F).summary = Summary(R, F)
  BY DEF briefReport
<1>2. Summary(R, F) =
        [newChanges |-> Cardinality(R), distinctMatters |-> Cardinality(Entries(R, F)),
         bySeverity |-> BySeverity(Entries(R, F)), byFamily |-> ByFamily(Entries(R, F)),
         byBucket |-> ByBucket(Entries(R, F))]
  BY Zenon DEF Summary, BySeverity, ByFamily, ByBucket
<1> QED BY <1>1, <1>2

(* The counts of a distribution add up to the entries. *)
LEMMA CountsAddUp ==
  ASSUME NEW E, IsFiniteSet(E), NEW D, IsFiniteSet(D), NEW w \in [E -> D]
  PROVE  Total(Counts(w, E, D)) = Cardinality(E)
<1>1. MapThenSumSet(LAMBDA x : [d \in D |-> Cardinality({e \in E : w[e] = d})][x], D)
        = Cardinality(E)
  BY PartsAddUp
<1>2. DOMAIN Counts(w, E, D) = D
  BY DEF Counts
<1> QED BY <1>1, <1>2, Zenon DEF Total, Counts

(* Every entry has one severity, one family and one bucket. *)
LEMMA DistributionsAddUp ==
  ASSUME NEW E \in SUBSET ReportEntry, IsFiniteSet(E)
  PROVE  /\ Total(BySeverity(E)) = Cardinality(E)
         /\ Total(ByFamily(E)) = Cardinality(E)
         /\ Total(ByBucket(E)) = Cardinality(E)
<1> DEFINE s == [e \in E |-> e.severity]
           f == [e \in E |-> e.family]
           b == [e \in E |-> e.bucket]
<1>1. s \in [E -> Severities] /\ f \in [E -> Families] /\ b \in [E -> Buckets]
  BY DEF ReportEntry
<1>2. IsFiniteSet(Severities)
  <2>1. \A m, n \in Int : IsFiniteSet(m .. n)
    BY FS_Interval
  <2>2. 0 \in Int /\ 4 \in Int
    OBVIOUS
  <2> QED BY Zenon, <2>1, <2>2 DEF Severities
<1>3. IsFiniteSet(Families) /\ IsFiniteSet(Buckets)
  <2>1. Families = {} \cup {"security"} \cup {"feature"}
    BY DEF Families
  <2>2. Buckets = {} \cup {"action"} \cup {"check"} \cup {"plan"} \cup {"note"}
    BY DEF Buckets
  <2>3. \A S, x : IsFiniteSet(S) => IsFiniteSet(S \cup {x})
    BY FS_AddElement
  <2> QED BY Zenon, <2>1, <2>2, <2>3, FS_EmptySet
<1>4. /\ BySeverity(E) = Counts(s, E, Severities)
      /\ ByFamily(E) = Counts(f, E, Families)
      /\ ByBucket(E) = Counts(b, E, Buckets)
  <2>1. \A d : {e \in E : s[e] = d} = {e \in E : e.severity = d}
    OBVIOUS
  <2>2. \A d : {e \in E : f[e] = d} = {e \in E : e.family = d}
    OBVIOUS
  <2>3. \A d : {e \in E : b[e] = d} = {e \in E : e.bucket = d}
    OBVIOUS
  <2> QED BY Zenon, <2>1, <2>2, <2>3 DEF BySeverity, ByFamily, ByBucket, Counts
<1> HIDE DEF s, f, b
<1> QED BY <1>1, <1>2, <1>3, <1>4, CountsAddUp

(* A set and its image under a function that tells its elements apart have *)
(* the same size.                                                          *)
LEMMA SameSize ==
  ASSUME NEW S, IsFiniteSet(S), NEW w, \A x, y \in S : w[x] = w[y] => x = y,
         NEW T, T = {w[x] : x \in S}
  PROVE  Cardinality(T) = Cardinality(S)
<1> DEFINE f == [x \in S |-> w[x]]
<1>1. f \in Bijection(S, T)
  <2>1. f \in [S -> T] /\ \A x \in S : f[x] = w[x]
    OBVIOUS
  <2>2. \A t \in T : \E x \in S : w[x] = t
    OBVIOUS
  <2> HIDE DEF f
  <2>3. f \in Injection(S, T)
    BY <2>1 DEF Injection, IsInjective
  <2>4. f \in Surjection(S, T)
    BY <2>1, <2>2 DEF Surjection
  <2> QED BY <2>3, <2>4 DEF Bijection
<1> HIDE DEF f
<1> QED BY <1>1, FS_Bijection DEF ExistsBijection

(* A cap that cuts anything leaves as many as it allows. *)
LEMMA CapIsFull ==
  ASSUME NEW S, Sortable(S), NEW n \in Nat, Capped(S, n) # S
  PROVE  Cardinality(Capped(S, n)) = n
<1> DEFINE Before(e) == {f \in S : Precedes(f, e)}
           N == Cardinality(S)
           r == [e \in S |-> Cardinality(Before(e))]
           shown == {e \in S : r[e] < n}
<1>1. IsFiniteSet(S) /\ N \in Nat
  BY FS_CardinalityType DEF Sortable
<1>2. ASSUME NEW e \in S
      PROVE  IsFiniteSet(Before(e)) /\ r[e] = Cardinality(Before(e)) /\ r[e] \in Nat
  <2>1. Before(e) \in SUBSET S /\ r[e] = Cardinality(Before(e))
    OBVIOUS
  <2> HIDE DEF Before, r
  <2> QED BY <1>1, <2>1, FS_Subset, FS_CardinalityType
<1>3. ASSUME NEW e \in S, NEW T \in SUBSET S, Before(e) \in SUBSET T, e \in T
      PROVE  r[e] < Cardinality(T)
  <2>1. e \notin Before(e)
    BY PrecedesIsStrict
  <2>2. IsFiniteSet(T)
    BY <1>1, FS_Subset
  <2>3. r[e] = Cardinality(Before(e)) /\ r[e] \in Nat
    BY <1>2
  <2> HIDE DEF Before, r
  <2>4. /\ Cardinality(Before(e)) <= Cardinality(T)
        /\ Cardinality(T) = Cardinality(Before(e)) => T = Before(e)
    BY <1>3, <2>2, FS_Subset
  <2>5. Cardinality(T) \in Nat
    BY <2>2, FS_CardinalityType
  <2> QED BY <1>3, <2>1, <2>3, <2>4, <2>5
<1>4. ASSUME NEW e \in S, NEW f \in S, Precedes(e, f) PROVE r[e] < r[f]
  <2>1. Before(f) \in SUBSET S /\ Before(e) \in SUBSET Before(f) /\ e \in Before(f)
    BY <1>4, PrecedesIsStrict
  <2>2. r[f] = Cardinality(Before(f))
    BY <1>2
  <2> HIDE DEF Before, r
  <2> QED BY <1>3, <2>1, <2>2
<1>5. \A e, f \in S : r[e] = r[f] => e = f
  <2> SUFFICES ASSUME NEW e \in S, NEW f \in S, r[e] = r[f] PROVE e = f
    OBVIOUS
  <2>1. r[e] \in Nat /\ r[f] \in Nat
    BY <1>2
  <2> HIDE DEF r
  <2>2. ~(r[e] < r[f]) /\ ~(r[f] < r[e])
    BY <2>1
  <2> QED BY <1>4, <2>2, PrecedesIsTotal
<1>6. \A e \in S : r[e] \in 0 .. N - 1
  <2> SUFFICES ASSUME NEW e \in S PROVE r[e] \in 0 .. N - 1
    OBVIOUS
  <2>1. S \in SUBSET S /\ Before(e) \in SUBSET S
    OBVIOUS
  <2>2. r[e] < N /\ r[e] \in Nat
    <3> HIDE DEF Before, r
    <3> QED BY <1>2, <1>3, <2>1
  <2> HIDE DEF r, N
  <2> QED BY <1>1, <2>2
<1>7. \A k \in 0 .. N - 1 : \E e \in S : r[e] = k
  <2>1. r \in Injection(S, 0 .. N - 1)
    <3> HIDE DEF N
    <3>1. PICK I : I = 0 .. N - 1
      OBVIOUS
    <3>2. r = [e \in S |-> r[e]] /\ \A e \in S : r[e] \in I
      BY <1>6, <3>1
    <3> HIDE DEF r
    <3>3. r \in [S -> I]
      BY <3>2
    <3> QED BY <1>5, <3>1, <3>3 DEF Injection, IsInjective
  <2>2. IsFiniteSet(0 .. N - 1) /\ Cardinality(0 .. N - 1) = N
    <3> HIDE DEF N
    <3>1. 0 \in Int /\ N - 1 \in Int
      BY <1>1
    <3>2. /\ IsFiniteSet(0 .. N - 1)
          /\ Cardinality(0 .. N - 1) = IF 0 > N - 1 THEN 0 ELSE N - 1 - 0 + 1
      BY <3>1, FS_Interval
    <3> QED BY <1>1, <3>2
  <2> HIDE DEF r
  <2>3. r \in Surjection(S, 0 .. N - 1)
    BY <2>1, <2>2, FS_Injection
  <2> QED BY <2>3 DEF Surjection
<1>8. Capped(S, n) = shown
  BY DEF Capped
<1>9. PICK last \in S : ~(r[last] < n)
  BY <1>8
<1>10. n <= N - 1
  <2> HIDE DEF r, N
  <2> QED BY <1>1, <1>6, <1>9
<1>11. 0 .. n - 1 = {r[e] : e \in shown}
  <2>1. \A k \in 0 .. n - 1 : k \in 0 .. N - 1 /\ k < n
    <3> HIDE DEF N
    <3> QED BY <1>1, <1>10
  <2>2. \A k \in 0 .. n - 1 : \E e \in shown : r[e] = k
    <3> HIDE DEF r, N
    <3> QED BY <1>7, <2>1
  <2>3. \A e \in shown : r[e] \in 0 .. n - 1
    <3> SUFFICES ASSUME NEW e \in shown PROVE r[e] \in 0 .. n - 1
      OBVIOUS
    <3>1. r[e] \in Nat /\ r[e] < n
      BY <1>2
    <3> HIDE DEF r
    <3> QED BY <3>1
  <2> HIDE DEF r, shown
  <2> QED BY <2>2, <2>3
<1>12. IsFiniteSet(shown) /\ \A e, f \in shown : r[e] = r[f] => e = f
  <2>1. shown \in SUBSET S
    OBVIOUS
  <2> HIDE DEF r, shown
  <2> QED BY <1>1, <1>5, <2>1, FS_Subset
<1>13. Cardinality(0 .. n - 1) = Cardinality(shown)
  <2> HIDE DEF r, shown
  <2>1. PICK T : T = 0 .. n - 1
    OBVIOUS
  <2>2. T = {r[e] : e \in shown}
    BY <1>11, <2>1
  <2>3. Cardinality(T) = Cardinality(shown)
    <3>1. PICK Z : Z = shown
      OBVIOUS
    <3>2. IsFiniteSet(Z) /\ (\A e, f \in Z : r[e] = r[f] => e = f) /\ T = {r[e] : e \in Z}
      BY Zenon, <1>12, <2>2, <3>1
    <3>3. Cardinality(T) = Cardinality(Z)
      BY <3>2, SameSize
    <3> QED BY <3>1, <3>3
  <2> QED BY <2>1, <2>3
<1>14. Cardinality(0 .. n - 1) = n
  <2>1. 0 \in Int /\ n - 1 \in Int
    OBVIOUS
  <2>2. Cardinality(0 .. n - 1) = IF 0 > n - 1 THEN 0 ELSE n - 1 - 0 + 1
    BY <2>1, FS_Interval
  <2> QED BY <2>2
<1> QED BY <1>8, <1>13, <1>14

-----------------------------------------------------------------------------
(* What tells the entries of a report apart. *)

StoryOf(e) ==
  [version |-> e.version, quote |-> e.quote, id |-> IF e.quote = <<>> THEN e.id ELSE 0]

(* What the entries of a bucket tell. *)
ToldBy(E, b) == {StoryOf(e) : e \in {f \in E : f.bucket = b}}

(* Entries tell the same exactly when they share a quote. *)
LEMMA SameStory ==
  ASSUME NEW E, Sortable(E), NEW e \in E, NEW f \in E
  PROVE  StoryOf(e) = StoryOf(f) <=> f \in Sharing(e, E)
<1>1. StoryOf(e) = StoryOf(f) =>
        e.version = f.version /\ e.quote = f.quote /\ (e.quote = <<>> => e.id = f.id)
  BY DEF StoryOf
<1>2. StoryOf(e) = StoryOf(f) => f \in Sharing(e, E)
  BY <1>1 DEF Sharing, SharesQuote, Sortable
<1>3. f \in Sharing(e, E) => StoryOf(e) = StoryOf(f)
  BY DEF Sharing, SharesQuote, StoryOf
<1> QED BY <1>2, <1>3

(* A bucket no other of a set is more urgent than is its most urgent. *)
LEMMA MostUrgentIsOnly ==
  ASSUME NEW B \in SUBSET Buckets, NEW b \in B, \A d \in B : bucketRank(b) <= bucketRank(d)
  PROVE  MostUrgent(B) = b
<1>1. MostUrgent(B) \in B /\ bucketRank(MostUrgent(B)) <= bucketRank(b)
  BY MostUrgentIs
<1>2. bucketRank(b) <= bucketRank(MostUrgent(B))
  BY <1>1
<1>3. \A d, f \in Buckets : bucketRank(d) <= bucketRank(f) /\ bucketRank(f) <= bucketRank(d) => d = f
  BY DEF Buckets, bucketRank
<1> QED BY <1>1, <1>2, <1>3

(* The entries of a bucket are those of the matters whose most urgent      *)
(* bucket it is, and tell the same.                                        *)
LEMMA BucketsAre ==
  ASSUME NEW F, Feed(F), NEW R \in SUBSET F, R = report.relevant, NEW b \in Buckets,
         NEW E, E = Entries(R, F)
  PROVE  /\ Cardinality({e \in E : e.bucket = b}) = Cardinality(Opening(b))
         /\ Told(b) = ToldBy(E, b)
<1> DEFINE H == Opening(b)
           w == [h \in H |-> Entry(h, R, F)]
           P == {e \in E : e.bucket = b}
<1>1. H \in SUBSET Heads(R) /\ Heads(R) \in SUBSET R /\ R \in SUBSET Change
  BY DEF Opening, Heads, Feed
<1>2. ASSUME NEW h \in Heads(R) PROVE Entry(h, R, F).bucket = b <=> h \in H
  <2> DEFINE B == {c.bucket : c \in MatterGroup(h, R)}
  <2>1. MatterGroup(h, R) \in SUBSET R /\ h \in MatterGroup(h, R)
    BY <1>1 DEF MatterGroup
  <2>2. B \in SUBSET Buckets /\ B # {}
    BY <1>1, <2>1 DEF Change
  <2>3. h \in H <=> b \in B /\ \A d \in B : bucketRank(b) <= bucketRank(d)
    BY DEF Opening
  <2>4. Entry(h, R, F).bucket = MostUrgent(B)
    BY EntryFields DEF GroupBucket
  <2> HIDE DEF B, H
  <2>5. MostUrgent(B) \in B /\ \A d \in B : bucketRank(MostUrgent(B)) <= bucketRank(d)
    BY <2>2, MostUrgentIs
  <2>6. h \in H => MostUrgent(B) = b
    BY <2>2, <2>3, MostUrgentIsOnly
  <2>7. MostUrgent(B) = b => h \in H
    BY <2>3, <2>5
  <2> QED BY <2>4, <2>6, <2>7
<1>3. P = {w[h] : h \in H}
  <2>1. E = {Entry(h, R, F) : h \in Heads(R)}
    BY DEF Entries
  <2>2. \A h \in H : w[h] = Entry(h, R, F)
    OBVIOUS
  <2> HIDE DEF H, w
  <2>3. \A e \in P : \E h \in H : e = w[h]
    BY <1>2, <2>1, <2>2
  <2>4. \A h \in H : w[h] \in P
    BY <1>1, <1>2, <2>1, <2>2
  <2> HIDE DEF P
  <2> QED BY <2>3, <2>4
<1>4. \A g, h \in H : w[g] = w[h] => g = h
  <2> SUFFICES ASSUME NEW g \in H, NEW h \in H, Entry(g, R, F) = Entry(h, R, F) PROVE g = h
    OBVIOUS
  <2>1. g.id = h.id
    <3>1. Entry(g, R, F).id = g.id /\ Entry(h, R, F).id = h.id
      BY EntryFields
    <3> QED BY <3>1
  <2>2. g \in F /\ h \in F
    BY <1>1
  <2> QED BY <2>1, <2>2 DEF Feed
<1>5. IsFiniteSet(H)
  <2> HIDE DEF H
  <2>1. H \in SUBSET F /\ IsFiniteSet(F)
    BY <1>1 DEF Feed
  <2> QED BY <2>1, FS_Subset
<1>6. Cardinality(P) = Cardinality(H)
  <2> HIDE DEF H, P, w
  <2> QED BY <1>3, <1>4, <1>5, SameSize
<1>7. \A h \in H : Story(h) = StoryOf(w[h])
  <2> SUFFICES ASSUME NEW h \in H PROVE Story(h) = StoryOf(Entry(h, R, F))
    OBVIOUS
  <2>1. PICK e : e = Entry(h, R, F)
    OBVIOUS
  <2>2. e.id = h.id /\ e.version = h.version /\ e.quote = briefQuote(h.quote)
    BY <2>1, EntryFields
  <2> QED BY <2>1, <2>2 DEF Story, StoryOf
<1>8. Told(b) = {StoryOf(w[h]) : h \in H}
  <2>1. Told(b) = {Story(h) : h \in H}
    BY DEF Told
  <2> HIDE DEF H, w
  <2> QED BY <1>7, <2>1
<1>9. ToldBy(E, b) = {StoryOf(e) : e \in P}
  BY DEF ToldBy
<1> HIDE DEF H, w, P
<1>10. Told(b) = ToldBy(E, b)
  BY <1>3, <1>8, <1>9
<1> QED BY <1>6, <1>10 DEF H, P

(* A merged entry takes its bucket from one of those it stands for. *)
LEMMA BucketIsOfOne ==
  ASSUME NEW E \in SUBSET ReportEntry, NEW e \in E, NEW x, x = MergedEntry(e, E)
  PROVE  \E f \in Sharing(e, E) : f.bucket = x.bucket
<1> DEFINE B == {f.bucket : f \in Sharing(e, E)}
<1>1. Sharing(e, E) \in SUBSET E /\ e \in Sharing(e, E)
  BY DEF Sharing
<1>2. B \in SUBSET Buckets /\ B # {}
  BY <1>1 DEF ReportEntry
<1>3. x.bucket = SharedBucket(e, E)
  BY MergedFields
<1>4. SharedBucket(e, E) = MostUrgent(B)
  BY DEF SharedBucket
<1>5. MostUrgent(B) \in B
  <2> HIDE DEF B
  <2> QED BY <1>2, MostUrgentIs
<1>6. PICK f \in Sharing(e, E) : f.bucket = MostUrgent(B)
  BY <1>5
<1> QED BY <1>3, <1>4, <1>6

(* Merged entries tell different stories, one for each that entries tell,  *)
(* in the most urgent bucket of those who tell it.                         *)
LEMMA MergedTell ==
  ASSUME NEW E \in SUBSET ReportEntry, Sortable(E), NEW M, M = mergeSharedQuotes(E)
  PROVE  /\ \A x, y \in M : StoryOf(x) = StoryOf(y) => x = y
         /\ \A e \in E : \E x \in M : StoryOf(x) = StoryOf(e)
         /\ \A x \in M : /\ x.bucket \in Buckets
                        /\ StoryOf(x) \in ToldBy(E, x.bucket)
                        /\ \A b \in Buckets : StoryOf(x) \in ToldBy(E, b) =>
                             bucketRank(x.bucket) <= bucketRank(b)
<1>1. \A e \in E : StoryOf(MergedEntry(e, E)) = StoryOf(e)
  <2> SUFFICES ASSUME NEW e \in E PROVE StoryOf(MergedEntry(e, E)) = StoryOf(e)
    OBVIOUS
  <2>1. PICK x : x = MergedEntry(e, E)
    OBVIOUS
  <2>2. x.id = e.id /\ x.version = e.version /\ x.quote = e.quote
    BY <2>1, MergedFields
  <2> QED BY <2>1, <2>2 DEF StoryOf
<1>2. ASSUME NEW x \in M, NEW y \in M, StoryOf(x) = StoryOf(y) PROVE x = y
  <2>1. PICK e \in E : x = MergedEntry(e, E) /\ \A g \in E : SharesQuote(e, g) => ~Precedes(g, e)
    BY DEF mergeSharedQuotes
  <2>2. PICK f \in E : y = MergedEntry(f, E) /\ \A g \in E : SharesQuote(f, g) => ~Precedes(g, f)
    BY DEF mergeSharedQuotes
  <2>3. StoryOf(e) = StoryOf(f)
    BY <1>1, <1>2, <2>1, <2>2
  <2>4. f \in Sharing(e, E) /\ e \in Sharing(f, E)
    BY <2>3, SameStory
  <2>5. e = f \/ (SharesQuote(e, f) /\ SharesQuote(f, e))
    BY <2>4 DEF Sharing
  <2>6. e = f
    BY <2>1, <2>2, <2>5, PrecedesIsTotal
  <2> QED BY <2>1, <2>2, <2>6
<1>3. ASSUME NEW e \in E PROVE \E x \in M : StoryOf(x) = StoryOf(e)
  <2>1. PICK h \in E : e \in Sharing(h, E) /\ MergedEntry(h, E) \in M
    BY EntryIsMerged
  <2>2. StoryOf(MergedEntry(h, E)) = StoryOf(e)
    BY <1>1, <2>1, SameStory
  <2> QED BY <2>1, <2>2
<1>4. ASSUME NEW x \in M
      PROVE  /\ x.bucket \in Buckets
             /\ StoryOf(x) \in ToldBy(E, x.bucket)
             /\ \A b \in Buckets : StoryOf(x) \in ToldBy(E, b) =>
                  bucketRank(x.bucket) <= bucketRank(b)
  <2>1. PICK e \in E : x = MergedEntry(e, E)
    BY DEF mergeSharedQuotes
  <2>2. PICK s : s = StoryOf(x) /\ s = StoryOf(e)
    BY <1>1, <2>1
  <2>3. PICK f \in Sharing(e, E) : f.bucket = x.bucket
    BY <2>1, BucketIsOfOne
  <2>4. f \in E /\ StoryOf(f) = s
    BY <2>2, <2>3, SameStory DEF Sharing
  <2>5. s \in ToldBy(E, x.bucket)
    BY <2>3, <2>4 DEF ToldBy
  <2>6. ASSUME NEW b \in Buckets, s \in ToldBy(E, b) PROVE bucketRank(x.bucket) <= bucketRank(b)
    <3>1. PICK g \in E : g.bucket = b /\ StoryOf(g) = s
      BY <2>6 DEF ToldBy
    <3>2. g \in Sharing(e, E)
      BY <2>2, <3>1, SameStory
    <3> QED BY <2>1, <3>1, <3>2, MergedSpeaksFor
  <2>7. x.bucket \in Buckets
    BY <2>1, MergedSpeaksFor
  <2> QED BY <2>2, <2>5, <2>6, <2>7
<1> QED BY <1>2, <1>3, <1>4

(* The lists of a brief report tell what the entries tell, each story once *)
(* and where it is most urgent, but for what the cap cuts.                 *)
LEMMA ListsTell ==
  ASSUME NEW F, Feed(F), NEW R \in SUBSET F, NEW b, b = briefReport(R, F),
         NEW E, E = Entries(R, F)
  PROVE  /\ Cardinality(b.action) = Cardinality(ToldBy(E, "action"))
         /\ Cardinality(b.check) = Cardinality(ToldBy(E, "check") \ ToldBy(E, "action"))
         /\ Cardinality(b.other) + b.omitted =
              Cardinality((ToldBy(E, "plan") \cup ToldBy(E, "note"))
                            \ (ToldBy(E, "action") \cup ToldBy(E, "check")))
         /\ b.omitted > 0 => Cardinality(b.other) = OtherCap
<1> DEFINE M == MergedEntries(R, F)
           O == OtherEntries(R, F)
           w == [x \in M |-> StoryOf(x)]
<1>1. E \in SUBSET ReportEntry /\ Sortable(E) /\ M = mergeSharedQuotes(E)
  BY EntriesAre DEF MergedEntries
<1>2. /\ \A x, y \in M : w[x] = w[y] => x = y
      /\ \A x \in M : w[x] = StoryOf(x)
  BY <1>1, MergedTell
<1>3. /\ \A e \in E : \E x \in M : StoryOf(x) = StoryOf(e)
      /\ \A x \in M : /\ x.bucket \in Buckets
                     /\ StoryOf(x) \in ToldBy(E, x.bucket)
                     /\ \A d \in Buckets : StoryOf(x) \in ToldBy(E, d) =>
                          bucketRank(x.bucket) <= bucketRank(d)
  <2> HIDE DEF M
  <2> QED BY <1>1, MergedTell
<1>4. Sortable(M) /\ O \in SUBSET M /\ IsFiniteSet(M)
  BY MergedAre DEF OtherEntries, Sortable
<1>5. /\ b.action = {x \in M : x.bucket = "action"}
      /\ b.check = {x \in M : x.bucket = "check"}
      /\ b.other = Capped(O, OtherCap) /\ b.omitted = Cardinality(O) - Cardinality(b.other)
      /\ O = {x \in M : x.bucket \notin {"action", "check"}}
  BY BriefFields DEF OtherEntries
<1> HIDE DEF M, O, w
<1>6. ASSUME NEW T \in SUBSET M PROVE Cardinality(T) = Cardinality({w[x] : x \in T})
  <2>1. IsFiniteSet(T) /\ \A x, y \in T : w[x] = w[y] => x = y
    BY <1>2, <1>4, FS_Subset
  <2> QED BY <2>1, SameSize
<1>7. \A s, d : s \in ToldBy(E, d) => \E x \in M : w[x] = s
  BY <1>2, <1>3 DEF ToldBy
<1>8. \A x \in M :
        /\ x.bucket = "action" <=> w[x] \in ToldBy(E, "action")
        /\ x.bucket = "check" <=> w[x] \in ToldBy(E, "check") \ ToldBy(E, "action")
        /\ x.bucket \notin {"action", "check"} <=>
             w[x] \in (ToldBy(E, "plan") \cup ToldBy(E, "note"))
                        \ (ToldBy(E, "action") \cup ToldBy(E, "check"))
  <2> SUFFICES ASSUME NEW x \in M
               PROVE  /\ x.bucket = "action" <=> w[x] \in ToldBy(E, "action")
                      /\ x.bucket = "check" <=> w[x] \in ToldBy(E, "check") \ ToldBy(E, "action")
                      /\ x.bucket \notin {"action", "check"} <=>
                           w[x] \in (ToldBy(E, "plan") \cup ToldBy(E, "note"))
                                      \ (ToldBy(E, "action") \cup ToldBy(E, "check"))
    OBVIOUS
  <2>0. PICK s : s = w[x]
    OBVIOUS
  <2>1. PICK d \in Buckets : s = w[x] /\ d = x.bucket
    BY <1>3, <2>0
  <2>2. /\ s \in ToldBy(E, d)
        /\ \A c \in Buckets : s \in ToldBy(E, c) => bucketRank(d) <= bucketRank(c)
    BY <1>2, <1>3, <2>1
  <2>3. /\ s \in ToldBy(E, "action") => bucketRank(d) <= bucketRank("action")
        /\ s \in ToldBy(E, "check") => bucketRank(d) <= bucketRank("check")
    BY <2>2 DEF Buckets
  <2>4. /\ bucketRank(d) <= bucketRank("action") => d = "action"
        /\ bucketRank(d) <= bucketRank("check") => d \in {"action", "check"}
    BY DEF Buckets, bucketRank
  <2>5. d \in {"action", "check", "plan", "note"}
    BY DEF Buckets
  <2> QED BY <2>1, <2>2, <2>3, <2>4, <2>5
<1>9. Cardinality(b.action) = Cardinality(ToldBy(E, "action"))
  <2>1. b.action \in SUBSET M
    BY <1>5
  <2>2. {w[x] : x \in b.action} = ToldBy(E, "action")
    BY <1>5, <1>7, <1>8
  <2> QED BY <1>6, <2>1, <2>2
<1>10. Cardinality(b.check) = Cardinality(ToldBy(E, "check") \ ToldBy(E, "action"))
  <2>1. b.check \in SUBSET M
    BY <1>5
  <2>2. {w[x] : x \in b.check} = ToldBy(E, "check") \ ToldBy(E, "action")
    BY <1>5, <1>7, <1>8
  <2> QED BY <1>6, <2>1, <2>2
<1>11. PICK rest : rest = (ToldBy(E, "plan") \cup ToldBy(E, "note"))
                           \ (ToldBy(E, "action") \cup ToldBy(E, "check"))
  OBVIOUS
<1>12. Cardinality(O) = Cardinality(rest)
  <2>1. {w[x] : x \in O} = rest
    BY <1>5, <1>7, <1>8, <1>11
  <2> QED BY <1>4, <1>6, <2>1
<1>13. b.other \in SUBSET O
  BY <1>5 DEF Capped
<1>14. Cardinality(O) \in Nat /\ Cardinality(b.other) \in Nat /\ Sortable(O)
  <2>1. IsFiniteSet(O) /\ IsFiniteSet(b.other)
    BY <1>4, <1>13, FS_Subset
  <2>2. Sortable(O)
    BY <1>4, <2>1 DEF Sortable
  <2> QED BY <2>1, <2>2, FS_CardinalityType
<1>15. Cardinality(b.other) + b.omitted = Cardinality(rest)
  BY <1>5, <1>12, <1>14
<1>16. ASSUME b.omitted > 0 PROVE Cardinality(b.other) = OtherCap
  <2>1. b.other # O
    <3> SUFFICES ASSUME b.other = O PROVE FALSE
      OBVIOUS
    <3>1. PICK n \in Nat : n = Cardinality(O)
      BY <1>14
    <3>2. b.omitted = n - n
      BY <1>5, <3>1
    <3> QED BY <1>16, <3>2
  <2> QED BY <1>5, <1>14, <2>1, CapIsFull, BriefingAssumption
<1> QED BY <1>9, <1>10, <1>11, <1>15, <1>16

(***************************************************************************)
(* The summary and the lists tell one story to the last entry, however     *)
(* many changes there are and whatever is merged or cut: every matter is   *)
(* counted under its most urgent bucket, matters of one quote and release  *)
(* are one entry of the most urgent list of any of them, what is not       *)
(* listed is counted as omitted, and only when the list is full            *)
(* (briefSummary, mergeSharedQuotes, otherChangesCap, relevantChangesCap). *)
(***************************************************************************)
THEOREM SummaryAgreesHolds == Spec => []SummaryAgrees
<1>1. Inv => SummaryAgrees
  <2> SUFFICES ASSUME Inv PROVE SummaryAgrees
    OBVIOUS
  <2>1. /\ Feed(changes) /\ Found \in SUBSET changes /\ brief = briefReport(Found, changes)
        /\ report.full = fullReport(Found) /\ Found = report.relevant
    <3>1. report = [relevant |-> Found, brief |-> briefReport(Found, changes),
                    full |-> fullReport(Found), notes |-> Notes(comp, changes)]
      BY Zenon DEF Inv, ReportIsAnswer, Answer, Found
    <3>2. report.full = fullReport(Found)
      BY <3>1
    <3> QED BY <3>2, ReportFields
  <2>2. PICK E : E = Entries(Found, changes)
    OBVIOUS
  <2>3. E \in SUBSET ReportEntry /\ IsFiniteSet(E)
    BY <2>1, <2>2, EntriesAre DEF Sortable
  <2>4. /\ brief.summary.newChanges = Cardinality(Found)
        /\ brief.summary.distinctMatters = Cardinality(E)
        /\ brief.summary.bySeverity = BySeverity(E)
        /\ brief.summary.byFamily = ByFamily(E)
        /\ brief.summary.byBucket = ByBucket(E)
    BY Zenon, <2>1, <2>2, SummaryFields
  <2>5. \A b \in Buckets :
          /\ Cardinality({e \in E : e.bucket = b}) = Cardinality(Opening(b))
          /\ Told(b) = ToldBy(E, b)
    BY <2>1, <2>2, BucketsAre
  <2>6. \A b \in Buckets : brief.summary.byBucket[b] = Cardinality(Opening(b))
    BY <2>4, <2>5 DEF ByBucket
  <2>7. \A counts \in {brief.summary.bySeverity, brief.summary.byFamily,
                        brief.summary.byBucket} :
           Total(counts) = brief.summary.distinctMatters
    BY Zenon, <2>3, <2>4, DistributionsAddUp
  <2>8. /\ Told("action") = ToldBy(E, "action") /\ Told("check") = ToldBy(E, "check")
        /\ Told("plan") = ToldBy(E, "plan") /\ Told("note") = ToldBy(E, "note")
    BY <2>5 DEF Buckets
  <2>9. /\ Cardinality(brief.action) = Cardinality(Told("action"))
        /\ Cardinality(brief.check) = Cardinality(Told("check") \ Told("action"))
        /\ Cardinality(brief.other) + brief.omitted =
             Cardinality((Told("plan") \cup Told("note")) \ (Told("action") \cup Told("check")))
        /\ brief.omitted > 0 => Cardinality(brief.other) = OtherCap
    <3>1. PICK b, F, R : b = brief /\ F = changes /\ R = Found
      OBVIOUS
    <3>2. Feed(F) /\ R \in SUBSET F /\ b = briefReport(R, F) /\ E = Entries(R, F)
      BY Zenon, <2>1, <2>2, <3>1
    <3>3. /\ Cardinality(b.action) = Cardinality(ToldBy(E, "action"))
          /\ Cardinality(b.check) = Cardinality(ToldBy(E, "check") \ ToldBy(E, "action"))
          /\ Cardinality(b.other) + b.omitted =
               Cardinality((ToldBy(E, "plan") \cup ToldBy(E, "note"))
                             \ (ToldBy(E, "action") \cup ToldBy(E, "check")))
          /\ b.omitted > 0 => Cardinality(b.other) = OtherCap
      BY Zenon, <3>2, ListsTell
    <3> QED BY <2>8, <3>1, <3>3
  <2>10. Cardinality(report.full.relevant) + report.full.omitted = brief.summary.newChanges
    <3>1. PICK shown \in SUBSET Found :
            report.full = [relevant |-> shown,
                           omitted |-> Cardinality(Found) - Cardinality(shown)]
      BY <2>1 DEF fullReport
    <3>2. IsFiniteSet(Found) /\ IsFiniteSet(shown)
      BY <2>1, <3>1, FS_Subset DEF Feed
    <3>3. Cardinality(Found) \in Nat /\ Cardinality(shown) \in Nat
      BY <3>2, FS_CardinalityType
    <3>4. report.full.relevant = shown
          /\ report.full.omitted = Cardinality(Found) - Cardinality(shown)
      BY <3>1
    <3> QED BY <2>4, <3>3, <3>4
  <2> QED BY Zenon, <2>6, <2>7, <2>9, <2>10 DEF SummaryAgrees
<1> QED BY <1>1, FeedInvariant, PTL

=============================================================================
