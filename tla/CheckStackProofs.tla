-------------------------- MODULE CheckStackProofs --------------------------
(***************************************************************************)
(* The paged walk of check_stack for any projects, feeds, calls and page   *)
(* size: the type invariant, the properties of the reports, and that every *)
(* step of it is a step of AtomicCheck.                                    *)
(***************************************************************************)
EXTENDS CheckStack, SetLemmas, SequenceTheorems

(***************************************************************************)
(* What connects the walk to the feed.                                     *)
(***************************************************************************)

(* Upstream numbers its changes, and publishes for what it tracks. *)
FeedNumbered ==
  \A i \in DOMAIN log : log[i].change.seq = i /\ log[i].project \in tracked

(* The component at hand is one that can be asked about. *)
Going ==
  phase \in {"working", "doubt"} =>
    /\ ~Refused(call)
    /\ Len(reports) < Len(call.components)

(* What was read is the project's feed up to the cursor. *)
WalkIsPrefix ==
  /\ phase = "working" => found = Before(comp.project, since)
  /\ phase \in {"idle", "done"} => found = {} /\ since = 0

(* Doubt means that the project was empty at an instant of the call. *)
DoubtIsEarned ==
  phase = "doubt" =>
    /\ found = {}
    /\ \E n \in began .. Len(log) : Before(comp.project, n) = {}

(* A call that was not made has no reports, a refused one none either. *)
NothingTooEarly ==
  /\ phase = "idle" => reports = <<>> /\ call = NoCall
  /\ phase # "idle" /\ Refused(call) => phase = "done" /\ reports = <<>>
  /\ phase = "done" /\ ~Refused(call) => Len(reports) = Len(call.components)

(* What a report on component c says: it was not answered, or it is made   *)
(* of all there was of the project at an instant of the call, and an empty *)
(* feed was asked about.                                                   *)
Founded(r, c) ==
  \/ \E outcome \in {"unparsed", "fetch failed"} : r = Unanswered(c, outcome)
  \/ \E n \in began .. Len(log), probe \in Probes :
       LET scanned == Before(c.project, n) IN
       /\ r = Answered(call, c, scanned, probe)
       /\ probe = "" <=> scanned # {}
       /\ probe = "quiet" => c.project \in tracked

ReportsFounded ==
  /\ reports \in Seq({reports[i] : i \in DOMAIN reports})
  /\ Len(reports) <= Len(call.components)
  /\ \A i \in DOMAIN reports : Founded(reports[i], call.components[i])

Types ==
  /\ log \in Seq(Published) /\ Len(log) <= MaxChanges
  /\ tracked \subseteq Projects
  /\ call \in Calls \cup {NoCall}
  /\ phase \in {"idle", "working", "doubt", "done"}
  /\ since \in 0 .. Len(log)
  /\ found \subseteq Change
  /\ requests \in 0 .. MaxRequests
  /\ began \in 0 .. Len(log)

IInv ==
  /\ Types
  /\ FeedNumbered
  /\ Going
  /\ WalkIsPrefix
  /\ DoubtIsEarned
  /\ NothingTooEarly
  /\ ReportsFounded

-----------------------------------------------------------------------------
(***************************************************************************)
(* Taking the k first of a finite set of numbered changes leaves none of   *)
(* those before the last one taken, and k are taken unless there are no    *)
(* more (the pages of /v1/changes, as listChanges asks for them).          *)
(***************************************************************************)
LEMMA FirstOnes ==
  ASSUME NEW R, IsFiniteSet(R), NEW k \in Nat \ {0}, NEW n \in Nat,
         \A c \in R : c.seq \in 0 .. n,
         \A c, d \in R : c.seq = d.seq => c = d,
         NEW page,
         page = {c \in R : Cardinality({d \in R : d.seq < c.seq}) < k}
  PROVE  /\ \A c \in page, d \in R : d.seq <= c.seq => d \in page
         /\ Cardinality(page) # k => page = R
<1> DEFINE Below(c) == {d \in R : d.seq < c.seq}
           Rank(c) == Cardinality(Below(c))
<1>1. \A c \in R : IsFiniteSet(Below(c)) /\ Rank(c) \in Nat
  <2> TAKE c \in R
  <2>1. Below(c) \in SUBSET R
    OBVIOUS
  <2> HIDE DEF Below
  <2> QED BY <2>1, FS_Subset, FS_CardinalityType
<1>2. \A c, d \in R : c.seq <= d.seq => Rank(c) <= Rank(d)
  <2> SUFFICES ASSUME NEW c \in R, NEW d \in R, c.seq <= d.seq
               PROVE  Rank(c) <= Rank(d)
    OBVIOUS
  <2>1. Below(c) \in SUBSET Below(d)
    OBVIOUS
  <2> HIDE DEF Below
  <2> QED BY <1>1, <2>1, FS_Subset
<1>3. page = {c \in R : Rank(c) < k}
  OBVIOUS
<1> HIDE DEF Rank
<1>4. page \in SUBSET R /\ IsFiniteSet(page) /\ Cardinality(page) \in Nat
  BY <1>3, FS_Subset, FS_CardinalityType
<1>5. \A c \in page, d \in R : d.seq <= c.seq => d \in page
  <2> SUFFICES ASSUME NEW c \in page, NEW d \in R, d.seq <= c.seq
               PROVE  Rank(d) < k
    BY <1>3
  <2>1. Rank(d) <= Rank(c) /\ Rank(c) < k
    BY <1>2, <1>3
  <2>2. Rank(c) \in Nat /\ Rank(d) \in Nat
    BY <1>1, <1>3
  <2> QED BY <2>1, <2>2
<1>6. Cardinality(page) <= k
  <2>1. CASE page = {}
    <3>1. Cardinality(page) = 0
      BY <2>1, FS_EmptySet
    <3> QED BY <3>1
  <2>2. CASE page # {}
    <3> DEFINE seqs == {c.seq : c \in page}
    <3>0. seqs # {}
      <4>1. PICK c \in page : TRUE
        BY <2>2
      <4>2. c.seq \in seqs
        OBVIOUS
      <4> QED BY <4>2
    <3>1. seqs \in SUBSET Nat /\ seqs # {} /\ \A s \in seqs : s <= n
      <4>1. \A c \in page : c.seq \in Nat /\ c.seq <= n
        BY <1>4
      <4> QED BY <3>0, <4>1
    <3> HIDE DEF seqs
    <3>2. PICK s \in seqs : \A t \in seqs : t <= s
      BY <3>1, GreatestExists
    <3>3. PICK e \in page : \A c \in page : c.seq <= e.seq
      BY <3>2 DEF seqs
    <3>4. page \ {e} \in SUBSET Below(e)
      BY <1>4, <3>3
    <3>5. Cardinality(page \ {e}) <= Rank(e)
      BY <1>1, <1>4, <3>3, <3>4, FS_Subset DEF Rank
    <3>6. Cardinality(page \ {e}) = Cardinality(page) - 1
      BY <1>4, <3>3, FS_RemoveElement
    <3>7. e \in R /\ Rank(e) \in Nat /\ Rank(e) < k
      BY <1>1, <1>3, <3>3
    <3> QED BY <1>4, <3>5, <3>6, <3>7
  <2> QED BY <2>1, <2>2
<1>7. ASSUME page # R
      PROVE  Cardinality(page) = k
  <2> DEFINE seqs == {c.seq : c \in R \ page}
  <2>0. R \ page # {}
    BY <1>4, <1>7
  <2>1. seqs \in SUBSET Nat /\ seqs # {}
    <3>1. seqs # {}
      <4>1. PICK c \in R \ page : TRUE
        BY <2>0
      <4>2. c.seq \in seqs
        OBVIOUS
      <4> QED BY <4>2
    <3>2. \A c \in R : c.seq \in Nat
      OBVIOUS
    <3> QED BY <3>1, <3>2
  <2> HIDE DEF seqs
  <2>2. PICK s \in seqs : \A t \in seqs : s <= t
    BY <2>1, LeastExists
  <2>3. PICK d \in R \ page : \A c \in R \ page : d.seq <= c.seq
    BY <2>2 DEF seqs
  <2>4. Below(d) \subseteq page
    BY <2>3
  <2>5. page \subseteq Below(d)
    BY <1>4, <1>5, <2>3
  <2>6. Rank(d) = Cardinality(page)
    BY <2>4, <2>5 DEF Rank
  <2>7. Rank(d) >= k
    BY <1>1, <1>3, <2>3
  <2> QED BY <1>4, <1>6, <2>6, <2>7
<1> QED BY <1>5, <1>7

(***************************************************************************)
(* The changes of a project are finitely many, each at the place in the    *)
(* feed that its seq names, and those up to the feed's end are all of them.*)
(***************************************************************************)
LEMMA ChangesNumbered ==
  ASSUME Types, FeedNumbered, NEW p
  PROVE  /\ ChangesOf(p, log) \subseteq Change
         /\ \A c \in ChangesOf(p, log) : c.seq \in 1 .. Len(log)
         /\ \A c, d \in ChangesOf(p, log) : c.seq = d.seq => c = d
         /\ IsFiniteSet(ChangesOf(p, log))
         /\ Before(p, Len(log)) = ChangesOf(p, log)
         /\ Before(p, 0) = {}
<1> DEFINE R == ChangesOf(p, log)
<1>1. /\ Len(log) \in Nat /\ DOMAIN log = 1 .. Len(log)
      /\ \A i \in DOMAIN log : log[i] \in Published
  BY DEF Types
<1>2. \A c \in R :
        /\ c.seq \in DOMAIN log
        /\ c = log[c.seq].change
        /\ c \in Change
  <2> TAKE c \in R
  <2>1. PICK i \in DOMAIN log : c = log[i].change
    BY DEF ChangesOf
  <2>2. c.seq = i /\ c \in Change
    BY <1>1, <2>1 DEF FeedNumbered, Published
  <2> QED BY <2>1, <2>2
<1> HIDE DEF R
<1>3. IsFiniteSet(R)
  <2> DEFINE place == [c \in R |-> c.seq]
  <2>1. place \in [R -> 1 .. Len(log)]
    BY <1>1, <1>2
  <2>2. \A c, d \in R : place[c] = place[d] => c = d
    <3> TAKE c, d \in R
    <3>1. place[c] = c.seq /\ place[d] = d.seq
      OBVIOUS
    <3> QED BY <1>2, <3>1
  <2>3. IsFiniteSet(1 .. Len(log))
    BY <1>1, FS_Interval
  <2> HIDE DEF place
  <2>4. place \in Injection(R, 1 .. Len(log))
    BY <2>1, <2>2 DEF Injection, IsInjective
  <2> QED BY <2>3, <2>4, FS_Injection
<1>4. Before(p, Len(log)) = R /\ Before(p, 0) = {}
  BY <1>1, <1>2 DEF Before, R
<1> QED BY <1>1, <1>2, <1>3, <1>4 DEF R

(***************************************************************************)
(* A page takes the walk on by a piece of the feed, and one that is not    *)
(* full takes it to the end (allProjectChanges, listChanges).              *)
(***************************************************************************)
LEMMA PageIsNext ==
  ASSUME Types, FeedNumbered, NEW p, NEW after \in 0 .. Len(log),
         NEW page, page = Page(p, after)
  PROVE  /\ page \subseteq Change
         /\ ~Full(page) => Before(p, after) \cup page = Before(p, Len(log))
         /\ Full(page) => /\ NextSince(page) \in 0 .. Len(log)
                          /\ Before(p, after) \cup page = Before(p, NextSince(page))
<1> DEFINE R == {c \in ChangesOf(p, log) : c.seq > after}
<1>1. /\ Len(log) \in Nat
      /\ R \in SUBSET ChangesOf(p, log)
      /\ \A c \in ChangesOf(p, log) : c.seq \in 1 .. Len(log)
  BY ChangesNumbered DEF Types
<1>2. /\ IsFiniteSet(R)
      /\ \A c \in R : c.seq \in 0 .. Len(log)
      /\ \A c, d \in R : c.seq = d.seq => c = d
  <2> HIDE DEF R
  <2> QED BY <1>1, ChangesNumbered, FS_Subset
<1>3. page = {c \in R : Cardinality({d \in R : d.seq < c.seq}) < PageSize}
  BY DEF Page
<1>4. /\ \A c \in page, d \in R : d.seq <= c.seq => d \in page
      /\ Cardinality(page) # PageSize => page = R
  <2> HIDE DEF R
  <2> QED BY <1>1, <1>2, <1>3, FirstOnes, PagingAssumption
<1>5. ASSUME ~Full(page)
      PROVE  Before(p, after) \cup page = Before(p, Len(log))
  BY <1>1, <1>4, <1>5 DEF Full, Before
<1>6. ASSUME Full(page)
      PROVE  /\ NextSince(page) \in 0 .. Len(log)
             /\ Before(p, after) \cup page = Before(p, NextSince(page))
  <2> DEFINE seqs == {c.seq : c \in page}
  <2>1. page # {}
    <3>1. Cardinality(page) # 0
      BY <1>6, PagingAssumption DEF Full
    <3> QED BY <3>1, FS_EmptySet
  <2>2. seqs # {}
    <3>1. PICK c \in page : TRUE
      BY <2>1
    <3>2. c.seq \in seqs
      OBVIOUS
    <3> QED BY <3>2
  <2>3. seqs \in SUBSET Nat /\ \A s \in seqs : s <= Len(log)
    <3>1. \A c \in page : c \in R /\ c.seq \in Nat /\ c.seq <= Len(log)
      BY <1>1, <1>3
    <3> QED BY <3>1
  <2> HIDE DEF seqs
  <2>4. \E s \in seqs : \A t \in seqs : t <= s
    BY <1>1, <2>2, <2>3, GreatestExists
  <2>5. NextSince(page) = CHOOSE s \in seqs : \A t \in seqs : t <= s
    BY DEF NextSince, seqs
  <2>6. NextSince(page) \in seqs /\ \A t \in seqs : t <= NextSince(page)
    BY <2>4, <2>5
  <2>7. PICK e \in page : e.seq = NextSince(page) /\ \A c \in page : c.seq <= e.seq
    BY <2>6 DEF seqs
  <2>8. page = {c \in R : c.seq <= e.seq}
    BY <1>3, <1>4, <2>7
  <2>9. after <= e.seq /\ e.seq \in 0 .. Len(log)
    BY <1>1, <1>3, <2>7
  <2>10. Before(p, after) \cup page = Before(p, e.seq)
    BY <1>1, <2>8, <2>9 DEF Before
  <2> QED BY <2>7, <2>9, <2>10
<1>7. page \subseteq Change
  BY <1>1, <1>3, ChangesNumbered
<1> QED BY <1>5, <1>6, <1>7

(***************************************************************************)
(* What is published changes nothing of the feed before it.                *)
(***************************************************************************)
LEMMA FeedOnlyGrows ==
  ASSUME Types, FeedNumbered, NEW e, log' = Append(log, e),
         e.change.seq = Len(log) + 1, NEW p, NEW n \in 0 .. Len(log)
  PROVE  Before(p, n)' = Before(p, n)
<1>1. /\ Len(log) \in Nat /\ DOMAIN log = 1 .. Len(log)
      /\ \A i \in DOMAIN log : log[i].change.seq = i
  BY DEF Types, FeedNumbered
<1>2. /\ DOMAIN log' = 1 .. Len(log) + 1
      /\ \A i \in DOMAIN log : log'[i] = log[i]
      /\ log'[Len(log) + 1] = e
  BY <1>1 DEF Types
<1>3. ASSUME NEW c \in Before(p, n)
      PROVE  c \in Before(p, n)'
  <2>1. PICK i \in DOMAIN log : log[i].project = p /\ c = log[i].change /\ c.seq <= n
    BY DEF Before, ChangesOf
  <2> QED BY <1>1, <1>2, <2>1 DEF Before, ChangesOf
<1>4. ASSUME NEW c \in Before(p, n)'
      PROVE  c \in Before(p, n)
  <2>1. PICK i \in DOMAIN log' : log'[i].project = p /\ c = log'[i].change /\ c.seq <= n
    BY DEF Before, ChangesOf
  <2>2. i # Len(log) + 1
    BY <1>1, <1>2, <2>1
  <2> QED BY <1>1, <1>2, <2>1, <2>2 DEF Before, ChangesOf
<1> QED BY <1>3, <1>4

-----------------------------------------------------------------------------
(* The steps of upstream. *)

(* A change is one whatever its place in the feed. *)
LEMMA NumberedIsChange ==
  ASSUME NEW u \in Universe, NEW n \in Nat
  PROVE  Numbered(u, n) \in Change /\ Numbered(u, n).seq = n
<1>1. Numbered(u, 1) \in Change
  BY PagingAssumption
<1> QED BY <1>1 DEF Numbered, Change

(* What a report is founded on stays so as upstream moves on. *)
LEMMA StaysFounded ==
  ASSUME Types, UNCHANGED <<call, began>>, tracked \subseteq tracked',
         Len(log') \in Nat, Len(log) <= Len(log'),
         \A q, n : n \in 0 .. Len(log) => Before(q, n)' = Before(q, n),
         NEW r, NEW c, Founded(r, c)
  PROVE  Founded(r, c)'
<1>1. Len(log) \in Nat /\ began \in 0 .. Len(log)
  BY DEF Types
<1>2. CASE \E outcome \in {"unparsed", "fetch failed"} : r = Unanswered(c, outcome)
  BY <1>2 DEF Founded
<1>3. ASSUME NEW n \in began .. Len(log), NEW probe \in Probes,
             r = Answered(call, c, Before(c.project, n), probe),
             probe = "" <=> Before(c.project, n) # {},
             probe = "quiet" => c.project \in tracked
      PROVE  Founded(r, c)'
  <2>1. Before(c.project, n)' = Before(c.project, n) /\ n \in began .. Len(log')
    BY <1>1
  <2> QED BY <1>3, <2>1 DEF Founded
<1> QED BY <1>2, <1>3 DEF Founded

(* What upstream publishes or tracks later takes no ground from a report   *)
(* made already (main.go:860).                                             *)
LEMMA ReportsStayFounded ==
  ASSUME Types, ReportsFounded, UNCHANGED <<call, reports, began>>,
         tracked \subseteq tracked', Len(log') \in Nat, Len(log) <= Len(log'),
         \A q, n : n \in 0 .. Len(log) => Before(q, n)' = Before(q, n)
  PROVE  ReportsFounded'
<1>1. \A r, c : Founded(r, c) => Founded(r, c)'
  BY StaysFounded
<1> QED BY <1>1 DEF ReportsFounded

(* A change published during the call (the feed behind client.go:271)      *)
(* keeps the invariant.                                                    *)
LEMMA PublishStep ==
  ASSUME IInv, NEW p \in Projects, NEW u \in Universe, Publish(p, u)
  PROVE  IInv'
<1> DEFINE e == [project |-> p, change |-> Numbered(u, Len(log) + 1)]
<1>1. /\ log \in Seq(Published) /\ Len(log) \in Nat /\ DOMAIN log = 1 .. Len(log)
      /\ MaxChanges \in Nat /\ Len(log) < MaxChanges
  BY PagingAssumption DEF IInv, Types, Publish
<1>2. log' = Append(log, e) /\ tracked' = tracked /\ p \in tracked
  BY DEF Publish
<1>3. e \in Published /\ e.change.seq = Len(log) + 1 /\ e.project = p
  BY <1>1, NumberedIsChange DEF Published
<1> HIDE DEF e
<1>4. /\ log' \in Seq(Published) /\ Len(log') = Len(log) + 1
      /\ DOMAIN log' = 1 .. Len(log) + 1
      /\ \A i \in DOMAIN log : log'[i] = log[i]
      /\ log'[Len(log) + 1] = e
  BY <1>1, <1>2, <1>3
<1>5. UNCHANGED <<call, phase, reports, since, found, requests, began>>
  BY DEF Publish, Others
<1>6. \A q, n : n \in 0 .. Len(log) => Before(q, n)' = Before(q, n)
  BY <1>2, <1>3, FeedOnlyGrows DEF IInv
<1>7. Types'
  BY <1>1, <1>2, <1>4, <1>5 DEF IInv, Types
<1>8. FeedNumbered'
  BY <1>1, <1>2, <1>3, <1>4 DEF IInv, FeedNumbered
<1>9. comp' = comp /\ since \in 0 .. Len(log) /\ began \in 0 .. Len(log)
  BY <1>5 DEF comp, IInv, Types
<1>10. WalkIsPrefix'
  BY <1>5, <1>6, <1>9 DEF IInv, WalkIsPrefix
<1>11. DoubtIsEarned'
  <2> SUFFICES ASSUME phase = "doubt"
               PROVE  found = {} /\ \E n \in began .. Len(log') : Before(comp.project, n)' = {}
    BY <1>5, <1>9 DEF DoubtIsEarned
  <2>1. found = {} /\ \E n \in began .. Len(log) : Before(comp.project, n) = {}
    BY DEF IInv, DoubtIsEarned
  <2> QED BY <1>1, <1>4, <1>6, <1>9, <2>1
<1>12. Going' /\ NothingTooEarly'
  BY <1>5 DEF IInv, Going, NothingTooEarly
<1>13. ReportsFounded'
  <2>1. tracked \subseteq tracked' /\ Len(log') \in Nat /\ Len(log) <= Len(log')
    BY <1>1, <1>2, <1>4
  <2> QED BY <1>5, <1>6, <2>1, ReportsStayFounded DEF IInv
<1> QED BY <1>7, <1>8, <1>10, <1>11, <1>12, <1>13 DEF IInv

(* A project that becomes tracked during the call keeps the invariant. *)
LEMMA TrackStep ==
  ASSUME IInv, NEW p \in Projects, Track(p)
  PROVE  IInv'
<1>1. /\ tracked' = tracked \cup {p}
      /\ UNCHANGED <<log, call, phase, reports, since, found, requests, began>>
  BY DEF Track, Others
<1>2. ReportsFounded'
  <2>1. \A q, n : Before(q, n)' = Before(q, n)
    BY <1>1 DEF Before, ChangesOf
  <2>2. tracked \subseteq tracked' /\ Len(log') \in Nat /\ Len(log) <= Len(log')
    BY <1>1 DEF IInv, Types
  <2> QED BY <1>1, <2>1, <2>2, ReportsStayFounded DEF IInv
<1>3. Types' /\ FeedNumbered' /\ Going' /\ NothingTooEarly'
  BY <1>1 DEF IInv, Types, FeedNumbered, Going, NothingTooEarly
<1>4. WalkIsPrefix' /\ DoubtIsEarned'
  BY <1>1 DEF IInv, WalkIsPrefix, DoubtIsEarned, Before, comp
<1> QED BY <1>2, <1>3, <1>4 DEF IInv

-----------------------------------------------------------------------------
(* The steps of the handler. *)

(* A call, refused or taken on (main.go:670-714), keeps the invariant. *)
LEMMA AskStep ==
  ASSUME IInv, NEW c \in Calls, Ask(c)
  PROVE  IInv'
<1>1. /\ phase = "idle" /\ call' = c /\ began' = Len(log)
      /\ phase' = IF Refused(c) THEN "done" ELSE "working"
      /\ UNCHANGED <<log, tracked, reports, since, found, requests>>
  BY DEF Ask, upstream
<1>2. reports = <<>> /\ found = {} /\ since = 0 /\ Len(log) \in Nat
  BY <1>1 DEF IInv, Types, NothingTooEarly, WalkIsPrefix
<1>3. c.components \in Seq(Component) /\ Len(c.components) \in Nat
  BY PagingAssumption DEF Call
<1>4. ~Refused(c) => Len(c.components) # 0
  BY <1>3, EmptySeq DEF Refused
<1>5. Types' /\ FeedNumbered'
  BY <1>1, <1>2 DEF IInv, Types, FeedNumbered
<1>6. Going' /\ NothingTooEarly' /\ DoubtIsEarned' /\ ReportsFounded'
  BY <1>1, <1>2, <1>3, <1>4
     DEF Going, NothingTooEarly, DoubtIsEarned, ReportsFounded
<1>7. WalkIsPrefix'
  <2>1. \A q : Before(q, 0) = {}
    BY ChangesNumbered DEF IInv
  <2>2. Before(comp.project, since)' = Before(comp'.project, 0)
    BY <1>1, <1>2 DEF Before, ChangesOf
  <2> QED BY <1>1, <1>2, <2>1, <2>2 DEF WalkIsPrefix
<1> QED BY <1>5, <1>6, <1>7 DEF IInv

(* A component at hand is one of the call, and names a project. *)
LEMMA ComponentAtHand ==
  ASSUME IInv, phase \in {"working", "doubt"}
  PROVE  /\ call \in Calls /\ ~Refused(call)
         /\ call.components \in Seq(Component)
         /\ Len(reports) \in Nat /\ Len(call.components) \in Nat
         /\ Len(reports) + 1 \in 1 .. Len(call.components)
         /\ comp \in Component /\ comp.project \in Projects
         /\ began \in 0 .. Len(log) /\ Len(log) \in Nat
<1>1. ~Refused(call) /\ Len(reports) < Len(call.components)
  BY DEF IInv, Going
<1>2. call \in Calls
  <2>1. NoCall.components = <<>>
    BY DEF NoCall
  <2>2. Refused(NoCall)
    BY <2>1 DEF Refused
  <2> QED BY <1>1, <2>2 DEF IInv, Types
<1>3. call.components \in Seq(Component) /\ Len(call.components) \in Nat
  BY <1>2, PagingAssumption DEF Call
<1>4. Len(reports) \in Nat
  BY DEF IInv, ReportsFounded
<1>5. Len(reports) + 1 \in 1 .. Len(call.components)
  BY <1>1, <1>3, <1>4
<1>6. comp \in Component /\ comp.project # Blank
  <2>1. /\ DOMAIN call.components = 1 .. Len(call.components)
        /\ call.components[Len(reports) + 1] \in Component
    BY <1>3, <1>5
  <2> QED BY <1>1, <1>5, <2>1 DEF comp, Refused
<1>7. began \in 0 .. Len(log) /\ Len(log) \in Nat
  BY DEF IInv, Types
<1> QED BY <1>1, <1>2, <1>3, <1>4, <1>5, <1>6, <1>7 DEF Component

(* A report that is founded ends the turn of the component at hand. *)
LEMMA ReportStep ==
  ASSUME IInv, phase \in {"working", "doubt"}, NEW r, Founded(r, comp), Report(r),
         requests' \in 0 .. MaxRequests, UNCHANGED <<log, tracked, call, began>>
  PROVE  IInv'
<1>1. /\ reports' = Append(reports, r) /\ since' = 0 /\ found' = {}
      /\ phase' = IF Len(reports') = Len(call.components) THEN "done" ELSE "working"
  BY DEF Report
<1>2. /\ call \in Calls /\ ~Refused(call)
      /\ Len(reports) \in Nat /\ Len(call.components) \in Nat
      /\ Len(reports) + 1 \in 1 .. Len(call.components)
      /\ Len(log) \in Nat
  BY ComponentAtHand
<1>3. /\ Len(reports') = Len(reports) + 1 /\ DOMAIN reports' = 1 .. Len(reports) + 1
      /\ DOMAIN reports = 1 .. Len(reports)
      /\ \A i \in DOMAIN reports : reports'[i] = reports[i]
      /\ reports'[Len(reports) + 1] = r
      /\ reports' \in Seq({reports'[i] : i \in DOMAIN reports'})
  <2> DEFINE Old == {reports[i] : i \in DOMAIN reports}
             New == {reports'[i] : i \in DOMAIN reports'}
             All == Old \cup {r}
  <2>1. reports \in Seq(Old)
    BY DEF IInv, ReportsFounded
  <2>2. Old \subseteq All /\ r \in All
    OBVIOUS
  <2> HIDE DEF Old, All
  <2>3. reports \in Seq(All)
    BY <2>1, <2>2, SeqMonotonic
  <2>4. /\ reports' \in Seq(All)
        /\ Len(reports') = Len(reports) + 1 /\ DOMAIN reports' = 1 .. Len(reports) + 1
        /\ DOMAIN reports = 1 .. Len(reports)
        /\ \A i \in DOMAIN reports : reports'[i] = reports[i]
        /\ reports'[Len(reports) + 1] = r
    BY <1>1, <2>2, <2>3
  <2>5. All = New
    BY <1>2, <2>4 DEF Old, All
  <2> HIDE DEF New
  <2>6. reports' \in Seq(New)
    BY <2>4, <2>5
  <2> QED BY <2>4, <2>6 DEF New
<1>4. ReportsFounded'
  <2>1. \A x, c : Founded(x, c) => Founded(x, c)'
    <3>1. \A q, n : Before(q, n)' = Before(q, n)
      BY DEF Before, ChangesOf
    <3> QED BY <1>2, <3>1, StaysFounded DEF IInv
  <2>2. \A i \in DOMAIN reports : Founded(reports[i], call.components[i])
    BY DEF IInv, ReportsFounded
  <2>3. (\A i \in DOMAIN reports : Founded(reports[i], call.components[i]))'
    <3> SUFFICES ASSUME NEW i \in DOMAIN reports'
                 PROVE  Founded(reports[i], call.components[i])'
      OBVIOUS
    <3>1. CASE i \in DOMAIN reports
      BY <1>3, <2>1, <2>2, <3>1
    <3>2. CASE i = Len(reports) + 1
      BY <1>3, <2>1, <3>2 DEF comp
    <3> QED BY <1>2, <1>3, <3>1, <3>2
  <2> QED BY <1>2, <1>3, <2>3 DEF ReportsFounded
<1>5. Types' /\ FeedNumbered'
  BY <1>1, <1>2 DEF IInv, Types, FeedNumbered
<1>6. Going' /\ NothingTooEarly' /\ DoubtIsEarned'
  BY <1>1, <1>2, <1>3 DEF Going, NothingTooEarly, DoubtIsEarned
<1>7. WalkIsPrefix'
  <2>1. \A q : Before(q, 0) = {}
    BY ChangesNumbered DEF IInv
  <2>2. Before(comp.project, since)' = Before(comp'.project, 0)
    BY <1>1 DEF Before, ChangesOf
  <2> QED BY <1>1, <2>1, <2>2 DEF WalkIsPrefix
<1> QED BY <1>4, <1>5, <1>6, <1>7 DEF IInv

(* The requests of a call stay within the bound of the model. *)
LEMMA RequestedType ==
  ASSUME Types, \/ Requested \/ UNCHANGED requests
  PROVE  requests' \in 0 .. MaxRequests
  BY PagingAssumption DEF Types, Requested

(* A component whose running version has no key (main.go:723-728) keeps    *)
(* the invariant.                                                          *)
LEMMA UnparsedStep ==
  ASSUME IInv, Unparsed
  PROVE  IInv'
<1>1. /\ phase = "working" /\ Report(Unanswered(comp, "unparsed"))
      /\ UNCHANGED <<log, tracked, call, requests, began>>
  BY DEF Unparsed, upstream
<1>2. Founded(Unanswered(comp, "unparsed"), comp)
  BY DEF Founded
<1> QED BY <1>1, <1>2, RequestedType, ReportStep DEF IInv

(* What every request for a page leaves alone (client.go:297-307). *)
LEMMA FetchingFacts ==
  ASSUME IInv, Fetching
  PROVE  /\ phase = "working"
         /\ UNCHANGED <<log, tracked, call, began>>
         /\ requests' \in 0 .. MaxRequests
  BY RequestedType DEF Fetching, upstream, IInv

(* A page that fails ends the component with a report that says so         *)
(* (main.go:733-738), whatever was read before.                            *)
LEMMA FetchFailsStep ==
  ASSUME IInv, FetchFails
  PROVE  IInv'
<1>1. Report(Unanswered(comp, "fetch failed")) /\ Fetching
  BY DEF FetchFails
<1>2. Founded(Unanswered(comp, "fetch failed"), comp)
  BY DEF Founded
<1> QED BY <1>1, <1>2, FetchingFacts, ReportStep

(* The page at hand, after what was read. *)
LEMMA PageAtHand ==
  ASSUME IInv, phase = "working", NEW page, page = Page(comp.project, since)
  PROVE  /\ page \subseteq Change
         /\ ~Full(page) => found \cup page = ChangesOf(comp.project, log)
         /\ Full(page) => /\ NextSince(page) \in 0 .. Len(log)
                          /\ found \cup page = Before(comp.project, NextSince(page))
<1>1. found = Before(comp.project, since) /\ since \in 0 .. Len(log)
  BY DEF IInv, WalkIsPrefix, Types
<1>2. Before(comp.project, Len(log)) = ChangesOf(comp.project, log)
  BY ChangesNumbered DEF IInv
<1> QED BY <1>1, <1>2, PageIsNext DEF IInv

(* A full page moves the cursor to its last change (client.go:305-316),    *)
(* and what was read is still all of the feed up to it.                    *)
LEMMA FetchPageStep ==
  ASSUME IInv, FetchPage
  PROVE  IInv'
<1> DEFINE page == Page(comp.project, since)
<1>1. /\ phase = "working" /\ Full(page)
      /\ found' = found \cup page /\ since' = NextSince(page)
      /\ UNCHANGED <<log, tracked, call, phase, reports, began>>
      /\ requests' \in 0 .. MaxRequests
  BY FetchingFacts DEF FetchPage
<1>2. /\ page \subseteq Change /\ NextSince(page) \in 0 .. Len(log)
      /\ found \cup page = Before(comp.project, NextSince(page))
  BY <1>1, PageAtHand
<1> HIDE DEF page
<1>3. Types' /\ FeedNumbered' /\ Going' /\ NothingTooEarly' /\ DoubtIsEarned'
  BY <1>1, <1>2
     DEF IInv, Types, FeedNumbered, Going, NothingTooEarly, DoubtIsEarned
<1>4. WalkIsPrefix'
  <2>1. comp' = comp
    BY <1>1 DEF comp
  <2>2. \A q, n : Before(q, n)' = Before(q, n)
    BY <1>1 DEF Before, ChangesOf
  <2> QED BY <1>1, <1>2, <2>1, <2>2 DEF WalkIsPrefix
<1>5. ReportsFounded'
  <2>1. \A q, n : Before(q, n)' = Before(q, n)
    BY <1>1 DEF Before, ChangesOf
  <2>2. tracked \subseteq tracked' /\ Len(log') \in Nat /\ Len(log) <= Len(log')
    BY <1>1 DEF IInv, Types
  <2> QED BY <1>1, <2>1, <2>2, ReportsStayFounded DEF IInv
<1> QED BY <1>3, <1>4, <1>5 DEF IInv

(* A page that is not full ends the walk (client.go:312): what was read is *)
(* all of the project's feed at the instant of that page.                  *)
LEMMA FetchLastStep ==
  ASSUME IInv, FetchLast
  PROVE  IInv'
<1> DEFINE all == ChangesOf(comp.project, log)
<1>1. Fetching /\ ~Full(Page(comp.project, since))
  BY DEF FetchLast
<1>2. /\ phase = "working" /\ requests' \in 0 .. MaxRequests
      /\ UNCHANGED <<log, tracked, call, began>>
  BY <1>1, FetchingFacts
<1>3. found \cup Page(comp.project, since) = all
  BY <1>1, <1>2, PageAtHand
<1>4. all = Before(comp.project, Len(log)) /\ Len(log) \in began .. Len(log)
  BY <1>2, ComponentAtHand, ChangesNumbered DEF IInv
<1>5. CASE all = {}
  <2>1. /\ found = {} /\ phase' = "doubt"
        /\ UNCHANGED <<reports, since, found>>
    BY <1>3, <1>5 DEF FetchLast
  <2>2. Types' /\ FeedNumbered' /\ WalkIsPrefix'
    BY <1>2, <2>1 DEF IInv, Types, FeedNumbered, WalkIsPrefix
  <2>3. Going' /\ NothingTooEarly'
    BY <1>2, <2>1 DEF IInv, Going, NothingTooEarly
  <2>4. comp' = comp /\ \A q, n : Before(q, n)' = Before(q, n)
    BY <1>2, <2>1 DEF comp, Before, ChangesOf
  <2>5. DoubtIsEarned'
    BY <1>2, <1>4, <1>5, <2>1, <2>4 DEF DoubtIsEarned
  <2>6. ReportsFounded'
    <3>1. tracked \subseteq tracked' /\ Len(log') \in Nat /\ Len(log) <= Len(log')
      BY <1>2 DEF IInv, Types
    <3> QED BY <1>2, <2>1, <2>4, <3>1, ReportsStayFounded DEF IInv
  <2> QED BY <2>2, <2>3, <2>5, <2>6 DEF IInv
<1>6. CASE all # {}
  <2>1. Report(Answered(call, comp, all, ""))
    BY <1>3, <1>6 DEF FetchLast
  <2>2. Founded(Answered(call, comp, all, ""), comp)
    BY <1>4, <1>6 DEF Founded, Probes
  <2> QED BY <1>2, <2>1, <2>2, ReportStep
<1> QED BY <1>5, <1>6

(* What the probe said of a project in doubt is founded. *)
LEMMA ProbeStep ==
  ASSUME IInv, Probing, NEW probe \in Probes \ {""},
         probe = "quiet" => comp.project \in tracked,
         Report(Answered(call, comp, {}, probe))
  PROVE  IInv'
<1>1. /\ phase = "doubt" /\ UNCHANGED <<log, tracked, call, began>>
      /\ requests' \in 0 .. MaxRequests
  BY RequestedType DEF Probing, upstream, IInv
<1>2. PICK n \in began .. Len(log) : Before(comp.project, n) = {}
  BY <1>1 DEF IInv, DoubtIsEarned
<1>3. Founded(Answered(call, comp, {}, probe), comp)
  BY <1>2 DEF Founded
<1> QED BY <1>1, <1>3, ReportStep

(***************************************************************************)
(* The invariant of the walk.                                              *)
(***************************************************************************)
LEMMA InvInit == Init => IInv
<1> SUFFICES ASSUME Init PROVE IInv
  OBVIOUS
<1>1. Types /\ FeedNumbered
  BY PagingAssumption, EmptySeq DEF Init, Types, FeedNumbered
<1>2. Going /\ WalkIsPrefix /\ DoubtIsEarned /\ NothingTooEarly
  BY DEF Init, Going, WalkIsPrefix, DoubtIsEarned, NothingTooEarly
<1>3. ReportsFounded
  <2>1. reports = <<>> /\ DOMAIN reports = {} /\ Len(reports) = 0
    BY EmptySeq DEF Init
  <2>2. call.components = <<>>
    BY DEF Init, NoCall
  <2>3. reports \in Seq({reports[i] : i \in DOMAIN reports})
    BY <2>1, EmptySeq
  <2> QED BY <2>1, <2>2, <2>3, EmptySeq DEF ReportsFounded
<1> QED BY <1>1, <1>2, <1>3 DEF IInv

(* Every step of the handler and of upstream keeps the invariant. *)
LEMMA InvStep == IInv /\ [Next]_vars => IInv'
<1> SUFFICES ASSUME IInv, [Next]_vars
             PROVE  IInv'
  OBVIOUS
<1>1. CASE UNCHANGED vars
  <2> USE <1>1 DEF vars
  <2>1. Types' /\ FeedNumbered' /\ Going' /\ NothingTooEarly'
    BY DEF IInv, Types, FeedNumbered, Going, NothingTooEarly
  <2>2. comp' = comp /\ \A q, n : Before(q, n)' = Before(q, n)
    BY DEF comp, Before, ChangesOf
  <2>3. WalkIsPrefix' /\ DoubtIsEarned'
    BY <2>2 DEF IInv, WalkIsPrefix, DoubtIsEarned
  <2>4. ReportsFounded'
    <3>1. tracked \subseteq tracked' /\ Len(log') \in Nat /\ Len(log) <= Len(log')
      BY DEF IInv, Types
    <3> QED BY <2>2, <3>1, ReportsStayFounded DEF IInv
  <2> QED BY <2>1, <2>3, <2>4 DEF IInv
<1>2. ASSUME NEW p \in Projects, NEW u \in Universe, Publish(p, u)
      PROVE  IInv'
  BY <1>2, PublishStep
<1>3. ASSUME NEW p \in Projects, Track(p)
      PROVE  IInv'
  BY <1>3, TrackStep
<1>4. ASSUME NEW c \in Calls, Ask(c)
      PROVE  IInv'
  BY <1>4, AskStep
<1>5. CASE Unparsed
  BY <1>5, UnparsedStep
<1>6. CASE FetchPage
  BY <1>6, FetchPageStep
<1>7. CASE FetchLast
  BY <1>7, FetchLastStep
<1>8. CASE FetchFails
  BY <1>8, FetchFailsStep
<1>9. CASE Probe
  BY <1>9, ProbeStep DEF Probe, Probes
<1>10. CASE ProbeFails
  BY <1>10, ProbeStep DEF ProbeFails, Probes
<1> QED BY <1>1, <1>2, <1>3, <1>4, <1>5, <1>6, <1>7, <1>8, <1>9, <1>10
        DEF Next, Step, Finished

(* The walk is connected to the feed, and the reports to both. *)
THEOREM WalkInvariant == Spec => []IInv
<1> QED BY InvInit, InvStep, PTL DEF Spec

-----------------------------------------------------------------------------
(* What follows for the reports. *)

(* What a report on a component that was answered says (main.go:715-861). *)
LEMMA AnsweredFields ==
  \A c, scanned, probe :
    /\ Answered(call, c, scanned, probe).project = c.project
    /\ Answered(call, c, scanned, probe).outcome = "answered"
    /\ Answered(call, c, scanned, probe).scanned = scanned
    /\ Answered(call, c, scanned, probe).probe = probe
  BY DEF Answered

(* What a report on a component without an answer says (main.go:723-738). *)
LEMMA UnansweredFields ==
  \A c, outcome :
    /\ Unanswered(c, outcome).project = c.project
    /\ Unanswered(c, outcome).outcome = outcome
    /\ Unanswered(c, outcome).probe = ""
  BY DEF Unanswered

(* What the reports say, field by field. *)
LEMMA FoundedFields ==
  ASSUME NEW r, NEW c, Founded(r, c)
  PROVE  /\ r.project = c.project
         /\ \/ /\ r.outcome \in {"unparsed", "fetch failed"}
               /\ r.probe = ""
            \/ \E n \in began .. Len(log), probe \in Probes :
                 /\ r = Answered(call, c, Before(c.project, n), probe)
                 /\ r.outcome = "answered"
                 /\ r.scanned = Before(c.project, n) /\ r.probe = probe
                 /\ probe = "" <=> Before(c.project, n) # {}
                 /\ probe = "quiet" => c.project \in tracked
<1>1. CASE \E outcome \in {"unparsed", "fetch failed"} : r = Unanswered(c, outcome)
  <2>1. PICK outcome \in {"unparsed", "fetch failed"} : r = Unanswered(c, outcome)
    BY <1>1
  <2> QED BY <2>1, UnansweredFields
<1>2. CASE \E n \in began .. Len(log), probe \in Probes :
             /\ r = Answered(call, c, Before(c.project, n), probe)
             /\ probe = "" <=> Before(c.project, n) # {}
             /\ probe = "quiet" => c.project \in tracked
  <2>1. PICK n \in began .. Len(log), probe \in Probes :
             /\ r = Answered(call, c, Before(c.project, n), probe)
             /\ probe = "" <=> Before(c.project, n) # {}
             /\ probe = "quiet" => c.project \in tracked
    BY <1>2
  <2>2. /\ r.project = c.project /\ r.outcome = "answered"
        /\ r.scanned = Before(c.project, n) /\ r.probe = probe
    <3> DEFINE a == Answered(call, c, Before(c.project, n), probe)
    <3>1. /\ a.project = c.project /\ a.outcome = "answered"
          /\ a.scanned = Before(c.project, n) /\ a.probe = probe
      BY AnsweredFields
    <3> HIDE DEF a
    <3>2. r = a
      BY <2>1 DEF a
    <3> QED BY <3>1, <3>2
  <2> QED BY <2>1, <2>2
<1> QED BY <1>1, <1>2 DEF Founded

(* An answer is made of what there was. *)
LEMMA AnsweredReport ==
  ASSUME NEW r, NEW c, Founded(r, c), r.outcome = "answered"
  PROVE  \E n \in began .. Len(log), probe \in Probes :
           /\ r = Answered(call, c, Before(c.project, n), probe)
           /\ probe = "" <=> Before(c.project, n) # {}
           /\ probe = "quiet" => c.project \in tracked
<1>1. ~ \E outcome \in {"unparsed", "fetch failed"} : r = Unanswered(c, outcome)
  <2> SUFFICES ASSUME NEW outcome \in {"unparsed", "fetch failed"},
                      r = Unanswered(c, outcome)
               PROVE  FALSE
    OBVIOUS
  <2>1. r.outcome = outcome
    BY UnansweredFields
  <2> QED BY <2>1
<1> QED BY <1>1 DEF Founded

(* A report is on the component of its place in the call (main.go:714). *)
LEMMA ReportFacts ==
  ASSUME IInv, NEW i \in DOMAIN reports
  PROVE  /\ i \in DOMAIN call.components
         /\ call.components[i] \in Component
         /\ call.components[i].project \in Projects
         /\ reports[i].project = call.components[i].project
         /\ Founded(reports[i], call.components[i])
         /\ began \in 0 .. Len(log) /\ Len(log) \in Nat
<1>1. phase # "idle" /\ ~Refused(call)
  BY EmptySeq DEF IInv, NothingTooEarly
<1>2. call \in Calls
  <2>1. NoCall.components = <<>>
    BY DEF NoCall
  <2> QED BY <1>1, <2>1 DEF IInv, Types, Refused
<1>3. /\ call.components \in Seq(Component)
      /\ DOMAIN call.components = 1 .. Len(call.components)
      /\ Len(call.components) \in Nat
  BY <1>2, PagingAssumption DEF Call
<1>4. i \in 1 .. Len(call.components)
  BY <1>3 DEF IInv, ReportsFounded
<1>5. call.components[i] \in Component /\ call.components[i].project # Blank
  <2>1. call.components[i] \in Component
    BY <1>3, <1>4
  <2>2. call.components[i].project # Blank
    BY <1>1, <1>3, <1>4 DEF Refused
  <2> QED BY <2>1, <2>2
<1>6. Founded(reports[i], call.components[i])
  BY DEF IInv, ReportsFounded
<1>7. reports[i].project = call.components[i].project
  BY <1>6, FoundedFields
<1>8. began \in 0 .. Len(log) /\ Len(log) \in Nat
  BY DEF IInv, Types
<1> QED BY <1>3, <1>4, <1>5, <1>6, <1>7, <1>8 DEF Component

(* The invariant has the types in it. *)
LEMMA InvTypeOK == IInv => TypeOK
<1> SUFFICES ASSUME IInv PROVE TypeOK
  OBVIOUS
<1>1. ASSUME NEW i \in DOMAIN reports
      PROVE  /\ reports[i].outcome \in Outcomes
             /\ reports[i].probe \in Probes
             /\ reports[i].scanned = {} =>
                  reports[i].outcome # "answered" \/ reports[i].probe # ""
  <2>1. Founded(reports[i], call.components[i])
    BY <1>1, ReportFacts
  <2> QED BY <2>1, FoundedFields DEF Outcomes, Probes
<1> QED BY <1>1 DEF IInv, Types, TypeOK

(* A founded report is made of all there was of its project at one instant *)
(* of the call.                                                            *)
LEMMA InvComplete == IInv => Complete
<1> SUFFICES ASSUME IInv, NEW i \in DOMAIN reports, reports[i].outcome = "answered"
             PROVE  \E n \in began .. Len(log) :
                      reports[i].scanned = Before(reports[i].project, n)
  BY DEF Complete
<1> DEFINE r == reports[i]
           c == call.components[i]
<1>1. Founded(r, c)
  BY ReportFacts
<1> HIDE DEF r, c
<1>2. /\ r.project = c.project
      /\ \/ r.outcome \in {"unparsed", "fetch failed"}
         \/ \E n \in began .. Len(log) : r.scanned = Before(c.project, n)
  BY <1>1, FoundedFields, Zenon
<1> QED BY <1>2 DEF r

(* Reports are in the order of the components, one for each, and none for  *)
(* a call that was refused.                                                *)
LEMMA InvEachItsOwn == IInv => EachItsOwn
<1> SUFFICES ASSUME IInv PROVE EachItsOwn
  OBVIOUS
<1>1. Len(reports) <= Len(call.components)
  BY DEF IInv, ReportsFounded
<1>2. phase = "done" => Len(reports) = IF Refused(call) THEN 0 ELSE Len(call.components)
  BY EmptySeq DEF IInv, NothingTooEarly
<1>3. \A i \in DOMAIN reports :
        /\ reports[i].project = call.components[i].project
        /\ reports[i].project \in Projects
  BY ReportFacts
<1> QED BY <1>1, <1>2, <1>3 DEF EachItsOwn

(* No severity is below the least (EffSeverity). *)
LEMMA SeverityIsRank ==
  ASSUME NEW d \in Change
  PROVE  EffSeverity(d) \in Severities
<1> DEFINE ranks == {a.sev : a \in d.advisories} \cup {0}
<1>1. d.advisories \subseteq [id : Ids, sev : Severities]
  BY DEF Change
<1>2. ranks \in SUBSET Nat /\ 0 \in ranks /\ \A r \in ranks : r <= 4
  BY <1>1 DEF Severities
<1> HIDE DEF ranks
<1>3. \E r \in ranks : \A s \in ranks : s <= r
  BY <1>2, GreatestExists
<1>4. Worst(ranks) \in ranks
  BY <1>3 DEF Worst
<1>5. Worst(ranks) \in 0 .. 4
  <2> DEFINE worst == Worst(ranks)
  <2>1. worst \in Nat /\ worst <= 4
    BY <1>2, <1>4
  <2> HIDE DEF worst
  <2>2. worst \in 0 .. 4
    BY <2>1
  <2> QED BY <2>2 DEF worst
<1> QED BY <1>5 DEF EffSeverity, Severities, ranks

(* A report that lists and notes nothing is a clean bill. *)
LEMMA CleanBill ==
  ASSUME IInv, NEW r, NEW c, Founded(r, c), r.outcome = "answered"
  PROVE  /\ r.relevant = {}
         /\ r.notes \subseteq {"quiet"}
         /\ MinRank(call) = 0
         /\ ~TargetHonoured(c)
         => /\ c.project \in tracked
            /\ \A d \in Before(c.project, began) :
                 /\ SameLine(d.version, c.version)
                 /\ Key(d.version) # <<>>
                 /\ ~Above(d.version, Key(c.version))
<1>1. began \in 0 .. Len(log) /\ Len(log) \in Nat
  BY DEF IInv, Types
<1>2. PICK n \in began .. Len(log), probe \in Probes :
        /\ r = Answered(call, c, Before(c.project, n), probe)
        /\ probe = "" <=> Before(c.project, n) # {}
        /\ probe = "quiet" => c.project \in tracked
  BY AnsweredReport
<1> SUFFICES ASSUME r.relevant = {}, r.notes \subseteq {"quiet"}, MinRank(call) = 0,
                    ~TargetHonoured(c)
             PROVE  /\ c.project \in tracked
                    /\ \A d \in Before(c.project, began) :
                         /\ SameLine(d.version, c.version)
                         /\ Key(d.version) # <<>>
                         /\ ~Above(d.version, Key(c.version))
  OBVIOUS
<1> DEFINE scanned == Before(c.project, n)
<1>3. /\ r.relevant = Relevant(c, 0, scanned)
      /\ r.notes = Notes(c, scanned) \cup ({probe} \ {""})
  <2> DEFINE a == Answered(call, c, scanned, probe)
  <2>1. /\ a.relevant = Relevant(c, MinRank(call), scanned)
        /\ a.notes = Notes(c, scanned) \cup ({probe} \ {""})
    BY DEF Answered
  <2> HIDE DEF a, scanned
  <2>2. r = a
    BY <1>2 DEF a, scanned
  <2> QED BY <2>1, <2>2
<1>4. Before(c.project, began) \subseteq scanned
  BY <1>1, ChangesNumbered DEF IInv, Before
<1>5. /\ \A d \in ChangesOf(c.project, log) : d \in Change
      /\ scanned \subseteq ChangesOf(c.project, log)
  BY ChangesNumbered DEF IInv, Before
<1> HIDE DEF scanned
<1>6. Unparseable(c, scanned) = {} /\ OffLine(c, scanned) = {} /\ Settled(c, scanned) = {}
  <2>1. /\ "unparseable" \notin Notes(c, scanned)
        /\ "other lines" \notin Notes(c, scanned)
        /\ "settled" \notin Notes(c, scanned)
    <3>1. Notes(c, scanned) \subseteq {"quiet"}
      BY <1>3, Zenon
    <3> QED BY <3>1
  <2> QED BY <2>1 DEF Notes
<1>7. c.project \in tracked
  <2>1. CASE probe = ""
    <3>1. PICK d \in scanned : TRUE
      BY <1>2, <2>1 DEF scanned
    <3>2. PICK j \in DOMAIN log : log[j].project = c.project
      BY <1>5, <3>1 DEF ChangesOf
    <3> QED BY <3>2 DEF IInv, FeedNumbered
  <2>2. CASE probe # ""
    BY <1>2, <1>3, <2>2
  <2> QED BY <2>1, <2>2
<1>8. ASSUME NEW d \in scanned
      PROVE  /\ SameLine(d.version, c.version)
             /\ Key(d.version) # <<>>
             /\ ~Above(d.version, Key(c.version))
  <2>1. SameLine(c.version, d.version)
    BY <1>6 DEF OffLine
  <2>2. d \in OnLine(c, scanned) /\ Key(d.version) # <<>>
    BY <1>6, <2>1 DEF OnLine, OffLine, Unparseable
  <2>3. EffSeverity(d) >= 0
    BY <1>5, SeverityIsRank DEF Severities
  <2>4. ~Above(d.version, Key(c.version))
    BY <1>3, <1>6, <2>2, <2>3 DEF Relevant, Newer, Parsed, InRange
  <2> QED BY <2>1, <2>2, <2>4 DEF SameLine
<1> QED BY <1>1, <1>4, <1>7, <1>8

(* A founded report that lists and notes nothing is on a tracked project,  *)
(* whose changes are all on the line, readable and not above the running   *)
(* version.                                                                *)
LEMMA InvAllClear == IInv => AllClear
<1> SUFFICES ASSUME IInv, NEW i \in DOMAIN reports
             PROVE  LET r == reports[i]
                        c == call.components[i]
                    IN  /\ r.outcome = "answered"
                        /\ r.relevant = {}
                        /\ r.notes \subseteq {"quiet"}
                        /\ MinRank(call) = 0
                        /\ ~TargetHonoured(c)
                        => /\ r.project \in tracked
                           /\ \A d \in Before(r.project, began) :
                                /\ SameLine(d.version, c.version)
                                /\ Key(d.version) # <<>>
                                /\ ~Above(d.version, Key(c.version))
  BY DEF AllClear
<1> DEFINE r == reports[i]
           c == call.components[i]
<1>1. Founded(r, c) /\ r.project = c.project
  BY ReportFacts
<1> HIDE DEF r, c
<1> QED BY <1>1, CleanBill, Zenon DEF r, c

(* The state of a call has its types, and an empty answer was asked about. *)
THEOREM TypesHold == Spec => []TypeOK
<1> QED BY WalkInvariant, InvTypeOK, PTL

(* However pages and publications interleave, an answered component is     *)
(* judged by the whole of its project's feed at an instant of the call.    *)
THEOREM CompleteHolds == Spec => []Complete
<1> QED BY WalkInvariant, InvComplete, PTL

(* Every component has its own report, in order, or the call has none.     *)
THEOREM EachItsOwnHolds == Spec => []EachItsOwn
<1> QED BY WalkInvariant, InvEachItsOwn, PTL

(* A clean bill is one: nothing of the project is newer than what runs, of *)
(* another line or unreadable, and its silence was asked about.            *)
THEOREM AllClearHolds == Spec => []AllClear
<1> QED BY WalkInvariant, InvAllClear, PTL


-----------------------------------------------------------------------------
(* Page by page amounts to one look. *)

(* A call starts as the abstract one does. *)
LEMMA AtomicInit == Init => Atomic!Init
  BY DEF Init, Atomic!Init, NoCall, Atomic!NoCall

(* A report is appended by both in the same way (main.go:860). *)
LEMMA AtomicReport ==
  ASSUME NEW r, Report(r)
  PROVE  Atomic!Report(r)
  BY DEF Report, Atomic!Report

(* Every step of the paged call is a step of the abstract one, or is not   *)
(* seen by it: a full page is a stutter.                                   *)
LEMMA AtomicStep == IInv /\ [Next]_vars => [Atomic!Next]_(Atomic!vars)
<1> SUFFICES ASSUME IInv, [Next]_vars
             PROVE  [Atomic!Next]_(Atomic!vars)
  OBVIOUS
<1>0. comp = Atomic!comp
  BY DEF comp, Atomic!comp
<1>1. CASE UNCHANGED vars
  BY <1>1 DEF vars, Atomic!vars
<1>2. ASSUME NEW p \in Projects, NEW u \in Universe, Publish(p, u)
      PROVE  Atomic!Next
  <2>1. Atomic!Publish(p, u)
    BY <1>2 DEF Publish, Others, Atomic!Publish, Atomic!Upstream
  <2> QED BY <2>1 DEF Atomic!Next
<1>3. ASSUME NEW p \in Projects, Track(p)
      PROVE  Atomic!Next
  <2>1. Atomic!Track(p)
    BY <1>3 DEF Track, Others, Atomic!Track, Atomic!Upstream
  <2> QED BY <2>1 DEF Atomic!Next
<1>4. ASSUME NEW c \in Calls, Ask(c)
      PROVE  Atomic!Next
  <2>1. Atomic!Ask(c)
    BY <1>4 DEF Ask, upstream, Atomic!Ask
  <2> QED BY <2>1 DEF Atomic!Next
<1>5. CASE Unparsed
  <2>1. Atomic!Unparsed
    BY <1>0, <1>5, AtomicReport DEF Unparsed, upstream, Atomic!Unparsed, Atomic!Handler
  <2> QED BY <2>1 DEF Atomic!Next
<1>6. CASE FetchPage
  BY <1>6 DEF FetchPage, Fetching, upstream, Atomic!vars
<1>7. CASE FetchLast
  <2> DEFINE all == ChangesOf(comp.project, log)
  <2>1. /\ phase = "working" /\ Key(comp.version) # <<>>
        /\ ~Full(Page(comp.project, since))
        /\ UNCHANGED <<log, tracked, call>>
    BY <1>7 DEF FetchLast, Fetching, upstream
  <2>2. found \cup Page(comp.project, since) = all
    BY <2>1, PageAtHand
  <2>3. CASE all = {}
    <3>1. phase' = "doubt" /\ UNCHANGED reports
      BY <1>7, <2>2, <2>3 DEF FetchLast
    <3>2. Atomic!Silence
      BY <1>0, <2>1, <2>3, <3>1 DEF Atomic!Silence, Atomic!Handler
    <3> QED BY <3>2 DEF Atomic!Next
  <2>4. CASE all # {}
    <3>1. Report(Answered(call, comp, all, ""))
      BY <1>7, <2>2, <2>4 DEF FetchLast
    <3>2. Atomic!Answer
      BY <1>0, <2>1, <2>4, <3>1, AtomicReport DEF Atomic!Answer, Atomic!Handler
    <3> QED BY <3>2 DEF Atomic!Next
  <2> QED BY <2>3, <2>4
<1>8. CASE FetchFails
  <2>1. Atomic!FetchFails
    BY <1>0, <1>8, AtomicReport
       DEF FetchFails, Fetching, upstream, Atomic!FetchFails, Atomic!Handler
  <2> QED BY <2>1 DEF Atomic!Next
<1>9. CASE Probe
  <2>1. Atomic!Probe
    BY <1>0, <1>9, AtomicReport
       DEF Probe, Probing, upstream, Atomic!Probe, Atomic!Handler
  <2> QED BY <2>1 DEF Atomic!Next
<1>10. CASE ProbeFails
  <2>1. Atomic!ProbeFails
    BY <1>0, <1>10, AtomicReport
       DEF ProbeFails, Probing, upstream, Atomic!ProbeFails, Atomic!Handler
  <2> QED BY <2>1 DEF Atomic!Next
<1> QED BY <1>1, <1>2, <1>3, <1>4, <1>5, <1>6, <1>7, <1>8, <1>9, <1>10
        DEF Next, Step, Finished

(* The paged walk implements the atomic promise: what a call reports could *)
(* have been read at one instant per component, whatever is published      *)
(* between two pages.                                                      *)
THEOREM WalkIsAtomic == Spec => ImplementsAtomicCheck
<1>1. IInv /\ [Next]_vars => [Atomic!Next]_(Atomic!vars)
  BY AtomicStep
<1> QED BY <1>1, AtomicInit, WalkInvariant, PTL DEF Spec, ImplementsAtomicCheck, Atomic!Spec

-----------------------------------------------------------------------------
(***************************************************************************)
(* The budget of requests.  Spent is the budget of the first n components, *)
(* and RequestsCounted what the walk has spent of it: all of that and the  *)
(* k requests of the component at hand, which brought a full page each or  *)
(* found its feed empty.                                                   *)
(***************************************************************************)
Opening(n) == {i \in DOMAIN call.components : i <= n}

Budgets == [i \in DOMAIN call.components |-> Budget(i)]

Spent(n) == Cardinality(Pairs(Budgets, Opening(n)))

RequestsCounted ==
  \E k \in Nat :
    /\ requests <= Spent(Len(reports)) + k
    /\ phase \in {"idle", "done"} => k = 0
    /\ phase = "working" => Cardinality(found) = PageSize * k
    /\ phase = "doubt" => k <= 1

(* A quotient is at least what fits, and grows with what is divided. *)
LEMMA QuotientIs ==
  ASSUME NEW a \in Nat, NEW b \in Nat \ {0}
  PROVE  /\ a \div b \in Nat /\ b * (a \div b) <= a
         /\ \A k \in Nat : b * k <= a => k <= a \div b
<1>1. a \div b \in Int /\ a = b * (a \div b) + (a % b) /\ a % b \in 0 .. b - 1
  OBVIOUS
<1>2. PICK q \in Int : q = a \div b
  BY <1>1
<1>3. b * q <= a /\ a < b * (q + 1)
  BY <1>1, <1>2
<1>4. ASSUME NEW k \in Nat, b * k <= a PROVE k <= q
  <2> SUFFICES ASSUME q + 1 <= k PROVE FALSE
    BY <1>2
  <2>1. b * (q + 1) <= b * k
    BY <1>2
  <2> QED BY <1>2, <1>3, <1>4, <2>1
<1>5. q \in Nat
  <2> SUFFICES ASSUME q + 1 <= 0 PROVE FALSE
    BY <1>2
  <2>1. b * (q + 1) <= b * 0
    BY <1>2
  <2> QED BY <1>2, <1>3, <2>1
<1> QED BY <1>2, <1>3, <1>4, <1>5

(* A call has finitely many components, and a budget for each of them.     *)
LEMMA BudgetsAre ==
  ASSUME Types, FeedNumbered
  PROVE  /\ IsFiniteSet(DOMAIN call.components)
         /\ Len(call.components) \in Nat
         /\ DOMAIN call.components = 1 .. Len(call.components)
         /\ \A i \in DOMAIN call.components :
              /\ Budgets[i] \in Nat
              /\ Budgets[i] = Budget(i)
              /\ \A k \in Nat :
                   PageSize * k <= Cardinality(ChangesOf(call.components[i].project, log))
                     => k + 2 <= Budgets[i]
<1>1. call.components \in Seq(Component)
  <2>1. CASE call \in Calls
    <3>1. call \in Call
      BY <2>1, PagingAssumption
    <3> QED BY <3>1 DEF Call
  <2>2. CASE call = NoCall
    <3>1. call.components = <<>>
      BY <2>2 DEF NoCall
    <3> QED BY <3>1, EmptySeq
  <2> QED BY <2>1, <2>2 DEF Types
<1>2. /\ Len(call.components) \in Nat
      /\ DOMAIN call.components = 1 .. Len(call.components)
  BY <1>1, LenProperties
<1>3. IsFiniteSet(DOMAIN call.components)
  <2>1. \A m \in Int : IsFiniteSet(1 .. m)
    BY FS_Interval
  <2> QED BY <1>2, <2>1
<1>4. ASSUME NEW i \in DOMAIN call.components
      PROVE  /\ Budgets[i] \in Nat
             /\ Budgets[i] = Budget(i)
             /\ \A k \in Nat :
                  PageSize * k <= Cardinality(ChangesOf(call.components[i].project, log))
                    => k + 2 <= Budgets[i]
  <2>1. PICK m : m = Cardinality(ChangesOf(call.components[i].project, log))
    OBVIOUS
  <2>2. m \in Nat
    BY <2>1, ChangesNumbered, FS_CardinalityType
  <2>3. m \div PageSize \in Nat /\ \A k \in Nat : PageSize * k <= m => k <= m \div PageSize
    BY <2>2, QuotientIs, PagingAssumption
  <2>4. Budgets[i] = Budget(i) /\ Budget(i) = (m \div PageSize) + 2
    BY <2>1 DEF Budgets, Budget
  <2> QED BY <2>1, <2>3, <2>4
<1> QED BY <1>2, <1>3, <1>4

(* The budget of the first n components is a number, it grows with n, and  *)
(* the next component adds its own.                                        *)
LEMMA SpentIs ==
  ASSUME Types, FeedNumbered, NEW n \in Nat
  PROVE  /\ Spent(n) \in Nat
         /\ \A m \in Nat : m <= n => Spent(m) <= Spent(n)
         /\ n + 1 \in DOMAIN call.components => Spent(n + 1) = Spent(n) + Budgets[n + 1]
<1>1. IsFiniteSet(DOMAIN call.components) /\ \A i \in DOMAIN call.components : Budgets[i] \in Nat
  BY BudgetsAre
<1>2. \A m : Opening(m) \in SUBSET (DOMAIN call.components)
  BY DEF Opening
<1>3. \A m : IsFiniteSet(Opening(m)) /\ \A i \in Opening(m) : Budgets[i] \in Nat
  BY <1>1, <1>2, FS_Subset
<1>4. \A m : Spent(m) \in Nat
  BY <1>3, PairsAreFinite, FS_CardinalityType DEF Spent
<1>5. ASSUME NEW m \in Nat, m <= n PROVE Spent(m) <= Spent(n)
  <2>1. Opening(m) \in SUBSET Opening(n)
    BY <1>5, BudgetsAre DEF Opening
  <2>2. \A i \in Opening(m) : Budgets[i] \in Nat /\ Budgets[i] <= Budgets[i]
    BY <1>3
  <2> QED BY <1>3, <2>1, <2>2, PairsGrow DEF Spent
<1>6. ASSUME n + 1 \in DOMAIN call.components
      PROVE  Spent(n + 1) = Spent(n) + Budgets[n + 1]
  <2>1. n + 1 \in Opening(n + 1) /\ Opening(n + 1) \ {n + 1} = Opening(n)
    BY <1>6, BudgetsAre DEF Opening
  <2>2. PICK D : D = Opening(n + 1)
    OBVIOUS
  <2>3. D \in SUBSET D /\ IsFiniteSet(D) /\ n + 1 \in D /\ D \ {n + 1} = Opening(n)
        /\ \A i \in D : Budgets[i] \in Nat
    BY <1>3, <2>1, <2>2
  <2>4. Cardinality(Pairs(Budgets, D))
          = Budgets[n + 1] + Cardinality(Pairs(Budgets, D \ {n + 1}))
    BY <2>3, PairsAdd
  <2>5. Spent(n + 1) = Budgets[n + 1] + Spent(n)
    BY Zenon, <2>2, <2>3, <2>4 DEF Spent
  <2> QED BY <1>1, <1>4, <1>6, <2>5
<1> QED BY <1>4, <1>5, <1>6

(* The sum of WithinBudget is what Spent counts. *)
LEMMA SumIsSpent ==
  ASSUME Types, FeedNumbered, NEW n \in Nat
  PROVE  MapThenSumSet(Budget, Opening(n)) = Spent(n)
<1> DEFINE D == Opening(n)
           F(g) == [s \in SUBSET D |-> IF s = {} THEN 0 ELSE Budget(Pick(s)) + g[s \ {Pick(s)}]]
           W(g) == [s \in SUBSET D |-> IF s = {} THEN 0 ELSE Budgets[Pick(s)] + g[s \ {Pick(s)}]]
           f == [s \in SUBSET D |-> Cardinality(Pairs(Budgets, s))]
<1>1. D \in SUBSET (DOMAIN call.components) /\ IsFiniteSet(D)
  BY BudgetsAre, FS_Subset DEF Opening
<1>2. \A i \in D : Budgets[i] \in Nat /\ Budgets[i] = Budget(i)
  BY <1>1, BudgetsAre
<1>3. \A g : F(g) = W(g)
  <2>1. \A s \in SUBSET D : s # {} => Pick(s) \in D
    BY DEF Pick
  <2>2. \A s \in SUBSET D : s # {} => Budget(Pick(s)) = Budgets[Pick(s)]
    <3> HIDE DEF D
    <3> QED BY Zenon, <1>2, <2>1
  <2> HIDE DEF D
  <2> QED BY <2>2
<1>4. IsSum(f, Budgets, D)
  <2> HIDE DEF D
  <2> QED BY <1>1, <1>2, SumIsOfPairs
<1>5. \A g : IsSum(g, Budgets, D) <=> g = f
  <2> HIDE DEF D, f
  <2> QED BY <1>1, <1>4, SumIsUnique
<1>6. \A g : g = F(g) <=> g = f
  <2>1. \A g : g = W(g) <=> IsSum(g, Budgets, D)
    BY Zenon DEF IsSum
  <2> HIDE DEF F, W, f, D
  <2> QED BY <1>3, <1>5, <2>1
<1>7. (CHOOSE g : g = F(g)) = f
  <2> HIDE DEF F, f
  <2> QED BY <1>6
<1>8. MapThenSumSet(Budget, D) = (CHOOSE g : g = F(g))[D]
  <2> HIDE DEF D
  <2> QED BY DEF MapThenSumSet, MapThenFoldSet, Pick
<1>9. f[D] = Spent(n)
  BY DEF Spent
<1> HIDE DEF f
<1> QED BY <1>7, <1>8, <1>9

(* What is published lowers no budget. *)
LEMMA SpentOnlyGrows ==
  ASSUME Types, FeedNumbered, NEW e, log' = Append(log, e), UNCHANGED call, NEW n \in Nat
  PROVE  Spent(n) <= Spent(n)' /\ Spent(n)' \in Nat
<1>1. DOMAIN log' = DOMAIN log \cup {Len(log) + 1} /\ \A i \in DOMAIN log : log'[i] = log[i]
      /\ Len(log) + 1 \notin DOMAIN log /\ log'[Len(log) + 1] = e
  BY DEF Types
<1>2. \A p : /\ ChangesOf(p, log) \subseteq ChangesOf(p, log')
             /\ ChangesOf(p, log') \subseteq ChangesOf(p, log) \cup {e.change}
  BY <1>1 DEF ChangesOf
<1>3. ASSUME NEW p
      PROVE  /\ Cardinality(ChangesOf(p, log)) \in Nat
             /\ Cardinality(ChangesOf(p, log')) \in Nat
             /\ Cardinality(ChangesOf(p, log)) <= Cardinality(ChangesOf(p, log'))
  <2>1. IsFiniteSet(ChangesOf(p, log))
    BY ChangesNumbered
  <2>2. IsFiniteSet(ChangesOf(p, log) \cup {e.change})
    BY <2>1, FS_AddElement
  <2>3. IsFiniteSet(ChangesOf(p, log'))
    BY <1>2, <2>2, FS_Subset
  <2> QED BY <1>2, <2>1, <2>3, FS_Subset, FS_CardinalityType
<1>4. ASSUME NEW i \in DOMAIN call.components
      PROVE  Budgets'[i] \in Nat /\ Budgets[i] <= Budgets'[i]
  <2>1. PICK a \in Nat : a = Cardinality(ChangesOf(call.components[i].project, log))
    BY <1>3
  <2>2. PICK b \in Nat : b = Cardinality(ChangesOf(call.components[i].project, log'))
    BY <1>3
  <2>3. a <= b
    BY <1>3, <2>1, <2>2
  <2>4. Budgets[i] = (a \div PageSize) + 2
    BY <2>1 DEF Budgets, Budget
  <2>5. Budgets'[i] = (b \div PageSize) + 2
    BY <2>2 DEF Budgets, Budget
  <2>6. PICK q \in Nat : q = a \div PageSize /\ PageSize * q <= a
    BY QuotientIs, PagingAssumption, Zenon
  <2>7. PageSize * q <= b
    <3>1. PageSize * q \in Int
      BY PagingAssumption
    <3> QED BY <2>3, <2>6, <3>1
  <2>8. q <= b \div PageSize /\ b \div PageSize \in Nat
    BY <2>7, QuotientIs, PagingAssumption
  <2> QED BY <2>4, <2>5, <2>6, <2>8
<1>5. PICK D : D = Opening(n)
  OBVIOUS
<1>6. Opening(n)' = D /\ D \in SUBSET (DOMAIN call.components) /\ IsFiniteSet(D)
  BY <1>5, BudgetsAre, FS_Subset DEF Opening
<1>7. \A i \in D : Budgets[i] \in Nat /\ Budgets'[i] \in Nat /\ Budgets[i] <= Budgets'[i]
  BY <1>4, <1>6, BudgetsAre
<1>8. PICK v, w : v = Budgets /\ w = Budgets'
  OBVIOUS
<1>9. Cardinality(Pairs(v, D)) <= Cardinality(Pairs(w, D)) /\ Cardinality(Pairs(w, D)) \in Nat
  BY <1>6, <1>7, <1>8, PairsGrow
<1> QED BY Zenon, <1>5, <1>6, <1>8, <1>9 DEF Spent

(* What a step leaves alone of feed and call leaves the budget alone. *)
LEMMA SpentStays ==
  ASSUME UNCHANGED <<log, call>>, NEW n
  PROVE  Spent(n)' = Spent(n)
<1>1. \A i : Budget(i)' = Budget(i)
  BY DEF Budget, ChangesOf
<1>2. Budgets' = Budgets /\ Opening(n)' = Opening(n)
  BY <1>1 DEF Budgets, Opening
<1> QED BY <1>2, Zenon DEF Spent, Pairs

(* Without components there is no budget. *)
LEMMA NothingSpent ==
  ASSUME \A i \in DOMAIN call.components : i \in Nat \ {0}
  PROVE  Spent(0) = 0
<1>1. Opening(0) = {}
  BY DEF Opening
<1>2. Pairs(Budgets, {}) = {}
  BY DEF Pairs
<1> QED BY <1>1, <1>2, FS_EmptySet DEF Spent

(* Before the turn of a component, what it may cost is not spent. *)
LEMMA TurnCosts ==
  ASSUME IInv, phase \in {"working", "doubt"}, NEW k \in Nat,
         phase = "working" => Cardinality(found) = PageSize * k,
         phase = "doubt" => k <= 1
  PROVE  Spent(Len(reports)) + k + 1 <= Spent(Len(reports) + 1)
<1>1. /\ Len(reports) \in Nat /\ Len(reports) + 1 \in 1 .. Len(call.components)
      /\ Types /\ FeedNumbered
  BY ComponentAtHand DEF IInv
<1>2. Len(reports) + 1 \in DOMAIN call.components
  BY <1>1, BudgetsAre
<1>3. PICK n \in Nat : n = Len(reports)
  BY <1>1
<1>4. Spent(n + 1) = Spent(n) + Budgets[n + 1] /\ Spent(n) \in Nat /\ Budgets[n + 1] \in Nat
  BY <1>1, <1>2, <1>3, SpentIs, BudgetsAre
<1>5. \A j \in Nat :
        PageSize * j <= Cardinality(ChangesOf(comp.project, log)) => j + 2 <= Budgets[n + 1]
  BY <1>1, <1>2, <1>3, BudgetsAre DEF comp
<1>6. /\ IsFiniteSet(ChangesOf(comp.project, log))
      /\ Cardinality(ChangesOf(comp.project, log)) \in Nat
  BY <1>1, ChangesNumbered, FS_CardinalityType
<1>7. k + 1 <= Budgets[n + 1]
  <2>1. CASE phase = "working"
    <3>1. found \subseteq ChangesOf(comp.project, log)
      BY <2>1 DEF IInv, WalkIsPrefix, Before
    <3>2. Cardinality(found) <= Cardinality(ChangesOf(comp.project, log))
      BY <1>6, <3>1, FS_Subset
    <3>3. PageSize * k <= Cardinality(ChangesOf(comp.project, log))
      BY <2>1, <3>2
    <3> QED BY <1>4, <1>5, <3>3
  <2>2. CASE phase = "doubt"
    <3>1. PageSize * 0 = 0
      BY PagingAssumption
    <3>2. 0 + 2 <= Budgets[n + 1]
      BY <1>5, <1>6, <3>1
    <3> QED BY <1>4, <2>2, <3>2
  <2> QED BY <2>1, <2>2
<1> QED BY <1>3, <1>4, <1>7

(* A full page brings PageSize changes that were not read before. *)
LEMMA PageIsNew ==
  ASSUME IInv, phase = "working", NEW page, page = Page(comp.project, since), Full(page)
  PROVE  Cardinality(found \cup page) = Cardinality(found) + PageSize
<1>1. IsFiniteSet(ChangesOf(comp.project, log))
  BY ChangesNumbered DEF IInv
<1>2. page \subseteq ChangesOf(comp.project, log) /\ \A c \in page : c.seq > since
  BY DEF Page
<1>3. found \subseteq ChangesOf(comp.project, log) /\ \A c \in found : c.seq <= since
  BY DEF IInv, WalkIsPrefix, Before
<1>4. \A c \in ChangesOf(comp.project, log) : c.seq \in Int
  BY ChangesNumbered DEF IInv, Types
<1>5. since \in Int
  BY DEF IInv, Types
<1>6. found \cap page = {}
  BY <1>2, <1>3, <1>4, <1>5
<1>7. /\ IsFiniteSet(found) /\ IsFiniteSet(page)
      /\ Cardinality(found) \in Nat /\ Cardinality(page) \in Nat
  BY <1>1, <1>2, <1>3, FS_Subset, FS_CardinalityType
<1>8. Cardinality(found \cup page)
        = Cardinality(found) + Cardinality(page) - Cardinality(found \cap page)
  BY <1>7, FS_Union
<1> QED BY <1>6, <1>7, <1>8, FS_EmptySet DEF Full

(* A report ends the turn of its component within its budget. *)
LEMMA ReportCounted ==
  ASSUME IInv, RequestsCounted, phase \in {"working", "doubt"}, NEW r, Report(r),
         UNCHANGED <<log, call>>, requests' \in Int, requests' <= requests + 1
  PROVE  RequestsCounted'
<1>1. PICK k \in Nat :
        /\ requests <= Spent(Len(reports)) + k
        /\ phase = "working" => Cardinality(found) = PageSize * k
        /\ phase = "doubt" => k <= 1
  BY DEF RequestsCounted
<1>2. PICK n \in Nat : n = Len(reports)
  BY ComponentAtHand
<1>3. Spent(n) + k + 1 <= Spent(n + 1)
  BY <1>1, <1>2, TurnCosts
<1>4. Spent(n) \in Nat /\ Spent(n + 1) \in Nat /\ requests \in Nat
  <2>1. \A m \in Nat : Spent(m) \in Nat
    BY SpentIs DEF IInv
  <2>2. n + 1 \in Nat /\ requests \in Nat
    BY DEF IInv, Types
  <2> QED BY <2>1, <2>2
<1>5. requests' <= Spent(n + 1) + 0
  BY <1>1, <1>2, <1>3, <1>4
<1>6. Len(reports') = n + 1
  <2>1. reports \in Seq({reports[i] : i \in DOMAIN reports})
    BY DEF IInv, ReportsFounded
  <2>2. PICK S : reports \in Seq(S) /\ r \in S
    <3> DEFINE Old == {reports[i] : i \in DOMAIN reports}
    <3>1. Old \subseteq Old \cup {r} /\ r \in Old \cup {r}
      OBVIOUS
    <3> HIDE DEF Old
    <3>2. reports \in Seq(Old \cup {r})
      BY <2>1, <3>1, SeqMonotonic DEF Old
    <3> QED BY <3>1, <3>2
  <2>3. reports' = Append(reports, r)
    BY DEF Report
  <2> QED BY <1>2, <2>2, <2>3, AppendProperties
<1>7. Spent(n + 1)' = Spent(n + 1)
  BY SpentStays
<1>8. requests' <= Spent(Len(reports))' + 0
  <2>1. Spent(Len(reports))' = Spent(n + 1)'
    BY <1>6 DEF Spent, Opening, Pairs
  <2> QED BY <1>5, <1>7, <2>1
<1>9. found' = {} /\ phase' \in {"working", "done"}
  BY DEF Report
<1>10. Cardinality(found') = PageSize * 0
  <2>1. PageSize * 0 = 0
    BY PagingAssumption
  <2> QED BY <1>9, <2>1, FS_EmptySet
<1> QED BY <1>8, <1>9, <1>10 DEF RequestsCounted

(* A step of the handler costs one request at most. *)
LEMMA OneRequest ==
  ASSUME Types, Requested \/ UNCHANGED requests
  PROVE  requests' \in Int /\ requests' <= requests + 1
  BY PagingAssumption DEF Types, Requested

(* Every step stays within the budget. *)
LEMMA RequestsCountedStep == IInv /\ RequestsCounted /\ [Next]_vars => RequestsCounted'
<1> SUFFICES ASSUME IInv, RequestsCounted, [Next]_vars
             PROVE  RequestsCounted'
  OBVIOUS
<1>1. ASSUME UNCHANGED vars PROVE RequestsCounted'
  <2>1. \A n : Spent(n)' = Spent(n)
    BY <1>1, SpentStays DEF vars
  <2>2. Spent(Len(reports))' = Spent(Len(reports))
    BY <1>1, <2>1 DEF vars, Spent, Opening, Pairs, Budgets, Budget, ChangesOf
  <2> QED BY <1>1, <2>2 DEF RequestsCounted, vars
<1>2. ASSUME NEW p \in Projects, NEW u \in Universe, Publish(p, u) PROVE RequestsCounted'
  <2>1. PICK e : log' = Append(log, e)
    BY <1>2 DEF Publish
  <2>2. UNCHANGED <<call, phase, reports, since, found, requests, began>>
    BY <1>2 DEF Publish, Others
  <2>3. PICK k \in Nat :
          /\ requests <= Spent(Len(reports)) + k
          /\ phase \in {"idle", "done"} => k = 0
          /\ phase = "working" => Cardinality(found) = PageSize * k
          /\ phase = "doubt" => k <= 1
    BY DEF RequestsCounted
  <2>4. PICK n \in Nat : n = Len(reports)
    BY DEF IInv, ReportsFounded
  <2>5. Spent(n) <= Spent(n)' /\ Spent(n) \in Nat /\ Spent(n)' \in Nat
    BY <2>1, <2>2, SpentOnlyGrows, SpentIs DEF IInv
  <2>6. Spent(n)' = Spent(Len(reports))'
    BY <2>2, <2>4 DEF Spent, Opening, Pairs
  <2>7. requests <= Spent(Len(reports))' + k
    BY <2>3, <2>4, <2>5, <2>6 DEF IInv, Types
  <2> QED BY <2>2, <2>3, <2>7 DEF RequestsCounted
<1>3. ASSUME NEW p \in Projects, Track(p) PROVE RequestsCounted'
  <2>1. UNCHANGED <<log, call, phase, reports, since, found, requests, began>>
    BY <1>3 DEF Track, Others
  <2>2. \A n : Spent(n)' = Spent(n)
    BY <2>1, SpentStays
  <2>3. Spent(Len(reports))' = Spent(Len(reports))
    BY <2>1 DEF Spent, Opening, Pairs, Budgets, Budget, ChangesOf
  <2> QED BY <2>1, <2>3 DEF RequestsCounted
<1>4. ASSUME NEW c \in Calls, Ask(c) PROVE RequestsCounted'
  <2>1. /\ phase = "idle" /\ call' = c /\ phase' \in {"done", "working"}
        /\ UNCHANGED <<log, tracked, reports, since, found, requests>>
    BY <1>4 DEF Ask, upstream
  <2>2. reports = <<>> /\ found = {} /\ Len(reports) = 0
    BY <2>1, EmptySeq DEF IInv, NothingTooEarly, WalkIsPrefix
  <2>3. requests <= 0
    <3>1. requests <= Spent(0) + 0
      BY <2>1, <2>2 DEF RequestsCounted
    <3>2. Spent(0) = 0
      BY NothingSpent, BudgetsAre DEF IInv
    <3> QED BY <3>1, <3>2
  <2>4. Spent(Len(reports))' = 0
    <3>1. c.components \in Seq(Component)
      BY PagingAssumption DEF Call
    <3>2. Opening(0)' = {}
      BY <2>1, <3>1, LenProperties DEF Opening
    <3>3. Opening(Len(reports))' = Opening(0)'
      BY <2>1, <2>2 DEF Opening
    <3>4. Pairs(Budgets', {}) = {}
      BY DEF Pairs
    <3> QED BY <3>2, <3>3, <3>4, FS_EmptySet DEF Spent
  <2>5. Cardinality(found') = PageSize * 0
    <3>1. PageSize * 0 = 0
      BY PagingAssumption
    <3> QED BY <2>1, <2>2, <3>1, FS_EmptySet
  <2>6. requests' <= Spent(Len(reports))' + 0
    BY <2>1, <2>3, <2>4
  <2> QED BY <2>1, <2>5, <2>6 DEF RequestsCounted
<1>5. ASSUME Unparsed PROVE RequestsCounted'
  <2>1. /\ phase = "working" /\ Report(Unanswered(comp, "unparsed"))
        /\ UNCHANGED <<log, call, requests>>
    BY <1>5 DEF Unparsed, upstream
  <2> QED BY <2>1, OneRequest, ReportCounted DEF IInv
<1>6. ASSUME Fetching
      PROVE  /\ phase = "working" /\ UNCHANGED <<log, call>>
             /\ requests' \in Int /\ requests' <= requests + 1
  BY <1>6, OneRequest DEF Fetching, upstream, IInv
<1>7. ASSUME FetchPage PROVE RequestsCounted'
  <2>1. PICK page : page = Page(comp.project, since)
    OBVIOUS
  <2>2. /\ Fetching /\ Full(page) /\ found' = found \cup page /\ UNCHANGED <<phase, reports>>
    BY <1>7, <2>1 DEF FetchPage
  <2>3. /\ phase = "working" /\ UNCHANGED <<log, call>>
        /\ requests' \in Int /\ requests' <= requests + 1
    BY <1>6, <2>2
  <2>4. PICK k \in Nat :
          requests <= Spent(Len(reports)) + k /\ Cardinality(found) = PageSize * k
    BY <2>3 DEF RequestsCounted
  <2>5. Cardinality(found') = PageSize * (k + 1)
    <3>1. Cardinality(found') = PageSize * k + PageSize
      BY <2>1, <2>2, <2>3, <2>4, PageIsNew
    <3>2. PageSize * (k + 1) = PageSize * k + PageSize
      BY PagingAssumption
    <3> QED BY <3>1, <3>2
  <2>6. Spent(Len(reports))' = Spent(Len(reports))
    BY <2>2, <2>3 DEF Spent, Opening, Pairs, Budgets, Budget, ChangesOf
  <2>7. requests' <= Spent(Len(reports))' + (k + 1)
    <3>1. Spent(Len(reports)) \in Nat /\ requests \in Nat
      BY SpentIs DEF IInv, ReportsFounded, Types
    <3> QED BY <2>3, <2>4, <2>6, <3>1
  <2>8. k + 1 \in Nat /\ phase' = "working"
    BY <2>2, <2>3
  <2> QED BY <2>5, <2>7, <2>8 DEF RequestsCounted
<1>8. ASSUME FetchLast PROVE RequestsCounted'
  <2>1. Fetching /\ ~Full(Page(comp.project, since))
    BY <1>8 DEF FetchLast
  <2>2. /\ phase = "working" /\ UNCHANGED <<log, call>>
        /\ requests' \in Int /\ requests' <= requests + 1
    BY <1>6, <2>1
  <2>3. CASE found \cup Page(comp.project, since) = {}
    <3>1. found = {} /\ phase' = "doubt" /\ UNCHANGED <<reports, found>>
      BY <1>8, <2>3 DEF FetchLast
    <3>2. PICK k \in Nat :
            requests <= Spent(Len(reports)) + k /\ Cardinality(found) = PageSize * k
      BY <2>2 DEF RequestsCounted
    <3>3. k = 0
      <4>1. PageSize * k = 0
        BY <3>1, <3>2, FS_EmptySet
      <4> QED BY <4>1, PagingAssumption
    <3>4. Spent(Len(reports))' = Spent(Len(reports))
      BY <2>2, <3>1 DEF Spent, Opening, Pairs, Budgets, Budget, ChangesOf
    <3>5. requests' <= Spent(Len(reports))' + 1
      <4>1. Spent(Len(reports)) \in Nat /\ requests \in Nat
        BY SpentIs DEF IInv, ReportsFounded, Types
      <4> QED BY <2>2, <3>2, <3>3, <3>4, <4>1
    <3> QED BY <3>1, <3>5 DEF RequestsCounted
  <2>4. CASE found \cup Page(comp.project, since) # {}
    <3>1. Report(Answered(call, comp, found \cup Page(comp.project, since), ""))
      BY <1>8, <2>4 DEF FetchLast
    <3> QED BY <2>2, <3>1, ReportCounted
  <2> QED BY <2>3, <2>4
<1>9. ASSUME FetchFails PROVE RequestsCounted'
  <2>1. Fetching /\ Report(Unanswered(comp, "fetch failed"))
    BY <1>9 DEF FetchFails
  <2> QED BY <1>6, <2>1, ReportCounted
<1>10. ASSUME NEW r, Probing, Report(r) PROVE RequestsCounted'
  <2>1. phase = "doubt" /\ UNCHANGED <<log, call>> /\ Requested
    BY <1>10 DEF Probing, upstream
  <2> QED BY <1>10, <2>1, OneRequest, ReportCounted DEF IInv
<1>11. ASSUME Probe \/ ProbeFails PROVE RequestsCounted'
  <2>1. Probing /\ \E r : Report(r)
    BY <1>11 DEF Probe, ProbeFails
  <2> QED BY <1>10, <2>1
<1> QED BY <1>1, <1>2, <1>3, <1>4, <1>5, <1>7, <1>8, <1>9, <1>11 DEF Next, Step, Finished

(***************************************************************************)
(* The walk of a feed asks for each page once and stops, whatever the page *)
(* size, the feed's length and what is published meanwhile: the requests   *)
(* of a call are within the budget of the components it has come to        *)
(* (allProjectChanges, maxComponents).                                     *)
(***************************************************************************)
THEOREM WithinBudgetHolds == Spec => []WithinBudget
<1>1. Init => RequestsCounted
  <2> SUFFICES ASSUME Init PROVE RequestsCounted
    OBVIOUS
  <2>1. phase = "idle" /\ requests = 0 /\ reports = <<>> /\ Len(reports) = 0
    BY EmptySeq DEF Init
  <2>2. Spent(0) = 0
    BY InvInit, NothingSpent, BudgetsAre DEF IInv
  <2> QED BY <2>1, <2>2 DEF RequestsCounted
<1>2. IInv /\ RequestsCounted => WithinBudget
  <2> SUFFICES ASSUME IInv, RequestsCounted PROVE WithinBudget
    OBVIOUS
  <2>1. PICK n \in Nat : n = Len(reports)
    BY DEF IInv, ReportsFounded
  <2>2. PICK k \in Nat :
          /\ requests <= Spent(Len(reports)) + k
          /\ phase \in {"idle", "done"} => k = 0
          /\ phase = "working" => Cardinality(found) = PageSize * k
          /\ phase = "doubt" => k <= 1
    BY DEF RequestsCounted
  <2>3. Spent(n) \in Nat /\ Spent(n + 1) \in Nat /\ Spent(n) <= Spent(n + 1)
    BY <2>1, SpentIs DEF IInv
  <2>4. requests <= Spent(n + 1)
    <3>1. CASE phase \in {"idle", "done"}
      BY <2>1, <2>2, <2>3, <3>1 DEF IInv, Types
    <3>2. CASE phase \in {"working", "doubt"}
      <4>1. Spent(n) + k + 1 <= Spent(n + 1)
        BY <2>1, <2>2, <3>2, TurnCosts
      <4> QED BY <2>1, <2>2, <2>3, <4>1 DEF IInv, Types
    <3> QED BY <3>1, <3>2 DEF IInv, Types
  <2>5. MapThenSumSet(Budget, Opening(n + 1)) = Spent(n + 1)
    BY <2>1, SumIsSpent DEF IInv
  <2>6. Opening(n + 1) = {i \in DOMAIN call.components : i <= Len(reports) + 1}
    BY <2>1 DEF Opening
  <2> QED BY Zenon, <2>4, <2>5, <2>6 DEF WithinBudget
<1> QED BY <1>1, <1>2, InvInit, InvStep, RequestsCountedStep, PTL DEF Spec

=============================================================================
