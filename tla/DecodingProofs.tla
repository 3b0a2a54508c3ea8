-------------------------- MODULE DecodingProofs --------------------------
(***************************************************************************)
(* The laws of the components argument and of a condition, proved for      *)
(* every array of any components and every list of any clauses: of the     *)
(* walk of DecodingLaws only that the two are of their types.              *)
(***************************************************************************)
EXTENDS DecodingLaws, SequenceTheorems, SetLemmas

-----------------------------------------------------------------------------
(* What is reached. *)

(* The arguments there are. *)
Argument ==
  [type : {"array", "null", "scalar"}, elements : Seq(Element), strings : 0 .. 2]

SentIs == sent \in Argument

(* Every argument the walk builds is one.  *)
LEMMA SentAlways == Spec => []SentIs
<1>1. Init => SentIs
  <2> SUFFICES ASSUME Init PROVE SentIs
    OBVIOUS
  <2>1. PICK type \in {"array", "null", "scalar"}, strings \in 0 .. 2 :
          sent = [type |-> type, elements |-> <<>>, strings |-> strings]
    BY DEF Init, Sent, Nothing
  <2> QED BY <2>1 DEF SentIs, Argument
<1>2. SentIs /\ [Next]_vars => SentIs'
  <2> SUFFICES ASSUME SentIs, [Next]_vars PROVE SentIs'
    OBVIOUS
  <2>1. ASSUME NEW e \in Elements, Send(e) PROVE SentIs'
    <3>1. e \in Element
      BY DecodingAssumption
    <3>2. Append(sent.elements, e) \in Seq(Element)
      BY <3>1 DEF SentIs, Argument
    <3> QED BY <2>1, <3>2 DEF Send, SentIs, Argument
  <2>2. sent' = sent => SentIs'
    BY DEF SentIs
  <2> QED BY <2>1, <2>2 DEF Next, Require, Stop, vars
<1> QED BY <1>1, <1>2, PTL DEF Spec

-----------------------------------------------------------------------------
(* What one component is read as. *)

(* A component is read from what stands under project or name.  It is      *)
(* without a name exactly if that is no slug, and "project" comes first.   *)
LEMMA ProjectRead ==
  ASSUME NEW e \in Element
  PROVE  /\ ProjectOf(e) \in {e.project, e.name}
         /\ ProjectOf(e) \in Slugs \/ ProjectOf(e) \in Blanks \cup {""}
         /\ e.project \in Slugs => ProjectOf(e) = e.project
         /\ ~(ProjectOf(e) \in Slugs /\ ProjectOf(e) \in Blanks \cup {""})
         /\ ProjectOf(e) = "" => Component(e).sentKeys = e.keys
         /\ Component(e).project = ProjectOf(e)
<1>1. e.project \in Slugs \cup Blanks \cup {""} /\ e.name \in Slugs \cup Blanks \cup {""}
  BY DEF Element, Text
<1> QED BY <1>1, ArgumentsAssumption DEF ProjectOf, Component, sentKeys

(* The components of an argument are one for each of its elements, and the *)
(* unnamed among them those whose project is no slug.                      *)
LEMMA ComponentsRead ==
  ASSUME NEW s \in Argument
  PROVE  /\ DOMAIN Components(s) = 1 .. Len(s.elements)
         /\ Len(s.elements) \in Nat
         /\ Components(s) = <<>> <=> s.elements = <<>>
         /\ \A i \in 1 .. Len(s.elements) :
              /\ s.elements[i] \in Element
              /\ Components(s)[i] = Component(s.elements[i])
              /\ i \in Unnamed(Components(s)) <=> ProjectOf(s.elements[i]) \notin Slugs
         /\ Unnamed(Components(s)) \subseteq 1 .. Len(s.elements)
<1>1. s.elements \in Seq(Element)
  BY DEF Argument
<1>2. DOMAIN s.elements = 1 .. Len(s.elements) /\ Len(s.elements) \in Nat
  BY <1>1
<1>3. DOMAIN Components(s) = 1 .. Len(s.elements)
  BY <1>2 DEF Components
<1>4. Components(s) = <<>> <=> s.elements = <<>>
  <2>1. \A f : f = <<>> => DOMAIN f = 1 .. 0
    OBVIOUS
  <2>2. Components(s) = <<>> => Len(s.elements) = 0
    BY <1>2, <1>3, <2>1
  <2>3. Len(s.elements) = 0 => s.elements = <<>>
    BY <1>1
  <2>4. s.elements = <<>> => Components(s) = <<>>
    <3>1. s.elements = <<>> => Components(s) = [i \in 1 .. 0 |-> Component(s.elements[i])]
      BY <1>2 DEF Components
    <3>2. [i \in 1 .. 0 |-> Component(s.elements[i])] = <<>>
      OBVIOUS
    <3> QED BY <3>1, <3>2
  <2> QED BY <2>2, <2>3, <2>4
<1>5. \A i \in 1 .. Len(s.elements) :
        s.elements[i] \in Element /\ Components(s)[i] = Component(s.elements[i])
  BY <1>1, <1>2 DEF Components
<1>6. \A i \in 1 .. Len(s.elements) :
        i \in Unnamed(Components(s)) <=> ProjectOf(s.elements[i]) \notin Slugs
  <2> SUFFICES ASSUME NEW i \in 1 .. Len(s.elements)
               PROVE  i \in Unnamed(Components(s)) <=> ProjectOf(s.elements[i]) \notin Slugs
    OBVIOUS
  <2>1. s.elements[i] \in Element /\ Components(s)[i].project = ProjectOf(s.elements[i])
    BY <1>5, ProjectRead
  <2> QED BY <1>3, <2>1, ProjectRead DEF Unnamed
<1> QED BY <1>2, <1>3, <1>4, <1>5, <1>6 DEF Unnamed

(* The parts of an answer. *)
LEMMA ResultFields ==
  \A a, kind, at, keys, projects :
    a = Result(kind, at, keys, projects) =>
      a.kind = kind /\ a.at = at /\ a.keys = keys /\ a.projects = projects
  BY DEF Result

(* The answer is that of the components, when they decode. *)
LEMMA ReadDependsOn ==
  ASSUME NEW s, NEW t, Components(s) = Components(t), Decodes(s) <=> Decodes(t)
  PROVE  Read(s) = Read(t)
<1> DEFINE Refused(components) ==
             LET unnamed == Unnamed(components)
                 first == CHOOSE i \in unnamed : \A j \in unnamed : i <= j
             IN  IF components = <<>> THEN Result("no components", 0, {}, <<>>)
                 ELSE IF unnamed # {}
                 THEN Result("no project", first, components[first].sentKeys, <<>>)
                 ELSE Result("accepted", 0, {}, [i \in DOMAIN components |-> components[i].project])
           undecoded == Result("undecoded", 0, {}, <<>>)
<1>1. /\ Read(s) = IF ~Decodes(s) THEN undecoded ELSE Refused(Components(s))
      /\ Read(t) = IF ~Decodes(t) THEN undecoded ELSE Refused(Components(t))
  BY DEF Read
<1> HIDE DEF Refused, undecoded
<1> QED BY <1>1

(* The kinds of answer, and what each of them says. *)
LEMMA ReadIs ==
  ASSUME NEW s \in Argument
  PROVE  LET a == Read(s)
             unnamed == Unnamed(Components(s)) IN
         /\ a.kind = "undecoded" <=> ~Decodes(s)
         /\ a.kind = "accepted" <=> Decodes(s) /\ s.elements # <<>> /\ unnamed = {}
         /\ a.kind = "accepted" =>
              a.projects = [i \in DOMAIN Components(s) |-> Components(s)[i].project]
         /\ a.kind = "no project" =>
              /\ a.at \in unnamed
              /\ \A j \in unnamed : a.at <= j
              /\ a.keys = Components(s)[a.at].sentKeys
<1> DEFINE components == Components(s)
           unnamed == Unnamed(components)
           first == CHOOSE i \in unnamed : \A j \in unnamed : i <= j
<1>1. components = <<>> <=> s.elements = <<>>
  BY ComponentsRead
<1>2. unnamed # {} => first \in unnamed /\ \A j \in unnamed : first <= j
  <2>1. unnamed \in SUBSET Nat
    BY ComponentsRead
  <2> HIDE DEF unnamed
  <2> QED BY <2>1, LeastExists
<1>3. Read(s) = IF ~Decodes(s) THEN Result("undecoded", 0, {}, <<>>)
                ELSE IF components = <<>> THEN Result("no components", 0, {}, <<>>)
                ELSE IF unnamed # {}
                THEN Result("no project", first, components[first].sentKeys, <<>>)
                ELSE Result("accepted", 0, {}, [i \in DOMAIN components |-> components[i].project])
  BY DEF Read
<1> HIDE DEF first
<1>4. CASE ~Decodes(s)
  BY <1>3, <1>4 DEF Result
<1>5. CASE Decodes(s) /\ components = <<>>
  <2>1. Read(s) = Result("no components", 0, {}, <<>>)
    BY <1>3, <1>5
  <2>2. Read(s).kind = "no components"
    BY <2>1, ResultFields, Zenon
  <2> QED BY <1>1, <1>5, <2>2
<1>6. CASE Decodes(s) /\ components # <<>> /\ unnamed # {}
  <2> DEFINE keys == components[first].sentKeys
  <2>1. Read(s) = Result("no project", first, keys, <<>>)
    BY <1>3, <1>6, Zenon
  <2>2. /\ Read(s).kind = "no project"
        /\ Read(s).at = first
        /\ Read(s).keys = keys
    <3> HIDE DEF keys, components
    <3>1. Read(s).kind = "no project"
      BY <2>1, ResultFields, Zenon
    <3>2. Read(s).at = first
      BY <2>1, ResultFields, Zenon
    <3>3. Read(s).keys = keys
      <4>1. \A a, kind, at, projects : a = Result(kind, at, keys, projects) => a.keys = keys
        BY DEF Result
      <4> QED BY <2>1, <4>1, Zenon
    <3> QED BY <3>1, <3>2, <3>3
  <2> QED BY <1>2, <1>6, <2>2
<1>7. CASE Decodes(s) /\ components # <<>> /\ unnamed = {}
  BY <1>1, <1>3, <1>7 DEF Result
<1> QED BY <1>4, <1>5, <1>6, <1>7

-----------------------------------------------------------------------------
(* The laws. *)

(***************************************************************************)
(* A call whose components came in a string is answered as if they had     *)
(* come bare, and a string in a string is never read                       *)
(* (stackComponents.UnmarshalJSON).                                        *)
(***************************************************************************)
THEOREM OneString == Spec => []OneStringIsTransparent
<1>1. SentIs => OneStringIsTransparent
  <2> SUFFICES ASSUME SentIs PROVE OneStringIsTransparent
    OBVIOUS
  <2> DEFINE bare == [sent EXCEPT !.strings = 0]
  <2>1. bare.type = sent.type /\ bare.elements = sent.elements /\ bare.strings = 0
    BY DEF SentIs, Argument
  <2>2. Components(bare) = Components(sent)
    BY <2>1 DEF Components
  <2>3. sent.strings = 1 => (Decodes(bare) <=> Decodes(sent))
    BY <2>1 DEF Decodes
  <2> HIDE DEF bare
  <2>4. sent.strings = 1 => Read(bare) = Read(sent)
    BY <2>2, <2>3, ReadDependsOn
  <2>5. sent.strings = 2 => ~Decodes(sent)
    BY DEF Decodes
  <2>6. sent.strings = 2 => answer.kind = "undecoded"
    BY <2>5, ReadIs DEF SentIs, answer
  <2> QED BY <2>4, <2>6 DEF OneStringIsTransparent, answer, bare
<1> QED BY <1>1, SentAlways, PTL

(***************************************************************************)
(* Every component that is scanned is one in which the caller wrote that   *)
(* slug, and none is lost, for calls of any length (checkStackTool).       *)
(***************************************************************************)
THEOREM OnlyNamedProjects == Spec => []OnlyNamedProjectsGoUpstream
<1>1. SentIs => OnlyNamedProjectsGoUpstream
  <2> SUFFICES ASSUME SentIs, answer.kind = "accepted"
               PROVE  /\ Len(answer.projects) = Len(sent.elements)
                      /\ \A i \in DOMAIN answer.projects :
                           LET e == element(i) IN
                           /\ answer.projects[i] \in {e.project, e.name} \cap Slugs
                           /\ e.project \in Slugs => answer.projects[i] = e.project
    BY DEF OnlyNamedProjectsGoUpstream
  <2>1. sent \in Argument
    BY DEF SentIs
  <2>2. /\ Unnamed(Components(sent)) = {}
        /\ answer.projects = [i \in 1 .. Len(sent.elements) |-> Components(sent)[i].project]
    BY <2>1, ReadIs, ComponentsRead DEF answer
  <2>3. Len(answer.projects) = Len(sent.elements)
    BY <2>1, <2>2, ComponentsRead
  <2>4. ASSUME NEW i \in 1 .. Len(sent.elements)
        PROVE  /\ answer.projects[i] \in {element(i).project, element(i).name} \cap Slugs
               /\ element(i).project \in Slugs => answer.projects[i] = element(i).project
    <3>1. /\ sent.elements[i] \in Element
          /\ Components(sent)[i] = Component(sent.elements[i])
          /\ ProjectOf(sent.elements[i]) \in Slugs
      BY <2>1, <2>2, ComponentsRead
    <3>2. answer.projects[i] = ProjectOf(sent.elements[i])
      BY <2>2, <3>1, ProjectRead
    <3> QED BY <3>1, <3>2, ProjectRead DEF element
  <2> QED BY <2>2, <2>3, <2>4
<1> QED BY <1>1, SentAlways, PTL

(***************************************************************************)
(* A call whose components all name a project readably is not refused for  *)
(* them, and a refusal is about the first that does not, with every key it *)
(* came with (checkStackTool, sentKeys).                                   *)
(***************************************************************************)
THEOREM RefusalsAreEarned == Spec => []RefusalsTeach
<1>1. SentIs => RefusalsTeach
  <2> SUFFICES ASSUME SentIs PROVE RefusalsTeach
    OBVIOUS
  <2>1. /\ sent \in Argument
        /\ sent.elements \in Seq(Element)
        /\ Len(sent.elements) \in Nat
        /\ DOMAIN sent.elements = 1 .. Len(sent.elements)
    BY DEF SentIs, Argument
  <2>2. \A i \in 1 .. Len(sent.elements) :
          /\ element(i) \in Element
          /\ Components(sent)[i] = Component(element(i))
          /\ i \in Unnamed(Components(sent)) <=> ProjectOf(element(i)) \notin Slugs
    BY <2>1, ComponentsRead DEF element
  <2>3. ASSUME sent.type = "array", sent.strings <= 1, sent.elements # <<>>,
               \A i \in DOMAIN sent.elements : Named(element(i))
        PROVE  answer.kind = "accepted"
    <3>1. Decodes(sent)
      BY <2>3 DEF Decodes, Named, element
    <3>2. \A i \in 1 .. Len(sent.elements) : i \notin Unnamed(Components(sent))
      BY <2>1, <2>2, <2>3, ProjectRead DEF Named
    <3>3. Unnamed(Components(sent)) = {}
      BY <2>1, <3>2, ComponentsRead
    <3> QED BY <2>1, <2>3, <3>1, <3>3, ReadIs DEF answer
  <2>4. ASSUME answer.kind = "no project"
        PROVE  /\ answer.at \in DOMAIN sent.elements
               /\ ~Named(element(answer.at))
               /\ \A i \in 1 .. answer.at - 1 :
                    {element(i).project, element(i).name} \cap Slugs # {}
               /\ {element(answer.at).project, element(answer.at).name} = {""}
                    => answer.keys = element(answer.at).keys
    <3>1. PICK at : at = answer.at
      OBVIOUS
    <3>2. /\ at \in Unnamed(Components(sent))
          /\ \A j \in Unnamed(Components(sent)) : at <= j
          /\ answer.keys = Components(sent)[at].sentKeys
      BY <2>1, <2>4, <3>1, ReadIs DEF answer
    <3>3. at \in 1 .. Len(sent.elements)
      BY <2>1, <3>2, ComponentsRead
    <3>4. /\ element(at) \in Element
          /\ ProjectOf(element(at)) \notin Slugs
          /\ answer.keys = Component(element(at)).sentKeys
      BY <2>2, <3>2, <3>3
    <3>5. ~Named(element(at))
      BY <3>4, ProjectRead DEF Named
    <3>6. ASSUME NEW i \in 1 .. at - 1
          PROVE  {element(i).project, element(i).name} \cap Slugs # {}
      <4>1. i \in 1 .. Len(sent.elements) /\ ~(at <= i)
        BY <2>1, <3>3
      <4>2. element(i) \in Element /\ ProjectOf(element(i)) \in Slugs
        BY <2>2, <3>2, <4>1
      <4> QED BY <4>2, ProjectRead
    <3>7. {element(at).project, element(at).name} = {""} => answer.keys = element(at).keys
      BY <3>4, ProjectRead
    <3> QED BY <2>1, <3>1, <3>3, <3>5, <3>6, <3>7
  <2> QED BY <2>3, <2>4 DEF RefusalsTeach
<1> QED BY <1>1, SentAlways, PTL

-----------------------------------------------------------------------------
(***************************************************************************)
(* Clauses are joined one after the other, so what they give is a function *)
(* on the sets of clauses, the last one being joined to the others.        *)
(***************************************************************************)
IsJoining(g, a, D) ==
  g = [s \in SUBSET D |->
         IF s = {} THEN <<>>
         ELSE joinPhrase(g[s \ {Max(s)}], conditionPhrase(a.clauses[Max(s)]), a.mode)]

(* The greatest of a set that ends in n is n. *)
LEMMA MaxIs ==
  ASSUME NEW n \in Nat, NEW s \in SUBSET (1 .. n), n \in s
  PROVE  Max(s) = n
<1>1. \A y \in s : y \in Int /\ n >= y
  OBVIOUS
<1>2. \A x \in s : (\A y \in s : x >= y) => x = n
  BY <1>1
<1>3. Max(s) \in s /\ \A y \in s : Max(s) >= y
  BY <1>1 DEF Max
<1> QED BY <1>2, <1>3

(* Some of the first n clauses: none, or the last of them and some before. *)
LEMMA SomeOfFirst ==
  ASSUME NEW n \in Nat \ {0}, NEW s \in SUBSET (1 .. n), s \notin SUBSET (1 .. n - 1)
  PROVE  s # {} /\ Max(s) = n /\ s \ {n} \in SUBSET (1 .. n - 1)
<1>1. n \in s
  OBVIOUS
<1> QED BY <1>1, MaxIs

(* However many clauses there are, they can be joined: the least number    *)
(* that could not would be one more than a number that can.                *)
LEMMA JoiningExists ==
  ASSUME NEW a, NEW n \in Nat
  PROVE  \E g : IsJoining(g, a, 1 .. n)
<1> DEFINE Lacking == {m \in Nat : ~ \E g : IsJoining(g, a, 1 .. m)}
<1> SUFFICES ASSUME Lacking # {} PROVE FALSE
  OBVIOUS
<1>1. PICK m \in Lacking : \A k \in Lacking : m <= k
  <2>1. Lacking \in SUBSET Nat
    OBVIOUS
  <2> HIDE DEF Lacking
  <2> QED BY <2>1, LeastExists
<1>2. m \in Nat /\ ~ \E g : IsJoining(g, a, 1 .. m)
  BY <1>1
<1>3. m # 0
  <2> SUFFICES ASSUME m = 0 PROVE FALSE
    OBVIOUS
  <2> DEFINE h == [s \in SUBSET (1 .. m) |-> <<>>]
  <2>1. 1 .. m = {}
    OBVIOUS
  <2>2. IsJoining(h, a, 1 .. m)
    BY <2>1 DEF IsJoining
  <2> QED BY <1>2, <2>2
<1>4. m - 1 \in Nat /\ m - 1 \notin Lacking
  BY <1>1, <1>2, <1>3
<1>5. PICK g : IsJoining(g, a, 1 .. m - 1)
  BY <1>4
<1> DEFINE h == [s \in SUBSET (1 .. m) |->
                   IF s \in SUBSET (1 .. m - 1) THEN g[s]
                   ELSE joinPhrase(g[s \ {m}], conditionPhrase(a.clauses[m]), a.mode)]
           Value(f, s) == IF s = {} THEN <<>>
             ELSE joinPhrase(f[s \ {Max(s)}], conditionPhrase(a.clauses[Max(s)]), a.mode)
<1>6. \A s \in SUBSET (1 .. m - 1) : g[s] = Value(g, s)
  <2> DEFINE G == [s \in SUBSET (1 .. m - 1) |-> Value(g, s)]
  <2>1. g = G
    BY <1>5, Zenon DEF IsJoining
  <2>2. \A s \in SUBSET (1 .. m - 1) : G[s] = Value(g, s)
    OBVIOUS
  <2> HIDE DEF G, Value
  <2> QED BY <2>1, <2>2
<1>7. ASSUME NEW s \in SUBSET (1 .. m) PROVE h[s] = Value(h, s)
  <2>1. SUBSET (1 .. m - 1) \subseteq SUBSET (1 .. m)
    BY <1>2
  <2>2. CASE s \in SUBSET (1 .. m - 1)
    <3>1. h[s] = g[s]
      BY <2>2
    <3>2. s # {} => s \ {Max(s)} \in SUBSET (1 .. m - 1)
      BY <2>2
    <3>3. s # {} => h[s \ {Max(s)}] = g[s \ {Max(s)}]
      BY <2>1, <3>2
    <3>4. Value(h, s) = Value(g, s)
      <4> HIDE DEF h
      <4> QED BY Zenon, <3>3
    <3> QED BY Zenon, <1>6, <2>2, <3>1, <3>4
  <2>3. CASE s \notin SUBSET (1 .. m - 1)
    <3>1. s # {} /\ Max(s) = m /\ s \ {m} \in SUBSET (1 .. m - 1)
      BY <1>2, <1>3, <2>3, SomeOfFirst
    <3>2. h[s] = joinPhrase(g[s \ {m}], conditionPhrase(a.clauses[m]), a.mode)
      BY <2>3
    <3>3. h[s \ {m}] = g[s \ {m}]
      BY <2>1, <3>1
    <3> HIDE DEF h
    <3> QED BY Zenon, <3>1, <3>2, <3>3
  <2> QED BY <2>2, <2>3
<1>8. IsJoining(h, a, 1 .. m)
  <2>1. h = [s \in SUBSET (1 .. m) |-> h[s]]
    OBVIOUS
  <2>2. h = [s \in SUBSET (1 .. m) |-> Value(h, s)]
    <3> HIDE DEF h, Value
    <3> QED BY <1>7, <2>1
  <2> HIDE DEF h
  <2> QED BY Zenon, <2>2 DEF IsJoining
<1> QED BY <1>2, <1>8

(* The joined clauses are the last value of such a function. *)
LEMMA JoinedIs ==
  ASSUME NEW a, a.clauses \in Seq(AnyClause)
  PROVE  \E g : IsJoining(g, a, 1 .. Len(a.clauses)) /\ Joined(a) = g[1 .. Len(a.clauses)]
<1>1. PICK D : D = 1 .. Len(a.clauses)
  OBVIOUS
<1>2. Len(a.clauses) \in Nat /\ DOMAIN a.clauses = D
  BY <1>1, LenProperties
<1>3. Joined(a) = (CHOOSE g : IsJoining(g, a, D))[D]
  BY <1>2 DEF Joined, FoldLeft, MapThenFoldSet, IsJoining
<1>4. \E g : IsJoining(g, a, D)
  BY <1>1, <1>2, JoiningExists
<1> QED BY <1>1, <1>3, <1>4

-----------------------------------------------------------------------------
(* What the joined clauses say. *)

(* The words there are: of clauses, and of the code itself. *)
Vocabulary == STRING \cup {"and", "or", "the"} \cup NounWords

(* One sequence after another has the words of both. *)
LEMMA WordsOfBoth ==
  ASSUME NEW s \in Seq(Vocabulary), NEW t \in Seq(Vocabulary)
  PROVE  /\ s \o t \in Seq(Vocabulary)
         /\ Words(s \o t) = Words(s) \cup Words(t)
         /\ s \o t = <<>> <=> s = <<>> /\ t = <<>>
<1>1. /\ s \o t \in Seq(Vocabulary) /\ Len(s \o t) = Len(s) + Len(t)
      /\ Len(s) \in Nat /\ Len(t) \in Nat
      /\ DOMAIN s = 1 .. Len(s) /\ DOMAIN t = 1 .. Len(t)
      /\ DOMAIN (s \o t) = 1 .. Len(s) + Len(t)
      /\ \A i \in 1 .. Len(s) : (s \o t)[i] = s[i]
      /\ \A i \in 1 .. Len(t) : (s \o t)[Len(s) + i] = t[i]
  <2>1. \A i \in 1 .. Len(s) + Len(t) :
          (s \o t)[i] = IF i <= Len(s) THEN s[i] ELSE t[i - Len(s)]
    BY ConcatProperties
  <2> QED BY <2>1, ConcatProperties, LenProperties
<1>2. PICK u : u = s \o t
  OBVIOUS
<1>3. ASSUME NEW i \in DOMAIN u PROVE u[i] \in Words(s) \cup Words(t)
  <2>1. CASE i <= Len(s)
    BY <1>1, <1>2, <2>1 DEF Words
  <2>2. CASE ~(i <= Len(s))
    <3>1. i - Len(s) \in 1 .. Len(t) /\ Len(s) + (i - Len(s)) = i
      BY <1>1, <1>2, <2>2
    <3>2. u[i] = t[i - Len(s)]
      BY <1>1, <1>2, <3>1
    <3> QED BY <1>1, <3>1, <3>2 DEF Words
  <2> QED BY <2>1, <2>2
<1>4. \A i \in DOMAIN s : s[i] \in Words(u)
  BY <1>1, <1>2 DEF Words
<1>5. ASSUME NEW i \in DOMAIN t PROVE t[i] \in Words(u)
  <2>1. Len(s) + i \in DOMAIN u /\ u[Len(s) + i] = t[i]
    BY <1>1, <1>2
  <2> QED BY <2>1 DEF Words
<1>6. Words(u) = Words(s) \cup Words(t)
  BY <1>3, <1>4, <1>5 DEF Words
<1>7. u = <<>> <=> s = <<>> /\ t = <<>>
  <2>1. \A q \in Seq(Vocabulary) : q = <<>> <=> Len(q) = 0
    BY EmptySeq
  <2> QED BY <1>1, <1>2, <2>1
<1> QED BY <1>1, <1>2, <1>6, <1>7

(* One word, and none. *)
LEMMA WordsOfOne ==
  ASSUME NEW w \in Vocabulary
  PROVE  /\ <<w>> \in Seq(Vocabulary) /\ Words(<<w>>) = {w} /\ <<w>> # <<>>
         /\ <<>> \in Seq(Vocabulary) /\ Words(<<>>) = {}
         /\ Word(w) \in Seq(Vocabulary) /\ Words(Word(w)) = {w} \ {""}
         /\ Word(w) = <<>> <=> w = ""
<1>1. <<w>> \in Seq(Vocabulary) /\ Len(<<w>>) = 1 /\ <<w>>[1] = w /\ DOMAIN <<w>> = 1 .. 1
  OBVIOUS
<1>2. Words(<<w>>) = {w} /\ <<w>> # <<>>
  BY <1>1 DEF Words
<1>3. <<>> \in Seq(Vocabulary) /\ Words(<<>>) = {}
  BY DEF Words
<1> QED BY <1>1, <1>2, <1>3 DEF Word

(* What a clause gives: nothing if it says nothing, and else its verb and  *)
(* its name with the noun of its kind, or its kind when it has no name.    *)
LEMMA PhraseIs ==
  ASSUME NEW cl \in AnyClause, NEW p, p = conditionPhrase(cl)
  PROVE  /\ p \in Seq(Vocabulary)
         /\ p = <<>> <=> cl.verb = "" /\ cl.kind = "" /\ cl.name = ""
         /\ cl.name # "" => cl.name \in Words(p)
         /\ Words(p) \subseteq ({cl.verb, cl.name} \ {""}) \cup {"the"} \cup NounWords
                                 \cup (IF cl.name = "" THEN {cl.kind} ELSE {})
<1>1. /\ cl.verb \in Vocabulary /\ cl.kind \in Vocabulary /\ cl.name \in Vocabulary
      /\ "the" \in Vocabulary /\ NounWords \subseteq Vocabulary
  BY DEF AnyClause, Vocabulary
<1>2. PICK v : v = Word(cl.verb)
  OBVIOUS
<1>3. v \in Seq(Vocabulary) /\ Words(v) = {cl.verb} \ {""} /\ (v = <<>> <=> cl.verb = "")
  BY <1>1, <1>2, WordsOfOne
<1>4. CASE cl.name = ""
  <2>1. PICK k : k = Word(cl.kind)
    OBVIOUS
  <2>2. k \in Seq(Vocabulary) /\ Words(k) = {cl.kind} \ {""} /\ (k = <<>> <=> cl.kind = "")
    BY <1>1, <2>1, WordsOfOne
  <2>3. p = v \o k
    BY <1>2, <1>4, <2>1 DEF conditionPhrase
  <2>4. /\ p \in Seq(Vocabulary) /\ Words(p) = Words(v) \cup Words(k)
        /\ p = <<>> <=> v = <<>> /\ k = <<>>
    BY <1>3, <2>2, <2>3, WordsOfBoth
  <2> QED BY <1>3, <1>4, <2>2, <2>4
<1>5. CASE cl.name # ""
  <2>1. PICK t : t = Target(cl.kind, cl.name)
    OBVIOUS
  <2>2. /\ t \in Seq(Vocabulary) /\ t # <<>> /\ cl.name \in Words(t)
        /\ Words(t) \subseteq {cl.name, "the"} \cup NounWords
    <3>1. CASE cl.kind \in DOMAIN Noun
      <4>1. PICK n : n = Noun[cl.kind]
        OBVIOUS
      <4>2. n \in Vocabulary /\ n \in NounWords
        BY <1>1, <3>1, <4>1 DEF NounWords
      <4>3. t = <<"the", cl.name, n>>
        BY <2>1, <3>1, <4>1 DEF Target
      <4>4. t \in Seq(Vocabulary) /\ Len(t) = 3 /\ DOMAIN t = 1 .. 3
        <5>1. \A W : \A x, y, z \in W : <<x, y, z>> \in Seq(W) /\ Len(<<x, y, z>>) = 3
          OBVIOUS
        <5>2. "the" \in Vocabulary /\ cl.name \in Vocabulary /\ n \in Vocabulary
          BY <1>1, <4>2
        <5>3. t \in Seq(Vocabulary) /\ Len(t) = 3
          BY <4>3, <5>1, <5>2, Zenon
        <5> QED BY <5>3
      <4>5. t[1] = "the" /\ t[2] = cl.name /\ t[3] = n
        BY <4>3
      <4>6. Words(t) = {t[1], t[2], t[3]}
        BY <4>4 DEF Words
      <4>7. t # <<>>
        <5>1. Words(<<>>) = {}
          BY DEF Words
        <5> QED BY <4>6, <5>1
      <4> QED BY <4>2, <4>4, <4>5, <4>6, <4>7
    <3>2. CASE cl.kind \notin DOMAIN Noun
      <4>1. t = <<cl.name>>
        BY <2>1, <3>2 DEF Target
      <4> QED BY <1>1, <4>1, WordsOfOne
    <3> QED BY <3>1, <3>2
  <2>3. p = v \o t
    BY <1>2, <1>5, <2>1 DEF conditionPhrase
  <2>4. /\ p \in Seq(Vocabulary) /\ Words(p) = Words(v) \cup Words(t)
        /\ p = <<>> <=> v = <<>> /\ t = <<>>
    BY <1>3, <2>2, <2>3, WordsOfBoth
  <2> QED BY <1>3, <1>5, <2>2, <2>4
<1> QED BY <1>4, <1>5

(* What joining a phrase adds. *)
LEMMA JoinIs ==
  ASSUME NEW acc \in Seq(Vocabulary), NEW next \in Seq(Vocabulary), NEW mode,
         NEW r, r = joinPhrase(acc, next, mode)
  PROVE  /\ r \in Seq(Vocabulary)
         /\ r = <<>> <=> acc = <<>> /\ next = <<>>
         /\ Words(acc) \cup Words(next) \subseteq Words(r)
         /\ Words(r) \subseteq Words(acc) \cup Words(next) \cup {"and", "or"}
<1>1. Words(<<>>) = {}
  BY DEF Words
<1>2. CASE next = <<>> \/ acc = <<>>
  BY <1>1, <1>2 DEF joinPhrase
<1>3. CASE next # <<>> /\ acc # <<>>
  <2>1. PICK w \in {"and", "or"} : w = Separator(mode)
    BY DEF Separator
  <2>2. PICK u : u = acc \o <<w>>
    OBVIOUS
  <2>3. w \in Vocabulary
    BY DEF Vocabulary
  <2>4. <<w>> \in Seq(Vocabulary) /\ Words(<<w>>) = {w}
    BY <2>3, WordsOfOne
  <2>5. u \in Seq(Vocabulary) /\ Words(u) = Words(acc) \cup {w} /\ u # <<>>
    <3>1. PICK o \in Seq(Vocabulary) : o = <<w>> /\ Words(o) = {w}
      BY <2>4
    <3>2. u = acc \o o
      BY <2>2, <3>1
    <3>3. /\ acc \o o \in Seq(Vocabulary) /\ Words(acc \o o) = Words(acc) \cup Words(o)
          /\ acc \o o = <<>> <=> acc = <<>> /\ o = <<>>
      BY Zenon, WordsOfBoth
    <3> QED BY Zenon, <1>3, <3>1, <3>2, <3>3
  <2>6. r = u \o next
    BY <1>3, <2>1, <2>2 DEF joinPhrase
  <2>7. r \in Seq(Vocabulary) /\ Words(r) = Words(u) \cup Words(next) /\ r # <<>>
    BY <2>5, <2>6, WordsOfBoth
  <2> QED BY <1>3, <2>5, <2>7
<1> QED BY <1>2, <1>3

PhraseAt(a, i) == conditionPhrase(a.clauses[i])

(* What is said of some of the clauses: of each all its words, nothing but *)
(* theirs and separators, and nothing only if none has a word.             *)
Says(w, a, s) ==
  /\ w \in Seq(Vocabulary)
  /\ w = <<>> <=> \A i \in s : PhraseAt(a, i) = <<>>
  /\ \A i \in s : Words(PhraseAt(a, i)) \subseteq Words(w)
  /\ \A x \in Words(w) : x \in {"and", "or"} \/ \E i \in s : x \in Words(PhraseAt(a, i))

(* The joined clauses say all of them, however many there are: the least   *)
(* number for which they would not is one more than one for which they do. *)
LEMMA JoinedSays ==
  ASSUME NEW a, a.clauses \in Seq(AnyClause)
  PROVE  Says(Joined(a), a, 1 .. Len(a.clauses))
<1>1. PICK n \in Nat : n = Len(a.clauses) /\ DOMAIN a.clauses = 1 .. n
  BY LenProperties
<1>2. PICK g : IsJoining(g, a, 1 .. n) /\ Joined(a) = g[1 .. n]
  BY <1>1, JoinedIs
<1> DEFINE Value(s) == IF s = {} THEN <<>>
             ELSE joinPhrase(g[s \ {Max(s)}], conditionPhrase(a.clauses[Max(s)]), a.mode)
           Lacking == {m \in 0 .. n : \E s \in SUBSET (1 .. m) : ~Says(g[s], a, s)}
<1>3. \A s \in SUBSET (1 .. n) : g[s] = Value(s)
  <2> DEFINE G == [s \in SUBSET (1 .. n) |-> Value(s)]
  <2>1. g = G
    BY <1>2, Zenon DEF IsJoining
  <2>2. \A s \in SUBSET (1 .. n) : G[s] = Value(s)
    OBVIOUS
  <2> HIDE DEF G, Value
  <2> QED BY <2>1, <2>2
<1>4. Lacking = {}
  <2> SUFFICES ASSUME Lacking # {} PROVE FALSE
    OBVIOUS
  <2>1. PICK m \in Lacking : \A k \in Lacking : m <= k
    <3>1. Lacking \in SUBSET Nat
      OBVIOUS
    <3> HIDE DEF Lacking
    <3> QED BY <3>1, LeastExists
  <2>2. m \in 0 .. n /\ \E s \in SUBSET (1 .. m) : ~Says(g[s], a, s)
    BY <2>1
  <2>3. PICK s \in SUBSET (1 .. m) : ~Says(g[s], a, s)
    BY <2>2
  <2>4. s \in SUBSET (1 .. n)
    BY <2>2
  <2>5. s # {}
    <3> SUFFICES ASSUME s = {} PROVE FALSE
      OBVIOUS
    <3>1. g[s] = <<>>
      BY <1>3, <2>4
    <3>2. Words(<<>>) = {} /\ <<>> \in Seq(Vocabulary)
      BY DEF Words
    <3> QED BY <2>3, <3>1, <3>2 DEF Says
  <2>6. m # 0 /\ m \in Nat /\ m - 1 \in 0 .. n /\ m - 1 < m
    <3>1. PICK i \in s : TRUE
      BY <2>5
    <3>2. i \in 1 .. m /\ m \in Int /\ 0 <= m /\ m <= n
      BY <2>2
    <3> HIDE DEF Lacking
    <3> QED BY <3>2
  <2>7. m - 1 \notin Lacking
    <3> HIDE DEF Lacking
    <3> QED BY <2>1, <2>6
  <2>8. \A t \in SUBSET (1 .. m - 1) : Says(g[t], a, t)
    BY <2>6, <2>7
  <2>9. Max(s) = m /\ s \ {m} \in SUBSET (1 .. m - 1) /\ m \in s
    BY <2>3, <2>6, <2>8, SomeOfFirst
  <2>10. PICK t : t = s \ {m}
    OBVIOUS
  <2>11. Says(g[t], a, t)
    BY <2>8, <2>9, <2>10
  <2>12. g[s] = joinPhrase(g[t], PhraseAt(a, m), a.mode)
    <3> HIDE DEF Lacking
    <3> QED BY <1>3, <2>4, <2>5, <2>9, <2>10 DEF PhraseAt
  <2>13. PhraseAt(a, m) \in Seq(Vocabulary)
    <3>1. a.clauses[m] \in AnyClause
      BY <1>1, <2>2, <2>6
    <3> QED BY <3>1, PhraseIs DEF PhraseAt
  <2>14. PICK acc : acc = g[t]
    OBVIOUS
  <2>15. PICK r : r = g[s]
    OBVIOUS
  <2>16. /\ r \in Seq(Vocabulary)
         /\ r = <<>> <=> acc = <<>> /\ PhraseAt(a, m) = <<>>
         /\ Words(acc) \cup Words(PhraseAt(a, m)) \subseteq Words(r)
         /\ Words(r) \subseteq Words(acc) \cup Words(PhraseAt(a, m)) \cup {"and", "or"}
    <3>1. acc \in Seq(Vocabulary)
      BY <2>11, <2>14 DEF Says
    <3> QED BY <2>12, <2>13, <2>14, <2>15, <3>1, JoinIs
  <2>17. s = t \cup {m}
    BY <2>9, <2>10
  <2>18. Says(acc, a, t)
    BY <2>11, <2>14
  <2>19. Says(r, a, s)
    BY <2>16, <2>17, <2>18 DEF Says
  <2> QED BY <2>3, <2>15, <2>19
<1>5. 1 .. n \in SUBSET (1 .. n) /\ n \in 0 .. n
  OBVIOUS
<1>6. \A m \in 0 .. n : \A s \in SUBSET (1 .. m) : Says(g[s], a, s)
  BY <1>4
<1>7. Says(g[1 .. n], a, 1 .. n)
  BY <1>5, <1>6
<1> QED BY <1>1, <1>2, <1>7

-----------------------------------------------------------------------------
(* The laws of a condition. *)

(* What upstream says of when a change applies. *)
WhenIs ==
  when \in [mode : Modes, raw : {<<>>, Sentence}, clauses : Seq(Clauses)]

(* Every condition the walk builds is one. *)
LEMMA WhenAlways == Spec => []WhenIs
<1>1. Init => WhenIs
  <2> SUFFICES ASSUME Init PROVE WhenIs
    OBVIOUS
  <2>1. PICK mode \in Modes, raw \in {<<>>, Sentence} :
          when = [mode |-> mode, raw |-> raw, clauses |-> <<>>]
    BY DEF Init, Always, AppliesIf, Modes
  <2>2. <<>> \in Seq(Clauses)
    OBVIOUS
  <2> QED BY <2>1, <2>2 DEF WhenIs
<1>2. WhenIs /\ [Next]_vars => WhenIs'
  <2> SUFFICES ASSUME WhenIs, [Next]_vars PROVE WhenIs'
    OBVIOUS
  <2>1. ASSUME NEW cl \in Clauses, Require(cl) PROVE WhenIs'
    <3>1. Append(when.clauses, cl) \in Seq(Clauses)
      BY DEF WhenIs
    <3> QED BY <2>1, <3>1 DEF Require, WhenIs
  <2>2. when' = when => WhenIs'
    BY DEF WhenIs
  <2> QED BY <2>1, <2>2 DEF Next, Send, Stop, vars
<1> QED BY <1>1, <1>2, PTL DEF Spec

(* The clauses of a condition, and what is said of them. *)
LEMMA WhenSays ==
  ASSUME WhenIs
  PROVE  /\ when.clauses \in Seq(AnyClause)
         /\ DOMAIN when.clauses = 1 .. Len(when.clauses)
         /\ \A i \in DOMAIN when.clauses :
              when.clauses[i] \in Clauses /\ when.clauses[i] \in AnyClause
         /\ Says(Joined(when), when, DOMAIN when.clauses)
         /\ when.raw \in {<<>>, Sentence}
<1>1. when.clauses \in Seq(Clauses) /\ when.raw \in {<<>>, Sentence}
  BY DEF WhenIs
<1>2. when.clauses \in Seq(AnyClause)
  BY <1>1, DecodingAssumption, SeqMonotonic
<1>3. DOMAIN when.clauses = 1 .. Len(when.clauses)
  BY <1>1
<1>4. Says(Joined(when), when, DOMAIN when.clauses)
  BY <1>2, <1>3, JoinedSays
<1> QED BY <1>1, <1>2, <1>3, <1>4

(***************************************************************************)
(* No condition is lost, however many clauses upstream found and in        *)
(* whatever order the empty ones stand among them: a change reads as       *)
(* unconditional only if upstream said so, or said nothing in any form     *)
(* (Change.UnmarshalJSON).                                                 *)
(***************************************************************************)
THEOREM ConditionsAreKept == Spec => []NeverUnconditional
<1>1. WhenIs => NeverUnconditional
  <2> SUFFICES ASSUME WhenIs, condition = <<>> PROVE
                 /\ \A cl \in Words(when.clauses) : cl.name = "" /\ cl.verb = "" /\ cl.kind = ""
                 /\ when.mode = "universal" \/ when.raw = <<>>
    BY DEF NeverUnconditional
  <2>1. Joined(when) = <<>>
    BY DEF condition, Condition
  <2>2. when.mode = "universal" \/ when.raw = <<>>
    BY <2>1 DEF condition, Condition
  <2>3. \A i \in DOMAIN when.clauses : PhraseAt(when, i) = <<>>
    BY <2>1, WhenSays DEF Says
  <2>4. ASSUME NEW i \in DOMAIN when.clauses
        PROVE  /\ when.clauses[i].name = "" /\ when.clauses[i].verb = ""
               /\ when.clauses[i].kind = ""
    <3>1. PICK cl \in AnyClause : cl = when.clauses[i]
      BY WhenSays
    <3>2. conditionPhrase(cl) = <<>>
      BY <2>3, <3>1 DEF PhraseAt
    <3> QED BY <3>1, <3>2, PhraseIs
  <2> QED BY <2>2, <2>4 DEF Words
<1> QED BY <1>1, WhenAlways, PTL

(***************************************************************************)
(* What an agent is told to look for stands in the sentence it reads,      *)
(* however many clauses that joins; and where kinds are words of their own *)
(* a kind stands there only if a clause has nothing else to say            *)
(* (conditionPhrase, Change.UnmarshalJSON).                                *)
(***************************************************************************)
THEOREM TargetsStand ==
  ASSUME KindsApart
  PROVE  Spec => []TargetsAreSaid
<1>1. WhenIs => TargetsAreSaid
  <2> SUFFICES ASSUME WhenIs PROVE TargetsAreSaid
    OBVIOUS
  <2>1. PICK s : s = Joined(when)
    OBVIOUS
  <2>2. Says(s, when, DOMAIN when.clauses)
    BY <2>1, WhenSays
  <2>3. condition = s \/ (s = <<>> /\ condition = when.raw)
    BY <2>1 DEF condition, Condition
  <2>4. ASSUME NEW i \in DOMAIN when.clauses, when.clauses[i].name # ""
        PROVE  when.clauses[i].name \in Words(condition)
    <3>1. PICK cl \in AnyClause : cl = when.clauses[i]
      BY WhenSays
    <3>2. cl.name \in Words(PhraseAt(when, i))
      BY <2>4, <3>1, PhraseIs DEF PhraseAt
    <3>3. cl.name \in Words(s)
      BY <2>2, <3>2 DEF Says
    <3>4. s # <<>>
      BY <3>3 DEF Words
    <3> QED BY <2>3, <3>1, <3>3, <3>4
  <2>5. Words(CondTargets(when)) \ {""} \subseteq Words(condition)
    <3>1. \A t \in Words(CondTargets(when)) :
            \E i \in DOMAIN when.clauses : t = when.clauses[i].name
      BY DEF Words, CondTargets
    <3> QED BY <2>4, <3>1
  <2>6. ASSUME NEW cl \in Words(when.clauses), cl.kind \in Words(condition)
        PROVE  Spoken(cl.kind)
    <3>1. cl \in Clauses
      BY WhenSays DEF Words
    <3>2. CASE cl.kind \in DOMAIN Noun /\ Noun[cl.kind] = cl.kind
      BY <3>2 DEF Spoken
    <3>3. CASE /\ \A d \in Clauses : cl.kind \notin {d.verb, d.name} \ {""}
               /\ cl.kind \notin {"and", "or", "the"} \cup NounWords \cup Words(Sentence)
      <4>1. cl.kind \notin Words(when.raw)
        <5>1. Words(<<>>) = {}
          BY DEF Words
        <5> QED BY <3>3, <5>1, WhenSays
      <4>2. cl.kind \in Words(s)
        BY <2>3, <2>6, <4>1
      <4>3. PICK i \in DOMAIN when.clauses : cl.kind \in Words(PhraseAt(when, i))
        BY <2>2, <3>3, <4>2 DEF Says
      <4>4. PICK d : d = when.clauses[i] /\ d \in Clauses /\ d \in AnyClause
        BY WhenSays
      <4>5. cl.kind \in ({d.verb, d.name} \ {""}) \cup {"the"} \cup NounWords
                          \cup (IF d.name = "" THEN {d.kind} ELSE {})
        BY <4>3, <4>4, PhraseIs DEF PhraseAt
      <4>6. d.name = "" /\ d.kind = cl.kind
        BY <3>3, <4>4, <4>5
      <4>7. d \in Words(when.clauses)
        BY <4>4 DEF Words
      <4> QED BY <4>6, <4>7 DEF Spoken
    <3> QED BY <2>6, <3>1, <3>2, <3>3 DEF KindsApart
  <2> QED BY <2>5, <2>6 DEF TargetsAreSaid
<1> QED BY <1>1, WhenAlways, PTL

-----------------------------------------------------------------------------
(***************************************************************************)
(* Where the phrases of some clauses lie in a text: phrase i begins after  *)
(* place f[i], a separator w stands there unless it is the text's          *)
(* beginning, and there is nothing else.                                   *)
(***************************************************************************)
LiesAt(c, w, p, s, f) ==
  /\ f \in [s -> Nat]
  /\ \A i \in s : f[i] + Len(p[i]) <= Len(c)
  /\ \A i \in s : \A j \in 1 .. Len(p[i]) : c[f[i] + j] = p[i][j]
  /\ \A i, j \in s : i < j => f[i] + Len(p[i]) < f[j]
  /\ \A i \in s : f[i] = 0 \/ c[f[i]] = w
  /\ \A i \in s : \/ f[i] + Len(p[i]) = Len(c)
                  \/ \E j \in s : f[j] = f[i] + Len(p[i]) + 1
  /\ \A x \in 1 .. Len(c) : \E i \in s : f[i] <= x /\ x <= f[i] + Len(p[i])
  /\ s # {} => \E i \in s : f[i] = 0

Lies(c, w, p, s) == \E f : LiesAt(c, w, p, s, f)

(* A text with one more word, and one more phrase. *)
LEMMA TextGrows ==
  ASSUME NEW c \in Seq(Vocabulary), NEW w \in Vocabulary, NEW q \in Seq(Vocabulary),
         NEW d, d = (c \o <<w>>) \o q
  PROVE  /\ d \in Seq(Vocabulary) /\ Len(d) = Len(c) + 1 + Len(q)
         /\ \A x \in 1 .. Len(c) : d[x] = c[x]
         /\ d[Len(c) + 1] = w
         /\ \A j \in 1 .. Len(q) : d[Len(c) + 1 + j] = q[j]
<1>1. PICK o \in Seq(Vocabulary) : o = <<w>> /\ Len(o) = 1 /\ o[1] = w
  <2>1. <<w>> \in Seq(Vocabulary) /\ Len(<<w>>) = 1 /\ <<w>>[1] = w
    OBVIOUS
  <2> QED BY <2>1, Zenon
<1>2. PICK u : u = c \o o
  OBVIOUS
<1>3. /\ u \in Seq(Vocabulary) /\ Len(u) = Len(c) + 1
      /\ \A x \in 1 .. Len(c) + 1 : u[x] = IF x <= Len(c) THEN c[x] ELSE o[x - Len(c)]
  BY <1>1, <1>2, ConcatProperties
<1>4. d = u \o q
  BY <1>1, <1>2
<1>5. /\ d \in Seq(Vocabulary) /\ Len(d) = Len(u) + Len(q)
      /\ \A x \in 1 .. Len(u) + Len(q) : d[x] = IF x <= Len(u) THEN u[x] ELSE q[x - Len(u)]
  BY <1>3, <1>4, ConcatProperties
<1>6. Len(c) \in Nat /\ Len(q) \in Nat
  BY LenProperties
<1>7. PICK n \in Nat, l \in Nat : n = Len(c) /\ l = Len(q)
  BY <1>6
<1>8. \A x \in 1 .. n : d[x] = c[x]
  BY <1>3, <1>5, <1>7
<1>9. d[n + 1] = w
  BY <1>1, <1>3, <1>5, <1>7
<1>10. ASSUME NEW j \in 1 .. l PROVE d[n + 1 + j] = q[j]
  <2>1. n + 1 + j \in 1 .. (n + 1) + l /\ ~(n + 1 + j <= n + 1) /\ n + 1 + j - (n + 1) = j
    OBVIOUS
  <2> QED BY <1>3, <1>5, <1>7, <2>1
<1> QED BY <1>3, <1>5, <1>7, <1>8, <1>9, <1>10

(* The text d is c, of length n, with a separator and phrase m, of length  *)
(* l, after it, where those of s lie in c.                                 *)
Lengthens(d, c, w, p, s, m, n, l, f) ==
  /\ m \in Nat /\ s \in SUBSET Nat /\ n \in Nat \ {0} /\ l \in Nat \ {0}
  /\ LiesAt(c, w, p, s, f)
  /\ \A i \in s : i < m /\ Len(p[i]) \in Nat
  /\ Len(c) = n /\ Len(p[m]) = l /\ Len(d) = n + 1 + l
  /\ \A x \in 1 .. n : d[x] = c[x]
  /\ d[n + 1] = w
  /\ \A j \in 1 .. l : d[n + 1 + j] = p[m][j]

(* One more phrase lies behind a separator at the end of a text.           *)
LEMMA OneMoreLies ==
  \A c, d, w, p, s, m, n, l, f :
    Lengthens(d, c, w, p, s, m, n, l, f) => Lies(d, w, p, s \cup {m})
<1> SUFFICES ASSUME NEW c, NEW d, NEW w, NEW p, NEW s, NEW m, NEW n, NEW l, NEW f,
                    Lengthens(d, c, w, p, s, m, n, l, f)
             PROVE  Lies(d, w, p, s \cup {m})
  OBVIOUS
<1> m \in Nat /\ s \in SUBSET Nat /\ n \in Nat \ {0} /\ l \in Nat \ {0}
  BY DEF Lengthens
<1> LiesAt(c, w, p, s, f) /\ \A i \in s : i < m /\ Len(p[i]) \in Nat
  BY DEF Lengthens
<1> Len(c) = n /\ Len(p[m]) = l /\ Len(d) = n + 1 + l
  BY DEF Lengthens
<1> (\A x \in 1 .. n : d[x] = c[x]) /\ d[n + 1] = w /\ \A j \in 1 .. l : d[n + 1 + j] = p[m][j]
  BY DEF Lengthens
<1> DEFINE h == [i \in s \cup {m} |-> IF i = m THEN n + 1 ELSE f[i]]
<1>1. \A i \in s : f[i] \in Nat /\ f[i] + Len(p[i]) <= n
  BY DEF LiesAt
<1>2. m \notin s
  OBVIOUS
<1>3. /\ h \in [s \cup {m} -> Nat] /\ h[m] = n + 1
      /\ \A i \in s : h[i] = f[i]
  <2>1. \A i \in s : h[i] = f[i]
    BY <1>2
  <2>2. h[m] = n + 1 /\ n + 1 \in Nat
    OBVIOUS
  <2>3. \A i \in s \cup {m} : h[i] \in Nat
    BY <1>1, <2>1, <2>2
  <2>4. h = [i \in s \cup {m} |-> h[i]]
    OBVIOUS
  <2> HIDE DEF h
  <2> QED BY <2>1, <2>2, <2>3, <2>4
<1> HIDE DEF h
<1>4. PICK end \in Nat : end = Len(d) /\ end = n + 1 + l
  OBVIOUS
<1>5. ASSUME NEW i \in s \cup {m} PROVE h[i] + Len(p[i]) <= Len(d)
  <2>1. CASE i = m
    BY <1>3, <1>4, <2>1
  <2>2. CASE i \in s
    <3>1. PICK x \in Nat, y \in Nat : x = f[i] /\ y = Len(p[i]) /\ x + y <= n
      BY <1>1, <2>2
    <3>2. x + y <= end
      BY <1>4, <3>1
    <3> QED BY <1>3, <1>4, <2>2, <3>1, <3>2
  <2> QED BY <2>1, <2>2
<1>6. ASSUME NEW i \in s \cup {m}, NEW j \in 1 .. Len(p[i]) PROVE d[h[i] + j] = p[i][j]
  <2>1. CASE i = m
    BY <1>3, <1>6, <2>1
  <2>2. CASE i \in s
    <3>0. PICK x \in Nat, y \in Nat : x = f[i] /\ y = Len(p[i]) /\ x + y <= n
      BY <1>1, <2>2
    <3>1. f[i] + j \in 1 .. n
      BY <3>0
    <3>2. c[f[i] + j] = p[i][j]
      BY <1>6, <2>2 DEF LiesAt
    <3> QED BY <1>3, <2>2, <3>1, <3>2
  <2> QED BY <2>1, <2>2
<1>7. ASSUME NEW i \in s \cup {m}, NEW j \in s \cup {m}, i < j
      PROVE  h[i] + Len(p[i]) < h[j]
  <2>1. i \in s
    <3>1. j = m \/ j < m
      BY <1>7
    <3> QED BY <1>7, <3>1
  <2>2. CASE j = m
    <3>1. PICK x \in Nat, y \in Nat : x = f[i] /\ y = Len(p[i]) /\ x + y <= n
      BY <1>1, <2>1
    <3> QED BY <1>3, <2>1, <2>2, <3>1
  <2>3. CASE j \in s
    <3>1. f[i] + Len(p[i]) < f[j]
      BY <1>7, <2>1, <2>3 DEF LiesAt
    <3> QED BY <1>3, <2>1, <2>3, <3>1
  <2> QED BY <2>2, <2>3
<1>8. ASSUME NEW i \in s \cup {m} PROVE h[i] = 0 \/ d[h[i]] = w
  <2>1. CASE i = m
    BY <1>3, <2>1
  <2>2. CASE i \in s
    <3>1. f[i] = 0 \/ c[f[i]] = w
      BY <2>2 DEF LiesAt
    <3>0. PICK x \in Nat, y \in Nat : x = f[i] /\ y = Len(p[i]) /\ x + y <= n
      BY <1>1, <2>2
    <3>2. f[i] # 0 => f[i] \in 1 .. n
      BY <3>0
    <3> QED BY <1>3, <2>2, <3>1, <3>2
  <2> QED BY <2>1, <2>2
<1>9. ASSUME NEW i \in s \cup {m}
      PROVE  \/ h[i] + Len(p[i]) = Len(d)
             \/ \E j \in s \cup {m} : h[j] = h[i] + Len(p[i]) + 1
  <2>1. CASE i = m
    BY <1>3, <1>4, <2>1
  <2>2. CASE i \in s
    <3>1. \/ f[i] + Len(p[i]) = n
          \/ \E j \in s : f[j] = f[i] + Len(p[i]) + 1
      BY <2>2 DEF LiesAt
    <3>2. CASE f[i] + Len(p[i]) = n
      BY <1>3, <2>2, <3>2
    <3>3. CASE \E j \in s : f[j] = f[i] + Len(p[i]) + 1
      BY <1>3, <2>2, <3>3
    <3> QED BY <3>1, <3>2, <3>3
  <2> QED BY <2>1, <2>2
<1>10. ASSUME NEW x \in 1 .. Len(d)
       PROVE  \E i \in s \cup {m} : h[i] <= x /\ x <= h[i] + Len(p[i])
  <2>1. x \in 1 .. end
    BY <1>4
  <2>2. CASE x <= n
    <3>1. x \in 1 .. n
      BY <2>1, <2>2
    <3>2. PICK i \in s : f[i] <= x /\ x <= f[i] + Len(p[i])
      BY <3>1 DEF LiesAt
    <3> QED BY <1>3, <3>2
  <2>3. CASE ~(x <= n)
    <3>1. n + 1 <= x /\ x <= n + 1 + l
      BY <1>4, <2>1, <2>3
    <3> QED BY <1>3, <3>1
  <2> QED BY <2>2, <2>3
<1>11. \E i \in s \cup {m} : h[i] = 0
  <2>1. 1 \in 1 .. n
    OBVIOUS
  <2>2. s # {}
    BY <2>1 DEF LiesAt
  <2> QED BY <1>3, <2>2 DEF LiesAt
<1>12. LiesAt(d, w, p, s \cup {m}, h)
  BY <1>3, <1>5, <1>6, <1>7, <1>8, <1>9, <1>10, <1>11 DEF LiesAt
<1> QED BY <1>12 DEF Lies

(* The phrase of the next clause lies after those of the clauses before    *)
(* it, behind a separator unless they said nothing (joinPhrase).           *)
LEMMA NextLies ==
  ASSUME NEW c \in Seq(Vocabulary), NEW w \in Vocabulary, NEW m \in Nat, NEW p,
         NEW s \in SUBSET Nat, \A i \in s : i < m,
         \A i \in s \cup {m} : p[i] \in Seq(Vocabulary) /\ p[i] # <<>>,
         Lies(c, w, p, s),
         NEW d, d = IF c = <<>> THEN p[m] ELSE (c \o <<w>>) \o p[m]
  PROVE  Lies(d, w, p, s \cup {m})
<1>1. \A i \in s \cup {m} : Len(p[i]) \in Nat \ {0}
  BY LenProperties, EmptySeq
<1>2. PICK f : LiesAt(c, w, p, s, f)
  BY DEF Lies
<1>3. Len(c) \in Nat /\ (c = <<>> <=> Len(c) = 0)
  BY LenProperties, EmptySeq
<1>5. CASE c = <<>>
  <2>1. s = {}
    <3> SUFFICES ASSUME NEW i \in s PROVE FALSE
      OBVIOUS
    <3>1. f[i] \in Nat /\ f[i] + Len(p[i]) <= Len(c)
      BY <1>2 DEF LiesAt
    <3> QED BY <1>1, <1>3, <1>5, <3>1
  <2>2. PICK h : h = [i \in {m} |-> 0]
    OBVIOUS
  <2>3. h \in [{m} -> Nat] /\ h[m] = 0
    BY <2>2
  <2>4. PICK l \in Nat : l = Len(p[m]) /\ l # 0
    BY <1>1
  <2>5. LiesAt(d, w, p, {m}, h)
    BY <1>5, <2>3, <2>4 DEF LiesAt
  <2>6. s \cup {m} = {m}
    BY <2>1
  <2> QED BY <2>5, <2>6 DEF Lies
<1>6. CASE c # <<>>
  <2>1. PICK q \in Seq(Vocabulary) : q = p[m]
    OBVIOUS
  <2>2. PICK e : e = (c \o <<w>>) \o q
    OBVIOUS
  <2>3. d = e
    BY <1>6, <2>1, <2>2
  <2>4. PICK n \in Nat \ {0}, l \in Nat \ {0} : n = Len(c) /\ l = Len(q)
    BY <1>1, <1>3, <1>6, <2>1
  <2>5. /\ Len(e) = Len(c) + 1 + Len(q)
        /\ \A x \in 1 .. Len(c) : e[x] = c[x]
        /\ e[Len(c) + 1] = w
        /\ \A j \in 1 .. Len(q) : e[Len(c) + 1 + j] = q[j]
    BY <2>2, TextGrows
  <2>6. /\ Len(d) = n + 1 + l
        /\ \A x \in 1 .. n : d[x] = c[x]
        /\ d[n + 1] = w
        /\ \A j \in 1 .. l : d[n + 1 + j] = p[m][j]
    BY <2>1, <2>3, <2>4, <2>5, Zenon
  <2>7. Len(c) = n /\ Len(p[m]) = l /\ \A i \in s : i < m /\ Len(p[i]) \in Nat
    BY <1>1, <2>1, <2>4
  <2>8. Lengthens(d, c, w, p, s, m, n, l, f)
    BY <1>2, <2>6, <2>7, Zenon DEF Lengthens
  <2> QED BY <2>8, OneMoreLies, Zenon
<1> QED BY <1>5, <1>6

(* The clauses, of the first m, that say anything. *)
Saying(a, m) == {i \in 1 .. m : PhraseAt(a, i) # <<>>}

PhrasesOf(a) == [i \in DOMAIN a.clauses |-> PhraseAt(a, i)]

(* In the joined clauses lie the phrases of all that say anything, however *)
(* many there are (joinPhrase, Change.UnmarshalJSON).                      *)
LEMMA JoinedLies ==
  ASSUME NEW a, a.clauses \in Seq(AnyClause)
  PROVE  Lies(Joined(a), Separator(a.mode), PhrasesOf(a), Saying(a, Len(a.clauses)))
<1>1. PICK n \in Nat : n = Len(a.clauses) /\ DOMAIN a.clauses = 1 .. n
  BY LenProperties
<1>2. PICK g : IsJoining(g, a, 1 .. n) /\ Joined(a) = g[1 .. n]
  BY <1>1, JoinedIs
<1>3. PICK w \in Vocabulary : w = Separator(a.mode)
  BY DEF Separator, Vocabulary
<1>4. PICK p : p = PhrasesOf(a)
  OBVIOUS
<1>5. ASSUME NEW i \in 1 .. n PROVE p[i] = PhraseAt(a, i) /\ p[i] \in Seq(Vocabulary)
  <2>1. p[i] = PhraseAt(a, i)
    BY <1>1, <1>4 DEF PhrasesOf
  <2>2. a.clauses[i] \in AnyClause
    BY <1>1
  <2> QED BY <2>1, <2>2, PhraseIs DEF PhraseAt
<1> DEFINE Value(s) == IF s = {} THEN <<>>
             ELSE joinPhrase(g[s \ {Max(s)}], conditionPhrase(a.clauses[Max(s)]), a.mode)
           Good(m) == g[1 .. m] \in Seq(Vocabulary) /\ Lies(g[1 .. m], w, p, Saying(a, m))
           Lacking == {m \in 0 .. n : ~Good(m)}
<1>6. \A s \in SUBSET (1 .. n) : g[s] = Value(s)
  <2> DEFINE G == [s \in SUBSET (1 .. n) |-> Value(s)]
  <2>1. g = G
    BY <1>2, Zenon DEF IsJoining
  <2>2. \A s \in SUBSET (1 .. n) : G[s] = Value(s)
    OBVIOUS
  <2> HIDE DEF G, Value
  <2> QED BY <2>1, <2>2
<1>7. Good(0)
  <2>1. 1 .. 0 = {} /\ Saying(a, 0) = {}
    BY DEF Saying
  <2>2. {} \in SUBSET (1 .. n) /\ Value({}) = <<>>
    OBVIOUS
  <2>3. g[{}] = <<>>
    BY <1>6, <2>2
  <2>4. LiesAt(<<>>, w, p, {}, [i \in {} |-> 0])
    BY DEF LiesAt
  <2>5. Lies(<<>>, w, p, {})
    BY <2>4, Zenon DEF Lies
  <2>6. <<>> \in Seq(Vocabulary)
    OBVIOUS
  <2> QED BY <2>1, <2>3, <2>5, <2>6
<1>8. ASSUME NEW m \in 1 .. n, Good(m - 1) PROVE Good(m)
  <2>1. /\ 1 .. m \in SUBSET (1 .. n) /\ m \in Nat \ {0}
        /\ 1 .. m \in SUBSET (1 .. m) /\ 1 .. m \notin SUBSET (1 .. m - 1)
        /\ (1 .. m) \ {m} = 1 .. m - 1
    OBVIOUS
  <2>2. PICK t : t = 1 .. m
    OBVIOUS
  <2>3. t # {} /\ Max(t) = m /\ t \ {m} = 1 .. m - 1
    BY <2>1, <2>2, SomeOfFirst
  <2>4. PICK c : c = g[1 .. m - 1]
    OBVIOUS
  <2>5. PICK d : d = g[t]
    OBVIOUS
  <2>6. d = joinPhrase(c, p[m], a.mode)
    <3>1. d = Value(t)
      BY <1>6, <2>1, <2>2, <2>5
    <3>2. Value(t) = joinPhrase(c, conditionPhrase(a.clauses[m]), a.mode)
      BY <2>3, <2>4, Zenon
    <3>3. conditionPhrase(a.clauses[m]) = p[m]
      BY <1>5 DEF PhraseAt
    <3> HIDE DEF Value
    <3> QED BY <3>1, <3>2, <3>3
  <2>7. PICK s : s = Saying(a, m - 1)
    OBVIOUS
  <2>8. c \in Seq(Vocabulary) /\ Lies(c, w, p, s)
    BY <1>8, <2>4, <2>7
  <2>9. p[m] \in Seq(Vocabulary) /\ p[m] = PhraseAt(a, m)
    BY <1>5
  <2>10. d \in Seq(Vocabulary)
    BY <2>6, <2>8, <2>9, JoinIs
  <2>11. CASE p[m] = <<>>
    <3>1. d = c
      BY <2>6, <2>11 DEF joinPhrase
    <3>2. Saying(a, m) = s
      BY <2>1, <2>7, <2>9, <2>11 DEF Saying
    <3> QED BY <2>2, <2>5, <2>8, <3>1, <3>2
  <2>12. CASE p[m] # <<>>
    <3>1. d = IF c = <<>> THEN p[m] ELSE (c \o <<w>>) \o p[m]
      BY <1>3, <2>6, <2>12 DEF joinPhrase
    <3>2. Saying(a, m) = s \cup {m}
      BY <2>1, <2>7, <2>9, <2>12 DEF Saying
    <3>3. s \in SUBSET Nat /\ \A i \in s : i < m
      BY <2>1, <2>7 DEF Saying
    <3>4. \A i \in s \cup {m} : p[i] \in Seq(Vocabulary) /\ p[i] # <<>>
      BY <1>5, <2>1, <2>7, <2>12 DEF Saying
    <3>5. Lies(d, w, p, s \cup {m})
      BY <2>1, <2>8, <3>1, <3>3, <3>4, NextLies
    <3> QED BY <2>2, <2>5, <2>10, <3>2, <3>5
  <2> QED BY <2>11, <2>12
<1>9. Lacking = {}
  <2> SUFFICES ASSUME Lacking # {} PROVE FALSE
    OBVIOUS
  <2> HIDE DEF Good
  <2>1. PICK m \in Lacking : \A k \in Lacking : m <= k
    <3>1. Lacking \in SUBSET Nat
      OBVIOUS
    <3> HIDE DEF Lacking
    <3> QED BY <3>1, LeastExists
  <2>2. m \in 0 .. n /\ ~Good(m)
    BY <2>1
  <2>3. m \in 1 .. n
    BY <1>7, <2>2
  <2>4. Good(m - 1)
    BY <2>1, <2>3
  <2> QED BY <1>8, <2>2, <2>3, <2>4
<1>10. Good(n)
  <2> HIDE DEF Good
  <2> QED BY <1>9
<1> QED BY <1>1, <1>2, <1>3, <1>4, <1>10

-----------------------------------------------------------------------------
(***************************************************************************)
(* A text in which phrases without separators lie is cut at the places     *)
(* between them and nowhere else, so its parts are those phrases, each at  *)
(* its rank.                                                               *)
(***************************************************************************)
LEMMA PartsAre ==
  ASSUME NEW c \in Seq(Vocabulary), NEW w \in {"and", "or"}, NEW p,
         NEW s \in SUBSET Nat, IsFiniteSet(s), s # {},
         \A i \in s : /\ p[i] \in Seq(Vocabulary) /\ p[i] # <<>>
                      /\ "and" \notin Words(p[i]) /\ "or" \notin Words(p[i]),
         Lies(c, w, p, s)
  PROVE  /\ Parts(c) = {[at |-> Cardinality({k \in s : k <= i}), words |-> p[i]] : i \in s}
         /\ \A x \in Cuts(c) : c[x] = w
<1>1. PICK f : LiesAt(c, w, p, s, f)
  BY DEF Lies
<1>2. PICK n \in Nat : n = Len(c) /\ DOMAIN c = 1 .. n
  BY LenProperties
<1>3. \A i \in s : f[i] \in Nat /\ Len(p[i]) \in Nat \ {0} /\ DOMAIN p[i] = 1 .. Len(p[i])
                   /\ f[i] + Len(p[i]) <= n
  <2>1. f \in [s -> Nat]
    BY <1>1 DEF LiesAt
  <2> QED BY <1>1, <1>2, <2>1, LenProperties, EmptySeq DEF LiesAt
<1>4. \A i, j \in s : i < j => f[i] + Len(p[i]) < f[j]
  BY <1>1 DEF LiesAt
<1>0. ASSUME NEW i \in s, NEW j \in s, i < j PROVE f[i] < f[j]
  <2>1. PICK x \in Nat, y \in Nat, l \in Nat : x = f[i] /\ y = f[j] /\ l = Len(p[i])
    BY <1>3
  <2>2. x + l < y
    BY <1>4, <1>0, <2>1, Zenon
  <2> QED BY <2>1, <2>2
<1>5. ASSUME NEW i \in s, NEW j \in 1 .. Len(p[i])
      PROVE  c[f[i] + j] = p[i][j] /\ c[f[i] + j] \notin {"and", "or"}
  <2>1. c[f[i] + j] = p[i][j]
    BY <1>1, <1>5 DEF LiesAt
  <2>2. p[i][j] \in Words(p[i])
    BY <1>3, <1>5 DEF Words
  <2> QED BY <2>1, <2>2
<1>6. \A i \in s : f[i] # 0 => f[i] \in 1 .. n /\ c[f[i]] = w
  <2>1. \A i \in s : f[i] = 0 \/ c[f[i]] = w
    BY <1>1 DEF LiesAt
  <2> QED BY <1>3, <2>1
<1>7. \A x \in Cuts(c) : x \in 1 .. n /\ \E i \in s : x = f[i]
  <2> SUFFICES ASSUME NEW x \in Cuts(c)
               PROVE  x \in 1 .. n /\ \E i \in s : x = f[i]
    OBVIOUS
  <2>1. x \in 1 .. n /\ c[x] \in {"and", "or"}
    BY <1>2 DEF Cuts
  <2>2. PICK i \in s : f[i] <= x /\ x <= f[i] + Len(p[i])
    BY <1>1, <1>2, <2>1 DEF LiesAt
  <2>3. ASSUME f[i] # x PROVE FALSE
    <3>1. PICK j \in 1 .. Len(p[i]) : f[i] + j = x
      <4>1. x - f[i] \in 1 .. Len(p[i]) /\ f[i] + (x - f[i]) = x
        BY <1>3, <2>1, <2>2, <2>3
      <4> QED BY <4>1
    <3> QED BY <1>5, <2>1, <3>1
  <2> QED BY <2>1, <2>3
<1>8. \A i \in s : f[i] # 0 => f[i] \in Cuts(c)
  BY <1>2, <1>6 DEF Cuts
<1>9. PICK o \in s : f[o] = 0
  BY <1>1 DEF LiesAt
<1>10. \A i, j \in s : i <= j <=> f[i] <= f[j]
  <2> SUFFICES ASSUME NEW i \in s, NEW j \in s PROVE i <= j <=> f[i] <= f[j]
    OBVIOUS
  <2>1. i \in Nat /\ j \in Nat /\ (i < j \/ i = j \/ j < i)
    <3>1. \A x, y \in Nat : x < y \/ x = y \/ y < x
      OBVIOUS
    <3>2. i \in Nat /\ j \in Nat
      OBVIOUS
    <3> QED BY <3>1, <3>2, Zenon
  <2>2. i < j => f[i] < f[j]
    BY <1>0
  <2>3. j < i => f[j] < f[i]
    BY <1>0
  <2> QED BY <1>3, <2>1, <2>2, <2>3
<1> DEFINE From == {0} \cup Cuts(c)
           To(x) == CHOOSE y \in Cuts(c) \cup {Len(c) + 1} :
                      y > x /\ \A k \in Cuts(c) : k > x => y <= k
           Part(x) == [at |-> Cardinality({k \in Cuts(c) : k <= x}) + 1,
                       words |-> SubSeq(c, x + 1, To(x) - 1)]
<1>11. From = {f[i] : i \in s}
  BY <1>7, <1>8, <1>9
<1>12. ASSUME NEW i \in s PROVE To(f[i]) = f[i] + Len(p[i]) + 1
  <2>0. PICK b \in Nat, l \in Nat \ {0} : b = f[i] /\ l = Len(p[i]) /\ b + l <= n
    BY <1>3
  <2>1. PICK y \in Nat : y = b + l + 1 /\ y = f[i] + Len(p[i]) + 1
    BY <2>0
  <2>2. y > f[i] /\ y <= n + 1
    BY <2>0, <2>1
  <2>3. \A k \in Cuts(c) : k > f[i] => y <= k
    <3> SUFFICES ASSUME NEW k \in Cuts(c), k > f[i] PROVE y <= k
      OBVIOUS
    <3>1. PICK j \in s : k = f[j]
      BY <1>7
    <3>2. PICK e \in Nat : e = f[j] /\ b < e
      BY <1>3, <2>0, <3>1
    <3>3. i < j
      <4>1. i \in Nat /\ j \in Nat
        OBVIOUS
      <4>2. ~(e <= b)
        BY <3>2
      <4>3. ~(j <= i)
        BY <1>10, <2>0, <3>2, <4>2, Zenon
      <4> QED BY <4>1, <4>3
    <3>4. b + l < e
      BY <1>4, <2>0, <3>2, <3>3, Zenon
    <3> QED BY <2>1, <3>1, <3>2, <3>4
  <2>4. y = n + 1 \/ y \in Cuts(c)
    <3>1. \/ f[i] + Len(p[i]) = n
          \/ \E j \in s : f[j] = f[i] + Len(p[i]) + 1
      BY <1>1, <1>2 DEF LiesAt
    <3>2. CASE f[i] + Len(p[i]) = n
      BY <2>0, <2>1, <3>2
    <3>3. CASE \E j \in s : f[j] = f[i] + Len(p[i]) + 1
      <4>1. PICK j \in s : f[j] = y
        BY <2>1, <3>3
      <4>2. y # 0
        BY <2>0, <2>1
      <4> QED BY <1>8, <4>1, <4>2, Zenon
    <3> QED BY <3>1, <3>2, <3>3
  <2>5. \A z \in Cuts(c) \cup {n + 1} :
          z > f[i] /\ (\A k \in Cuts(c) : k > f[i] => z <= k) => z = y
    <3> SUFFICES ASSUME NEW z \in Cuts(c) \cup {n + 1}, z > f[i],
                        \A k \in Cuts(c) : k > f[i] => z <= k
                 PROVE  z = y
      OBVIOUS
    <3>1. z \in Nat /\ z <= n + 1
      BY <1>7
    <3>2. CASE y \in Cuts(c)
      BY <2>2, <2>3, <3>1, <3>2
    <3>3. CASE y = n + 1
      BY <2>3, <3>1, <3>3
    <3> QED BY <2>4, <3>2, <3>3
  <2> QED BY <1>2, <2>1, <2>2, <2>3, <2>4, <2>5
<1>13. ASSUME NEW i \in s
       PROVE  Cardinality({k \in Cuts(c) : k <= f[i]}) + 1 = Cardinality({k \in s : k <= i})
  <2> DEFINE T == {k \in s : k <= i}
             U == {f[k] : k \in T}
             B == [k \in T |-> f[k]]
  <2>1. IsFiniteSet(T)
    BY FS_Subset
  <2>2. B \in Bijection(T, U)
    <3>1. B \in [T -> U]
      OBVIOUS
    <3>2. \A j, k \in T : B[j] = B[k] => j = k
      BY <1>3, <1>10
    <3>3. \A u \in U : \E k \in T : B[k] = u
      OBVIOUS
    <3> HIDE DEF B, T, U
    <3> QED BY <3>1, <3>2, <3>3 DEF Bijection, Injection, Surjection, IsInjective
  <2>3. IsFiniteSet(U) /\ Cardinality(U) = Cardinality(T)
    <3> HIDE DEF B, T, U
    <3> QED BY <2>1, <2>2, FS_Bijection DEF ExistsBijection
  <2>4. o \in T /\ 0 \in U
    BY <1>3, <1>9, <1>10
  <2>5. U \ {0} = {k \in Cuts(c) : k <= f[i]}
    <3>1. \A u \in U : u # 0 => u \in Cuts(c) /\ u <= f[i]
      BY <1>8, <1>10
    <3>2. ASSUME NEW x \in Cuts(c), x <= f[i] PROVE x \in U /\ x # 0
      <4>1. PICK k \in s : x = f[k] /\ x \in 1 .. n
        BY <1>7
      <4>2. k \in T
        BY <1>10, <3>2, <4>1
      <4> QED BY <4>1, <4>2
    <3> QED BY <3>1, <3>2
  <2>6. Cardinality(U \ {0}) = Cardinality(U) - 1 /\ Cardinality(U) \in Nat
    <3> HIDE DEF U
    <3> QED BY <2>3, <2>4, FS_RemoveElement, FS_CardinalityType
  <2>7. PICK a \in Nat : a = Cardinality(U)
    BY <2>6
  <2>8. Cardinality(U \ {0}) + 1 = a
    BY <2>6, <2>7
  <2> QED BY <2>3, <2>5, <2>7, <2>8, Zenon
<1>14. ASSUME NEW i \in s PROVE SubSeq(c, f[i] + 1, To(f[i]) - 1) = p[i]
  <2>1. PICK l \in Nat \ {0}, b \in Nat : l = Len(p[i]) /\ b = f[i] /\ b + l <= n
    BY <1>3
  <2> HIDE DEF To
  <2>2. To(f[i]) - 1 = b + l
    <3>1. PICK y : y = To(f[i])
      OBVIOUS
    <3>2. y = b + l + 1
      BY <1>12, <2>1, <3>1
    <3> QED BY <3>1, <3>2
  <2>3. \A j \in 1 .. l : c[b + j] = p[i][j]
    BY <1>5, <2>1
  <2>4. PICK u : u = SubSeq(c, b + 1, b + l)
    OBVIOUS
  <2>5. u \in Seq(Vocabulary) /\ Len(u) = l /\ \A j \in 1 .. l : u[j] = c[b + j]
    <3>1. \A x \in (b + 1) .. (b + l) : c[x] \in Vocabulary
      BY <1>2, <2>1
    <3>2. /\ u \in Seq(Vocabulary)
          /\ Len(u) = IF b + 1 <= b + l THEN b + l - (b + 1) + 1 ELSE 0
          /\ \A j \in 1 .. b + l - (b + 1) + 1 : u[j] = c[b + 1 + j - 1]
      <4>1. PICK lo \in Int, hi \in Int : lo = b + 1 /\ hi = b + l
        OBVIOUS
      <4>2. /\ SubSeq(c, lo, hi) \in Seq(Vocabulary)
            /\ Len(SubSeq(c, lo, hi)) = IF lo <= hi THEN hi - lo + 1 ELSE 0
            /\ \A j \in 1 .. hi - lo + 1 : SubSeq(c, lo, hi)[j] = c[lo + j - 1]
        BY <3>1, <4>1, SubSeqProperties
      <4> QED BY <2>4, <4>1, <4>2
    <3>3. b + 1 <= b + l /\ b + l - (b + 1) + 1 = l
      OBVIOUS
    <3>4. \A j \in 1 .. l : b + 1 + j - 1 = b + j
      OBVIOUS
    <3> QED BY <3>2, <3>3, <3>4
  <2>6. p[i] \in Seq(Vocabulary) /\ Len(p[i]) = l
    BY <2>1
  <2>7. u = p[i]
    <3>1. PICK v \in Seq(Vocabulary) : v = p[i] /\ Len(v) = l
      BY <2>6
    <3>2. Len(u) = Len(v)
      BY <2>5, <3>1
    <3>3. \A j \in 1 .. Len(u) : u[j] = v[j]
      <4>1. \A j \in 1 .. l : u[j] = v[j]
        BY Zenon, <2>3, <2>5, <3>1
      <4> QED BY Zenon, <2>5, <4>1
    <3>4. u = v
      BY Zenon, <2>5, <3>2, <3>3, SeqEqual
    <3> QED BY Zenon, <3>1, <3>4
  <2> QED BY <2>1, <2>2, <2>4, <2>7
<1>15. ASSUME NEW i \in s
       PROVE  Part(f[i]) = [at |-> Cardinality({k \in s : k <= i}), words |-> p[i]]
  BY <1>13, <1>14
<1>16. Parts(c) = {Part(x) : x \in From}
  BY DEF Parts
<1>17. {Part(x) : x \in From} = {Part(f[i]) : i \in s}
  <2> HIDE DEF From, Part
  <2> QED BY <1>11
<1>18. {Part(f[i]) : i \in s} = {[at |-> Cardinality({k \in s : k <= i}), words |-> p[i]] : i \in s}
  <2> HIDE DEF Part
  <2> QED BY <1>15
<1>19. ASSUME NEW x \in Cuts(c) PROVE c[x] = w
  <2>1. PICK i \in s : x = f[i] /\ x \in 1 .. n
    BY <1>7
  <2>2. f[i] # 0
    BY <2>1
  <2> QED BY <1>6, <2>1, <2>2
<1> QED BY <1>16, <1>17, <1>18, <1>19

(* No noun is a separator. *)
LEMMA NounsAre == NounWords \cap {"and", "or"} = {}
<1>1. NounWords = {"flag", "feature gate", "setting", "CRD", "API", "extension", "metric"}
  <2>1. DOMAIN Noun = {"flag", "feature_gate", "config_field", "crd", "api", "extension", "metric"}
    BY DEF Noun
  <2>2. /\ Noun["flag"] = "flag" /\ Noun["feature_gate"] = "feature gate"
        /\ Noun["config_field"] = "setting" /\ Noun["crd"] = "CRD" /\ Noun["api"] = "API"
        /\ Noun["extension"] = "extension" /\ Noun["metric"] = "metric"
    BY DEF Noun
  <2> QED BY <2>1, <2>2 DEF NounWords
<1> QED BY <1>1

(***************************************************************************)
(* A condition reads back as its clauses, however many there are and       *)
(* wherever the empty ones stand, provided that no clause has a separator  *)
(* for a word (joinPhrase, conditionPhrase).                               *)
(***************************************************************************)
THEOREM ClausesStand ==
  ASSUME SeparatorsApart
  PROVE  Spec => []ClausesReadBack
<1>1. WhenIs => ClausesReadBack
  <2> SUFFICES ASSUME WhenIs, Said # {} PROVE
        /\ Parts(condition) =
             {[at |-> Cardinality({k \in Said : k <= i}), words |-> Phrase(i)] : i \in Said}
        /\ \A i \in Cuts(condition) : condition[i] = "or" <=> when.mode = "any_of"
    BY DEF ClausesReadBack
  <2>1. PICK n \in Nat : n = Len(when.clauses) /\ DOMAIN when.clauses = 1 .. n
    BY WhenSays, LenProperties
  <2>2. Said = Saying(when, n)
    BY <2>1 DEF Said, Saying, Phrase, PhraseAt
  <2>3. PICK c : c = Joined(when)
    OBVIOUS
  <2>4. PICK w \in {"and", "or"} : w = Separator(when.mode)
    BY DEF Separator
  <2>5. w = "or" <=> when.mode = "any_of"
    BY <2>4 DEF Separator
  <2>6. c \in Seq(Vocabulary) /\ (c = <<>> <=> \A i \in 1 .. n : PhraseAt(when, i) = <<>>)
    BY <2>1, <2>3, WhenSays DEF Says
  <2>7. condition = c
    <3>1. c # <<>>
      BY <2>2, <2>6 DEF Saying
    <3> QED BY <2>3, <3>1 DEF condition, Condition
  <2>8. PICK p : p = PhrasesOf(when)
    OBVIOUS
  <2>9. Lies(c, w, p, Said)
    BY <2>1, <2>2, <2>3, <2>4, <2>8, WhenSays, JoinedLies
  <2>10. ASSUME NEW i \in Said
         PROVE  /\ p[i] = Phrase(i)
                /\ p[i] \in Seq(Vocabulary) /\ p[i] # <<>>
                /\ "and" \notin Words(p[i]) /\ "or" \notin Words(p[i])
    <3>1. i \in 1 .. n /\ p[i] = PhraseAt(when, i) /\ p[i] # <<>> /\ p[i] = Phrase(i)
      BY <2>1, <2>2, <2>8 DEF Saying, PhrasesOf, Phrase, PhraseAt
    <3>2. PICK cl : cl = when.clauses[i] /\ cl \in Clauses /\ cl \in AnyClause
      BY <2>1, <3>1, WhenSays
    <3>3. /\ p[i] \in Seq(Vocabulary)
          /\ Words(p[i]) \subseteq ({cl.verb, cl.name} \ {""}) \cup {"the"} \cup NounWords
                                 \cup (IF cl.name = "" THEN {cl.kind} ELSE {})
      BY <3>1, <3>2, PhraseIs DEF PhraseAt
    <3>4. {cl.verb, cl.kind, cl.name} \cap {"and", "or"} = {}
      BY <3>2 DEF SeparatorsApart
    <3>5. NounWords \cap {"and", "or"} = {}
      BY NounsAre
    <3> QED BY <3>1, <3>3, <3>4, <3>5
  <2>11. Said \in SUBSET Nat /\ IsFiniteSet(Said)
    <3>1. Said \in SUBSET (1 .. n)
      BY <2>2 DEF Saying
    <3>2. IsFiniteSet(1 .. n)
      BY FS_Interval
    <3>3. PICK r : r = Said
      OBVIOUS
    <3>4. IsFiniteSet(r)
      BY <3>1, <3>2, <3>3, FS_Subset
    <3> QED BY <3>1, <3>3, <3>4
  <2>12. /\ Parts(c) = {[at |-> Cardinality({k \in Said : k <= i}), words |-> p[i]] : i \in Said}
         /\ \A x \in Cuts(c) : c[x] = w
    BY <2>6, <2>9, <2>10, <2>11, PartsAre
  <2>13. {[at |-> Cardinality({k \in Said : k <= i}), words |-> p[i]] : i \in Said}
           = {[at |-> Cardinality({k \in Said : k <= i}), words |-> Phrase(i)] : i \in Said}
    BY <2>10
  <2> QED BY <2>5, <2>7, <2>12, <2>13
<1> QED BY <1>1, WhenAlways, PTL

=============================================================================
