----------------------------- MODULE Arguments -----------------------------
(***************************************************************************)
(* How the components of a check_stack call are read from its arguments:   *)
(* the array or the array in a string (stackComponents.UnmarshalJSON), a   *)
(* component with its alias (stackComponent.UnmarshalJSON), and the        *)
(* refusal of one without a project (checkStackTool).                      *)
(*                                                                         *)
(* JSON text is its value: of a component the keys it has and what stands  *)
(* under "project" and "name"; whether the other fields decode is one bit. *)
(***************************************************************************)
EXTENDS Integers, Sequences

CONSTANTS
  Slugs,             (* what a caller writes for a project                 *)
  Blanks,            (* texts of white space alone                         *)
  Unread             (* keys no field reads: project_slug, slug            *)

Text == Slugs \cup Blanks \cup {""}

ASSUME ArgumentsAssumption ==
  /\ "" \notin Slugs \cup Blanks
  /\ Slugs \cap Blanks = {}
  /\ {"project", "name"} \cap Unread = {}

(* The keys that a field of the component, or its alias, reads. *)
Fields == {"project", "name", "version", "target_version", "version_source"}

-----------------------------------------------------------------------------
(***************************************************************************)
(* What is sent.  An element of the array is an object, null, or of        *)
(* another type.  An absent key and an empty text decode to the same; `ok` *)
(* says that project, name and the other fields have the right types.      *)
(***************************************************************************)
Object(keys, project, name, ok) ==
  [type |-> "object", keys |-> keys, project |-> project, name |-> name, ok |-> ok]

Null == [type |-> "null", keys |-> {}, project |-> "", name |-> "", ok |-> TRUE]

Scalar == [type |-> "scalar", keys |-> {}, project |-> "", name |-> "", ok |-> FALSE]

(* The elements there are. *)
Element ==
  [type : {"object", "null", "scalar"}, keys : SUBSET (Unread \cup Fields),
   project : Text, name : Text, ok : BOOLEAN]

(***************************************************************************)
(* The value of "components": an array, null, another value, or a string   *)
(* that holds any of them (`strings` of them around it).                   *)
(***************************************************************************)
Sent(type, elements, strings) ==
  [type |-> type, elements |-> elements, strings |-> strings]

-----------------------------------------------------------------------------
(* A component as it is used: its project, and the keys when it has none.  *)

(* Mutant of sentKeys: only the keys that a field reads. *)
sentKeysRead(e, project) == IF project = "" THEN e.keys \ Unread ELSE {}

sentKeys(e, project) == IF project = "" THEN e.keys ELSE {}

ProjectOf(e) == IF e.project # "" THEN e.project ELSE e.name

(* stackComponent.UnmarshalJSON *)
Component(e) ==
  [project |-> ProjectOf(e), sentKeys |-> sentKeys(e, ProjectOf(e))]

(* Mutant of Decodes: what is inside a string is decoded in the same way.  *)
DecodesAnyDepth(sent) ==
  /\ sent.type \in {"array", "null"}
  /\ \A i \in DOMAIN sent.elements : sent.elements[i].ok

(***************************************************************************)
(* stackComponents.UnmarshalJSON.  The array in a string is decoded as a   *)
(* plain array, which does not unwrap a second string; null decodes to no  *)
(* components, and one bad element fails the whole.                        *)
(***************************************************************************)
Decodes(sent) ==
  /\ sent.strings <= 1
  /\ sent.type \in {"array", "null"}
  /\ \A i \in DOMAIN sent.elements : sent.elements[i].ok

Components(sent) ==
  [i \in DOMAIN sent.elements |-> Component(sent.elements[i])]

(* Mutant of Unnamed: white space is a project. *)
UnnamedEmpty(components) == {i \in DOMAIN components : components[i].project = ""}

(* checkStackTool: the components that stop the call. *)
Unnamed(components) ==
  {i \in DOMAIN components : components[i].project \in Blanks \cup {""}}

(***************************************************************************)
(* What becomes of the argument: it does not decode (the SDK answers, with *)
(* the shape), the call is refused because it has no components or one     *)
(* without a project, or it goes on.                                       *)
(***************************************************************************)
Result(kind, at, keys, projects) ==
  [kind |-> kind, at |-> at, keys |-> keys, projects |-> projects]

Read(sent) ==
  LET components == Components(sent)
      unnamed == Unnamed(components)
      first == CHOOSE i \in unnamed : \A j \in unnamed : i <= j
  IN  IF ~Decodes(sent) THEN Result("undecoded", 0, {}, <<>>)
      ELSE IF components = <<>> THEN Result("no components", 0, {}, <<>>)
      ELSE IF unnamed # {}
      THEN Result("no project", first, components[first].sentKeys, <<>>)
      ELSE Result("accepted", 0, {}, [i \in DOMAIN components |-> components[i].project])

=============================================================================
