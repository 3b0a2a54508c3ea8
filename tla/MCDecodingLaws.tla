--------------------------- MODULE MCDecodingLaws ---------------------------
(* Components and clauses for DecodingLaws: every combination of what is   *)
(* under "project" and "name", and of verb, kind and name.                 *)
EXTENDS DecodingLaws

SmallText == {"", "blank", "cilium", "envoy"}

(* A key that is there, though its text may be empty. *)
Present(p, n) == (IF p = "" THEN {} ELSE {"project"}) \cup (IF n = "" THEN {} ELSE {"name"})

SmallElements ==
  {Null, Scalar, Object({"project"}, "", "", TRUE), Object({"project", "name"}, "cilium", "", FALSE)} \cup
  {Object(Present(p, n) \cup keys, p, n, TRUE) :
     p \in SmallText, n \in SmallText, keys \in {{"version"}, {"version", "project_slug"}}}

SmallClauses ==
  {Clause(verb, kind, name) :
     verb \in {"", "uses"}, kind \in {"", "flag", "config_field", "subsystem"}, name \in {"", "x"}}

SmallSentence == <<"if", "so">>

(* The walk is one in which kinds and separators can be told from other    *)
(* words.                                                                  *)
ASSUME WordsCanBeTold == KindsApart /\ SeparatorsApart

=============================================================================
