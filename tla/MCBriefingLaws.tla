--------------------------- MODULE MCBriefingLaws ---------------------------
(* A small universe for BriefingLaws.                                      *)
EXTENDS BriefingLaws

CONSTANTS m1, m2, a1, a2, k1, q1, q2

v(key) == [i \in 1 .. 2 * Len(key) - 1 |-> IF i % 2 = 1 THEN Num(key[(i + 1) \div 2]) ELSE Dot]
api == <<Txt(0), Sep(0)>>

(* The running version is 1.1: one release before it, itself, the next on  *)
(* its branch, the next branch, a tag of another line and one that is not  *)
(* a version.                                                              *)
Old == v(<<1, 0>>)
Here == v(<<1, 1>>)
Patch == v(<<1, 1, 1>>)
Minor == v(<<1, 2>>)
OtherLine == api \o v(<<1, 1>>)
Word == <<Txt(0)>>

Say(version, matter, family, bucket, cond, quote, advisories) ==
  [version |-> version, matter |-> matter, family |-> family, bucket |-> bucket,
   cond |-> cond, quote |-> quote, advisories |-> advisories]

Plain(version, matter, bucket) ==
  Say(version, matter, "feature", bucket, NoCondition, <<>>, {})

Advised(id, sev) == {[id |-> id, sev |-> sev]}

(* One matter over every release, changes without one, and changes that    *)
(* share a quote: a short one, or only the part of a long one that is kept. *)
SmallUniverse ==
  {Plain(t, m1, b) : t \in {Old, Here, Patch, Minor, OtherLine}, b \in {"plan"}}
  \cup {Plain(t, m1, "action") : t \in {Patch, Minor}}
  \cup {Plain(t, NoMatter, "check") : t \in {Old, Patch, Minor, Word}}
  \cup {Plain(Minor, NoMatter, "note")}
  \cup {Say(t, m1, "security", "check", k1, <<q1, q1>>, Advised(a1, 4)) : t \in {Patch, Minor}}
  \cup {Say(t, m2, "security", "action", NoCondition, <<q1, q2>>, Advised(a2, 0)) : t \in {Patch, Minor}}
  \cup {Say(Minor, NoMatter, "feature", "plan", k1, <<q1>>, Advised(a2, 1))}
  \cup {Say(Minor, m2, "feature", "check", k1, <<q1, q2>>, {})}

Ask(version, target, inferred) ==
  [version |-> version, target |-> target, inferred |-> inferred]

SmallComponents ==
  {Ask(Here, <<>>, FALSE), Ask(Here, Patch, TRUE), Ask(Here, Old, FALSE), Ask(OtherLine, Minor, FALSE)}

=============================================================================
