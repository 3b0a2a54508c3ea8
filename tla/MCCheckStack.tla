---------------------------- MODULE MCCheckStack ----------------------------
(* A small stack for CheckStack: two projects, a few releases, and calls   *)
(* that are refused as well as calls that are answered.                    *)
EXTENDS CheckStack

CONSTANTS m1, p1, p2

v(key) == [i \in 1 .. 2 * Len(key) - 1 |-> IF i % 2 = 1 THEN Num(key[(i + 1) \div 2]) ELSE Dot]

Here == v(<<1, 1>>)
Minor == v(<<1, 2>>)
OtherLine == <<Txt(0), Sep(0)>> \o Minor
Word == <<Txt(0)>>

Say(version, matter, bucket) ==
  [version |-> version, matter |-> matter, family |-> "feature", bucket |-> bucket,
   cond |-> NoCondition, quote |-> <<>>, advisories |-> {}]

SmallUniverse ==
  {Say(Here, m1, "action"), Say(Minor, m1, "action"), Say(OtherLine, NoMatter, "plan")}

On(project, version) ==
  [project |-> project, version |-> version, target |-> <<>>, inferred |-> FALSE]

SmallCall(components, severityMin, detail) ==
  [components |-> components, severityMin |-> severityMin, detail |-> detail]

(* Answered: two components, one that cannot be read among two of one      *)
(* project, a filtered full report.  Refused: for every reason there is.   *)
SmallCalls ==
  {SmallCall(<<On(p1, Here), On(p2, OtherLine)>>, "", ""),
   SmallCall(<<On(p2, Word), On(p1, Minor)>>, "", "brief"),
   SmallCall(<<On(p1, Here)>>, "high", "full"),
   SmallCall(<<>>, "", ""),
   SmallCall(<<On(p1, Here), On(p1, Here), On(p1, Here)>>, "", ""),
   SmallCall(<<On(p1, Here), On(Blank, Here)>>, "", ""),
   SmallCall(<<On(p1, Here)>>, "urgent", ""),
   SmallCall(<<On(p1, Here)>>, "", "long")}

=============================================================================
