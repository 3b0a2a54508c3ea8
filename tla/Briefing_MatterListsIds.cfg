SPECIFICATION Spec
CONSTANTS
  MaxInt = 3
  m1 = m1
  m2 = m2
  a1 = a1
  a2 = a2
  k1 = k1
  q1 = q1
  q2 = q2
  Matters = {m1, m2}
  Ids = {a1, a2}
  Conditions = {k1}
  Texts = {q1, q2}
  NoMatter = NoMatter
  NoCondition = NoCondition
  Ellipsis = Ellipsis
  QuoteChars = 1
  OtherCap = 1
  RelevantCap = 1
  Universe <- SmallUniverse
  Components <- SmallComponents
  Ranks = {0, 3}
  MaxChanges = 3
INVARIANT MatterListsIds
