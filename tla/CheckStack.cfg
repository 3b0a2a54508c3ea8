SPECIFICATION FairSpec
CONSTANTS
  MaxInt = 3
  m1 = m1
  p1 = p1
  p2 = p2
  Matters = {m1}
  Ids = {}
  Conditions = {}
  Texts = {}
  NoMatter = NoMatter
  NoCondition = NoCondition
  Ellipsis = Ellipsis
  QuoteChars = 1
  OtherCap = 1
  RelevantCap = 1
  Projects = {p1, p2}
  Blank = Blank
  MaxComponents = 2
  Universe <- SmallUniverse
  Calls <- SmallCalls
  PageSize = 2
  MaxChanges = 3
  MaxRequests = 9
INVARIANT TypeOK
INVARIANT Complete
INVARIANT EachItsOwn
INVARIANT AllClear
INVARIANT WithinBudget
PROPERTY CallsAreAnswered
PROPERTY ImplementsAtomicCheck
