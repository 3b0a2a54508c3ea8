SPECIFICATION Spec
CONSTANTS
  MaxInt = 3
  Alphabet <- SmallAlphabet
  MaxTokens = 5
  KeyNumbers = {0, 2, 3}
  MaxKey = 2
INVARIANT CompareIsTheOrder
INVARIANT PrefixIsTheLine
INVARIANT WordTailIsNoise
INVARIANT SplitOnce
