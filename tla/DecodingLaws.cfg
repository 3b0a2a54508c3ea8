SPECIFICATION Spec
CONSTANTS
  Slugs = {"cilium", "envoy"}
  Blanks = {"blank"}
  Unread = {"project_slug"}
  Elements <- SmallElements
  Clauses <- SmallClauses
  Sentence <- SmallSentence
  MaxElements = 2
  MaxClauses = 3
INVARIANT OneStringIsTransparent
INVARIANT OnlyNamedProjectsGoUpstream
INVARIANT RefusalsTeach
INVARIANT NeverUnconditional
INVARIANT ClausesReadBack
INVARIANT TargetsAreSaid
