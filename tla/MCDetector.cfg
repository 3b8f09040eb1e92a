SPECIFICATION Spec
CONSTANTS
  MaxParseDepth = 60
  MaxTokens = 60
  MaxFoldDepth = 24
  Programs <- MCPrograms
  Bind <- Bound
  Walk <- WalkExpression
  HalfWindows = {12, 80}
  MaxHighRiskSpans = 2
  MaxLowRiskSpans = 1
  Violations <- MCViolations
INVARIANTS ReportsExactly LiteralsAreTexts HighRiskLookedAt EnforcesOnEvidence
PROPERTY ScreeningEnds
