SPECIFICATION Spec
CONSTANTS
  MaxParseDepth = 9
  MaxTokens = 1200
  MaxFoldDepth = 24
  Programs <- LeakPrograms
  Bind <- Bound
  Walk <- WalkExpression
  HalfWindows = {80}
  MaxHighRiskSpans = 256
  MaxLowRiskSpans = 40
  Violations <- MCViolations
INVARIANT RecoveryIsBounded
