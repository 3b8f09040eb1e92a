SPECIFICATION Spec
CONSTANTS
  Absent = Absent
  Torn = Torn
  MaxCommit = 3
  Plans <- MCPlans
  Reviews <- MCReviews
INVARIANTS PassWasVerified RequiredReviewsSigned GatesBeforeVerdicts
PROPERTY AlwaysDecides
CHECK_DEADLOCK FALSE
