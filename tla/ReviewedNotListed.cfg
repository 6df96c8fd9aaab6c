SPECIFICATION Spec
CONSTANTS
  Paths = {"code", "doc"}
  Docs = {"doc"}
  Codes = {"code"}
  Holds <- MCHoldsListed
  Lines <- MCLinesListed
  LineKinds <- MCLineKinds
  Inside <- MCInside
  Guarded = {}
  MaxRounds = 3
  MaxFaults = 0
  MaxChanges = 4
INVARIANT
  ClassOfReviewedCode
CHECK_DEADLOCK FALSE
