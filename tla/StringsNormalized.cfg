SPECIFICATION Spec
CONSTANTS
  Paths = {"code", "doc"}
  Docs = {"doc"}
  Codes = {"code"}
  Holds <- MCHoldsStrings
  Lines <- MCLinesStrings
  LineKinds <- MCLineKinds
  Inside <- MCInside
  Guarded = {}
  MaxRounds = 3
  MaxFaults = 0
  MaxChanges = 2
INVARIANT
  StringsNotNormalized
CHECK_DEADLOCK FALSE
