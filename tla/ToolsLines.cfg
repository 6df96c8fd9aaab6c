SPECIFICATION Spec
CONSTANTS
  Paths = {"code", "doc"}
  Docs = {"doc"}
  Codes = {"code"}
  Holds <- MCHoldsComments
  Lines <- MCLinesComments
  LineKinds <- MCLineKinds
  Inside <- MCInside
  Guarded = {}
  MaxRounds = 3
  MaxFaults = 0
  MaxChanges = 2
INVARIANT
  ToolsLinesKept
CHECK_DEADLOCK FALSE
