SPECIFICATION Spec
CONSTANTS
  Paths = {"code", "doc"}
  Docs = {"doc"}
  Codes = {"code"}
  Holds <- MCHolds
  Lines <- MCLines
  LineKinds <- MCLineKinds
  Inside <- MCInside
  Guarded <- MCGuarded
  MaxRounds = 4
  MaxFaults = 1
  MaxChanges = 2
INVARIANTS
  RoundsType
  LossesShow
  ClassesAreTrue
CHECK_DEADLOCK FALSE
