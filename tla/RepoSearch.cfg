SPECIFICATION Spec
CONSTANTS
  Searchers = {s1, s2}
  NFiles = 2
  Kinds <- MCKinds
  Options <- MCOptions
  Fresh = {2}
  StageAnytime = FALSE
  MaxEdits = 2
  MaxSearches = 2
INVARIANTS
  SearchType
  AnswerOfOneState
  CacheTellsTruth
PROPERTIES
  RaceTakesTwoEdits
SYMMETRY MCSearchers
CHECK_DEADLOCK FALSE
