\* Two lines are read ahead, and the disk may be full.
CONSTANTS
  Char = {"a", "b", "c", "'", "-", ".", " ", "/"}
  WordChars = {"a", "b", "c"}
  MiddleChars = {"'"}
  BeginChars = {"-"}
  EndChars = {"."}
  Documents <- MCDocuments
  NumLines = 2
  Dictionary <- MCDictionary
  Corrections <- MCCorrections
  MaxLearnt = 1
  MaxListed = 2
  DiskFull = TRUE
SPECIFICATION FairSpec
CHECK_DEADLOCK FALSE
INVARIANTS TextIsTheDocument HighlightedIsTheWord TextSurvives
PROPERTY AsksOrEnds
