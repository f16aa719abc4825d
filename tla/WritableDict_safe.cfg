\* The intended setting: the file exists, nobody crashes, stamps are distinct.
CONSTANTS
  p1 = p1
  p2 = p2
  p3 = p3
  w1 = w1
  w2 = w2
  w3 = w3
  Proc = {p1, p2, p3}
  Words = {w1, w2}
  Accepts <- AcceptAll
  Fragments = {}
  FilePresent = TRUE
  OldWords = {w1}
  Coarse = FALSE
  Faults = {}
  MaxTime = 4
SPECIFICATION Spec
INVARIANTS AckedWordsSurvive NothingOverwritten ReadersSeeWholeFile
PROPERTY ImplementsSharedWordList
