\* Everything that can go wrong at once: no file at first, crashes, a full disk, words that one process refuses.
CONSTANTS
  p1 = p1
  p2 = p2
  p3 = p3
  w1 = w1
  w2 = w2
  w3 = w3
  Proc = {p1, p2}
  Words = {w1, w2}
  Accepts <- AcceptSome
  Fragments = {w2}
  FilePresent = FALSE
  OldWords = {w2}
  Coarse = FALSE
  Faults = {"crash", "disk_full"}
  MaxTime = 4
SPECIFICATION FairSpec
INVARIANTS CurrentMeansIncluded NoRefusedWords
PROPERTIES LoadsAndSavesEnd MigrationKeepsOldWords
