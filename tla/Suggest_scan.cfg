SPECIFICATION Spec
CONSTANTS
  EntryLimit = 20
  ItemLimit = 24
  NgramKeep = 3
  MaxSuggestions = 8
  MaxSlowSuggestions = 12
  Spellers <- MCSpellers
  Asked <- MCAsked
INVARIANTS DistancesAreExact ScanFindsAll OneEditWordsAreFound SuggestionsAreAccepted
