SPECIFICATION Spec
CONSTANTS
  LowerLetters = {97, 101, 102, 225, 233}
  UpperOf <- MCUpper
  Dictionary <- MCDictionary
  Ignore = 0
  Infos = 5
  Options <- MCOptions
  ModeFilters <- MCModeFilters
  BrokenModes = {"broken"}
  Charset <- MCCharset
  FromUni <- MCFromUni
  ToUni <- MCToUni
  MiddleChars = {39}
  BeginChars = {39}
  EndChars = {45}
  Mark <- MCMark
  Sessions <- MCSessions
  Lines <- MCLines
  Typed <- MCTyped
  Modes <- MCModes
  CsRequests <- MCCsRequests
  Suggested <- MCSuggested
  MaxLines = 4
CHECK_DEADLOCK FALSE
INVARIANTS
  AcceptsWhatItShould
  ChainSpellsTheWord
  RepliesFollowTheLine
  OffsetsCountCharacters
  FiltersFollowTheMode
  EncodesTheLongest
