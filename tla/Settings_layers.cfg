CONSTANTS
  ModeFilters <- MCModeFilters
  BrokenModes = {"broken"}
  ModeMagic <- MCModeMagic
  Names <- MCNames
  UserRequests <- MCUserRequests
  LaterRequests <- MCLaterRequests
  FileContents <- MCFiles
  MaxRequests = 2
SPECIFICATION Spec
CHECK_DEADLOCK FALSE
INVARIANTS
  SettingsMean
  SpellerFollowsItsConfig
