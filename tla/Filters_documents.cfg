CONSTANTS
  TexCommands <- MCTexCommands
  TexCheckComments = FALSE
  SgmlSkipTags = {"s"}
  SgmlCheckAttribs = {"t"}
  TexinfoIgnore = {"b"}
  TexinfoIgnoreEnv = {"ig"}
  EmailQuotes = {">", "|"}
  EmailMargin = 2
  ContextDelimiters <- MCDelimiters
  ContextVisibleFirst = FALSE
  SkipRefLabels = TRUE
  MultilineTags = TRUE
  RawStartTags = {"script"}
  BlockStartTags = {"div"}
  Modes <- MCModes
  Lines <- MCLines
  MaxLines = 3
SPECIFICATION Spec
INVARIANTS LinesOrDocument WidthsAddUp PlainTextIsChecked NestingIsCounted
CHECK_DEADLOCK FALSE
