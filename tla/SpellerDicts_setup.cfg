\* Nested multi dictionaries, dictionaries named twice or of another language,
\* and files that fail to load.
CONSTANTS
  en = en
  fr = fr
  common = common
  names = names
  acro = acro
  pws = pws
  foreign = foreign
  enMulti = enMulti
  outer = outer
  twice = twice
  mixed = mixed
  hollow = hollow
  o1 = o1
  o2 = o2
  o3 = o3
  o4 = o4
  o5 = o5
  o6 = o6
  o7 = o7
  o8 = o8
  o9 = o9
  o10 = o10
  o11 = o11
  o12 = o12
  None = None
  TypeOf <- Types
  LangOf <- Langs_
  Adds <- Lines
  File = {common, names, acro, pws, foreign, enMulti, outer, twice, mixed, hollow}
  Bad = {acro, names, "personal", "repl"}
  Options <- AllOptions
  Obj = {o1, o2, o3, o4, o5, o6, o7, o8, o9, o10, o11, o12}
  MaxSpellers = 2
SPECIFICATION FairSpec
CHECK_DEADLOCK FALSE
INVARIANT EveryReferenceOwned
PROPERTIES SaveAllIsComplete SetupEnds
