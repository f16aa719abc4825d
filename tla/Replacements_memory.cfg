CONSTANTS
  sico = sico
  psyco = psyco
  word = word
  other = other
  Tokens = {sico, psyco, word, other}
  Dictionary = {word}
  Personal = {other}
  Corrections <- MCCorrections
  MaxCalls = 3
SPECIFICATION Spec
INVARIANTS
  PairsComeFromTheUser
  FirstMisspellingIsLearnt
