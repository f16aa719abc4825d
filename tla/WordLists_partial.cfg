SPECIFICATION Spec
CONSTANTS
    AffixFiles <- MCMixedFiles
    Lists <- MCMixedLists
    Special <- MCSpecial
    CheckedWords <- MCCheckedWords
    Texts <- MCNoTexts
    Missing <- MCMissing
    BUFSIZE = 256
INVARIANT
    PartialExpansionLosesNothing
CHECK_DEADLOCK FALSE
