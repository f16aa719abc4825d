SPECIFICATION Spec
CONSTANTS
    AffixFiles <- MCAffixFiles
    Lists <- MCLists
    Special <- MCSpecial
    CheckedWords <- MCCheckedWords
    Texts <- MCTexts
    Missing <- MCMissing
    BUFSIZE = 256
INVARIANTS
    SearchFindsAll
    MunchedListIsTheList
    CheckingIsExpanding
CHECK_DEADLOCK FALSE
