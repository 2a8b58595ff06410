SPECIFICATION Spec
CONSTANTS
    MaxLen = 5
    Texts <- SmallTexts
    Valid <- IsDocument
    Content <- IsContent
    Body <- IsBody
    Compact <- Squeeze
INVARIANTS
    ScanMatchesGrammar
