SPECIFICATION Spec
CONSTANTS
    MaxLen = 5
    Texts <- PlainTexts
    Valid <- IsDocument
    Content <- IsContent
    Body <- IsBody
    Compact <- Squeeze
INVARIANTS
    FindsFirst
