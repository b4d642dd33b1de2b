SPECIFICATION Spec
CONSTANTS
    Translations <- BetweenTwo
    Operators <- FewOperators
    MaxTokens = 8
INVARIANTS
    TypeOK
    ReadByTheTable
    GroupingKept
    TranslationIsRead
