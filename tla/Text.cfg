SPECIFICATION Spec
CONSTANTS
    Alphabet = {"x", "0", "1", "e", "+", "_", "-", ".", ":", "&", "#", "(", ")", "space", "newline", "return", "separator", "quote", "backslash", ";", "lambda", "wide"}
    Core = {"x", "-", "#", "quote", "backslash", ";", "newline", "return"}
    Few = {"x", "-", ";", "return", "wide"}
    Numeric = {"0", "1", "x", "e", ".", "+"}
    Texts <- MCTexts
    NewNames <- MCNewNames
    RESERVED <- MCReserved
    None = None
    InvalidRequest = InvalidRequest
    Panic = Panic
INVARIANTS TokensAreThePlaces RenameKeepsTokens PositionsAgree HighlightsMatchTokens
