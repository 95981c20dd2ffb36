SPECIFICATION FairSpec
CONSTANTS
    Inputs <- Texts
    MAX_NESTING_DEPTH = 2
    ColonTexts = {":into"}
    InvalidSymbols = {"x."}
    Kinds = {"L_PAREN", "R_PAREN", "L_BRACKET", "R_BRACKET", "SYMBOL", "KEYWORD_INTO", "KEYWORD_INCLUDE", "WHITESPACE"}
    MaxLength = 4
INVARIANTS TypeOK LosslessTree ErrorsAreReported DepthIsBounded
PROPERTY Termination
