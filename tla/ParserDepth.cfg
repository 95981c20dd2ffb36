SPECIFICATION Spec
CONSTANTS
    Inputs <- Texts
    MAX_NESTING_DEPTH = 2
    ColonTexts = {":into"}
    InvalidSymbols = {"x."}
    Kinds = {"L_PAREN", "L_BRACKET", "R_PAREN", "SYMBOL"}
    MaxLength = 4
INVARIANT DepthIsOpenLists
