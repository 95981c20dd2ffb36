SPECIFICATION SentenceSpec
CONSTANTS
    Inputs <- NoText
    MAX_NESTING_DEPTH = 4
    ColonTexts = {":into"}
    InvalidSymbols = {"x."}
    Heads = {"N_SYMBOL_CALL", "N_LET", "N_FN", "N_FOR", "N_FCOLLECT", "N_ACCUMULATE", "N_MATCH", "N_MATCH_TRY", "N_LOCAL", "N_SET"}
    Kinds = {"L_PAREN", "R_PAREN", "L_BRACKET", "R_BRACKET", "SYMBOL", "KEYWORD_LET", "KEYWORD_FN", "KEYWORD_FOR", "KEYWORD_FCOLLECT", "KEYWORD_ACCUMULATE", "KEYWORD_UNTIL", "KEYWORD_MATCH", "KEYWORD_MATCH_TRY", "KEYWORD_CATCH", "KEYWORD_WHERE", "QUESTION", "KEYWORD_OR", "NIL", "KEYWORD_LOCAL", "KEYWORD_SET"}
    MaxLength = 11
    MaxCallLength = 9
    Damageable = {"L_PAREN", "R_PAREN", "L_BRACKET", "R_BRACKET", "SYMBOL", "KEYWORD_LET", "KEYWORD_LOCAL", "KEYWORD_MATCH"}
    DamageLength = 8
INVARIANTS SentencesParse AcceptedIsPaired OpenListsAreCounted TreeIsBalanced
PROPERTY FirstSkipEndsItsList
