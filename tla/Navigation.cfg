SPECIFICATION NavSpec
CONSTANTS
    here = "main"
    there = "lib"
    Other <- MCOther
    NewName = "new"
    Forms = {"N_LOCAL", "N_GLOBAL", "N_LET", "N_FN", "N_MACRO", "N_FOR", "N_FCOLLECT", "N_MATCH", "N_VAR", "N_WITH_OPEN", "N_EACH", "N_ACCUMULATE", "N_IMPORT_MACROS", "N_MATCH_TRY"}
    Rare = {"N_FOR", "N_FCOLLECT", "N_VAR", "N_WITH_OPEN", "N_EACH", "N_ACCUMULATE", "N_IMPORT_MACROS", "N_MATCH_TRY"}
    MaxRareSize = 7
    MaxSize = 8
    Name = {"a", "f"}
    Field = {"f"}
    Module = {"lib"}
    MaxTokens = 4
    MaxNodes = 6
    None = None
    NoFile = NoFile
    NameBegins <- MCNameBegins
    Patterns <- MCPatterns
    Substituted <- MCSubstituted
    fennel_path <- MCFennelPath
    macro_path <- MCMacroPath
CHECK_DEADLOCK FALSE
INVARIANTS NearestIsMostRecent UnusedHasNoUse RenameKeepsMeaning NamedFromInnermostRoot ImportsAreFound
