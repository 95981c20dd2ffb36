------------------------------ MODULE Grammar ------------------------------
(***************************************************************************)
(* The grammar of Fennel as the parser has it: the productions of          *)
(* expand_rules! in parser.rs, the handwritten first sets of parser/sets.rs *)
(* and the lists of node kinds of syntax.rs. Kinds of nodes and tokens are *)
(* strings with the names of SyntaxKind.                                   *)
(***************************************************************************)
EXTENDS Naturals, Sequences

\* A rule: what is expected and how often. `ends` and `follows` are the token
\* sets of a repetition; `at` is the range a Close carries, 0 for none.
Rule(kind, notation, ends, follows) ==
    [expect |-> kind, notation |-> notation, ends |-> ends, follows |-> follows, at |-> 0]

One(kind) == Rule(kind, "Once", {}, {})
Opt(kind, ends) == Rule(kind, "Optional", ends, {})
Star(kind, ends) == Rule(kind, "Repeat", ends, {})
Plus(kind, ends) == Rule(kind, "Repeat1", ends, {})
PlusPeek(kind, ends, follows) == Rule(kind, "Repeat1Peek", ends, follows)
Close(kind, at) == [Rule(kind, "Close", {}, {}) EXCEPT !.at = at]

\* What stays on the stack when a rule has been expanded once.
Remaining(rule) ==
    CASE rule.notation \in {"Repeat", "Repeat1"} ->
            <<Rule(rule.expect, "Repeat", rule.ends, {})>>
      [] rule.notation \in {"RepeatPeek", "Repeat1Peek"} ->
            <<Rule(rule.expect, "RepeatPeek", rule.ends, rule.follows)>>
      [] OTHER -> <<>>

-----------------------------------------------------------------------------
(* Token sets and kinds of nodes *)

AtParen == {"R_PAREN"}
AtBracket == {"R_BRACKET"}
AtBrace == {"R_BRACE"}
VARARG_BRACKET == {"VARARG", "R_BRACKET"}
ITERATOR == {"L_PAREN", "BACKTICK", "COMMA", "HASHFN"}

\* Mutant: what may be the last in a table does not end at its end.
UntilClause == {"KEYWORD_UNTIL"}
UNTIL == {"KEYWORD_UNTIL", "R_BRACKET"}
COLLECT == {"KEYWORD_COLLECT", "R_BRACKET"}

OUTBAND == {"WHITESPACE", "COMMENT"}
L_DELIMITERS == {"L_BRACE", "L_PAREN", "L_BRACKET"}
LIST == {"N_LIST", "N_ASSIGN_PATTERN_LIST", "N_MATCH_PATTERN_LIST", "N_OR_CLAUSE_LIST",
         "N_MATCH_TRY_LIST", "N_CATCH_LIST"}
KV_TABLE == {"N_KV_TABLE", "N_ASSIGN_PATTERN_KV_TABLE", "N_MATCH_PATTERN_KV_TABLE",
             "N_IMPORT_MACROS_KV_TABLE"}
TABLE == {"N_SEQ_TABLE", "N_NV_PAIR_TABLE", "N_ASSIGN_TABLE", "N_PARAM_TABLE",
          "N_ASSIGN_PATTERN_TABLE", "N_MATCH_PATTERN_TABLE", "N_FOR_TABLE", "N_EACH_TABLE",
          "N_ICOLLECT_TABLE", "N_COLLECT_TABLE", "N_ACCUMULATE_TABLE"}

-----------------------------------------------------------------------------
(* Productions. Grammar[n] are the alternatives of n, in the order tried. *)

Units(kinds) == [i \in DOMAIN kinds |-> <<One(kinds[i])>>]
Bracketed(inner) == <<One("L_BRACKET")>> \o inner \o <<One("R_BRACKET")>>
Braced(inner) == <<One("L_BRACE"), inner, One("R_BRACE")>>
Listed(inner) == <<One("L_PAREN"), inner, One("R_PAREN")>>
Args == Opt("N_ARGS", AtParen)
Body == Opt("N_BODY", AtParen)
Calls == Star("N_CALL_FN", AtParen)
Sexps == Star("N_SEXP", AtParen)
Until == Opt("N_UNTIL_CLAUSE", AtBracket)
AnySymbol == << <<One("SYMBOL")>>, <<One("COMMA"), One("SYMBOL")>> >>

Forms == [
  N_SEXP |-> Units(<<"N_ATOM", "N_LIST">>),
  N_ATOM |-> Units(<<"N_R_SYMBOL", "VARARG", "N_LITERAL", "N_SEQ_TABLE", "N_KV_TABLE">>),
  N_LITERAL |-> Units(<<"FLOAT", "INTEGER", "QUOTE_STRING", "COLON_STRING", "BOOL", "NIL">>),
  N_STRING_LITERAL |-> Units(<<"QUOTE_STRING", "COLON_STRING">>),
  N_SEQ_TABLE |-> <<Bracketed(<<Star("N_SEXP", AtBracket)>>)>>,
  N_KV_TABLE |-> <<Braced(Star("N_KV_PAIR", AtBrace))>>,
  N_KV_PAIR |-> << <<One("N_KEY"), One("N_VALUE")>>, <<One("COLON"), One("N_L_R_SYMBOL")>> >>,
  N_L_SYMBOL |-> AnySymbol,
  N_R_SYMBOL |-> AnySymbol,
  N_L_R_SYMBOL |-> AnySymbol,
  N_L_OR_R_SYMBOL |-> AnySymbol,
  N_KEY |-> Units(<<"N_SEXP">>),
  N_VALUE |-> Units(<<"N_SEXP">>),
  N_COND |-> Units(<<"N_SEXP">>),
  N_NV_PAIR |-> << <<One("N_L_SYMBOL"), One("N_VALUE")>> >>,
  N_ARGS |-> << <<Plus("N_SEXP", AtParen)>> >>,
  N_BODY |-> << <<Plus("N_SEXP", AtParen)>> >>,
  N_ITERATOR |-> Units(<<"N_R_SYMBOL", "N_LIST">>),
  N_LIST |-> <<Listed(Opt("N_SUBLIST", AtParen)), <<One("N_MACRO_LIST")>> >>,
  N_MACRO_LIST |-> Units(<<"N_MACRO_HASH", "N_MACRO_UNQUOTE", "N_MACRO_QUOTE">>),
  N_SUBLIST |-> << <<One("N_LIST"), Args>>, <<One("N_SYMBOL_CALL"), Args>> >>
      \o Units(<<"N_VAR", "N_SET", "N_TSET", "N_LOCAL", "N_VALUES", "N_GLOBAL",
                 "N_IMPORT_MACROS", "N_REQUIRE_MACROS", "N_MACRO", "N_MACROS",
                 "N_EVAL_COMPILER", "N_FN", "N_LAMBDA", "N_PARTIAL", "N_LET", "N_MATCH",
                 "N_MATCH_TRY", "N_WITH_OPEN", "N_PICK_VALUE", "N_IF", "N_WHEN", "N_EACH",
                 "N_FOR", "N_COLLECT", "N_ICOLLECT", "N_FCOLLECT", "N_ACCUMULATE", "N_WHILE",
                 "N_DO", "N_OPERATION", "N_THREAD", "N_DOTO", "N_INCLUDE", "N_LUA",
                 "N_PICK_ARGS", "N_MACRODEBUG">>),
  N_SYMBOL_CALL |-> << <<One("N_R_SYMBOL"), Args>> >>,
  N_TSET |-> << <<One("KEYWORD_TSET"), One("N_SEXP"), One("N_SEXP"), Sexps>> >>,
  N_WITH_OPEN |-> << <<One("KEYWORD_WITH_OPEN"), One("N_NV_PAIR_TABLE"), Body>> >>,
  N_NV_PAIR_TABLE |-> <<Bracketed(<<Star("N_NV_PAIR", AtBracket)>>)>>,
  N_LET |-> << <<One("KEYWORD_LET"), One("N_ASSIGN_TABLE"), One("N_BODY")>> >>,
  N_VALUES |-> << <<One("KEYWORD_VALUES"), Args>> >>,
  N_REQUIRE_MACROS |-> << <<One("KEYWORD_REQUIRE_MACROS"), One("N_STRING_LITERAL")>> >>,
  N_EVAL_COMPILER |-> << <<One("KEYWORD_EVAL_COMPILER"), One("N_SEXP")>> >>,
  N_MACRO_HASH |-> << <<One("HASHFN"), One("N_SEXP")>> >>,
  N_MACRO_UNQUOTE |-> << <<One("COMMA"), One("N_SEXP")>> >>,
  N_MACRO_QUOTE |-> << <<One("BACKTICK"), One("N_SEXP")>> >>,
  N_PARTIAL |-> << <<One("KEYWORD_PARTIAL"), One("N_CALL_FN"), Args>> >>,
  N_PICK_VALUE |-> << <<One("KEYWORD_PICK_VALUES"), One("N_NUMBER"), Body>> >>,
  N_NUMBER |-> Units(<<"FLOAT", "INTEGER">>),
  N_DO |-> << <<One("KEYWORD_DO"), Body>> >>,
  N_IF |-> << <<One("KEYWORD_IF"), One("N_COND"), One("N_BODY")>> >>,
  N_WHEN |-> << <<One("KEYWORD_WHEN"), One("N_COND"), One("N_BODY")>> >>,
  N_WHILE |-> << <<One("KEYWORD_WHILE"), One("N_COND"), Body>> >>,
  N_OPERATION |-> << <<One("OPERATOR"), Args>>, <<One("KEYWORD_OR"), Args>>,
                     <<One("LENGTH"), Opt("N_SEXP", AtParen)>>, <<One("COLON"), Args>> >>,
  N_THREAD |-> << <<One("THREAD"), One("N_SEXP"), Calls>> >>,
  N_DOTO |-> << <<One("KEYWORD_DOTO"), One("N_SEXP"), Calls>> >>,
  N_CALL_FN |-> Units(<<"N_LIST", "N_R_SYMBOL">>),
  N_INCLUDE |-> << <<One("KEYWORD_INCLUDE"), One("N_STRING_LITERAL")>> >>,
  N_LUA |-> << <<One("KEYWORD_LUA"), One("N_STRING_LITERAL")>> >>,
  N_PICK_ARGS |-> << <<One("KEYWORD_PICK_ARGS"), One("N_SEXP"), One("N_SEXP"), Sexps>> >>,
  N_MACRODEBUG |-> << <<One("KEYWORD_MACRODEBUG"), Plus("N_SEXP", AtParen)>> >>]

Bindings == [
  N_SET |-> << <<One("KEYWORD_SET"), One("N_SET_PAIR")>> >>,
  N_SET_PAIR |-> << <<One("N_SET_PATTERN_LIST"), One("N_SEXP")>>,
                    <<One("N_SET_PATTERN"), One("N_SEXP")>> >>,
  N_SET_PATTERN_LIST |-> <<Listed(Plus("N_SET_PATTERN", AtParen))>>,
  N_SET_PATTERN |-> Units(<<"N_R_SYMBOL", "CAPTURE", "N_SET_PATTERN_TABLE",
                            "N_SET_PATTERN_KV_TABLE">>),
  N_SET_PATTERN_TABLE |-> <<Bracketed(<<Star("N_SET_PATTERN", AtBracket)>>)>>,
  N_SET_PATTERN_KV_TABLE |-> <<Braced(Star("N_SET_PATTERN_KV", AtBrace))>>,
  N_SET_PATTERN_KV |-> << <<One("N_SET_PATTERN_KEY"), One("N_SET_PATTERN")>>,
                          <<One("COLON"), One("N_R_SYMBOL")>> >>,
  N_SET_PATTERN_KEY |-> Units(<<"N_R_SYMBOL", "N_LITERAL", "N_SET_PATTERN_KEY_NEST", "CAPTURE">>),
  N_SET_PATTERN_KEY_NEST |-> <<Listed(One("N_SET_PATTERN_KEY"))>>,
  N_VAR |-> << <<One("KEYWORD_VAR"), One("N_ASSIGN_PAIR")>> >>,
  N_LOCAL |-> << <<One("KEYWORD_LOCAL"), One("N_ASSIGN_PAIR")>> >>,
  N_GLOBAL |-> << <<One("KEYWORD_GLOBAL"), One("N_ASSIGN_PAIR")>> >>,
  N_IMPORT_MACROS |-> << <<One("KEYWORD_IMPORT_MACROS"), Plus("N_IMPORT_MACROS_PAIR", AtParen)>> >>,
  N_IMPORT_MACROS_PAIR |-> << <<One("N_IMPORT_MACROS_DESTRUCT"), One("N_SEXP")>> >>,
  N_IMPORT_MACROS_DESTRUCT |-> Units(<<"N_IMPORT_MACROS_KV_TABLE", "N_L_SYMBOL">>),
  N_IMPORT_MACROS_KV_TABLE |-> <<Braced(Plus("N_IMPORT_MACROS_KV_PAIR", AtBrace))>>,
  N_IMPORT_MACROS_KV_PAIR |-> << <<One("COLON"), One("N_L_SYMBOL")>>,
                                 <<One("N_STRING_LITERAL"), One("N_L_SYMBOL")>> >>,
  N_ASSIGN_TABLE |-> <<Bracketed(<<Star("N_ASSIGN_PAIR", AtBracket)>>)>>,
  N_ASSIGN_PAIR |-> << <<One("N_ASSIGN_PATTERN_LIST"), One("N_SEXP")>>,
                       <<One("N_ASSIGN_PATTERN"), One("N_SEXP")>> >>,
  N_ASSIGN_PATTERN_LIST |-> <<Listed(Star("N_ASSIGN_PATTERN", AtParen))>>,
  N_ASSIGN_PATTERN |-> Units(<<"N_L_SYMBOL", "CAPTURE", "N_ASSIGN_PATTERN_TABLE",
                               "N_ASSIGN_PATTERN_KV_TABLE">>),
  N_ASSIGN_PATTERN_TABLE |-> <<Bracketed(<<Star("N_ASSIGN_PATTERN", AtBracket)>>)>>,
  N_ASSIGN_PATTERN_KV_TABLE |-> <<Braced(Star("N_ASSIGN_PATTERN_KV", AtBrace))>>,
  N_ASSIGN_PATTERN_KV |-> << <<One("N_ASSIGN_PATTERN_KEY"), One("N_ASSIGN_PATTERN")>>,
                             <<One("COLON"), One("N_L_SYMBOL")>> >>,
  N_ASSIGN_PATTERN_KEY |-> Units(<<"N_R_SYMBOL", "N_LITERAL", "N_ASSIGN_PATTERN_KEY_NEST",
                                   "CAPTURE">>),
  N_ASSIGN_PATTERN_KEY_NEST |-> <<Listed(One("N_ASSIGN_PATTERN_KEY"))>>,
  N_MACRO |-> << <<One("KEYWORD_MACRO"), One("N_MACRO_NAME"), One("N_PARAM_TABLE"), Body>> >>,
  N_MACRO_NAME |-> Units(<<"SYMBOL">>),
  N_MACROS |-> << <<One("KEYWORD_MACROS"), One("N_KV_TABLE")>> >>,
  N_FN |-> << <<One("KEYWORD_FN"), Opt("N_FN_NAME", {"L_BRACKET"}), One("N_PARAM_TABLE"), Body>> >>,
  N_LAMBDA |-> << <<One("KEYWORD_LAMBDA"), Opt("N_FN_NAME", {"L_BRACKET"}), One("N_PARAM_TABLE"),
                    Body>> >>,
  N_FN_NAME |-> Units(<<"SYMBOL">>),
  N_PARAM_TABLE |-> <<Bracketed(<<Star("N_ASSIGN_PATTERN", VARARG_BRACKET),
                                  Opt("N_VARARG", AtBracket)>>)>>,
  N_VARARG |-> Units(<<"VARARG">>)]

Loops == [
  N_EACH |-> << <<One("KEYWORD_EACH"), One("N_EACH_TABLE"), One("N_BODY")>> >>,
  N_EACH_TABLE |-> <<Bracketed(<<PlusPeek("N_ITERATION", ITERATOR, UNTIL), One("N_ITERATOR"),
                                 Until>>)>>,
  N_ITERATION |-> Units(<<"N_ASSIGN_PATTERN", "N_ASSIGN_PATTERN_LIST">>),
  N_FOR |-> << <<One("KEYWORD_FOR"), One("N_FOR_TABLE"), One("N_BODY")>> >>,
  N_FOR_TABLE |-> <<Bracketed(<<One("N_ITERATION_VALUE"), One("N_RANGE"), Until>>)>>,
  N_ITERATION_VALUE |-> Units(<<"N_L_SYMBOL">>),
  N_RANGE |-> << <<One("N_RANGE_START"), One("N_RANGE_STOP"), Opt("N_RANGE_STEP", UNTIL)>> >>,
  N_RANGE_START |-> Units(<<"N_SEXP">>),
  N_RANGE_STOP |-> Units(<<"N_SEXP">>),
  N_RANGE_STEP |-> Units(<<"N_SEXP">>),
  N_ICOLLECT |-> << <<One("KEYWORD_ICOLLECT"), One("N_ICOLLECT_TABLE"), One("N_SEXP")>> >>,
  N_ICOLLECT_TABLE |-> <<Bracketed(<<PlusPeek("N_ITERATION", ITERATOR, COLLECT),
                                     One("N_ITERATOR"), Opt("N_COLLECT_CLAUSE", AtBracket)>>)>>,
  N_FCOLLECT |-> << <<One("KEYWORD_FCOLLECT"), One("N_FCOLLECT_TABLE"), One("N_SEXP")>> >>,
  N_FCOLLECT_TABLE |-> <<Bracketed(<<One("N_ITERATION_VALUE"), One("N_RANGE"), Until>>)>>,
  N_COLLECT |-> << <<One("KEYWORD_COLLECT"), One("N_COLLECT_TABLE"), One("N_SEXP"),
                     Opt("N_SEXP", AtParen)>> >>,
  N_COLLECT_TABLE |-> <<Bracketed(<<PlusPeek("N_ITERATION", ITERATOR, COLLECT),
                                    One("N_ITERATOR"), Opt("N_COLLECT_CLAUSE", AtBracket)>>)>>,
  N_COLLECT_CLAUSE |-> << <<One("N_UNTIL_CLAUSE"), Opt("N_INTO_CLAUSE", AtBracket)>>,
                          <<One("N_INTO_CLAUSE"), Until>> >>,
  N_ACCUMULATE |-> << <<One("KEYWORD_ACCUMULATE"), One("N_ACCUMULATE_TABLE"), One("N_SEXP")>> >>,
  N_ACCUMULATE_TABLE |-> <<Bracketed(<<One("N_ACCUMULATOR"), One("N_INITIAL"),
                                       PlusPeek("N_ITERATION", ITERATOR, UNTIL),
                                       One("N_ITERATOR"), Until>>)>>,
  N_ACCUMULATOR |-> Units(<<"N_L_SYMBOL">>),
  N_INITIAL |-> Units(<<"N_SEXP">>),
  N_UNTIL_CLAUSE |-> << <<One("KEYWORD_UNTIL"), One("N_SEXP")>> >>,
  N_INTO_CLAUSE |-> << <<One("KEYWORD_INTO"), One("N_SEXP")>> >>]

Matching == [
  N_MATCH |-> << <<One("KEYWORD_MATCH"), One("N_SEXP"), Plus("N_MATCH_CLAUSE", AtParen)>> >>,
  N_MATCH_CLAUSE |-> << <<One("N_MATCH_PATTERN_TOP"), One("N_SEXP")>> >>,
  N_MATCH_PATTERN_TOP |-> Units(<<"N_LITERAL", "N_L_OR_R_SYMBOL", "N_MATCH_PATTERN_TABLE",
                                  "N_MATCH_PATTERN_KV_TABLE", "N_MATCH_PATTERN_LIST">>),
  N_MATCH_PATTERN |-> Units(<<"N_LITERAL", "N_L_OR_R_SYMBOL", "CAPTURE", "N_MATCH_PATTERN_TABLE",
                              "N_MATCH_PATTERN_KV_TABLE">>),
  N_MATCH_PATTERN_LIST |-> <<Listed(One("N_MATCH_PATTERN_LIST_REAL"))>>,
  N_MATCH_PATTERN_LIST_REAL |->
      << <<One("N_MATCH_PATTERN"), Opt("N_MATCH_PATTERN_LIST_REST", AtParen)>>,
         <<One("N_WHERE_CLAUSE")>> >>,
  N_MATCH_PATTERN_LIST_REST |-> << <<Plus("N_MATCH_PATTERN", AtParen)>>, <<One("N_GUARD_CLAUSE")>> >>,
  N_GUARD_CLAUSE |-> << <<One("QUESTION"), Star("N_COND", AtParen)>> >>,
  N_MATCH_PATTERN_TABLE |-> <<Bracketed(<<Star("N_MATCH_PATTERN", AtBracket)>>)>>,
  N_MATCH_PATTERN_KV_TABLE |-> <<Braced(Star("N_MATCH_PATTERN_KV", AtBrace))>>,
  N_MATCH_PATTERN_KV |-> << <<One("N_MATCH_PATTERN"), One("N_MATCH_PATTERN")>>,
                            <<One("COLON"), One("N_L_OR_R_SYMBOL")>> >>,
  N_WHERE_CLAUSE |-> << <<One("KEYWORD_WHERE"), One("N_WHERE_PATTERN"), Star("N_COND", AtParen)>> >>,
  N_WHERE_PATTERN |-> Units(<<"N_MATCH_PATTERN", "N_OR_CLAUSE_LIST">>),
  N_OR_CLAUSE_LIST |-> <<Listed(One("N_OR_CLAUSE"))>>,
  N_OR_CLAUSE |-> << <<One("KEYWORD_OR"), Opt("N_MATCH_PATTERN", AtParen)>> >>,
  N_MATCH_TRY |-> << <<One("KEYWORD_MATCH_TRY"), One("N_SEXP"), Plus("N_MATCH_TRY_CLAUSE", AtParen)>> >>,
  N_MATCH_TRY_CLAUSE |-> << <<One("N_MATCH_PATTERN"), One("N_SEXP")>> >>,
  N_MATCH_TRY_LIST |-> <<Listed(One("N_MATCH_TRY_LIST_REAL"))>>,
  N_MATCH_TRY_LIST_REAL |->
      << <<One("N_MATCH_PATTERN"), Opt("N_MATCH_PATTERN_LIST_REST", AtParen)>>,
         <<One("N_WHERE_CLAUSE")>> >>,
  N_CATCH_LIST |-> <<Listed(Plus("N_CATCH", AtParen))>>,
  N_CATCH |-> << <<One("KEYWORD_CATCH"), Plus("N_MATCH_CLAUSE", AtParen)>> >>]

\* The alternatives of a node; a token has none.
Alternatives(kind) ==
    CASE kind \in DOMAIN Forms -> Forms[kind]
      [] kind \in DOMAIN Bindings -> Bindings[kind]
      [] kind \in DOMAIN Loops -> Loops[kind]
      [] kind \in DOMAIN Matching -> Matching[kind]
      [] OTHER -> <<>>

\* The alternatives of N_MATCH_TRY_CLAUSE that need one more token to tell.
TryAlternatives ==
    << [clause |-> <<One("N_MATCH_TRY_LIST"), One("N_SEXP")>>,
        peek |-> {"FLOAT", "INTEGER", "QUOTE_STRING", "COLON_STRING", "BOOL", "NIL", "SYMBOL",
                  "L_BRACKET", "L_BRACE", "KEYWORD_WHERE"}],
       [clause |-> <<One("N_CATCH_LIST")>>, peek |-> {"KEYWORD_CATCH"}] >>

-----------------------------------------------------------------------------
(* First sets, as sets.rs writes them down. Whether they are those of the   *)
(* productions is a question for the runs.                                  *)

Literals == {"FLOAT", "INTEGER", "QUOTE_STRING", "COLON_STRING", "BOOL", "NIL"}
Atoms == Literals \cup {"SYMBOL", "VARARG", "L_BRACKET", "L_BRACE"}
PatternTop == Literals \cup {"SYMBOL", "COMMA", "L_BRACKET", "L_BRACE", "L_PAREN"}

\* The token that alone begins a node.
OnlyFirst == [
  N_SEQ_TABLE |-> "L_BRACKET", N_KV_TABLE |-> "L_BRACE", N_MACRO_HASH |-> "HASHFN",
  N_MACRO_UNQUOTE |-> "COMMA", N_MACRO_QUOTE |-> "BACKTICK", N_VAR |-> "KEYWORD_VAR",
  N_SET |-> "KEYWORD_SET", N_TSET |-> "KEYWORD_TSET", N_LOCAL |-> "KEYWORD_LOCAL",
  N_VALUES |-> "KEYWORD_VALUES", N_GLOBAL |-> "KEYWORD_GLOBAL",
  N_IMPORT_MACROS |-> "KEYWORD_IMPORT_MACROS", N_REQUIRE_MACROS |-> "KEYWORD_REQUIRE_MACROS",
  N_MACRO |-> "KEYWORD_MACRO", N_MACROS |-> "KEYWORD_MACROS",
  N_EVAL_COMPILER |-> "KEYWORD_EVAL_COMPILER", N_FN |-> "KEYWORD_FN",
  N_LAMBDA |-> "KEYWORD_LAMBDA", N_PARTIAL |-> "KEYWORD_PARTIAL", N_LET |-> "KEYWORD_LET",
  N_MATCH |-> "KEYWORD_MATCH", N_MATCH_TRY |-> "KEYWORD_MATCH_TRY",
  N_WITH_OPEN |-> "KEYWORD_WITH_OPEN", N_PICK_VALUE |-> "KEYWORD_PICK_VALUES",
  N_IF |-> "KEYWORD_IF", N_WHEN |-> "KEYWORD_WHEN", N_EACH |-> "KEYWORD_EACH",
  N_FOR |-> "KEYWORD_FOR", N_COLLECT |-> "KEYWORD_COLLECT", N_ICOLLECT |-> "KEYWORD_ICOLLECT",
  N_FCOLLECT |-> "KEYWORD_FCOLLECT", N_ACCUMULATE |-> "KEYWORD_ACCUMULATE",
  N_DO |-> "KEYWORD_DO", N_WHILE |-> "KEYWORD_WHILE", N_THREAD |-> "THREAD",
  N_DOTO |-> "KEYWORD_DOTO", N_INCLUDE |-> "KEYWORD_INCLUDE", N_LUA |-> "KEYWORD_LUA",
  N_PICK_ARGS |-> "KEYWORD_PICK_ARGS", N_MACRODEBUG |-> "KEYWORD_MACRODEBUG",
  N_ASSIGN_PATTERN_LIST |-> "L_PAREN", N_SET_PATTERN_LIST |-> "L_PAREN",
  N_ASSIGN_PATTERN_TABLE |-> "L_BRACKET", N_SET_PATTERN_TABLE |-> "L_BRACKET",
  N_ASSIGN_PATTERN_KV_TABLE |-> "L_BRACE", N_SET_PATTERN_KV_TABLE |-> "L_BRACE",
  N_ASSIGN_PATTERN_KEY_NEST |-> "L_PAREN", N_SET_PATTERN_KEY_NEST |-> "L_PAREN",
  N_UNTIL_CLAUSE |-> "KEYWORD_UNTIL", N_INTO_CLAUSE |-> "KEYWORD_INTO",
  N_WHERE_CLAUSE |-> "KEYWORD_WHERE", N_MATCH_TRY_LIST |-> "L_PAREN", N_CATCH_LIST |-> "L_PAREN",
  N_CATCH |-> "KEYWORD_CATCH", N_GUARD_CLAUSE |-> "QUESTION", N_OR_CLAUSE_LIST |-> "L_PAREN",
  N_MATCH_PATTERN_TABLE |-> "L_BRACKET", N_MATCH_PATTERN_KV_TABLE |-> "L_BRACE",
  N_MATCH_PATTERN_LIST |-> "L_PAREN", N_IMPORT_MACROS_KV_TABLE |-> "L_BRACE"]

first_set(kind, cur) ==
    CASE kind \in DOMAIN OnlyFirst -> cur = OnlyFirst[kind]
      [] kind \in {"N_SEXP", "N_KEY", "N_RANGE_START"} ->
            cur \in Atoms \cup {"COMMA", "L_PAREN", "BACKTICK", "HASHFN"}
      [] kind = "N_ATOM" -> cur \in Atoms
      [] kind = "N_LIST" -> cur \in {"L_PAREN", "BACKTICK", "COMMA", "HASHFN"}
      [] kind = "N_LITERAL" -> cur \in Literals
      [] kind = "N_STRING_LITERAL" -> cur \in {"QUOTE_STRING", "COLON_STRING"}
      [] kind = "N_NUMBER" -> cur \in {"FLOAT", "INTEGER"}
      [] kind \in {"N_L_SYMBOL", "N_R_SYMBOL", "N_L_R_SYMBOL", "N_L_OR_R_SYMBOL",
                   "N_SYMBOL_CALL"} -> cur \in {"SYMBOL", "COMMA"}
      [] kind = "N_MACRO_LIST" -> cur \in {"BACKTICK", "COMMA", "HASHFN"}
      [] kind = "N_OPERATION" -> cur \in {"OPERATOR", "KEYWORD_OR", "COLON", "LENGTH"}
      [] kind = "N_CALL_FN" -> cur \in {"SYMBOL", "COMMA", "L_PAREN", "BACKTICK", "HASHFN"}
      [] kind \in {"N_ASSIGN_PATTERN", "N_SET_PATTERN"} ->
            cur \in {"SYMBOL", "COMMA", "L_BRACKET", "L_BRACE", "CAPTURE"}
      [] kind \in {"N_ASSIGN_PATTERN_KEY", "N_SET_PATTERN_KEY"} ->
            cur \in Literals \cup {"SYMBOL", "COMMA", "L_PAREN", "CAPTURE"}
      [] kind \in {"N_MATCH_PATTERN_TOP", "N_MATCH_CLAUSE", "N_MATCH_TRY_CLAUSE"} ->
            cur \in PatternTop
      [] kind = "N_MATCH_PATTERN" -> cur \in (PatternTop \ {"L_PAREN"}) \cup {"CAPTURE"}
      [] kind = "N_IMPORT_MACROS_DESTRUCT" -> cur \in {"L_BRACE", "SYMBOL", "COMMA"}
      [] OTHER -> kind = cur

=============================================================================
