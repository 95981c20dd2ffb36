------------------------------ MODULE MCParser ------------------------------
(***************************************************************************)
(* Instances of Parser: all texts of up to MaxLength tokens of the kinds   *)
(* that an instance gives.                                                 *)
(***************************************************************************)
EXTENDS Parser

CONSTANTS Kinds, MaxLength

Symbols == {"x", "x."}
Keywords == {":into", "&into"}

TokensOf(kind) ==
    {[kind |-> kind, text |-> text] :
        text \in CASE kind = "SYMBOL" -> Symbols
                   [] kind = "KEYWORD_INTO" -> Keywords
                   [] OTHER -> {""}}

Texts == UNION {[1..n -> UNION {TokensOf(kind) : kind \in Kinds}] : n \in 0..MaxLength}
=============================================================================
