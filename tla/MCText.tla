------------------------------- MODULE MCText -------------------------------
EXTENDS SemanticTokens

\* The characters of short, longer and long texts, and of numbers.
CONSTANTS Alphabet, Core, Few, Numeric

Of(chars, n) == [1..n -> chars]

MCTexts == UNION {Of(Alphabet, n) : n \in 0..3} \cup Of(Core, 4) \cup Of(Few, 5)
           \cup Of(Numeric, 4)

MCNewNames ==
    {<<"x", "1">>, <<"wide">>, <<"x", "#">>, <<"-", "x">>, <<"0", "x">>, <<"1", "e">>,
     <<"0", "x", "e">>, <<"+", "1", "e">>,
     <<"x", "space">>, <<"x", ")">>, <<"x", ".", "x">>, <<"1">>, <<"#", "x">>, <<"-", "-">>,
     <<"lambda">>, <<"x", ";">>, <<"x", "x">>, <<"x", "quote">>}

\* One word for those of builtins.rs.
MCReserved == {<<"x", "x">>}
=============================================================================
