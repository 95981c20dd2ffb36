--------------------------- MODULE Parser_proofs ---------------------------
(***************************************************************************)
(* Proofs about Parser, for every text and any limit on the nesting.       *)
(***************************************************************************)
EXTENDS Parser, DataFacts, FiniteSetTheorems

-----------------------------------------------------------------------------
(* The productions *)

Delimiters == DOMAIN Closing \cup {"R_PAREN", "R_BRACKET", "R_BRACE"}

\* A rule as productions have them, and one that expects no delimiter.
IsPlain(r) == r.notation # "Close" /\ r.expect # "ERROR" /\ r.at = 0
IsInner(r) == IsPlain(r) /\ r.expect \notin Delimiters
Inner(p) == IsSeq(p) /\ \A i \in DOMAIN p : IsInner(p[i])

\* An alternative of a production: some rules without delimiters, or such rules
\* between an opening and its closing.
IsClause(p) ==
    \/ p # <<>> /\ Inner(p)
    \/ \E o \in DOMAIN Closing : \E inner : Inner(inner) /\ p = <<One(o)>> \o inner \o <<One(Closing[o])>>

IsProduction(all) == IsSeq(all) /\ \A i \in DOMAIN all : IsClause(all[i])

\* The rules of productions, as Grammar writes them.
LEMMA RulesAreInner ==
    ASSUME NEW kind, kind # "ERROR", kind \notin Delimiters
    PROVE  /\ IsInner(One(kind))
           /\ \A ends : IsInner(Opt(kind, ends))
           /\ \A ends : IsInner(Star(kind, ends))
           /\ \A ends : IsInner(Plus(kind, ends))
           /\ \A ends, follows : IsInner(PlusPeek(kind, ends, follows))
BY DEF One, Opt, Star, Plus, PlusPeek, Rule, IsPlain, IsInner

\* Some rules without delimiters.
LEMMA InnerSequences ==
    /\ Inner(<<>>)
    /\ \A a : IsInner(a) => Inner(<<a>>)
    /\ \A a, b : IsInner(a) /\ IsInner(b) => Inner(<<a, b>>)
    /\ \A a, b, c : IsInner(a) /\ IsInner(b) /\ IsInner(c) => Inner(<<a, b, c>>)
    /\ \A a, b, c, d : IsInner(a) /\ IsInner(b) /\ IsInner(c) /\ IsInner(d) => Inner(<<a, b, c, d>>)
    /\ \A a, b, c, d, e : /\ IsInner(a) /\ IsInner(b) /\ IsInner(c) /\ IsInner(d) /\ IsInner(e)
                         => Inner(<<a, b, c, d, e>>)
BY Tuples DEF Inner

\* The forms of an alternative.
LEMMA Clauses ==
    /\ \A p : Inner(p) /\ p # <<>> => IsClause(p)
    /\ \A inner : Inner(inner) => IsClause(Bracketed(inner))
    /\ \A r : IsInner(r) => IsClause(Braced(r)) /\ IsClause(Listed(r))
<1>1. ASSUME NEW inner, Inner(inner)
      PROVE  IsClause(Bracketed(inner))
    BY <1>1 DEF IsClause, Bracketed, Closing
<1>2. ASSUME NEW r, IsInner(r)
      PROVE  IsClause(Braced(r)) /\ IsClause(Listed(r))
    <2>1. Inner(<<r>>)
        BY <1>2, InnerSequences
    <2>2. ASSUME NEW x, NEW y
          PROVE  <<x>> \o <<r>> \o <<y>> = <<x, r, y>>
        <3> DEFINE S == {x, r, y}
        <3>1. <<x>> \in Seq(S) /\ <<r>> \in Seq(S) /\ <<y>> \in Seq(S) /\ <<x, r, y>> \in Seq(S)
            OBVIOUS
        <3> HIDE DEF S
        <3>2. /\ <<x>> \o <<r>> \in Seq(S) /\ Len(<<x>> \o <<r>>) = 2
              /\ (<<x>> \o <<r>>)[1] = x /\ (<<x>> \o <<r>>)[2] = r
            BY <3>1
        <3>3. <<x>> \o <<r>> \o <<y>> \in Seq(S) /\ Len(<<x>> \o <<r>> \o <<y>>) = 3
            BY <3>1, <3>2
        <3>4. \A i \in 1..3 : (<<x>> \o <<r>> \o <<y>>)[i] = <<x, r, y>>[i]
            BY <3>1, <3>2
        <3>5. QED
            BY <3>1, <3>3, <3>4, SeqEqual
    <2>3. /\ Braced(r) = <<One("L_BRACE")>> \o <<r>> \o <<One(Closing["L_BRACE"])>>
          /\ Listed(r) = <<One("L_PAREN")>> \o <<r>> \o <<One(Closing["L_PAREN"])>>
        BY <2>2 DEF Braced, Listed, Closing
    <2>4. QED
        BY <2>1, <2>3 DEF IsClause, Closing
<1>3. QED
    BY <1>1, <1>2 DEF IsClause

\* The forms of a production.
LEMMA ProductionsOfClauses ==
    /\ \A a : IsClause(a) => IsProduction(<<a>>)
    /\ \A a, b : IsClause(a) /\ IsClause(b) => IsProduction(<<a, b>>)
    /\ \A a, b, c, d : IsClause(a) /\ IsClause(b) /\ IsClause(c) /\ IsClause(d) => IsProduction(<<a, b, c, d>>)
BY Tuples DEF IsProduction

\* One that only tells its alternatives apart.
LEMMA ProductionOfUnits ==
    ASSUME NEW kinds, Len(kinds) \in Nat, DOMAIN kinds = 1..Len(kinds),
           \A i \in DOMAIN kinds : kinds[i] # "ERROR" /\ kinds[i] \notin Delimiters
    PROVE  IsProduction(Units(kinds))
<1>1. \A i \in DOMAIN kinds : IsClause(<<One(kinds[i])>>)
    BY RulesAreInner, InnerSequences, Clauses
<1>2. Units(kinds) \in Seq({<<One(kinds[i])>> : i \in DOMAIN kinds})
    BY DEF Units
<1>3. QED
    BY <1>1, <1>2 DEF IsProduction, IsSeq, Units

\* Alternatives after others.
LEMMA ProductionsJoin ==
    ASSUME NEW p, NEW q, IsProduction(p), IsProduction(q)
    PROVE  IsProduction(p \o q)
<1>1. PICK S, T : p \in Seq(S) /\ q \in Seq(T)
    BY DEF IsProduction, IsSeq
<1>2. p \in Seq(S \cup T) /\ q \in Seq(S \cup T)
    BY <1>1, SeqMonotonic
<1>3. /\ p \o q \in Seq(S \cup T)
      /\ \A i \in DOMAIN (p \o q) : (\E j \in DOMAIN p : (p \o q)[i] = p[j]) \/ (\E j \in DOMAIN q : (p \o q)[i] = q[j])
    BY <1>2
<1>4. QED
    BY <1>3 DEF IsProduction, IsSeq

\* Any of the special forms, after the calls.
LEMMA SublistIsProduction == IsProduction(Forms.N_SUBLIST)
<1>1. PICK p, kinds : /\ Forms.N_SUBLIST = p \o Units(kinds)
                      /\ p = << <<One("N_LIST"), Args>>, <<One("N_SYMBOL_CALL"), Args>> >>
                      /\ kinds = <<"N_VAR", "N_SET", "N_TSET", "N_LOCAL", "N_VALUES", "N_GLOBAL",
                                     "N_IMPORT_MACROS", "N_REQUIRE_MACROS", "N_MACRO", "N_MACROS",
                                     "N_EVAL_COMPILER", "N_FN", "N_LAMBDA", "N_PARTIAL", "N_LET", "N_MATCH",
                                     "N_MATCH_TRY", "N_WITH_OPEN", "N_PICK_VALUE", "N_IF", "N_WHEN", "N_EACH",
                                     "N_FOR", "N_COLLECT", "N_ICOLLECT", "N_FCOLLECT", "N_ACCUMULATE", "N_WHILE",
                                     "N_DO", "N_OPERATION", "N_THREAD", "N_DOTO", "N_INCLUDE", "N_LUA",
                                     "N_PICK_ARGS", "N_MACRODEBUG">>
    BY DEF Forms
<1>2. IsProduction(p)
    BY <1>1, RulesAreInner, InnerSequences, Clauses, ProductionsOfClauses DEF Delimiters, Closing, Args
<1>3. Len(kinds) = 36 /\ DOMAIN kinds = 1..36
    BY <1>1
<1>4. \A i \in 1..36 : kinds[i] # "ERROR" /\ kinds[i] \notin Delimiters
    BY <1>1, SMTT(60) DEF Delimiters, Closing
<1>5. /\ Len(kinds) \in Nat /\ DOMAIN kinds = 1..Len(kinds)
      /\ \A i \in DOMAIN kinds : kinds[i] # "ERROR" /\ kinds[i] \notin Delimiters
    BY <1>3, <1>4
<1>6. IsProduction(Units(kinds))
    BY <1>5, ProductionOfUnits
<1>7. QED
    BY <1>1, <1>2, <1>6, ProductionsJoin

\* Those of Forms are.
LEMMA FormsAreProductions == \A kind \in DOMAIN Forms : IsProduction(Forms[kind])
<1> USE RulesAreInner, InnerSequences, Clauses, ProductionsOfClauses, ProductionOfUnits
        DEF Delimiters, Closing, AnySymbol, Args, Body, Calls, Sexps, Until
<1>1. /\ IsProduction(Forms.N_SEXP) BY DEF Forms
<1>2. /\ IsProduction(Forms.N_ATOM) BY DEF Forms
<1>3. /\ IsProduction(Forms.N_LITERAL) BY DEF Forms
<1>4. /\ IsProduction(Forms.N_STRING_LITERAL) BY DEF Forms
<1>5. /\ IsProduction(Forms.N_SEQ_TABLE) BY DEF Forms
<1>6. /\ IsProduction(Forms.N_KV_TABLE) BY DEF Forms
<1>7. /\ IsProduction(Forms.N_KV_PAIR) BY DEF Forms
<1>8. /\ IsProduction(Forms.N_L_SYMBOL) BY DEF Forms
<1>9. /\ IsProduction(Forms.N_R_SYMBOL) BY DEF Forms
<1>10. /\ IsProduction(Forms.N_L_R_SYMBOL) BY DEF Forms
<1>11. /\ IsProduction(Forms.N_L_OR_R_SYMBOL) BY DEF Forms
<1>12. /\ IsProduction(Forms.N_KEY) BY DEF Forms
<1>13. /\ IsProduction(Forms.N_VALUE) BY DEF Forms
<1>14. /\ IsProduction(Forms.N_COND) BY DEF Forms
<1>15. /\ IsProduction(Forms.N_NV_PAIR) BY DEF Forms
<1>16. /\ IsProduction(Forms.N_ARGS) BY DEF Forms
<1>17. /\ IsProduction(Forms.N_BODY) BY DEF Forms
<1>18. /\ IsProduction(Forms.N_ITERATOR) BY DEF Forms
<1>19. /\ IsProduction(Forms.N_LIST) BY DEF Forms
<1>20. /\ IsProduction(Forms.N_MACRO_LIST) BY DEF Forms
<1>21. /\ IsProduction(Forms.N_SYMBOL_CALL) BY DEF Forms
<1>22. /\ IsProduction(Forms.N_TSET) BY DEF Forms
<1>23. /\ IsProduction(Forms.N_WITH_OPEN) BY DEF Forms
<1>24. /\ IsProduction(Forms.N_NV_PAIR_TABLE) BY DEF Forms
<1>25. /\ IsProduction(Forms.N_LET) BY DEF Forms
<1>26. /\ IsProduction(Forms.N_VALUES) BY DEF Forms
<1>27. /\ IsProduction(Forms.N_REQUIRE_MACROS) BY DEF Forms
<1>28. /\ IsProduction(Forms.N_EVAL_COMPILER) BY DEF Forms
<1>29. /\ IsProduction(Forms.N_MACRO_HASH) BY DEF Forms
<1>30. /\ IsProduction(Forms.N_MACRO_UNQUOTE) BY DEF Forms
<1>31. /\ IsProduction(Forms.N_MACRO_QUOTE) BY DEF Forms
<1>32. /\ IsProduction(Forms.N_PARTIAL) BY DEF Forms
<1>33. /\ IsProduction(Forms.N_PICK_VALUE) BY DEF Forms
<1>34. /\ IsProduction(Forms.N_NUMBER) BY DEF Forms
<1>35. /\ IsProduction(Forms.N_DO) BY DEF Forms
<1>36. /\ IsProduction(Forms.N_IF) BY DEF Forms
<1>37. /\ IsProduction(Forms.N_WHEN) BY DEF Forms
<1>38. /\ IsProduction(Forms.N_WHILE) BY DEF Forms
<1>39. /\ IsProduction(Forms.N_OPERATION) BY DEF Forms
<1>40. /\ IsProduction(Forms.N_THREAD) BY DEF Forms
<1>41. /\ IsProduction(Forms.N_DOTO) BY DEF Forms
<1>42. /\ IsProduction(Forms.N_CALL_FN) BY DEF Forms
<1>43. /\ IsProduction(Forms.N_INCLUDE) BY DEF Forms
<1>44. /\ IsProduction(Forms.N_LUA) BY DEF Forms
<1>45. /\ IsProduction(Forms.N_PICK_ARGS) BY DEF Forms
<1>46. /\ IsProduction(Forms.N_MACRODEBUG) BY DEF Forms
<1>47. \A kind \in DOMAIN Forms : kind \in
      {"N_SEXP", "N_ATOM", "N_LITERAL", "N_STRING_LITERAL", "N_SEQ_TABLE", "N_KV_TABLE",
       "N_KV_PAIR", "N_L_SYMBOL", "N_R_SYMBOL", "N_L_R_SYMBOL", "N_L_OR_R_SYMBOL", "N_KEY",
       "N_VALUE", "N_COND", "N_NV_PAIR", "N_ARGS", "N_BODY", "N_ITERATOR", "N_LIST",
       "N_MACRO_LIST", "N_SUBLIST", "N_SYMBOL_CALL", "N_TSET", "N_WITH_OPEN", "N_NV_PAIR_TABLE",
       "N_LET", "N_VALUES", "N_REQUIRE_MACROS", "N_EVAL_COMPILER", "N_MACRO_HASH",
       "N_MACRO_UNQUOTE", "N_MACRO_QUOTE", "N_PARTIAL", "N_PICK_VALUE", "N_NUMBER", "N_DO",
       "N_IF", "N_WHEN", "N_WHILE", "N_OPERATION", "N_THREAD", "N_DOTO", "N_CALL_FN",
       "N_INCLUDE", "N_LUA", "N_PICK_ARGS", "N_MACRODEBUG"}
    BY DEF Forms
<1>48. QED
    BY <1>1, <1>2, <1>3, <1>4, <1>5, <1>6, <1>7, <1>8, <1>9, <1>10, <1>11, <1>12, <1>13, <1>14,
       <1>15, <1>16, <1>17, <1>18, <1>19, <1>20, <1>21, <1>22, <1>23, <1>24, <1>25, <1>26,
       <1>27, <1>28, <1>29, <1>30, <1>31, <1>32, <1>33, <1>34, <1>35, <1>36, <1>37, <1>38,
       <1>39, <1>40, <1>41, <1>42, <1>43, <1>44, <1>45, <1>46, <1>47, SublistIsProduction

\* Those of Bindings are.
LEMMA BindingsAreProductions == \A kind \in DOMAIN Bindings : IsProduction(Bindings[kind])
<1> USE RulesAreInner, InnerSequences, Clauses, ProductionsOfClauses, ProductionOfUnits
        DEF Delimiters, Closing, AnySymbol, Args, Body, Calls, Sexps, Until
<1>1. /\ IsProduction(Bindings.N_SET) BY DEF Bindings
<1>2. /\ IsProduction(Bindings.N_SET_PAIR) BY DEF Bindings
<1>3. /\ IsProduction(Bindings.N_SET_PATTERN_LIST) BY DEF Bindings
<1>4. /\ IsProduction(Bindings.N_SET_PATTERN) BY DEF Bindings
<1>5. /\ IsProduction(Bindings.N_SET_PATTERN_TABLE) BY DEF Bindings
<1>6. /\ IsProduction(Bindings.N_SET_PATTERN_KV_TABLE) BY DEF Bindings
<1>7. /\ IsProduction(Bindings.N_SET_PATTERN_KV) BY DEF Bindings
<1>8. /\ IsProduction(Bindings.N_SET_PATTERN_KEY) BY DEF Bindings
<1>9. /\ IsProduction(Bindings.N_SET_PATTERN_KEY_NEST) BY DEF Bindings
<1>10. /\ IsProduction(Bindings.N_VAR) BY DEF Bindings
<1>11. /\ IsProduction(Bindings.N_LOCAL) BY DEF Bindings
<1>12. /\ IsProduction(Bindings.N_GLOBAL) BY DEF Bindings
<1>13. /\ IsProduction(Bindings.N_IMPORT_MACROS) BY DEF Bindings
<1>14. /\ IsProduction(Bindings.N_IMPORT_MACROS_PAIR) BY DEF Bindings
<1>15. /\ IsProduction(Bindings.N_IMPORT_MACROS_DESTRUCT) BY DEF Bindings
<1>16. /\ IsProduction(Bindings.N_IMPORT_MACROS_KV_TABLE) BY DEF Bindings
<1>17. /\ IsProduction(Bindings.N_IMPORT_MACROS_KV_PAIR) BY DEF Bindings
<1>18. /\ IsProduction(Bindings.N_ASSIGN_TABLE) BY DEF Bindings
<1>19. /\ IsProduction(Bindings.N_ASSIGN_PAIR) BY DEF Bindings
<1>20. /\ IsProduction(Bindings.N_ASSIGN_PATTERN_LIST) BY DEF Bindings
<1>21. /\ IsProduction(Bindings.N_ASSIGN_PATTERN) BY DEF Bindings
<1>22. /\ IsProduction(Bindings.N_ASSIGN_PATTERN_TABLE) BY DEF Bindings
<1>23. /\ IsProduction(Bindings.N_ASSIGN_PATTERN_KV_TABLE) BY DEF Bindings
<1>24. /\ IsProduction(Bindings.N_ASSIGN_PATTERN_KV) BY DEF Bindings
<1>25. /\ IsProduction(Bindings.N_ASSIGN_PATTERN_KEY) BY DEF Bindings
<1>26. /\ IsProduction(Bindings.N_ASSIGN_PATTERN_KEY_NEST) BY DEF Bindings
<1>27. /\ IsProduction(Bindings.N_MACRO) BY DEF Bindings
<1>28. /\ IsProduction(Bindings.N_MACRO_NAME) BY DEF Bindings
<1>29. /\ IsProduction(Bindings.N_MACROS) BY DEF Bindings
<1>30. /\ IsProduction(Bindings.N_FN) BY DEF Bindings
<1>31. /\ IsProduction(Bindings.N_LAMBDA) BY DEF Bindings
<1>32. /\ IsProduction(Bindings.N_FN_NAME) BY DEF Bindings
<1>33. /\ IsProduction(Bindings.N_PARAM_TABLE) BY DEF Bindings
<1>34. /\ IsProduction(Bindings.N_VARARG) BY DEF Bindings
<1>35. \A kind \in DOMAIN Bindings : kind \in
      {"N_SET", "N_SET_PAIR", "N_SET_PATTERN_LIST", "N_SET_PATTERN", "N_SET_PATTERN_TABLE",
       "N_SET_PATTERN_KV_TABLE", "N_SET_PATTERN_KV", "N_SET_PATTERN_KEY",
       "N_SET_PATTERN_KEY_NEST", "N_VAR", "N_LOCAL", "N_GLOBAL", "N_IMPORT_MACROS",
       "N_IMPORT_MACROS_PAIR", "N_IMPORT_MACROS_DESTRUCT", "N_IMPORT_MACROS_KV_TABLE",
       "N_IMPORT_MACROS_KV_PAIR", "N_ASSIGN_TABLE", "N_ASSIGN_PAIR", "N_ASSIGN_PATTERN_LIST",
       "N_ASSIGN_PATTERN", "N_ASSIGN_PATTERN_TABLE", "N_ASSIGN_PATTERN_KV_TABLE",
       "N_ASSIGN_PATTERN_KV", "N_ASSIGN_PATTERN_KEY", "N_ASSIGN_PATTERN_KEY_NEST", "N_MACRO",
       "N_MACRO_NAME", "N_MACROS", "N_FN", "N_LAMBDA", "N_FN_NAME", "N_PARAM_TABLE", "N_VARARG"}
    BY DEF Bindings
<1>36. QED
    BY <1>1, <1>2, <1>3, <1>4, <1>5, <1>6, <1>7, <1>8, <1>9, <1>10, <1>11, <1>12, <1>13, <1>14,
       <1>15, <1>16, <1>17, <1>18, <1>19, <1>20, <1>21, <1>22, <1>23, <1>24, <1>25, <1>26,
       <1>27, <1>28, <1>29, <1>30, <1>31, <1>32, <1>33, <1>34, <1>35

\* Those of Loops are.
LEMMA LoopsAreProductions == \A kind \in DOMAIN Loops : IsProduction(Loops[kind])
<1> USE RulesAreInner, InnerSequences, Clauses, ProductionsOfClauses, ProductionOfUnits
        DEF Delimiters, Closing, AnySymbol, Args, Body, Calls, Sexps, Until
<1>1. /\ IsProduction(Loops.N_EACH) BY DEF Loops
<1>2. /\ IsProduction(Loops.N_EACH_TABLE) BY DEF Loops
<1>3. /\ IsProduction(Loops.N_ITERATION) BY DEF Loops
<1>4. /\ IsProduction(Loops.N_FOR) BY DEF Loops
<1>5. /\ IsProduction(Loops.N_FOR_TABLE) BY DEF Loops
<1>6. /\ IsProduction(Loops.N_ITERATION_VALUE) BY DEF Loops
<1>7. /\ IsProduction(Loops.N_RANGE) BY DEF Loops
<1>8. /\ IsProduction(Loops.N_RANGE_START) BY DEF Loops
<1>9. /\ IsProduction(Loops.N_RANGE_STOP) BY DEF Loops
<1>10. /\ IsProduction(Loops.N_RANGE_STEP) BY DEF Loops
<1>11. /\ IsProduction(Loops.N_ICOLLECT) BY DEF Loops
<1>12. /\ IsProduction(Loops.N_ICOLLECT_TABLE) BY DEF Loops
<1>13. /\ IsProduction(Loops.N_FCOLLECT) BY DEF Loops
<1>14. /\ IsProduction(Loops.N_FCOLLECT_TABLE) BY DEF Loops
<1>15. /\ IsProduction(Loops.N_COLLECT) BY DEF Loops
<1>16. /\ IsProduction(Loops.N_COLLECT_TABLE) BY DEF Loops
<1>17. /\ IsProduction(Loops.N_COLLECT_CLAUSE) BY DEF Loops
<1>18. /\ IsProduction(Loops.N_ACCUMULATE) BY DEF Loops
<1>19. /\ IsProduction(Loops.N_ACCUMULATE_TABLE) BY DEF Loops
<1>20. /\ IsProduction(Loops.N_ACCUMULATOR) BY DEF Loops
<1>21. /\ IsProduction(Loops.N_INITIAL) BY DEF Loops
<1>22. /\ IsProduction(Loops.N_UNTIL_CLAUSE) BY DEF Loops
<1>23. /\ IsProduction(Loops.N_INTO_CLAUSE) BY DEF Loops
<1>24. \A kind \in DOMAIN Loops : kind \in
      {"N_EACH", "N_EACH_TABLE", "N_ITERATION", "N_FOR", "N_FOR_TABLE", "N_ITERATION_VALUE",
       "N_RANGE", "N_RANGE_START", "N_RANGE_STOP", "N_RANGE_STEP", "N_ICOLLECT",
       "N_ICOLLECT_TABLE", "N_FCOLLECT", "N_FCOLLECT_TABLE", "N_COLLECT", "N_COLLECT_TABLE",
       "N_COLLECT_CLAUSE", "N_ACCUMULATE", "N_ACCUMULATE_TABLE", "N_ACCUMULATOR", "N_INITIAL",
       "N_UNTIL_CLAUSE", "N_INTO_CLAUSE"}
    BY DEF Loops
<1>25. QED
    BY <1>1, <1>2, <1>3, <1>4, <1>5, <1>6, <1>7, <1>8, <1>9, <1>10, <1>11, <1>12, <1>13, <1>14,
       <1>15, <1>16, <1>17, <1>18, <1>19, <1>20, <1>21, <1>22, <1>23, <1>24

\* Those of Matching are.
LEMMA MatchingAreProductions == \A kind \in DOMAIN Matching : IsProduction(Matching[kind])
<1> USE RulesAreInner, InnerSequences, Clauses, ProductionsOfClauses, ProductionOfUnits
        DEF Delimiters, Closing, AnySymbol, Args, Body, Calls, Sexps, Until
<1>1. /\ IsProduction(Matching.N_MATCH) BY DEF Matching
<1>2. /\ IsProduction(Matching.N_MATCH_CLAUSE) BY DEF Matching
<1>3. /\ IsProduction(Matching.N_MATCH_PATTERN_TOP) BY DEF Matching
<1>4. /\ IsProduction(Matching.N_MATCH_PATTERN) BY DEF Matching
<1>5. /\ IsProduction(Matching.N_MATCH_PATTERN_LIST) BY DEF Matching
<1>6. /\ IsProduction(Matching.N_MATCH_PATTERN_LIST_REAL) BY DEF Matching
<1>7. /\ IsProduction(Matching.N_MATCH_PATTERN_LIST_REST) BY DEF Matching
<1>8. /\ IsProduction(Matching.N_GUARD_CLAUSE) BY DEF Matching
<1>9. /\ IsProduction(Matching.N_MATCH_PATTERN_TABLE) BY DEF Matching
<1>10. /\ IsProduction(Matching.N_MATCH_PATTERN_KV_TABLE) BY DEF Matching
<1>11. /\ IsProduction(Matching.N_MATCH_PATTERN_KV) BY DEF Matching
<1>12. /\ IsProduction(Matching.N_WHERE_CLAUSE) BY DEF Matching
<1>13. /\ IsProduction(Matching.N_WHERE_PATTERN) BY DEF Matching
<1>14. /\ IsProduction(Matching.N_OR_CLAUSE_LIST) BY DEF Matching
<1>15. /\ IsProduction(Matching.N_OR_CLAUSE) BY DEF Matching
<1>16. /\ IsProduction(Matching.N_MATCH_TRY) BY DEF Matching
<1>17. /\ IsProduction(Matching.N_MATCH_TRY_CLAUSE) BY DEF Matching
<1>18. /\ IsProduction(Matching.N_MATCH_TRY_LIST) BY DEF Matching
<1>19. /\ IsProduction(Matching.N_MATCH_TRY_LIST_REAL) BY DEF Matching
<1>20. /\ IsProduction(Matching.N_CATCH_LIST) BY DEF Matching
<1>21. /\ IsProduction(Matching.N_CATCH) BY DEF Matching
<1>22. \A kind \in DOMAIN Matching : kind \in
      {"N_MATCH", "N_MATCH_CLAUSE", "N_MATCH_PATTERN_TOP", "N_MATCH_PATTERN",
       "N_MATCH_PATTERN_LIST", "N_MATCH_PATTERN_LIST_REAL", "N_MATCH_PATTERN_LIST_REST",
       "N_GUARD_CLAUSE", "N_MATCH_PATTERN_TABLE", "N_MATCH_PATTERN_KV_TABLE",
       "N_MATCH_PATTERN_KV", "N_WHERE_CLAUSE", "N_WHERE_PATTERN", "N_OR_CLAUSE_LIST",
       "N_OR_CLAUSE", "N_MATCH_TRY", "N_MATCH_TRY_CLAUSE", "N_MATCH_TRY_LIST",
       "N_MATCH_TRY_LIST_REAL", "N_CATCH_LIST", "N_CATCH"}
    BY DEF Matching
<1>23. QED
    BY <1>1, <1>2, <1>3, <1>4, <1>5, <1>6, <1>7, <1>8, <1>9, <1>10, <1>11, <1>12, <1>13, <1>14,
       <1>15, <1>16, <1>17, <1>18, <1>19, <1>20, <1>21, <1>22

\* What a rule is expanded to is an alternative that can begin at the token, or
\* one of those told by the token after an opening.
LEMMA ExpansionIsChosen ==
    ASSUME Expansion # <<>>
    PROVE  \/ \E i \in 1..Len(Alternatives(cur_rule.expect)) :
                 /\ Expansion = Alternatives(cur_rule.expect)[i]
                 /\ first_set(Head(Expansion).expect, cur_token.kind)
           \/ \E i \in {1, 2} : Expansion = TryAlternatives[i].clause /\ cur_token.kind = "L_PAREN"
<1> DEFINE all == Alternatives(cur_rule.expect)
           fit == {i \in 1..Len(all) : first_set(Head(all[i]).expect, cur_token.kind)}
           try == {i \in 1..Len(TryAlternatives) :
                       /\ cur_rule.expect = "N_MATCH_TRY_CLAUSE" /\ cur_token.kind = "L_PAREN"
                       /\ peek \in TryAlternatives[i].peek}
<1>1. CASE fit # {}
    <2>1. fit \in SUBSET Nat
        OBVIOUS
    <2>2. First(fit) \in fit
        <3> HIDE DEF fit
        <3> QED  BY <1>1, <2>1, LeastExists DEF First
    <2>3. Expansion = all[First(fit)]
        BY <1>1 DEF Expansion
    <2> QED  BY <2>2, <2>3
<1>2. CASE fit = {} /\ try # {}
    <2>1. try \subseteq {1, 2}
        BY DEF TryAlternatives
    <2>2. try \in SUBSET Nat
        BY <2>1
    <2>3. First(try) \in try
        <3> HIDE DEF try
        <3> QED  BY <1>2, <2>2, LeastExists DEF First
    <2>4. Expansion = TryAlternatives[First(try)].clause
        BY <1>2 DEF Expansion
    <2> QED  BY <2>1, <2>3, <2>4
<1>3. CASE fit = {} /\ try = {}
    BY <1>3 DEF Expansion
<1> QED  BY <1>1, <1>2, <1>3

\* It is an alternative of a production.
LEMMA ExpansionIsClause ==
    ASSUME Expansion # <<>>
    PROVE  IsClause(Expansion)
<1>1. ASSUME NEW i \in 1..Len(Alternatives(cur_rule.expect))
      PROVE  IsClause(Alternatives(cur_rule.expect)[i])
    <2>1. PICK all : all = Alternatives(cur_rule.expect)
        OBVIOUS
    <2>2. IsProduction(all) \/ all = <<>>
        BY <2>1, FormsAreProductions, BindingsAreProductions, LoopsAreProductions,
           MatchingAreProductions DEF Alternatives
    <2>3. CASE IsProduction(all)
        BY <1>1, <2>1, <2>3 DEF IsProduction, IsSeq
    <2>4. CASE all = <<>>
        BY <1>1, <2>1, <2>4
    <2>5. QED
        BY <2>2, <2>3, <2>4
<1>2. ASSUME NEW i \in {1, 2}
      PROVE  IsClause(TryAlternatives[i].clause)
    <2>1. IsClause(<<One("N_MATCH_TRY_LIST"), One("N_SEXP")>>) /\ IsClause(<<One("N_CATCH_LIST")>>)
        BY RulesAreInner, InnerSequences, Clauses DEF Delimiters, Closing
    <2>2. QED
        BY <1>2, <2>1 DEF TryAlternatives
<1>3. QED
    BY <1>1, <1>2, ExpansionIsChosen

\* Only the opening itself begins with an opening delimiter.
LEMMA OpeningsBegin ==
    ASSUME NEW kind \in L_DELIMITERS, NEW cur, first_set(kind, cur)
    PROVE  cur = kind
<1> QED  BY DEF first_set, OnlyFirst, L_DELIMITERS

\* An expansion that starts with the opening of a list starts at that opening.
LEMMA ExpansionFits ==
    ASSUME Expansion # <<>>, Head(Expansion).expect \in L_DELIMITERS
    PROVE  cur_token.kind = Head(Expansion).expect
<1>1. CASE first_set(Head(Expansion).expect, cur_token.kind)
    BY <1>1, OpeningsBegin
<1>2. ASSUME NEW i \in {1, 2}, Expansion = TryAlternatives[i].clause
      PROVE  FALSE
    BY <1>2 DEF TryAlternatives, One, Rule, L_DELIMITERS
<1>3. QED
    BY <1>1, <1>2, ExpansionIsChosen

-----------------------------------------------------------------------------
(* The limit *)

\* An open list more is counted only below the limit: a token at which a list
\* may open is refused before it is expanded.
LEMMA ExpandsBelowTheLimit ==
    ASSUME Expand, Head(Expansion).expect \in L_DELIMITERS, nesting_depth \in Nat
    PROVE  nesting_depth < MAX_NESTING_DEPTH
<1>1. Branch = "expand"
  BY DEF Expand, At
<1>2. ~Refuses /\ Expansion # <<>>
  BY <1>1 DEF Branch
<1>3. cur_token.kind \in L_DELIMITERS
    BY <1>2, ExpansionFits
<1> QED  BY <1>2, <1>3, ParserAssumption DEF Refuses

\* DepthIsBounded is inductive: only the start of a list raises the counter,
\* and only the end of one, above zero, lowers it.
LEMMA DepthStep ==
    ASSUME DepthIsBounded, [Next]_vars
    PROVE  DepthIsBounded'
<1> USE ParserAssumption DEF DepthIsBounded
<1>1. CASE CloseNode
  BY <1>1 DEF CloseNode, DepthAfter
<1>2. CASE Expand
  <2>1. CASE Head(Expansion).expect \in L_DELIMITERS
    <3>1. nesting_depth' = nesting_depth + 1
      BY <1>2, <2>1 DEF Expand
    <3> QED  BY <1>2, <2>1, <3>1, ExpandsBelowTheLimit
  <2>2. CASE Head(Expansion).expect \notin L_DELIMITERS
    BY <1>2, <2>2 DEF Expand
  <2> QED  BY <2>1, <2>2
<1>3. CASE Refuse \/ EatOutband \/ Match \/ Stop
  BY <1>3 DEF Refuse, EatOutband, Match, Stop
<1>4. CASE EarlyClose \/ Rekeyword \/ MissingClose \/ Unexpected
  BY <1>4 DEF EarlyClose, Rekeyword, MissingClose, Unexpected
<1>5. CASE synchronize
  BY <1>5 DEF synchronize
<1>6. CASE Done \/ UNCHANGED vars
  BY <1>6 DEF Done, vars
<1> QED  BY <1>1, <1>2, <1>3, <1>4, <1>5, <1>6 DEF Next, parse_inner, recover_error

\* Whatever the text and however it is recovered from, nesting_depth stays
\* between zero and MAX_NESTING_DEPTH.
THEOREM DepthStaysBounded == Spec => []DepthIsBounded
<1>1. Init => DepthIsBounded
  BY ParserAssumption DEF Init, DepthIsBounded
<1>2. DepthIsBounded /\ [Next]_vars => DepthIsBounded'
  BY DepthStep
<1> QED  BY <1>1, <1>2, PTL DEF Spec

-----------------------------------------------------------------------------
(* Sets of positions *)

\* A set of positions moved along has as many members.
LEMMA MovedAlong ==
    ASSUME NEW A \in SUBSET Int, IsFiniteSet(A), NEW k \in Int
    PROVE  /\ IsFiniteSet({i + k : i \in A})
           /\ Cardinality({i + k : i \in A}) = Cardinality(A)
<1> DEFINE B == {i + k : i \in A}
           f == [i \in A |-> i + k]
<1>1. f \in Bijection(A, B)
    BY DEF Bijection, Injection, Surjection, IsInjective
<1>2. ExistsBijection(A, B)
    BY <1>1 DEF ExistsBijection
<1> HIDE DEF B
<1>3. QED
    BY <1>2, FS_Bijection DEF B

-----------------------------------------------------------------------------
(* The parser's state *)

\* The queue is what is left of the text, and has no end but its own.
QueueInv ==
    /\ IsSeq(source) /\ IsSeq(queue) /\ Len(queue) <= Len(source)
    /\ \A i \in DOMAIN queue : queue[i].kind # "END"
    /\ skipping \in BOOLEAN /\ depth \in Nat /\ depth + Len(queue) <= Len(source)

\* The root is at the bottom of the stack, and a list points at what was read.
StackInv ==
    /\ IsSeq(rule_stack)
    /\ \A i \in DOMAIN rule_stack : rule_stack[i].expect # "ERROR"
    /\ rule_stack # <<>> => rule_stack[Len(rule_stack)] = Close("ROOT", 0)
    /\ \A i \in Lists : rule_stack[i].at \in 1..Here

\* The tree and the errors are about what was read.
TreeInv ==
    /\ IsSeq(builder) /\ \A i \in Tokens : builder[i].at \in 1..Here
    /\ IsSeq(errors) /\ Reported \subseteq 1..(Len(source) + 1)

ShapeInv == QueueInv /\ StackInv /\ TreeInv

\* The token after the last one read.
LEMMA HereType ==
    ASSUME QueueInv
    PROVE  /\ Here \in Nat /\ Here >= 1 /\ Here <= Len(source) + 1
           /\ queue = <<>> <=> Here = Len(source) + 1
           /\ queue = <<>> <=> cur_token.kind = "END"
<1>1. Len(source) \in Nat /\ Len(queue) \in Nat
    BY SeqFacts DEF QueueInv
<1>2. queue = <<>> <=> Len(queue) = 0
    BY SeqFacts DEF QueueInv
<1>3. queue # <<>> => cur_token = queue[1] /\ 1 \in DOMAIN queue
    BY <1>1, SeqFacts DEF QueueInv, cur_token
<1>4. queue = <<>> <=> cur_token.kind = "END"
    BY <1>3 DEF QueueInv, cur_token, End
<1>5. QED
    BY <1>1, <1>2, <1>4 DEF QueueInv, Here

\* step reads one token, if there is one.
LEMMA StepReads ==
    ASSUME QueueInv, queue' = Step, source' = source
    PROVE  /\ IsSeq(queue') /\ Len(queue') <= Len(queue) /\ \A i \in DOMAIN queue' : queue'[i].kind # "END"
           /\ queue # <<>> => Len(queue') = Len(queue) - 1 /\ Here' = Here + 1
           /\ queue = <<>> => queue' = <<>> /\ Here' = Here
<1>1. Len(source) \in Nat /\ Len(queue) \in Nat
    BY SeqFacts DEF QueueInv
<1>2. CASE queue = <<>>
    BY <1>1, <1>2 DEF Step, QueueInv, Here
<1>3. CASE queue # <<>>
    <2>1. queue' = Tail(queue)
        BY <1>3 DEF Step
    <2>2. IsSeq(queue)
        BY DEF QueueInv
    <2>3. /\ IsSeq(queue') /\ Len(queue') = Len(queue) - 1
          /\ \A i \in 1..(Len(queue) - 1) : queue'[i] = queue[i + 1]
        BY <1>3, <2>1, <2>2, SeqFacts
    <2>4. DOMAIN queue' = 1..(Len(queue) - 1) /\ DOMAIN queue = 1..Len(queue)
        BY <2>2, <2>3, SeqFacts
    <2>5. ASSUME NEW i \in DOMAIN queue'
          PROVE  queue'[i].kind # "END"
        <3>1. i + 1 \in DOMAIN queue /\ queue'[i] = queue[i + 1]
            BY <1>1, <2>3, <2>4, <2>5
        <3>2. QED
            BY <3>1 DEF QueueInv
    <2>6. QED
        BY <1>1, <1>3, <2>3, <2>5 DEF Here
<1>4. QED
    BY <1>2, <1>3

\* What comes of the queue in a step: nothing, a token read, one with another label.
LEMMA QueueStep ==
    ASSUME QueueInv, [Next]_vars
    PROVE  QueueInv' /\ source' = source /\ Here <= Here'
<1>0. /\ Len(source) \in Nat /\ Len(queue) \in Nat /\ Here \in Nat
      /\ IsSeq(source) /\ IsSeq(queue)
    BY HereType, SeqFacts DEF QueueInv
<1>1. source' = source
    BY DEF Next, parse_inner, recover_error, Refuse, CloseNode, EatOutband, Match, Stop, Expand,
       EarlyClose, Rekeyword, MissingClose, Unexpected, synchronize, Done, vars
<1>2. CASE queue' = queue /\ skipping' \in BOOLEAN /\ (depth' = depth \/ depth' = 0)
    BY <1>0, <1>1, <1>2 DEF QueueInv, Here
<1>3. CASE queue' = Step /\ skipping' \in BOOLEAN /\ (depth' = depth \/ depth' = 0)
    <2>1. CASE queue # <<>>
        BY <1>0, <1>1, <1>3, <2>1, StepReads DEF QueueInv
    <2>2. CASE queue = <<>>
        BY <1>0, <1>1, <1>3, <2>2, StepReads DEF QueueInv
    <2>3. QED
        BY <2>1, <2>2
<1>4. CASE synchronize
    <2>1. CASE SyncStops
        BY <1>1, <1>2, <1>4, <2>1 DEF synchronize
    <2>2. CASE ~SyncStops
        <3>1. queue # <<>>
            BY <2>2, HereType DEF SyncStops
        <3>2. queue' = Step /\ skipping' = skipping /\ depth' \in {depth + 1, depth - 1, depth}
              /\ (depth' = depth - 1 => depth > 0)
            BY <1>4, <2>2 DEF synchronize, QueueInv
        <3>3. QED
            BY <1>0, <1>1, <3>1, <3>2, StepReads DEF QueueInv
    <2>3. QED
        BY <2>1, <2>2
<1>5. CASE Rekeyword
    <2>1. cur_token.kind # "END"
        BY <1>5 DEF Rekeyword, At, Branch, MayBeString
    <2>2. queue # <<>>
        BY <2>1, HereType
    <2>3. PICK t : t = AsString(cur_token)
        OBVIOUS
    <2>4. t.kind = "COLON_STRING"
        BY <2>1, <2>3 DEF AsString
    <2>5. QED
        BY <1>0, <1>1, <1>5, <2>2, <2>3, <2>4, SeqFacts, ConcatFacts, Tuples DEF Rekeyword, Relabelled, QueueInv, Here
<1>6. CASE Refuse \/ EatOutband \/ Match \/ EarlyClose \/ Unexpected
    BY <1>3, <1>6 DEF Refuse, EatOutband, Match, EarlyClose, Unexpected, QueueInv
<1>7. CASE CloseNode \/ Stop \/ Expand \/ MissingClose \/ Done \/ UNCHANGED vars
    BY <1>2, <1>7 DEF CloseNode, Stop, Expand, MissingClose, Done, vars, QueueInv
<1>8. QED
    BY <1>4, <1>5, <1>6, <1>7 DEF Next, parse_inner, recover_error

-----------------------------------------------------------------------------
(* The rule stack *)

\* The rule on top, and what is below it.
LEMMA TopFacts ==
    ASSUME StackInv, rule_stack # <<>>
    PROVE  /\ Len(rule_stack) \in Nat /\ Len(rule_stack) >= 1 /\ DOMAIN rule_stack = 1..Len(rule_stack)
           /\ cur_rule = rule_stack[1] /\ 1 \in DOMAIN rule_stack
           /\ IsSeq(Tail(rule_stack)) /\ Len(Tail(rule_stack)) = Len(rule_stack) - 1
           /\ \A i \in 1..(Len(rule_stack) - 1) : Tail(rule_stack)[i] = rule_stack[i + 1]
BY SeqFacts DEF StackInv, cur_rule

\* The n rules on top are popped.
Pops(n) ==
    /\ n \in 0..Len(rule_stack)
    /\ IsSeq(rule_stack') /\ Len(rule_stack') = Len(rule_stack) - n
    /\ \A i \in 1..(Len(rule_stack) - n) : rule_stack'[i] = rule_stack[n + i]

\* skip pops one rule.
LEMMA SkipPops ==
    ASSUME StackInv, rule_stack # <<>>, skip
    PROVE  Pops(1)
BY TopFacts DEF skip, Pops

\* So the closes are those below, moved up.
LEMMA PopsCloses ==
    ASSUME StackInv, NEW n, Pops(n)
    PROVE  /\ Closes' = {i + (-n) : i \in {j \in Closes : j > n}}
           /\ Lists' = {i + (-n) : i \in {j \in Lists : j > n}}
<1>1. /\ Len(rule_stack) \in Nat /\ DOMAIN rule_stack = 1..Len(rule_stack)
      /\ DOMAIN rule_stack' = 1..(Len(rule_stack) - n)
    BY SeqFacts DEF StackInv, Pops
<1>2. ASSUME NEW i \in 1..(Len(rule_stack) - n)
      PROVE  rule_stack'[i] = rule_stack[n + i] /\ n + i \in DOMAIN rule_stack /\ n + i > n
    BY <1>1, <1>2 DEF Pops
<1>3. ASSUME NEW j \in DOMAIN rule_stack, j > n
      PROVE  j - n \in 1..(Len(rule_stack) - n) /\ rule_stack'[j - n] = rule_stack[j]
    <2>1. j - n \in 1..(Len(rule_stack) - n) /\ n + (j - n) = j
        BY <1>1, <1>3 DEF Pops
    <2>2. QED
        BY <1>2, <2>1
<1>4. Closes' = {i + (-n) : i \in {j \in Closes : j > n}}
    <2>1. ASSUME NEW i \in Closes'
          PROVE  n + i \in Closes /\ n + i > n /\ i = (n + i) + (-n)
        BY <1>1, <1>2, <2>1 DEF Closes, Pops
    <2>2. ASSUME NEW j \in Closes, j > n
          PROVE  j + (-n) \in Closes'
        BY <1>1, <1>3, <2>2 DEF Closes, Pops
    <2>3. QED
        BY <2>1, <2>2
<1>5. Lists' = {i + (-n) : i \in {j \in Lists : j > n}}
    <2>1. ASSUME NEW i \in Lists'
          PROVE  n + i \in Lists /\ n + i > n /\ i = (n + i) + (-n)
        BY <1>1, <1>2, <2>1 DEF Closes, Lists, Pops
    <2>2. ASSUME NEW j \in Lists, j > n
          PROVE  j + (-n) \in Lists'
        BY <1>1, <1>3, <2>2 DEF Closes, Lists, Pops
    <2>3. QED
        BY <2>1, <2>2
<1>6. QED
    BY <1>4, <1>5

\* What is left is as it was.
LEMMA PopsKeepsStack ==
    ASSUME QueueInv, StackInv, Here' \in Int, Here <= Here', NEW n, Pops(n)
    PROVE  StackInv'
<1>1. /\ Len(rule_stack) \in Nat /\ DOMAIN rule_stack = 1..Len(rule_stack)
      /\ DOMAIN rule_stack' = 1..(Len(rule_stack) - n)
    BY SeqFacts DEF StackInv, Pops
<1>2. ASSUME NEW i \in 1..(Len(rule_stack) - n)
      PROVE  rule_stack'[i] = rule_stack[n + i] /\ n + i \in DOMAIN rule_stack
    BY <1>1, <1>2 DEF Pops
<1>3. rule_stack' # <<>> => rule_stack'[Len(rule_stack')] = Close("ROOT", 0)
    <2>1. SUFFICES ASSUME rule_stack' # <<>>
                   PROVE  rule_stack'[Len(rule_stack')] = Close("ROOT", 0)
        OBVIOUS
    <2>2. Len(rule_stack') = Len(rule_stack) - n /\ Len(rule_stack) - n \in 1..(Len(rule_stack) - n)
        BY <1>1, <2>1, SeqFacts DEF Pops
    <2>3. n + (Len(rule_stack) - n) = Len(rule_stack)
        BY <1>1 DEF Pops
    <2>4. rule_stack # <<>>
        BY <1>1, <2>2, SeqFacts DEF Pops, StackInv
    <2>5. QED
        BY <1>2, <2>2, <2>3, <2>4 DEF StackInv
<1>4. ASSUME NEW i \in Lists'
      PROVE  rule_stack'[i].at \in 1..Here'
    <2>1. n + i \in Lists /\ rule_stack'[i] = rule_stack[n + i]
        BY <1>1, <1>2, <1>4 DEF Closes, Lists, Pops
    <2>2. QED
        BY <2>1, HereType DEF StackInv
<1>5. QED
    BY <1>1, <1>2, <1>3, <1>4 DEF StackInv, Pops

\* Where find_close finds a list of a kind, it is on the stack, and not the root.
LEMMA FindCloseFinds ==
    ASSUME StackInv, NEW n, n = find_close(rule_stack, Closed), n # 0
    PROVE  n \in Closes /\ n < Len(rule_stack)
<1> DEFINE open == {i \in DOMAIN rule_stack : IsClose(rule_stack[i]) /\ rule_stack[i].expect \in Closed}
<1>1. open # {} /\ n = First(open)
    BY DEF find_close
<1>2. Len(rule_stack) \in Nat /\ DOMAIN rule_stack = 1..Len(rule_stack)
    BY SeqFacts DEF StackInv
<1>3. open \in SUBSET Nat
    BY <1>2
<1>4. n \in open
    <2> HIDE DEF open
    <2>1. QED
        BY <1>1, <1>3, LeastExists DEF First
<1>5. rule_stack # <<>>
    BY <1>2, <1>4, SeqFacts DEF StackInv
<1>6. n # Len(rule_stack)
    <2>1. Close("ROOT", 0).expect = "ROOT"
        BY DEF Close, Rule
    <2>2. "ROOT" \notin Closed
        BY DEF Closed, LIST, KV_TABLE, TABLE
    <2>3. QED
        BY <1>4, <1>5, <2>1, <2>2 DEF StackInv
<1>7. QED
    BY <1>2, <1>4, <1>6 DEF Closes

\* early_close pops down to what it finds.
LEMMA EarlyClosePops ==
    ASSUME StackInv, EarlyClose
    PROVE  /\ find_close(rule_stack, Closed) \in Closes
           /\ Pops(find_close(rule_stack, Closed))
<1>1. PICK n : n = find_close(rule_stack, Closed)
    OBVIOUS
<1>2. n # 0
    BY <1>1 DEF EarlyClose, At, Branch
<1>3. n \in Closes /\ n < Len(rule_stack) /\ rule_stack' = Below(n)
    BY <1>1, <1>2, FindCloseFinds DEF EarlyClose
<1>4. IsSeq(rule_stack) /\ Len(rule_stack) \in Nat /\ DOMAIN rule_stack = 1..Len(rule_stack)
    BY SeqFacts DEF StackInv
<1>5. n \in 0..Len(rule_stack)
    BY <1>3, <1>4 DEF Closes
<1>6. Pops(n)
    BY <1>3, <1>4, <1>5, SuffixFacts DEF Below, Pops
<1>7. QED
    BY <1>1, <1>3, <1>6

\* missing_close pops all.
LEMMA MissingClosePops ==
    ASSUME StackInv, MissingClose
    PROVE  Pops(Len(rule_stack))
<1>1. rule_stack' = <<>> /\ IsSeq(rule_stack') /\ Len(rule_stack) \in Nat
    BY SeqFacts, Tuples DEF MissingClose, StackInv
<1>2. QED
    BY <1>1 DEF Pops

\* An expansion is a nonempty sequence of plain rules.
LEMMA ClauseFacts ==
    ASSUME NEW p, IsClause(p)
    PROVE  IsSeq(p) /\ p # <<>> /\ \A i \in DOMAIN p : IsPlain(p[i])
<1>1. CASE p # <<>> /\ Inner(p)
    BY <1>1 DEF Inner, IsInner
<1>2. ASSUME NEW o \in DOMAIN Closing, NEW inner, Inner(inner),
             p = <<One(o)>> \o inner \o <<One(Closing[o])>>
      PROVE  IsSeq(p) /\ p # <<>> /\ \A i \in DOMAIN p : IsPlain(p[i])
    <2>1. PICK first, last : first = One(o) /\ last = One(Closing[o])
        OBVIOUS
    <2>2. IsPlain(first) /\ IsPlain(last)
        BY <2>1 DEF IsPlain, One, Rule, Closing
    <2>3. /\ IsSeq(<<first>>) /\ Len(<<first>>) = 1 /\ <<first>>[1] = first
          /\ IsSeq(<<last>>) /\ Len(<<last>>) = 1 /\ <<last>>[1] = last
        BY Tuples
    <2>4. IsSeq(inner) /\ Len(inner) \in Nat /\ \A i \in 1..Len(inner) : IsPlain(inner[i])
        BY <1>2, SeqFacts DEF Inner, IsInner
    <2>5. PICK q : q = <<first>> \o inner
        OBVIOUS
    <2>6. IsSeq(q) /\ Len(q) = 1 + Len(inner) /\ \A i \in 1..Len(q) : IsPlain(q[i])
        <3>1. /\ IsSeq(q) /\ Len(q) = 1 + Len(inner) /\ \A i \in 1..1 : q[i] = <<first>>[i]
              /\ \A i \in 1..Len(inner) : q[1 + i] = inner[i]
            BY <2>3, <2>4, <2>5, ConcatFacts
        <3>2. ASSUME NEW i \in 1..Len(q)
              PROVE  IsPlain(q[i])
            <4>1. CASE i = 1
                BY <2>2, <2>3, <3>1, <4>1
            <4>2. CASE i # 1
                <5>1. i - 1 \in 1..Len(inner) /\ 1 + (i - 1) = i
                    BY <2>4, <3>1, <4>2
                <5>2. QED
                    BY <2>4, <3>1, <5>1
            <4>3. QED
                BY <4>1, <4>2
        <3>3. QED
            BY <3>1, <3>2
    <2>7. p = q \o <<last>>
        BY <1>2, <2>1, <2>5
    <2>8. /\ IsSeq(p) /\ Len(p) = Len(q) + 1 /\ \A i \in 1..Len(q) : p[i] = q[i]
          /\ p[Len(q) + 1] = last
        BY <2>3, <2>6, <2>7, ConcatFacts
    <2>9. DOMAIN p = 1..Len(p) /\ Len(p) # 0 /\ p # <<>>
        BY <2>4, <2>6, <2>8, SeqFacts
    <2>10. ASSUME NEW i \in DOMAIN p
           PROVE  IsPlain(p[i])
        BY <2>2, <2>4, <2>6, <2>8, <2>9
    <2>11. QED
        BY <2>8, <2>9, <2>10
<1>3. QED
    BY <1>1, <1>2 DEF IsClause

\* The top gives way to e plain rules, a close and r rules that remain of it.
Pushes(e, r, at) ==
    /\ e \in Nat /\ r \in {0, 1} /\ IsSeq(rule_stack') /\ Len(rule_stack') = Len(rule_stack) + (e + r)
    /\ e = Len(Expansion) /\ \A i \in 1..e : rule_stack'[i] = Expansion[i] /\ IsPlain(rule_stack'[i])
    /\ rule_stack'[e + 1] = Close(cur_rule.expect, at)
    /\ r = 1 => IsPlain(rule_stack'[e + 2]) /\ rule_stack'[e + 2].expect = cur_rule.expect
    /\ \A i \in 2..Len(rule_stack) : rule_stack'[i + (e + r)] = rule_stack[i]

\* That is what an expansion does.
LEMMA ExpandPushes ==
    ASSUME StackInv, Expand
    PROVE  /\ ~IsClose(cur_rule)
           /\ \E e, r : Pushes(e, r, IF Head(Expansion).expect \in L_DELIMITERS THEN Here ELSE 0)
<1>1. rule_stack # <<>> /\ ~IsClose(cur_rule) /\ Expansion # <<>>
    BY DEF Expand, At, Branch
<1>2. PICK at : at = IF Head(Expansion).expect \in L_DELIMITERS THEN Here ELSE 0
    OBVIOUS
<1>3. PICK p, m, t : p = Expansion /\ m = Remaining(cur_rule) /\ t = Tail(rule_stack)
    OBVIOUS
<1>4. PICK c : c = Close(cur_rule.expect, at)
    OBVIOUS
<1>5. rule_stack' = ((p \o <<c>>) \o m) \o t
    BY <1>2, <1>3, <1>4 DEF Expand
<1>6. /\ IsSeq(p) /\ Len(p) \in Nat /\ \A i \in 1..Len(p) : IsPlain(p[i])
    BY <1>1, <1>3, ExpansionIsClause, ClauseFacts, SeqFacts
<1>7. IsSeq(<<c>>) /\ Len(<<c>>) = 1 /\ <<c>>[1] = c
    BY Tuples
<1>8. IsSeq(m) /\ Len(m) \in {0, 1} /\ (Len(m) = 1 => IsPlain(m[1]) /\ m[1].expect = cur_rule.expect)
    <2>1. cur_rule.expect # "ERROR"
        BY <1>1, TopFacts DEF StackInv
    <2>2. \/ m = <<>>
          \/ m = <<Rule(cur_rule.expect, "Repeat", cur_rule.ends, {})>>
          \/ m = <<Rule(cur_rule.expect, "RepeatPeek", cur_rule.ends, cur_rule.follows)>>
        BY <1>3 DEF Remaining
    <2>3. \/ m = <<>>
          \/ \E x : m = <<x>> /\ IsPlain(x) /\ x.expect = cur_rule.expect
        BY <2>1, <2>2 DEF IsPlain, Rule
    <2>4. QED
        BY <2>3, Tuples
<1>9. IsSeq(t) /\ Len(t) = Len(rule_stack) - 1 /\ Len(rule_stack) \in Nat
      /\ \A i \in 1..(Len(rule_stack) - 1) : t[i] = rule_stack[i + 1]
    BY <1>1, <1>3, TopFacts
<1>10. PICK q : q = p \o <<c>>
    OBVIOUS
<1>11. /\ IsSeq(q) /\ Len(q) = Len(p) + 1 /\ \A i \in 1..Len(p) : q[i] = p[i]
       /\ q[Len(p) + 1] = c
    BY <1>6, <1>7, <1>10, ConcatFacts
<1>12. PICK u : u = q \o m
    OBVIOUS
<1>13. /\ IsSeq(u) /\ Len(u) = Len(p) + 1 + Len(m) /\ \A i \in 1..(Len(p) + 1) : u[i] = q[i]
       /\ \A i \in 1..Len(m) : u[Len(p) + 1 + i] = m[i]
    BY <1>8, <1>11, <1>12, ConcatFacts
<1>14. rule_stack' = u \o t
    BY <1>5, <1>10, <1>12
<1>15. /\ IsSeq(rule_stack') /\ Len(rule_stack') = Len(u) + Len(t)
       /\ \A i \in 1..Len(u) : rule_stack'[i] = u[i]
       /\ \A i \in 1..Len(t) : rule_stack'[Len(u) + i] = t[i]
    <2>1. PICK w : w = u \o t
        OBVIOUS
    <2>2. /\ IsSeq(w) /\ Len(w) = Len(u) + Len(t)
          /\ \A i \in 1..Len(u) : w[i] = u[i]
          /\ \A i \in 1..Len(t) : w[Len(u) + i] = t[i]
        <3>1. IsSeq(u) /\ IsSeq(t)
            BY <1>9, <1>13
        <3>2. QED
            BY <2>1, <3>1, ConcatFacts
    <2>3. rule_stack' = w
        BY <1>14, <2>1
    <2>4. QED
        BY <2>2, <2>3
<1>16. Len(rule_stack') = Len(rule_stack) + (Len(p) + Len(m))
    BY <1>6, <1>8, <1>9, <1>13, <1>15
<1>17. ASSUME NEW i \in 1..Len(p)
       PROVE  rule_stack'[i] = p[i] /\ IsPlain(rule_stack'[i])
    <2>1. rule_stack'[i] = p[i]
        BY <1>6, <1>8, <1>11, <1>13, <1>15
    <2>2. QED
        BY <1>6, <2>1
<1>18. rule_stack'[Len(p) + 1] = c
    BY <1>6, <1>8, <1>11, <1>13, <1>15
<1>19. ASSUME Len(m) = 1
       PROVE  IsPlain(rule_stack'[Len(p) + 2]) /\ rule_stack'[Len(p) + 2].expect = cur_rule.expect
    <2>1. u[Len(p) + 1 + 1] = m[1] /\ Len(u) = Len(p) + 2
        BY <1>6, <1>13, <1>19
    <2>2. rule_stack'[Len(p) + 2] = m[1]
        BY <1>6, <1>15, <2>1
    <2>3. QED
        BY <1>8, <1>19, <2>2
<1>20. ASSUME NEW i \in 2..Len(rule_stack)
       PROVE  rule_stack'[i + (Len(p) + Len(m))] = rule_stack[i]
    <2>1. i - 1 \in 1..Len(t) /\ t[i - 1] = rule_stack[i]
        BY <1>9
    <2>2. Len(u) + (i - 1) = i + (Len(p) + Len(m))
        BY <1>6, <1>8, <1>9, <1>13
    <2>3. QED
        BY <1>15, <2>1, <2>2
<1>21. Pushes(Len(p), Len(m), at)
    BY <1>3, <1>4, <1>6, <1>8, <1>15, <1>16, <1>17, <1>18, <1>19, <1>20 DEF Pushes
<1>22. QED
    BY <1>1, <1>2, <1>21

\* So the closes move down, below the new one.
LEMMA PushesCloses ==
    ASSUME StackInv, rule_stack # <<>>, ~IsClose(cur_rule), NEW e, NEW r, NEW at, Pushes(e, r, at)
    PROVE  /\ Closes' = {i + (e + r) : i \in Closes} \cup {e + 1}
           /\ Lists' = {i + (e + r) : i \in Lists} \cup (IF at # 0 THEN {e + 1} ELSE {})
           /\ rule_stack'[e + 1].at = at
           /\ \A i \in Closes : i >= 2
<1>1. /\ Len(rule_stack) \in Nat /\ Len(rule_stack) >= 1 /\ DOMAIN rule_stack = 1..Len(rule_stack)
      /\ DOMAIN rule_stack' = 1..(Len(rule_stack) + (e + r)) /\ cur_rule = rule_stack[1]
      /\ e \in Nat /\ r \in {0, 1}
    BY TopFacts, SeqFacts DEF Pushes
<1>2. IsClose(rule_stack'[e + 1]) /\ rule_stack'[e + 1].at = at
    BY DEF Pushes, IsClose, Close, Rule
<1>3. ASSUME NEW i \in DOMAIN rule_stack', i <= e \/ (r = 1 /\ i = e + 2)
      PROVE  ~IsClose(rule_stack'[i])
    <2>1. IsPlain(rule_stack'[i])
        BY <1>1, <1>3 DEF Pushes
    <2>2. QED
        BY <2>1 DEF IsPlain, IsClose
<1>4. ASSUME NEW i \in 2..Len(rule_stack)
      PROVE  /\ i + (e + r) \in DOMAIN rule_stack' /\ i \in DOMAIN rule_stack
             /\ rule_stack'[i + (e + r)] = rule_stack[i]
    BY <1>1 DEF Pushes
<1>5. ASSUME NEW i \in Closes
      PROVE  i \in 2..Len(rule_stack)
    <2>1. i # 1
        BY <1>1, <1>5 DEF Closes
    <2>2. QED
        BY <1>1, <2>1 DEF Closes
<1>6. ASSUME NEW j \in DOMAIN rule_stack', IsClose(rule_stack'[j]), j # e + 1
      PROVE  /\ j - (e + r) \in 2..Len(rule_stack) /\ j = (j - (e + r)) + (e + r)
             /\ rule_stack'[j] = rule_stack[j - (e + r)]
    <2>1. j > e + 1 + r
        BY <1>1, <1>3, <1>6
    <2>2. j - (e + r) \in 2..Len(rule_stack) /\ j = (j - (e + r)) + (e + r)
        BY <1>1, <2>1
    <2>3. QED
        BY <1>4, <2>2
<1>7. Closes' = {i + (e + r) : i \in Closes} \cup {e + 1}
    <2>1. ASSUME NEW j \in Closes', j # e + 1
          PROVE  j - (e + r) \in Closes /\ j = (j - (e + r)) + (e + r)
        BY <1>4, <1>6, <2>1 DEF Closes
    <2>2. ASSUME NEW i \in Closes
          PROVE  i + (e + r) \in Closes'
        BY <1>4, <1>5, <2>2 DEF Closes
    <2>3. e + 1 \in Closes'
        BY <1>1, <1>2 DEF Closes
    <2>4. QED
        BY <2>1, <2>2, <2>3
<1>8. Lists' = {i + (e + r) : i \in Lists} \cup (IF at # 0 THEN {e + 1} ELSE {})
    <2>1. ASSUME NEW j \in Lists', j # e + 1
          PROVE  j - (e + r) \in Lists /\ j = (j - (e + r)) + (e + r)
        BY <1>4, <1>6, <2>1 DEF Closes, Lists
    <2>2. ASSUME NEW i \in Lists
          PROVE  i + (e + r) \in Lists'
        BY <1>4, <1>5, <2>2 DEF Closes, Lists
    <2>3. e + 1 \in Lists' <=> at # 0
        BY <1>1, <1>2 DEF Closes, Lists
    <2>4. QED
        BY <2>1, <2>2, <2>3
<1>9. QED
    BY <1>2, <1>5, <1>7, <1>8

\* The shape of the stack is kept.
LEMMA PushesKeepsStack ==
    ASSUME QueueInv, StackInv, rule_stack # <<>>, ~IsClose(cur_rule), Here' = Here,
           NEW e, NEW r, NEW at \in {0, Here}, Pushes(e, r, at)
    PROVE  StackInv'
<1>1. /\ Len(rule_stack) \in Nat /\ Len(rule_stack) >= 1 /\ DOMAIN rule_stack = 1..Len(rule_stack)
      /\ DOMAIN rule_stack' = 1..(Len(rule_stack) + (e + r)) /\ cur_rule = rule_stack[1]
      /\ IsSeq(rule_stack') /\ e \in Nat /\ r \in {0, 1}
    BY TopFacts, SeqFacts DEF Pushes
<1>2. ASSUME NEW i \in 2..Len(rule_stack)
      PROVE  rule_stack'[i + (e + r)] = rule_stack[i]
    BY DEF Pushes
<1>3. ASSUME NEW i \in DOMAIN rule_stack'
      PROVE  rule_stack'[i].expect # "ERROR"
    <2>1. CASE i <= e \/ (r = 1 /\ i = e + 2)
        <3>1. IsPlain(rule_stack'[i])
            BY <1>1, <1>3, <2>1 DEF Pushes
        <3>2. QED
            BY <3>1 DEF IsPlain
    <2>2. CASE i = e + 1
        <3>1. rule_stack'[i].expect = cur_rule.expect
            BY <2>2 DEF Pushes, Close, Rule
        <3>2. QED
            BY <1>1, <3>1 DEF StackInv
    <2>3. CASE i > e + 1 + r
        <3>1. i - (e + r) \in 2..Len(rule_stack) /\ i = (i - (e + r)) + (e + r)
            BY <1>1, <2>3
        <3>2. QED
            BY <1>1, <1>2, <3>1 DEF StackInv
    <2>4. QED
        BY <1>1, <2>1, <2>2, <2>3
<1>4. rule_stack'[Len(rule_stack')] = Close("ROOT", 0)
    <2>1. Len(rule_stack) # 1
        <3>1. cur_rule # Close("ROOT", 0)
            BY DEF IsClose, Close, Rule
        <3>2. QED
            BY <1>1, <3>1 DEF StackInv
    <2>2. Len(rule_stack) \in 2..Len(rule_stack) /\ Len(rule_stack') = Len(rule_stack) + (e + r)
        BY <1>1, <2>1 DEF Pushes
    <2>3. QED
        BY <1>2, <2>2 DEF StackInv
<1>5. ASSUME NEW i \in Lists'
      PROVE  rule_stack'[i].at \in 1..Here'
    <2>1. CASE i = e + 1
        <3>1. at # 0 /\ rule_stack'[i].at = at
            <4>1. rule_stack'[i].at = at
                BY <2>1, PushesCloses
            <4>2. QED
                BY <1>5, <4>1 DEF Lists
        <3>2. QED
            BY <3>1, HereType
    <2>2. CASE i # e + 1
        <3>1. PICK j \in Lists : i = j + (e + r)
            BY <1>5, <2>2, PushesCloses
        <3>2. j \in 2..Len(rule_stack)
            BY <1>1, PushesCloses DEF Lists, Closes
        <3>3. QED
            BY <1>2, <3>1, <3>2 DEF StackInv
    <2>3. QED
        BY <2>1, <2>2
<1>6. QED
    BY <1>1, <1>3, <1>4, <1>5 DEF StackInv

\* The stack keeps its shape.
LEMMA StackStep ==
    ASSUME QueueInv, StackInv, [Next]_vars
    PROVE  StackInv'
<1>1. Here' \in Int /\ Here <= Here'
    <2>1. Here <= Here' /\ Len(source') \in Nat /\ Len(queue') \in Nat
        BY QueueStep, SeqFacts DEF QueueInv
    <2>2. QED
        BY <2>1 DEF Here
<1>2. CASE CloseNode \/ Match \/ Stop
    <2>1. Pops(1)
        BY <1>2, SkipPops DEF CloseNode, Match, Stop, At
    <2>2. QED
        BY <1>1, <2>1, PopsKeepsStack
<1>3. CASE EarlyClose
    BY <1>1, <1>3, EarlyClosePops, PopsKeepsStack
<1>4. CASE MissingClose
    BY <1>1, <1>4, MissingClosePops, PopsKeepsStack
<1>5. CASE Expand
    <2>1. PICK at : at = IF Head(Expansion).expect \in L_DELIMITERS THEN Here ELSE 0
        OBVIOUS
    <2>2. rule_stack # <<>> /\ Here' = Here
        BY <1>5 DEF Expand, At, Here
    <2>3. PICK e, r : Pushes(e, r, at)
        BY <1>5, <2>1, ExpandPushes
    <2>4. ~IsClose(cur_rule) /\ at \in {0, Here}
        BY <1>5, <2>1, ExpandPushes
    <2>5. QED
        BY <2>2, <2>3, <2>4, PushesKeepsStack
<1>6. CASE rule_stack' = rule_stack
    <2>1. Lists' = Lists
        BY <1>6 DEF Lists, Closes
    <2>2. QED
        BY <1>1, <1>6, <2>1, HereType DEF StackInv
<1>7. CASE Refuse \/ EatOutband \/ Rekeyword \/ Unexpected \/ synchronize \/ Done \/ UNCHANGED vars
    BY <1>6, <1>7 DEF Refuse, EatOutband, Rekeyword, Unexpected, synchronize, Done, vars
<1>8. QED
    BY <1>2, <1>3, <1>4, <1>5, <1>7 DEF Next, parse_inner, recover_error

-----------------------------------------------------------------------------
(* The calls made to the builder *)

\* The calls of a kind, and how many.
Made(calls, event) == {i \in DOMAIN calls : calls[i].event = event}
Count(calls, event) == Cardinality(Made(calls, event))

\* The tokens among some calls all have the place at.
TokensAt(calls, at) == \A i \in Made(calls, "token") : calls[i].at = at

\* There are finitely many positions in a sequence.
LEMMA PositionsAreFinite ==
    ASSUME NEW s, IsSeq(s), NEW A \in SUBSET DOMAIN s
    PROVE  IsFiniteSet(A) /\ Cardinality(A) \in Nat /\ A \in SUBSET Int
<1>1. Len(s) \in Nat /\ DOMAIN s = 1..Len(s)
    BY SeqFacts
<1>2. IsFiniteSet(1..Len(s))
    BY <1>1, FS_Interval
<1>3. IsFiniteSet(A)
    BY <1>1, <1>2, FS_Subset
<1>4. QED
    BY <1>1, <1>3, FS_CardinalityType

\* Disjoint sets are counted apart.
LEMMA DisjointCount ==
    ASSUME NEW A, NEW B, IsFiniteSet(A), IsFiniteSet(B), A \cap B = {}
    PROVE  Cardinality(A \cup B) = Cardinality(A) + Cardinality(B)
<1>1. Cardinality(A \cap B) = 0
    BY FS_EmptySet
<1>2. Cardinality(A \cup B) = Cardinality(A) + Cardinality(B) - Cardinality(A \cap B)
    BY FS_Union
<1>3. Cardinality(A) \in Nat /\ Cardinality(B) \in Nat
    BY FS_CardinalityType
<1>4. QED
    BY <1>1, <1>2, <1>3

\* Calls made after others.
LEMMA MadeJoin ==
    ASSUME NEW s, NEW t, IsSeq(s), IsSeq(t), NEW event
    PROVE  /\ Made(s \o t, event) = Made(s, event) \cup {i + Len(s) : i \in Made(t, event)}
           /\ Count(s \o t, event) = Count(s, event) + Count(t, event)
           /\ Count(s, event) \in Nat /\ Count(t, event) \in Nat
<1>1. /\ Len(s) \in Nat /\ DOMAIN s = 1..Len(s) /\ Len(t) \in Nat /\ DOMAIN t = 1..Len(t)
    BY SeqFacts
<1>2. PICK w : w = s \o t
    OBVIOUS
<1>3. /\ IsSeq(w) /\ DOMAIN w = 1..(Len(s) + Len(t))
      /\ \A i \in 1..Len(s) : w[i] = s[i]
      /\ \A i \in 1..Len(t) : w[Len(s) + i] = t[i]
    BY <1>1, <1>2, ConcatFacts, SeqFacts
<1> DEFINE later == {i + Len(s) : i \in Made(t, event)}
<1>4. Made(w, event) = Made(s, event) \cup later
    <2>1. ASSUME NEW i \in Made(s, event)
          PROVE  i \in Made(w, event)
        BY <1>1, <1>3, <2>1 DEF Made
    <2>2. ASSUME NEW i \in Made(t, event)
          PROVE  i + Len(s) \in Made(w, event)
        <3>1. i \in 1..Len(t) /\ t[i].event = event
            BY <1>1, <2>2 DEF Made
        <3>2. i + Len(s) = Len(s) + i /\ i + Len(s) \in DOMAIN w
            BY <1>1, <1>3, <3>1
        <3>3. QED
            BY <1>3, <3>1, <3>2 DEF Made
    <2>3. ASSUME NEW i \in Made(w, event), i \notin Made(s, event)
          PROVE  i \in later
        <3>1. i > Len(s)
            BY <1>1, <1>3, <2>3 DEF Made
        <3>2. i - Len(s) \in 1..Len(t) /\ i = Len(s) + (i - Len(s)) /\ i = (i - Len(s)) + Len(s)
            BY <1>1, <1>3, <2>3, <3>1 DEF Made
        <3>3. i - Len(s) \in Made(t, event)
            BY <1>1, <1>3, <2>3, <3>2 DEF Made
        <3>4. QED
            BY <3>2, <3>3
    <2>4. QED
        BY <2>1, <2>2, <2>3
<1>5. Made(s, event) \in SUBSET (1..Len(s)) /\ Made(t, event) \in SUBSET (1..Len(t))
    BY <1>1 DEF Made
<1>6. /\ IsFiniteSet(Made(s, event)) /\ Count(s, event) \in Nat
      /\ IsFiniteSet(Made(t, event)) /\ Count(t, event) \in Nat
    BY PositionsAreFinite DEF Made, Count
<1>7. IsFiniteSet(later) /\ Cardinality(later) = Count(t, event)
    <2>1. PICK A, k : A = Made(t, event) /\ k = Len(s)
        OBVIOUS
    <2>2. A \in SUBSET Int /\ IsFiniteSet(A) /\ k \in Int
        BY <1>1, <1>5, <1>6, <2>1
    <2>3. IsFiniteSet({i + k : i \in A}) /\ Cardinality({i + k : i \in A}) = Cardinality(A)
        BY <2>2, MovedAlong
    <2>4. QED
        BY <2>1, <2>3 DEF Count
<1>8. Made(s, event) \cap later = {}
    BY <1>1, <1>5
<1>9. Cardinality(Made(s, event) \cup later) = Count(s, event) + Count(t, event)
    <2> HIDE DEF later
    <2>1. QED
        BY <1>6, <1>7, <1>8, DisjointCount DEF Count
<1>10. QED
    BY <1>2, <1>4, <1>6, <1>9 DEF Count

\* So a token stays the token it was.
LEMMA TokenStays ==
    ASSUME NEW s, NEW t, IsSeq(s), IsSeq(t), NEW i \in Made(s, "token"), NEW w, w = s \o t
    PROVE  i \in Made(w, "token") /\ w[i] = s[i]
<1>1. Len(s) \in Nat /\ DOMAIN s = 1..Len(s) /\ i \in DOMAIN s
    BY SeqFacts DEF Made
<1>2. w[i] = s[i] /\ i \in Made(w, "token")
    BY <1>1, ConcatFacts, MadeJoin
<1>3. QED
    BY <1>2

\* A new one comes after.
LEMMA TokenComes ==
    ASSUME NEW s, NEW t, IsSeq(s), IsSeq(t), NEW i \in Made(t, "token"), NEW w, w = s \o t
    PROVE  Len(s) + i \in Made(w, "token") /\ w[Len(s) + i] = t[i]
<1>1. Len(s) \in Nat /\ Len(t) \in Nat /\ DOMAIN t = 1..Len(t) /\ i \in DOMAIN t
    BY SeqFacts DEF Made
<1>2. w[Len(s) + i] = t[i] /\ i + Len(s) \in Made(w, "token") /\ i + Len(s) = Len(s) + i
    BY <1>1, ConcatFacts, MadeJoin
<1>3. QED
    BY <1>2

\* And there are no others.
LEMMA TokensJoin ==
    ASSUME NEW s, NEW t, IsSeq(s), IsSeq(t), NEW i \in Made(s \o t, "token")
    PROVE  \/ i \in Made(s, "token") /\ (s \o t)[i] = s[i] /\ i <= Len(s)
           \/ /\ i - Len(s) \in Made(t, "token") /\ (s \o t)[i] = t[i - Len(s)]
              /\ i > Len(s)
<1>1. /\ Len(s) \in Nat /\ DOMAIN s = 1..Len(s) /\ Len(t) \in Nat /\ DOMAIN t = 1..Len(t)
    BY SeqFacts
<1>2. PICK w : w = s \o t
    OBVIOUS
<1>3. /\ \A j \in 1..Len(s) : w[j] = s[j]
      /\ \A j \in 1..Len(t) : w[Len(s) + j] = t[j]
      /\ Made(w, "token") = Made(s, "token") \cup {j + Len(s) : j \in Made(t, "token")}
    BY <1>2, ConcatFacts, MadeJoin
<1>4. Made(s, "token") \subseteq 1..Len(s) /\ Made(t, "token") \subseteq 1..Len(t)
    BY <1>1 DEF Made
<1>5. CASE i \in Made(s, "token")
    BY <1>1, <1>2, <1>3, <1>4, <1>5
<1>6. CASE i \notin Made(s, "token")
    <2>1. i \in Made(w, "token")
        BY <1>2
    <2>2. PICK k \in Made(t, "token") : i = k + Len(s)
        BY <1>3, <1>6, <2>1
    <2>3. k \in 1..Len(t)
        BY <1>4, <2>2
    <2>4. i - Len(s) = k /\ i > Len(s) /\ w[i] = t[k]
        BY <1>1, <1>3, <2>2, <2>3
    <2>5. QED
        BY <1>2, <2>2, <2>4
<1>7. QED
    BY <1>5, <1>6

\* The calls the parser makes at once.
LEMMA Calling ==
    /\ \A event : Made(<<>>, event) = {}
    /\ \A kind : /\ IsSeq(token(kind)) /\ Len(token(kind)) = 1
                 /\ token(kind)[1].kind = kind /\ token(kind)[1].at = Here
                 /\ Made(token(kind), "token") = {1}
                 /\ Made(token(kind), "start") = {} /\ Made(token(kind), "finish") = {}
    /\ \A kind : /\ IsSeq(start_node(kind)) /\ Len(start_node(kind)) = 1
                 /\ Made(start_node(kind), "token") = {}
                 /\ Made(start_node(kind), "start") = {1} /\ Made(start_node(kind), "finish") = {}
    /\ \A n \in Nat : /\ IsSeq(finish_nodes(n)) /\ Len(finish_nodes(n)) = n
                      /\ Made(finish_nodes(n), "token") = {} /\ Made(finish_nodes(n), "start") = {}
                      /\ Made(finish_nodes(n), "finish") = 1..n
<1>1. \A event : Made(<<>>, event) = {}
    BY DEF Made
<1>2. ASSUME NEW a
      PROVE  /\ IsSeq(<<a>>) /\ Len(<<a>>) = 1 /\ DOMAIN <<a>> = {1} /\ <<a>>[1] = a
             /\ \A event : Made(<<a>>, event) = IF a.event = event THEN {1} ELSE {}
    <2>1. IsSeq(<<a>>) /\ Len(<<a>>) = 1 /\ DOMAIN <<a>> = {1} /\ <<a>>[1] = a
        BY Tuples
    <2>2. QED
        BY <2>1 DEF Made
<1>3. ASSUME NEW kind
      PROVE  /\ IsSeq(token(kind)) /\ Len(token(kind)) = 1
             /\ token(kind)[1].kind = kind /\ token(kind)[1].at = Here
             /\ Made(token(kind), "token") = {1}
             /\ Made(token(kind), "start") = {} /\ Made(token(kind), "finish") = {}
    <2>1. PICK a : a = [event |-> "token", kind |-> kind, at |-> Here]
        OBVIOUS
    <2>2. token(kind) = <<a>> /\ a.event = "token" /\ a.kind = kind /\ a.at = Here
        BY <2>1 DEF token
    <2>3. QED
        BY <1>2, <2>2
<1>4. ASSUME NEW kind
      PROVE  /\ IsSeq(start_node(kind)) /\ Len(start_node(kind)) = 1
             /\ Made(start_node(kind), "token") = {}
             /\ Made(start_node(kind), "start") = {1} /\ Made(start_node(kind), "finish") = {}
    <2>1. PICK a : a = [event |-> "start", kind |-> kind, at |-> 0]
        OBVIOUS
    <2>2. start_node(kind) = <<a>> /\ a.event = "start"
        BY <2>1 DEF start_node
    <2>3. QED
        BY <1>2, <2>2
<1>5. ASSUME NEW n \in Nat
      PROVE  /\ IsSeq(finish_nodes(n)) /\ Len(finish_nodes(n)) = n
             /\ Made(finish_nodes(n), "token") = {} /\ Made(finish_nodes(n), "start") = {}
             /\ Made(finish_nodes(n), "finish") = 1..n
    <2>1. PICK a : a = [event |-> "finish", kind |-> "", at |-> 0]
        OBVIOUS
    <2>2. IsSeq(finish_nodes(n)) /\ Len(finish_nodes(n)) = n
        <3>1. finish_nodes(n) = [i \in 1..n |-> a]
            BY <2>1 DEF finish_nodes
        <3>2. finish_nodes(n) \in Seq({a}) /\ Len(finish_nodes(n)) = n
            BY <3>1
        <3>3. QED
            BY <3>2 DEF IsSeq
    <2>3. DOMAIN finish_nodes(n) = 1..n /\ \A i \in 1..n : finish_nodes(n)[i].event = "finish"
        BY DEF finish_nodes
    <2>4. QED
        BY <2>2, <2>3 DEF Made
<1>6. QED
    BY <1>1, <1>3, <1>4, <1>5

\* The step makes the calls c: so many nodes begun, so many ended, and tokens
\* only of the place the parser is at.
Makes(c, starts, finishes) ==
    /\ IsSeq(c) /\ builder' = builder \o c /\ TokensAt(c, Here)
    /\ Count(c, "start") = starts /\ Count(c, "finish") = finishes

\* The closes among the top n rules are finitely many.
LEMMA PoppedFacts ==
    ASSUME StackInv, NEW n
    PROVE  /\ IsFiniteSet(Closes) /\ Cardinality(Closes) \in Nat /\ Closes \in SUBSET Nat
           /\ IsFiniteSet(Lists) /\ Cardinality(Lists) \in Nat /\ Lists \in SUBSET Closes
           /\ IsFiniteSet(Popped(n)) /\ Cardinality(Popped(n)) \in Nat /\ Popped(n) \in SUBSET Closes
<1>1. /\ Closes \in SUBSET DOMAIN rule_stack /\ Lists \in SUBSET DOMAIN rule_stack
      /\ Popped(n) \in SUBSET DOMAIN rule_stack /\ Lists \in SUBSET Closes /\ Popped(n) \in SUBSET Closes
    BY DEF Closes, Lists, Popped
<1>2. IsSeq(rule_stack) /\ DOMAIN rule_stack = 1..Len(rule_stack)
    BY SeqFacts DEF StackInv
<1>3. QED
    BY <1>1, <1>2, PositionsAreFinite

\* An expansion begins a node.
LEMMA ExpandMakes ==
    ASSUME ShapeInv, Expand
    PROVE  \E c : Makes(c, 1, 0)
<1>1. PICK c : c = start_node(cur_rule.expect)
    OBVIOUS
<1>2. /\ IsSeq(c) /\ TokensAt(c, Here)
      /\ Made(c, "start") = {1} /\ Made(c, "finish") = {}
    BY <1>1, Calling DEF TokensAt
<1>3. Count(c, "start") = 1 /\ Count(c, "finish") = 0
    BY <1>2, FS_Singleton, FS_EmptySet DEF Count
<1>4. QED
    BY <1>1, <1>2, <1>3 DEF Expand, Makes

\* The end of one is that of n nodes, with n = 1.
LEMMA FinishesMake ==
    ASSUME NEW n \in Nat
    PROVE  /\ IsSeq(finish_nodes(n)) /\ TokensAt(finish_nodes(n), Here)
           /\ Count(finish_nodes(n), "start") = 0 /\ Count(finish_nodes(n), "finish") = n
<1>1. PICK c : c = finish_nodes(n)
    OBVIOUS
<1>2. /\ IsSeq(c) /\ TokensAt(c, Here)
      /\ Made(c, "start") = {} /\ Made(c, "finish") = 1..n
    BY <1>1, Calling DEF TokensAt
<1>3. Cardinality(1..n) = n
    BY FS_Interval
<1>4. Count(c, "start") = 0 /\ Count(c, "finish") = n
    BY <1>2, <1>3, FS_EmptySet DEF Count
<1>5. QED
    BY <1>1, <1>2, <1>4

\* A token is one call.
LEMMA TokenMakes ==
    ASSUME NEW kind
    PROVE  /\ IsSeq(token(kind)) /\ TokensAt(token(kind), Here)
           /\ Count(token(kind), "start") = 0 /\ Count(token(kind), "finish") = 0
BY Calling, FS_EmptySet DEF TokensAt, Count

\* So is no call none.
LEMMA NothingMakes ==
    /\ IsSeq(<<>>) /\ TokensAt(<<>>, Here)
    /\ Count(<<>>, "start") = 0 /\ Count(<<>>, "finish") = 0
BY Calling, Tuples, FS_EmptySet DEF TokensAt, Count

\* One piece after another.
LEMMA MakeBoth ==
    ASSUME NEW s, NEW t, IsSeq(s), IsSeq(t), TokensAt(s, Here), TokensAt(t, Here),
           NEW m \in Nat, NEW n \in Nat, Count(s, "finish") = m, Count(t, "finish") = n,
           Count(s, "start") = 0, Count(t, "start") = 0
    PROVE  /\ IsSeq(s \o t) /\ TokensAt(s \o t, Here)
           /\ Count(s \o t, "start") = 0 /\ Count(s \o t, "finish") = m + n
<1>1. IsSeq(s \o t)
    BY ConcatFacts
<1>2. TokensAt(s \o t, Here)
    <2>1. PICK w : w = s \o t
        OBVIOUS
    <2>2. ASSUME NEW i \in Made(w, "token")
          PROVE  w[i].at = Here
        <3>1. \/ i \in Made(s, "token") /\ w[i] = s[i]
              \/ i - Len(s) \in Made(t, "token") /\ w[i] = t[i - Len(s)]
            BY <2>1, TokensJoin
        <3>2. QED
            BY <3>1 DEF TokensAt
    <2>3. QED
        BY <2>1, <2>2 DEF TokensAt
<1>3. Count(s \o t, "start") = 0 /\ Count(s \o t, "finish") = m + n
    BY MadeJoin
<1>4. QED
    BY <1>1, <1>2, <1>3

\* The calls of a step that neither begins nor ends a node.
LEMMA OtherMakes ==
    ASSUME ShapeInv, \/ Refuse \/ EatOutband \/ Match \/ Stop \/ Rekeyword \/ Unexpected
                     \/ synchronize \/ Done \/ UNCHANGED vars
    PROVE  \E c : Makes(c, 0, 0)
<1>1. CASE builder' = builder
    <2>1. builder' = builder \o <<>>
        BY <1>1, ConcatEmptySeq DEF ShapeInv, TreeInv, IsSeq
    <2>2. QED
        BY <2>1, NothingMakes DEF Makes
<1>2. ASSUME NEW kind, builder' = builder \o token(kind)
      PROVE  \E c : Makes(c, 0, 0)
    BY <1>2, TokenMakes DEF Makes
<1>3. CASE Match
    <2>1. PICK s, t : /\ s = token(cur_token.kind)
                      /\ t = IF IsInvalid THEN token("ERROR") ELSE <<>>
        OBVIOUS
    <2>2. /\ IsSeq(s) /\ TokensAt(s, Here) /\ Count(s, "start") = 0 /\ Count(s, "finish") = 0
          /\ IsSeq(t) /\ TokensAt(t, Here) /\ Count(t, "start") = 0 /\ Count(t, "finish") = 0
        BY <2>1, TokenMakes, NothingMakes
    <2>3. /\ IsSeq(s \o t) /\ TokensAt(s \o t, Here)
          /\ Count(s \o t, "start") = 0 /\ Count(s \o t, "finish") = 0
        BY <2>2, MakeBoth
    <2>4. builder' = builder \o (s \o t)
        <3>1. builder' = (builder \o s) \o t
            BY <1>3, <2>1 DEF Match
        <3>2. IsSeq(builder)
            BY DEF ShapeInv, TreeInv
        <3>3. QED
            BY <2>2, <3>1, <3>2, JoinsAssociate
    <2>5. QED
        BY <2>3, <2>4 DEF Makes
<1>4. CASE Refuse \/ Stop \/ Rekeyword \/ Done \/ UNCHANGED vars
    BY <1>1, <1>4 DEF Refuse, Stop, Rekeyword, Done, vars
<1>5. CASE EatOutband \/ Unexpected \/ synchronize
    BY <1>1, <1>2, <1>5 DEF EatOutband, Unexpected, synchronize
<1>6. QED
    BY <1>3, <1>4, <1>5

\* early_close ends the nodes it pops.
LEMMA EarlyCloseMakes ==
    ASSUME ShapeInv, EarlyClose
    PROVE  \E c : Makes(c, 0, Cardinality(Popped(find_close(rule_stack, Closed))))
<1>1. PICK n : n = Cardinality(Popped(find_close(rule_stack, Closed)))
    OBVIOUS
<1>2. n \in Nat
    BY <1>1, PoppedFacts DEF ShapeInv
<1>3. PICK s, t : s = finish_nodes(n) /\ t = token(cur_token.kind)
    OBVIOUS
<1>4. /\ IsSeq(s) /\ TokensAt(s, Here) /\ Count(s, "start") = 0 /\ Count(s, "finish") = n
      /\ IsSeq(t) /\ TokensAt(t, Here) /\ Count(t, "start") = 0 /\ Count(t, "finish") = 0
    BY <1>2, <1>3, FinishesMake, TokenMakes
<1>5. /\ IsSeq(s \o t) /\ TokensAt(s \o t, Here)
      /\ Count(s \o t, "start") = 0 /\ Count(s \o t, "finish") = n
    <2>1. n + 0 = n
        BY <1>2
    <2>2. QED
        BY <1>2, <1>4, <2>1, MakeBoth
<1>6. builder' = builder \o (s \o t)
    <2>1. builder' = (builder \o s) \o t
        BY <1>1, <1>3 DEF EarlyClose, Finishes
    <2>2. IsSeq(builder)
        BY DEF ShapeInv, TreeInv
    <2>3. QED
        BY <1>4, <2>1, <2>2, JoinsAssociate
<1>7. QED
    BY <1>1, <1>5, <1>6 DEF Makes

\* missing_close ends all there are.
LEMMA MissingCloseMakes ==
    ASSUME ShapeInv, MissingClose
    PROVE  \E c : Makes(c, 0, Cardinality(Popped(Len(rule_stack))))
<1>1. PICK n : n = Cardinality(Popped(Len(rule_stack)))
    OBVIOUS
<1>2. n \in Nat
    BY <1>1, PoppedFacts DEF ShapeInv
<1>3. PICK s, t : s = token("ERROR") /\ t = finish_nodes(n)
    OBVIOUS
<1>4. /\ IsSeq(s) /\ TokensAt(s, Here) /\ Count(s, "start") = 0 /\ Count(s, "finish") = 0
      /\ IsSeq(t) /\ TokensAt(t, Here) /\ Count(t, "start") = 0 /\ Count(t, "finish") = n
    BY <1>2, <1>3, FinishesMake, TokenMakes
<1>5. /\ IsSeq(s \o t) /\ TokensAt(s \o t, Here)
      /\ Count(s \o t, "start") = 0 /\ Count(s \o t, "finish") = n
    <2>1. 0 + n = n
        BY <1>2
    <2>2. QED
        BY <1>2, <1>4, <2>1, MakeBoth
<1>6. builder' = builder \o (s \o t)
    <2>1. builder' = (builder \o s) \o t
        BY <1>1, <1>3 DEF MissingClose, Finishes
    <2>2. IsSeq(builder)
        BY DEF ShapeInv, TreeInv
    <2>3. QED
        BY <1>4, <2>1, <2>2, JoinsAssociate
<1>7. QED
    BY <1>1, <1>5, <1>6 DEF Makes

\* The end of a node ends one.
LEMMA CloseNodeMakes ==
    ASSUME ShapeInv, CloseNode
    PROVE  \E c : Makes(c, 0, 1)
BY FinishesMake DEF CloseNode, Makes

\* The tree keeps its shape.
LEMMA BuilderStep ==
    ASSUME ShapeInv, [Next]_vars
    PROVE  \E c, m, n : Makes(c, m, n)
BY ExpandMakes, OtherMakes, EarlyCloseMakes, MissingCloseMakes, CloseNodeMakes
   DEF Next, parse_inner, recover_error

-----------------------------------------------------------------------------
(* The errors *)

\* Errors with their places in the text or at its end.
Errors(f) == IsSeq(f) /\ \A i \in DOMAIN f : f[i].at \in 1..(Len(source) + 1)

\* One, none, and both of two.
LEMMA ErrorFacts ==
    /\ Errors(<<>>)
    /\ \A kind, at : /\ IsSeq(Error(kind, at)) /\ DOMAIN Error(kind, at) = {1}
                     /\ Error(kind, at)[1].kind = kind /\ Error(kind, at)[1].at = at
    /\ \A kind : \A at \in 1..(Len(source) + 1) : Errors(Error(kind, at))
    /\ \A f, g : Errors(f) /\ Errors(g) => Errors(f \o g)
<1>1. Errors(<<>>)
    BY Tuples DEF Errors
<1>2. ASSUME NEW kind, NEW at
      PROVE  /\ IsSeq(Error(kind, at)) /\ DOMAIN Error(kind, at) = {1}
             /\ Error(kind, at)[1].kind = kind /\ Error(kind, at)[1].at = at
    BY Tuples DEF Error
<1>3. ASSUME NEW f, NEW g, Errors(f), Errors(g)
      PROVE  Errors(f \o g)
    <2>1. IsSeq(f) /\ IsSeq(g)
        BY <1>3 DEF Errors
    <2>2. /\ Len(f) \in Nat /\ DOMAIN f = 1..Len(f) /\ Len(g) \in Nat /\ DOMAIN g = 1..Len(g)
        BY <2>1, SeqFacts
    <2>3. PICK w : w = f \o g
        OBVIOUS
    <2>4. /\ IsSeq(w) /\ DOMAIN w = 1..(Len(f) + Len(g))
          /\ \A i \in 1..Len(f) : w[i] = f[i]
          /\ \A i \in 1..Len(g) : w[Len(f) + i] = g[i]
        BY <2>1, <2>3, ConcatFacts, SeqFacts
    <2>5. ASSUME NEW i \in DOMAIN w
          PROVE  w[i].at \in 1..(Len(source) + 1)
        <3>1. CASE i <= Len(f)
            BY <1>3, <2>2, <2>4, <3>1 DEF Errors
        <3>2. CASE i > Len(f)
            <4>1. i - Len(f) \in DOMAIN g /\ Len(f) + (i - Len(f)) = i
                BY <2>2, <2>4, <3>2
            <4>2. QED
                BY <1>3, <2>2, <2>4, <4>1 DEF Errors
        <3>3. QED
            BY <2>2, <2>4, <3>1, <3>2
    <2>6. QED
        BY <2>3, <2>4, <2>5 DEF Errors
<1>4. \A kind : \A at \in 1..(Len(source) + 1) : Errors(Error(kind, at))
    BY <1>2 DEF Errors
<1>5. QED
    BY <1>1, <1>2, <1>3, <1>4

\* What was reported stays so, and what is new is added.
LEMMA ErrorsJoin ==
    ASSUME IsSeq(errors), NEW f, IsSeq(f), errors' = errors \o f
    PROVE  /\ IsSeq(errors') /\ Reported' = Reported \cup {f[i].at : i \in DOMAIN f}
           /\ RefusedAt \subseteq RefusedAt'
           /\ \A i \in DOMAIN f : f[i].kind = "UnexpectedEof" => f[i].at \in RefusedAt'
           /\ f # <<>> \/ errors # <<>> => errors' # <<>>
<1>1. /\ Len(f) \in Nat /\ DOMAIN f = 1..Len(f)
      /\ Len(errors) \in Nat /\ DOMAIN errors = 1..Len(errors)
    BY SeqFacts
<1>2. PICK w : w = errors \o f
    OBVIOUS
<1>3. /\ IsSeq(w) /\ DOMAIN w = 1..(Len(errors) + Len(f)) /\ Len(w) = Len(errors) + Len(f)
      /\ \A i \in 1..Len(errors) : w[i] = errors[i]
      /\ \A i \in 1..Len(f) : w[Len(errors) + i] = f[i]
    BY <1>2, ConcatFacts, SeqFacts
<1>4. ASSUME NEW i \in DOMAIN errors
      PROVE  i \in DOMAIN w /\ w[i] = errors[i]
    BY <1>1, <1>3
<1>5. ASSUME NEW i \in DOMAIN f
      PROVE  Len(errors) + i \in DOMAIN w /\ w[Len(errors) + i] = f[i]
    BY <1>1, <1>3
<1>6. ASSUME NEW i \in DOMAIN w
      PROVE  \/ i \in DOMAIN errors /\ w[i] = errors[i]
             \/ i - Len(errors) \in DOMAIN f /\ w[i] = f[i - Len(errors)]
    <2>1. CASE i <= Len(errors)
        BY <1>1, <1>3, <2>1
    <2>2. CASE i > Len(errors)
        <3>1. i - Len(errors) \in DOMAIN f /\ Len(errors) + (i - Len(errors)) = i
            BY <1>1, <1>3, <2>2
        <3>2. QED
            BY <1>5, <3>1
    <2>3. QED
        BY <1>1, <1>3, <2>1, <2>2
<1>7. errors' = w
    BY <1>2
<1>8. Reported' = Reported \cup {f[i].at : i \in DOMAIN f}
    BY <1>4, <1>5, <1>6, <1>7 DEF Reported
<1>9. RefusedAt \subseteq RefusedAt'
    BY <1>4, <1>7 DEF RefusedAt
<1>10. ASSUME NEW i \in DOMAIN f, f[i].kind = "UnexpectedEof"
       PROVE  f[i].at \in RefusedAt'
    BY <1>5, <1>7, <1>10 DEF RefusedAt
<1>11. f # <<>> \/ errors # <<>> => w # <<>>
    <2>1. (f = <<>> <=> Len(f) = 0) /\ (errors = <<>> <=> Len(errors) = 0) /\ (w = <<>> <=> Len(w) = 0)
        BY <1>3, SeqFacts
    <2>2. QED
        BY <1>1, <1>3, <2>1
<1>12. QED
    BY <1>3, <1>7, <1>8, <1>9, <1>10, <1>11

\* A list that is open was opened in the text.
LEMMA ListsLieInTheText ==
    ASSUME QueueInv, StackInv, NEW i \in Closes, rule_stack[i].at # 0
    PROVE  rule_stack[i].at \in 1..(Len(source) + 1)
<1>1. rule_stack[i].at \in 1..Here
    BY DEF Lists, StackInv
<1>2. Len(source) \in Nat
    BY SeqFacts DEF QueueInv
<1>3. QED
    BY <1>1, <1>2, HereType

\* The errors only grow, by places in the text or at its end.
LEMMA ErrorsStep ==
    ASSUME ShapeInv, [Next]_vars
    PROVE  \E f : Errors(f) /\ errors' = errors \o f
<1>1. IsSeq(errors) /\ Here \in 1..(Len(source) + 1)
    <2>1. Len(source) \in Nat /\ IsSeq(errors)
        BY SeqFacts DEF ShapeInv, QueueInv, TreeInv
    <2>2. QED
        BY <2>1, HereType DEF ShapeInv
<1>2. \A kind : Errors(Error(kind, Here))
    BY <1>1, ErrorFacts
<1>3. CASE errors' = errors
    <2>1. errors' = errors \o <<>>
        BY <1>1, <1>3, ConcatEmptySeq DEF IsSeq
    <2>2. QED
        BY <2>1, ErrorFacts
<1>4. CASE Refuse \/ Unexpected \/ Match
    <2>1. CASE Match
        BY <1>2, <2>1, ErrorFacts DEF Match
    <2>2. CASE Refuse \/ Unexpected
        BY <1>2, <2>2 DEF Refuse, Unexpected
    <2>3. QED
        BY <1>4, <2>1, <2>2
<1>5. CASE EarlyClose
    <2>1. PICK n : n = find_close(rule_stack, Closed)
        OBVIOUS
    <2>2. PICK i : i = First(Popped(n))
        OBVIOUS
    <2>3. i \in Closes
        <3>1. n \in Closes /\ Popped(n) \in SUBSET Nat /\ Popped(n) \in SUBSET Closes
            BY <1>5, <2>1, EarlyClosePops, PoppedFacts DEF ShapeInv
        <3>2. n \in Popped(n)
            <4>1. n \in Nat
                BY <3>1, PoppedFacts DEF ShapeInv
            <4>2. QED
                BY <3>1, <4>1 DEF Popped
        <3>3. i \in Popped(n)
            BY <2>2, <3>1, <3>2, LeastExists DEF First
        <3>4. QED
            BY <3>1, <3>3
    <2>4. PICK f, g : /\ f = Error("Unterminated", Here)
                      /\ g = IF rule_stack[i].at # 0 THEN Error("Unterminated", rule_stack[i].at) ELSE <<>>
        OBVIOUS
    <2>5. Errors(f) /\ Errors(g)
        BY <1>2, <2>3, <2>4, ErrorFacts, ListsLieInTheText DEF ShapeInv
    <2>6. Errors(f \o g)
        BY <2>5, ErrorFacts
    <2>7. errors' = errors \o (f \o g)
        BY <1>5, <2>1, <2>2, <2>4 DEF EarlyClose, Unterminated
    <2>8. QED
        BY <2>6, <2>7
<1>6. CASE MissingClose
    <2>1. CASE Lists = {}
        BY <1>2, <1>6, <2>1 DEF MissingClose
    <2>2. CASE Lists # {}
        <3>1. PICK i : i = First(Lists)
            OBVIOUS
        <3>2. Lists \in SUBSET Nat
            BY PoppedFacts DEF ShapeInv
        <3>3. i \in Lists
            BY <2>2, <3>1, <3>2, LeastExists DEF First
        <3>4. rule_stack[i].at \in 1..(Len(source) + 1)
            BY <3>3, ListsLieInTheText DEF Lists, ShapeInv
        <3>5. errors' = errors \o Error("Dismatched", rule_stack[i].at)
            BY <1>6, <2>2, <3>1 DEF MissingClose
        <3>6. QED
            BY <3>4, <3>5, ErrorFacts
    <2>3. QED
        BY <2>1, <2>2
<1>7. CASE CloseNode \/ EatOutband \/ Stop \/ Expand \/ Rekeyword \/ synchronize \/ Done \/ UNCHANGED vars
    BY <1>3, <1>7 DEF CloseNode, EatOutband, Stop, Expand, Rekeyword, synchronize, Done, vars
<1>8. QED
    BY <1>4, <1>5, <1>6, <1>7 DEF Next, parse_inner, recover_error

\* The tree and the errors stay about what was read.
LEMMA TreeStep ==
    ASSUME ShapeInv, [Next]_vars
    PROVE  TreeInv'
<1>1. Here \in Nat /\ Here >= 1 /\ Here <= Here' /\ Here' \in Int
    <2>1. /\ Here <= Here' /\ Len(source') \in Nat /\ Len(queue') \in Nat
          /\ Here \in Nat /\ Here >= 1
        BY QueueStep, HereType, SeqFacts DEF ShapeInv, QueueInv
    <2>2. QED
        BY <2>1 DEF Here
<1>2. PICK c, m, n : Makes(c, m, n)
    BY BuilderStep
<1>3. PICK f : Errors(f) /\ errors' = errors \o f
    BY ErrorsStep
<1>4. source' = source
    BY QueueStep DEF ShapeInv
<1>5. IsSeq(builder) /\ IsSeq(c) /\ builder' = builder \o c /\ IsSeq(builder')
    BY <1>2, ConcatFacts DEF ShapeInv, TreeInv, Makes
<1>6. ASSUME NEW i \in Tokens'
      PROVE  builder'[i].at \in 1..Here'
    <2>1. i \in Made(builder \o c, "token") /\ builder'[i] = (builder \o c)[i]
        BY <1>5, <1>6 DEF Tokens, Made
    <2>2. CASE i \in Made(builder, "token") /\ (builder \o c)[i] = builder[i]
        <3>1. builder[i].at \in 1..Here
            BY <2>2 DEF ShapeInv, TreeInv, Tokens, Made
        <3>2. QED
            BY <1>1, <2>1, <2>2, <3>1
    <2>3. CASE /\ i - Len(builder) \in Made(c, "token")
               /\ (builder \o c)[i] = c[i - Len(builder)]
        <3>1. builder'[i].at = Here
            BY <1>2, <2>1, <2>3 DEF Makes, TokensAt
        <3>2. QED
            BY <1>1, <3>1
    <2>4. QED
        BY <1>5, <2>1, <2>2, <2>3, TokensJoin
<1>7. IsSeq(errors') /\ Reported' \subseteq 1..(Len(source') + 1)
    <2>1. IsSeq(errors) /\ Reported \subseteq 1..(Len(source) + 1) /\ IsSeq(f)
        BY <1>3 DEF ShapeInv, TreeInv, Errors
    <2>2. IsSeq(errors') /\ Reported' = Reported \cup {f[i].at : i \in DOMAIN f}
        BY <1>3, <2>1, ErrorsJoin
    <2>3. {f[i].at : i \in DOMAIN f} \subseteq 1..(Len(source) + 1)
        BY <1>3 DEF Errors
    <2>4. QED
        BY <1>4, <2>1, <2>2, <2>3
<1>8. QED
    BY <1>5, <1>6, <1>7 DEF TreeInv

\* ShapeInv holds at the start, where the text has no end but its own.
LEMMA ShapeAtFirst ==
    ASSUME Init
    PROVE  ShapeInv
<1>1. source \in Seq(Lexeme) /\ queue = source
    BY ParserAssumption DEF Init
<1>2. /\ IsSeq(source) /\ Len(source) \in Nat
      /\ \A i \in DOMAIN queue : queue[i].kind # "END"
    <2>1. \A t \in Lexeme : t.kind # "END"
        BY DEF Lexeme
    <2>2. Len(source) \in Nat /\ \A i \in DOMAIN queue : queue[i] \in Lexeme
        BY <1>1
    <2>3. QED
        BY <1>1, <2>1, <2>2 DEF IsSeq
<1>3. QueueInv
    <2>1. skipping \in BOOLEAN /\ depth = 0
        BY DEF Init
    <2>2. QED
        BY <1>1, <1>2, <2>1 DEF QueueInv
<1>4. Here = 1
    BY <1>1, <1>2 DEF Here
<1>5. PICK a, b, c : a = Star("N_SEXP", {"END"}) /\ b = One("END") /\ c = Close("ROOT", 0)
    OBVIOUS
<1>6. /\ a.expect # "ERROR" /\ b.expect # "ERROR" /\ c.expect # "ERROR"
      /\ ~IsClose(a) /\ ~IsClose(b) /\ c.at = 0
    BY <1>5 DEF Star, One, Close, Rule, IsClose
<1>7. rule_stack = <<a, b, c>>
    BY <1>5 DEF Init
<1>8. /\ IsSeq(rule_stack) /\ DOMAIN rule_stack = 1..3 /\ Len(rule_stack) = 3
      /\ rule_stack[1] = a /\ rule_stack[2] = b /\ rule_stack[3] = c
    BY <1>7, Tuples
<1>9. Lists = {}
    BY <1>6, <1>8 DEF Lists, Closes
<1>10. StackInv
    BY <1>5, <1>6, <1>8, <1>9 DEF StackInv
<1>11. builder = start_node("ROOT") /\ errors = <<>>
    BY DEF Init
<1>12. IsSeq(builder) /\ Tokens = {}
    BY <1>11, Calling DEF Tokens, Made
<1>13. IsSeq(errors) /\ Reported = {}
    BY <1>11, Tuples DEF Reported
<1>14. QED
    BY <1>3, <1>10, <1>12, <1>13 DEF ShapeInv, TreeInv

\* ShapeInv is inductive.
LEMMA ShapeStep ==
    ASSUME ShapeInv, [Next]_vars
    PROVE  ShapeInv'
BY QueueStep, StackStep, TreeStep DEF ShapeInv

\* ShapeInv says no less than TypeOK.
LEMMA ShapeIsType ==
    ASSUME ShapeInv
    PROVE  TypeOK
<1>1. Len(source) \in Nat /\ Len(queue) \in Nat
    BY SeqFacts DEF ShapeInv, QueueInv
<1>2. depth \in 0..Len(source)
    BY <1>1 DEF ShapeInv, QueueInv
<1>3. QED
    BY <1>2 DEF ShapeInv, QueueInv, StackInv, TreeInv, TypeOK

\* Whatever the text: the root waits at the bottom of the stack until all is
\* popped, every list points at a token read, and no error lies outside the text.
THEOREM TypesHold == Spec => []TypeOK
<1>1. Init => ShapeInv
    BY ShapeAtFirst
<1>2. ShapeInv /\ [Next]_vars => ShapeInv'
    BY ShapeStep
<1>3. ShapeInv => TypeOK
    BY ShapeIsType
<1>4. QED
    BY <1>1, <1>2, <1>3, PTL DEF Spec

-----------------------------------------------------------------------------
(* The nodes open in the tree, and the lists counted *)

\* What of a set of positions lies above n, and what below.
LEMMA SplitCount ==
    ASSUME NEW A \in SUBSET Nat, IsFiniteSet(A), NEW n \in Nat
    PROVE  /\ Cardinality({i + (-n) : i \in {j \in A : j > n}}) + Cardinality({i \in A : i <= n})
                  = Cardinality(A)
           /\ Cardinality({i + (-n) : i \in {j \in A : j > n}}) \in Nat
           /\ Cardinality({i \in A : i <= n}) \in Nat
<1>1. PICK B, C : B = {j \in A : j > n} /\ C = {i \in A : i <= n}
    OBVIOUS
<1>2. B \in SUBSET A /\ C \in SUBSET A /\ A = B \cup C /\ B \cap C = {}
    <2>1. \A i \in A : i > n \/ i <= n
        OBVIOUS
    <2>2. \A i \in A : ~(i > n /\ i <= n)
        OBVIOUS
    <2>3. QED
        BY <1>1, <2>1, <2>2
<1>3. IsFiniteSet(B) /\ IsFiniteSet(C)
    BY <1>2, FS_Subset
<1>4. Cardinality(A) = Cardinality(B) + Cardinality(C)
    BY <1>2, <1>3, DisjointCount
<1>5. PICK k \in Int : k = -n
    OBVIOUS
<1>6. Cardinality({i + k : i \in B}) = Cardinality(B)
    <2>1. B \in SUBSET Int
        BY <1>2
    <2>2. QED
        BY <1>3, <2>1, MovedAlong
<1>7. Cardinality(B) \in Nat /\ Cardinality(C) \in Nat
    BY <1>3, FS_CardinalityType
<1>8. QED
    BY <1>1, <1>4, <1>5, <1>6, <1>7

\* The closes and the lists that are left when n rules are popped.
LEMMA PopsCount ==
    ASSUME StackInv, NEW n, Pops(n)
    PROVE  /\ Cardinality(Closes') + Cardinality(Popped(n)) = Cardinality(Closes)
           /\ Cardinality(Lists') + Cardinality({i \in Lists : i <= n}) = Cardinality(Lists)
           /\ Cardinality(Closes') \in Nat /\ Cardinality(Lists') \in Nat
           /\ Cardinality({i \in Lists : i <= n}) \in Nat
<1>1. n \in Nat
    BY SeqFacts DEF Pops, StackInv
<1>2. /\ IsFiniteSet(Closes) /\ Closes \in SUBSET Nat
      /\ IsFiniteSet(Lists) /\ Lists \in SUBSET Nat
    BY PoppedFacts
<1>3. PICK A, B : A = Closes /\ B = Lists
    OBVIOUS
<1>4. /\ Closes' = {i + (-n) : i \in {j \in A : j > n}}
      /\ Lists' = {i + (-n) : i \in {j \in B : j > n}}
    BY <1>3, PopsCloses
<1>5. Popped(n) = {i \in A : i <= n}
    BY <1>3 DEF Popped
<1>6. /\ Cardinality(Closes') + Cardinality(Popped(n)) = Cardinality(A)
      /\ Cardinality(Closes') \in Nat
    BY <1>1, <1>2, <1>3, <1>4, <1>5, SplitCount
<1>7. /\ Cardinality(Lists') + Cardinality({i \in B : i <= n}) = Cardinality(B)
      /\ Cardinality(Lists') \in Nat /\ Cardinality({i \in B : i <= n}) \in Nat
    BY <1>1, <1>2, <1>3, <1>4, SplitCount
<1>8. QED
    BY <1>3, <1>6, <1>7

\* A rule that is popped is a close or is none.
LEMMA SkipCounts ==
    ASSUME StackInv, rule_stack # <<>>
    PROVE  /\ Cardinality(Popped(1)) = IF IsClose(cur_rule) THEN 1 ELSE 0
           /\ Cardinality({i \in Lists : i <= 1}) = IF IsClose(cur_rule) /\ cur_rule.at # 0 THEN 1 ELSE 0
<1>1. cur_rule = rule_stack[1] /\ 1 \in DOMAIN rule_stack /\ DOMAIN rule_stack = 1..Len(rule_stack)
      /\ Len(rule_stack) \in Nat
    BY TopFacts
<1>2. Popped(1) = IF IsClose(cur_rule) THEN {1} ELSE {}
    BY <1>1 DEF Popped, Closes
<1>3. {i \in Lists : i <= 1} = IF IsClose(cur_rule) /\ cur_rule.at # 0 THEN {1} ELSE {}
    BY <1>1 DEF Lists, Closes
<1>4. Cardinality({1}) = 1 /\ Cardinality({}) = 0
    BY FS_Singleton, FS_EmptySet
<1>5. QED
    BY <1>2, <1>3, <1>4

\* The closes and the lists that there are when a rule is expanded.
LEMMA PushesCount ==
    ASSUME StackInv, rule_stack # <<>>, ~IsClose(cur_rule), NEW e, NEW r, NEW at, Pushes(e, r, at)
    PROVE  /\ Cardinality(Closes') = Cardinality(Closes) + 1
           /\ Cardinality(Lists') = IF at # 0 THEN Cardinality(Lists) + 1 ELSE Cardinality(Lists)
<1>1. /\ IsFiniteSet(Closes) /\ Closes \in SUBSET Int /\ Cardinality(Closes) \in Nat
      /\ IsFiniteSet(Lists) /\ Lists \in SUBSET Int /\ Cardinality(Lists) \in Nat
      /\ Lists \in SUBSET Closes
    BY PoppedFacts
<1>2. PICK A, B, k : A = Closes /\ B = Lists /\ k = e + r
    OBVIOUS
<1>3. e \in Nat /\ r \in {0, 1} /\ k \in Int
    BY <1>2 DEF Pushes
<1>4. PICK C, D : C = {i + k : i \in A} /\ D = {i + k : i \in B}
    OBVIOUS
<1>5. /\ IsFiniteSet(C) /\ Cardinality(C) = Cardinality(A)
      /\ IsFiniteSet(D) /\ Cardinality(D) = Cardinality(B)
    BY <1>1, <1>2, <1>3, <1>4, MovedAlong
<1>6. Closes' = C \cup {e + 1} /\ Lists' = D \cup (IF at # 0 THEN {e + 1} ELSE {})
    BY <1>2, <1>4, PushesCloses
<1>7. e + 1 \notin C /\ e + 1 \notin D
    <2>1. ASSUME NEW i \in A
          PROVE  i + k # e + 1
        <3>1. i >= 2 /\ i \in Int
            BY <1>1, <1>2, PushesCloses
        <3>2. QED
            BY <1>2, <1>3, <3>1
    <2>2. QED
        BY <1>1, <1>2, <1>4, <2>1
<1>8. Cardinality(Closes') = Cardinality(Closes) + 1
    <2>1. Cardinality(C \cup {e + 1}) = Cardinality(C) + 1
        BY <1>5, <1>7, FS_AddElement
    <2>2. QED
        BY <1>2, <1>5, <1>6, <2>1
<1>9. CASE at # 0
    <2>1. Cardinality(Lists') = Cardinality(Lists) + 1
        <3>1. Cardinality(D \cup {e + 1}) = Cardinality(D) + 1
            BY <1>5, <1>7, FS_AddElement
        <3>2. Lists' = D \cup {e + 1}
            BY <1>6, <1>9
        <3>3. QED
            BY <1>2, <1>5, <3>1, <3>2
    <2>2. QED
        BY <1>8, <1>9, <2>1
<1>10. CASE at = 0
    <2>1. Lists' = D
        BY <1>6, <1>10
    <2>2. QED
        BY <1>2, <1>5, <1>8, <1>10, <2>1
<1>11. QED
    BY <1>9, <1>10

\* The calls of a step change what is open in the tree as they say.
LEMMA MakesCount ==
    ASSUME ShapeInv, TreeIsBalanced, NEW m \in Nat, NEW n \in Nat, NEW c, Makes(c, m, n),
           Cardinality(Closes') \in Nat, Cardinality(Closes') + n = Cardinality(Closes) + m
    PROVE  TreeIsBalanced'
<1>1. IsSeq(builder) /\ IsSeq(c) /\ builder' = builder \o c
    BY DEF ShapeInv, TreeInv, Makes
<1>2. /\ Count(builder', "start") = Count(builder, "start") + m
      /\ Count(builder', "finish") = Count(builder, "finish") + n
      /\ Count(builder, "start") \in Nat /\ Count(builder, "finish") \in Nat
    BY <1>1, MadeJoin DEF Makes
<1>3. /\ Cardinality(Starts) = Count(builder, "start")
      /\ Cardinality(Finished) = Count(builder, "finish")
      /\ Cardinality(Starts') = Count(builder', "start")
      /\ Cardinality(Finished') = Count(builder', "finish")
    BY DEF Starts, Finished, Count, Made
<1>4. Cardinality(Closes) \in Nat
    BY PoppedFacts DEF ShapeInv
<1>5. QED
    BY <1>2, <1>3, <1>4 DEF TreeIsBalanced

\* A step keeps the tree balanced.
LEMMA BalanceStep ==
    ASSUME ShapeInv, TreeIsBalanced, [Next]_vars
    PROVE  TreeIsBalanced'
<1>1. Cardinality(Closes) \in Nat
    BY PoppedFacts DEF ShapeInv
<1>2. CASE CloseNode
    <2>1. rule_stack # <<>> /\ IsClose(cur_rule) /\ Pops(1)
        BY <1>2, SkipPops DEF CloseNode, At, Branch, ShapeInv
    <2>2. Cardinality(Closes') + 1 = Cardinality(Closes) /\ Cardinality(Closes') \in Nat
        BY <2>1, PopsCount, SkipCounts DEF ShapeInv
    <2>3. PICK c : Makes(c, 0, 1)
        BY <1>2, CloseNodeMakes
    <2>4. QED
        BY <1>1, <2>2, <2>3, MakesCount
<1>3. CASE Match \/ Stop
    <2>1. rule_stack # <<>> /\ ~IsClose(cur_rule) /\ Pops(1)
        BY <1>3, SkipPops DEF Match, Stop, At, Branch, ShapeInv
    <2>2. Cardinality(Closes') + 0 = Cardinality(Closes) /\ Cardinality(Closes') \in Nat
        BY <2>1, PopsCount, SkipCounts DEF ShapeInv
    <2>3. PICK c : Makes(c, 0, 0)
        BY <1>3, OtherMakes
    <2>4. QED
        BY <1>1, <2>2, <2>3, MakesCount
<1>4. CASE Expand
    <2>1. PICK e, r, at : Pushes(e, r, at)
        BY <1>4, ExpandPushes DEF ShapeInv
    <2>2. rule_stack # <<>> /\ ~IsClose(cur_rule)
        BY <1>4, ExpandPushes DEF ShapeInv, Expand, At
    <2>3. Cardinality(Closes') = Cardinality(Closes) + 1
        BY <2>1, <2>2, PushesCount DEF ShapeInv
    <2>4. PICK c : Makes(c, 1, 0)
        BY <1>4, ExpandMakes
    <2>5. QED
        BY <1>1, <2>3, <2>4, MakesCount
<1>5. CASE EarlyClose
    <2>1. PICK n : n = find_close(rule_stack, Closed)
        OBVIOUS
    <2>2. Cardinality(Closes') + Cardinality(Popped(n)) = Cardinality(Closes) /\ Cardinality(Closes') \in Nat
        BY <1>5, <2>1, EarlyClosePops, PopsCount DEF ShapeInv
    <2>3. Cardinality(Popped(n)) \in Nat
        BY PoppedFacts DEF ShapeInv
    <2>4. PICK c : Makes(c, 0, Cardinality(Popped(n)))
        BY <1>5, <2>1, EarlyCloseMakes
    <2>5. QED
        BY <1>1, <2>2, <2>3, <2>4, MakesCount
<1>6. CASE MissingClose
    <2>1. PICK n : n = Len(rule_stack)
        OBVIOUS
    <2>2. Cardinality(Closes') + Cardinality(Popped(n)) = Cardinality(Closes) /\ Cardinality(Closes') \in Nat
        BY <1>6, <2>1, MissingClosePops, PopsCount DEF ShapeInv
    <2>3. Cardinality(Popped(n)) \in Nat
        BY PoppedFacts DEF ShapeInv
    <2>4. PICK c : Makes(c, 0, Cardinality(Popped(n)))
        BY <1>6, <2>1, MissingCloseMakes
    <2>5. QED
        BY <1>1, <2>2, <2>3, <2>4, MakesCount
<1>7. CASE Refuse \/ EatOutband \/ Rekeyword \/ Unexpected \/ synchronize \/ Done \/ UNCHANGED vars
    <2>1. rule_stack' = rule_stack
        BY <1>7 DEF Refuse, EatOutband, Rekeyword, Unexpected, synchronize, Done, vars
    <2>2. Closes' = Closes
        BY <2>1 DEF Closes
    <2>3. PICK c : Makes(c, 0, 0)
        BY <1>7, OtherMakes
    <2>4. QED
        BY <1>1, <2>2, <2>3, MakesCount
<1>8. QED
    BY <1>2, <1>3, <1>4, <1>5, <1>6, <1>7 DEF Next, parse_inner, recover_error

\* The tree at the start has its root open, which waits for its end.
LEMMA BalancedAtFirst ==
    ASSUME Init
    PROVE  TreeIsBalanced
<1>1. PICK a, b, c : a = Star("N_SEXP", {"END"}) /\ b = One("END") /\ c = Close("ROOT", 0)
    OBVIOUS
<1>2. ~IsClose(a) /\ ~IsClose(b) /\ IsClose(c)
    BY <1>1 DEF Star, One, Close, Rule, IsClose
<1>3. rule_stack = <<a, b, c>>
    BY <1>1 DEF Init
<1>4. DOMAIN rule_stack = 1..3 /\ rule_stack[1] = a /\ rule_stack[2] = b /\ rule_stack[3] = c
    BY <1>3, Tuples
<1>5. Closes = {3}
    BY <1>2, <1>4 DEF Closes
<1>6. builder = start_node("ROOT")
    BY DEF Init
<1>7. Starts = {1} /\ Finished = {}
    BY <1>6, Calling DEF Starts, Finished, Made
<1>8. Cardinality({1}) = 1 /\ Cardinality({3}) = 1 /\ Cardinality({}) = 0
    BY FS_Singleton, FS_EmptySet
<1>9. QED
    BY <1>5, <1>7, <1>8 DEF TreeIsBalanced

\* Whatever the text and its errors: early_close and missing_close end just
\* the nodes they pop, so the tree and the stack agree on what is open.
THEOREM TreeStaysBalanced == Spec => []TreeIsBalanced
<1>1. Init => ShapeInv /\ TreeIsBalanced
    BY ShapeAtFirst, BalancedAtFirst
<1>2. ShapeInv /\ TreeIsBalanced /\ [Next]_vars => (ShapeInv /\ TreeIsBalanced)'
    BY ShapeStep, BalanceStep
<1>3. QED
    BY <1>1, <1>2, PTL DEF Spec

\* A step that opens a list counts it, and one that ends a list, which was
\* counted, takes it from the count; recovery only ends lists.
LEMMA OpenListsStep ==
    ASSUME ShapeInv, DepthIsBounded, OpenListsAreCounted, [Next]_vars
    PROVE  OpenListsAreCounted'
<1>1. Cardinality(Lists) \in Nat /\ nesting_depth \in Nat /\ Cardinality(Lists) <= nesting_depth
    BY PoppedFacts, ParserAssumption DEF ShapeInv, DepthIsBounded, OpenListsAreCounted
<1>2. ASSUME NEW n, Pops(n), nesting_depth' = nesting_depth
      PROVE  OpenListsAreCounted'
    <2>1. /\ Cardinality(Lists') + Cardinality({i \in Lists : i <= n}) = Cardinality(Lists)
          /\ Cardinality(Lists') \in Nat /\ Cardinality({i \in Lists : i <= n}) \in Nat
        BY <1>2, PopsCount DEF ShapeInv
    <2>2. QED
        BY <1>1, <1>2, <2>1 DEF OpenListsAreCounted
<1>3. CASE CloseNode
    <2>1. rule_stack # <<>> /\ IsClose(cur_rule) /\ Pops(1)
        BY <1>3, SkipPops DEF CloseNode, At, Branch, ShapeInv
    <2>2. CASE cur_rule.at # 0
        <3>1. Cardinality(Lists') + 1 = Cardinality(Lists) /\ Cardinality(Lists') \in Nat
            BY <2>1, <2>2, PopsCount, SkipCounts DEF ShapeInv
        <3>2. nesting_depth' = nesting_depth - 1
            BY <1>1, <1>3, <2>2, <3>1 DEF CloseNode, DepthAfter
        <3>3. QED
            BY <1>1, <3>1, <3>2 DEF OpenListsAreCounted
    <2>3. CASE cur_rule.at = 0
        <3>1. nesting_depth' = nesting_depth
            BY <1>3, <2>3 DEF CloseNode, DepthAfter
        <3>2. QED
            BY <1>2, <2>1, <3>1
    <2>4. QED
        BY <2>2, <2>3
<1>4. CASE Match \/ Stop
    <2>1. Pops(1) /\ nesting_depth' = nesting_depth
        BY <1>4, SkipPops DEF Match, Stop, At, ShapeInv
    <2>2. QED
        BY <1>2, <2>1
<1>5. CASE EarlyClose
    <2>1. Pops(find_close(rule_stack, Closed)) /\ nesting_depth' = nesting_depth
        BY <1>5, EarlyClosePops DEF EarlyClose, ShapeInv
    <2>2. QED
        BY <1>2, <2>1
<1>6. CASE MissingClose
    <2>1. Pops(Len(rule_stack)) /\ nesting_depth' = nesting_depth
        BY <1>6, MissingClosePops DEF MissingClose, ShapeInv
    <2>2. QED
        BY <1>2, <2>1
<1>7. CASE Expand
    <2>1. PICK at : at = IF Head(Expansion).expect \in L_DELIMITERS THEN Here ELSE 0
        OBVIOUS
    <2>2. PICK e, r : Pushes(e, r, at)
        BY <1>7, <2>1, ExpandPushes DEF ShapeInv
    <2>3. rule_stack # <<>> /\ ~IsClose(cur_rule)
        BY <1>7, ExpandPushes DEF ShapeInv, Expand, At
    <2>4. Cardinality(Lists') = IF at # 0 THEN Cardinality(Lists) + 1 ELSE Cardinality(Lists)
        BY <2>2, <2>3, PushesCount DEF ShapeInv
    <2>5. nesting_depth' = IF at # 0 THEN nesting_depth + 1 ELSE nesting_depth
        BY <1>7, <2>1, HereType DEF Expand, ShapeInv
    <2>6. QED
        BY <1>1, <2>4, <2>5 DEF OpenListsAreCounted
<1>8. CASE Refuse \/ EatOutband \/ Rekeyword \/ Unexpected \/ synchronize \/ Done \/ UNCHANGED vars
    <2>1. rule_stack' = rule_stack /\ nesting_depth' = nesting_depth
        BY <1>8 DEF Refuse, EatOutband, Rekeyword, Unexpected, synchronize, Done, vars
    <2>2. Lists' = Lists
        BY <2>1 DEF Lists, Closes
    <2>3. QED
        BY <1>1, <2>1, <2>2 DEF OpenListsAreCounted
<1>9. QED
    BY <1>3, <1>4, <1>5, <1>6, <1>7, <1>8 DEF Next, parse_inner, recover_error

\* However recovery leaves nesting_depth, no more lists wait for their end on
\* the stack than it counts: with DepthStaysBounded, the limit bounds the tree.
THEOREM OpenListsStayCounted == Spec => []OpenListsAreCounted
<1>1. Init => ShapeInv /\ DepthIsBounded /\ OpenListsAreCounted
    <2>1. ASSUME Init
          PROVE  Lists = {} /\ nesting_depth = 0
        <3>1. ShapeInv /\ Here = 1
            <4>1. Len(source) \in Nat /\ queue = source /\ ShapeInv
                BY <2>1, ShapeAtFirst, SeqFacts DEF Init, ShapeInv, QueueInv
            <4>2. QED
                BY <4>1 DEF Here
        <3>2. PICK a, b, c : a = Star("N_SEXP", {"END"}) /\ b = One("END") /\ c = Close("ROOT", 0)
            OBVIOUS
        <3>3. ~IsClose(a) /\ ~IsClose(b) /\ c.at = 0
            BY <3>2 DEF Star, One, Close, Rule, IsClose
        <3>4. rule_stack = <<a, b, c>>
            BY <2>1, <3>2 DEF Init
        <3>5. DOMAIN rule_stack = 1..3 /\ rule_stack[1] = a /\ rule_stack[2] = b /\ rule_stack[3] = c
            BY <3>4, Tuples
        <3>6. QED
            BY <2>1, <3>3, <3>5 DEF Lists, Closes, Init
    <2>2. QED
        BY <2>1, ShapeAtFirst, FS_EmptySet, ParserAssumption DEF OpenListsAreCounted, DepthIsBounded
<1>2. ShapeInv /\ DepthIsBounded /\ OpenListsAreCounted /\ [Next]_vars
          => (ShapeInv /\ DepthIsBounded /\ OpenListsAreCounted)'
    BY ShapeStep, DepthStep, OpenListsStep
<1>3. QED
    BY <1>1, <1>2, PTL DEF Spec

-----------------------------------------------------------------------------
(* The text in the tree *)

\* The tokens among some calls, and where they are from.
Put(calls) == {calls[i] : i \in Made(calls, "token")}
Places(calls) == {calls[i].at : i \in Made(calls, "token")}

\* Calls after others put the tokens of both.
LEMMA PutJoin ==
    ASSUME NEW s, NEW t, IsSeq(s), IsSeq(t)
    PROVE  /\ Put(s \o t) = Put(s) \cup Put(t)
           /\ Places(s \o t) = Places(s) \cup Places(t)
<1>1. PICK w : w = s \o t
    OBVIOUS
<1>2. ASSUME NEW i \in Made(s, "token")
      PROVE  s[i] \in Put(w)
    <2>1. i \in Made(w, "token") /\ w[i] = s[i]
        BY <1>1, TokenStays
    <2>2. QED
        BY <2>1 DEF Put
<1>3. ASSUME NEW i \in Made(t, "token")
      PROVE  t[i] \in Put(w)
    <2>1. Len(s) + i \in Made(w, "token") /\ w[Len(s) + i] = t[i]
        BY <1>1, TokenComes
    <2>2. QED
        BY <2>1 DEF Put
<1>4. ASSUME NEW i \in Made(w, "token")
      PROVE  w[i] \in Put(s) \cup Put(t)
    <2>1. \/ i \in Made(s, "token") /\ w[i] = s[i]
          \/ i - Len(s) \in Made(t, "token") /\ w[i] = t[i - Len(s)]
        BY <1>1, TokensJoin
    <2>2. QED
        BY <2>1 DEF Put
<1>5. Put(w) = Put(s) \cup Put(t)
    <2>1. Put(s) \subseteq Put(w)
        BY <1>2 DEF Put
    <2>2. Put(t) \subseteq Put(w)
        BY <1>3 DEF Put
    <2>3. Put(w) \subseteq Put(s) \cup Put(t)
        BY <1>4 DEF Put
    <2>4. QED
        BY <2>1, <2>2, <2>3
<1>6. /\ Places(s) = {x.at : x \in Put(s)} /\ Places(t) = {x.at : x \in Put(t)}
      /\ Places(w) = {x.at : x \in Put(w)}
    BY DEF Places, Put
<1>7. QED
    BY <1>1, <1>5, <1>6

\* What one token, none and the ends of nodes put.
LEMMA PutByCalling ==
    /\ \A kind : Put(token(kind)) = {[event |-> "token", kind |-> kind, at |-> Here]}
    /\ \A n \in Nat : Put(finish_nodes(n)) = {}
    /\ Put(<<>>) = {}
    /\ \A kind : Places(token(kind)) = {Here}
<1>1. ASSUME NEW kind
      PROVE  /\ Put(token(kind)) = {[event |-> "token", kind |-> kind, at |-> Here]}
             /\ Places(token(kind)) = {Here}
    <2>1. PICK c, a : c = token(kind) /\ a = [event |-> "token", kind |-> kind, at |-> Here]
        OBVIOUS
    <2>2. Made(c, "token") = {1} /\ c[1] = a /\ a.at = Here
        BY <2>1, Calling DEF token
    <2>3. QED
        BY <2>1, <2>2 DEF Put, Places
<1>2. (\A n \in Nat : Put(finish_nodes(n)) = {}) /\ Put(<<>>) = {}
    BY Calling DEF Put
<1>3. QED
    BY <1>1, <1>2

\* The parser goes on by a token only where it puts it in the tree or refuses it.
LEMMA ReadsIntoTheTree ==
    ASSUME ShapeInv, [Next]_vars
    PROVE  /\ Here' = Here \/ Here' = Here + 1
           /\ Here' = Here + 1 => \/ Here \in Places(builder')
                                  \/ errors' = errors \o Error("UnexpectedEof", Here)
<1>1. /\ Len(source) \in Nat /\ Len(queue) \in Nat /\ Here \in Int /\ source' = source
      /\ QueueInv /\ IsSeq(builder) /\ IsSeq(queue)
    BY SeqFacts, HereType, QueueStep DEF ShapeInv, QueueInv, TreeInv
<1>2. ASSUME queue' = Step
      PROVE  Here' = Here \/ Here' = Here + 1
    BY <1>1, <1>2, StepReads
<1>3. ASSUME Here' = Here
      PROVE  ~(Here' = Here + 1)
    BY <1>1, <1>3
<1>4. CASE Refuse
    BY <1>2, <1>4 DEF Refuse
<1>5. ASSUME NEW kind, builder' = builder \o token(kind)
      PROVE  Here \in Places(builder')
    BY <1>1, <1>5, Calling, PutJoin, PutByCalling
<1>6. CASE EatOutband \/ Unexpected
    BY <1>2, <1>5, <1>6 DEF EatOutband, Unexpected
<1>7. CASE synchronize
    <2>1. CASE SyncStops
        BY <1>1, <1>3, <1>7, <2>1 DEF synchronize, Here
    <2>2. CASE ~SyncStops
        BY <1>2, <1>5, <1>7, <2>2 DEF synchronize
    <2>3. QED
        BY <2>1, <2>2
<1>8. CASE Match
    <2>1. PICK s, t, b : /\ s = token(cur_token.kind) /\ b = builder \o s
                         /\ t = IF IsInvalid THEN token("ERROR") ELSE <<>>
        OBVIOUS
    <2>2. IsSeq(s) /\ IsSeq(t)
        BY <2>1, Calling, Tuples
    <2>3. IsSeq(b) /\ Here \in Places(b)
        BY <1>1, <2>1, <2>2, ConcatFacts, PutJoin, PutByCalling
    <2>4. builder' = b \o t /\ queue' = Step
        BY <1>8, <2>1 DEF Match
    <2>5. Here \in Places(builder')
        BY <2>2, <2>3, <2>4, PutJoin
    <2>6. QED
        BY <1>2, <2>4, <2>5
<1>9. CASE EarlyClose
    <2>1. PICK n : n = Cardinality(Popped(find_close(rule_stack, Closed)))
        OBVIOUS
    <2>2. n \in Nat
        BY <2>1, PoppedFacts DEF ShapeInv
    <2>3. PICK s, t, b : s = finish_nodes(n) /\ t = token(cur_token.kind) /\ b = builder \o s
        OBVIOUS
    <2>4. IsSeq(s) /\ IsSeq(t) /\ IsSeq(b)
        BY <1>1, <2>2, <2>3, Calling, ConcatFacts
    <2>5. builder' = b \o t /\ queue' = Step
        BY <1>9, <2>1, <2>3 DEF EarlyClose, Finishes
    <2>6. Here \in Places(builder')
        BY <2>3, <2>4, <2>5, PutJoin, PutByCalling
    <2>7. QED
        BY <1>2, <2>5, <2>6
<1>10. CASE Rekeyword
    <2>1. queue # <<>>
        BY <1>1, <1>10, HereType DEF Rekeyword, At, Branch, MayBeString
    <2>2. PICK t : t = AsString(cur_token)
        OBVIOUS
    <2>3. Len(queue') = Len(queue)
        <3>1. queue' = <<t>> \o Tail(queue)
            BY <1>10, <2>2 DEF Rekeyword, Relabelled
        <3>2. IsSeq(<<t>>) /\ Len(<<t>>) = 1 /\ IsSeq(Tail(queue)) /\ Len(Tail(queue)) = Len(queue) - 1
            BY <1>1, <2>1, Tuples, SeqFacts
        <3>3. QED
            BY <1>1, <3>1, <3>2, ConcatFacts
    <2>4. Here' = Here
        BY <1>1, <2>3 DEF Here
    <2>5. QED
        BY <1>3, <2>4
<1>11. CASE CloseNode \/ Stop \/ Expand \/ MissingClose \/ Done \/ UNCHANGED vars
    <2>1. queue' = queue
        BY <1>11 DEF CloseNode, Stop, Expand, MissingClose, Done, vars
    <2>2. Here' = Here
        BY <1>1, <2>1 DEF Here
    <2>3. QED
        BY <1>3, <2>2
<1>12. QED
    BY <1>4, <1>6, <1>7, <1>8, <1>9, <1>10, <1>11 DEF Next, parse_inner, recover_error

\* A token in the tree stays there; one that is new comes last, from what is put.
LEMMA TokensStep ==
    ASSUME ShapeInv, NEW c, IsSeq(c), builder' = builder \o c
    PROVE  /\ \A i \in Tokens : i \in Tokens' /\ builder'[i] = builder[i] /\ i <= Len(builder)
           /\ \A i \in Tokens' :
                 \/ i \in Tokens /\ builder'[i] = builder[i]
                 \/ i \notin Tokens /\ i > Len(builder) /\ builder'[i] \in Put(c)
<1>1. IsSeq(builder) /\ Len(builder) \in Nat /\ DOMAIN builder = 1..Len(builder)
    BY SeqFacts DEF ShapeInv, TreeInv
<1>2. Tokens = Made(builder, "token") /\ Tokens' = Made(builder', "token")
    BY DEF Tokens, Made
<1>3. PICK w : w = builder'
    OBVIOUS
<1>4. ASSUME NEW i \in Tokens
      PROVE  i \in Tokens' /\ builder'[i] = builder[i] /\ i <= Len(builder)
    <2>1. i \in Made(w, "token") /\ w[i] = builder[i]
        BY <1>1, <1>2, <1>3, TokenStays
    <2>2. i \in 1..Len(builder)
        BY <1>1 DEF Tokens
    <2>3. QED
        BY <1>1, <1>2, <1>3, <2>1, <2>2
<1>5. ASSUME NEW i \in Tokens'
      PROVE  \/ i \in Tokens /\ builder'[i] = builder[i]
             \/ i \notin Tokens /\ i > Len(builder) /\ builder'[i] \in Put(c)
    <2>1. \/ i \in Made(builder, "token") /\ w[i] = builder[i]
          \/ /\ i - Len(builder) \in Made(c, "token") /\ w[i] = c[i - Len(builder)]
             /\ i > Len(builder)
        BY <1>1, <1>2, <1>3, TokensJoin
    <2>2. i \in Tokens => ~(i > Len(builder))
        BY <1>1 DEF Tokens
    <2>3. QED
        BY <1>2, <1>3, <2>1, <2>2 DEF Put
<1>6. QED
    BY <1>4, <1>5

\* A step loses nothing and keeps the order.
LEMMA LosslessStep ==
    ASSUME ShapeInv, LosslessTree, [Next]_vars
    PROVE  LosslessTree'
<1>1. PICK c, m, n : Makes(c, m, n)
    BY BuilderStep
<1>2. PICK f : Errors(f) /\ errors' = errors \o f
    BY ErrorsStep
<1>3. /\ IsSeq(builder) /\ IsSeq(c) /\ builder' = builder \o c
      /\ IsSeq(errors) /\ IsSeq(f) /\ Here \in Nat /\ Here >= 1
      /\ Len(builder) \in Nat /\ DOMAIN builder = 1..Len(builder)
    BY <1>1, <1>2, HereType, SeqFacts DEF ShapeInv, TreeInv, Makes, Errors
<1>4. \A i \in Tokens : builder[i].at \in 1..Here
    BY DEF ShapeInv, TreeInv
<1>5. ASSUME NEW i \in Tokens'
      PROVE  \/ i \in Tokens /\ builder'[i].at = builder[i].at
             \/ i \notin Tokens /\ i > Len(builder) /\ builder'[i].at = Here
    <2>1. \A x \in Put(c) : x.at = Here
        BY <1>1 DEF Makes, TokensAt, Put
    <2>2. \/ i \in Tokens /\ builder'[i] = builder[i]
          \/ i \notin Tokens /\ i > Len(builder) /\ builder'[i] \in Put(c)
        BY <1>3, TokensStep
    <2>3. QED
        BY <2>1, <2>2
<1>6. ASSUME NEW i \in Tokens', NEW j \in Tokens', i < j
      PROVE  builder'[i].at <= builder'[j].at
    <2>1. CASE i \in Tokens /\ j \in Tokens
        BY <1>5, <1>6, <2>1 DEF LosslessTree
    <2>2. CASE i \in Tokens /\ j \notin Tokens
        <3>1. builder'[i].at = builder[i].at /\ builder'[j].at = Here
            BY <1>5, <2>2
        <3>2. builder[i].at \in 1..Here
            BY <1>4, <2>2
        <3>3. QED
            BY <1>3, <3>1, <3>2
    <2>3. CASE i \notin Tokens
        <3>1. i > Len(builder) /\ builder'[i].at = Here
            BY <1>5, <2>3
        <3>2. j \notin Tokens
            <4>1. Tokens' \in SUBSET Nat
                <5>1. IsSeq(builder')
                    BY <1>3, ConcatFacts
                <5>2. QED
                    BY <5>1, SeqFacts DEF Tokens
            <4>2. j \notin 1..Len(builder)
                BY <1>3, <1>6, <3>1, <4>1
            <4>3. QED
                BY <1>3, <4>2 DEF Tokens
        <3>3. QED
            <4>1. builder'[j].at = Here
                BY <1>5, <3>2
            <4>2. QED
                BY <1>3, <3>1, <4>1
    <2>4. QED
        BY <2>1, <2>2, <2>3
<1>7. Places(builder) \subseteq Places(builder') /\ RefusedAt \subseteq RefusedAt'
    BY <1>2, <1>3, PutJoin, ErrorsJoin
<1>8. 1..(Here - 1) \subseteq Places(builder) \cup RefusedAt
    BY DEF LosslessTree, Places, Tokens, Made
<1>9. 1..(Here' - 1) \subseteq Places(builder') \cup RefusedAt'
    <2>1. CASE Here' = Here
        BY <1>7, <1>8, <2>1
    <2>2. CASE Here' = Here + 1
        <3>1. Here \in Places(builder') \cup RefusedAt'
            <4>1. CASE Here \in Places(builder')
                BY <4>1
            <4>2. CASE errors' = errors \o Error("UnexpectedEof", Here)
                <5>1. PICK g : g = Error("UnexpectedEof", Here)
                    OBVIOUS
                <5>2. IsSeq(g) /\ 1 \in DOMAIN g /\ g[1].kind = "UnexpectedEof" /\ g[1].at = Here
                    BY <5>1, ErrorFacts
                <5>3. g[1].at \in RefusedAt'
                    BY <1>3, <4>2, <5>1, <5>2, ErrorsJoin
                <5>4. QED
                    BY <5>2, <5>3
            <4>3. QED
                BY <2>2, <4>1, <4>2, ReadsIntoTheTree
        <3>2. ASSUME NEW k \in 1..(Here' - 1)
              PROVE  k \in 1..(Here - 1) \/ k = Here
            BY <1>3, <2>2
        <3>3. QED
            BY <1>7, <1>8, <3>1, <3>2
    <2>3. QED
        BY <2>1, <2>2, ReadsIntoTheTree
<1>10. QED
    BY <1>6, <1>9 DEF LosslessTree, Places, Tokens, Made

\* Whatever the text: every token that was read is in the tree, in its order,
\* but for the openings beyond the limit, and those are reported.
THEOREM TreeStaysLossless == Spec => []LosslessTree
<1>1. Init => ShapeInv /\ LosslessTree
    <2>1. ASSUME Init
          PROVE  ShapeInv /\ LosslessTree
        <3>1. ShapeInv /\ builder = start_node("ROOT") /\ queue = source
            BY <2>1, ShapeAtFirst DEF Init
        <3>2. Tokens = {}
            BY <3>1, Calling DEF Tokens, Made
        <3>3. Here = 1
            BY <3>1, SeqFacts DEF Here, ShapeInv, QueueInv
        <3>4. QED
            BY <3>1, <3>2, <3>3 DEF LosslessTree
    <2>2. QED
        BY <2>1
<1>2. ShapeInv /\ LosslessTree /\ [Next]_vars => (ShapeInv /\ LosslessTree)'
    BY ShapeStep, LosslessStep
<1>3. QED
    BY <1>1, <1>2, PTL DEF Spec

-----------------------------------------------------------------------------
(* The errors in the tree *)

\* What speaks for a token in the tree that is an error.
Excused(i) ==
    \/ builder[i].at \in Reported
    \/ builder[i].at > Len(source) /\ errors # <<>>
    \/ \E j \in Tokens : /\ j < i /\ builder[j].kind = "ERROR"
                         /\ \A k \in Tokens : j < k /\ k < i => builder[k].kind \in OUTBAND

\* While synchronize passes over tokens, an error is the last thing in the tree.
SkipInv ==
    skipping => \E j \in Tokens : /\ builder[j].kind = "ERROR"
                                  /\ \A k \in Tokens : j < k => builder[k].kind \in OUTBAND

\* What excuses an error goes on to do so.
LEMMA ExcuseStays ==
    ASSUME ShapeInv, [Next]_vars, NEW i \in Tokens, Excused(i)
    PROVE  Excused(i)'
<1>1. PICK c, m, n : Makes(c, m, n)
    BY BuilderStep
<1>2. PICK f : Errors(f) /\ errors' = errors \o f
    BY ErrorsStep
<1>3. IsSeq(c) /\ builder' = builder \o c /\ source' = source
    BY <1>1, QueueStep DEF Makes, ShapeInv
<1>4. Reported \subseteq Reported' /\ (errors # <<>> => errors' # <<>>)
    BY <1>2, ErrorsJoin DEF ShapeInv, TreeInv, Errors
<1>5. ASSUME NEW j \in Tokens
      PROVE  j \in Tokens' /\ builder'[j] = builder[j] /\ j <= Len(builder)
    BY <1>3, TokensStep
<1>6. CASE builder[i].at \in Reported
    BY <1>4, <1>5, <1>6 DEF Excused
<1>7. CASE builder[i].at > Len(source) /\ errors # <<>>
    BY <1>3, <1>4, <1>5, <1>7 DEF Excused
<1>8. ASSUME NEW j \in Tokens, j < i, builder[j].kind = "ERROR",
             \A k \in Tokens : j < k /\ k < i => builder[k].kind \in OUTBAND
      PROVE  Excused(i)'
    <2>1. ASSUME NEW k \in Tokens', j < k, k < i
          PROVE  builder'[k].kind \in OUTBAND
        <3>1. Len(builder) \in Nat /\ i \in Nat /\ i <= Len(builder) /\ IsSeq(builder')
            BY <1>3, <1>5, SeqFacts, ConcatFacts DEF ShapeInv, TreeInv, Tokens
        <3>2. k \in Nat
            BY <3>1, SeqFacts DEF Tokens
        <3>3. ~(k > Len(builder))
            BY <2>1, <3>1, <3>2
        <3>4. k \in Tokens /\ builder'[k] = builder[k]
            BY <1>3, <3>3, TokensStep
        <3>5. QED
            BY <1>8, <2>1, <3>4
    <2>2. j \in Tokens' /\ builder'[j].kind = "ERROR"
        BY <1>5, <1>8
    <2>3. QED
        BY <1>8, <2>1, <2>2 DEF Excused
<1>9. QED
    BY <1>6, <1>7, <1>8 DEF Excused

\* One token is put last.
LEMMA PutsOne ==
    ASSUME ShapeInv, NEW kind, builder' = builder \o token(kind)
    PROVE  /\ Len(builder) + 1 \in Tokens' /\ builder'[Len(builder) + 1].kind = kind
           /\ \A i \in Tokens : i \in Tokens' /\ builder'[i] = builder[i] /\ i <= Len(builder)
           /\ \A i \in Tokens' : i \in Tokens \/ i = Len(builder) + 1
<1>1. IsSeq(builder) /\ Len(builder) \in Nat
    BY SeqFacts DEF ShapeInv, TreeInv
<1>2. PICK c : c = token(kind)
    OBVIOUS
<1>3. IsSeq(c) /\ Len(c) = 1 /\ c[1].kind = kind /\ Made(c, "token") = {1} /\ builder' = builder \o c
    BY <1>2, Calling
<1>4. Tokens' = Made(builder', "token")
    BY DEF Tokens, Made
<1>5. PICK w : w = builder'
    OBVIOUS
<1>6. 1 \in Made(c, "token") /\ w = builder \o c
    BY <1>3, <1>5
<1>7. Len(builder) + 1 \in Made(w, "token") /\ w[Len(builder) + 1] = c[1]
    <2>1. PICK j \in Made(c, "token") : j = 1
        BY <1>6
    <2>2. Len(builder) + j \in Made(w, "token") /\ w[Len(builder) + j] = c[j]
        <3>1. IsSeq(builder) /\ IsSeq(c) /\ w = builder \o c
            BY <1>1, <1>3, <1>6
        <3>2. QED
            BY <3>1, TokenComes
    <2>3. QED
        BY <2>1, <2>2
<1>8. \A i \in Tokens : i \in Tokens' /\ builder'[i] = builder[i] /\ i <= Len(builder)
    BY <1>3, TokensStep
<1>9. ASSUME NEW i \in Tokens', i \notin Tokens
      PROVE  i = Len(builder) + 1
    <2>1. i > Len(builder)
        BY <1>3, <1>9, TokensStep
    <2>2. IsSeq(builder') /\ Len(builder') = Len(builder) + 1
        <3>1. IsSeq(builder \o c) /\ Len(builder \o c) = Len(builder) + Len(c)
            BY <1>1, <1>3, ConcatFacts
        <3>2. QED
            BY <1>3, <3>1
    <2>3. i \in 1..(Len(builder) + 1)
        BY <2>2, SeqFacts DEF Tokens
    <2>4. QED
        BY <1>1, <2>1, <2>3
<1>10. QED
    BY <1>3, <1>4, <1>5, <1>7, <1>8, <1>9

\* While tokens are passed over, nothing else is done.
LEMMA SkippingIsAlone ==
    ASSUME [Next]_vars, skipping
    PROVE  synchronize \/ UNCHANGED vars
<1>1. Branch = "synchronize"
    BY DEF Branch
<1>2. QED
    BY <1>1 DEF Next, parse_inner, recover_error, Refuse, CloseNode, EatOutband, Match, Stop, Expand,
       EarlyClose, Rekeyword, MissingClose, Unexpected, At, Done

\* A step that passes over a token leaves an error last.
LEMMA SkipStep ==
    ASSUME ShapeInv, SkipInv, [Next]_vars
    PROVE  SkipInv'
<1>1. SUFFICES ASSUME skipping'
               PROVE  SkipInv'
    BY DEF SkipInv
<1>2. IsSeq(builder) /\ Len(builder) \in Nat
    BY SeqFacts DEF ShapeInv, TreeInv
<1>3. ASSUME builder' = builder \o token("ERROR")
      PROVE  SkipInv'
    <2>1. Len(builder) + 1 \in Tokens' /\ builder'[Len(builder) + 1].kind = "ERROR"
        BY <1>3, PutsOne
    <2>2. ASSUME NEW k \in Tokens'
          PROVE  ~(Len(builder) + 1 < k)
        <3>1. k \in Tokens \/ k = Len(builder) + 1
            BY <1>3, PutsOne
        <3>2. k \in Tokens => k \in 1..Len(builder)
            BY <1>2, SeqFacts DEF Tokens
        <3>3. QED
            BY <1>2, <3>1, <3>2
    <2>3. QED
        BY <2>1, <2>2 DEF SkipInv
<1>4. ASSUME skipping, builder' = builder
      PROVE  SkipInv'
    BY <1>4 DEF SkipInv, Tokens
<1>5. ASSUME skipping, NEW kind \in OUTBAND, builder' = builder \o token(kind)
      PROVE  SkipInv'
    <2>1. PICK j \in Tokens : /\ builder[j].kind = "ERROR"
                              /\ \A k \in Tokens : j < k => builder[k].kind \in OUTBAND
        BY <1>5 DEF SkipInv
    <2>2. j \in Tokens' /\ builder'[j].kind = "ERROR"
        BY <1>5, <2>1, PutsOne
    <2>3. ASSUME NEW k \in Tokens', j < k
          PROVE  builder'[k].kind \in OUTBAND
        <3>1. CASE k \in Tokens
            <4>1. builder'[k] = builder[k]
                BY <1>5, <3>1, PutsOne
            <4>2. QED
                BY <2>1, <2>3, <3>1, <4>1
        <3>2. CASE k = Len(builder) + 1
            BY <1>5, <3>2, PutsOne
        <3>3. QED
            BY <1>5, <3>1, <3>2, PutsOne
    <2>4. QED
        BY <2>2, <2>3 DEF SkipInv
<1>6. CASE skipping
    <2>1. CASE synchronize
        <3>1. ~SyncStops
            BY <1>1, <2>1 DEF synchronize
        <3>2. builder' = builder \o token(IF InCode(cur_token) THEN "ERROR" ELSE cur_token.kind)
            BY <2>1, <3>1 DEF synchronize
        <3>3. QED
            BY <1>3, <1>5, <1>6, <3>2 DEF InCode
    <2>2. CASE UNCHANGED vars
        BY <1>4, <1>6, <2>2 DEF vars
    <2>3. QED
        BY <1>6, <2>1, <2>2, SkippingIsAlone
<1>7. CASE ~skipping
    <2>1. Unexpected
        BY <1>1, <1>7 DEF Next, parse_inner, recover_error, Refuse, CloseNode, EatOutband, Match, Stop, Expand,
           EarlyClose, Rekeyword, MissingClose, synchronize, Done, vars
    <2>2. QED
        BY <1>3, <2>1 DEF Unexpected
<1>8. QED
    BY <1>6, <1>7

\* What a step puts that is an error is reported, or is passed over.
LEMMA ErrorsPut ==
    ASSUME ShapeInv, [Next]_vars, ~synchronize
    PROVE  \E c : /\ IsSeq(c) /\ builder' = builder \o c
                  /\ \A x \in Put(c) : x.kind = "ERROR" =>
                        /\ x.at = Here
                        /\ Here \in Reported' \/ (Here > Len(source) /\ errors' # <<>>)
<1>1. IsSeq(builder) /\ IsSeq(errors)
    BY DEF ShapeInv, TreeInv
<1>2. ASSUME NEW kind, errors' = errors \o Error(kind, Here)
      PROVE  Here \in Reported' /\ errors' # <<>>
    <2>1. PICK f : f = Error(kind, Here)
        OBVIOUS
    <2>2. IsSeq(f) /\ 1 \in DOMAIN f /\ f[1].at = Here /\ f # <<>>
        BY <2>1, ErrorFacts
    <2>3. QED
        <3>1. errors' = errors \o f
            BY <1>2, <2>1
        <3>2. Reported' = Reported \cup {f[i].at : i \in DOMAIN f} /\ errors' # <<>>
            BY <1>1, <2>2, <3>1, ErrorsJoin
        <3>3. QED
            BY <2>2, <3>2
<1>3. CASE builder' = builder
    <2>1. builder' = builder \o <<>>
        BY <1>1, <1>3, ConcatEmptySeq DEF IsSeq
    <2>2. IsSeq(<<>>) /\ Put(<<>>) = {}
        BY Tuples, PutByCalling
    <2>3. QED
        BY <2>1, <2>2
<1>4. CASE Refuse \/ Stop \/ Rekeyword \/ Done \/ UNCHANGED vars
    BY <1>3, <1>4 DEF Refuse, Stop, Rekeyword, Done, vars
<1>5. CASE Expand
    <2>1. PICK c : c = start_node(cur_rule.expect)
        OBVIOUS
    <2>2. IsSeq(c) /\ Put(c) = {}
        BY <2>1, Calling DEF Put
    <2>3. QED
        BY <1>5, <2>1, <2>2 DEF Expand
<1>6. CASE CloseNode
    <2>1. IsSeq(finish_nodes(1)) /\ Put(finish_nodes(1)) = {}
        BY Calling, PutByCalling
    <2>2. QED
        BY <1>6, <2>1 DEF CloseNode
<1>7. ASSUME NEW kind
      PROVE  /\ IsSeq(token(kind))
             /\ \A x \in Put(token(kind)) : x.kind = kind /\ x.at = Here
    BY Calling, PutByCalling
<1>8. CASE EatOutband
    <2>1. cur_token.kind \in OUTBAND
        BY <1>8 DEF EatOutband, At, Branch, InCode
    <2>2. cur_token.kind # "ERROR"
        BY <2>1 DEF OUTBAND
    <2>3. QED
        BY <1>7, <1>8, <2>2 DEF EatOutband
<1>9. CASE Unexpected
    BY <1>2, <1>7, <1>9 DEF Unexpected
<1>10. CASE Match
    <2>1. cur_token.kind # "ERROR"
        BY <1>10, TopFacts DEF Match, At, Branch, ShapeInv, StackInv
    <2>2. PICK s, t : /\ s = token(cur_token.kind)
                      /\ t = IF IsInvalid THEN token("ERROR") ELSE <<>>
        OBVIOUS
    <2>3. IsSeq(s) /\ IsSeq(t)
        BY <2>2, Calling, Tuples
    <2>4. builder' = builder \o (s \o t) /\ IsSeq(s \o t)
        <3>1. builder' = (builder \o s) \o t
            BY <1>10, <2>2 DEF Match
        <3>2. QED
            BY <1>1, <2>3, <3>1, JoinsAssociate, ConcatFacts
    <2>5. Put(s \o t) = Put(s) \cup Put(t)
        BY <2>3, PutJoin
    <2>6. CASE IsInvalid
        <3>1. errors' = errors \o Error("InvalidSymbol", Here)
            BY <1>10, <2>6 DEF Match
        <3>2. \A x \in Put(s \o t) : x.at = Here
            BY <1>7, <2>2, <2>5, <2>6
        <3>3. QED
            BY <1>2, <2>4, <3>1, <3>2
    <2>7. CASE ~IsInvalid
        <3>1. Put(t) = {}
            BY <2>2, <2>7, PutByCalling
        <3>2. \A x \in Put(s \o t) : x.kind # "ERROR"
            BY <1>7, <2>1, <2>2, <2>5, <3>1
        <3>3. QED
            BY <2>4, <3>2
    <2>8. QED
        BY <2>6, <2>7
<1>11. CASE EarlyClose
    <2>1. cur_token.kind # "ERROR"
        <3>1. Closed # {}
            BY <1>11 DEF EarlyClose, At, Branch, find_close
        <3>2. QED
            BY <3>1 DEF Closed
    <2>2. PICK n : n = Cardinality(Popped(find_close(rule_stack, Closed)))
        OBVIOUS
    <2>3. n \in Nat
        BY <2>2, PoppedFacts DEF ShapeInv
    <2>4. PICK s, t : s = finish_nodes(n) /\ t = token(cur_token.kind)
        OBVIOUS
    <2>5. IsSeq(s) /\ IsSeq(t)
        BY <2>3, <2>4, Calling
    <2>6. builder' = builder \o (s \o t) /\ IsSeq(s \o t)
        <3>1. builder' = (builder \o s) \o t
            BY <1>11, <2>2, <2>4 DEF EarlyClose, Finishes
        <3>2. QED
            BY <1>1, <2>5, <3>1, JoinsAssociate, ConcatFacts
    <2>7. Put(s \o t) = Put(s) \cup Put(t) /\ Put(s) = {}
        BY <2>3, <2>4, <2>5, PutJoin, PutByCalling
    <2>8. \A x \in Put(s \o t) : x.kind # "ERROR"
        BY <1>7, <2>1, <2>4, <2>7
    <2>9. QED
        BY <2>6, <2>8
<1>12. CASE MissingClose
    <2>1. cur_token.kind = "END"
        BY <1>12 DEF MissingClose, At, Branch
    <2>2. Here > Len(source)
        <3>1. Len(source) \in Nat /\ Here = Len(source) + 1
            BY <2>1, HereType, SeqFacts DEF ShapeInv, QueueInv
        <3>2. QED
            BY <3>1
    <2>3. errors' # <<>>
        <3>1. PICK f : /\ errors' = errors \o f
                       /\ f = IF Lists = {} THEN Error("UnexpectedEof", Here)
                                            ELSE Error("Dismatched", rule_stack[First(Lists)].at)
            BY <1>12 DEF MissingClose
        <3>2. IsSeq(f) /\ DOMAIN f = {1}
            BY <3>1, ErrorFacts
        <3>3. f # <<>>
            BY <3>2
        <3>4. QED
            BY <1>1, <3>1, <3>2, <3>3, ErrorsJoin
    <2>4. PICK n : n = Cardinality(Popped(Len(rule_stack)))
        OBVIOUS
    <2>5. n \in Nat
        BY <2>4, PoppedFacts DEF ShapeInv
    <2>6. PICK s, t : s = token("ERROR") /\ t = finish_nodes(n)
        OBVIOUS
    <2>7. IsSeq(s) /\ IsSeq(t)
        BY <2>5, <2>6, Calling
    <2>8. builder' = builder \o (s \o t) /\ IsSeq(s \o t)
        <3>1. builder' = (builder \o s) \o t
            BY <1>12, <2>4, <2>6 DEF MissingClose, Finishes
        <3>2. QED
            BY <1>1, <2>7, <3>1, JoinsAssociate, ConcatFacts
    <2>9. Put(s \o t) = Put(s) \cup Put(t) /\ Put(t) = {}
        BY <2>5, <2>6, <2>7, PutJoin, PutByCalling
    <2>10. \A x \in Put(s \o t) : x.at = Here
        BY <1>7, <2>6, <2>9
    <2>11. QED
        BY <2>2, <2>3, <2>8, <2>10
<1>13. QED
    BY <1>4, <1>5, <1>6, <1>8, <1>9, <1>10, <1>11, <1>12 DEF Next, parse_inner, recover_error

\* An error that a step puts into the tree is excused.
LEMMA NewErrorIsExcused ==
    ASSUME ShapeInv, SkipInv, [Next]_vars, NEW i \in Tokens', i \notin Tokens, builder'[i].kind = "ERROR"
    PROVE  Excused(i)'
<1>1. IsSeq(builder) /\ Len(builder) \in Nat /\ source' = source
    BY SeqFacts, QueueStep DEF ShapeInv, TreeInv
<1>2. CASE ~synchronize
    <2>1. PICK c : /\ IsSeq(c) /\ builder' = builder \o c
                   /\ \A x \in Put(c) : x.kind = "ERROR" =>
                        /\ x.at = Here
                        /\ Here \in Reported' \/ (Here > Len(source) /\ errors' # <<>>)
        BY <1>2, ErrorsPut
    <2>2. builder'[i] \in Put(c)
        BY <2>1, TokensStep
    <2>3. QED
        BY <1>1, <2>1, <2>2 DEF Excused
<1>3. CASE synchronize
    <2>1. skipping
        BY <1>3 DEF synchronize, At, Branch
    <2>2. PICK kind : builder' = builder \o token(kind)
        <3>1. ~SyncStops
            BY <1>3 DEF synchronize, Tokens
        <3>2. QED
            BY <1>3, <3>1 DEF synchronize
    <2>3. i = Len(builder) + 1
        BY <2>2, PutsOne
    <2>4. PICK j \in Tokens : /\ builder[j].kind = "ERROR"
                              /\ \A k \in Tokens : j < k => builder[k].kind \in OUTBAND
        BY <2>1 DEF SkipInv
    <2>5. j \in Tokens' /\ builder'[j].kind = "ERROR" /\ j < i
        <3>1. j \in Tokens' /\ builder'[j] = builder[j]
            BY <2>2, PutsOne
        <3>2. j \in 1..Len(builder)
            BY <1>1, SeqFacts DEF Tokens
        <3>3. QED
            BY <1>1, <2>3, <2>4, <3>1, <3>2
    <2>6. ASSUME NEW k \in Tokens', j < k, k < i
          PROVE  builder'[k].kind \in OUTBAND
        <3>1. k # i
            <4>1. ~(i < i)
                BY <1>1, <2>3
            <4>2. QED
                BY <2>6, <4>1
        <3>2. k \in Tokens
            BY <2>2, <2>3, <3>1, PutsOne
        <3>3. builder'[k] = builder[k]
            BY <2>2, <3>2, PutsOne
        <3>4. QED
            BY <2>4, <2>6, <3>2, <3>3
    <2>7. QED
        BY <2>5, <2>6 DEF Excused
<1>4. QED
    BY <1>2, <1>3

\* So every one stays excused.
LEMMA ErrorsAreReportedStep ==
    ASSUME ShapeInv, SkipInv, ErrorsAreReported, [Next]_vars
    PROVE  ErrorsAreReported'
<1>1. \A i \in Tokens : builder[i].kind = "ERROR" => Excused(i)
    BY DEF ErrorsAreReported, Excused
<1>2. ASSUME NEW i \in Tokens', builder'[i].kind = "ERROR"
      PROVE  Excused(i)'
    <2>1. CASE i \in Tokens
        <3>1. PICK c, m, n : Makes(c, m, n)
            BY BuilderStep
        <3>2. builder'[i] = builder[i]
            BY <2>1, <3>1, TokensStep DEF Makes
        <3>3. Excused(i)
            BY <1>1, <1>2, <2>1, <3>2
        <3>4. QED
            BY <2>1, <3>3, ExcuseStays
    <2>2. CASE i \notin Tokens
        BY <1>2, <2>2, NewErrorIsExcused
    <2>3. QED
        BY <2>1, <2>2
<1>3. QED
    BY <1>2 DEF ErrorsAreReported, Excused

\* Whatever the text: recovery passes over nothing in silence. A token that is
\* in the tree as an error is reported, or follows one that is.
THEOREM ErrorsStayReported == Spec => []ErrorsAreReported
<1>1. Init => ShapeInv /\ SkipInv /\ ErrorsAreReported
    <2>1. ASSUME Init
          PROVE  ShapeInv /\ SkipInv /\ ErrorsAreReported
        <3>1. ShapeInv /\ builder = start_node("ROOT") /\ skipping = FALSE
            BY <2>1, ShapeAtFirst DEF Init
        <3>2. Tokens = {}
            BY <3>1, Calling DEF Tokens, Made
        <3>3. QED
            BY <3>1, <3>2 DEF ErrorsAreReported, SkipInv
    <2>2. QED
        BY <2>1
<1>2. ShapeInv /\ SkipInv /\ ErrorsAreReported /\ [Next]_vars => (ShapeInv /\ SkipInv /\ ErrorsAreReported)'
    BY ShapeStep, SkipStep, ErrorsAreReportedStep
<1>3. QED
    BY <1>1, <1>2, PTL DEF Spec

-----------------------------------------------------------------------------
(* Delimiters that pair up *)

\* What is open after each place of a text.
IsOpen(f, text) == f = [n \in 0..Len(text) |-> IF n = 0 THEN <<>> ELSE Pair(f[n - 1], text[n])]

\* There is such a function for every part of a text.
LEMMA OpensUpTo ==
    ASSUME NEW text, IsSeq(text)
    PROVE  \A n \in 0..Len(text) : \E f : f = [m \in 0..n |-> IF m = 0 THEN <<>> ELSE Pair(f[m - 1], text[m])]
<1> DEFINE Upto(f, n) == f = [m \in 0..n |-> IF m = 0 THEN <<>> ELSE Pair(f[m - 1], text[m])]
           S == {n \in 0..Len(text) : \E f : Upto(f, n)}
<1>1. Len(text) \in Nat
    BY SeqFacts
<1>2. 0 \in S
    <2>1. PICK f : f = [m \in 0..0 |-> <<>>]
        OBVIOUS
    <2>2. Upto(f, 0)
        BY <2>1
    <2>3. QED
        BY <1>1, <2>2
<1>3. ASSUME NEW i \in 1..Len(text), i - 1 \in S
      PROVE  i \in S
    <2>1. PICK f : Upto(f, i - 1)
        BY <1>3
    <2>2. i \in Nat /\ i # 0 /\ i - 1 \in 0..(i - 1)
        BY <1>1
    <2>3. PICK g : g = [m \in 0..i |-> IF m = i THEN Pair(f[i - 1], text[i]) ELSE f[m]]
        OBVIOUS
    <2>4. ASSUME NEW m \in 0..i
          PROVE  g[m] = IF m = 0 THEN <<>> ELSE Pair(g[m - 1], text[m])
        <3>1. CASE m = 0
            <4>1. g[m] = f[m] /\ m \in 0..(i - 1)
                BY <2>2, <2>3, <3>1
            <4>2. f[m] = <<>>
                BY <2>1, <3>1, <4>1
            <4>3. QED
                BY <3>1, <4>1, <4>2
        <3>2. CASE m # 0 /\ m # i
            <4>1. m \in 0..(i - 1) /\ m - 1 \in 0..(i - 1) /\ m - 1 \in 0..i /\ m - 1 # i
                BY <2>2, <2>4, <3>2
            <4>2. g[m] = f[m] /\ g[m - 1] = f[m - 1]
                BY <2>3, <3>2, <4>1
            <4>3. f[m] = Pair(f[m - 1], text[m])
                BY <2>1, <3>2, <4>1
            <4>4. QED
                BY <3>2, <4>2, <4>3
        <3>3. CASE m = i
            <4>1. i - 1 \in 0..i /\ i - 1 # i /\ i \in 0..i
                BY <2>2
            <4>2. g[i - 1] = f[i - 1] /\ g[i] = Pair(f[i - 1], text[i])
                BY <2>3, <4>1
            <4>3. QED
                BY <2>2, <3>3, <4>2
        <3>4. QED
            BY <3>1, <3>2, <3>3
    <2>5. Upto(g, i)
        <3>1. g = [m \in 0..i |-> g[m]]
            BY <2>3
        <3>2. QED
            BY <2>4, <3>1
    <2>6. QED
        BY <1>1, <2>5
<1>4. \A i \in 0..Len(text) : i \in S
    <2> HIDE DEF S
    <2>1. QED
        BY <1>1, <1>2, <1>3, Induction
<1>5. QED
    BY <1>4

\* OpenAfter is what is open at the end.
LEMMA OpenAfterIsLast ==
    ASSUME NEW text, IsSeq(text)
    PROVE  \E f : IsOpen(f, text) /\ OpenAfter(text) = f[Len(text)]
<1>1. Len(text) \in 0..Len(text)
    BY SeqFacts
<1>2. \E f : IsOpen(f, text)
    BY <1>1, OpensUpTo DEF IsOpen
<1>3. PICK g : g = CHOOSE f : IsOpen(f, text)
    OBVIOUS
<1>4. IsOpen(g, text)
    BY <1>2, <1>3
<1>5. OpenAfter(text) = g[Len(text)]
    BY <1>3 DEF OpenAfter, IsOpen
<1>6. QED
    BY <1>4, <1>5

\* How it changes from one place to the next.
LEMMA OpenNext ==
    ASSUME NEW text, IsSeq(text), NEW f, IsOpen(f, text)
    PROVE  /\ f[0] = <<>>
           /\ \A n \in 1..Len(text) : f[n] = Pair(f[n - 1], text[n])
<1>1. Len(text) \in Nat
    BY SeqFacts
<1>2. \A n \in 0..Len(text) : f[n] = IF n = 0 THEN <<>> ELSE Pair(f[n - 1], text[n])
    BY DEF IsOpen
<1>3. 0 \in 0..Len(text) /\ \A n \in 1..Len(text) : n \in 0..Len(text) /\ n # 0
    BY <1>1
<1>4. QED
    BY <1>2, <1>3

-----------------------------------------------------------------------------
(* The rules for delimiters *)

Rights == {"R_PAREN", "R_BRACKET", "R_BRACE"}

\* A rule for a delimiter is met once, and one for an opening is on top.
RuleInv ==
    /\ \A i \in DOMAIN rule_stack : rule_stack[i].expect \in Delimiters => rule_stack[i].notation = "Once"
    /\ \A i \in DOMAIN rule_stack : i >= 2 => rule_stack[i].expect \notin L_DELIMITERS

\* Delimiters and the end are tokens: nothing comes of their rules.
LEMMA TokensAreNotExpanded ==
    ASSUME cur_rule.expect \in Delimiters \cup {"END"}
    PROVE  Expansion = <<>>
<1>1. Alternatives(cur_rule.expect) = <<>>
    <2>1. cur_rule.expect \in {"L_PAREN", "L_BRACKET", "L_BRACE", "R_PAREN", "R_BRACKET", "R_BRACE", "END"}
        BY DEF Delimiters, Closing
    <2>2. cur_rule.expect \notin DOMAIN Forms
        BY <2>1 DEF Forms
    <2>3. cur_rule.expect \notin DOMAIN Bindings
        BY <2>1 DEF Bindings
    <2>4. cur_rule.expect \notin DOMAIN Loops
        BY <2>1 DEF Loops
    <2>5. cur_rule.expect \notin DOMAIN Matching
        BY <2>1 DEF Matching
    <2>6. QED
        BY <2>2, <2>3, <2>4, <2>5 DEF Alternatives
<1>2. cur_rule.expect # "N_MATCH_TRY_CLAUSE"
    BY DEF Delimiters, Closing
<1> DEFINE all == Alternatives(cur_rule.expect)
           fit == {i \in 1..Len(all) : first_set(Head(all[i]).expect, cur_token.kind)}
           try == {i \in 1..Len(TryAlternatives) :
                       /\ cur_rule.expect = "N_MATCH_TRY_CLAUSE" /\ cur_token.kind = "L_PAREN"
                       /\ peek \in TryAlternatives[i].peek}
<1>3. fit = {}
    <2>1. Len(all) = 0
        BY <1>1
    <2>2. 1..Len(all) = {}
        BY <2>1
    <2>3. QED
        BY <2>2
<1>4. try = {}
    BY <1>2
<1>5. QED
    BY <1>3, <1>4 DEF Expansion

\* The rules of an alternative: none is for a delimiter, or the first is for an
\* opening and the last for its closing.
LEMMA ClauseParts ==
    ASSUME NEW p, IsClause(p)
    PROVE  \/ \A i \in 1..Len(p) : IsInner(p[i])
           \/ \E o \in L_DELIMITERS :
                 /\ Len(p) >= 2 /\ p[1] = One(o) /\ p[Len(p)] = One(Closing[o])
                 /\ \A i \in 2..(Len(p) - 1) : IsInner(p[i])
<1>1. CASE p # <<>> /\ Inner(p)
    <2>1. DOMAIN p = 1..Len(p)
        BY <1>1, SeqFacts DEF Inner
    <2>2. QED
        BY <1>1, <2>1 DEF Inner
<1>2. ASSUME NEW o \in DOMAIN Closing, NEW inner, Inner(inner),
             p = <<One(o)>> \o inner \o <<One(Closing[o])>>
      PROVE  \E a \in L_DELIMITERS :
                 /\ Len(p) >= 2 /\ p[1] = One(a) /\ p[Len(p)] = One(Closing[a])
                 /\ \A i \in 2..(Len(p) - 1) : IsInner(p[i])
    <2>1. PICK first, last : first = One(o) /\ last = One(Closing[o])
        OBVIOUS
    <2>2. /\ IsSeq(<<first>>) /\ Len(<<first>>) = 1 /\ <<first>>[1] = first
          /\ IsSeq(<<last>>) /\ Len(<<last>>) = 1 /\ <<last>>[1] = last
        BY Tuples
    <2>3. IsSeq(inner) /\ Len(inner) \in Nat /\ \A i \in 1..Len(inner) : IsInner(inner[i])
        BY <1>2, SeqFacts DEF Inner
    <2>4. PICK q : q = <<first>> \o inner
        OBVIOUS
    <2>5. /\ IsSeq(q) /\ Len(q) = 1 + Len(inner) /\ \A i \in 1..1 : q[i] = <<first>>[i]
          /\ \A i \in 1..Len(inner) : q[1 + i] = inner[i]
        BY <2>2, <2>3, <2>4, ConcatFacts
    <2>6. PICK w : w = q \o <<last>>
        OBVIOUS
    <2>7. /\ IsSeq(w) /\ Len(w) = Len(q) + 1 /\ \A i \in 1..Len(q) : w[i] = q[i]
          /\ \A i \in 1..1 : w[Len(q) + i] = <<last>>[i]
        BY <2>2, <2>5, <2>6, ConcatFacts
    <2>8. p = w
        BY <1>2, <2>1, <2>4, <2>6
    <2>9. Len(w) >= 2 /\ w[1] = first /\ w[Len(w)] = last
        BY <2>2, <2>3, <2>5, <2>7
    <2>10. ASSUME NEW i \in 2..(Len(w) - 1)
           PROVE  IsInner(w[i])
        <3>1. i - 1 \in 1..Len(inner) /\ 1 + (i - 1) = i /\ i \in 1..Len(q)
            BY <2>3, <2>5, <2>7
        <3>2. w[i] = inner[i - 1]
            BY <2>5, <2>7, <3>1
        <3>3. QED
            BY <2>3, <3>1, <3>2
    <2>11. o \in L_DELIMITERS
        BY DEF L_DELIMITERS, Closing
    <2>12. QED
        BY <2>1, <2>8, <2>9, <2>10, <2>11
<1>3. QED
    BY <1>1, <1>2 DEF IsClause

\* The delimiters, and their closings.
LEMMA DelimiterFacts ==
    /\ L_DELIMITERS \subseteq Delimiters /\ Rights \subseteq Delimiters
    /\ Delimiters = L_DELIMITERS \cup Rights /\ L_DELIMITERS \cap Rights = {}
    /\ \A o \in L_DELIMITERS : Closing[o] \in Rights
    /\ \A kind : One(kind).expect = kind /\ One(kind).notation = "Once"
    /\ "END" \notin Delimiters
BY DEF L_DELIMITERS, Rights, Delimiters, Closing, One, Rule

\* What an expansion puts on the stack, as far as delimiters go.
LEMMA ExpansionRules ==
    ASSUME StackInv, Expand, NEW e, NEW r, NEW at, Pushes(e, r, at)
    PROVE  /\ cur_rule.expect \notin Delimiters
           /\ e \in Nat /\ e >= 1 /\ r \in {0, 1}
           /\ rule_stack'[e + 1].expect \notin Delimiters
           /\ r = 1 => rule_stack'[e + 2].expect \notin Delimiters
           /\ \/ \A i \in 1..e : rule_stack'[i].expect \notin Delimiters
              \/ \E o \in L_DELIMITERS :
                    /\ e >= 2 /\ rule_stack'[1] = One(o) /\ rule_stack'[e] = One(Closing[o])
                    /\ \A i \in 2..(e - 1) : rule_stack'[i].expect \notin Delimiters
<1>1. Expansion # <<>>
    BY DEF Expand, At, Branch
<1>2. cur_rule.expect \notin Delimiters
    BY <1>1, TokensAreNotExpanded
<1>3. PICK p : p = Expansion
    OBVIOUS
<1>4. IsClause(p) /\ p # <<>> /\ IsSeq(p)
    BY <1>1, <1>3, ExpansionIsClause, ClauseFacts
<1>5. e = Len(p) /\ e \in Nat /\ e >= 1 /\ r \in {0, 1} /\ \A i \in 1..e : rule_stack'[i] = p[i]
    <2>1. e = Len(p) /\ e \in Nat /\ r \in {0, 1} /\ \A i \in 1..e : rule_stack'[i] = p[i]
        BY <1>3 DEF Pushes
    <2>2. e # 0
        BY <1>4, <2>1, SeqFacts
    <2>3. QED
        BY <2>1, <2>2
<1>6. rule_stack'[e + 1].expect = cur_rule.expect
    BY DEF Pushes, Close, Rule
<1>7. r = 1 => rule_stack'[e + 2].expect = cur_rule.expect
    BY DEF Pushes
<1>8. CASE \A i \in 1..Len(p) : IsInner(p[i])
    <2>1. \A i \in 1..e : rule_stack'[i].expect \notin Delimiters
        BY <1>5, <1>8 DEF IsInner
    <2>2. QED
        BY <1>2, <1>5, <1>6, <1>7, <2>1
<1>9. ASSUME NEW o \in L_DELIMITERS, Len(p) >= 2, p[1] = One(o), p[Len(p)] = One(Closing[o]),
             \A i \in 2..(Len(p) - 1) : IsInner(p[i])
      PROVE  /\ e >= 2 /\ rule_stack'[1] = One(o) /\ rule_stack'[e] = One(Closing[o])
             /\ \A i \in 2..(e - 1) : rule_stack'[i].expect \notin Delimiters
    <2>1. e >= 2 /\ 1 \in 1..e /\ e \in 1..e /\ \A i \in 2..(e - 1) : i \in 1..e
        BY <1>5, <1>9
    <2>2. rule_stack'[1] = One(o) /\ rule_stack'[e] = One(Closing[o])
        BY <1>5, <1>9, <2>1
    <2>3. \A i \in 2..(e - 1) : rule_stack'[i].expect \notin Delimiters
        BY <1>5, <1>9, <2>1 DEF IsInner
    <2>4. QED
        BY <2>1, <2>2, <2>3
<1>10. QED
    BY <1>2, <1>4, <1>5, <1>6, <1>7, <1>8, <1>9, ClauseParts

\* The rules for delimiters stay so.
LEMMA RuleStep ==
    ASSUME QueueInv, StackInv, RuleInv, [Next]_vars
    PROVE  RuleInv'
<1>1. ASSUME NEW n, Pops(n)
      PROVE  RuleInv'
    <2>1. Len(rule_stack) \in Nat /\ DOMAIN rule_stack = 1..Len(rule_stack) /\ n \in Nat
          /\ DOMAIN rule_stack' = 1..(Len(rule_stack) - n)
        BY <1>1, SeqFacts DEF Pops, StackInv
    <2>2. ASSUME NEW i \in DOMAIN rule_stack'
          PROVE  /\ n + i \in DOMAIN rule_stack /\ rule_stack'[i] = rule_stack[n + i]
                 /\ i >= 2 => n + i >= 2
        BY <1>1, <2>1 DEF Pops
    <2>3. QED
        BY <2>2 DEF RuleInv
<1>2. CASE CloseNode \/ Match \/ Stop
    BY <1>1, <1>2, SkipPops DEF CloseNode, Match, Stop, At
<1>3. CASE EarlyClose
    BY <1>1, <1>3, EarlyClosePops
<1>4. CASE MissingClose
    BY <1>1, <1>4, MissingClosePops
<1>5. CASE Expand
    <2>1. PICK e, r, at : Pushes(e, r, at)
        BY <1>5, ExpandPushes
    <2>2. /\ cur_rule.expect \notin Delimiters
          /\ e \in Nat /\ e >= 1 /\ r \in {0, 1}
          /\ rule_stack'[e + 1].expect \notin Delimiters
          /\ r = 1 => rule_stack'[e + 2].expect \notin Delimiters
          /\ \/ \A i \in 1..e : rule_stack'[i].expect \notin Delimiters
             \/ \E o \in L_DELIMITERS :
                   /\ e >= 2 /\ rule_stack'[1] = One(o) /\ rule_stack'[e] = One(Closing[o])
                   /\ \A i \in 2..(e - 1) : rule_stack'[i].expect \notin Delimiters
        BY <1>5, <2>1, ExpansionRules
    <2>3. rule_stack # <<>> /\ Len(rule_stack) \in Nat /\ DOMAIN rule_stack = 1..Len(rule_stack)
          /\ DOMAIN rule_stack' = 1..(Len(rule_stack) + (e + r))
        BY <1>5, <2>1, TopFacts, SeqFacts DEF Expand, At, Pushes
    <2>4. ASSUME NEW i \in DOMAIN rule_stack'
          PROVE  /\ rule_stack'[i].expect \in Delimiters => rule_stack'[i].notation = "Once"
                 /\ i >= 2 => rule_stack'[i].expect \notin L_DELIMITERS
        <3>1. CASE i <= e
            <4>1. CASE \A j \in 1..e : rule_stack'[j].expect \notin Delimiters
                BY <2>2, <2>3, <3>1, <4>1, DelimiterFacts
            <4>2. ASSUME NEW o \in L_DELIMITERS, e >= 2, rule_stack'[1] = One(o), rule_stack'[e] = One(Closing[o]),
                         \A j \in 2..(e - 1) : rule_stack'[j].expect \notin Delimiters
                  PROVE  /\ rule_stack'[i].expect \in Delimiters => rule_stack'[i].notation = "Once"
                         /\ i >= 2 => rule_stack'[i].expect \notin L_DELIMITERS
                <5>1. i = 1 \/ i = e \/ i \in 2..(e - 1)
                    BY <2>2, <2>3, <3>1
                <5>2. CASE i = 1
                    BY <4>2, <5>2, DelimiterFacts
                <5>3. CASE i = e
                    BY <4>2, <5>3, DelimiterFacts
                <5>4. CASE i \in 2..(e - 1)
                    BY <4>2, <5>4, DelimiterFacts
                <5>5. QED
                    BY <5>1, <5>2, <5>3, <5>4
            <4>3. QED
                BY <2>2, <4>1, <4>2
        <3>2. CASE i = e + 1 \/ (r = 1 /\ i = e + 2)
            BY <2>2, <3>2, DelimiterFacts
        <3>3. CASE i > e + 1 + r
            <4>1. i - (e + r) \in 2..Len(rule_stack) /\ i = (i - (e + r)) + (e + r)
                <5>1. e \in Nat /\ r \in {0, 1}
                    BY <2>2
                <5>2. i \in 1..(Len(rule_stack) + (e + r)) /\ Len(rule_stack) \in Nat
                    BY <2>3
                <5>3. QED
                    BY <3>3, <5>1, <5>2
            <4>2. rule_stack'[i] = rule_stack[i - (e + r)]
                BY <2>1, <4>1 DEF Pushes
            <4>3. i - (e + r) \in DOMAIN rule_stack /\ i - (e + r) >= 2
                BY <2>3, <4>1
            <4>4. QED
                BY <4>2, <4>3 DEF RuleInv
        <3>4. QED
            BY <2>2, <2>3, <3>1, <3>2, <3>3
    <2>5. QED
        BY <2>4 DEF RuleInv
<1>6. CASE Refuse \/ EatOutband \/ Rekeyword \/ Unexpected \/ synchronize \/ Done \/ UNCHANGED vars
    <2>1. rule_stack' = rule_stack
        BY <1>6 DEF Refuse, EatOutband, Rekeyword, Unexpected, synchronize, Done, vars
    <2>2. QED
        BY <2>1 DEF RuleInv
<1>7. QED
    BY <1>2, <1>3, <1>4, <1>5, <1>6 DEF Next, parse_inner, recover_error

-----------------------------------------------------------------------------
(* The closings that wait on the stack *)

Closers == {i \in DOMAIN rule_stack : rule_stack[i].expect \in Rights}

\* g names the places on the stack of the closings in open.
Enumerates(g, open) ==
    /\ \A j \in 1..Len(open) : g[j] \in Closers /\ rule_stack[g[j]].expect = open[j]
    /\ \A j, k \in 1..Len(open) : j < k => g[j] < g[k]
    /\ \A i \in Closers : \E j \in 1..Len(open) : g[j] = i

Pending(open) == IsSeq(open) /\ \E g : Enumerates(g, open)

\* A rule that is no closing is popped.
LEMMA PendingPops ==
    ASSUME StackInv, rule_stack # <<>>, Pops(1), cur_rule.expect \notin Rights,
           NEW open, Pending(open)
    PROVE  Pending(open)'
<1>1. /\ Len(rule_stack) \in Nat /\ DOMAIN rule_stack = 1..Len(rule_stack) /\ cur_rule = rule_stack[1]
      /\ DOMAIN rule_stack' = 1..(Len(rule_stack) - 1)
      /\ \A i \in 1..(Len(rule_stack) - 1) : rule_stack'[i] = rule_stack[1 + i]
    BY TopFacts, SeqFacts DEF Pops
<1>2. PICK g : Enumerates(g, open)
    BY DEF Pending
<1>3. Len(open) \in Nat /\ IsSeq(open)
    BY SeqFacts DEF Pending
<1>4. PICK h : h = [j \in 1..Len(open) |-> g[j] - 1]
    OBVIOUS
<1>5. ASSUME NEW i \in Closers
      PROVE  /\ i \in Int /\ i - 1 \in Closers' /\ rule_stack'[i - 1] = rule_stack[i]
    <2>1. i \in 1..Len(rule_stack) /\ i # 1
        BY <1>1, <1>5 DEF Closers
    <2>2. i - 1 \in 1..(Len(rule_stack) - 1) /\ 1 + (i - 1) = i
        BY <1>1, <2>1
    <2>3. rule_stack'[i - 1] = rule_stack[i]
        BY <1>1, <2>2
    <2>4. QED
        BY <1>1, <1>5, <2>1, <2>2, <2>3 DEF Closers
<1>6. ASSUME NEW j \in 1..Len(open)
      PROVE  h[j] \in Closers' /\ rule_stack'[h[j]].expect = open[j]
    <2>1. g[j] \in Closers /\ rule_stack[g[j]].expect = open[j] /\ h[j] = g[j] - 1
        BY <1>2, <1>4 DEF Enumerates
    <2>2. QED
        BY <1>5, <2>1
<1>7. ASSUME NEW j \in 1..Len(open), NEW k \in 1..Len(open), j < k
      PROVE  h[j] < h[k]
    <2>1. g[j] < g[k] /\ g[j] \in Int /\ g[k] \in Int
        BY <1>2, <1>5, <1>7 DEF Enumerates
    <2>2. QED
        BY <1>4, <2>1
<1>8. ASSUME NEW i \in Closers'
      PROVE  \E j \in 1..Len(open) : h[j] = i
    <2>1. i \in 1..(Len(rule_stack) - 1) /\ 1 + i \in Closers
        BY <1>1, <1>8 DEF Closers
    <2>2. PICK j \in 1..Len(open) : g[j] = 1 + i
        BY <1>2, <2>1 DEF Enumerates
    <2>3. h[j] = g[j] - 1
        BY <1>4
    <2>4. i \in Int
        BY <2>1
    <2>5. (1 + i) - 1 = i
        BY <2>4
    <2>6. QED
        BY <2>2, <2>3, <2>5
<1>9. Enumerates(h, open)'
    BY <1>6, <1>7, <1>8 DEF Enumerates
<1>10. QED
    BY <1>3, <1>9 DEF Pending

\* A closing is popped: it is the first of those that wait.
LEMMA PendingPopsOne ==
    ASSUME StackInv, rule_stack # <<>>, Pops(1), cur_rule.expect \in Rights,
           NEW open, Pending(open)
    PROVE  open # <<>> /\ Head(open) = cur_rule.expect /\ Pending(Tail(open))'
<1>1. /\ Len(rule_stack) \in Nat /\ DOMAIN rule_stack = 1..Len(rule_stack) /\ cur_rule = rule_stack[1]
      /\ DOMAIN rule_stack' = 1..(Len(rule_stack) - 1) /\ 1 \in DOMAIN rule_stack
      /\ \A i \in 1..(Len(rule_stack) - 1) : rule_stack'[i] = rule_stack[1 + i]
    BY TopFacts, SeqFacts DEF Pops
<1>2. PICK g : Enumerates(g, open)
    BY DEF Pending
<1>3. Len(open) \in Nat /\ IsSeq(open)
    BY SeqFacts DEF Pending
<1>4. Closers \in SUBSET (1..Len(rule_stack)) /\ 1 \in Closers
    BY <1>1 DEF Closers
<1>5. PICK n \in 1..Len(open) : g[n] = 1
    BY <1>2, <1>4 DEF Enumerates
<1>6. n = 1
    <2>1. SUFFICES ASSUME n # 1
                   PROVE  FALSE
        OBVIOUS
    <2>2. 1 \in 1..Len(open) /\ 1 < n
        BY <1>3, <2>1
    <2>3. g[1] < 1 /\ g[1] \in 1..Len(rule_stack)
        BY <1>2, <1>4, <1>5, <2>2 DEF Enumerates
    <2>4. QED
        BY <2>3
<1>7. /\ Len(open) >= 1 /\ g[1] = 1 /\ open # <<>> /\ open[1] = cur_rule.expect
    <2>1. Len(open) >= 1 /\ g[1] = 1 /\ 1 \in 1..Len(open)
        BY <1>3, <1>5, <1>6
    <2>2. open[1] = rule_stack[1].expect
        BY <1>2, <2>1 DEF Enumerates
    <2>3. QED
        BY <1>1, <1>3, <2>1, <2>2, SeqFacts
<1>8. PICK t : t = Tail(open)
    OBVIOUS
<1>9. /\ Head(open) = open[1] /\ IsSeq(t) /\ Len(t) = Len(open) - 1
      /\ \A i \in 1..(Len(open) - 1) : t[i] = open[i + 1]
    BY <1>3, <1>7, <1>8, SeqFacts
<1>10. PICK h : h = [j \in 1..Len(t) |-> g[j + 1] - 1]
    OBVIOUS
<1>11. ASSUME NEW i \in Closers, i # 1
       PROVE  /\ i \in Int /\ i - 1 \in Closers' /\ rule_stack'[i - 1] = rule_stack[i]
    <2>1. i \in 1..Len(rule_stack)
        BY <1>4
    <2>2. i - 1 \in 1..(Len(rule_stack) - 1) /\ 1 + (i - 1) = i
        BY <1>1, <1>11, <2>1
    <2>3. rule_stack'[i - 1] = rule_stack[i]
        BY <1>1, <2>2
    <2>4. QED
        BY <1>1, <1>11, <2>1, <2>2, <2>3 DEF Closers
<1>12. ASSUME NEW j \in 1..Len(t)
       PROVE  /\ j + 1 \in 1..Len(open) /\ h[j] = g[j + 1] - 1 /\ t[j] = open[j + 1]
              /\ g[j + 1] \in Closers /\ g[j + 1] # 1 /\ rule_stack[g[j + 1]].expect = open[j + 1]
    <2>1. j + 1 \in 1..Len(open) /\ 1 \in 1..Len(open) /\ 1 < j + 1
        BY <1>3, <1>7, <1>9
    <2>2. g[j + 1] \in Closers /\ rule_stack[g[j + 1]].expect = open[j + 1] /\ g[1] < g[j + 1]
        BY <1>2, <2>1 DEF Enumerates
    <2>3. g[j + 1] # 1
        BY <1>7, <2>2
    <2>4. t[j] = open[j + 1]
        BY <1>3, <1>9
    <2>5. QED
        BY <1>10, <2>1, <2>2, <2>3, <2>4
<1>13. ASSUME NEW j \in 1..Len(t)
       PROVE  h[j] \in Closers' /\ rule_stack'[h[j]].expect = t[j]
    BY <1>11, <1>12
<1>14. ASSUME NEW j \in 1..Len(t), NEW k \in 1..Len(t), j < k
       PROVE  h[j] < h[k]
    <2>1. j + 1 < k + 1
        BY <1>3, <1>9, <1>14
    <2>2. g[j + 1] < g[k + 1] /\ g[j + 1] \in Int /\ g[k + 1] \in Int
        BY <1>2, <1>11, <1>12, <2>1 DEF Enumerates
    <2>3. QED
        BY <1>12, <2>2
<1>15. ASSUME NEW i \in Closers'
       PROVE  \E j \in 1..Len(t) : h[j] = i
    <2>1. i \in 1..(Len(rule_stack) - 1) /\ 1 + i \in Closers
        BY <1>1, <1>15 DEF Closers
    <2>2. PICK j \in 1..Len(open) : g[j] = 1 + i
        BY <1>2, <2>1 DEF Enumerates
    <2>3. j # 1
        BY <1>1, <1>7, <2>1, <2>2
    <2>4. j - 1 \in 1..Len(t) /\ (j - 1) + 1 = j
        BY <1>3, <1>9, <2>3
    <2>5. h[j - 1] = g[(j - 1) + 1] - 1
        BY <1>10, <2>4
    <2>6. i \in Int
        BY <2>1
    <2>7. (1 + i) - 1 = i
        BY <2>6
    <2>8. QED
        BY <2>2, <2>4, <2>5, <2>7
<1>16. Enumerates(h, t)'
    BY <1>13, <1>14, <1>15 DEF Enumerates
<1>17. Pending(t)'
    BY <1>9, <1>16 DEF Pending
<1>18. QED
    BY <1>7, <1>8, <1>9, <1>17

\* Rules that are no closings are pushed.
LEMMA PendingPushes ==
    ASSUME StackInv, rule_stack # <<>>, cur_rule.expect \notin Rights,
           NEW e, NEW r, NEW at, Pushes(e, r, at),
           \A i \in 1..(e + 1 + r) : rule_stack'[i].expect \notin Rights,
           NEW open, Pending(open)
    PROVE  Pending(open)'
<1>1. /\ Len(rule_stack) \in Nat /\ DOMAIN rule_stack = 1..Len(rule_stack) /\ cur_rule = rule_stack[1]
      /\ DOMAIN rule_stack' = 1..(Len(rule_stack) + (e + r)) /\ e \in Nat /\ r \in {0, 1}
    BY TopFacts, SeqFacts DEF Pushes
<1>2. \A i \in 2..Len(rule_stack) : rule_stack'[i + (e + r)] = rule_stack[i]
    BY DEF Pushes
<1>3. PICK g : Enumerates(g, open)
    BY DEF Pending
<1>4. Len(open) \in Nat /\ IsSeq(open)
    BY SeqFacts DEF Pending
<1>5. PICK h : h = [j \in 1..Len(open) |-> g[j] + (e + r)]
    OBVIOUS
<1>6. ASSUME NEW i \in Closers
      PROVE  /\ i \in Int /\ i + (e + r) \in Closers' /\ rule_stack'[i + (e + r)] = rule_stack[i]
    <2>1. i \in 2..Len(rule_stack)
        BY <1>1, <1>6 DEF Closers
    <2>2. rule_stack'[i + (e + r)] = rule_stack[i] /\ i + (e + r) \in DOMAIN rule_stack'
        BY <1>1, <1>2, <2>1
    <2>3. QED
        BY <1>6, <2>1, <2>2 DEF Closers
<1>7. ASSUME NEW j \in 1..Len(open)
      PROVE  h[j] \in Closers' /\ rule_stack'[h[j]].expect = open[j]
    <2>1. g[j] \in Closers /\ rule_stack[g[j]].expect = open[j] /\ h[j] = g[j] + (e + r)
        BY <1>3, <1>5 DEF Enumerates
    <2>2. QED
        BY <1>6, <2>1
<1>8. ASSUME NEW j \in 1..Len(open), NEW k \in 1..Len(open), j < k
      PROVE  h[j] < h[k]
    <2>1. g[j] < g[k] /\ g[j] \in Int /\ g[k] \in Int
        BY <1>3, <1>6, <1>8 DEF Enumerates
    <2>2. QED
        BY <1>1, <1>5, <2>1
<1>9. ASSUME NEW i \in Closers'
      PROVE  \E j \in 1..Len(open) : h[j] = i
    <2>1. i \in 1..(Len(rule_stack) + (e + r)) /\ i \notin 1..(e + 1 + r)
        BY <1>1, <1>9 DEF Closers
    <2>2. i - (e + r) \in 2..Len(rule_stack) /\ i = (i - (e + r)) + (e + r)
        BY <1>1, <2>1
    <2>3. i - (e + r) \in Closers
        BY <1>1, <1>2, <1>9, <2>2 DEF Closers
    <2>4. PICK j \in 1..Len(open) : g[j] = i - (e + r)
        BY <1>3, <2>3 DEF Enumerates
    <2>5. h[j] = i
        BY <1>5, <2>2, <2>4
    <2>6. QED
        BY <2>5
<1>10. Enumerates(h, open)'
    BY <1>7, <1>8, <1>9 DEF Enumerates
<1>11. QED
    BY <1>4, <1>10 DEF Pending

\* Rules with one closing among them are pushed: it is the first to wait.
LEMMA PendingPushesOne ==
    ASSUME StackInv, rule_stack # <<>>, cur_rule.expect \notin Rights,
           NEW e, NEW r, NEW at, Pushes(e, r, at), e >= 1,
           NEW c \in Rights, rule_stack'[e].expect = c,
           \A i \in 1..(e + 1 + r) : i # e => rule_stack'[i].expect \notin Rights,
           NEW open, Pending(open)
    PROVE  Pending(<<c>> \o open)'
<1>1. /\ Len(rule_stack) \in Nat /\ DOMAIN rule_stack = 1..Len(rule_stack) /\ cur_rule = rule_stack[1]
      /\ DOMAIN rule_stack' = 1..(Len(rule_stack) + (e + r)) /\ e \in Nat /\ r \in {0, 1}
      /\ Len(rule_stack) >= 1
    BY TopFacts, SeqFacts DEF Pushes
<1>2. \A i \in 2..Len(rule_stack) : rule_stack'[i + (e + r)] = rule_stack[i]
    BY DEF Pushes
<1>3. PICK g : Enumerates(g, open)
    BY DEF Pending
<1>4. Len(open) \in Nat /\ IsSeq(open)
    BY SeqFacts DEF Pending
<1>5. PICK w : w = <<c>> \o open
    OBVIOUS
<1>6. /\ IsSeq(w) /\ Len(w) = 1 + Len(open) /\ w[1] = c
      /\ \A j \in 1..Len(open) : w[1 + j] = open[j]
    <2>1. IsSeq(<<c>>) /\ Len(<<c>>) = 1 /\ <<c>>[1] = c
        BY Tuples
    <2>2. /\ IsSeq(w) /\ Len(w) = 1 + Len(open) /\ \A j \in 1..1 : w[j] = <<c>>[j]
          /\ \A j \in 1..Len(open) : w[1 + j] = open[j]
        BY <1>4, <1>5, <2>1, ConcatFacts
    <2>3. QED
        BY <2>1, <2>2
<1>7. PICK h : h = [j \in 1..Len(w) |-> IF j = 1 THEN e ELSE g[j - 1] + (e + r)]
    OBVIOUS
<1>8. ASSUME NEW i \in Closers
      PROVE  /\ i \in Int /\ i >= 2 /\ i + (e + r) \in Closers' /\ rule_stack'[i + (e + r)] = rule_stack[i]
    <2>1. i \in 2..Len(rule_stack)
        BY <1>1, <1>8 DEF Closers
    <2>2. rule_stack'[i + (e + r)] = rule_stack[i] /\ i + (e + r) \in DOMAIN rule_stack'
        BY <1>1, <1>2, <2>1
    <2>3. QED
        BY <1>8, <2>1, <2>2 DEF Closers
<1>9. e \in Closers'
    BY <1>1 DEF Closers
<1>10. h[1] = e /\ 1 \in 1..Len(w)
    BY <1>4, <1>6, <1>7
<1>11. ASSUME NEW j \in 1..Len(w), j # 1
       PROVE  /\ j - 1 \in 1..Len(open) /\ h[j] = g[j - 1] + (e + r) /\ w[j] = open[j - 1]
              /\ g[j - 1] \in Closers /\ rule_stack[g[j - 1]].expect = open[j - 1]
    <2>1. j - 1 \in 1..Len(open) /\ 1 + (j - 1) = j
        BY <1>4, <1>6, <1>11
    <2>2. g[j - 1] \in Closers /\ rule_stack[g[j - 1]].expect = open[j - 1]
        BY <1>3, <2>1 DEF Enumerates
    <2>3. w[j] = open[j - 1]
        BY <1>6, <2>1
    <2>4. QED
        BY <1>7, <1>11, <2>1, <2>2, <2>3
<1>12. ASSUME NEW j \in 1..Len(w)
       PROVE  h[j] \in Closers' /\ rule_stack'[h[j]].expect = w[j]
    <2>1. CASE j = 1
        BY <1>6, <1>9, <1>10, <2>1
    <2>2. CASE j # 1
        BY <1>8, <1>11, <2>2
    <2>3. QED
        BY <2>1, <2>2
<1>13. ASSUME NEW j \in 1..Len(w), NEW k \in 1..Len(w), j < k
       PROVE  h[j] < h[k]
    <2>1. k # 1 /\ j \in Int /\ k \in Int
        BY <1>4, <1>6, <1>13
    <2>2. g[k - 1] \in Closers /\ g[k - 1] \in Int /\ g[k - 1] >= 2 /\ h[k] = g[k - 1] + (e + r)
        BY <1>8, <1>11, <2>1
    <2>3. CASE j = 1
        BY <1>1, <1>10, <2>2, <2>3
    <2>4. CASE j # 1
        <3>1. g[j - 1] \in Int /\ h[j] = g[j - 1] + (e + r) /\ j - 1 \in 1..Len(open) /\ k - 1 \in 1..Len(open)
            BY <1>8, <1>11, <2>1, <2>4
        <3>2. j - 1 < k - 1
            BY <1>13, <2>1
        <3>3. g[j - 1] < g[k - 1]
            BY <1>3, <3>1, <3>2 DEF Enumerates
        <3>4. QED
            BY <1>1, <2>2, <3>1, <3>3
    <2>5. QED
        BY <2>3, <2>4
<1>14. ASSUME NEW i \in Closers'
       PROVE  \E j \in 1..Len(w) : h[j] = i
    <2>1. CASE i = e
        BY <1>10, <2>1
    <2>2. CASE i # e
        <3>1. i \in 1..(Len(rule_stack) + (e + r)) /\ i \notin 1..(e + 1 + r)
            BY <1>1, <1>14, <2>2 DEF Closers
        <3>2. i - (e + r) \in 2..Len(rule_stack) /\ i = (i - (e + r)) + (e + r)
            BY <1>1, <3>1
        <3>3. i - (e + r) \in Closers
            BY <1>1, <1>2, <1>14, <3>2 DEF Closers
        <3>4. PICK j \in 1..Len(open) : g[j] = i - (e + r)
            BY <1>3, <3>3 DEF Enumerates
        <3>5. j + 1 \in 1..Len(w) /\ j + 1 # 1 /\ (j + 1) - 1 = j
            BY <1>4, <1>6
        <3>6. h[j + 1] = g[j] + (e + r)
            BY <1>7, <3>5
        <3>7. QED
            BY <3>2, <3>4, <3>5, <3>6
    <2>3. QED
        BY <2>1, <2>2
<1>15. Enumerates(h, w)'
    BY <1>12, <1>13, <1>14 DEF Enumerates
<1>16. Pending(w)'
    BY <1>6, <1>15 DEF Pending
<1>17. QED
    BY <1>5, <1>16

-----------------------------------------------------------------------------
(* Accepted texts *)

\* Relabelling apart, the queue is the rest of the text.
TextInv ==
    \A i \in DOMAIN queue :
        \/ queue[i].kind = source[Here - 1 + i].kind
        \/ queue[i].kind \notin Delimiters /\ source[Here - 1 + i].kind \notin Delimiters

\* Without an error nothing is skipped, and all is read before the stack is empty.
EndInv ==
    errors = <<>> =>
        /\ ~skipping
        /\ queue = <<>> \/ \E i \in DOMAIN rule_stack : rule_stack[i] = One("END")

\* An opening has been put on the stack, and is not read yet.
OpenTop == rule_stack # <<>> /\ cur_rule.expect \in L_DELIMITERS

\* Without an error the closings that wait on the stack are those of the lists
\* open in the text.
PairInv ==
    errors = <<>> =>
        \A f : IsOpen(f, source) =>
            /\ OpenTop => Pending(<<Closing[cur_rule.expect]>> \o f[Here - 1])
            /\ ~OpenTop => Pending(f[Here - 1])

\* The steps that leave the parser without an error.
LEMMA QuietSteps ==
    ASSUME ShapeInv, EndInv, [Next]_vars, errors' = <<>>
    PROVE  /\ errors = <<>>
           /\ \/ CloseNode \/ EatOutband \/ Match \/ Stop \/ Expand \/ Rekeyword
              \/ Done \/ UNCHANGED vars
<1>1. IsSeq(errors)
    BY DEF ShapeInv, TreeInv
<1>2. errors = <<>>
    <2>1. PICK f : IsSeq(f) /\ errors' = errors \o f
        BY ErrorsStep DEF Errors
    <2>2. QED
        BY <1>1, <2>1, ErrorsJoin
<1>3. ASSUME NEW kind, NEW at, errors' = errors \o Error(kind, at)
      PROVE  FALSE
    <2>1. IsSeq(Error(kind, at)) /\ Error(kind, at) # <<>>
        BY ErrorFacts, Tuples, SeqFacts
    <2>2. QED
        BY <1>1, <1>3, <2>1, ErrorsJoin
<1>4. ~Refuse /\ ~Unexpected
    BY <1>3 DEF Refuse, Unexpected
<1>5. ~MissingClose
    BY <1>3 DEF MissingClose
<1>6. ~EarlyClose
    <2>1. SUFFICES ASSUME EarlyClose
                   PROVE  FALSE
        OBVIOUS
    <2>2. PICK i : i = First(Popped(find_close(rule_stack, Closed)))
        OBVIOUS
    <2>3. PICK a, b : /\ a = Error("Unterminated", Here)
                      /\ b = IF rule_stack[i].at # 0 THEN Error("Unterminated", rule_stack[i].at) ELSE <<>>
        OBVIOUS
    <2>4. errors' = errors \o (a \o b)
        BY <2>1, <2>2, <2>3 DEF EarlyClose, Unterminated
    <2>5. IsSeq(a) /\ Len(a) = 1 /\ IsSeq(b) /\ Len(b) \in Nat
        BY <2>3, ErrorFacts, Tuples, SeqFacts
    <2>6. IsSeq(a \o b) /\ a \o b # <<>>
        <3>1. IsSeq(a) /\ IsSeq(b)
            BY <2>5
        <3>2. IsSeq(a \o b) /\ Len(a \o b) = Len(a) + Len(b)
            BY <3>1, ConcatFacts
        <3>3. QED
            BY <2>5, <3>2, SeqFacts
    <2>7. QED
        BY <1>1, <2>4, <2>6, ErrorsJoin
<1>7. ~synchronize
    BY <1>2 DEF EndInv, synchronize, At, Branch
<1>8. QED
    BY <1>2, <1>4, <1>5, <1>6, <1>7 DEF Next, parse_inner, recover_error

\* What each step makes of the queue and the stack.
LEMMA QueueSteps ==
    ASSUME [Next]_vars
    PROVE  \/ queue' = queue
           \/ queue' = Step
           \/ Rekeyword
BY DEF Next, parse_inner, recover_error, Refuse, CloseNode, EatOutband, Match, Stop, Expand,
   EarlyClose, MissingClose, Unexpected, synchronize, Done, vars

\* A token read takes its place in the text with it.
LEMMA TextStep ==
    ASSUME QueueInv, TextInv, [Next]_vars
    PROVE  TextInv'
<1>1. /\ Len(source) \in Nat /\ Len(queue) \in Nat /\ Here \in Nat /\ IsSeq(queue) /\ source' = source
      /\ DOMAIN queue = 1..Len(queue)
    BY HereType, QueueStep, SeqFacts DEF QueueInv
<1>2. CASE queue' = queue
    BY <1>1, <1>2 DEF TextInv, Here
<1>3. CASE queue' = Step /\ queue # <<>>
    <2>1. queue' = Tail(queue)
        BY <1>3 DEF Step
    <2>2. /\ IsSeq(queue') /\ Len(queue') = Len(queue) - 1 /\ DOMAIN queue' = 1..(Len(queue) - 1)
          /\ \A i \in 1..(Len(queue) - 1) : queue'[i] = queue[i + 1]
        BY <1>1, <1>3, <2>1, SeqFacts
    <2>3. Here' = Here + 1
        BY <1>1, <1>3, StepReads
    <2>4. ASSUME NEW i \in DOMAIN queue'
          PROVE  \/ queue'[i].kind = source'[Here' - 1 + i].kind
                 \/ queue'[i].kind \notin Delimiters /\ source'[Here' - 1 + i].kind \notin Delimiters
        <3>1. i + 1 \in DOMAIN queue /\ queue'[i] = queue[i + 1] /\ i \in Nat
            BY <1>1, <2>2
        <3>2. Here' - 1 + i = Here - 1 + (i + 1)
            BY <1>1, <2>3, <3>1
        <3>3. QED
            BY <1>1, <3>1, <3>2 DEF TextInv
    <2>5. QED
        BY <2>4 DEF TextInv
<1>4. CASE queue' = Step /\ queue = <<>>
    <2>1. queue' = queue
        BY <1>4 DEF Step
    <2>2. QED
        BY <1>2, <2>1
<1>5. CASE Rekeyword
    <2>1. cur_token.kind \in {"KEYWORD_INTO", "KEYWORD_UNTIL"}
        BY <1>5 DEF Rekeyword, At, Branch, MayBeString
    <2>2. queue # <<>>
        BY <2>1, HereType
    <2>3. PICK t : t = AsString(cur_token)
        OBVIOUS
    <2>4. t.kind = "COLON_STRING"
        BY <2>1, <2>3 DEF AsString
    <2>5. PICK r : r = Tail(queue)
        OBVIOUS
    <2>6. /\ queue[1] = cur_token /\ IsSeq(r) /\ Len(r) = Len(queue) - 1
          /\ \A i \in 1..(Len(queue) - 1) : r[i] = queue[i + 1]
        BY <1>1, <2>2, <2>5, SeqFacts DEF cur_token
    <2>7. queue' = <<t>> \o r
        BY <1>5, <2>3, <2>5 DEF Rekeyword, Relabelled
    <2>8. IsSeq(<<t>>) /\ Len(<<t>>) = 1 /\ <<t>>[1] = t
        BY Tuples
    <2>9. /\ IsSeq(queue') /\ Len(queue') = 1 + (Len(queue) - 1)
          /\ \A i \in 1..1 : queue'[i] = <<t>>[i]
          /\ \A i \in 1..(Len(queue) - 1) : queue'[1 + i] = r[i]
        BY <2>6, <2>7, <2>8, ConcatFacts
    <2>10. DOMAIN queue' = 1..Len(queue) /\ Here' = Here /\ queue'[1].kind = "COLON_STRING"
        BY <1>1, <2>4, <2>8, <2>9, SeqFacts DEF Here
    <2>11. ASSUME NEW i \in DOMAIN queue'
           PROVE  \/ queue'[i].kind = source'[Here' - 1 + i].kind
                  \/ queue'[i].kind \notin Delimiters /\ source'[Here' - 1 + i].kind \notin Delimiters
        <3>1. i \in DOMAIN queue
            BY <1>1, <2>10
        <3>2. CASE i = 1
            <4>1. queue[i].kind \notin Delimiters /\ queue'[i].kind \notin Delimiters
                BY <2>1, <2>6, <2>10, <3>2 DEF Delimiters, Closing
            <4>2. source[Here - 1 + i].kind \notin Delimiters
                BY <3>1, <4>1 DEF TextInv
            <4>3. QED
                BY <1>1, <2>10, <4>1, <4>2
        <3>3. CASE i # 1
            <4>1. i - 1 \in 1..(Len(queue) - 1) /\ 1 + (i - 1) = i /\ (i - 1) + 1 = i
                BY <1>1, <3>1, <3>3
            <4>2. queue'[i] = queue[i]
                BY <2>6, <2>9, <4>1
            <4>3. QED
                BY <1>1, <2>10, <3>1, <4>2 DEF TextInv
        <3>4. QED
            BY <3>2, <3>3
    <2>12. QED
        BY <2>11 DEF TextInv
<1>6. QED
    BY <1>2, <1>3, <1>4, <1>5, QueueSteps

\* The rule for the end of the text goes with the last token.
LEMMA EndStep ==
    ASSUME ShapeInv, EndInv, [Next]_vars
    PROVE  EndInv'
<1>1. SUFFICES ASSUME errors' = <<>>
               PROVE  EndInv'
    BY DEF EndInv
<1>2. /\ ~skipping /\ errors = <<>>
      /\ queue = <<>> \/ \E i \in DOMAIN rule_stack : rule_stack[i] = One("END")
      /\ \/ CloseNode \/ EatOutband \/ Match \/ Stop \/ Expand \/ Rekeyword \/ Done \/ UNCHANGED vars
    BY <1>1, QuietSteps DEF EndInv
<1>3. ~skipping'
    BY <1>2 DEF CloseNode, EatOutband, Match, Stop, Expand, Rekeyword, Done, vars
<1>4. ASSUME queue = <<>>
      PROVE  queue' = <<>>
    <2>1. ~Rekeyword
        <3>1. cur_token.kind = "END"
            BY <1>4, HereType DEF ShapeInv
        <3>2. QED
            BY <3>1 DEF Rekeyword, At, Branch, MayBeString
    <2>2. QED
        BY <1>4, <2>1, QueueSteps DEF Step
<1>5. ASSUME NEW i \in DOMAIN rule_stack, rule_stack[i] = One("END"), queue # <<>>
      PROVE  \E j \in DOMAIN rule_stack' : rule_stack'[j] = One("END")
    <2>1. /\ rule_stack # <<>> /\ Len(rule_stack) \in Nat /\ DOMAIN rule_stack = 1..Len(rule_stack)
          /\ i \in 1..Len(rule_stack)
        <3>1. Len(rule_stack) \in Nat /\ DOMAIN rule_stack = 1..Len(rule_stack)
            BY SeqFacts DEF ShapeInv, StackInv
        <3>2. QED
            BY <1>5, <3>1
    <2>2. cur_rule = rule_stack[1] /\ cur_token.kind # "END" /\ StackInv
        BY <1>5, <2>1, TopFacts, HereType DEF ShapeInv
    <2>3. CASE CloseNode \/ Match \/ Stop
        <3>1. Pops(1)
            BY <2>1, <2>2, <2>3, SkipPops DEF CloseNode, Match, Stop
        <3>2. i # 1
            <4>1. SUFFICES ASSUME i = 1
                           PROVE  FALSE
                OBVIOUS
            <4>2. cur_rule.notation = "Once" /\ cur_rule.expect = "END"
                BY <1>5, <2>2, <4>1 DEF One, Rule
            <4>3. ~CloseNode
                BY <4>2 DEF CloseNode, At, Branch, IsClose
            <4>4. ~Match
                BY <2>2, <4>2 DEF Match, At, Branch
            <4>5. ~Stop
                BY <4>2 DEF Stop, At, Branch, Stops
            <4>6. QED
                BY <2>3, <4>3, <4>4, <4>5
        <3>3. i - 1 \in 1..(Len(rule_stack) - 1) /\ 1 + (i - 1) = i
            BY <2>1, <3>2
        <3>4. rule_stack'[i - 1] = rule_stack[i] /\ i - 1 \in DOMAIN rule_stack'
            BY <3>1, <3>3, SeqFacts DEF Pops
        <3>5. QED
            BY <1>5, <3>4
    <2>4. CASE Expand
        <3>1. PICK e, r, at : Pushes(e, r, at)
            BY <2>2, <2>4, ExpandPushes
        <3>2. i # 1
            <4>1. SUFFICES ASSUME i = 1
                           PROVE  FALSE
                OBVIOUS
            <4>2. cur_rule.expect = "END"
                BY <1>5, <2>2, <4>1 DEF One, Rule
            <4>3. Expansion = <<>>
                BY <4>2, TokensAreNotExpanded
            <4>4. QED
                BY <2>4, <4>3 DEF Expand, At, Branch
        <3>3. rule_stack'[i + (e + r)] = rule_stack[i]
            BY <2>1, <3>1, <3>2 DEF Pushes
        <3>4. i + (e + r) \in DOMAIN rule_stack'
            BY <2>1, <3>1, SeqFacts DEF Pushes
        <3>5. QED
            BY <1>5, <3>3, <3>4
    <2>5. CASE EatOutband \/ Rekeyword \/ Done \/ UNCHANGED vars
        BY <1>5, <2>5 DEF EatOutband, Rekeyword, Done, vars
    <2>6. QED
        BY <1>2, <2>3, <2>4, <2>5
<1>6. QED
    BY <1>2, <1>3, <1>4, <1>5 DEF EndInv

\* What a token makes of the open lists.
LEMMA PairOf ==
    ASSUME NEW open, NEW t
    PROVE  /\ t.kind \notin Delimiters => Pair(open, t) = open
           /\ t.kind \in L_DELIMITERS => Pair(open, t) = <<Closing[t.kind]>> \o open
           /\ t.kind \in Rights /\ open # <<>> /\ Head(open) = t.kind => Pair(open, t) = Tail(open)
<1>1. CASE t.kind \notin Delimiters
    BY <1>1 DEF Pair, Delimiters, L_DELIMITERS, Rights, Closing
<1>2. CASE t.kind \in L_DELIMITERS
    BY <1>2 DEF Pair, Delimiters, L_DELIMITERS, Rights, Closing
<1>3. CASE t.kind \in Rights
    BY <1>3 DEF Pair, Delimiters, L_DELIMITERS, Rights, Closing
<1>4. QED
    BY <1>1, <1>2, <1>3, DelimiterFacts

\* What is open after the next token.
LEMMA OpenAtNext ==
    ASSUME QueueInv, TextInv, queue # <<>>, queue' = Step, source' = source, NEW f, IsOpen(f, source)
    PROVE  /\ f[Here' - 1] = Pair(f[Here - 1], source[Here])
           /\ \/ cur_token.kind = source[Here].kind
              \/ cur_token.kind \notin Delimiters /\ source[Here].kind \notin Delimiters
<1>1. /\ Len(source) \in Nat /\ Len(queue) \in Nat /\ IsSeq(queue) /\ IsSeq(source)
    BY SeqFacts DEF QueueInv
<1>2. queue[1] = cur_token /\ 1 \in DOMAIN queue /\ Len(queue) >= 1
    BY <1>1, SeqFacts DEF cur_token
<1>3. Here \in 1..Len(source) /\ Here - 1 + 1 = Here /\ Here' - 1 = Here
    BY <1>1, <1>2, HereType, StepReads
<1>4. f[Here] = Pair(f[Here - 1], source[Here])
    BY <1>1, <1>3, OpenNext
<1>5. QED
    BY <1>2, <1>3, <1>4 DEF TextInv

\* Below the top no opening waits.
LEMMA PoppedToRule ==
    ASSUME StackInv, RuleInv, rule_stack # <<>>, Pops(1)
    PROVE  ~OpenTop'
<1>1. SUFFICES ASSUME rule_stack' # <<>>
               PROVE  cur_rule'.expect \notin L_DELIMITERS
    BY DEF OpenTop
<1>2. /\ Len(rule_stack) \in Nat /\ DOMAIN rule_stack = 1..Len(rule_stack)
      /\ IsSeq(rule_stack') /\ Len(rule_stack') = Len(rule_stack) - 1
      /\ \A i \in 1..(Len(rule_stack) - 1) : rule_stack'[i] = rule_stack[1 + i]
    BY SeqFacts DEF StackInv, Pops
<1>3. cur_rule' = rule_stack'[1] /\ Len(rule_stack') # 0
    BY <1>1, <1>2, SeqFacts DEF cur_rule
<1>4. 2 \in DOMAIN rule_stack /\ rule_stack'[1] = rule_stack[2]
    BY <1>2, <1>3
<1>5. QED
    BY <1>3, <1>4 DEF RuleInv

\* A rule that is no delimiter is popped, and what is open stays.
LEMMA PairPops ==
    ASSUME StackInv, RuleInv, PairInv, errors = <<>>, rule_stack # <<>>, Pops(1), cur_rule.expect \notin Delimiters,
           NEW f, IsOpen(f, source), f[Here' - 1] = f[Here - 1]
    PROVE  ~OpenTop' /\ Pending(f[Here - 1])'
<1>1. ~OpenTop /\ cur_rule.expect \notin Rights
    BY DelimiterFacts DEF OpenTop
<1>2. Pending(f[Here - 1])
    BY <1>1 DEF PairInv
<1>3. PICK open : open = f[Here - 1]
    OBVIOUS
<1>4. Pending(open)'
    BY <1>1, <1>2, <1>3, PendingPops
<1>5. QED
    BY <1>3, <1>4, PoppedToRule

\* Nothing is pushed or popped, and what is open stays.
LEMMA PairStays ==
    ASSUME PairInv, errors = <<>>, rule_stack' = rule_stack, NEW f, IsOpen(f, source), f[Here' - 1] = f[Here - 1]
    PROVE  /\ OpenTop' => Pending(<<Closing[cur_rule.expect]>> \o f[Here - 1])'
           /\ ~OpenTop' => Pending(f[Here - 1])'
<1>1. PICK open : open = f[Here - 1]
    OBVIOUS
<1>2. cur_rule' = cur_rule /\ (OpenTop' <=> OpenTop)
    BY DEF cur_rule, OpenTop
<1>3. ASSUME NEW s, Pending(s)
      PROVE  Pending(s)'
    BY <1>3 DEF Pending, Enumerates, Closers
<1>4. CASE OpenTop
    <2>1. Pending(<<Closing[cur_rule.expect]>> \o open)
        BY <1>1, <1>4 DEF PairInv
    <2>2. PICK s : s = <<Closing[cur_rule.expect]>> \o open
        OBVIOUS
    <2>3. Pending(s)' /\ s = <<Closing[cur_rule'.expect]>> \o f[Here' - 1]
        BY <1>1, <1>2, <1>3, <2>1, <2>2
    <2>4. QED
        BY <1>2, <1>4, <2>3
<1>5. CASE ~OpenTop
    <2>1. Pending(open)'
        BY <1>1, <1>3, <1>5 DEF PairInv
    <2>2. QED
        BY <1>1, <1>2, <1>5, <2>1
<1>6. QED
    BY <1>4, <1>5

\* The expected token takes its closing from those that wait.
LEMMA PairMatches ==
    ASSUME ShapeInv, RuleInv, TextInv, PairInv, errors = <<>>, Match, NEW f, IsOpen(f, source)
    PROVE  ~OpenTop' /\ Pending(f[Here - 1])'
<1>1. /\ rule_stack # <<>> /\ queue' = Step /\ source' = source /\ skip
      /\ cur_rule.notation = "Once" /\ cur_rule.expect = cur_token.kind
    BY DEF Match, At, Branch
<1>2. StackInv /\ QueueInv /\ Pops(1)
    BY <1>1, SkipPops DEF ShapeInv
<1>3. ~OpenTop'
    BY <1>1, <1>2, PoppedToRule
<1>4. CASE queue = <<>>
    <2>1. cur_rule.expect = "END" /\ Here' = Here
        BY <1>1, <1>2, <1>4, HereType, StepReads
    <2>2. cur_rule.expect \notin Delimiters
        BY <2>1, DelimiterFacts
    <2>3. QED
        BY <1>1, <1>2, <2>1, <2>2, PairPops
<1>5. CASE queue # <<>>
    <2>1. /\ f[Here' - 1] = Pair(f[Here - 1], source[Here])
          /\ \/ cur_token.kind = source[Here].kind
             \/ cur_token.kind \notin Delimiters /\ source[Here].kind \notin Delimiters
        BY <1>1, <1>2, <1>5, OpenAtNext
    <2>2. PICK open, next, t : open = f[Here - 1] /\ next = f[Here' - 1] /\ t = source[Here]
        OBVIOUS
    <2>3. next = Pair(open, t)
        BY <2>1, <2>2
    <2>4. CASE cur_rule.expect \notin Delimiters
        <3>1. next = open
            BY <1>1, <2>1, <2>2, <2>3, <2>4, PairOf
        <3>2. QED
            BY <1>1, <1>2, <2>2, <2>4, <3>1, PairPops
    <2>5. CASE cur_rule.expect \in L_DELIMITERS
        <3>1. t.kind = cur_rule.expect
            BY <1>1, <2>1, <2>2, <2>5, DelimiterFacts
        <3>2. next = <<Closing[cur_rule.expect]>> \o open
            BY <2>3, <2>5, <3>1, PairOf
        <3>3. Pending(next)
            BY <1>1, <2>2, <2>5, <3>2 DEF PairInv, OpenTop
        <3>4. Pending(next)'
            BY <1>1, <1>2, <2>5, <3>3, PendingPops, DelimiterFacts
        <3>5. QED
            BY <1>3, <2>2, <3>4
    <2>6. CASE cur_rule.expect \in Rights
        <3>1. t.kind = cur_rule.expect
            BY <1>1, <2>1, <2>2, <2>6, DelimiterFacts
        <3>2. Pending(open)
            BY <2>2, <2>6, DelimiterFacts DEF PairInv, OpenTop
        <3>3. open # <<>> /\ Head(open) = cur_rule.expect /\ Pending(Tail(open))'
            BY <1>1, <1>2, <2>6, <3>2, PendingPopsOne
        <3>4. next = Tail(open)
            BY <2>3, <2>6, <3>1, <3>3, PairOf
        <3>5. Pending(next)'
            BY <3>3, <3>4
        <3>6. QED
            BY <1>3, <2>2, <3>5
    <2>7. QED
        BY <2>4, <2>5, <2>6, DelimiterFacts
<1>6. QED
    BY <1>4, <1>5

\* An expansion puts an opening on top of its closing, or neither.
LEMMA PairExpands ==
    ASSUME ShapeInv, PairInv, errors = <<>>, Expand, NEW f, IsOpen(f, source)
    PROVE  /\ OpenTop' => Pending(<<Closing[cur_rule.expect]>> \o f[Here - 1])'
           /\ ~OpenTop' => Pending(f[Here - 1])'
<1>1. rule_stack # <<>> /\ Here' = Here /\ StackInv
    BY DEF Expand, At, Here, ShapeInv
<1>2. PICK e, r, at : Pushes(e, r, at)
    BY <1>1, ExpandPushes
<1>3. /\ cur_rule.expect \notin Delimiters
      /\ e \in Nat /\ e >= 1 /\ r \in {0, 1}
      /\ rule_stack'[e + 1].expect \notin Delimiters
      /\ r = 1 => rule_stack'[e + 2].expect \notin Delimiters
      /\ \/ \A i \in 1..e : rule_stack'[i].expect \notin Delimiters
         \/ \E o \in L_DELIMITERS :
               /\ e >= 2 /\ rule_stack'[1] = One(o) /\ rule_stack'[e] = One(Closing[o])
               /\ \A i \in 2..(e - 1) : rule_stack'[i].expect \notin Delimiters
    BY <1>1, <1>2, ExpansionRules
<1>4. cur_rule.expect \notin Rights /\ ~OpenTop
    BY <1>3, DelimiterFacts DEF OpenTop
<1>5. PICK open : open = f[Here - 1]
    OBVIOUS
<1>6. Pending(open) /\ f[Here' - 1] = open
    BY <1>1, <1>4, <1>5 DEF PairInv
<1>7. rule_stack' # <<>> /\ cur_rule' = rule_stack'[1]
    <2>1. IsSeq(rule_stack') /\ Len(rule_stack') = Len(rule_stack) + (e + r) /\ Len(rule_stack) \in Nat
        BY <1>1, <1>2, TopFacts DEF Pushes
    <2>2. Len(rule_stack') # 0
        BY <1>3, <2>1
    <2>3. QED
        BY <2>1, <2>2, SeqFacts DEF cur_rule
<1>8. CASE \A i \in 1..e : rule_stack'[i].expect \notin Delimiters
    <2>1. ASSUME NEW i \in 1..(e + 1 + r)
          PROVE  rule_stack'[i].expect \notin Rights
        <3>1. i \in 1..e \/ i = e + 1 \/ (r = 1 /\ i = e + 2)
            BY <1>3
        <3>2. QED
            BY <1>3, <1>8, <3>1, DelimiterFacts
    <2>2. Pending(open)'
        BY <1>1, <1>2, <1>4, <1>6, <2>1, PendingPushes
    <2>3. 1 \in 1..e
        BY <1>3
    <2>4. ~OpenTop'
        BY <1>7, <1>8, <2>3, DelimiterFacts DEF OpenTop
    <2>5. QED
        BY <1>6, <2>2, <2>4
<1>9. ASSUME NEW o \in L_DELIMITERS, e >= 2, rule_stack'[1] = One(o), rule_stack'[e] = One(Closing[o]),
             \A i \in 2..(e - 1) : rule_stack'[i].expect \notin Delimiters
      PROVE  OpenTop' /\ Pending(<<Closing[cur_rule.expect]>> \o f[Here - 1])'
    <2>1. PICK c : c = Closing[o]
        OBVIOUS
    <2>2. c \in Rights /\ rule_stack'[e].expect = c /\ rule_stack'[1].expect = o /\ o \notin Rights
        BY <1>9, <2>1, DelimiterFacts
    <2>3. ASSUME NEW i \in 1..(e + 1 + r), i # e
          PROVE  rule_stack'[i].expect \notin Rights
        <3>1. i = 1 \/ i \in 2..(e - 1) \/ i = e + 1 \/ (r = 1 /\ i = e + 2)
            BY <1>3, <2>3
        <3>2. QED
            BY <1>3, <1>9, <2>2, <3>1, DelimiterFacts
    <2>4. PICK s : s = <<c>> \o open
        OBVIOUS
    <2>5. Pending(<<c>> \o open)'
        BY <1>1, <1>2, <1>3, <1>4, <1>6, <2>2, <2>3, PendingPushesOne
    <2>6. Pending(s)'
        BY <2>4, <2>5
    <2>7. cur_rule'.expect = o
        BY <1>7, <2>2
    <2>8. OpenTop' /\ s = <<Closing[cur_rule'.expect]>> \o f[Here' - 1]
        BY <1>6, <1>7, <2>1, <2>4, <2>7 DEF OpenTop
    <2>9. QED
        BY <2>6, <2>8
<1>10. QED
    BY <1>3, <1>8, <1>9

PairSteps == ShapeInv /\ RuleInv /\ TextInv /\ EndInv /\ PairInv

\* So the closings stay those of the open lists.
LEMMA PairStep ==
    ASSUME PairSteps, [Next]_vars
    PROVE  PairInv'
<1>1. SUFFICES ASSUME errors' = <<>>, NEW f, IsOpen(f, source')
               PROVE  /\ OpenTop' => Pending(<<Closing[cur_rule.expect]>> \o f[Here - 1])'
                      /\ ~OpenTop' => Pending(f[Here - 1])'
    BY DEF PairInv
<1>2. /\ ShapeInv /\ QueueInv /\ StackInv /\ RuleInv /\ TextInv /\ PairInv
      /\ source' = source /\ IsOpen(f, source)
    BY <1>1, QueueStep DEF PairSteps, ShapeInv
<1>3. /\ errors = <<>>
      /\ \/ CloseNode \/ EatOutband \/ Match \/ Stop \/ Expand \/ Rekeyword
         \/ Done \/ UNCHANGED vars
    BY <1>1, QuietSteps DEF PairSteps
<1>4. CASE CloseNode \/ Stop
    <2>1. rule_stack # <<>> /\ skip /\ queue' = queue
        BY <1>4 DEF CloseNode, Stop, At
    <2>2. Here' = Here /\ Pops(1)
        BY <1>2, <2>1, SkipPops DEF Here
    <2>3. cur_rule.notation # "Once"
        BY <1>4 DEF CloseNode, Stop, At, Branch, Stops, IsClose
    <2>4. cur_rule.expect \notin Delimiters
        BY <1>2, <2>1, <2>3, TopFacts DEF RuleInv
    <2>5. QED
        BY <1>2, <1>3, <2>1, <2>2, <2>4, PairPops
<1>5. CASE EatOutband
    <2>1. queue' = Step /\ rule_stack' = rule_stack /\ cur_token.kind \in OUTBAND
        BY <1>5 DEF EatOutband, At, Branch, InCode
    <2>2. cur_token.kind # "END" /\ cur_token.kind \notin Delimiters
        BY <2>1 DEF OUTBAND, Delimiters, Closing
    <2>3. queue # <<>>
        BY <1>2, <2>2, HereType
    <2>4. /\ f[Here' - 1] = Pair(f[Here - 1], source[Here])
          /\ source[Here].kind \notin Delimiters
        BY <1>2, <2>1, <2>2, <2>3, OpenAtNext
    <2>5. f[Here' - 1] = f[Here - 1]
        BY <2>4, PairOf
    <2>6. QED
        BY <1>2, <1>3, <2>1, <2>5, PairStays
<1>6. CASE Match
    BY <1>2, <1>3, <1>6, PairMatches
<1>7. CASE Expand
    BY <1>2, <1>3, <1>7, PairExpands
<1>8. CASE Rekeyword
    <2>1. cur_token.kind # "END" /\ rule_stack' = rule_stack
        BY <1>8 DEF Rekeyword, At, Branch, MayBeString
    <2>2. queue # <<>> /\ IsSeq(queue)
        BY <1>2, <2>1, HereType DEF QueueInv
    <2>3. PICK t, r : t = AsString(cur_token) /\ r = Tail(queue)
        OBVIOUS
    <2>4. /\ IsSeq(<<t>>) /\ Len(<<t>>) = 1 /\ IsSeq(r) /\ Len(r) = Len(queue) - 1 /\ Len(queue) \in Nat
        BY <2>2, <2>3, Tuples, SeqFacts
    <2>5. Len(<<t>> \o r) = Len(<<t>>) + Len(r)
        BY <2>4, ConcatFacts
    <2>6. queue' = <<t>> \o r
        BY <1>8, <2>3 DEF Rekeyword, Relabelled
    <2>7. Len(queue') = Len(queue)
        BY <2>4, <2>5, <2>6
    <2>8. Here' = Here
        BY <1>2, <2>7 DEF Here
    <2>9. QED
        BY <1>2, <1>3, <2>1, <2>8, PairStays
<1>9. CASE Done \/ UNCHANGED vars
    <2>1. rule_stack' = rule_stack /\ queue' = queue
        BY <1>9 DEF Done, vars
    <2>2. Here' = Here
        BY <1>2, <2>1 DEF Here
    <2>3. QED
        BY <1>2, <1>3, <2>1, <2>2, PairStays
<1>10. QED
    BY <1>3, <1>4, <1>5, <1>6, <1>7, <1>8, <1>9

\* At first only the end is expected, and nothing is open.
LEMMA PairsAtFirst ==
    ASSUME Init
    PROVE  PairSteps
<1>1. ShapeInv /\ queue = source /\ errors = <<>> /\ skipping = FALSE
    BY ShapeAtFirst DEF Init
<1>2. /\ Len(source) \in Nat /\ IsSeq(source) /\ Here = 1
    BY <1>1, SeqFacts DEF ShapeInv, QueueInv, Here
<1>3. PICK a, b, c : a = Star("N_SEXP", {"END"}) /\ b = One("END") /\ c = Close("ROOT", 0)
    OBVIOUS
<1>4. rule_stack = <<a, b, c>>
    BY <1>3 DEF Init
<1>5. /\ DOMAIN rule_stack = 1..3 /\ rule_stack[1] = a /\ rule_stack[2] = b /\ rule_stack[3] = c
      /\ rule_stack # <<>> /\ cur_rule = a
    BY <1>4 DEF cur_rule
<1>6. a.expect \notin Delimiters /\ b.expect \notin Delimiters /\ c.expect \notin Delimiters
    BY <1>3 DEF Star, One, Close, Rule, Delimiters, Closing
<1>7. \A i \in DOMAIN rule_stack : rule_stack[i].expect \notin Delimiters
    <2>1. \A i \in 1..3 : i = 1 \/ i = 2 \/ i = 3
        OBVIOUS
    <2>2. QED
        BY <1>5, <1>6, <2>1
<1>8. RuleInv
    BY <1>7, DelimiterFacts DEF RuleInv
<1>9. TextInv
    BY <1>1, <1>2 DEF TextInv
<1>10. EndInv
    BY <1>1, <1>3, <1>5 DEF EndInv
<1>11. ASSUME NEW f, IsOpen(f, source)
       PROVE  ~OpenTop /\ Pending(f[Here - 1])
    <2>1. ~OpenTop
        BY <1>5, <1>6, DelimiterFacts DEF OpenTop
    <2>2. f[0] = <<>> /\ Here - 1 = 0
        BY <1>2, <1>11, OpenNext
    <2>3. Closers = {}
        BY <1>7, DelimiterFacts DEF Closers
    <2>4. Len(<<>>) = 0 /\ 1..0 = {}
        OBVIOUS
    <2>5. Enumerates(<<>>, <<>>)
        BY <2>3, <2>4 DEF Enumerates
    <2>6. Pending(<<>>)
        BY <2>5, Tuples DEF Pending
    <2>7. QED
        BY <2>1, <2>2, <2>6
<1>12. PairInv
    BY <1>11 DEF PairInv
<1>13. QED
    BY <1>1, <1>8, <1>9, <1>10, <1>12 DEF PairSteps

\* The empty stack of a parser without errors has no closings left.
LEMMA PairedAtLast ==
    ASSUME PairSteps
    PROVE  AcceptedIsPaired
<1>1. SUFFICES ASSUME rule_stack = <<>>, errors = <<>>
               PROVE  OpenAfter(source) = <<>>
    BY DEF AcceptedIsPaired
<1>2. DOMAIN rule_stack = {}
    BY <1>1
<1>3. queue = <<>> /\ IsSeq(source) /\ Len(source) \in Nat
    BY <1>1, <1>2, SeqFacts DEF PairSteps, EndInv, ShapeInv, QueueInv
<1>4. Here - 1 = Len(source)
    BY <1>3, HereType DEF PairSteps, ShapeInv
<1>5. PICK f : IsOpen(f, source) /\ OpenAfter(source) = f[Len(source)]
    BY <1>3, OpenAfterIsLast
<1>6. PICK open : open = f[Here - 1]
    OBVIOUS
<1>7. Pending(open)
    BY <1>1, <1>5, <1>6 DEF PairSteps, PairInv, OpenTop
<1>8. PICK g : IsSeq(open) /\ Enumerates(g, open)
    BY <1>7 DEF Pending
<1>9. Closers = {}
    BY <1>2 DEF Closers
<1>10. open = <<>>
    <2>1. SUFFICES ASSUME open # <<>>
                   PROVE  FALSE
        OBVIOUS
    <2>2. 1 \in 1..Len(open)
        BY <1>8, <2>1, SeqFacts
    <2>3. g[1] \in Closers
        BY <1>8, <2>2 DEF Enumerates
    <2>4. QED
        BY <1>9, <2>3
<1>11. QED
    BY <1>4, <1>5, <1>6, <1>10

\* Whatever the text: one that parses without an error is one whose delimiters
\* pair up.
THEOREM AcceptedStaysPaired == Spec => []AcceptedIsPaired
<1>1. Init => PairSteps
    BY PairsAtFirst
<1>2. PairSteps /\ [Next]_vars => PairSteps'
    <2>1. ASSUME PairSteps, [Next]_vars
          PROVE  PairSteps'
        <3>1. ShapeInv /\ QueueInv /\ StackInv /\ RuleInv /\ TextInv /\ EndInv
            BY <2>1 DEF PairSteps, ShapeInv
        <3>2. ShapeInv' /\ RuleInv' /\ TextInv' /\ EndInv'
            BY <2>1, <3>1, ShapeStep, RuleStep, TextStep, EndStep
        <3>3. QED
            BY <2>1, <3>2, PairStep DEF PairSteps
    <2>2. QED
        BY <2>1
<1>3. PairSteps => AcceptedIsPaired
    BY PairedAtLast
<1>4. QED
    BY <1>1, <1>2, <1>3, PTL DEF Spec

-----------------------------------------------------------------------------
(* The first skip ends with its list *)

\* What is open after a part of a text.
LEMMA OpenAfterPart ==
    ASSUME NEW text, IsSeq(text), NEW f, IsOpen(f, text), NEW n \in 0..Len(text)
    PROVE  OpenAfter(SubSeq(text, 1, n)) = f[n]
<1>1. PICK part : part = SubSeq(text, 1, n)
    OBVIOUS
<1>2. IsSeq(part) /\ Len(part) = n /\ \A i \in 1..n : part[i] = text[i]
    <2>1. PICK S : text \in Seq(S) /\ Len(text) \in Nat
        BY SeqFacts DEF IsSeq
    <2>2. part \in Seq(S) /\ Len(part) = n /\ \A i \in 1..n : part[i] = text[i]
        BY <1>1, <2>1, SubSeqProperties
    <2>3. QED
        BY <2>2 DEF IsSeq
<1>3. PICK g : IsOpen(g, part) /\ OpenAfter(part) = g[n]
    BY <1>2, OpenAfterIsLast
<1>4. n \in Nat /\ n <= Len(text) /\ Len(text) \in Nat
    BY SeqFacts
<1>5. PICK S : S = {i \in 0..n : g[i] = f[i]}
    OBVIOUS
<1>6. 0 \in S
    BY <1>2, <1>3, <1>4, <1>5, OpenNext
<1>7. ASSUME NEW i \in 1..n, i - 1 \in S
      PROVE  i \in S
    <2>1. g[i] = Pair(g[i - 1], part[i]) /\ g[i - 1] = f[i - 1]
        BY <1>2, <1>3, <1>5, <1>7, OpenNext
    <2>2. f[i] = Pair(f[i - 1], text[i]) /\ part[i] = text[i] /\ i \in 0..n
        BY <1>2, <1>4, OpenNext
    <2>3. QED
        BY <1>5, <2>1, <2>2
<1>8. n \in S
    <2>1. \A i \in 0..n : i \in S
        BY <1>4, <1>6, <1>7, Induction
    <2>2. QED
        BY <1>4, <2>1
<1>9. QED
    BY <1>1, <1>3, <1>5, <1>8

\* And after all of it.
LEMMA OpenAfterWhole ==
    ASSUME NEW text, IsSeq(text), NEW f, IsOpen(f, text)
    PROVE  OpenAfter(text) = f[Len(text)]
<1>1. PICK n, whole : n = Len(text) /\ whole = SubSeq(text, 1, n)
    OBVIOUS
<1>2. n \in Nat /\ n \in 0..Len(text)
    BY <1>1, SeqFacts
<1>3. IsSeq(whole) /\ Len(whole) = n /\ \A i \in 1..n : whole[i] = text[i]
    <2>1. PICK S : text \in Seq(S)
        BY DEF IsSeq
    <2>2. whole \in Seq(S) /\ Len(whole) = n /\ \A i \in 1..n : whole[i] = text[i]
        BY <1>1, <1>2, <2>1, SubSeqProperties
    <2>3. QED
        BY <2>2 DEF IsSeq
<1>4. whole = text
    BY <1>1, <1>3, SameSequences
<1>5. OpenAfter(SubSeq(text, 1, n)) = f[n]
    BY <1>2, OpenAfterPart
<1>6. QED
    BY <1>1, <1>4, <1>5

\* A closing has been met that does not fit.
Broken(open) == IsSeq(open) /\ \E i \in 1..Len(open) : open[i] = "mismatch"

\* What a closing that does not fit leaves open.
LEMMA PairBreaks ==
    ASSUME NEW open, IsSeq(open), NEW t, t.kind \in Rights, open # <<>> => Head(open) # t.kind
    PROVE  Broken(Pair(open, t))
<1>1. Pair(open, t) = <<"mismatch">> \o open
    <2>1. t.kind \notin DOMAIN Closing /\ t.kind \in {"R_PAREN", "R_BRACKET", "R_BRACE"}
        BY DEF Rights, Closing
    <2>2. ~(open # <<>> /\ Head(open) = t.kind)
        OBVIOUS
    <2>3. QED
        BY <2>1, <2>2 DEF Pair
<1>2. PICK w : w = <<"mismatch">> \o open
    OBVIOUS
<1>3. IsSeq(<<"mismatch">>) /\ Len(<<"mismatch">>) = 1 /\ <<"mismatch">>[1] = "mismatch" /\ Len(open) \in Nat
    BY Tuples, SeqFacts
<1>4. IsSeq(w) /\ Len(w) = 1 + Len(open) /\ \A i \in 1..1 : w[i] = <<"mismatch">>[i]
    BY <1>2, <1>3, ConcatFacts
<1>5. 1 \in 1..Len(w) /\ w[1] = "mismatch"
    BY <1>3, <1>4
<1>6. QED
    BY <1>1, <1>2, <1>4, <1>5 DEF Broken

\* No token repairs it.
LEMMA BrokenStays ==
    ASSUME NEW open, Broken(open), NEW t
    PROVE  Broken(Pair(open, t))
<1>1. IsSeq(open) /\ Len(open) \in Nat
    BY SeqFacts DEF Broken
<1>2. PICK i \in 1..Len(open) : open[i] = "mismatch"
    BY DEF Broken
<1>3. CASE t.kind \notin Delimiters
    BY <1>3, PairOf
<1>4. CASE t.kind \in L_DELIMITERS
    <2>1. PICK a, w : a = <<Closing[t.kind]>> /\ w = a \o open
        OBVIOUS
    <2>2. IsSeq(a) /\ Len(a) = 1
        BY <2>1, Tuples
    <2>3. IsSeq(w) /\ Len(w) = 1 + Len(open) /\ w[1 + i] = open[i]
        BY <1>1, <2>1, <2>2, ConcatFacts
    <2>4. 1 + i \in 1..Len(w) /\ w[1 + i] = "mismatch"
        BY <1>1, <1>2, <2>3
    <2>5. Pair(open, t) = w
        BY <1>4, <2>1, PairOf
    <2>6. QED
        BY <2>3, <2>4, <2>5 DEF Broken
<1>5. CASE t.kind \in Rights /\ open # <<>> /\ Head(open) = t.kind
    <2>1. PICK w : w = Tail(open)
        OBVIOUS
    <2>2. /\ Head(open) = open[1] /\ IsSeq(w) /\ Len(w) = Len(open) - 1
          /\ \A j \in 1..(Len(open) - 1) : w[j] = open[j + 1]
        BY <1>1, <1>5, <2>1, SeqFacts
    <2>3. i # 1
        <3>1. t.kind # "mismatch"
            BY <1>5 DEF Rights
        <3>2. QED
            BY <1>2, <1>5, <2>2, <3>1
    <2>4. i - 1 \in 1..(Len(open) - 1) /\ (i - 1) + 1 = i
        BY <1>1, <2>3
    <2>5. w[i - 1] = "mismatch" /\ i - 1 \in 1..Len(w)
        BY <1>2, <2>2, <2>4
    <2>6. Pair(open, t) = w
        BY <1>5, <2>1, PairOf
    <2>7. QED
        BY <2>2, <2>5, <2>6 DEF Broken
<1>6. CASE t.kind \in Rights /\ (open # <<>> => Head(open) # t.kind)
    BY <1>1, <1>6, PairBreaks
<1>7. QED
    BY <1>3, <1>4, <1>5, <1>6, DelimiterFacts

\* So such a text does not pair up.
LEMMA BrokenToTheEnd ==
    ASSUME NEW text, IsSeq(text), NEW f, IsOpen(f, text), NEW k \in 0..Len(text), Broken(f[k])
    PROVE  OpenAfter(text) # <<>>
<1>1. Len(text) \in Nat /\ k \in Nat /\ k <= Len(text)
    BY SeqFacts
<1>2. PICK n : n = Len(text) - k
    OBVIOUS
<1>3. n \in Nat
    BY <1>1, <1>2
<1>4. PICK S : S = {i \in 0..n : Broken(f[k + i])}
    OBVIOUS
<1>5. 0 \in S
    <2>1. k + 0 = k /\ 0 \in 0..n
        BY <1>1, <1>3
    <2>2. QED
        BY <1>4, <2>1
<1>6. ASSUME NEW i \in 1..n, i - 1 \in S
      PROVE  i \in S
    <2>1. k + i \in 1..Len(text) /\ (k + i) - 1 = k + (i - 1) /\ i \in 0..n
        BY <1>1, <1>2, <1>3
    <2>2. f[k + i] = Pair(f[k + (i - 1)], text[k + i])
        BY <2>1, OpenNext
    <2>3. Broken(f[k + (i - 1)])
        BY <1>4, <1>6
    <2>4. PICK open : open = f[k + (i - 1)]
        OBVIOUS
    <2>5. Broken(Pair(open, text[k + i]))
        BY <2>3, <2>4, BrokenStays
    <2>6. QED
        BY <1>4, <2>1, <2>2, <2>4, <2>5
<1>7. n \in S
    <2>1. \A i \in 0..n : i \in S
        BY <1>3, <1>5, <1>6, Induction
    <2>2. QED
        BY <1>3, <2>1
<1>8. Broken(f[Len(text)])
    BY <1>1, <1>2, <1>4, <1>7
<1>9. OpenAfter(text) = f[Len(text)]
    BY <1>1, OpenAfterWhole
<1>10. QED
    <2>1. Broken(OpenAfter(text))
        BY <1>8, <1>9
    <2>2. QED
        BY <2>1, SeqFacts DEF Broken

-----------------------------------------------------------------------------
\* g names the closings below place c on the stack; below 0 they are all.
EnumeratesBelow(g, c, open) ==
    /\ \A j \in 1..Len(open) : g[j] \in Closers /\ g[j] > c /\ rule_stack[g[j]].expect = open[j]
    /\ \A j, k \in 1..Len(open) : j < k => g[j] < g[k]
    /\ \A i \in Closers : i > c => \E j \in 1..Len(open) : g[j] = i

WaitBelow(c, open) == IsSeq(open) /\ \E g : EnumeratesBelow(g, c, open)

\* Where two enumerations begin alike they go on alike.
LEMMA EnumerationsAgree ==
    ASSUME StackInv, NEW c, NEW s, NEW t, IsSeq(s), IsSeq(t), NEW g, NEW h,
           EnumeratesBelow(g, c, s), EnumeratesBelow(h, c, t), NEW i \in 1..Len(s),
           \A j \in 1..Len(s) : j < i => j \in 1..Len(t) /\ g[j] = h[j]
    PROVE  i \in 1..Len(t) /\ g[i] = h[i]
<1>1. Len(s) \in Nat /\ Len(t) \in Nat /\ i \in Nat
    BY SeqFacts
<1>2. \A j \in Closers : j \in Int
    <2>1. Len(rule_stack) \in Nat /\ DOMAIN rule_stack = 1..Len(rule_stack)
        BY SeqFacts DEF StackInv
    <2>2. QED
        BY <2>1 DEF Closers
<1>3. g[i] \in Closers /\ g[i] > c
    BY DEF EnumeratesBelow
<1>4. PICK k \in 1..Len(t) : h[k] = g[i]
    BY <1>3 DEF EnumeratesBelow
<1>5. k >= i
    <2>1. SUFFICES ASSUME k < i
                   PROVE  FALSE
        BY <1>1
    <2>2. k \in 1..Len(s)
        BY <1>1, <2>1
    <2>3. g[k] = h[k] /\ g[k] < g[i]
        BY <2>1, <2>2 DEF EnumeratesBelow
    <2>4. QED
        BY <1>2, <1>3, <1>4, <2>3
<1>6. i \in 1..Len(t)
    BY <1>1, <1>5
<1>7. h[i] \in Closers /\ h[i] > c
    BY <1>6 DEF EnumeratesBelow
<1>8. PICK m \in 1..Len(s) : g[m] = h[i]
    BY <1>7 DEF EnumeratesBelow
<1>9. m >= i
    <2>1. SUFFICES ASSUME m < i
                   PROVE  FALSE
        BY <1>1
    <2>2. g[m] = h[m] /\ m \in 1..Len(t)
        BY <2>1
    <2>3. h[m] < h[i]
        BY <1>6, <2>1, <2>2 DEF EnumeratesBelow
    <2>4. QED
        BY <1>2, <1>7, <1>8, <2>2, <2>3
<1>10. k = i
    <2>1. SUFFICES ASSUME i < k
                   PROVE  FALSE
        BY <1>1, <1>5
    <2>2. h[i] < g[i]
        BY <1>4, <1>6, <2>1 DEF EnumeratesBelow
    <2>3. g[i] <= h[i]
        <3>1. CASE m = i
            BY <1>2, <1>7, <1>8, <3>1
        <3>2. CASE i < m
            <4>1. g[i] < g[m]
                BY <3>2 DEF EnumeratesBelow
            <4>2. QED
                BY <1>2, <1>3, <1>7, <1>8, <4>1
        <3>3. QED
            BY <1>1, <1>9, <3>1, <3>2
    <2>4. QED
        BY <1>2, <1>3, <1>7, <2>2, <2>3
<1>11. QED
    BY <1>4, <1>6, <1>10

\* So they are alike as far as either goes.
LEMMA OneAfterTheOther ==
    ASSUME StackInv, NEW c, NEW s, NEW t, IsSeq(s), IsSeq(t), NEW g, NEW h,
           EnumeratesBelow(g, c, s), EnumeratesBelow(h, c, t)
    PROVE  \A i \in 1..Len(s) : i \in 1..Len(t) /\ g[i] = h[i]
<1>1. Len(s) \in Nat
    BY SeqFacts
<1>2. PICK S : S = {n \in 0..Len(s) : \A j \in 1..Len(s) : j <= n => j \in 1..Len(t) /\ g[j] = h[j]}
    OBVIOUS
<1>3. 0 \in S
    <2>1. \A j \in 1..Len(s) : ~(j <= 0)
        BY <1>1
    <2>2. QED
        BY <1>1, <1>2, <2>1
<1>4. ASSUME NEW i \in 1..Len(s), i - 1 \in S
      PROVE  i \in S
    <2>1. \A j \in 1..Len(s) : j < i => j <= i - 1
        BY <1>1
    <2>2. \A j \in 1..Len(s) : j < i => j \in 1..Len(t) /\ g[j] = h[j]
        BY <1>2, <1>4, <2>1
    <2>3. i \in 1..Len(t) /\ g[i] = h[i]
        BY <2>2, EnumerationsAgree
    <2>4. ASSUME NEW j \in 1..Len(s), j <= i
          PROVE  j \in 1..Len(t) /\ g[j] = h[j]
        <3>1. j < i \/ j = i
            BY <1>1, <2>4
        <3>2. QED
            BY <2>2, <2>3, <3>1
    <2>5. i \in 0..Len(s)
        BY <1>1
    <2>6. QED
        BY <1>2, <2>4, <2>5
<1>5. \A i \in 0..Len(s) : i \in S
    BY <1>1, <1>3, <1>4, Induction
<1>6. ASSUME NEW i \in 1..Len(s)
      PROVE  i \in 1..Len(t) /\ g[i] = h[i]
    <2>1. i \in 0..Len(s) /\ i <= i
        BY <1>1
    <2>2. QED
        BY <1>2, <1>5, <2>1
<1>7. QED
    BY <1>6

\* The closings below a place are the same whoever names them.
LEMMA BelowIsUnique ==
    ASSUME StackInv, NEW c, NEW s, NEW t, WaitBelow(c, s), WaitBelow(c, t)
    PROVE  s = t
<1>1. PICK g, h : EnumeratesBelow(g, c, s) /\ EnumeratesBelow(h, c, t)
    BY DEF WaitBelow
<1>2. IsSeq(s) /\ IsSeq(t) /\ Len(s) \in Nat /\ Len(t) \in Nat
    BY SeqFacts DEF WaitBelow
<1>3. \A i \in 1..Len(s) : i \in 1..Len(t) /\ g[i] = h[i]
    BY <1>1, <1>2, OneAfterTheOther
<1>4. \A i \in 1..Len(t) : i \in 1..Len(s) /\ h[i] = g[i]
    BY <1>1, <1>2, OneAfterTheOther
<1>5. Len(s) = Len(t)
    <2>1. Len(s) <= Len(t)
        <3>1. CASE Len(s) = 0
            BY <1>2, <3>1
        <3>2. CASE Len(s) # 0
            <4>1. Len(s) \in 1..Len(s)
                BY <1>2, <3>2
            <4>2. Len(s) \in 1..Len(t)
                BY <1>3, <4>1
            <4>3. QED
                BY <1>2, <4>2
        <3>3. QED
            BY <3>1, <3>2
    <2>2. Len(t) <= Len(s)
        <3>1. CASE Len(t) = 0
            BY <1>2, <3>1
        <3>2. CASE Len(t) # 0
            <4>1. Len(t) \in 1..Len(t)
                BY <1>2, <3>2
            <4>2. Len(t) \in 1..Len(s)
                BY <1>4, <4>1
            <4>3. QED
                BY <1>2, <4>2
        <3>3. QED
            BY <3>1, <3>2
    <2>3. QED
        BY <1>2, <2>1, <2>2
<1>6. \A i \in 1..Len(s) : s[i] = t[i]
    BY <1>1, <1>3 DEF EnumeratesBelow
<1>7. QED
    BY <1>2, <1>5, <1>6, SameSequences

\* All of them are those below the top, or the first of them is there.
LEMMA BelowTheTop ==
    ASSUME StackInv, rule_stack # <<>>, NEW open, Pending(open)
    PROVE  /\ cur_rule.expect \notin Rights => WaitBelow(1, open)
           /\ cur_rule.expect \in Rights =>
                  open # <<>> /\ Head(open) = cur_rule.expect /\ WaitBelow(1, Tail(open))
<1>1. /\ Len(rule_stack) \in Nat /\ DOMAIN rule_stack = 1..Len(rule_stack) /\ cur_rule = rule_stack[1]
      /\ 1 \in DOMAIN rule_stack
    BY TopFacts
<1>2. PICK g : Enumerates(g, open)
    BY DEF Pending
<1>3. Len(open) \in Nat /\ IsSeq(open)
    BY SeqFacts DEF Pending
<1>4. \A i \in Closers : i \in Nat /\ i >= 1 /\ (i # 1 => i > 1)
    BY <1>1 DEF Closers
<1>5. CASE cur_rule.expect \notin Rights
    <2>1. 1 \notin Closers
        BY <1>1, <1>5 DEF Closers
    <2>2. EnumeratesBelow(g, 1, open)
        BY <1>2, <1>4, <2>1 DEF Enumerates, EnumeratesBelow
    <2>3. QED
        BY <1>3, <1>5, <2>2 DEF WaitBelow
<1>6. CASE cur_rule.expect \in Rights
    <2>1. 1 \in Closers
        BY <1>1, <1>6 DEF Closers
    <2>2. PICK n \in 1..Len(open) : g[n] = 1
        BY <1>2, <2>1 DEF Enumerates
    <2>3. n = 1
        <3>1. SUFFICES ASSUME n # 1
                       PROVE  FALSE
            OBVIOUS
        <3>2. 1 \in 1..Len(open) /\ 1 < n
            BY <1>3, <3>1
        <3>3. g[1] < g[n] /\ g[1] \in Closers
            BY <1>2, <3>2 DEF Enumerates
        <3>4. QED
            BY <1>4, <2>2, <3>3
    <2>4. Len(open) >= 1 /\ open # <<>> /\ open[1] = cur_rule.expect /\ g[1] = 1
        <3>1. Len(open) >= 1 /\ 1 \in 1..Len(open) /\ g[1] = 1
            BY <1>3, <2>2, <2>3
        <3>2. open[1] = rule_stack[1].expect
            BY <1>2, <3>1 DEF Enumerates
        <3>3. QED
            BY <1>1, <1>3, <3>1, <3>2, SeqFacts
    <2>5. PICK t : t = Tail(open)
        OBVIOUS
    <2>6. /\ Head(open) = open[1] /\ IsSeq(t) /\ Len(t) = Len(open) - 1
          /\ \A i \in 1..(Len(open) - 1) : t[i] = open[i + 1]
        BY <1>3, <2>4, <2>5, SeqFacts
    <2>7. PICK h : h = [j \in 1..Len(t) |-> g[j + 1]]
        OBVIOUS
    <2>8. ASSUME NEW j \in 1..Len(t)
          PROVE  /\ j + 1 \in 1..Len(open) /\ h[j] = g[j + 1]
                 /\ h[j] \in Closers /\ h[j] > 1 /\ rule_stack[h[j]].expect = t[j]
        <3>1. j + 1 \in 1..Len(open) /\ 1 \in 1..Len(open) /\ 1 < j + 1 /\ h[j] = g[j + 1] /\ t[j] = open[j + 1]
            BY <1>3, <2>4, <2>6, <2>7
        <3>2. g[j + 1] \in Closers /\ rule_stack[g[j + 1]].expect = open[j + 1] /\ g[1] < g[j + 1]
            BY <1>2, <3>1 DEF Enumerates
        <3>3. g[j + 1] > 1
            BY <1>4, <2>4, <3>2
        <3>4. QED
            BY <3>1, <3>2, <3>3
    <2>9. ASSUME NEW j \in 1..Len(t), NEW k \in 1..Len(t), j < k
          PROVE  h[j] < h[k]
        <3>1. j + 1 < k + 1
            BY <1>3, <2>6, <2>9
        <3>2. QED
            BY <1>2, <2>8, <3>1 DEF Enumerates
    <2>10. ASSUME NEW i \in Closers, i > 1
           PROVE  \E j \in 1..Len(t) : h[j] = i
        <3>1. PICK m \in 1..Len(open) : g[m] = i
            BY <1>2 DEF Enumerates
        <3>2. m # 1
            BY <1>4, <2>4, <2>10, <3>1
        <3>3. m - 1 \in 1..Len(t) /\ (m - 1) + 1 = m
            BY <1>3, <2>6, <3>2
        <3>4. h[m - 1] = g[(m - 1) + 1]
            BY <2>7, <3>3
        <3>5. QED
            BY <3>1, <3>3, <3>4
    <2>11. EnumeratesBelow(h, 1, t)
        BY <2>8, <2>9, <2>10 DEF EnumeratesBelow
    <2>12. QED
        BY <1>6, <2>4, <2>5, <2>6, <2>11 DEF WaitBelow
<1>7. QED
    BY <1>5, <1>6

\* Where the stack only moves below a place, so do the closings there.
LEMMA BelowMoves ==
    ASSUME StackInv, IsSeq(rule_stack'), NEW c \in Nat, NEW k \in Int, c + k \in Nat,
           Len(rule_stack') = Len(rule_stack) + k,
           \A i \in 1..Len(rule_stack) : i > c => rule_stack'[i + k] = rule_stack[i],
           NEW open, WaitBelow(c, open)
    PROVE  WaitBelow(c + k, open)'
<1>1. /\ Len(rule_stack) \in Nat /\ DOMAIN rule_stack = 1..Len(rule_stack)
      /\ Len(rule_stack') \in Nat /\ DOMAIN rule_stack' = 1..Len(rule_stack')
    BY SeqFacts DEF StackInv
<1>2. PICK g : EnumeratesBelow(g, c, open)
    BY DEF WaitBelow
<1>3. Len(open) \in Nat /\ IsSeq(open)
    BY SeqFacts DEF WaitBelow
<1>4. PICK h : h = [j \in 1..Len(open) |-> g[j] + k]
    OBVIOUS
<1>5. ASSUME NEW i \in Closers, i > c
      PROVE  /\ i \in Int /\ i + k \in Closers' /\ i + k > c + k /\ rule_stack'[i + k] = rule_stack[i]
    <2>1. i \in 1..Len(rule_stack)
        BY <1>1 DEF Closers
    <2>2. i + k \in 1..Len(rule_stack') /\ i + k > c + k
        BY <1>1, <1>5, <2>1
    <2>3. QED
        BY <1>1, <1>5, <2>1, <2>2 DEF Closers
<1>6. ASSUME NEW j \in 1..Len(open)
      PROVE  h[j] \in Closers' /\ h[j] > c + k /\ rule_stack'[h[j]].expect = open[j]
    <2>1. g[j] \in Closers /\ g[j] > c /\ rule_stack[g[j]].expect = open[j] /\ h[j] = g[j] + k
        BY <1>2, <1>4 DEF EnumeratesBelow
    <2>2. QED
        BY <1>5, <2>1
<1>7. ASSUME NEW j \in 1..Len(open), NEW m \in 1..Len(open), j < m
      PROVE  h[j] < h[m]
    <2>1. g[j] < g[m] /\ g[j] \in Int /\ g[m] \in Int
        BY <1>2, <1>5, <1>7 DEF EnumeratesBelow
    <2>2. QED
        BY <1>4, <2>1
<1>8. ASSUME NEW i \in Closers', i > c + k
      PROVE  \E j \in 1..Len(open) : h[j] = i
    <2>1. i \in 1..Len(rule_stack')
        BY <1>1, <1>8 DEF Closers
    <2>2. i - k \in 1..Len(rule_stack) /\ i - k > c /\ (i - k) + k = i
        BY <1>1, <1>8, <2>1
    <2>3. i - k \in Closers
        BY <1>1, <1>8, <2>2 DEF Closers
    <2>4. PICK j \in 1..Len(open) : g[j] = i - k
        BY <1>2, <2>2, <2>3 DEF EnumeratesBelow
    <2>5. h[j] = i
        BY <1>4, <2>2, <2>4
    <2>6. QED
        BY <2>5
<1>9. EnumeratesBelow(h, c + k, open)'
    BY <1>6, <1>7, <1>8 DEF EnumeratesBelow
<1>10. QED
    BY <1>3, <1>9 DEF WaitBelow

-----------------------------------------------------------------------------
\* The rule for a closing lies on the end of its list.
ListsEnd == \A c \in Closers : c + 1 \in Lists

\* What lists are on the stack.
LEMMA ListPlaces ==
    /\ \A i : i \in Lists <=> i \in DOMAIN rule_stack /\ IsClose(rule_stack[i]) /\ rule_stack[i].at # 0
    /\ \A i : i \in Lists' <=> i \in DOMAIN rule_stack' /\ IsClose(rule_stack'[i]) /\ rule_stack'[i].at # 0
BY DEF Lists, Closes, IsClose

\* An expansion brings no closing, or one, on the end of a list that is at the
\* token read next.
LEMMA ExpansionCloses ==
    ASSUME QueueInv, StackInv, Expand
    PROVE  \E e, r, at :
              /\ Pushes(e, r, at) /\ e \in Nat /\ e >= 1 /\ r \in {0, 1} /\ cur_rule.expect \notin Delimiters
              /\ \/ \A i \in 1..(e + 1 + r) : rule_stack'[i].expect \notin Rights
                 \/ /\ at = Here /\ rule_stack'[e].expect \in Rights
                    /\ \A i \in 1..(e + 1 + r) : i # e => rule_stack'[i].expect \notin Rights
<1>1. PICK at : at = IF Head(Expansion).expect \in L_DELIMITERS THEN Here ELSE 0
    OBVIOUS
<1>2. PICK e, r : Pushes(e, r, at)
    BY <1>1, ExpandPushes
<1>3. /\ cur_rule.expect \notin Delimiters
      /\ e \in Nat /\ e >= 1 /\ r \in {0, 1}
      /\ rule_stack'[e + 1].expect \notin Delimiters
      /\ r = 1 => rule_stack'[e + 2].expect \notin Delimiters
      /\ \/ \A i \in 1..e : rule_stack'[i].expect \notin Delimiters
         \/ \E o \in L_DELIMITERS :
               /\ e >= 2 /\ rule_stack'[1] = One(o) /\ rule_stack'[e] = One(Closing[o])
               /\ \A i \in 2..(e - 1) : rule_stack'[i].expect \notin Delimiters
    BY <1>2, ExpansionRules
<1>4. \A i \in 1..(e + 1 + r) : i \in 1..e \/ i = e + 1 \/ (r = 1 /\ i = e + 2)
    BY <1>3
<1>5. CASE \A i \in 1..e : rule_stack'[i].expect \notin Delimiters
    <2>1. \A i \in 1..(e + 1 + r) : rule_stack'[i].expect \notin Rights
        BY <1>3, <1>4, <1>5, DelimiterFacts
    <2>2. QED
        BY <1>2, <1>3, <2>1
<1>6. ASSUME NEW o \in L_DELIMITERS, e >= 2, rule_stack'[1] = One(o), rule_stack'[e] = One(Closing[o]),
             \A i \in 2..(e - 1) : rule_stack'[i].expect \notin Delimiters
      PROVE  /\ at = Here /\ rule_stack'[e].expect \in Rights
             /\ \A i \in 1..(e + 1 + r) : i # e => rule_stack'[i].expect \notin Rights
    <2>1. at = Here
        <3>1. Expansion[1] = One(o) /\ 1 \in 1..e
            BY <1>2, <1>3, <1>6 DEF Pushes
        <3>2. Expansion # <<>>
            BY DEF Expand, At, Branch
        <3>3. IsSeq(Expansion)
            BY <3>2, ExpansionIsClause, ClauseFacts
        <3>4. PICK p : p = Expansion
            OBVIOUS
        <3>5. Head(p) = p[1]
            BY <3>2, <3>3, <3>4, SeqFacts
        <3>6. Head(Expansion).expect = o
            BY <3>1, <3>4, <3>5, DelimiterFacts
        <3>7. QED
            BY <1>1, <3>6
    <2>2. rule_stack'[e].expect \in Rights
        BY <1>6, DelimiterFacts
    <2>3. ASSUME NEW i \in 1..(e + 1 + r), i # e
          PROVE  rule_stack'[i].expect \notin Rights
        <3>1. i = 1 \/ i \in 2..(e - 1) \/ i = e + 1 \/ (r = 1 /\ i = e + 2)
            BY <1>3, <2>3
        <3>2. QED
            BY <1>3, <1>6, <3>1, DelimiterFacts
    <2>4. QED
        BY <2>1, <2>2, <2>3
<1>7. QED
    BY <1>2, <1>3, <1>5, <1>6

\* The closings after rules were popped.
LEMMA PoppedClosers ==
    ASSUME StackInv, NEW n, Pops(n), NEW c \in Closers'
    PROVE  /\ n \in Nat /\ c \in Nat /\ c >= 1 /\ n + c \in Closers
           /\ n + c + 1 \in DOMAIN rule_stack =>
                  c + 1 \in DOMAIN rule_stack' /\ rule_stack'[c + 1] = rule_stack[n + c + 1]
<1>1. /\ Len(rule_stack) \in Nat /\ DOMAIN rule_stack = 1..Len(rule_stack) /\ n \in Nat
      /\ DOMAIN rule_stack' = 1..(Len(rule_stack) - n)
      /\ \A i \in 1..(Len(rule_stack) - n) : rule_stack'[i] = rule_stack[n + i]
    BY SeqFacts DEF Pops, StackInv
<1>2. c \in 1..(Len(rule_stack) - n) /\ rule_stack'[c].expect \in Rights
    BY <1>1 DEF Closers
<1>3. n + c \in Closers
    <2>1. n + c \in 1..Len(rule_stack) /\ rule_stack'[c] = rule_stack[n + c]
        BY <1>1, <1>2
    <2>2. QED
        BY <1>1, <1>2, <2>1 DEF Closers
<1>4. ASSUME n + c + 1 \in DOMAIN rule_stack
      PROVE  c + 1 \in DOMAIN rule_stack' /\ rule_stack'[c + 1] = rule_stack[n + c + 1]
    <2>1. c + 1 \in 1..(Len(rule_stack) - n) /\ n + (c + 1) = n + c + 1
        BY <1>1, <1>2, <1>4
    <2>2. QED
        BY <1>1, <2>1
<1>5. QED
    BY <1>1, <1>2, <1>3, <1>4

\* The closings after rules were pushed, but for the pushed ones.
LEMMA PushedClosers ==
    ASSUME StackInv, rule_stack # <<>>, NEW e, NEW r, NEW at, Pushes(e, r, at),
           NEW c \in Closers', c > e + 1 + r
    PROVE  /\ c \in Nat /\ c - (e + r) \in Closers /\ c - (e + r) >= 2
           /\ c - (e + r) + 1 \in DOMAIN rule_stack =>
                  c + 1 \in DOMAIN rule_stack' /\ rule_stack'[c + 1] = rule_stack[c - (e + r) + 1]
<1>1. /\ Len(rule_stack) \in Nat /\ DOMAIN rule_stack = 1..Len(rule_stack)
      /\ DOMAIN rule_stack' = 1..(Len(rule_stack) + (e + r)) /\ e \in Nat /\ r \in {0, 1}
    BY TopFacts, SeqFacts DEF Pushes
<1>2. \A i \in 2..Len(rule_stack) : rule_stack'[i + (e + r)] = rule_stack[i]
    BY DEF Pushes
<1>3. c \in 1..(Len(rule_stack) + (e + r)) /\ rule_stack'[c].expect \in Rights
    BY <1>1 DEF Closers
<1>4. PICK d : d = c - (e + r)
    OBVIOUS
<1>5. d \in 2..Len(rule_stack) /\ d + (e + r) = c
    BY <1>1, <1>3, <1>4
<1>6. d \in Closers
    BY <1>1, <1>2, <1>3, <1>5 DEF Closers
<1>7. ASSUME d + 1 \in DOMAIN rule_stack
      PROVE  c + 1 \in DOMAIN rule_stack' /\ rule_stack'[c + 1] = rule_stack[d + 1]
    <2>1. d + 1 \in 2..Len(rule_stack) /\ (d + 1) + (e + r) = c + 1 /\ c + 1 \in 1..(Len(rule_stack) + (e + r))
        BY <1>1, <1>5, <1>7
    <2>2. QED
        BY <1>1, <1>2, <2>1
<1>8. QED
    BY <1>3, <1>4, <1>5, <1>6, <1>7

\* Closings stay on the ends of their lists.
LEMMA ListsEndStep ==
    ASSUME QueueInv, StackInv, ListsEnd, [Next]_vars
    PROVE  ListsEnd'
<1>1. ASSUME NEW n, Pops(n)
      PROVE  ListsEnd'
    <2>1. ASSUME NEW c \in Closers'
          PROVE  c + 1 \in Lists'
        <3>1. n \in Nat /\ c \in Nat /\ n + c \in Closers
            BY <1>1, <2>1, PoppedClosers
        <3>2. n + c + 1 \in Lists
            BY <3>1 DEF ListsEnd
        <3>3. c + 1 \in DOMAIN rule_stack' /\ rule_stack'[c + 1] = rule_stack[n + c + 1]
            BY <1>1, <2>1, <3>2, PoppedClosers, ListPlaces
        <3>4. QED
            BY <3>2, <3>3, ListPlaces
    <2>2. QED
        BY <2>1 DEF ListsEnd
<1>2. CASE CloseNode \/ Match \/ Stop
    BY <1>1, <1>2, SkipPops DEF CloseNode, Match, Stop, At
<1>3. CASE EarlyClose
    BY <1>1, <1>3, EarlyClosePops
<1>4. CASE MissingClose
    BY <1>1, <1>4, MissingClosePops
<1>5. CASE Expand
    <2>1. PICK e, r, at :
              /\ Pushes(e, r, at) /\ e \in Nat /\ e >= 1 /\ r \in {0, 1}
              /\ \/ \A i \in 1..(e + 1 + r) : rule_stack'[i].expect \notin Rights
                 \/ /\ at = Here /\ rule_stack'[e].expect \in Rights
                    /\ \A i \in 1..(e + 1 + r) : i # e => rule_stack'[i].expect \notin Rights
        BY <1>5, ExpansionCloses
    <2>2. rule_stack # <<>>
        BY <1>5 DEF Expand, At
    <2>3. /\ Len(rule_stack) \in Nat /\ Len(rule_stack) >= 1
          /\ DOMAIN rule_stack' = 1..(Len(rule_stack) + (e + r))
        BY <2>1, <2>2, TopFacts, SeqFacts DEF Pushes
    <2>4. ASSUME NEW c \in Closers'
          PROVE  c + 1 \in Lists'
        <3>1. c \in 1..(Len(rule_stack) + (e + r)) /\ rule_stack'[c].expect \in Rights
            BY <2>3, <2>4 DEF Closers
        <3>2. CASE c > e + 1 + r
            <4>1. c - (e + r) \in Closers
                BY <2>1, <2>2, <2>4, <3>2, PushedClosers
            <4>2. c - (e + r) + 1 \in Lists
                BY <4>1 DEF ListsEnd
            <4>3. c + 1 \in DOMAIN rule_stack' /\ rule_stack'[c + 1] = rule_stack[c - (e + r) + 1]
                BY <2>1, <2>2, <2>4, <3>2, <4>2, PushedClosers, ListPlaces
            <4>4. QED
                BY <4>2, <4>3, ListPlaces
        <3>3. CASE ~(c > e + 1 + r)
            <4>1. c = e /\ at = Here
                BY <2>1, <2>3, <3>1, <3>3
            <4>2. rule_stack'[e + 1] = Close(cur_rule.expect, Here)
                BY <2>1, <4>1 DEF Pushes
            <4>3. IsClose(rule_stack'[e + 1]) /\ rule_stack'[e + 1].at # 0
                BY <4>2, HereType DEF Close, Rule, IsClose
            <4>4. e + 1 \in DOMAIN rule_stack'
                BY <2>1, <2>3
            <4>5. QED
                BY <4>1, <4>3, <4>4, ListPlaces
        <3>4. QED
            BY <3>2, <3>3
    <2>5. QED
        BY <2>4 DEF ListsEnd
<1>6. CASE Refuse \/ EatOutband \/ Rekeyword \/ Unexpected \/ synchronize \/ Done \/ UNCHANGED vars
    <2>1. rule_stack' = rule_stack
        BY <1>6 DEF Refuse, EatOutband, Rekeyword, Unexpected, synchronize, Done, vars
    <2>2. Closers' = Closers
        BY <2>1 DEF Closers
    <2>3. \A i : i \in Lists' <=> i \in Lists
        BY <2>1, ListPlaces
    <2>4. QED
        BY <2>2, <2>3 DEF ListsEnd
<1>7. QED
    BY <1>2, <1>3, <1>4, <1>5, <1>6 DEF Next, parse_inner, recover_error

\* Without an error, what was open where a list began are the closings below it.
PlaceInv ==
    errors = <<>> =>
        \A f : IsOpen(f, source) => \A c \in Closers : WaitBelow(c, f[rule_stack[c + 1].at - 1])

\* That goes for every list opened.
LEMMA PlaceStep ==
    ASSUME PairSteps, ListsEnd, PlaceInv, [Next]_vars
    PROVE  PlaceInv'
<1>1. SUFFICES ASSUME errors' = <<>>, NEW f, IsOpen(f, source'), NEW c \in Closers'
               PROVE  WaitBelow(c, f[rule_stack[c + 1].at - 1])'
    BY DEF PlaceInv
<1>2. /\ ShapeInv /\ QueueInv /\ StackInv /\ RuleInv /\ PairInv /\ EndInv
      /\ source' = source /\ IsOpen(f, source)
    BY <1>1, QueueStep DEF PairSteps, ShapeInv
<1>3. /\ errors = <<>>
      /\ \/ CloseNode \/ EatOutband \/ Match \/ Stop \/ Expand \/ Rekeyword
         \/ Done \/ UNCHANGED vars
    BY <1>1, <1>2, QuietSteps
<1>4. \A d \in Closers : WaitBelow(d, f[rule_stack[d + 1].at - 1]) /\ d + 1 \in DOMAIN rule_stack
    BY <1>2, <1>3, ListPlaces DEF PlaceInv, ListsEnd
<1>5. CASE CloseNode \/ Match \/ Stop
    <2>1. Pops(1) /\ rule_stack # <<>>
        BY <1>2, <1>5, SkipPops DEF CloseNode, Match, Stop, At
    <2>2. 1 \in Nat /\ c \in Nat /\ c >= 1 /\ 1 + c \in Closers
        BY <1>2, <2>1, PoppedClosers
    <2>3. rule_stack'[c + 1] = rule_stack[1 + c + 1]
        BY <1>2, <1>4, <2>1, <2>2, PoppedClosers
    <2>4. PICK open : open = f[rule_stack[(1 + c) + 1].at - 1]
        OBVIOUS
    <2>5. WaitBelow(1 + c, open)
        BY <1>4, <2>2, <2>4
    <2>6. /\ IsSeq(rule_stack') /\ Len(rule_stack) \in Nat /\ Len(rule_stack') = Len(rule_stack) - 1
          /\ \A i \in 1..(Len(rule_stack) - 1) : rule_stack'[i] = rule_stack[1 + i]
        BY <1>2, <2>1, TopFacts DEF Pops
    <2>7. PICK k : k = -1
        OBVIOUS
    <2>8. ASSUME NEW i \in 1..Len(rule_stack), i > 1 + c
          PROVE  rule_stack'[i + k] = rule_stack[i]
        <3>1. i + k \in 1..(Len(rule_stack) - 1) /\ 1 + (i + k) = i
            BY <2>2, <2>6, <2>7, <2>8
        <3>2. QED
            BY <2>6, <3>1
    <2>9. k \in Int /\ (1 + c) + k = c /\ 1 + c \in Nat /\ Len(rule_stack') = Len(rule_stack) + k
        BY <2>2, <2>6, <2>7
    <2>10. WaitBelow((1 + c) + k, open)'
        BY <1>2, <2>2, <2>5, <2>6, <2>8, <2>9, BelowMoves
    <2>11. WaitBelow(c, open)'
        BY <2>9, <2>10
    <2>12. open = f[rule_stack'[c + 1].at - 1]
        BY <2>3, <2>4
    <2>13. QED
        BY <2>11, <2>12
<1>6. CASE Expand
    <2>1. PICK e, r, at :
              /\ Pushes(e, r, at) /\ e \in Nat /\ e >= 1 /\ r \in {0, 1} /\ cur_rule.expect \notin Delimiters
              /\ \/ \A i \in 1..(e + 1 + r) : rule_stack'[i].expect \notin Rights
                 \/ /\ at = Here /\ rule_stack'[e].expect \in Rights
                    /\ \A i \in 1..(e + 1 + r) : i # e => rule_stack'[i].expect \notin Rights
        BY <1>2, <1>6, ExpansionCloses
    <2>2. rule_stack # <<>>
        BY <1>6 DEF Expand, At
    <2>3. /\ Len(rule_stack) \in Nat /\ Len(rule_stack) >= 1 /\ IsSeq(rule_stack')
          /\ Len(rule_stack') = Len(rule_stack) + (e + r)
          /\ DOMAIN rule_stack' = 1..(Len(rule_stack) + (e + r))
        BY <1>2, <2>1, <2>2, TopFacts, SeqFacts DEF Pushes
    <2>4. PICK k : k = e + r
        OBVIOUS
    <2>5. k \in Int /\ k \in Nat /\ Len(rule_stack') = Len(rule_stack) + k
        BY <2>1, <2>3, <2>4
    <2>6. \A i \in 1..Len(rule_stack) : i > 1 => rule_stack'[i + k] = rule_stack[i]
        BY <2>1, <2>3, <2>4 DEF Pushes
    <2>7. c \in 1..(Len(rule_stack) + k) /\ rule_stack'[c].expect \in Rights
        BY <2>3, <2>4 DEF Closers
    <2>8. CASE c > e + 1 + r
        <3>1. PICK d : d = c - k
            OBVIOUS
        <3>2. d \in Closers /\ d >= 2
            BY <1>2, <2>1, <2>2, <2>4, <2>8, <3>1, PushedClosers
        <3>3. rule_stack'[c + 1] = rule_stack[d + 1]
            BY <1>2, <1>4, <2>1, <2>2, <2>4, <2>8, <3>1, <3>2, PushedClosers
        <3>4. d \in Nat /\ d + k = c /\ d > 1 /\ d + k \in Nat
            BY <2>5, <2>7, <3>1, <3>2
        <3>5. PICK open : open = f[rule_stack[d + 1].at - 1]
            OBVIOUS
        <3>6. WaitBelow(d, open)
            BY <1>4, <3>2, <3>5
        <3>7. \A i \in 1..Len(rule_stack) : i > d => rule_stack'[i + k] = rule_stack[i]
            BY <2>3, <2>6, <3>4
        <3>8. WaitBelow(d + k, open)'
            BY <1>2, <2>3, <2>5, <3>4, <3>6, <3>7, BelowMoves
        <3>9. WaitBelow(c, open)' /\ open = f[rule_stack'[c + 1].at - 1]
            BY <3>3, <3>4, <3>5, <3>8
        <3>10. QED
            BY <3>9
    <2>9. CASE ~(c > e + 1 + r)
        <3>1. c = e /\ at = Here /\ \A i \in 1..(e + 1 + r) : i # e => rule_stack'[i].expect \notin Rights
            BY <2>1, <2>3, <2>4, <2>7, <2>9
        <3>2. rule_stack'[c + 1].at = Here
            BY <2>1, <3>1 DEF Pushes, Close, Rule
        <3>3. PICK open : open = f[Here - 1]
            OBVIOUS
        <3>4. cur_rule.expect \notin Rights /\ ~OpenTop
            BY <2>1, DelimiterFacts DEF OpenTop
        <3>5. Pending(open)
            BY <1>2, <1>3, <3>3, <3>4 DEF PairInv
        <3>6. WaitBelow(1, open)
            BY <1>2, <2>2, <3>4, <3>5, BelowTheTop
        <3>7. 1 \in Nat /\ 1 + k \in Nat
            BY <2>5
        <3>8. WaitBelow(1 + k, open)'
            BY <1>2, <2>3, <2>5, <2>6, <3>6, <3>7, BelowMoves
        <3>9. PICK g : EnumeratesBelow(g, 1 + k, open)'
            BY <3>8 DEF WaitBelow
        <3>10. ASSUME NEW i \in Closers'
               PROVE  i > 1 + k <=> i > c
            <4>1. i \in 1..(Len(rule_stack) + k) /\ rule_stack'[i].expect \in Rights
                BY <2>3, <2>4, <3>10 DEF Closers
            <4>2. i = e \/ i > e + 1 + r
                BY <2>1, <2>3, <2>5, <3>1, <4>1
            <4>3. QED
                BY <2>1, <2>3, <2>4, <2>5, <3>1, <4>1, <4>2
        <3>11. EnumeratesBelow(g, c, open)'
            BY <3>9, <3>10 DEF EnumeratesBelow
        <3>12. WaitBelow(c, open)' /\ open = f[rule_stack'[c + 1].at - 1]
            BY <3>2, <3>3, <3>8, <3>11 DEF WaitBelow
        <3>13. QED
            BY <3>12
    <2>10. QED
        BY <2>8, <2>9
<1>7. CASE EatOutband \/ Rekeyword \/ Done \/ UNCHANGED vars
    <2>1. rule_stack' = rule_stack
        BY <1>7 DEF EatOutband, Rekeyword, Done, vars
    <2>2. Closers' = Closers
        BY <2>1 DEF Closers
    <2>3. PICK open : open = f[rule_stack[c + 1].at - 1]
        OBVIOUS
    <2>4. WaitBelow(c, open)
        BY <1>4, <2>2, <2>3
    <2>5. WaitBelow(c, open)'
        BY <2>1, <2>2, <2>4 DEF WaitBelow, EnumeratesBelow
    <2>6. open = f[rule_stack'[c + 1].at - 1]
        BY <2>1, <2>3
    <2>7. QED
        BY <2>5, <2>6
<1>8. QED
    BY <1>3, <1>5, <1>6, <1>7

-----------------------------------------------------------------------------
\* n lists have been opened, and not closed, since base was open.
Above(open, base, n) ==
    /\ IsSeq(open) /\ Len(open) = n + Len(base)
    /\ \A i \in 1..Len(base) : open[n + i] = base[i]

\* synchronize after the first error counts what is opened since, unless the error
\* is an opening or a closing does not fit.
FirstSkipInv ==
    skipping /\ Len(errors) = 1 =>
        \A f : IsOpen(f, source) =>
            /\ rule_stack # <<>> /\ cur_rule.expect = "R_PAREN"
            /\ Pending(f[errors[1].at - 1]) /\ WaitBelow(1, f[rule_stack[2].at - 1])
            /\ source[errors[1].at].kind \notin L_DELIMITERS =>
                   \/ Broken(f[Here - 1])
                   \/ Above(f[Here - 1], f[errors[1].at - 1], depth)

\* What the next token makes of the lists above: one more, one less, or a closing
\* that does not fit.
LEMMA PairAbove ==
    ASSUME NEW open, NEW base, NEW n \in Nat, Above(open, base, n), IsSeq(base),
           base # <<>>, Head(base) = "R_PAREN", NEW t
    PROVE  /\ t.kind \notin Delimiters => Above(Pair(open, t), base, n)
           /\ t.kind \in L_DELIMITERS => Above(Pair(open, t), base, n + 1)
           /\ t.kind \in Rights /\ n > 0 => Broken(Pair(open, t)) \/ Above(Pair(open, t), base, n - 1)
           /\ t.kind \in Rights /\ n = 0 /\ t.kind # "R_PAREN" => Broken(Pair(open, t))
<1>1. /\ IsSeq(open) /\ Len(open) = n + Len(base) /\ Len(base) \in Nat /\ Len(base) >= 1
      /\ \A i \in 1..Len(base) : open[n + i] = base[i]
      /\ base[1] = "R_PAREN" /\ 1 \in 1..Len(base)
    BY SeqFacts DEF Above
<1>2. open # <<>> /\ Head(open) = open[1]
    <2>1. Len(open) # 0
        BY <1>1
    <2>2. QED
        BY <1>1, <2>1, SeqFacts
<1>3. CASE t.kind \notin Delimiters
    BY <1>3, PairOf, DelimiterFacts
<1>4. CASE t.kind \in L_DELIMITERS
    <2>1. PICK a, w : a = <<Closing[t.kind]>> /\ w = a \o open
        OBVIOUS
    <2>2. IsSeq(a) /\ Len(a) = 1
        BY <2>1, Tuples
    <2>3. IsSeq(w) /\ Len(w) = 1 + Len(open) /\ \A i \in 1..Len(open) : w[1 + i] = open[i]
        <3>1. IsSeq(open)
            BY <1>1
        <3>2. IsSeq(w) /\ Len(w) = Len(a) + Len(open) /\ \A i \in 1..Len(open) : w[Len(a) + i] = open[i]
            BY <2>1, <2>2, <3>1, ConcatFacts
        <3>3. QED
            BY <2>2, <3>2
    <2>4. ASSUME NEW i \in 1..Len(base)
          PROVE  w[(n + 1) + i] = base[i]
        <3>1. n + i \in 1..Len(open) /\ (n + 1) + i = 1 + (n + i)
            BY <1>1
        <3>2. QED
            BY <1>1, <2>3, <3>1
    <2>5. Len(w) = (n + 1) + Len(base)
        BY <1>1, <2>3
    <2>6. Above(w, base, n + 1)
        BY <2>3, <2>4, <2>5 DEF Above
    <2>7. Pair(open, t) = w
        BY <1>4, <2>1, PairOf
    <2>8. QED
        BY <1>4, <2>6, <2>7, DelimiterFacts
<1>5. CASE t.kind \in Rights /\ Head(open) = t.kind
    <2>1. CASE n > 0
        <3>1. PICK w : w = Tail(open)
            OBVIOUS
        <3>2. IsSeq(w) /\ Len(w) = Len(open) - 1 /\ \A i \in 1..(Len(open) - 1) : w[i] = open[i + 1]
            BY <1>1, <1>2, <3>1, SeqFacts
        <3>3. ASSUME NEW i \in 1..Len(base)
              PROVE  w[(n - 1) + i] = base[i]
            <4>1. (n - 1) + i \in 1..(Len(open) - 1) /\ ((n - 1) + i) + 1 = n + i
                BY <1>1, <2>1
            <4>2. QED
                BY <1>1, <3>2, <4>1
        <3>4. Len(w) = (n - 1) + Len(base)
            BY <1>1, <3>2
        <3>5. Above(w, base, n - 1)
            BY <3>2, <3>3, <3>4 DEF Above
        <3>6. Pair(open, t) = w
            BY <1>2, <1>5, <3>1, PairOf
        <3>7. QED
            BY <1>5, <2>1, <3>5, <3>6, DelimiterFacts
    <2>2. CASE n = 0
        <3>1. open[1] = base[1]
            <4>1. n + 1 = 1
                BY <2>2
            <4>2. open[n + 1] = base[1]
                BY <1>1
            <4>3. QED
                BY <4>1, <4>2
        <3>2. t.kind = "R_PAREN"
            BY <1>1, <1>2, <1>5, <3>1
        <3>3. QED
            BY <1>5, <2>2, <3>2, DelimiterFacts
    <2>3. QED
        BY <2>1, <2>2
<1>6. CASE t.kind \in Rights /\ Head(open) # t.kind
    <2>1. Broken(Pair(open, t))
        BY <1>1, <1>6, PairBreaks
    <2>2. QED
        BY <1>6, <2>1, DelimiterFacts
<1>7. QED
    BY <1>3, <1>4, <1>5, <1>6, DelimiterFacts

\* A skip begins with the first error where a list only waits for its end.
LEMMA FirstSkipBegins ==
    ASSUME PairSteps, ListsEnd, PlaceInv, Unexpected, errors = <<>>, skipping', NEW f, IsOpen(f, source)
    PROVE  /\ rule_stack' # <<>> /\ cur_rule'.expect = "R_PAREN"
           /\ Pending(f[errors[1].at - 1])' /\ WaitBelow(1, f[rule_stack[2].at - 1])'
           /\ source'[errors'[1].at].kind \notin L_DELIMITERS =>
                  \/ Broken(f[Here' - 1])
                  \/ Above(f[Here' - 1], f[errors'[1].at - 1], depth')
<1>1. /\ ShapeInv /\ QueueInv /\ StackInv /\ RuleInv /\ TextInv /\ PairInv
    BY DEF PairSteps, ShapeInv
<1>2. /\ rule_stack # <<>> /\ rule_stack' = rule_stack /\ cur_rule' = cur_rule /\ source' = source
      /\ queue' = Step /\ depth' = 0 /\ cur_rule.expect = "R_PAREN"
    BY DEF Unexpected, At, cur_rule
<1>3. errors'[1].at = Here
    <2>1. PICK e : e = Error("Unexpected", Here)
        OBVIOUS
    <2>2. errors' = <<>> \o e
        BY <2>1 DEF Unexpected
    <2>3. IsSeq(e) /\ DOMAIN e = {1} /\ e[1].at = Here
        BY <2>1, ErrorFacts
    <2>4. IsSeq(<<>>) /\ Len(<<>>) = 0
        BY Tuples
    <2>5. Len(e) = 1
        <3>1. DOMAIN e = 1..Len(e) /\ Len(e) \in Nat
            BY <2>3, SeqFacts
        <3>2. QED
            BY <2>3, <3>1
    <2>6. errors'[0 + 1] = e[1]
        BY <2>2, <2>3, <2>4, <2>5, ConcatFacts
    <2>7. QED
        BY <2>3, <2>6
<1>4. PICK base, below : base = f[Here - 1] /\ below = f[rule_stack[2].at - 1]
    OBVIOUS
<1>5. cur_rule.expect \in Rights /\ cur_rule.expect \notin L_DELIMITERS /\ ~OpenTop
    BY <1>2 DEF Rights, L_DELIMITERS, OpenTop
<1>6. Pending(base) /\ IsSeq(base) /\ base # <<>> /\ Head(base) = "R_PAREN"
    <2>1. Pending(base)
        BY <1>1, <1>4, <1>5 DEF PairInv
    <2>2. QED
        BY <1>1, <1>2, <1>5, <2>1, BelowTheTop DEF Pending
<1>7. WaitBelow(1, below)
    <2>1. 1 \in Closers
        BY <1>1, <1>2, <1>5, TopFacts DEF Closers
    <2>2. 1 + 1 = 2
        OBVIOUS
    <2>3. QED
        BY <1>4, <2>1, <2>2 DEF PlaceInv
<1>8. Pending(base)' /\ WaitBelow(1, below)'
    BY <1>2, <1>6, <1>7 DEF Pending, Enumerates, WaitBelow, EnumeratesBelow, Closers
<1>9. cur_token.kind # "END" /\ cur_token.kind # "R_PAREN"
    <2>1. cur_rule.notation = "Once"
        BY <1>1, <1>2, <1>5, TopFacts, DelimiterFacts DEF RuleInv
    <2>2. QED
        BY <1>2, <2>1 DEF Unexpected, At, Branch
<1>10. queue # <<>>
    BY <1>1, <1>9, HereType
<1>11. /\ f[Here' - 1] = Pair(f[Here - 1], source[Here])
       /\ \/ cur_token.kind = source[Here].kind
          \/ cur_token.kind \notin Delimiters /\ source[Here].kind \notin Delimiters
    BY <1>1, <1>2, <1>10, OpenAtNext
<1>12. PICK next, t : next = f[Here' - 1] /\ t = source[Here]
    OBVIOUS
<1>13. Above(base, base, 0)
    <2>1. \A i \in 1..Len(base) : 0 + i = i
        OBVIOUS
    <2>2. Len(base) = 0 + Len(base)
        BY <1>6, SeqFacts
    <2>3. QED
        BY <1>6, <2>1, <2>2 DEF Above
<1>14. t.kind \notin L_DELIMITERS => Broken(next) \/ Above(next, base, 0)
    <2>1. next = Pair(base, t) /\ 0 \in Nat
        BY <1>4, <1>11, <1>12
    <2>2. t.kind # "R_PAREN"
        BY <1>9, <1>11, <1>12, DelimiterFacts DEF Rights
    <2>3. /\ t.kind \notin Delimiters => Above(Pair(base, t), base, 0)
          /\ t.kind \in Rights /\ 0 = 0 /\ t.kind # "R_PAREN" => Broken(Pair(base, t))
        BY <1>6, <1>13, <2>1, PairAbove
    <2>4. QED
        BY <2>1, <2>2, <2>3, DelimiterFacts
<1>15. QED
    BY <1>2, <1>3, <1>4, <1>8, <1>12, <1>14

\* It goes on counting.
LEMMA FirstSkipGoesOn ==
    ASSUME PairSteps, FirstSkipInv, synchronize, ~SyncStops, Len(errors) = 1, skipping, NEW f, IsOpen(f, source),
           source[errors[1].at].kind \notin L_DELIMITERS
    PROVE  \/ Broken(f[Here' - 1])
           \/ Above(f[Here' - 1], f[errors[1].at - 1], depth')
<1>1. ShapeInv /\ QueueInv /\ StackInv /\ TextInv /\ depth \in Nat
    BY DEF PairSteps, ShapeInv, QueueInv
<1>2. PICK base, open : base = f[errors[1].at - 1] /\ open = f[Here - 1]
    OBVIOUS
<1>3. /\ rule_stack # <<>> /\ cur_rule.expect = "R_PAREN" /\ Pending(base)
      /\ Broken(open) \/ Above(open, base, depth)
    BY <1>2 DEF FirstSkipInv
<1>4. IsSeq(base) /\ base # <<>> /\ Head(base) = "R_PAREN"
    BY <1>1, <1>3, BelowTheTop DEF Pending, Rights
<1>5. queue # <<>> /\ (cur_token.kind = "R_PAREN" => depth # 0)
    BY <1>1, HereType DEF SyncStops
<1>6. /\ queue' = Step /\ source' = source
      /\ depth' = CASE cur_token.kind \in L_DELIMITERS -> depth + 1
                    [] cur_token.kind \in {"R_PAREN", "R_BRACKET", "R_BRACE"} /\ depth > 0 -> depth - 1
                    [] OTHER -> depth
    BY DEF synchronize
<1>7. /\ f[Here' - 1] = Pair(f[Here - 1], source[Here])
      /\ \/ cur_token.kind = source[Here].kind
         \/ cur_token.kind \notin Delimiters /\ source[Here].kind \notin Delimiters
    BY <1>1, <1>5, <1>6, OpenAtNext
<1>8. PICK next, t : next = f[Here' - 1] /\ t = source[Here]
    OBVIOUS
<1>9. next = Pair(open, t)
    BY <1>2, <1>7, <1>8
<1>10. CASE Broken(open)
    BY <1>2, <1>8, <1>9, <1>10, BrokenStays
<1>11. CASE Above(open, base, depth)
    <2>1. /\ t.kind \notin Delimiters => Above(next, base, depth)
          /\ t.kind \in L_DELIMITERS => Above(next, base, depth + 1)
          /\ t.kind \in Rights /\ depth > 0 => Broken(next) \/ Above(next, base, depth - 1)
          /\ t.kind \in Rights /\ depth = 0 /\ t.kind # "R_PAREN" => Broken(next)
        BY <1>1, <1>4, <1>9, <1>11, PairAbove
    <2>2. CASE t.kind \notin Delimiters
        <3>1. cur_token.kind \notin L_DELIMITERS /\ cur_token.kind \notin Rights
            BY <1>7, <1>8, <2>2, DelimiterFacts
        <3>2. depth' = depth
            BY <1>6, <3>1 DEF Rights
        <3>3. QED
            BY <1>2, <1>8, <2>1, <2>2, <3>2
    <2>3. CASE t.kind \in L_DELIMITERS
        <3>1. cur_token.kind \in L_DELIMITERS
            BY <1>7, <1>8, <2>3, DelimiterFacts
        <3>2. depth' = depth + 1
            <4>1. cur_token.kind \notin {"R_PAREN", "R_BRACKET", "R_BRACE"}
                BY <3>1, DelimiterFacts DEF Rights
            <4>2. QED
                BY <1>6, <3>1, <4>1
        <3>3. QED
            BY <1>2, <1>8, <2>1, <2>3, <3>2
    <2>4. CASE t.kind \in Rights
        <3>1. cur_token.kind = t.kind /\ cur_token.kind \notin L_DELIMITERS
            BY <1>7, <1>8, <2>4, DelimiterFacts
        <3>2. CASE depth > 0
            <4>1. depth' = depth - 1
                BY <1>6, <2>4, <3>1, <3>2 DEF Rights
            <4>2. QED
                BY <1>2, <1>8, <2>1, <2>4, <3>2, <4>1
        <3>3. CASE depth = 0
            BY <1>5, <1>8, <2>1, <2>4, <3>1, <3>3
        <3>4. QED
            BY <1>1, <3>2, <3>3
    <2>5. QED
        BY <2>2, <2>3, <2>4, DelimiterFacts
<1>12. QED
    BY <1>3, <1>10, <1>11

\* So its count stays right.
LEMMA FirstSkipStep ==
    ASSUME PairSteps, ListsEnd, PlaceInv, FirstSkipInv, [Next]_vars
    PROVE  FirstSkipInv'
<1>1. SUFFICES ASSUME skipping', Len(errors') = 1, NEW f, IsOpen(f, source')
               PROVE  /\ rule_stack' # <<>> /\ cur_rule'.expect = "R_PAREN"
                      /\ Pending(f[errors[1].at - 1])' /\ WaitBelow(1, f[rule_stack[2].at - 1])'
                      /\ source'[errors'[1].at].kind \notin L_DELIMITERS =>
                             \/ Broken(f[Here' - 1])
                             \/ Above(f[Here' - 1], f[errors'[1].at - 1], depth')
    BY DEF FirstSkipInv
<1>2. ShapeInv /\ QueueInv /\ source' = source /\ IsOpen(f, source) /\ IsSeq(errors) /\ skipping \in BOOLEAN
    BY <1>1, QueueStep DEF PairSteps, ShapeInv, QueueInv, TreeInv
<1>3. CASE ~skipping
    <2>1. Unexpected
        BY <1>1, <1>3 DEF Next, parse_inner, recover_error, Refuse, CloseNode, EatOutband, Match, Stop, Expand,
           EarlyClose, Rekeyword, MissingClose, synchronize, At, Branch, Done, vars
    <2>2. errors = <<>>
        <3>1. PICK e : e = Error("Unexpected", Here)
            OBVIOUS
        <3>2. IsSeq(e) /\ DOMAIN e = {1} /\ errors' = errors \o e
            BY <2>1, <3>1, ErrorFacts DEF Unexpected
        <3>3. Len(e) = 1
            <4>1. DOMAIN e = 1..Len(e) /\ Len(e) \in Nat
                BY <3>2, SeqFacts
            <4>2. QED
                BY <3>2, <4>1
        <3>4. Len(errors') = Len(errors) + 1 /\ Len(errors) \in Nat
            <4>1. IsSeq(errors) /\ IsSeq(e) /\ errors' = errors \o e
                BY <1>2, <3>2
            <4>2. Len(errors \o e) = Len(errors) + Len(e) /\ Len(errors) \in Nat
                BY <4>1, ConcatFacts, SeqFacts
            <4>3. QED
                BY <3>3, <4>1, <4>2
        <3>5. Len(errors) = 0
            BY <1>1, <3>4
        <3>6. QED
            BY <1>2, <3>5, SeqFacts
    <2>3. QED
        BY <1>1, <1>2, <2>1, <2>2, FirstSkipBegins
<1>4. CASE skipping
    <2>1. synchronize \/ UNCHANGED vars
        BY <1>4, SkippingIsAlone
    <2>2. errors' = errors /\ rule_stack' = rule_stack /\ cur_rule' = cur_rule
        BY <2>1 DEF synchronize, vars, cur_rule
    <2>3. PICK base, below : base = f[errors[1].at - 1] /\ below = f[rule_stack[2].at - 1]
        OBVIOUS
    <2>4. /\ rule_stack # <<>> /\ cur_rule.expect = "R_PAREN" /\ Pending(base) /\ WaitBelow(1, below)
          /\ source[errors[1].at].kind \notin L_DELIMITERS =>
                 Broken(f[Here - 1]) \/ Above(f[Here - 1], base, depth)
        BY <1>1, <1>2, <1>4, <2>2, <2>3 DEF FirstSkipInv
    <2>5. Pending(base)' /\ WaitBelow(1, below)'
        <3>1. Closers' = Closers /\ Pending(base) /\ WaitBelow(1, below) /\ rule_stack' = rule_stack
            BY <2>2, <2>4 DEF Closers
        <3>2. Pending(base)'
            BY <3>1 DEF Pending, Enumerates
        <3>3. WaitBelow(1, below)'
            BY <3>1 DEF WaitBelow, EnumeratesBelow
        <3>4. QED
            BY <3>2, <3>3
    <2>6. source[errors[1].at].kind \notin L_DELIMITERS =>
              Broken(f[Here' - 1]) \/ Above(f[Here' - 1], base, depth')
        <3>1. CASE synchronize
            <4>1. ~SyncStops
                BY <1>1, <3>1 DEF synchronize
            <4>2. QED
                BY <1>1, <1>2, <1>4, <2>2, <2>3, <3>1, <4>1, FirstSkipGoesOn
        <3>2. CASE UNCHANGED vars
            <4>1. Here' = Here /\ depth' = depth
                BY <3>2 DEF vars, Here
            <4>2. QED
                BY <2>4, <4>1
        <3>3. QED
            BY <2>1, <3>1, <3>2
    <2>7. QED
        BY <1>2, <2>2, <2>3, <2>4, <2>5, <2>6
<1>5. QED
    BY <1>2, <1>3, <1>4

FirstSkips == PairSteps /\ ListsEnd /\ PlaceInv /\ FirstSkipInv

\* In a text that pairs up it stops at the end of the list it began in.
LEMMA FirstSkipEnds ==
    ASSUME FirstSkips, skipping, SyncStops, Len(errors) = 1, OpenAfter(source) = <<>>,
           source[errors[1].at].kind \notin L_DELIMITERS
    PROVE  /\ Lists # {} /\ cur_token.kind = "R_PAREN"
           /\ OpenAfter(SubSeq(source, 1, Here))
                  = OpenAfter(SubSeq(source, 1, rule_stack[First(Lists)].at - 1))
<1>1. /\ ShapeInv /\ QueueInv /\ StackInv /\ RuleInv /\ TextInv /\ ListsEnd /\ depth \in Nat
      /\ IsSeq(source) /\ Len(source) \in Nat
    BY SeqFacts DEF FirstSkips, PairSteps, ShapeInv, QueueInv
<1>2. PICK f : IsOpen(f, source)
    BY <1>1, OpenAfterIsLast
<1>3. PICK base, open, below : base = f[errors[1].at - 1] /\ open = f[Here - 1] /\ below = f[rule_stack[2].at - 1]
    OBVIOUS
<1>4. /\ rule_stack # <<>> /\ cur_rule.expect = "R_PAREN" /\ Pending(base) /\ WaitBelow(1, below)
      /\ Broken(open) \/ Above(open, base, depth)
    BY <1>2, <1>3 DEF FirstSkips, FirstSkipInv
<1>5. cur_rule.expect \in Rights
    BY <1>4 DEF Rights
<1>6. /\ IsSeq(base) /\ Len(base) \in Nat /\ base # <<>> /\ Head(base) = "R_PAREN" /\ WaitBelow(1, Tail(base))
    BY <1>1, <1>4, <1>5, BelowTheTop, SeqFacts DEF Pending
<1>7. Here \in Nat /\ Here >= 1 /\ Here <= Len(source) + 1 /\ (queue = <<>> => Here - 1 = Len(source))
    BY <1>1, HereType
<1>8. ~Broken(open)
    <2>1. Here - 1 \in 0..Len(source)
        BY <1>1, <1>7
    <2>2. QED
        BY <1>1, <1>2, <1>3, <2>1, BrokenToTheEnd
<1>9. Above(open, base, depth)
    BY <1>4, <1>8
<1>10. cur_token.kind = "R_PAREN" /\ depth = 0 /\ queue # <<>>
    <2>1. queue # <<>>
        <3>1. SUFFICES ASSUME queue = <<>>
                       PROVE  FALSE
            OBVIOUS
        <3>2. open = <<>>
            BY <1>1, <1>2, <1>3, <1>7, <3>1, OpenAfterWhole
        <3>3. Len(open) = 0
            BY <3>2
        <3>4. Len(base) # 0
            BY <1>6, SeqFacts
        <3>5. QED
            <4>1. Len(open) = depth + Len(base) /\ depth \in Nat /\ Len(base) \in Nat
                BY <1>1, <1>6, <1>9 DEF Above
            <4>2. QED
                BY <3>3, <3>4, <4>1
    <2>2. QED
        BY <1>1, <2>1, HereType DEF SyncStops
<1>11. open = base
    <2>1. IsSeq(open) /\ Len(open) = 0 + Len(base) /\ \A i \in 1..Len(base) : open[0 + i] = base[i]
        BY <1>9, <1>10 DEF Above
    <2>2. Len(open) = Len(base) /\ \A i \in 1..Len(base) : open[i] = base[i]
        BY <1>6, <2>1
    <2>3. QED
        BY <1>6, <2>1, <2>2, SameSequences
<1>12. Here \in 1..Len(source) /\ source[Here].kind = "R_PAREN"
    <2>1. /\ queue[1] = cur_token /\ 1 \in DOMAIN queue
        BY <1>1, <1>10, SeqFacts DEF QueueInv, cur_token
    <2>2. Here - 1 + 1 = Here
        BY <1>7
    <2>3. source[Here].kind = "R_PAREN"
        BY <1>1, <1>10, <2>1, <2>2, DelimiterFacts DEF TextInv, Rights
    <2>4. Here # Len(source) + 1
        BY <1>1, <1>10, HereType
    <2>5. QED
        BY <1>1, <1>7, <2>3, <2>4
<1>13. OpenAfter(SubSeq(source, 1, Here)) = Tail(base)
    <2>1. OpenAfter(SubSeq(source, 1, Here)) = f[Here] /\ f[Here] = Pair(f[Here - 1], source[Here])
        <3>1. Here \in 0..Len(source)
            BY <1>1, <1>12
        <3>2. QED
            BY <1>1, <1>2, <1>12, <3>1, OpenAfterPart, OpenNext
    <2>2. PICK t : t = source[Here]
        OBVIOUS
    <2>3. Pair(base, t) = Tail(base)
        BY <1>5, <1>4, <1>6, <1>12, <2>2, PairOf
    <2>4. QED
        BY <1>3, <1>11, <2>1, <2>2, <2>3
<1>14. First(Lists) = 2 /\ 2 \in Lists
    <2>1. 2 \in Lists
        <3>1. 1 \in Closers
            BY <1>1, <1>4, <1>5, TopFacts DEF Closers
        <3>2. 1 + 1 \in Lists
            BY <1>1, <3>1 DEF ListsEnd
        <3>3. QED
            BY <3>2
    <2>2. 1 \notin Lists
        <3>1. rule_stack[1].notation = "Once"
            BY <1>1, <1>4, <1>5, TopFacts, DelimiterFacts DEF RuleInv
        <3>2. QED
            BY <3>1, ListPlaces DEF IsClose
    <2>3. \A j \in Lists : j \in Nat /\ 2 <= j
        <3>1. \A j \in Lists : j \in 1..Len(rule_stack) /\ j # 1
            BY <1>1, <1>4, <2>2, TopFacts, ListPlaces
        <3>2. QED
            BY <3>1
    <2>4. \E i \in Lists : \A j \in Lists : i <= j
        BY <2>1, <2>3
    <2>5. First(Lists) \in Lists /\ \A j \in Lists : First(Lists) <= j
        BY <2>4 DEF First
    <2>6. QED
        BY <2>1, <2>3, <2>5
<1>15. OpenAfter(SubSeq(source, 1, rule_stack[First(Lists)].at - 1)) = below
    <2>1. PICK n : n = rule_stack[2].at - 1
        OBVIOUS
    <2>2. n \in 0..Len(source)
        <3>1. rule_stack[2].at \in 1..Here
            BY <1>1, <1>14 DEF StackInv
        <3>2. QED
            BY <1>1, <1>12, <2>1, <3>1
    <2>3. OpenAfter(SubSeq(source, 1, n)) = f[n]
        BY <1>1, <1>2, <2>2, OpenAfterPart
    <2>4. QED
        BY <1>3, <1>14, <2>1, <2>3
<1>16. below = Tail(base)
    <2>1. PICK t : t = Tail(base)
        OBVIOUS
    <2>2. WaitBelow(1, t)
        BY <1>6, <2>1
    <2>3. below = t
        BY <1>1, <1>4, <2>2, BelowIsUnique
    <2>4. QED
        BY <2>1, <2>3
<1>17. QED
    BY <1>10, <1>13, <1>14, <1>15, <1>16

\* Whatever the text: where the delimiters pair up, the tokens passed over after
\* the first error end with the list the error is in, if it is no opening.
THEOREM FirstSkipsEndTheirList == Spec => FirstSkipEndsItsList
<1>1. Init => FirstSkips
    <2>1. ASSUME Init
          PROVE  FirstSkips
        <3>1. PairSteps
            BY <2>1, PairsAtFirst
        <3>2. rule_stack = <<Star("N_SEXP", {"END"}), One("END"), Close("ROOT", 0)>> /\ skipping = FALSE
            BY <2>1 DEF Init
        <3>3. DOMAIN rule_stack = 1..3
            BY <3>2
        <3>4. /\ rule_stack[1].expect = "N_SEXP" /\ rule_stack[2].expect = "END" /\ rule_stack[3].expect = "ROOT"
            BY <3>2 DEF Star, One, Close, Rule
        <3>5. Closers = {}
            <4>1. \A i \in 1..3 : i = 1 \/ i = 2 \/ i = 3
                OBVIOUS
            <4>2. QED
                BY <3>3, <3>4, <4>1 DEF Closers, Rights
        <3>6. QED
            BY <3>1, <3>2, <3>5 DEF FirstSkips, ListsEnd, PlaceInv, FirstSkipInv
    <2>2. QED
        BY <2>1
<1>2. FirstSkips /\ [Next]_vars => FirstSkips'
    <2>1. ASSUME FirstSkips, [Next]_vars
          PROVE  FirstSkips'
        <3>1. PairSteps /\ ShapeInv /\ QueueInv /\ StackInv /\ RuleInv /\ TextInv /\ EndInv
            BY <2>1 DEF FirstSkips, PairSteps, ShapeInv
        <3>2. ShapeInv' /\ RuleInv' /\ TextInv' /\ EndInv' /\ PairInv'
            BY <2>1, <3>1, ShapeStep, RuleStep, TextStep, EndStep, PairStep
        <3>3. ListsEnd' /\ PlaceInv' /\ FirstSkipInv'
            BY <2>1, <3>1, ListsEndStep, PlaceStep, FirstSkipStep DEF FirstSkips
        <3>4. QED
            BY <3>2, <3>3 DEF FirstSkips, PairSteps
    <2>2. QED
        BY <2>1
<1>3. FirstSkips =>
          ((/\ At("synchronize") /\ SyncStops /\ OpenAfter(source) = <<>>
            /\ Len(errors) = 1 /\ source[errors[1].at].kind \notin L_DELIMITERS) =>
           /\ Lists # {} /\ cur_token.kind = "R_PAREN"
           /\ OpenAfter(SubSeq(source, 1, Here))
                  = OpenAfter(SubSeq(source, 1, rule_stack[First(Lists)].at - 1)))
    <2>1. At("synchronize") => skipping
        BY DEF At, Branch
    <2>2. QED
        BY <2>1, FirstSkipEnds
<1>4. QED
    BY <1>1, <1>2, <1>3, PTL DEF Spec, FirstSkipEndsItsList
=============================================================================
