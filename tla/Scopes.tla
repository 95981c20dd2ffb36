------------------------------- MODULE Scopes -------------------------------
(***************************************************************************)
(* Bindings and references. A program is written form by form; of its tree *)
(* this module keeps the nodes that bind or delimit scopes, of its text    *)
(* the names, whose offsets are their numbers. The tables of bindings and  *)
(* uses are computed from the finished tree, as ranges of offsets; "env"   *)
(* is the table of symbols that one would keep while reading along.        *)
(***************************************************************************)
EXTENDS Naturals, FiniteSets, Selection

CONSTANTS
    Forms,          \* the forms that programs are written in
    Name,
    Field,
    Module,         \* what may be required
    MaxTokens, MaxNodes,    \* bound the programs
    None

ASSUME ScopesAssumption ==
    /\ Forms \subseteq {"N_LOCAL", "N_VAR", "N_GLOBAL", "N_LET", "N_WITH_OPEN", "N_EACH", "N_FOR",
                        "N_COLLECT", "N_ICOLLECT", "N_FCOLLECT", "N_ACCUMULATE", "N_FN", "N_LAMBDA",
                        "N_MACRO", "N_IMPORT_MACROS", "N_MATCH", "N_MATCH_TRY"}
    /\ None \notin Nat
    /\ None \notin [token : Nat, text : Seq(Name \cup Field), scope : [start : Nat, end : Nat], global : BOOLEAN]

VARIABLES nodes, tokens, at, env

written == <<nodes, tokens, at, env>>

-----------------------------------------------------------------------------
\* Writing. What may follow what in a node ("" for nothing yet), and the last.
\* What only surrounds others in the tree (tables, bodies, values) is left out;
\* an accumulator starts with a literal; a function has a name or parameters.
Clauses == {"N_MATCH_CLAUSE", "N_MATCH_TRY_CLAUSE"}
Pairs == {"N_ASSIGN_PAIR", "N_NV_PAIR", "N_IMPORT_MACROS_PAIR"}
Binders == Pairs \cup {"N_ITERATION", "N_ITERATION_VALUE", "N_ACCUMULATOR", "N_FN_NAME",
                       "N_ASSIGN_PATTERN", "N_MACRO_NAME"}

\* Some heads, each as often as one likes, and then the forms of a body.
Each(head) == {<<"", head>>, <<head, head>>}
Before(head) == Each(head) \cup {<<head, "form">>}
Named(name) == {<<"", name>>, <<name, "N_ASSIGN_PATTERN">>, <<name, "form">>,
                <<"N_ASSIGN_PATTERN", "N_ASSIGN_PATTERN">>, <<"N_ASSIGN_PATTERN", "form">>}

Heading(kind) ==
    CASE kind = "Root" -> {<<"", "form">>}
      [] kind \in {"N_LOCAL", "N_VAR", "N_GLOBAL"} -> {<<"", "N_ASSIGN_PAIR">>}
      [] kind = "N_IMPORT_MACROS" -> Each("N_IMPORT_MACROS_PAIR")
      [] kind = "N_LET" -> Before("N_ASSIGN_PAIR")
      [] kind = "N_WITH_OPEN" -> Before("N_NV_PAIR")
      [] kind \in {"N_EACH", "N_COLLECT", "N_ICOLLECT"} -> Before("N_ITERATION")
      [] kind = "N_ACCUMULATE" ->
            (Before("N_ITERATION") \ {<<"", "N_ITERATION">>})
                \cup {<<"", "N_ACCUMULATOR">>, <<"N_ACCUMULATOR", "N_ITERATION">>}
      [] kind \in {"N_FOR", "N_FCOLLECT"} ->
            {<<"", "N_ITERATION_VALUE">>, <<"N_ITERATION_VALUE", "form">>}
      [] kind \in {"N_FN", "N_LAMBDA"} -> Named("N_FN_NAME") \cup {<<"", "N_ASSIGN_PATTERN">>}
      [] kind = "N_MACRO" -> Named("N_MACRO_NAME")
      [] kind = "N_MATCH" -> {<<"", "form">>, <<"form", "N_MATCH_CLAUSE">>,
                              <<"N_MATCH_CLAUSE", "N_MATCH_CLAUSE">>}
      [] kind = "N_MATCH_TRY" -> {<<"", "form">>, <<"form", "N_MATCH_TRY_CLAUSE">>,
                                  <<"N_MATCH_TRY_CLAUSE", "N_MATCH_TRY_CLAUSE">>,
                                  <<"N_MATCH_TRY_CLAUSE", "N_CATCH">>}
      [] kind = "N_CATCH" -> Each("N_MATCH_CLAUSE")
      [] kind \in Clauses -> {<<"", "pattern">>, <<"pattern", "form">>}
      [] kind \in Pairs -> {<<"", "binder">>, <<"binder", "form">>}
      [] OTHER -> {<<"", "binder">>}

\* The loops' iterators and ranges stand before their bodies.
Bodied == {"Root", "N_LET", "N_WITH_OPEN", "N_FN", "N_LAMBDA", "N_MACRO", "N_EACH", "N_COLLECT",
           "N_ICOLLECT", "N_ACCUMULATE", "N_FOR", "N_FCOLLECT"}

MayFollow(kind, last, next) ==
    \/ <<last, next>> \in Heading(kind)
    \/ kind \in Bodied /\ last = "form" /\ next = "form"

IsWhole(node) ==
    CASE node.kind \in {"N_LOCAL", "N_VAR", "N_GLOBAL"} -> node.last = "N_ASSIGN_PAIR"
      [] node.kind = "N_IMPORT_MACROS" -> node.last = "N_IMPORT_MACROS_PAIR"
      [] node.kind = "N_MATCH_TRY" -> node.last \in {"N_MATCH_TRY_CLAUSE", "N_CATCH"}
      [] node.kind \in {"N_MATCH", "N_CATCH"} -> node.last = "N_MATCH_CLAUSE"
      [] node.kind \in Bodied \cup Pairs \cup Clauses -> node.last = "form"
      [] OTHER -> node.last = "binder"

-----------------------------------------------------------------------------
\* The tree of a program p, read by offsets.

\* fcollect is none of them.
ScopeAst == {"Root", "N_LET", "N_WITH_OPEN", "N_EACH", "N_FOR", "N_ICOLLECT", "N_COLLECT",
             "N_ACCUMULATE", "N_FN", "N_LAMBDA", "N_IMPORT_MACROS", "N_MATCH", "N_MATCH_TRY",
             "N_CATCH", "N_MACRO"}

\* The scope forms from a node up to the root.
ScopesOf(p, n) ==
    LET up[k \in 0..n] ==
            IF k = 0 THEN <<>>
            ELSE (IF p.nodes[k].kind \in ScopeAst THEN <<k>> ELSE <<>>) \o up[p.nodes[k].parent]
    IN  up[n]

End(p, n) == IF p.nodes[n].kind = "Root" THEN Len(p.tokens) ELSE p.nodes[n].end

\* What is bound in match-try is not in force where it catches.
Catches(p, n) == {c \in DOMAIN p.nodes : p.nodes[c].parent = n /\ p.nodes[c].kind = "N_CATCH"}
CurrentEnd(p, n) ==
    LET scope == ScopesOf(p, n)[1]
    IN  IF Catches(p, scope) = {} THEN End(p, scope)
        ELSE p.nodes[CHOOSE c \in Catches(p, scope) : TRUE].start

\* Whose scope ends with the scope form around the one that it is in.
IsOuter(p, n) ==
    \/ p.nodes[n].kind \in {"N_FN_NAME", "N_MACRO_NAME", "N_IMPORT_MACROS_PAIR"}
    \/ p.nodes[p.nodes[n].parent].kind = "N_GLOBAL"
Frame(p, n) ==
    LET scopes == ScopesOf(p, n)
    IN  IF IsOuter(p, n) /\ Len(scopes) > 1 THEN scopes[2] ELSE scopes[1]
ScopeEnd(p, n) == IF IsOuter(p, n) THEN End(p, Frame(p, n)) ELSE CurrentEnd(p, n)

\* A macro's name is bound behind the macro, all else behind the binder's node.
Declarer(p, n) == IF p.nodes[n].kind = "N_MACRO_NAME" THEN p.nodes[n].parent ELSE n

\* Mutant: a scope begins with the name itself.
ScopeWithValue(p, n) == [start |-> p.nodes[n].start, end |-> ScopeEnd(p, n)]

scope_range(p, n) == [start |-> End(p, Declarer(p, n)), end |-> ScopeEnd(p, n)]

contains_range(range, i) == range.start <= i - 1 /\ i <= range.end

-----------------------------------------------------------------------------
\* The tables.

bindings(p) ==
    {[token |-> i, text |-> p.tokens[i].text, scope |-> scope_range(p, p.tokens[i].node),
      global |-> p.nodes[p.nodes[p.tokens[i].node].parent].kind = "N_GLOBAL"] :
        i \in {i \in DOMAIN p.tokens : p.tokens[i].role = "l"}}

\* Mutant: of several bindings of the name, the first one in the text.
FirstByName(symbols, text, i) ==
    LET near == {s \in symbols : s.token < i /\ s.text = text /\ contains_range(s.scope, i)}
    IN  IF near = {} THEN None ELSE CHOOSE s \in near : \A o \in near : o.token >= s.token

nearest_by_name_and_range(symbols, text, i) ==
    LET near == {s \in symbols : s.token < i /\ s.text = text /\ contains_range(s.scope, i)}
    IN  IF near = {} THEN None ELSE CHOOSE s \in near : \A o \in near : o.token <= s.token

\* A name in a pattern is bound there unless it is bound already: for the rest
\* of the clause, or of match-try.
PatternEnd(p, n) ==
    IF p.nodes[n].kind = "N_MATCH_TRY_CLAUSE" THEN CurrentEnd(p, n) ELSE End(p, n)
l_or_r_symbols(p) ==
    LET add(symbols, i) ==
            IF p.tokens[i].role # "l_or_r"
                 \/ nearest_by_name_and_range(symbols, p.tokens[i].text, i) # None
            THEN symbols
            ELSE symbols \cup {[token |-> i, text |-> p.tokens[i].text, global |-> FALSE,
                                scope |-> [start |-> i, end |-> PatternEnd(p, p.tokens[i].node)]]}
    IN  FoldLeft(add, bindings(p), [i \in DOMAIN p.tokens |-> i])

l_symbols(p) == l_or_r_symbols(p)
get(symbols, i) == IF \E s \in symbols : s.token = i THEN CHOOSE s \in symbols : s.token = i ELSE None
l_symbol(p, i) == get(l_symbols(p), i)

r_symbols(p) ==
    {i \in DOMAIN p.tokens :
        p.tokens[i].role = "r" \/ (p.tokens[i].role = "l_or_r" /\ l_symbol(p, i) = None)}

l_symbol_by_r(p, i) == nearest_by_name_and_range(l_symbols(p), <<p.tokens[i].text[1]>>, i)

contains_token(p, s, i) == p.tokens[i].text = s.text /\ contains_range(s.scope, i)

\* Mutant: a use must come with the scope's first form.
UnusedAtStart(p) ==
    {s \in l_symbols(p) :
        ~s.global /\ \A i \in r_symbols(p) : ~(contains_token(p, s, i) /\ i = s.scope.start + 1)}

unused_l_symbols(p) ==
    {s \in l_symbols(p) : ~s.global /\ \A i \in r_symbols(p) : ~contains_token(p, s, i)}

-----------------------------------------------------------------------------
program == [nodes |-> nodes, tokens |-> tokens]

Child(kind) == IF kind \in Forms THEN "form" ELSE kind
Fits(child) == MayFollow(nodes[at].kind, nodes[at].last, child)

\* The binding of the name that was made last, of those still in force.
Recent(text) ==
    LET made == {k \in DOMAIN env : tokens[env[k].token].text = text}
    IN  IF made = {} THEN None ELSE env[Max(made)].token

Node(kind) == [kind |-> kind, parent |-> at, start |-> Len(tokens), end |-> Len(tokens), last |-> "",
               require |-> None, destructs |-> FALSE]
Token(text, role) == [text |-> text, role |-> role, node |-> at, recent |-> Recent(<<text[1]>>)]

Init ==
    /\ nodes = <<[kind |-> "Root", parent |-> 0, start |-> 0, end |-> 0, last |-> "",
                  require |-> None, destructs |-> FALSE]>>
    /\ tokens = <<>> /\ at = 1 /\ env = <<>>

Open(kind) ==
    /\ Fits(Child(kind)) /\ Len(nodes) < MaxNodes /\ Len(tokens) < MaxTokens
    /\ nodes' = Append([nodes EXCEPT ![at].last = Child(kind)], Node(kind))
    /\ at' = Len(nodes')
    /\ env' = IF kind # "N_CATCH" THEN env
              ELSE Filter(env, LAMBDA entry : entry.frame # at \/ entry.outer)
    /\ UNCHANGED tokens

\* The bindings made when a node ends: its own, or that of the macro's name.
MadeBy(p, n) ==
    LET binders == Filter([i \in DOMAIN p.tokens |-> i],
                          LAMBDA i : p.tokens[i].role = "l" /\ Declarer(p, p.tokens[i].node) = n)
    IN  [k \in DOMAIN binders |->
            LET node == p.tokens[binders[k]].node
            IN  [token |-> binders[k], frame |-> Frame(p, node), outer |-> IsOuter(p, node)]]

Close ==
    /\ at # 1 /\ IsWhole(nodes[at])
    /\ nodes' = [nodes EXCEPT ![at].end = Len(tokens)]
    /\ env' = Filter(env, LAMBDA entry : entry.frame # at) \o MadeBy(program, at)
    /\ at' = nodes[at].parent
    /\ UNCHANGED tokens

Write(child, added) ==
    /\ Fits(child) /\ Len(tokens) + Len(added) <= MaxTokens
    /\ nodes' = [nodes EXCEPT ![at].last = child]
    /\ tokens' = tokens \o added
    /\ UNCHANGED at

Bind(name) ==
    /\ nodes[at].kind \in Binders
    /\ Write("binder", <<Token(<<name>>, "l")>>) /\ UNCHANGED env

\* {: name} for the name: only what is required is taken apart.
Destruct(name) ==
    /\ nodes[at].kind \in {"N_ASSIGN_PAIR", "N_IMPORT_MACROS_PAIR"}
    /\ Fits("binder") /\ Len(tokens) < MaxTokens
    /\ nodes' = [nodes EXCEPT ![at].last = "binder", ![at].destructs = TRUE]
    /\ tokens' = Append(tokens, Token(<<name>>, "l"))
    /\ UNCHANGED <<at, env>>

\* A form or a pattern without a name.
Literal ==
    /\ ~nodes[at].destructs
    /\ Write("form", <<>>) \/ Write("pattern", <<>>)
    /\ UNCHANGED env

Use(name) == ~nodes[at].destructs /\ Write("form", <<Token(<<name>>, "r")>>) /\ UNCHANGED env

UseField(name, field) ==
    /\ ~nodes[at].destructs
    /\ Write("form", <<Token(<<name>>, "r"), Token(<<name, field>>, "r")>>) /\ UNCHANGED env

Require(module) ==
    /\ nodes[at].kind \in {"N_ASSIGN_PAIR", "N_IMPORT_MACROS_PAIR"} /\ Fits("form")
    /\ nodes' = [nodes EXCEPT ![at].last = "form", ![at].require = module]
    /\ UNCHANGED <<tokens, at, env>>

Match(name) ==
    /\ Write("pattern", <<Token(<<name>>, "l_or_r")>>)
    /\ env' = IF Recent(<<name>>) # None THEN env
              ELSE Append(env, [token |-> Len(tokens'), outer |-> FALSE,
                                frame |-> IF nodes[at].kind = "N_MATCH_CLAUSE" THEN at
                                          ELSE nodes[at].parent])

Typing ==
    \/ \E kind \in Forms \cup Binders \cup Clauses \cup {"N_CATCH"} : Open(kind)
    \/ Close
    \/ Literal
    \/ \E name \in Name : Bind(name) \/ Destruct(name) \/ Use(name) \/ Match(name)
    \/ \E name \in Name, field \in Field : UseField(name, field)
    \/ \E module \in Module : Require(module)

Writing == Init /\ [][Typing]_written

Written == at = 1

-----------------------------------------------------------------------------
(***************************************************************************)
(* The search through the ranges finds what reading along would: a use     *)
(* goes to the binding of its name that was made last and is still in      *)
(* force, and to none if there is none. Only a binding made inside that of *)
(* the last one, in its value or its macro, and outliving it, comes first. *)
(***************************************************************************)
NearestIsMostRecent ==
    Written =>
      \A i \in r_symbols(program) :
          LET found == l_symbol_by_r(program, i)
              recent == tokens[i].recent
              made == nodes[Declarer(program, tokens[recent].node)]
          IN  IF recent = None THEN found = None
              ELSE /\ found # None
                   /\ \/ found.token = recent
                      \/ found.token \in (made.start + 1)..made.end

(***************************************************************************)
(* What is reported as unused is used by nothing: no use goes there, by    *)
(* its name or by a field of it.                                           *)
(***************************************************************************)
UnusedHasNoUse ==
    Written =>
      \A s \in unused_l_symbols(program), i \in r_symbols(program) :
          l_symbol_by_r(program, i) # s
=============================================================================
