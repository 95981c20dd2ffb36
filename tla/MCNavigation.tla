---------------------------- MODULE MCNavigation ----------------------------
(***************************************************************************)
(* All small programs next to a file that exports f; and one program in    *)
(* all small workspaces.                                                   *)
(***************************************************************************)
EXTENDS Rename

CONSTANTS
    MaxSize,            \* bounds the nodes and names of a program together
    Rare, MaxRareSize   \* the forms of which only smaller programs are taken

\* (fn f []) {: f}
MCOther ==
    LET node(kind, parent, end, last) ==
            [kind |-> kind, parent |-> parent, start |-> 0, end |-> end, last |-> last,
             require |-> None, destructs |-> FALSE]
        token(role, n) == [text |-> <<"f">>, role |-> role, node |-> n, recent |-> None]
    IN  [nodes |-> <<node("Root", 0, 2, "form"), node("N_FN", 1, 1, "N_FN_NAME"),
                     node("N_FN_NAME", 2, 1, "binder")>>,
         tokens |-> <<token("l", 3), token("r", 1)>>]

\* A pattern is cut at its slashes, its names (up to three) into texts and question marks.
Pattern(absolute, names, ext) ==
    [absolute |-> absolute, names |-> names \o <<<<>>, <<>>>>, ext |-> ext]
Default(names) == Pattern(FALSE, names, "fnl")

\* ./?.fnl and so on, the defaults of the settings; and patterns with a ? twice, with
\* one inside of a name, and with the root in front.
MCFennelPath ==
    <<Default(<<<<"?">>>>), Default(<<<<"?">>, <<"init">>>>),
      Default(<<<<"src">>, <<"?">>>>), Default(<<<<"src">>, <<"?">>, <<"init">>>>),
      Default(<<<<"?">>, <<"?">>>>), Default(<<<<"?", "-macros">>>>),
      Pattern(TRUE, <<<<"lib">>, <<"?">>>>, "fnl")>>
MCMacroPath ==
    LET under(names) ==
            <<Pattern(FALSE, names \o <<<<"?">>>>, "fnlm"),
              Pattern(FALSE, names \o <<<<"?">>, <<"init">>>>, "fnlm"),
              Default(names \o <<<<"?">>>>), Default(names \o <<<<"?">>, <<"init-macros">>>>),
              Default(names \o <<<<"?">>, <<"init">>>>)>>
    IN  under(<<>>) \o under(<<<<"src">>>>)
MCPatterns == ToSet(MCFennelPath \o MCMacroPath)

\* A module in a pattern's name: its first name goes on from what is before, and
\* what is behind goes on from its last one.
MCSubstituted(pattern, module) ==
    LET on(names, text) == Append(Front(names), Last(names) \o text)
        write(names, text) ==
            IF text = "?" THEN on(names, module[1]) \o Tail(module) ELSE on(names, text)
        whole(name) ==
            IF name = <<"?">> THEN module
            ELSE IF Len(name) <= 1 THEN name ELSE FoldLeft(write, <<"">>, name)
        path == whole(pattern.names[1]) \o whole(pattern.names[2]) \o whole(pattern.names[3])
    IN  [absolute |-> pattern.absolute, dir |-> Front(path), stem |-> Last(path), ext |-> pattern.ext]

MCNameBegins == {<<"w2", "w">>}

Folders == {<<"w">>, <<"w", "in">>, <<"w2">>}
Directories == Folders \cup {<<"w", "fnl">>, <<"w", "src">>, <<"w", "in", "fnl">>, <<"w", "b">>,
                             <<"lib">>, <<"lib", "fnl">>}
Files == [dir : Directories, stem : {"b", "c", "init", "b-macros", "init-macros"}, ext : {"fnl"}]
             \cup [dir : {<<"w">>, <<"lib">>}, stem : {"b"}, ext : {"lua"}]

InOneFolder ==
    /\ workspace_map = <<<<"w">>>> /\ library = <<>>
    /\ files = {[dir |-> <<"w">>, stem |-> stem, ext |-> "fnl"] : stem \in {here, there}}

Anywhere ==
    /\ workspace_map \in UNION {{s \in [1..n -> Folders] : IsInjective(s)} : n \in 1..3}
    /\ library \in {<<>>, <<<<"lib">>>>}
    /\ \E one, other \in Files : files = {one, other}

NavInit == Init /\ (InOneFolder \/ Anywhere)
Small ==
    LET rare == \E n \in DOMAIN nodes : nodes[n].kind \in Rare
    IN  Len(nodes) + Len(tokens) <= IF rare THEN MaxRareSize ELSE MaxSize

NavNext == InOneFolder /\ Typing /\ Small' /\ UNCHANGED layout
NavSpec == NavInit /\ [][NavNext]_<<written, layout>>
=============================================================================
