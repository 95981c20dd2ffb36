------------------------------- MODULE Rename -------------------------------
(***************************************************************************)
(* Definition, references and rename: in the program that is written, and  *)
(* in another open file that it may require. A place is a file and the     *)
(* number of a name in it; the edit of a place replaces the name there, or *)
(* the last segment of a name with fields.                                 *)
(***************************************************************************)
EXTENDS Scopes, Modules

CONSTANTS
    here, there,    \* the two files: the written program's, and the other
    Other,          \* the other file's program
    NewName

File == {here, there}
ast(file) == IF file = here THEN program ELSE Other

-----------------------------------------------------------------------------
\* What a symbol stands for: a module, a field of one (or None, for the rest).

\* Symbols of local, global and let have values.
Valued(p, n) ==
    p.nodes[n].kind = "N_ASSIGN_PAIR" /\ p.nodes[p.nodes[n].parent].kind # "N_VAR"

PlainValue(p, i) ==
    LET n == p.tokens[i].node
        node == p.nodes[n]
    IN  IF node.require = None \/ ~(node.destructs \/ Valued(p, n)) THEN None
        ELSE [module |-> node.require, field |-> IF node.destructs THEN p.tokens[i].text ELSE None]

\* The use that is all of a symbol's value, or 0.
ValueUse(p, s) ==
    LET n == p.tokens[s.token].node
        uses == {i \in DOMAIN p.tokens : p.tokens[i].node = n /\ i > s.token}
    IN  IF Valued(p, n) /\ Cardinality(uses) = 1 THEN CHOOSE i \in uses : TRUE ELSE 0

\* A symbol bound to another one has that one's value.
Behind(p, symbols, use) ==
    IF use = 0 THEN None ELSE nearest_by_name_and_range(symbols, p.tokens[use].text, use)
ValueIn(p, symbols, s) ==
    LET follow[i \in 0..s.token] ==
            LET along(target) == IF target # None /\ target.token < i THEN follow[target.token]
                                 ELSE PlainValue(p, i)
            IN  IF get(symbols, i) = None THEN None
                ELSE along(Behind(p, symbols, ValueUse(p, get(symbols, i))))
    IN  follow[s.token]
Value(p, s) == ValueIn(p, l_symbols(p), s)

IsModule(value) == value # None /\ value.field = None
IsModuleField(value) == value # None /\ value.field # None
Requires(p, s) == IsModule(Value(p, s))

-----------------------------------------------------------------------------
\* ast.rs.

Found(p, i) == IF l_symbol(p, i) # None THEN l_symbol(p, i)
               ELSE IF i \in r_symbols(p) THEN l_symbol_by_r(p, i) ELSE None

definition(p, i) ==
    LET own == l_symbol(p, i)
        found == Found(p, i)
    IN  IF found = None THEN [kind |-> "None"]
        ELSE IF own # None /\ Requires(p, own) THEN [kind |-> "File"]
        ELSE IF own = None /\ found.text # p.tokens[i].text THEN [kind |-> "SymbolField", symbol |-> found]
        ELSE [kind |-> "Symbol", symbol |-> found]

\* Mutant: names in patterns are not searched.
ReferenceOutsidePatterns(p, i) ==
    IF Found(p, i) = None THEN {}
    ELSE {Found(p, i).token} \cup
            {k \in r_symbols(p) : p.tokens[k].role = "r" /\ contains_token(p, Found(p, i), k)}

reference(p, i) ==
    IF Found(p, i) = None THEN {}
    ELSE {Found(p, i).token} \cup {k \in r_symbols(p) : contains_token(p, Found(p, i), k)}

-----------------------------------------------------------------------------
\* rename.rs.

Path(file) == CHOOSE f \in files : f.stem = file
FileOf(found) == IF found = NoFile THEN None ELSE found.stem
LeadsTo(file, module) == FileOf(find_file(Path(file), <<module>>))

\* The file and the name that a rename is about.
FieldFile(file, value) ==
    IF IsModule(value) /\ LeadsTo(file, value.module) # None THEN LeadsTo(file, value.module) ELSE file
TargetOf(file, i, def) ==
    CASE def.kind = "Symbol" -> [file |-> file, name |-> def.symbol.text]
      [] def.kind = "SymbolField" -> [file |-> FieldFile(file, Value(ast(file), def.symbol)),
                                      name |-> <<Last(ast(file).tokens[i].text)>>]
      [] OTHER -> [file |-> None, name |-> <<>>]
Target(file, i) == TargetOf(file, i, definition(ast(file), i))

Aliases(file, target) ==
    LET leads(value) == /\ IsModuleField(value) /\ value.field = target.name
                        /\ LeadsTo(file, value.module) = target.file
    IN  {s \in l_symbols(ast(file)) : leads(Value(ast(file), s))}

\* Names whose last field is the target's, after the name of its module.
FieldUses(file, target) ==
    LET p == ast(file)
        leads(value) == IsModule(value) /\ LeadsTo(file, value.module) = target.file
    IN  {i \in r_symbols(p) :
            /\ Len(p.tokens[i].text) > 1 /\ <<Last(p.tokens[i].text)>> = target.name
            /\ l_symbol_by_r(p, i) # None /\ leads(Value(p, l_symbol_by_r(p, i)))}

\* The target's file: the references of the request, or those of the first
\* symbol of the name.
InTarget(file, i, target) ==
    LET p == ast(target.file)
        named == {s.token : s \in {s \in l_symbols(p) : s.text = target.name}}
        first == CHOOSE k \in named : \A o \in named : k <= o
    IN  IF target.file = file THEN reference(ast(file), i)
        ELSE IF named = {} THEN {} ELSE reference(p, first)

\* The names to edit in each file.
EditsOf(file, i, target) ==
    [f \in File |->
        IF target.file = None THEN {}
        ELSE IF f = target.file THEN InTarget(file, i, target)
        ELSE FieldUses(f, target) \cup
                UNION {reference(ast(f), s.token) : s \in Aliases(f, target)}]
rename(file, i) == EditsOf(file, i, Target(file, i))

-----------------------------------------------------------------------------
\* The editor applies the edits: a name with fields is written over two tokens.
Edited(p, edits, new) ==
    LET text(i) ==
            LET old == p.tokens[i].text
            IN  IF Len(old) = 1 THEN IF i \in edits THEN <<new>> ELSE old
                ELSE <<IF i - 1 \in edits THEN new ELSE old[1], IF i \in edits THEN new ELSE old[2]>>
    IN  [p EXCEPT !.tokens = [i \in DOMAIN p.tokens |-> [p.tokens[i] EXCEPT !.text = text(i)]]]

\* What a name means: its binding, and the symbol of the other file behind it.
Exported(o, name) == {e.token : e \in {e \in l_symbols(o) : e.text = name}}
Meaning(p, o, i) ==
    LET beyond(value) ==
            IF IsModuleField(value) THEN <<Exported(o, value.field)>>
            ELSE IF IsModule(value) /\ Len(p.tokens[i].text) > 1
            THEN <<Exported(o, <<Last(p.tokens[i].text)>>)>>
            ELSE <<>>
        of(s) == IF s = None THEN <<>> ELSE <<s.token>> \o beyond(Value(p, s))
    IN  of(Found(p, i))

Shadowed(p, s) ==
    \E other \in l_symbols(p) \ {s} :
        /\ other.text = s.text
        /\ other.scope.start < s.scope.end /\ s.scope.start < other.scope.end

\* Bound to a field under another name: a rename of the field takes it along.
Copied(p, s) ==
    LET copies(value) == IsModuleField(value) /\ value.field # s.text IN copies(Value(p, s))

\* Requests to rename a symbol where it is bound or used, or a field of a module
\* that leads to the other file; not the name of a module or of what was taken
\* out of one, which a rename changes on one side only.
Request(file, i) ==
    LET leads(value) == IsModule(value) /\ LeadsTo(file, value.module) = there
        asks(def) ==
            CASE def.kind = "Symbol" -> Value(ast(file), def.symbol) = None
              [] def.kind = "SymbolField" -> leads(Value(ast(file), def.symbol))
              [] OTHER -> FALSE
    IN  asks(definition(ast(file), i))

KeptBy(edits) ==
    LET keeps(main, other) ==
            \A k \in DOMAIN tokens : Meaning(main, other, k) = Meaning(program, Other, k)
    IN  keeps(Edited(program, edits[here], NewName), Edited(Other, edits[there], NewName))

(***************************************************************************)
(* A rename to a name that occurs nowhere keeps the meaning of every name  *)
(* in both files, where no binding of a name is shadowed and no field is   *)
(* bound again under another name: each use goes to the binding it went    *)
(* to, in its own file and beyond.                                         *)
(***************************************************************************)
RenameKeepsMeaning ==
    Written =>
      \A file \in File : \A i \in DOMAIN ast(file).tokens :
          (/\ Request(file, i)
           /\ \A f \in File : \A s \in l_symbols(ast(f)) :
                 ~Shadowed(ast(f), s) /\ ~Copied(ast(f), s)) =>
              KeptBy(rename(file, i))
=============================================================================
