------------------------------ MODULE Backend ------------------------------
(***************************************************************************)
(* The data of the language server (struct Backend in main.rs) and what    *)
(* its synchronous helpers compute from it.                                *)
(*                                                                         *)
(* A document's content is an opaque value; what the server can tell about *)
(* it is given by constant functions: the names it leaves unresolved, the  *)
(* lints reported only on open and save, and, when the document is an      *)
(* flsproject.fnl, the settings and the mistakes it contains.              *)
(***************************************************************************)
EXTENDS Naturals, Sequences, FiniteSets

CONSTANTS
    File,           \* the URIs of Fennel files
    Project,        \* those for which is_flsproject holds
    Folder,         \* workspace folders and library directories
    FilesIn,        \* FilesIn[f]: the .fnl files below folder f
    ProjectOf,      \* ProjectOf[f]: the path f/flsproject.fnl
    Text,           \* contents of a document
    Global,         \* names a configuration can declare as globals
    Lint,           \* problems other than undefined names
    Undefined,      \* Undefined[t]: the names text t uses and never binds
    Unused,         \* Unused[t]: the lints of t shown on open and on save
    ExtraGlobals,   \* ExtraGlobals[t]: :extra-globals of t read as a project file
    DisabledLints,  \* DisabledLints[t]: the :lints a project file t switches off
    ProjectErrors,  \* ProjectErrors[t]: what validation of t as a project reports
    None            \* an absent entry

\* The lints a configuration can switch off that diagnostics depend on.
LintName == {"unused-definition", "invalid-flsproject-settings"}

ASSUME BackendAssumption ==
    /\ Project \subseteq File
    /\ FilesIn \in [Folder -> SUBSET File]
    /\ ProjectOf \in [Folder -> Project]
    /\ Undefined \in [Text -> SUBSET Global]
    /\ Unused \in [Text -> SUBSET Lint]
    /\ ExtraGlobals \in [Text -> SUBSET Global]
    /\ DisabledLints \in [Text -> SUBSET LintName]
    /\ ProjectErrors \in [Text -> SUBSET Lint]
    /\ None \notin File \cup Text

-----------------------------------------------------------------------------
\* An Ast keeps the text it was parsed from and the globals its undefined-name
\* errors were last computed with.
Ast == [text: Text, globals: SUBSET Global]

NoAst == [text |-> None, globals |-> {}]

Fennel == [globals: SUBSET Global, library: SUBSET Folder]

FlsProjectConfig == [extra_globals: SUBSET Global, disabled: SUBSET LintName]

Configuration == [fennel: Fennel, fls: FlsProjectConfig]

DefaultFennel == [globals |-> {}, library |-> {}]

DefaultFls == [extra_globals |-> {}, disabled |-> {}]

\* What a client sends or answers for the sections "fennel" and "fennel-ls".
\* The fields say whether the section is there (a null section is not).
Settings == [has_fennel: BOOLEAN, fennel: Fennel, has_fls: BOOLEAN, fls: FlsProjectConfig]

Diagnostic == [kind: {"undefined"}, name: Global] \cup [kind: {"lint"}, name: Lint]

-----------------------------------------------------------------------------
is_flsproject(u) == u \in Project

parse_shared(t, globals) == [text |-> t, globals |-> globals]

parse_and_validate_flsproject(t) ==
    [extra_globals |-> ExtraGlobals[t], disabled |-> DisabledLints[t]]

\* The globals every Ast has to be checked against. The standard library's
\* names are left out: they are in every set.
GlobalsOf(config) == config.fennel.globals \cup config.fls.extra_globals

\* Ast.errors(): the undefined names with the globals the Ast holds.
Errors(ast) == [kind: {"undefined"}, name: Undefined[ast.text] \ ast.globals]

is_lint_enabled(config, lint) == lint \notin config.fls.disabled

\* Mutant: errors shown on save stay until the next save.
StoredErrorsStay(u, stored, ast, on_save_or_open) ==
    IF on_save_or_open /\ ~is_flsproject(u) THEN Unused[ast.text] ELSE stored

\* The entry of u in on_save_or_open_errors after compute_diagnostics ran on
\* ast: replaced on open and on save, otherwise only what still applies. (No
\* entry and an empty one are the same to every reader.)
StoredErrors(u, stored, ast, on_save_or_open) ==
    CASE is_flsproject(u)  -> stored
      [] on_save_or_open   -> Unused[ast.text]
      [] OTHER             -> stored \cap Unused[ast.text]

\* The diagnostics compute_diagnostics returns, given the updated entry.
compute_diagnostics(u, doc, ast, stored, config) ==
    IF is_flsproject(u)
    THEN [kind: {"lint"},
          name: IF is_lint_enabled(config, "invalid-flsproject-settings")
                THEN ProjectErrors[doc] ELSE {}]
    ELSE Errors(ast) \cup
         [kind: {"lint"},
          name: IF is_lint_enabled(config, "unused-definition") THEN stored ELSE {}]
=============================================================================
