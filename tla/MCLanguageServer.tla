-------------------------- MODULE MCLanguageServer --------------------------
(* Instances of LanguageServer for TLC. *)
EXTENDS LanguageServer, TLC

CONSTANTS main, lib, project, root, libdir, clean, names, g, other, unused, broken

MCSymmetry == Permutations(Slot)

\* `names` uses the name g and binds something it never uses; read as a project
\* file it declares g, switches a lint off and has a mistake. `clean` is clean.
MCText == {clean, names}
MCUndefined == clean :> {} @@ names :> {g}
MCUnused == clean :> {} @@ names :> {unused}
MCExtraGlobals == clean :> {} @@ names :> {g}
MCDisabledLints == clean :> {} @@ names :> {"unused-definition"}
MCProjectErrors == clean :> {} @@ names :> {broken}

MCFilesInRoot == root :> {main, project}
MCProjectOfRoot == root :> project

MCDiskMain == {main :> clean @@ project :> None, main :> names @@ project :> clean}

NoSettings == [has_fennel |-> FALSE, fennel |-> DefaultFennel, has_fls |-> FALSE, fls |-> DefaultFls]
WithGlobal == [NoSettings EXCEPT !.has_fennel = TRUE, !.fennel.globals = {g}]
MCOneSetting == {NoSettings}
\* Settings with either section missing, or with both.
WithOther == [NoSettings EXCEPT !.has_fennel = TRUE, !.fennel.globals = {other}, !.has_fls = TRUE,
                                !.fls.extra_globals = {g}]
MCTwoSettings == {WithGlobal, WithOther}

\* A library directory next to the workspace.
MCFilesInBoth == root :> {main, project} @@ libdir :> {lib}
MCProjectOfBoth == root :> project @@ libdir :> project
WithLibrary == [WithGlobal EXCEPT !.fennel.library = {libdir}]
MCLibrarySettings == {NoSettings, WithLibrary}
MCDiskLib == {main :> names @@ lib :> clean @@ project :> None}
=============================================================================
