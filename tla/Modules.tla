------------------------------ MODULE Modules ------------------------------
(***************************************************************************)
(* Modules and files: the name under which a file is required, which       *)
(* completion writes into an import, and the file that a required name     *)
(* leads to. A directory and a module are sequences of names, a file has a *)
(* directory, a stem and an extension.                                     *)
(***************************************************************************)
EXTENDS Naturals, FiniteSets, Selection

CONSTANTS
    NoFile,         \* and no directory
    NameBegins,     \* pairs of names, the second of which begins the first
    Patterns,       \* what a search path is made of
    fennel_path,    \* the patterns of the settings, in order, but for empty ones
    macro_path,
    Substituted(_, _)   \* a pattern's path, the module in place of each of its ?

VARIABLES
    workspace_map,  \* the workspace folders, in the order the map visits them
    library,        \* the library directories of the settings
    files           \* on disk, or open

Directory == Seq(STRING)

ASSUME ModulesAssumption ==
    NoFile \notin Directory /\ fennel_path \in Seq(Patterns) /\ macro_path \in Seq(Patterns)

layout == <<workspace_map, library, files>>

IsLayout ==
    /\ workspace_map \in Seq(Directory) /\ library \in Seq(Directory)
    /\ files \subseteq [dir : Directory, stem : STRING, ext : STRING]

Within(dir, root) == IsPrefix(root, dir)
Relative(dir, root) == SubSeq(dir, Len(root) + 1, Len(dir))

-----------------------------------------------------------------------------
\* From a file to a name. A root's own init.fnl is called "init", where the comment
\* on the function (main.rs:1082) says that it has no name.
module_name_from_relative(dir, file) ==
    LET below == IF dir # <<>> /\ dir[1] = "fnl" THEN Tail(dir) ELSE dir
    IN  IF file.ext # "fnl" THEN below \o <<file.stem, file.ext>>
        ELSE IF file.stem = "init" /\ below # <<>> THEN below
        ELSE Append(below, file.stem)

\* Mutant: the first root that the map visits wins.
NameByFirstRoot(file) ==
    LET roots == Filter(workspace_map \o library, LAMBDA root : Within(file.dir, root))
    IN  IF roots = <<>> THEN <<file.stem>>
        ELSE module_name_from_relative(Relative(file.dir, roots[1]), file)

uri_to_module_name(file) ==
    LET better(root, best) == Within(file.dir, root) /\ (best = NoFile \/ Len(root) > Len(best))
        next(best, root) == IF better(root, best) THEN root ELSE best
        best == FoldLeft(next, NoFile, workspace_map \o library)
    IN  IF best = NoFile THEN <<file.stem>>
        ELSE module_name_from_relative(Relative(file.dir, best), file)

-----------------------------------------------------------------------------
\* From a name to a file: the first that exists of those that are tried.

\* The folder's path, taken as a string, begins the file's.
PathBegins(file, root) ==
    LET names == Append(file.dir, file.stem)
        last == Len(root)
    IN  /\ last <= Len(names)
        /\ SubSeq(root, 1, last - 1) = SubSeq(names, 1, last - 1)
        /\ root[last] = names[last] \/ <<names[last], root[last]>> \in NameBegins

\* A relative path starts from the base, an absolute one does not.
resolve_pattern(base, pattern, module) ==
    LET path == Substituted(pattern, module)
    IN  [dir |-> IF path.absolute THEN path.dir ELSE base \o path.dir,
         stem |-> path.stem, ext |-> path.ext]

check_exist(base, ext, init, module) ==
    IF init THEN [dir |-> base \o module, stem |-> "init", ext |-> ext]
    ELSE [dir |-> base \o Front(module), stem |-> Last(module), ext |-> ext]

Both(base, ext, module) ==
    <<check_exist(base, ext, FALSE, module), check_exist(base, ext, TRUE, module)>>

candidate_roots(rel) ==
    LET matching == Filter(workspace_map, LAMBDA root : PathBegins(rel, root))
        roots == IF matching # <<>> THEN matching ELSE workspace_map
    IN  IF rel.dir \in ToSet(roots) THEN roots ELSE Append(roots, rel.dir)

OnPath(rel, path, module) ==
    LET roots == candidate_roots(rel)
    IN  FlattenSeq([r \in DOMAIN roots |->
            [p \in DOMAIN path |-> resolve_pattern(roots[r], path[p], module)]])

\* Mutant: the fnl directory of a folder is forgotten.
FilesAtRoots(rel, module) ==
    LET roots == Filter(workspace_map, LAMBDA root : Within(rel.dir, root))
    IN  FlattenSeq([r \in DOMAIN roots |-> Both(roots[r], "fnl", module)])

workspace_file(rel, module) ==
    LET roots == Filter(workspace_map, LAMBDA root : Within(rel.dir, root))
    IN  FlattenSeq([r \in DOMAIN roots |->
            Both(Append(roots[r], "fnl"), "fnl", module) \o Both(roots[r], "fnl", module)])

library_file(module) ==
    FlattenSeq([l \in DOMAIN library |->
        Both(Append(library[l], "lua"), "lua", module)
            \o Both(Append(library[l], "fnl"), "fnl", module)
            \o Both(library[l], "lua", module) \o Both(library[l], "fnl", module)])

NextTo(rel, module) ==
    Both(rel.dir, "lua", module) \o <<check_exist(rel.dir, "so", FALSE, module)>>
        \o Both(rel.dir, "fnl", module)

find_file(rel, module) ==
    LET tried == OnPath(rel, fennel_path, module) \o OnPath(rel, macro_path, module)
                     \o workspace_file(rel, module) \o library_file(module) \o NextTo(rel, module)
        found == Filter(tried, LAMBDA file : file \in files)
    IN  IF found = <<>> THEN NoFile ELSE found[1]

-----------------------------------------------------------------------------
Roots == ToSet(workspace_map) \cup ToSet(library)

OwnInit(file, root) ==
    file.stem = "init" /\ file.ext = "fnl" /\ Relative(file.dir, root) \in {<<>>, <<"fnl">>}

(***************************************************************************)
(* A file is named within the innermost of the folders and libraries that  *)
(* hold it, in whatever order the map visits them: no folder inside the    *)
(* one that the name starts from holds the file as well. For that folder's *)
(* own init.fnl the comment on the function says otherwise.                *)
(***************************************************************************)
NamedFromInnermostRoot ==
    \A file \in files :
        LET holding == {root \in Roots : Within(file.dir, root)}
        IN  \A root \in holding :
              ((\A other \in holding : Within(root, other)) /\ ~OwnInit(file, root)) =>
                  uri_to_module_name(file)
                    = module_name_from_relative(Relative(file.dir, root), file)

\* An init file goes by its directory's name as well.
LastNames(file) == {file.stem} \cup {Last(file.dir) : init \in {"init"} \cap {file.stem}}

(***************************************************************************)
(* An import that completion writes leads to the file it was offered for:  *)
(* required in a file that is in every folder it is in, and told apart by  *)
(* its last name from all other files, a file is found by its name, unless *)
(* a pattern of the search paths makes another file of it.                 *)
(***************************************************************************)
ImportsAreFound ==
    \A file, rel \in files :
        LET name == uri_to_module_name(file)
            folders(f) == {root \in ToSet(workspace_map) : Within(f.dir, root)}
            others == files \ {file}
        IN  (/\ file.ext = "fnl" /\ folders(file) # {} /\ folders(file) \subseteq folders(rel)
             /\ \A other \in others : Last(name) \notin LastNames(other)) =>
                \/ find_file(rel, name) = file
                \/ \E path \in {fennel_path, macro_path} :
                      ToSet(OnPath(rel, path, name)) \cap others # {}
=============================================================================
