---------------------------- MODULE MCMapGuards ----------------------------
(***************************************************************************)
(* Values of the constants of MapGuards for TLC.                           *)
(***************************************************************************)
EXTENDS MapGuards

CONSTANTS main, project, std

\* Only whether two keys meet in a shard matters. The map of the stored errors
\* is never locked over another operation, and the stubs are not in ast_map.
MCHashes ==
    {h \in [Map -> [Uri -> Shard]] :
        /\ \A u \in Uri : h["on_save_or_open_errors"][u] = 0
        /\ h["ast_map"][std] = 0 /\ h["ast_map"][main] = 0
        /\ h["doc_map"][std] = 0}
=============================================================================
