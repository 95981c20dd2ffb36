--------------------------- MODULE LanguageServer ---------------------------
(***************************************************************************)
(* The document store, the disk index, the configuration and the published *)
(* diagnostics of the language server, with the client that drives it.     *)
(*                                                                         *)
(* Handlers start in the order their messages arrive, at most one per slot *)
(* at a time, and all run on one task: `current` names the handler that    *)
(* has the task, and it gives the task up only where the code awaits the   *)
(* client. Awaiting an answer always gives it up. Awaiting that a          *)
(* notification is sent may: tower-lsp queues the message at once, but its *)
(* channel holds back the sender while an earlier message is unread. So    *)
(* notifications reach the client in the order in which they are sent, and *)
(* the sender may go on only after others have run.                        *)
(* A handler's pc is the code it runs next; one action is the code between *)
(* two points where the task can change hands or another function begins.  *)
(***************************************************************************)
EXTENDS Backend, SequencesExt

CONSTANTS
    Slot,            \* tower-lsp's places for handlers in progress
    NoSlot,
    PullSupported,   \* the client answers workspace/configuration
    DynamicWatch,    \* the client lets the server register file watchers
    InitialFolders,  \* the workspace folders of initialize
    InitialDisk,     \* what the files may contain at the start
    SettingsChoices, \* the settings a user switches between
    ClientOps,       \* the operations the client performs
    MaxOps           \* bound: the number of operations the client performs

ASSUME LanguageServerAssumption ==
    /\ NoSlot \notin Slot
    /\ {PullSupported, DynamicWatch} \subseteq BOOLEAN
    /\ InitialFolders \subseteq Folder
    /\ InitialDisk \subseteq [File -> Text \cup {None}]
    /\ SettingsChoices \subseteq Settings
    /\ MaxOps \in Nat

VARIABLES
    \* The client and the file system.
    editor,          \* editor[u]: the open buffer's text, or None
    disk,            \* disk[u]: the file's content, or None
    settings,        \* the user's current settings
    changes,         \* file events not yet sent to the server
    watching,        \* the watchers are registered
    unwatched,       \* files changed on disk while nothing watched them
    published,       \* published[u]: the diagnostics last sent for u
    ops,             \* operations performed so far
    \* The connection and the task.
    inbox,           \* messages whose handler has not started
    replies,         \* answers to the server's requests, in order
    handlers,        \* handlers[s]: the handler in slot s
    current,         \* the slot whose handler has the task, or NoSlot
    \* struct Backend.
    doc_map, ast_map, open_docs, on_save_or_open_errors, workspace_map, config,
    globals_cache,
    \* What has happened, for the properties; the code keeps no such thing.
    overtaken,       \* the files one of whose did_open has been overtaken
    reconfigured     \* config has changed since initialize

clientVars == <<editor, disk, settings, changes, watching, unwatched, ops>>
taskVars == <<inbox, replies, handlers, current>>
docVars == <<doc_map, ast_map, open_docs, on_save_or_open_errors>>
configVars == <<config, globals_cache, workspace_map>>
historyVars == <<overtaken, reconfigured>>
vars == <<clientVars, published, taskVars, docVars, configVars, historyVars>>

-----------------------------------------------------------------------------
(* Messages and handlers *)

FileChange == [uri: File, deleted: BOOLEAN]

Message ==
    [op: {"initialized"}]
    \cup [op: {"did_open"}, uri: File, text: Text]
    \cup [op: {"did_change"}, uri: File, base: Text, text: Text]
    \cup [op: {"did_save", "did_close", "lookup"}, uri: File]
    \cup [op: {"did_change_watched_files"}, changes: Seq(FileChange)]
    \cup [op: {"did_change_workspace_folders"}, added: SUBSET Folder, removed: SUBSET Folder]
    \cup [op: {"did_change_configuration"}, empty: BOOLEAN, settings: Settings]
    \cup [op: {"add_global"}, name: Global]

PC == {"done", "initialized", "await_register", "pull", "await_pull", "reload", "reload_publish",
       "refresh", "refresh_again", "publish_each", "index", "did_open", "did_open_cache",
       "did_change", "did_save", "did_change_watched_files", "watched_file", "did_close", "lookup",
       "did_change_workspace_folders", "did_change_configuration", "add_global"}

NoMessage == [op |-> "none"]

\* msg: the message handled; pc: where it is; ret: where refresh returns to;
\* uri, text, ast: locals kept across an await; todo: files refresh has still to
\* publish; left: file changes still to process.
Idle == [msg |-> NoMessage, pc |-> "done", ret |-> "done", uri |-> None, text |-> None,
         ast |-> NoAst, todo |-> {}, left |-> <<>>]

Handler == [msg: Message \cup {NoMessage}, pc: PC, ret: PC, uri: File \cup {None},
            text: Text \cup {None}, ast: Ast \cup {NoAst}, todo: SUBSET File,
            left: Seq(FileChange)]

Reply == [slot: Slot, ok: BOOLEAN, settings: Settings]

At(s, pc) == current = s /\ handlers[s].pc = pc

\* The handler in slot s goes on as h. A send it has just made may suspend it
\* (after its last send nothing of it is left to run).
Continue(s, h, awaitsSend) ==
    IF h.pc = "done"
    THEN /\ handlers' = [handlers EXCEPT ![s] = Idle]
         /\ current' = NoSlot
    ELSE /\ handlers' = [handlers EXCEPT ![s] = h]
         /\ current' \in IF awaitsSend THEN {s, NoSlot} ELSE {s}

\* Mutant: the wait blocks the task.
AwaitBlocking(s, pc) ==
    /\ handlers' = [handlers EXCEPT ![s].pc = pc]
    /\ current' = s

\* The handler in slot s awaits an answer from the client.
Await(s, pc) ==
    /\ handlers' = [handlers EXCEPT ![s].pc = pc]
    /\ current' = NoSlot

Goto(s, pc) == Continue(s, [handlers[s] EXCEPT !.pc = pc], FALSE)

\* Mutant: an edited project file is taken for any other.
NoReload(u) == "done"

ReloadIfProject(u) == IF is_flsproject(u) THEN "reload" ELSE "done"

\* reload_flsproject is called last, except by initialized and by a pushed
\* configuration.
AfterReload(msg) ==
    CASE msg.op = "initialized" -> "index"
      [] msg.op = "did_change_configuration" /\ ~(PullSupported /\ msg.empty) -> "refresh_again"
      [] OTHER -> "done"

-----------------------------------------------------------------------------
(* Reading files *)

\* ensure_ast for every file below the folders: what ast_map lacks and the
\* disk has is read, into both maps.
IndexFolders(folders) ==
    LET found == {u \in UNION {FilesIn[f] : f \in folders} :
                    ast_map[u] = NoAst /\ disk[u] # None}
    IN  /\ doc_map' = [u \in File |-> IF u \in found THEN disk[u] ELSE doc_map[u]]
        /\ ast_map' = [u \in File |-> IF u \in found THEN parse_shared(disk[u], globals_cache)
                                                     ELSE ast_map[u]]
        /\ UNCHANGED <<open_docs, on_save_or_open_errors>>

\* Mutant: the second removal is short-circuited.
ForgetDocument(u) ==
    /\ doc_map' = [doc_map EXCEPT ![u] = None]
    /\ on_save_or_open_errors' = [on_save_or_open_errors EXCEPT ![u] = {}]
    /\ UNCHANGED ast_map

Forget(u) ==
    /\ doc_map' = [doc_map EXCEPT ![u] = None]
    /\ ast_map' = [ast_map EXCEPT ![u] = NoAst]
    /\ on_save_or_open_errors' = [on_save_or_open_errors EXCEPT ![u] = {}]

\* Mutant: a file that cannot be read is indexed all the same.
ReindexUnreadable(u) ==
    /\ ast_map' = [ast_map EXCEPT ![u] = parse_shared(disk[u], globals_cache)]
    /\ doc_map' = [doc_map EXCEPT ![u] = disk[u]]
    /\ UNCHANGED on_save_or_open_errors

\* Mutant: any cached copy will do.
ReindexUncached(u) ==
    \/ /\ disk[u] # None /\ doc_map[u] = None
       /\ ReindexUnreadable(u)
    \/ /\ disk[u] = None \/ doc_map[u] # None
       /\ UNCHANGED <<doc_map, ast_map, on_save_or_open_errors>>

\* Mutant: only what is cached is read again.
ReindexCached(u) ==
    \/ /\ disk[u] # None /\ doc_map[u] # None
       /\ ReindexUnreadable(u)
    \/ /\ disk[u] = None \/ doc_map[u] = None
       /\ UNCHANGED <<doc_map, ast_map, on_save_or_open_errors>>

reindex_from_disk(u) ==
    \/ /\ disk[u] = None
       /\ Forget(u)
    \/ /\ disk[u] # None /\ disk[u] = doc_map[u]
       /\ UNCHANGED <<doc_map, ast_map, on_save_or_open_errors>>
    \/ /\ disk[u] # None /\ disk[u] # doc_map[u]
       /\ ast_map' = [ast_map EXCEPT ![u] = parse_shared(disk[u], globals_cache)]
       /\ doc_map' = [doc_map EXCEPT ![u] = disk[u]]
       /\ UNCHANGED on_save_or_open_errors

\* compute_diagnostics on (doc, ast) of u: stores the errors of u that are only
\* shown after a save. The handler publishes its result and goes on as h.
ComputeAndPublish(s, h, u, doc, ast, on_save_or_open) ==
    LET stored == StoredErrors(u, on_save_or_open_errors[u], ast, on_save_or_open)
    IN  /\ on_save_or_open_errors' = [on_save_or_open_errors EXCEPT ![u] = stored]
        /\ published' = [published EXCEPT ![u] = compute_diagnostics(u, doc, ast, stored, config)]
        /\ Continue(s, h, TRUE)

-----------------------------------------------------------------------------
(* Steps shared by the handlers *)

AstsWith(globals) ==
    [u \in File |-> IF ast_map[u] = NoAst THEN NoAst ELSE [ast_map[u] EXCEPT !.globals = globals]]

\* Mutant: nothing is published again.
NoneUpdated == {}

updated == {u \in File : ast_map[u] # NoAst}

\* refresh_ast_globals_and_diagnostics up to its loop.
refresh_ast_globals_and_diagnostics(s) ==
    /\ \E pc \in {"refresh", "refresh_again"} :
        /\ At(s, pc)
        /\ globals_cache' = GlobalsOf(config)
        /\ ast_map' = AstsWith(GlobalsOf(config))
        /\ Continue(s, [handlers[s] EXCEPT
                            !.pc = "publish_each",
                            !.ret = IF pc = "refresh_again" THEN "done" ELSE @,
                            !.todo = updated], FALSE)
    /\ UNCHANGED <<clientVars, published, inbox, replies, doc_map, open_docs,
                   on_save_or_open_errors, config, workspace_map>>

\* One turn of its loop, in the order of a hash map's keys; a file dropped in
\* the meantime is skipped.
PublishEach(s) ==
    /\ At(s, "publish_each")
    /\ LET h == handlers[s]
       IN  \/ /\ h.todo = {}
              /\ Goto(s, h.ret)
              /\ UNCHANGED <<on_save_or_open_errors, published>>
           \/ \E u \in h.todo :
                LET rest == [h EXCEPT !.todo = @ \ {u}]
                IN  \/ /\ doc_map[u] = None \/ ast_map[u] = NoAst
                       /\ Continue(s, rest, FALSE)
                       /\ UNCHANGED <<on_save_or_open_errors, published>>
                    \/ /\ doc_map[u] # None /\ ast_map[u] # NoAst
                       /\ ComputeAndPublish(s, rest, u, doc_map[u], ast_map[u], FALSE)
    /\ UNCHANGED <<clientVars, inbox, replies, doc_map, ast_map, open_docs, configVars>>

\* The project file reload_flsproject reads: any one the document store holds,
\* otherwise that of any workspace folder whose file is on disk.
ProjectFiles ==
    LET in_memory == {u \in Project : doc_map[u] # None}
    IN  IF in_memory # {} THEN {[uri |-> u, text |-> doc_map[u]] : u \in in_memory}
        ELSE {[uri |-> u, text |-> disk[u]] :
                u \in {v \in {ProjectOf[f] : f \in workspace_map} : disk[v] # None}}

\* reload_flsproject up to the warnings it shows for the project's mistakes;
\* without a project file it returns at once.
reload_flsproject(s) ==
    /\ At(s, "reload")
    /\ \/ /\ ProjectFiles = {}
          /\ Goto(s, AfterReload(handlers[s].msg))
          /\ UNCHANGED config
       \/ \E p \in ProjectFiles :
            /\ config' = [config EXCEPT !.fls = parse_and_validate_flsproject(p.text)]
            /\ Continue(s, [handlers[s] EXCEPT !.pc = "reload_publish", !.uri = p.uri,
                                               !.text = p.text], ProjectErrors[p.text] # {})
    /\ UNCHANGED <<clientVars, published, inbox, replies, docVars, globals_cache, workspace_map>>

\* The rest of it: the project file's own diagnostics, then everyone's.
ReloadPublish(s) ==
    /\ At(s, "reload_publish")
    /\ LET u == handlers[s].uri
           ast == IF ast_map[u] # NoAst THEN ast_map[u]
                  ELSE parse_shared(handlers[s].text, globals_cache)
           h == [handlers[s] EXCEPT !.pc = "refresh", !.ret = AfterReload(handlers[s].msg),
                                    !.uri = None, !.text = None]
       IN  \/ /\ doc_map[u] = None
              /\ Continue(s, h, FALSE)
              /\ UNCHANGED <<ast_map, on_save_or_open_errors, published>>
           \/ /\ doc_map[u] # None
              /\ ast_map' = [ast_map EXCEPT ![u] = ast]
              /\ ComputeAndPublish(s, h, u, doc_map[u], ast, FALSE)
    /\ UNCHANGED <<clientVars, inbox, replies, doc_map, open_docs, configVars>>

\* pull_configuration: asks the client, when it can answer.
pull_configuration(s) ==
    /\ At(s, "pull")
    /\ IF PullSupported THEN Await(s, "await_pull") ELSE Goto(s, "reload")
    /\ UNCHANGED <<clientVars, published, inbox, replies, docVars, configVars>>

\* The answer arrived: apply_pulled_configuration up to the refresh. A null
\* section leaves its part of the configuration as it is, a failed request all
\* of it.
apply_pulled_configuration(s) ==
    /\ current = NoSlot
    /\ replies # <<>> /\ Head(replies).slot = s
    /\ handlers[s].pc = "await_pull"
    /\ replies' = Tail(replies)
    /\ LET st == Head(replies).settings
       IN  \/ /\ Head(replies).ok
              /\ config' = [fennel |-> IF st.has_fennel THEN st.fennel ELSE config.fennel,
                            fls |-> IF st.has_fls THEN st.fls ELSE config.fls]
              /\ IndexFolders(IF st.has_fennel THEN st.fennel.library ELSE {})
              /\ Continue(s, [handlers[s] EXCEPT !.pc = "refresh", !.ret = "reload"], FALSE)
           \/ /\ ~Head(replies).ok
              /\ Goto(s, "reload")
              /\ UNCHANGED <<docVars, config>>
    /\ UNCHANGED <<clientVars, published, inbox, globals_cache, workspace_map>>

-----------------------------------------------------------------------------
(* The handlers *)

\* A handler starts: it runs up to its first await. Answers come over the same
\* connection, so one sent before a message wakes its handler before the
\* message's own is polled.
Start(s) ==
    /\ current = NoSlot
    /\ replies = <<>>
    /\ inbox # <<>>
    /\ handlers[s] = Idle
    /\ inbox' = Tail(inbox)
    /\ Continue(s, [Idle EXCEPT !.msg = Head(inbox), !.pc = Head(inbox).op],
                Head(inbox).op \in {"initialized", "did_open"})  \* they log first
    /\ UNCHANGED <<clientVars, published, replies, docVars, configVars>>

\* A handler that a send suspended goes on.
Resume(s) ==
    /\ current = NoSlot
    /\ handlers[s].pc \notin {"done", "await_register", "await_pull"}
    /\ current' = s
    /\ UNCHANGED <<clientVars, published, inbox, replies, handlers, docVars, configVars>>

\* register_file_watchers, called by initialized.
register_file_watchers(s) ==
    /\ At(s, "initialized")
    /\ IF DynamicWatch THEN Await(s, "await_register")
       ELSE Continue(s, [handlers[s] EXCEPT !.pc = "pull"], TRUE)  \* logs that it cannot
    /\ UNCHANGED <<clientVars, published, inbox, replies, docVars, configVars>>

Registered(s) ==
    /\ current = NoSlot
    /\ replies # <<>> /\ Head(replies).slot = s
    /\ handlers[s].pc = "await_register"
    /\ replies' = Tail(replies)
    /\ Continue(s, [handlers[s] EXCEPT !.pc = "pull"], ~Head(replies).ok)  \* logs a failure
    /\ UNCHANGED <<clientVars, published, inbox, docVars, configVars>>

\* The end of initialized: the folders, then the libraries.
initialized_index(s) ==
    /\ At(s, "index")
    /\ IndexFolders(workspace_map \cup config.fennel.library)
    /\ Goto(s, "done")
    /\ UNCHANGED <<clientVars, published, inbox, replies, configVars>>

\* did_open up to its publish.
did_open(s) ==
    /\ At(s, "did_open")
    /\ LET m == handlers[s].msg
           ast == parse_shared(m.text, globals_cache)
       IN  /\ doc_map' = [doc_map EXCEPT ![m.uri] = m.text]
           /\ open_docs' = open_docs \cup {m.uri}
           /\ ComputeAndPublish(s, [handlers[s] EXCEPT !.pc = "did_open_cache", !.ast = ast],
                                m.uri, m.text, ast, TRUE)
    /\ UNCHANGED <<clientVars, inbox, replies, ast_map, configVars>>

\* The rest of it: only now is the Ast cached.
did_open_cache(s) ==
    /\ At(s, "did_open_cache")
    /\ LET h == handlers[s]
           u == h.msg.uri
       IN  /\ on_save_or_open_errors' = [on_save_or_open_errors EXCEPT ![u] = Unused[h.ast.text]]
           /\ ast_map' = [ast_map EXCEPT ![u] = h.ast]
           /\ Continue(s, [h EXCEPT !.pc = ReloadIfProject(u), !.ast = NoAst], FALSE)
    /\ UNCHANGED <<clientVars, published, inbox, replies, doc_map, open_docs, configVars>>

\* The outcomes of applying an edit made to `base` where the server holds doc:
\* on another text the ranges of the edit hit something else.
Edited(doc, base, text) == IF doc = base THEN {text} ELSE Text

did_change(s) ==
    /\ At(s, "did_change")
    /\ LET m == handlers[s].msg
       IN  \/ /\ doc_map[m.uri] = None
              /\ Goto(s, "done")
              /\ UNCHANGED <<docVars, published>>
           \/ /\ doc_map[m.uri] # None
              /\ \E t \in Edited(doc_map[m.uri], m.base, m.text) :
                   LET ast == parse_shared(t, globals_cache)
                   IN  /\ doc_map' = [doc_map EXCEPT ![m.uri] = t]
                       /\ ast_map' = [ast_map EXCEPT ![m.uri] = ast]
                       /\ ComputeAndPublish(s, [handlers[s] EXCEPT !.pc = ReloadIfProject(m.uri)],
                                            m.uri, t, ast, FALSE)
              /\ UNCHANGED open_docs
    /\ UNCHANGED <<clientVars, inbox, replies, configVars>>

did_save(s) ==
    /\ At(s, "did_save")
    /\ LET u == handlers[s].msg.uri
       IN  \/ /\ is_flsproject(u)
              /\ Goto(s, "reload")
              /\ UNCHANGED <<on_save_or_open_errors, published>>
           \/ /\ ~is_flsproject(u)
              /\ ast_map[u] = NoAst \/ doc_map[u] = None
              /\ Goto(s, "done")
              /\ UNCHANGED <<on_save_or_open_errors, published>>
           \/ /\ ~is_flsproject(u)
              /\ ast_map[u] # NoAst /\ doc_map[u] # None
              /\ ComputeAndPublish(s, [handlers[s] EXCEPT !.pc = "done"], u, doc_map[u],
                                   ast_map[u], TRUE)
    /\ UNCHANGED <<clientVars, inbox, replies, doc_map, ast_map, open_docs, configVars>>

\* did_change_watched_files, one change of its list at a time.
did_change_watched_files(s) ==
    /\ At(s, "did_change_watched_files")
    /\ Continue(s, [handlers[s] EXCEPT !.pc = "watched_file", !.left = handlers[s].msg.changes], FALSE)
    /\ UNCHANGED <<clientVars, published, inbox, replies, docVars, configVars>>

\* Mutant: disk changes reach open buffers.
NoOpenBuffer(u) == FALSE

IsOpenBuffer(u) == u \in open_docs

WatchedFile(s) ==
    /\ At(s, "watched_file")
    /\ LET h == handlers[s]
           c == Head(h.left)
           next == [h EXCEPT !.left = Tail(@)]
           fls_changed == \E i \in DOMAIN h.msg.changes : is_flsproject(h.msg.changes[i].uri)
       IN  \/ /\ h.left = <<>>
              /\ Goto(s, IF fls_changed THEN "reload" ELSE "done")
              /\ UNCHANGED docVars
           \/ /\ h.left # <<>>
              /\ \/ /\ IsOpenBuffer(c.uri)
                    /\ UNCHANGED <<doc_map, ast_map, on_save_or_open_errors>>
                 \/ ~IsOpenBuffer(c.uri) /\ ~c.deleted /\ reindex_from_disk(c.uri)
                 \/ ~IsOpenBuffer(c.uri) /\ c.deleted /\ Forget(c.uri)
              /\ Continue(s, next, FALSE)
              /\ UNCHANGED open_docs
    /\ UNCHANGED <<clientVars, published, inbox, replies, configVars>>

\* Mutant: a closed file is still taken for open.
DidCloseStillOpen(s) ==
    /\ At(s, "did_close")
    /\ Forget(handlers[s].msg.uri)
    /\ Goto(s, "done")
    /\ UNCHANGED <<clientVars, published, inbox, replies, open_docs, configVars>>

\* did_close: free_doc.
did_close(s) ==
    /\ At(s, "did_close")
    /\ open_docs' = open_docs \ {handlers[s].msg.uri}
    /\ Forget(handlers[s].msg.uri)
    /\ Goto(s, "done")
    /\ UNCHANGED <<clientVars, published, inbox, replies, configVars>>

did_change_workspace_folders(s) ==
    /\ At(s, "did_change_workspace_folders")
    /\ LET m == handlers[s].msg
       IN  /\ workspace_map' = (workspace_map \cup m.added) \ m.removed
           /\ IndexFolders(m.added)
    /\ Goto(s, "reload")
    /\ UNCHANGED <<clientVars, published, inbox, replies, config, globals_cache>>

\* Mutant: the fennel section is looked for under the wrong key.
DeserializedFlsOnly(st) == [fennel |-> DefaultFennel, fls |-> IF st.has_fls THEN st.fls ELSE DefaultFls]

\* A configuration that replaces the present one: a missing section is reset.
Deserialized(st) == [fennel |-> IF st.has_fennel THEN st.fennel ELSE DefaultFennel,
                     fls |-> IF st.has_fls THEN st.fls ELSE DefaultFls]

did_change_configuration(s) ==
    /\ At(s, "did_change_configuration")
    /\ LET m == handlers[s].msg
       IN  \/ /\ PullSupported /\ m.empty
              /\ Goto(s, "pull")
              /\ UNCHANGED <<docVars, config>>
           \/ /\ ~(PullSupported /\ m.empty)
              /\ config' = Deserialized(m.settings)
              /\ IndexFolders(Deserialized(m.settings).fennel.library)
              /\ Goto(s, "reload")
    /\ UNCHANGED <<clientVars, published, inbox, replies, globals_cache, workspace_map>>

\* Mutant: the new global is not propagated.
AddGlobalSilently(s) ==
    /\ At(s, "add_global")
    /\ config' = [config EXCEPT !.fennel.globals = @ \cup {handlers[s].msg.name}]
    /\ Goto(s, "done")
    /\ UNCHANGED <<clientVars, published, inbox, replies, docVars, globals_cache, workspace_map>>

\* execute_command for fennel.addGlobal.
add_global(s) ==
    /\ At(s, "add_global")
    /\ config' = [config EXCEPT !.fennel.globals = @ \cup {handlers[s].msg.name}]
    /\ Continue(s, [handlers[s] EXCEPT !.pc = "refresh", !.ret = "done"], FALSE)
    /\ UNCHANGED <<clientVars, published, inbox, replies, docVars, globals_cache, workspace_map>>

\* get_or_parse_ast, on behalf of a request that resolves into another file.
lookup(s) ==
    /\ At(s, "lookup")
    /\ LET u == handlers[s].msg.uri
           reads == ast_map[u] = NoAst /\ disk[u] # None
       IN  /\ doc_map' = [doc_map EXCEPT ![u] = IF reads THEN disk[u] ELSE @]
           /\ ast_map' = [ast_map EXCEPT ![u] = IF reads THEN parse_shared(disk[u], globals_cache)
                                                         ELSE @]
    /\ Goto(s, "done")
    /\ UNCHANGED <<clientVars, published, inbox, replies, open_docs, on_save_or_open_errors,
                   configVars>>

HandlerStep(s) ==
    \/ Start(s) \/ Resume(s)
    \/ register_file_watchers(s) \/ Registered(s) \/ initialized_index(s)
    \/ pull_configuration(s) \/ apply_pulled_configuration(s)
    \/ refresh_ast_globals_and_diagnostics(s) \/ PublishEach(s)
    \/ reload_flsproject(s) \/ ReloadPublish(s)
    \/ did_open(s) \/ did_open_cache(s) \/ did_change(s) \/ did_save(s) \/ did_close(s)
    \/ did_change_watched_files(s) \/ WatchedFile(s)
    \/ did_change_workspace_folders(s) \/ did_change_configuration(s)
    \/ add_global(s) \/ lookup(s)

-----------------------------------------------------------------------------
(* What the properties have to know of the past *)

\* The notifications about a document.
DocumentOps == {"did_open", "did_change", "did_save", "did_close"}

\* The handler in slot s is about the document u, at one of pcs.
Handles(s, u, pcs) == handlers[s].pc \in pcs /\ handlers[s].msg.uri = u

\* While u is being opened in another slot, where the handler waits for its log
\* or its publish to be sent, the step of slot s begins to handle the next
\* notification about u; or, with u's Ast not yet cached, it reads u from disk,
\* refreshes the globals, or publishes u's diagnostics in such a refresh.
Overtakes(s, u) ==
    \E r \in Slot \ {s} :
        \/ /\ Handles(r, u, {"did_open", "did_open_cache"})
           /\ handlers[s].pc = "done"
           /\ handlers'[s].pc \in DocumentOps /\ handlers'[s].msg.uri = u
        \/ /\ Handles(r, u, {"did_open_cache"})
           /\ \/ ast_map'[u] # ast_map[u]
              \/ refresh_ast_globals_and_diagnostics(s)
              \/ PublishEach(s) /\ u \in handlers[s].todo \ handlers'[s].todo

ServerStep(s) ==
    /\ HandlerStep(s)
    /\ overtaken' = overtaken \cup {u \in File : Overtakes(s, u)}
    /\ reconfigured' = (reconfigured \/ config' # config)

-----------------------------------------------------------------------------
(* The client *)

Tell(m) == inbox' = Append(inbox, m)

\* The user performs one of the operations the client may perform.
Operation(op) ==
    /\ op \in ClientOps
    /\ ops < MaxOps
    /\ ops' = ops + 1

\* What an operation of the client never touches.
ClientOnly == UNCHANGED <<published, replies, handlers, current, docVars, configVars, historyVars>>

\* A file opens with its content on disk, a new one with anything.
Open(u, t) ==
    /\ Operation("open")
    /\ editor[u] = None
    /\ disk[u] \in {None, t}
    /\ editor' = [editor EXCEPT ![u] = t]
    /\ Tell([op |-> "did_open", uri |-> u, text |-> t])
    /\ ClientOnly /\ UNCHANGED <<disk, settings, changes, watching, unwatched>>

Edit(u, t) ==
    /\ Operation("change")
    /\ editor[u] \notin {None, t}
    /\ editor' = [editor EXCEPT ![u] = t]
    /\ Tell([op |-> "did_change", uri |-> u, base |-> editor[u], text |-> t])
    /\ ClientOnly /\ UNCHANGED <<disk, settings, changes, watching, unwatched>>

\* The file u on disk becomes t (or is deleted); whoever watches it is told later.
DiskBecomes(u, t) ==
    /\ disk' = [disk EXCEPT ![u] = t]
    /\ IF watching
       THEN /\ changes' = Append(changes, [uri |-> u, deleted |-> t = None])
            /\ UNCHANGED unwatched
       ELSE /\ unwatched' = unwatched \cup {u}
            /\ UNCHANGED changes

Save(u) ==
    /\ Operation("save")
    /\ editor[u] # None
    /\ DiskBecomes(u, editor[u])
    /\ Tell([op |-> "did_save", uri |-> u])
    /\ ClientOnly /\ UNCHANGED <<editor, settings, watching>>

Close(u) ==
    /\ Operation("close")
    /\ editor[u] # None
    /\ editor' = [editor EXCEPT ![u] = None]
    /\ Tell([op |-> "did_close", uri |-> u])
    /\ ClientOnly /\ UNCHANGED <<disk, settings, changes, watching, unwatched>>

\* A file is written or deleted outside the editor.
ExternalChange(u, t) ==
    /\ Operation("disk")
    /\ disk[u] # t
    /\ DiskBecomes(u, t)
    /\ UNCHANGED inbox
    /\ ClientOnly /\ UNCHANGED <<editor, settings, watching>>

\* The user changes the settings; the client sends them, or only says so.
ChangeSettings(st, empty) ==
    /\ Operation("settings")
    /\ st # settings
    /\ empty => PullSupported
    /\ settings' = st
    /\ Tell([op |-> "did_change_configuration", empty |-> empty, settings |-> st])
    /\ ClientOnly /\ UNCHANGED <<editor, disk, changes, watching, unwatched>>

AddGlobal(g) ==
    /\ Operation("add_global")
    /\ Tell([op |-> "add_global", name |-> g])
    /\ ClientOnly /\ UNCHANGED <<editor, disk, settings, changes, watching, unwatched>>

\* A request about another file (a definition in u, a module's completions).
Lookup(u) ==
    /\ Operation("lookup")
    /\ Tell([op |-> "lookup", uri |-> u])
    /\ ClientOnly /\ UNCHANGED <<editor, disk, settings, changes, watching, unwatched>>

\* A folder is added to the workspace, or removed from it.
ChangeFolders(f) ==
    /\ Operation("folders")
    /\ \A i \in DOMAIN inbox : inbox[i].op # "did_change_workspace_folders"
    /\ \A s \in Slot : handlers[s].pc # "did_change_workspace_folders"
    /\ Tell([op |-> "did_change_workspace_folders",
             added |-> {f} \ workspace_map, removed |-> {f} \cap workspace_map])
    /\ ClientOnly /\ UNCHANGED <<editor, disk, settings, changes, watching, unwatched>>

\* The watched changes are reported together.
ReportChanges ==
    /\ changes # <<>>
    /\ changes' = <<>>
    /\ Tell([op |-> "did_change_watched_files", changes |-> changes])
    /\ ClientOnly /\ UNCHANGED <<editor, disk, settings, watching, unwatched, ops>>

\* The client has read the server's request: it watches from now on, or answers
\* with the settings of that moment, or (as operation "fail") with an error.
Answer(s) ==
    /\ handlers[s].pc \in {"await_register", "await_pull"}
    /\ \A i \in DOMAIN replies : replies[i].slot # s
    /\ \E ok \in {TRUE} \cup IF "fail" \in ClientOps THEN {FALSE} ELSE {} :
          /\ replies' = Append(replies, [slot |-> s, ok |-> ok, settings |-> settings])
          /\ watching' = (watching \/ (handlers[s].pc = "await_register" /\ ok))
    /\ UNCHANGED <<editor, disk, settings, changes, unwatched, ops, published, inbox, handlers,
                   current, docVars, configVars, historyVars>>

User ==
    \/ \E u \in File, t \in Text : Open(u, t) \/ Edit(u, t)
    \/ \E u \in File : Save(u) \/ Close(u) \/ Lookup(u)
    \/ \E u \in File, t \in Text \cup {None} : ExternalChange(u, t)
    \/ \E st \in SettingsChoices, empty \in BOOLEAN : ChangeSettings(st, empty)
    \/ \E g \in Global : AddGlobal(g)
    \/ \E f \in Folder : ChangeFolders(f)

-----------------------------------------------------------------------------
(* The specification *)

\* initialize has been answered: the folders and the initialization options are
\* stored, and the client sends `initialized`.
Init ==
    /\ editor = [u \in File |-> None]
    /\ disk \in InitialDisk
    /\ settings \in SettingsChoices
    /\ changes = <<>>
    /\ watching = FALSE
    /\ unwatched = {}
    /\ published = [u \in File |-> {}]
    /\ ops = 0
    /\ inbox = <<[op |-> "initialized"]>>
    /\ replies = <<>>
    /\ handlers = [s \in Slot |-> Idle]
    /\ current = NoSlot
    /\ doc_map = [u \in File |-> None]
    /\ ast_map = [u \in File |-> NoAst]
    /\ open_docs = {}
    /\ on_save_or_open_errors = [u \in File |-> {}]
    /\ workspace_map = InitialFolders
    /\ config \in {[fennel |-> DefaultFennel, fls |-> DefaultFls], Deserialized(settings)}
    /\ globals_cache = {}
    /\ overtaken = {}
    /\ reconfigured = FALSE

Next ==
    \/ \E s \in Slot : ServerStep(s) \/ Answer(s)
    \/ ReportChanges
    \/ User

Spec == Init /\ [][Next]_vars

\* The server keeps polling its handlers, the client answers requests and
\* reports the changes it watches. The user need not do anything.
Fairness ==
    /\ \A s \in Slot : WF_vars(ServerStep(s)) /\ WF_vars(Answer(s))
    /\ WF_vars(ReportChanges)

FairSpec == Spec /\ Fairness

-----------------------------------------------------------------------------
(* Properties *)

\* Type invariant of the whole server.
TypeOK ==
    /\ editor \in [File -> Text \cup {None}]
    /\ disk \in [File -> Text \cup {None}]
    /\ settings \in Settings
    /\ changes \in Seq(FileChange)
    /\ watching \in BOOLEAN
    /\ unwatched \subseteq File
    /\ published \in [File -> SUBSET Diagnostic]
    /\ ops \in 0..MaxOps
    /\ inbox \in Seq(Message)
    /\ replies \in Seq(Reply)
    /\ handlers \in [Slot -> Handler]
    /\ current \in Slot \cup {NoSlot}
    /\ doc_map \in [File -> Text \cup {None}]
    /\ ast_map \in [File -> Ast \cup {NoAst}]
    /\ open_docs \subseteq File
    /\ on_save_or_open_errors \in [File -> SUBSET Lint]
    /\ workspace_map \subseteq Folder
    /\ config \in Configuration
    /\ globals_cache \subseteq Global
    /\ overtaken \subseteq File
    /\ reconfigured \in BOOLEAN

\* No handler is between two awaits.
Settled == current = NoSlot

\* Everything the client sent has been handled and every change reported.
Quiescent ==
    /\ inbox = <<>> /\ replies = <<>> /\ changes = <<>>
    /\ \A s \in Slot : handlers[s] = Idle

\* The notifications that say what becomes of a buffer.
Notices == {"did_open", "did_change", "did_close"}

\* What the editor said about u has all been applied.
Heard(u) ==
    /\ \A i \in DOMAIN inbox : inbox[i].op \in Notices => inbox[i].uri # u
    /\ \A s \in Slot : handlers[s].pc \in Notices => handlers[s].msg.uri # u

\* u's did_open has still to cache the Ast it has published the errors of.
BeingOpened(u) == \E s \in Slot : Handles(s, u, {"did_open_cache"})

\* "The editor is the source of truth" for open buffers (lifecycle.rs): once
\* the editor's notifications about a file have run, the server holds exactly
\* the open buffer's text, and takes for open exactly the files that are. Only
\* a file whose did_open was overtaken, at one of its two sends, is lost.
EditorTextIsServed ==
    \A u \in File \ overtaken : Heard(u) =>
        /\ u \in open_docs <=> editor[u] # None
        /\ editor[u] # None => doc_map[u] = editor[u]

\* The edit a did_change is about to apply was made to the text it is applied
\* to, so its ranges are valid there (the `expect` in did_change never fails)
\* and no edit is dropped because its document is missing, as long as no did_open
\* of that document is overtaken.
EditsMeetTheirBase ==
    \A s \in Slot : At(s, "did_change") /\ handlers[s].msg.uri \notin overtaken =>
        doc_map[handlers[s].msg.uri] = handlers[s].msg.base

\* Document and Ast caches hold the same files, and each Ast is the parse of
\* the cached text under the globals now in force: no query mixes positions of
\* one text with another, none reports names by old globals. The exception is a
\* document between the publish of its did_open and the end of it, and for good
\* if that did_open is overtaken.
CachesAgree ==
    \A u \in File \ overtaken :
        \/ BeingOpened(u)
        \/ doc_map[u] = None /\ ast_map[u] = NoAst
        \/ ast_map[u] = parse_shared(doc_map[u], globals_cache)

\* A cached file that is not open is as on disk, unless it changed before the
\* watchers were registered or the change is still on its way.
IndexFollowsDisk ==
    Settled => \A u \in File \ (open_docs \cup unwatched \cup overtaken) :
        \/ doc_map[u] \in {None, disk[u]}
        \/ \E i \in DOMAIN changes : changes[i].uri = u
        \/ \E i \in DOMAIN inbox :
              /\ inbox[i].op = "did_change_watched_files"
              /\ \E j \in DOMAIN inbox[i].changes : inbox[i].changes[j].uri = u

\* Errors kept from the last open or save never outlive the code they are
\* about, and belong to open files only.
StoredErrorsApply ==
    \A u \in File \ (Project \cup overtaken) :
        on_save_or_open_errors[u] \subseteq
            IF u \in open_docs THEN Unused[doc_map[u]] ELSE {}

\* The handler in slot s is bound to recompute the globals, or to publish u's
\* diagnostics again.
WillRecompute(s) == handlers[s].pc \in {"reload_publish", "refresh", "refresh_again"}
WillPublish(s, u) == WillRecompute(s) \/ u \in handlers[s].todo

\* Whenever the task is free, what the editor was last sent for an open file is
\* what its present text, globals and settings call for, whichever handler sent
\* it and however handlers interleave at their sends; or a refresh that is under
\* way will send it.
DiagnosticsAreCurrent ==
    Settled => \A u \in open_docs \ overtaken :
        \/ BeingOpened(u)
        \/ \E s \in Slot : WillPublish(s, u)
        \/ published[u] = compute_diagnostics(u, doc_map[u], ast_map[u], on_save_or_open_errors[u],
                                              config)

\* Whatever changes the configuration recomputes the globals: from its first
\* change on the globals cache is what the whole configuration calls for, unless
\* the handler that changed it waits for a send before its refresh. Until then it
\* may also be that of the standard library alone, which initialize leaves.
GlobalsCacheIsCurrent ==
    Settled /\ (\A s \in Slot : ~WillRecompute(s)) =>
        \/ globals_cache = GlobalsOf(config)
        \/ ~reconfigured /\ globals_cache = {}

\* Once everything is handled, the globals the user has configured are in
\* force: no late answer or older message overwrote them, and none is missing
\* from the globals that names are looked up in.
UserGlobalsAreInForce ==
    Quiescent /\ settings.has_fennel =>
        /\ settings.fennel.globals \subseteq config.fennel.globals
        /\ reconfigured => settings.fennel.globals \subseteq globals_cache

\* README.md: "File-watcher support, so edits made outside the editor are
\* picked up": a closed project file that the watchers cover has its settings
\* in force once everything is handled.
ProjectEditsArePickedUp ==
    Quiescent => \A f \in workspace_map :
        /\ disk[ProjectOf[f]] # None
        /\ ProjectOf[f] \notin open_docs \cup unwatched
        => config.fls = parse_and_validate_flsproject(disk[ProjectOf[f]])

\* lifecycle.rs on open buffers: "the editor is the source of truth for those":
\* once everything is handled, the server holds the text of every open buffer.
OpenBuffersAreServed ==
    Quiescent => \A u \in File : editor[u] # None => doc_map[u] = editor[u]

\* Every message is handled and every change reported, however handlers wait
\* for the client in between.
EverythingIsHandled == <>[]Quiescent

\* Once everything is handled, an open project file's buffer decides the project
\* settings, whatever the client configured meanwhile and however the handlers
\* interleaved. (Of several project files reload_flsproject takes any, and
\* did_close none.)
ProjectSettingsSettle ==
    Quiescent => \A p \in Project \cap open_docs :
        Project = {p} => config.fls = parse_and_validate_flsproject(doc_map[p])

\* Background indexing and the watchers together miss no file: once the watchers
\* are registered and everything is handled, every file below a workspace folder
\* or a library is in the index, however its creation raced the registration and
\* the indexing.
IndexCoversWorkspace ==
    Quiescent /\ watching =>
        \A f \in workspace_map \cup config.fennel.library : \A u \in FilesIn[f] :
            disk[u] # None => ast_map[u] # NoAst

-----------------------------------------------------------------------------
(* The documents as DocumentSync has them.                                 *)

\* What a message says of the buffer u, if anything.
Said(m, u) ==
    CASE m.op \in {"did_open", "did_change"} /\ m.uri = u -> <<m.text>>
      [] m.op = "did_close" /\ m.uri = u                  -> <<None>>
      [] OTHER                                            -> <<>>

\* What the client said of u and no map shows yet: the notification of a handler
\* that has not got to it, and the messages that wait.
Unheard(u) ==
    LET begun == {s \in Slot : Handles(s, u, Notices)}
    IN  (IF begun = {} THEN <<>> ELSE Said(handlers[CHOOSE s \in begun : TRUE].msg, u))
            \o FlattenSeq([i \in DOMAIN inbox |-> Said(inbox[i], u)])

Sync == INSTANCE DocumentSync
            WITH buffer <- editor, lost <- overtaken,
                 said <- [u \in File |-> IF u \in overtaken THEN <<>> ELSE Unheard(u)],
                 open <- open_docs \ overtaken,
                 text <- [u \in File |-> IF u \in overtaken THEN None ELSE doc_map[u]]

\* The server keeps the promise for every file whose did_open is never overtaken:
\* whatever interleaves, each notification about its buffer is applied once, in
\* order, to the text it was meant for, and nothing that the disk does touches
\* it while it is open.
KeepsDocumentsInSync == Sync!Spec
=============================================================================
