-------------------- MODULE LanguageServer_settled_proofs --------------------
(***************************************************************************)
(* What the server keeps up with: the globals with the configuration, the  *)
(* stored errors and the published diagnostics with the documents and the  *)
(* settings, the index with the disk; then, once everything is handled,    *)
(* the project file's settings and the user's globals. No assumption is    *)
(* made on when a send suspends a handler.                                 *)
(***************************************************************************)
EXTENDS LanguageServer_sync_proofs

USE BackendAssumption, LanguageServerAssumption

-----------------------------------------------------------------------------
(* The globals *)

Fresh ==
    \/ globals_cache = GlobalsOf(config)
    \/ ~reconfigured /\ globals_cache = {}

\* A handler that has changed the configuration, or may have, and will refresh.
Owes(h) ==
    \/ h.pc \in {"refresh", "refresh_again", "reload_publish"}
    \/ h.pc = "reload" /\ AfterReload(h.msg) = "refresh_again"

\* Whatever changed the configuration last, someone will refresh after it; and
\* between a pushed configuration and the project file there is no await.
GlobalsInv ==
    /\ Fresh \/ \E s \in Slot : Owes(handlers[s])
    /\ \A s \in Slot : handlers[s].pc = "reload" /\ AfterReload(handlers[s].msg) = "refresh_again"
                       => current = s

\* A step refreshes, leaves its handler owing a refresh, or changes no globals
\* while it owed none.
LEMMA OwesStep ==
    ASSUME ServerType, NEW s \in Slot, HandlerStep(s)
    PROVE  \/ refresh_ast_globals_and_diagnostics(s)
           \/ Owes(handlers'[s])
           \/ ~Owes(handlers[s]) /\ UNCHANGED <<config, globals_cache>>
<1> USE DEF ServerType, At
<1>h. PICK h : h = handlers[s]
    OBVIOUS
<1>0. HandlerInv(h) /\ Locals(h) /\ h \in Handler
    BY <1>h, AtType
<1>g. ASSUME NEW g, NEW b \in BOOLEAN, Continue(s, g, b), Owes(g)
      PROVE  Owes(handlers'[s])
    <2>1. g.pc # "done"
        BY <1>g DEF Owes
    <2>2. QED
        BY <1>g, <2>1, GoesOn
<1>2. CASE Start(s) \/ Resume(s)
    BY <1>2 DEF Start, Resume, configVars, Owes, Idle
<1>4. CASE refresh_ast_globals_and_diagnostics(s)
    BY <1>4
<1>5. CASE reload_flsproject(s)
    <2>1. h.pc = "reload" /\ UNCHANGED globals_cache
        BY <1>5, <1>h DEF reload_flsproject
    <2>2. ASSUME Goto(s, AfterReload(h.msg)), UNCHANGED config, Owes(h)
          PROVE  Owes(handlers'[s])
        <3>1. AfterReload(h.msg) = "refresh_again"
            BY <2>1, <2>2 DEF Owes
        <3>2. PICK g : g = [h EXCEPT !.pc = "refresh_again"]
            OBVIOUS
        <3>3. g.pc = "refresh_again" /\ Continue(s, g, FALSE)
            BY <1>0, <1>h, <2>2, <3>1, <3>2 DEF Handler, Goto
        <3>4. QED
            BY <1>g, <3>3 DEF Owes
    <2>3. ASSUME NEW p \in ProjectFiles,
                 Continue(s, [h EXCEPT !.pc = "reload_publish", !.uri = p.uri, !.text = p.text],
                          ProjectErrors[p.text] # {})
          PROVE  Owes(handlers'[s])
        <3>1. PICK g, b : /\ g = [h EXCEPT !.pc = "reload_publish", !.uri = p.uri, !.text = p.text]
                          /\ b = (ProjectErrors[p.text] # {})
            OBVIOUS
        <3>2. g.pc = "reload_publish" /\ b \in BOOLEAN /\ Continue(s, g, b)
            BY <1>0, <2>3, <3>1 DEF Handler
        <3>3. QED
            BY <1>g, <3>2 DEF Owes
    <2>4. QED
        BY <1>5, <1>h, <2>1, <2>2, <2>3 DEF reload_flsproject
<1>6. CASE ReloadPublish(s)
    <2>1. PICK g : g = [h EXCEPT !.pc = "refresh", !.ret = AfterReload(h.msg), !.uri = None,
                                 !.text = None]
        OBVIOUS
    <2>2. g.pc = "refresh" /\ (Continue(s, g, FALSE) \/ Continue(s, g, TRUE))
        BY <1>0, <1>6, <1>h, <2>1 DEF Handler, ReloadPublish, ComputeAndPublish
    <2>3. QED
        BY <1>g, <2>2 DEF Owes
<1>7. CASE apply_pulled_configuration(s)
    <2>1. PICK g : g = [h EXCEPT !.pc = "refresh", !.ret = "reload"]
        OBVIOUS
    <2>2. g.pc = "refresh" /\ ~Owes(h) /\ UNCHANGED globals_cache
        BY <1>0, <1>7, <1>h, <2>1 DEF Handler, apply_pulled_configuration, Owes
    <2>3. UNCHANGED config \/ Continue(s, g, FALSE)
        BY <1>7, <1>h, <2>1 DEF apply_pulled_configuration
    <2>4. QED
        BY <1>g, <1>h, <2>2, <2>3 DEF Owes
<1>8. CASE did_change_configuration(s)
    <2>1. PICK g : g = [h EXCEPT !.pc = "reload"]
        OBVIOUS
    <2>2. g.pc = "reload" /\ g.msg = h.msg /\ ~Owes(h) /\ UNCHANGED globals_cache
        BY <1>0, <1>8, <1>h, <2>1 DEF Handler, did_change_configuration, Owes
    <2>3. h.msg.op = "did_change_configuration"
        BY <1>0, <1>8, <1>h DEF did_change_configuration, HandlerInv, Entry
    <2>4. \/ UNCHANGED config
          \/ Continue(s, g, FALSE) /\ ~(PullSupported /\ h.msg.empty)
        BY <1>8, <1>h, <2>1 DEF did_change_configuration, Goto
    <2>5. ~(PullSupported /\ h.msg.empty) => AfterReload(h.msg) = "refresh_again"
        BY <2>3 DEF AfterReload
    <2>6. ~(PullSupported /\ h.msg.empty) => Owes(g)
        BY <2>2, <2>5 DEF Owes
    <2>7. QED
        BY <1>g, <1>h, <2>2, <2>4, <2>6
<1>9. CASE add_global(s)
    <2>1. PICK g : g = [h EXCEPT !.pc = "refresh", !.ret = "done"]
        OBVIOUS
    <2>2. g.pc = "refresh" /\ Continue(s, g, FALSE)
        BY <1>0, <1>9, <1>h, <2>1 DEF Handler, add_global
    <2>3. QED
        BY <1>g, <2>2 DEF Owes
<1>10. CASE register_file_watchers(s) \/ Registered(s) \/ initialized_index(s) \/ pull_configuration(s)
            \/ PublishEach(s) \/ did_open(s) \/ did_open_cache(s) \/ did_change(s) \/ did_save(s)
            \/ did_close(s) \/ did_change_watched_files(s) \/ WatchedFile(s)
            \/ did_change_workspace_folders(s) \/ lookup(s)
    BY <1>10 DEF register_file_watchers, Registered, initialized_index, pull_configuration, PublishEach,
       did_open, did_open_cache, did_change, did_save, did_close, did_change_watched_files, WatchedFile,
       did_change_workspace_folders, lookup, configVars, Owes
<1>11. QED
    BY <1>2, <1>4, <1>5, <1>6, <1>7, <1>8, <1>9, <1>10 DEF HandlerStep

\* A handler that comes to the project file with a pushed configuration keeps the task.
LEMMA PushedGoesOn ==
    ASSUME ServerType, NEW s \in Slot, HandlerStep(s),
           handlers'[s].pc = "reload", AfterReload(handlers'[s].msg) = "refresh_again"
    PROVE  current' = s
<1> USE DEF ServerType
<1>h. PICK h : h = handlers[s]
    OBVIOUS
<1>0. HandlerInv(h) /\ h \in Handler
    BY <1>h, AtType
<1>1. ASSUME NEW g, NEW b \in BOOLEAN, Continue(s, g, b), b => g.pc # "reload"
      PROVE  current' = s
    BY <1>1, GoesOn DEF Idle
<1>2. CASE Resume(s)
    BY <1>2 DEF Resume
<1>3. CASE Start(s)
    BY <1>3, StartsOn DEF Entry
<1>4. CASE did_change(s)
    <2>1. h.msg.op = "did_change"
        BY <1>0, <1>4, <1>h DEF did_change, At, HandlerInv, Entry
    <2>2. CASE Goto(s, "done")
        BY <1>1, <2>2 DEF Goto
    <2>3. CASE Continue(s, [h EXCEPT !.pc = ReloadIfProject(h.msg.uri)], TRUE)
        <3>1. PICK g : g = [h EXCEPT !.pc = ReloadIfProject(h.msg.uri)]
            OBVIOUS
        <3>2. g.msg = h.msg /\ Continue(s, g, TRUE)
            BY <1>0, <2>3, <3>1 DEF Handler
        <3>3. handlers'[s] = Idle \/ handlers'[s] = g
            BY <3>2, GoesOn
        <3>4. AfterReload(g.msg) = "done"
            BY <2>1, <3>2 DEF AfterReload
        <3>5. QED
            BY <3>3, <3>4 DEF Idle
    <2>4. QED
        BY <1>4, <1>h, <2>2, <2>3 DEF did_change, ComputeAndPublish
<1>5. CASE register_file_watchers(s) \/ pull_configuration(s)
    <2>1. PICK g : g = [h EXCEPT !.pc = "pull"]
        OBVIOUS
    <2>2. g.pc = "pull"
        BY <1>0, <2>1 DEF Handler
    <2>3. ASSUME NEW pc, Await(s, pc), pc # "reload"
          PROVE  FALSE
        BY <2>3 DEF Await, HandlersInv, Handler
    <2>4. QED
        BY <1>1, <1>5, <1>h, <2>1, <2>2, <2>3 DEF register_file_watchers, pull_configuration, Goto
<1>6. CASE Registered(s)
    <2>1. PICK g : g = [h EXCEPT !.pc = "pull"]
        OBVIOUS
    <2>2. g.pc = "pull"
        BY <1>0, <2>1 DEF Handler
    <2>3. PICK b \in BOOLEAN : Continue(s, g, b)
        BY <1>6, <1>h, <2>1 DEF Registered
    <2>4. QED
        BY <1>1, <2>2, <2>3
<1>7. CASE reload_flsproject(s)
    <2>1. ASSUME NEW p \in ProjectFiles, NEW b \in BOOLEAN,
                 Continue(s, [h EXCEPT !.pc = "reload_publish", !.uri = p.uri, !.text = p.text], b)
          PROVE  current' = s
        <3>1. PICK g : g = [h EXCEPT !.pc = "reload_publish", !.uri = p.uri, !.text = p.text]
            OBVIOUS
        <3>2. g.pc = "reload_publish" /\ Continue(s, g, b)
            BY <1>0, <2>1, <3>1 DEF Handler
        <3>3. QED
            BY <1>1, <3>2
    <2>2. QED
        BY <1>1, <1>7, <1>h, <2>1 DEF reload_flsproject, Goto
<1>8. CASE ReloadPublish(s)
    <2>1. PICK g : g = [h EXCEPT !.pc = "refresh", !.ret = AfterReload(h.msg), !.uri = None,
                                 !.text = None]
        OBVIOUS
    <2>2. g.pc = "refresh" /\ (Continue(s, g, FALSE) \/ Continue(s, g, TRUE))
        BY <1>0, <1>8, <1>h, <2>1 DEF Handler, ReloadPublish, ComputeAndPublish
    <2>3. QED
        BY <1>1, <2>2
<1>9. CASE PublishEach(s)
    <2>1. CASE Goto(s, h.ret)
        BY <1>1, <2>1 DEF Goto
    <2>2. ASSUME NEW u \in h.todo, NEW b \in BOOLEAN, Continue(s, [h EXCEPT !.todo = @ \ {u}], b)
          PROVE  current' = s
        <3>1. PICK g : g = [h EXCEPT !.todo = @ \ {u}]
            OBVIOUS
        <3>2. g.pc = "publish_each" /\ Continue(s, g, b)
            BY <1>0, <1>9, <1>h, <2>2, <3>1 DEF Handler, PublishEach, At
        <3>3. QED
            BY <1>1, <3>2
    <2>3. QED
        BY <1>9, <1>h, <2>1, <2>2 DEF PublishEach, ComputeAndPublish
<1>10. CASE did_open(s)
    BY <1>10, OpeningKeepsMessage
<1>11. CASE did_save(s)
    <2>1. PICK g : g = [h EXCEPT !.pc = "done"]
        OBVIOUS
    <2>2. g.pc = "done" /\ (Continue(s, g, TRUE) \/ Goto(s, "reload") \/ Goto(s, "done"))
        BY <1>0, <1>11, <1>h, <2>1 DEF Handler, did_save, ComputeAndPublish
    <2>3. QED
        BY <1>1, <2>2 DEF Goto
<1>12. CASE initialized_index(s) \/ apply_pulled_configuration(s) \/ refresh_ast_globals_and_diagnostics(s)
            \/ did_open_cache(s) \/ did_close(s) \/ did_change_watched_files(s) \/ WatchedFile(s)
            \/ did_change_workspace_folders(s) \/ did_change_configuration(s) \/ add_global(s) \/ lookup(s)
    <2>1. \E g : Continue(s, g, FALSE)
        BY <1>12 DEF initialized_index, apply_pulled_configuration, refresh_ast_globals_and_diagnostics,
           did_open_cache, did_close, did_change_watched_files, WatchedFile, did_change_workspace_folders,
           did_change_configuration, add_global, lookup, Goto
    <2>2. QED
        BY <1>1, <2>1
<1>13. QED
    BY <1>2, <1>3, <1>4, <1>5, <1>6, <1>7, <1>8, <1>9, <1>10, <1>11, <1>12 DEF HandlerStep

\* So the cache is fresh or owed a refresh in every state the server reaches.
LEMMA GlobalsInvInductive == Spec => []GlobalsInv
<1>1. Init => GlobalsInv
    BY DEF Init, GlobalsInv, Fresh, Idle
<1>2. ASSUME TypeInv, GlobalsInv, [Next]_vars
      PROVE  GlobalsInv'
    <2>1. ASSUME NEW s \in Slot, ServerStep(s)
          PROVE  GlobalsInv'
        <3>0. /\ ServerType /\ HandlerStep(s) /\ HandlersInv
              /\ UNCHANGED config => reconfigured' = reconfigured
            BY <1>2, <2>1 DEF TypeInv, ServerStep, ServerType, HistoryType
        <3>a. \A r \in Slot \ {s} : handlers'[r] = handlers[r]
            BY <3>0, OthersStay
        <3>1. (Fresh \/ \E r \in Slot : Owes(handlers[r]))'
            <4>1. CASE refresh_ast_globals_and_diagnostics(s)
                BY <4>1 DEF refresh_ast_globals_and_diagnostics, Fresh
            <4>2. CASE Owes(handlers'[s])
                BY <4>2 DEF Owes
            <4>3. CASE ~Owes(handlers[s]) /\ UNCHANGED <<config, globals_cache>>
                <5>1. CASE Fresh
                    BY <3>0, <4>3, <5>1 DEF Fresh, GlobalsOf
                <5>2. CASE ~Fresh
                    <6>1. PICK r \in Slot \ {s} : Owes(handlers[r])
                        BY <1>2, <4>3, <5>2 DEF GlobalsInv
                    <6>2. QED
                        BY <3>a, <6>1 DEF Owes
                <5>3. QED
                    BY <5>1, <5>2
            <4>4. QED
                BY <3>0, <4>1, <4>2, <4>3, OwesStep
        <3>2. ASSUME NEW r \in Slot, handlers'[r].pc = "reload",
                     AfterReload(handlers'[r].msg) = "refresh_again"
              PROVE  current' = r
            <4>1. CASE r = s
                BY <3>0, <3>2, <4>1, PushedGoesOn
            <4>2. CASE r # s
                <5>1. current = r
                    BY <1>2, <3>2, <3>a, <4>2 DEF GlobalsInv
                <5>2. current \in {s, NoSlot}
                    BY <3>0, HasTask
                <5>3. QED
                    BY <4>2, <5>1, <5>2
            <4>3. QED
                BY <4>1, <4>2
        <3>3. QED
            BY <3>1, <3>2 DEF GlobalsInv, AfterReload
    <2>2. CASE (\E s \in Slot : Answer(s)) \/ ReportChanges \/ User \/ UNCHANGED vars
        BY <1>2, <2>2, ClientLeavesServer DEF GlobalsInv, Fresh, Owes, GlobalsOf, AfterReload
    <2>3. QED
        BY <1>2, <2>1, <2>2 DEF Next
<1>3. QED
    BY <1>1, <1>2, TypeInvInductive, PTL DEF Spec

\* GlobalsCacheIsCurrent: from the first change of the configuration on, at every
\* await of every handler, the globals cache is what the configuration calls for,
\* or a handler is about to refresh it.
THEOREM GlobalsStayCurrent == Spec => []GlobalsCacheIsCurrent
<1>1. GlobalsInv => GlobalsCacheIsCurrent
    BY DEF GlobalsInv, GlobalsCacheIsCurrent, Settled, WillRecompute, Owes, Fresh
<1>2. QED
    BY <1>1, GlobalsInvInductive, PTL


-----------------------------------------------------------------------------
(* The errors kept for a document and the diagnostics sent for it *)

ErrorsKept(u) ==
    /\ on_save_or_open_errors'[u] = on_save_or_open_errors[u]
    /\ published'[u] = published[u]

\* compute_diagnostics runs on the Ast, and its result is published.
Shows(u, ast, b) ==
    /\ on_save_or_open_errors'[u] = StoredErrors(u, on_save_or_open_errors[u], ast, b)
    /\ published'[u] = compute_diagnostics(u, doc_map'[u], ast, on_save_or_open_errors'[u], config)
    /\ UNCHANGED <<config, globals_cache>>

Sends(v, ast, doc, b) ==
    LET stored == StoredErrors(v, on_save_or_open_errors[v], ast, b)
    IN  /\ on_save_or_open_errors' = [on_save_or_open_errors EXCEPT ![v] = stored]
        /\ published' = [published EXCEPT ![v] = compute_diagnostics(v, doc, ast, stored, config)]
        /\ UNCHANGED <<config, globals_cache>>

\* It shows what it is run on, and keeps the rest.
LEMMA SendsShows ==
    ASSUME ServerType, NEW v \in File, NEW ast, NEW doc, NEW b, Sends(v, ast, doc, b), doc_map'[v] = doc
    PROVE  Shows(v, ast, b) /\ \A u \in File \ {v} : ErrorsKept(u)
<1>1. PICK stored : stored = StoredErrors(v, on_save_or_open_errors[v], ast, b)
    OBVIOUS
<1>2. PICK shown : shown = compute_diagnostics(v, doc, ast, stored, config)
    OBVIOUS
<1>3. /\ on_save_or_open_errors' = [on_save_or_open_errors EXCEPT ![v] = stored]
      /\ published' = [published EXCEPT ![v] = shown]
      /\ UNCHANGED <<config, globals_cache>>
    BY <1>1, <1>2 DEF Sends
<1>4. /\ on_save_or_open_errors'[v] = stored /\ published'[v] = shown
      /\ \A u \in File \ {v} : ErrorsKept(u)
    BY <1>3 DEF ServerType, DocType, MailType, SentType, ErrorsType, ErrorsKept
<1>5. QED
    BY <1>1, <1>2, <1>3, <1>4 DEF Shows

\* The notifications about a document, and the end of opening it.
LEMMA DocumentErrors ==
    ASSUME ServerType, NEW s \in Slot, NEW u \in File, handlers[s].msg.uri = u
    PROVE  /\ did_open(s) => Shows(u, parse_shared(doc_map'[u], globals_cache), TRUE)
           /\ did_change(s) => \/ doc_map[u] = None /\ ErrorsKept(u) /\ UNCHANGED docVars
                               \/ Shows(u, parse_shared(doc_map'[u], globals_cache), FALSE)
           /\ did_close(s) => on_save_or_open_errors'[u] = {} /\ published'[u] = published[u]
           /\ did_save(s) => /\ UNCHANGED <<doc_map, ast_map, open_docs, globals_cache>>
                             /\ \/ ErrorsKept(u)
                                \/ u \notin Project /\ ast_map[u] # NoAst /\ Shows(u, ast_map[u], TRUE)
           /\ did_open_cache(s) => /\ on_save_or_open_errors'[u] = Unused[handlers[s].ast.text]
                                   /\ published'[u] = published[u]
                                   /\ UNCHANGED <<doc_map, open_docs, config, globals_cache>>
<1> USE DEF ServerType
<1>m. PICK m : m = handlers[s].msg
    OBVIOUS
<1>d. /\ doc_map \in [File -> Text \cup {None}] /\ ast_map \in [File -> Ast \cup {NoAst}]
      /\ on_save_or_open_errors \in [File -> SUBSET Lint]
    BY DEF DocType, ErrorsType
<1>1. ASSUME did_open(s)
      PROVE  Shows(u, parse_shared(doc_map'[u], globals_cache), TRUE)
    <2>1. /\ doc_map' = [doc_map EXCEPT ![u] = m.text]
          /\ Sends(u, parse_shared(m.text, globals_cache), m.text, TRUE)
        BY <1>1, <1>m DEF did_open, ComputeAndPublish, Sends, configVars
    <2>2. doc_map'[u] = m.text
        BY <1>d, <2>1
    <2>3. QED
        BY <2>1, <2>2, SendsShows
<1>2. ASSUME did_change(s)
      PROVE  \/ doc_map[u] = None /\ ErrorsKept(u) /\ UNCHANGED docVars
             \/ Shows(u, parse_shared(doc_map'[u], globals_cache), FALSE)
    <2>1. CASE doc_map[u] = None /\ UNCHANGED <<docVars, published>>
        BY <2>1 DEF ErrorsKept, docVars
    <2>2. CASE \E t : /\ doc_map' = [doc_map EXCEPT ![u] = t]
                      /\ Sends(u, parse_shared(t, globals_cache), t, FALSE)
        <3>1. PICK t : /\ doc_map' = [doc_map EXCEPT ![u] = t]
                       /\ Sends(u, parse_shared(t, globals_cache), t, FALSE)
            BY <2>2
        <3>2. doc_map'[u] = t
            BY <1>d, <3>1
        <3>3. QED
            BY <3>1, <3>2, SendsShows
    <2>3. QED
        BY <1>2, <1>m, <2>1, <2>2 DEF did_change, ComputeAndPublish, Sends, configVars
<1>3. ASSUME did_close(s)
      PROVE  on_save_or_open_errors'[u] = {} /\ published'[u] = published[u]
    BY <1>3, <1>d DEF did_close, Forget
<1>4. ASSUME did_save(s)
      PROVE  /\ UNCHANGED <<doc_map, ast_map, open_docs, globals_cache>>
             /\ \/ ErrorsKept(u)
                \/ u \notin Project /\ ast_map[u] # NoAst /\ Shows(u, ast_map[u], TRUE)
    <2>1. UNCHANGED <<doc_map, ast_map, open_docs, globals_cache>>
        BY <1>4 DEF did_save, configVars
    <2>2. CASE UNCHANGED <<on_save_or_open_errors, published>>
        BY <2>1, <2>2 DEF ErrorsKept
    <2>3. CASE u \notin Project /\ ast_map[u] # NoAst /\ Sends(u, ast_map[u], doc_map[u], TRUE)
        BY <2>1, <2>3, SendsShows
    <2>4. QED
        BY <1>4, <1>m, <2>2, <2>3 DEF did_save, ComputeAndPublish, Sends, configVars, is_flsproject
<1>5. ASSUME did_open_cache(s)
      PROVE  /\ on_save_or_open_errors'[u] = Unused[handlers[s].ast.text]
             /\ published'[u] = published[u]
             /\ UNCHANGED <<doc_map, open_docs, config, globals_cache>>
    BY <1>5, <1>d DEF did_open_cache, configVars
<1>6. QED
    BY <1>1, <1>2, <1>3, <1>4, <1>5

\* Every other step keeps a document's errors, forgets it, or publishes it again.
LEMMA OtherErrors ==
    ASSUME ServerType, NEW s \in Slot, HandlerStep(s), NEW u \in File, handlers[s].msg.uri # u
           \/ ~(did_open(s) \/ did_change(s) \/ did_close(s) \/ did_save(s) \/ did_open_cache(s))
    PROVE  \/ ErrorsKept(u) /\ (PublishEach(s) /\ u \in handlers[s].todo \ handlers'[s].todo
                                => doc_map[u] = None \/ ast_map[u] = NoAst)
           \/ on_save_or_open_errors'[u] = {} /\ published'[u] = published[u] /\ u \notin open_docs
           \/ /\ PublishEach(s) /\ u \in handlers[s].todo \ handlers'[s].todo
              /\ UNCHANGED <<doc_map, ast_map, open_docs>> /\ ast_map[u] # NoAst
              /\ Shows(u, ast_map[u], FALSE)
           \/ /\ ReloadPublish(s) /\ handlers[s].uri = u
              /\ UNCHANGED <<doc_map, open_docs>> /\ Shows(u, ast_map'[u], FALSE)
<1> USE DEF ServerType
<1>h. PICK h : h = handlers[s]
    OBVIOUS
<1>0. HandlerInv(h) /\ h \in Handler
    BY <1>h, AtType
<1>d. /\ doc_map \in [File -> Text \cup {None}] /\ ast_map \in [File -> Ast \cup {NoAst}]
      /\ on_save_or_open_errors \in [File -> SUBSET Lint] /\ published \in [File -> SUBSET Diagnostic]
    BY DEF DocType, ErrorsType, MailType, SentType
<1>k. /\ UNCHANGED <<on_save_or_open_errors, published>> => ErrorsKept(u)
      /\ UNCHANGED <<docVars, published>> => ErrorsKept(u)
    BY DEF ErrorsKept, docVars
<1>1. CASE Start(s) \/ Resume(s) \/ register_file_watchers(s) \/ Registered(s) \/ initialized_index(s)
           \/ pull_configuration(s) \/ apply_pulled_configuration(s)
           \/ refresh_ast_globals_and_diagnostics(s) \/ reload_flsproject(s)
           \/ did_change_watched_files(s) \/ did_change_workspace_folders(s)
           \/ did_change_configuration(s) \/ add_global(s) \/ lookup(s)
    <2>1. UNCHANGED <<on_save_or_open_errors, published>>
        BY <1>1 DEF Start, Resume, register_file_watchers, Registered, initialized_index, pull_configuration,
           apply_pulled_configuration, refresh_ast_globals_and_diagnostics, reload_flsproject,
           did_change_watched_files, did_change_workspace_folders, did_change_configuration, add_global,
           lookup, IndexFolders, docVars
    <2>2. ~PublishEach(s)
        BY <1>1 DEF Start, Resume, register_file_watchers, Registered, initialized_index, pull_configuration,
           apply_pulled_configuration, refresh_ast_globals_and_diagnostics, reload_flsproject,
           did_change_watched_files, did_change_workspace_folders, did_change_configuration, add_global,
           lookup, PublishEach, At, Idle
    <2>3. QED
        BY <1>k, <2>1, <2>2
<1>2. CASE did_open(s) \/ did_change(s) \/ did_close(s) \/ did_save(s) \/ did_open_cache(s)
    <2>1. ~PublishEach(s) /\ h.msg.uri # u
        BY <1>2, <1>h DEF did_open, did_change, did_close, did_save, did_open_cache, PublishEach, At
    <2>2. ErrorsKept(u)
        BY <1>2, <1>h, <1>d, <2>1 DEF did_open, did_change, did_close, did_save, did_open_cache, ComputeAndPublish,
           Forget, ErrorsKept, docVars
    <2>3. QED
        BY <2>1, <2>2
<1>3. CASE WatchedFile(s)
    <2>0. ~PublishEach(s) /\ UNCHANGED published
        BY <1>3 DEF WatchedFile, PublishEach, At
    <2>1. CASE h.left = <<>>
        BY <1>3, <1>h, <1>k, <2>0, <2>1 DEF WatchedFile
    <2>2. CASE h.left # <<>>
        <3> DEFINE c == Head(h.left)
        <3>1. \/ UNCHANGED on_save_or_open_errors
              \/ c.uri \notin open_docs /\ (reindex_from_disk(c.uri) \/ Forget(c.uri))
            BY <1>3, <1>h, <2>2 DEF WatchedFile, IsOpenBuffer
        <3>2. PICK v : v = c.uri
            OBVIOUS
        <3> HIDE DEF c
        <3>3. CASE UNCHANGED on_save_or_open_errors
            BY <1>k, <2>0, <3>3
        <3>4. CASE v \notin open_docs /\ Forget(v)
            BY <2>0, <1>d, <3>4 DEF Forget, ErrorsKept
        <3>5. QED
            BY <3>1, <3>2, <3>3, <3>4 DEF reindex_from_disk
    <2>3. QED
        BY <2>1, <2>2
<1>4. CASE PublishEach(s)
    <2>1. UNCHANGED <<doc_map, ast_map, open_docs, config, globals_cache>>
        BY <1>4 DEF PublishEach, configVars
    <2>2. CASE h.todo = {}
        BY <1>4, <1>h, <1>k, <2>2 DEF PublishEach
    <2>3. CASE h.todo # {}
        <3>1. PICK v \in h.todo, b \in BOOLEAN :
                 /\ Continue(s, [h EXCEPT !.todo = @ \ {v}], b)
                 /\ \/ /\ doc_map[v] = None \/ ast_map[v] = NoAst
                       /\ UNCHANGED <<on_save_or_open_errors, published>>
                    \/ /\ doc_map[v] # None /\ ast_map[v] # NoAst
                       /\ Sends(v, ast_map[v], doc_map[v], FALSE)
            BY <1>4, <1>h, <2>1, <2>3 DEF PublishEach, ComputeAndPublish, Sends
        <3>2. handlers'[s].todo = h.todo \ {v}
            <4>1. PICK g : g = [h EXCEPT !.todo = @ \ {v}]
                OBVIOUS
            <4>2. g.pc = "publish_each" /\ g.todo = h.todo \ {v}
                BY <1>0, <1>4, <1>h, <4>1 DEF Handler, PublishEach, At
            <4>3. Continue(s, g, b) /\ g.pc # "done" /\ HandlersInv
                BY <3>1, <4>1, <4>2
            <4>4. handlers'[s] = g
                BY <4>3, GoesOn
            <4>5. QED
                BY <4>2, <4>4
        <3>3. v \in File
            BY <1>0 DEF Handler
        <3>4. CASE v # u
            <4>1. u \notin h.todo \ handlers'[s].todo
                BY <3>2, <3>4
            <4>2. ErrorsKept(u)
                BY <1>k, <2>1, <3>1, <3>3, <3>4, SendsShows
            <4>3. QED
                BY <1>h, <4>1, <4>2
        <3>5. CASE v = u
            <4>1. u \in h.todo \ handlers'[s].todo
                BY <3>2, <3>5
            <4>2. CASE doc_map[u] = None \/ ast_map[u] = NoAst
                BY <1>k, <3>1, <3>5, <4>2
            <4>3. CASE ast_map[u] # NoAst /\ Sends(u, ast_map[u], doc_map[u], FALSE)
                <5>1. Shows(u, ast_map[u], FALSE)
                    BY <2>1, <4>3, SendsShows
                <5>2. QED
                    BY <1>4, <1>h, <2>1, <4>1, <4>3, <5>1
            <4>4. QED
                BY <3>1, <3>5, <4>2, <4>3
        <3>6. QED
            BY <3>4, <3>5
    <2>4. QED
        BY <2>2, <2>3
<1>5. CASE ReloadPublish(s)
    <2>0. ~PublishEach(s)
        BY <1>5 DEF ReloadPublish, PublishEach, At
    <2>1. UNCHANGED <<doc_map, open_docs, config, globals_cache>> /\ h.uri \in File
        BY <1>0, <1>5, <1>h DEF ReloadPublish, configVars, At, HandlerInv
    <2>2. \/ UNCHANGED <<on_save_or_open_errors, published>>
          \/ \E ast : /\ ast_map' = [ast_map EXCEPT ![h.uri] = ast]
                      /\ Sends(h.uri, ast, doc_map[h.uri], FALSE)
        BY <1>5, <1>h, <2>1 DEF ReloadPublish, ComputeAndPublish, Sends
    <2>3. CASE UNCHANGED <<on_save_or_open_errors, published>>
        BY <1>k, <2>0, <2>3
    <2>4. CASE \E ast : /\ ast_map' = [ast_map EXCEPT ![h.uri] = ast]
                        /\ Sends(h.uri, ast, doc_map[h.uri], FALSE)
        <3>1. PICK ast : /\ ast_map' = [ast_map EXCEPT ![h.uri] = ast]
                         /\ Sends(h.uri, ast, doc_map[h.uri], FALSE)
            BY <2>4
        <3>2. ast_map'[h.uri] = ast
            BY <1>d, <2>1, <3>1
        <3>3. Shows(h.uri, ast, FALSE) /\ \A w \in File \ {h.uri} : ErrorsKept(w)
            BY <2>1, <3>1, SendsShows
        <3>4. QED
            BY <1>5, <1>h, <2>0, <2>1, <3>2, <3>3
    <2>5. QED
        BY <2>2, <2>3, <2>4
<1>6. QED
    BY <1>1, <1>2, <1>3, <1>4, <1>5 DEF HandlerStep

-----------------------------------------------------------------------------
(* What is kept and what is shown of a document whose did_open nobody has    *)
(* overtaken                                                                 *)

\* Errors are kept for open documents, and still apply.
StoredOf(u) ==
    u \notin Project => on_save_or_open_errors[u] \subseteq IF u \in open_docs THEN Unused[doc_map[u]] ELSE {}

\* While u is opened its errors are already those its handler will set.
OpeningOf(u) ==
    \A s \in Slot : HoldsAst(s, u) => u \in Project \/ on_save_or_open_errors[u] = Unused[doc_map[u]]

\* What the client should see of u.
Shown(u) ==
    compute_diagnostics(u, doc_map[u], parse_shared(doc_map[u], globals_cache), on_save_or_open_errors[u], config)

\* A handler that will publish u: it owes a refresh, or has u still to do.
Due(h, u) == Owes(h) \/ (h.pc = "publish_each" /\ u \in h.todo)

ShownOf(u) == u \in open_docs => published[u] = Shown(u) \/ \E s \in Slot : Due(handlers[s], u)

ShownInv == \A u \in File \ overtaken : StoredOf(u) /\ OpeningOf(u) /\ ShownOf(u)

\* Only project files are reloaded.
ReloadsProject == \A s \in Slot : handlers[s].pc = "reload_publish" => handlers[s].uri \in Project

LEMMA ReloadsProjectInductive == Spec => []ReloadsProject
<1>1. Init => ReloadsProject
    BY DEF Init, ReloadsProject, Idle
<1>2. ASSUME TypeInv, ReloadsProject, [Next]_vars
      PROVE  ReloadsProject'
    <2>1. ASSUME NEW s \in Slot, ServerStep(s)
          PROVE  ReloadsProject'
        <3>0. HandlerStep(s) /\ ServerType /\ HandlersInv
            BY <1>2, <2>1 DEF ServerStep, TypeInv, ServerType
        <3>1. \A r \in Slot \ {s} : handlers'[r] = handlers[r]
            BY <3>0, OthersStay
        <3>2. ASSUME handlers'[s].pc = "reload_publish"
              PROVE  handlers'[s].uri \in Project
            <4>1. CASE Start(s)
                BY <3>0, <3>2, <4>1, StartsOn DEF Entry
            <4>2. CASE Resume(s)
                BY <1>2, <3>2, <4>2 DEF Resume, ReloadsProject
            <4>3. CASE ~Start(s) /\ ~Resume(s)
                <5>h. PICK h : h = handlers[s]
                    OBVIOUS
                <5>0. h \in Handler
                    BY <3>0, <5>h, AtType
                <5>1. reload_flsproject(s)
                    BY <3>0, <3>2, <4>3, MovesOn
                <5>2. CASE Goto(s, AfterReload(h.msg))
                    <6>1. AfterReload(h.msg) # "reload_publish"
                        BY DEF AfterReload
                    <6>2. PICK pc : pc = AfterReload(h.msg)
                        OBVIOUS
                    <6>3. handlers'[s] = IF pc = "done" THEN Idle ELSE [h EXCEPT !.pc = pc]
                        BY <3>0, <5>2, <5>h, <6>2, Moves
                    <6>4. QED
                        BY <3>2, <5>0, <6>1, <6>2, <6>3 DEF Idle, Handler
                <5>3. CASE \E p \in ProjectFiles, b \in BOOLEAN :
                              Continue(s, [h EXCEPT !.pc = "reload_publish", !.uri = p.uri, !.text = p.text], b)
                    <6>1. PICK p \in ProjectFiles, b \in BOOLEAN :
                              Continue(s, [h EXCEPT !.pc = "reload_publish", !.uri = p.uri, !.text = p.text], b)
                        BY <5>3
                    <6>2. PICK g : g = [h EXCEPT !.pc = "reload_publish", !.uri = p.uri, !.text = p.text]
                        OBVIOUS
                    <6>3. p.uri \in Project
                        BY <3>0 DEF ProjectFiles, ServerType, ConfigType
                    <6>4. g.pc = "reload_publish" /\ g.uri = p.uri /\ Continue(s, g, b)
                        BY <5>0, <6>1, <6>2 DEF Handler
                    <6>5. handlers'[s] = g
                        BY <3>0, <6>4, GoesOn
                    <6>6. QED
                        BY <6>3, <6>4, <6>5
                <5>4. QED
                    BY <5>1, <5>2, <5>3, <5>h DEF reload_flsproject
            <4>4. QED
                BY <4>1, <4>2, <4>3
        <3>3. QED
            BY <1>2, <3>1, <3>2 DEF ReloadsProject
    <2>2. CASE UNCHANGED handlers
        BY <1>2, <2>2 DEF ReloadsProject
    <2>3. QED
        BY <1>2, <2>1, <2>2, ClientLeavesServer DEF Next
<1>3. QED
    BY <1>1, <1>2, TypeInvInductive, PTL DEF Spec

-----------------------------------------------------------------------------
(* Each of the three, step by step *)

\* What a step of the server may count on.
ErrorsGround ==
    /\ ServerType /\ TurnsInv /\ CachesInv /\ SyncInv /\ ReloadsProject

\* The Ast of an open document is of its text, unless somebody holds a newer one.
LEMMA AstIsOfText ==
    ASSUME ErrorsGround, NEW u \in File \ overtaken, u \in open_docs
    PROVE  /\ doc_map[u] # None
           /\ \/ ast_map[u] = parse_shared(doc_map[u], globals_cache) /\ ast_map[u] # NoAst
              \/ \E r \in Slot : HoldsAst(r, u)
<1>1. Held(u) /\ CachesOf(u)
    BY DEF ErrorsGround, SyncInv, SyncOf, CachesInv
<1>2. QED
    BY <1>1 DEF Held, CachesOf, Agree, parse_shared, NoAst

\* The handler that opens u holds its Ast; no other is about u.
LEMMA HoldsWhatItOpens ==
    ASSUME ErrorsGround, NEW u \in File \ overtaken, NEW s \in Slot, Opens(s, u)
    PROVE  HoldsAst(s, u) /\ \A r \in Slot \ {s} : ~HoldsAst(r, u)
<1>1. CachesOf(u) /\ OneAtATime(u)
    BY DEF ErrorsGround, CachesInv, TurnsInv
<1>2. \A r \in Slot : HoldsAst(r, u) => r = s
    BY <1>1 DEF HoldsAst, Opens, OneAtATime, Handles, Begun
<1>3. QED
    BY <1>1, <1>2 DEF CachesOf

\* A step that is not about u, as a notification, leaves an open document's text.
LEMMA TextStays ==
    ASSUME ErrorsGround, NEW s \in Slot, ServerStep(s), NEW u \in File, u \notin overtaken',
           ~(did_open(s) /\ handlers[s].msg.uri = u), ~(did_change(s) /\ handlers[s].msg.uri = u),
           ~(did_close(s) /\ handlers[s].msg.uri = u)
    PROVE  (u \in open_docs' <=> u \in open_docs) /\ (u \in open_docs => doc_map'[u] = doc_map[u])
<1>1. HandlerStep(s) /\ u \notin overtaken /\ Held(u) /\ ServerType /\ TurnsInv /\ CachesInv
    BY DEF ServerStep, ErrorsGround, SyncInv, SyncOf
<1>2. ~Handles(s, u, Notices) \/ Resume(s)
    <2>1. SUFFICES ASSUME Handles(s, u, Notices), ~Resume(s)
                   PROVE  FALSE
        OBVIOUS
    <2>2. Handles(s, u, DocumentOps) /\ handlers[s].pc \in Notices
        BY <2>1 DEF Handles, Notices, DocumentOps
    <2>3. did_open(s) \/ did_change(s) \/ did_close(s)
        BY <1>1, <2>1, <2>2, BegunGoesOn DEF Notices
    <2>4. QED
        BY <2>1, <2>3 DEF Handles
<1>3. Served(u)' = Served(u) /\ Held(u)' /\ (u \in open_docs' <=> u \in open_docs)
    BY <1>1, <1>2, ServedStays
<1>4. QED
    BY <1>3 DEF Served

\* A notification about u that is not a did_open finds it open, and a did_change
\* or did_save finds its text.
LEMMA NoticeFinds ==
    ASSUME ErrorsGround, NEW s \in Slot, NEW u \in File \ overtaken, handlers[s].msg.uri = u,
           did_change(s) \/ did_save(s)
    PROVE  u \in open_docs /\ doc_map[u] # None /\ Handles(s, u, DocumentOps)
<1>m. PICK m : m = handlers[s].msg
    OBVIOUS
<1>1. Handles(s, u, DocumentOps)
    BY DEF did_change, did_save, At, Handles, DocumentOps
<1>2. m \in Message /\ m.op \in {"did_change", "did_save"} /\ About(m, u)
    BY <1>1, <1>m, BegunMessage DEF ErrorsGround, did_change, did_save, At
<1>3. OneAtATime(u) /\ SyncOf(u)
    BY DEF ErrorsGround, SyncInv, TurnsInv
<1>4. Meets(Served(u), m, u)
    BY <1>1, <1>3, <1>m, BegunMeets DEF SyncOf
<1>5. m.op = "did_change" => m.base \in Text
    BY <1>2, MessageFields
<1>6. Served(u) # None
    BY <1>2, <1>4, <1>5 DEF Meets
<1>7. QED
    BY <1>1, <1>6 DEF Served

\* A did_save runs on the Ast of the saved text.
LEMMA SavesItsAst ==
    ASSUME ErrorsGround, NEW s \in Slot, did_save(s), NEW u \in File \ overtaken, handlers[s].msg.uri = u
    PROVE  /\ u \in open_docs /\ ast_map[u] = parse_shared(doc_map[u], globals_cache)
           /\ \A r \in Slot : ~HoldsAst(r, u)
<1>1. u \in open_docs /\ Handles(s, u, DocumentOps)
    BY NoticeFinds
<1>2. OneAtATime(u)
    BY DEF ErrorsGround, TurnsInv
<1>3. handlers[s].pc = "did_save"
    BY DEF did_save, At
<1>4. \A r \in Slot : ~HoldsAst(r, u)
    BY <1>1, <1>2, <1>3 DEF OneAtATime, HoldsAst, Opens, Handles, Begun
<1>5. QED
    BY <1>1, <1>4, AstIsOfText

\* What is kept of a document's errors when they are computed.
LEMMA ShowsKeeps ==
    ASSUME NEW u, u \notin Project, NEW ast
    PROVE  /\ Shows(u, ast, TRUE) => on_save_or_open_errors'[u] = Unused[ast.text]
           /\ Shows(u, ast, FALSE) =>
                 on_save_or_open_errors'[u] = on_save_or_open_errors[u] \cap Unused[ast.text]
BY DEF Shows, StoredErrors, is_flsproject

\* The errors that are kept still apply.
LEMMA StoredStep ==
    ASSUME ErrorsGround, NEW s \in Slot, ServerStep(s), NEW u \in File, u \notin overtaken', StoredOf(u)
    PROVE  StoredOf(u)'
<1> SUFFICES ASSUME u \notin Project
             PROVE  on_save_or_open_errors'[u] \subseteq IF u \in open_docs' THEN Unused[doc_map'[u]] ELSE {}
    BY DEF StoredOf
<1>e. PICK old : old = on_save_or_open_errors[u]
    OBVIOUS
<1>0. HandlerStep(s) /\ u \notin overtaken /\ ServerType
      /\ old \subseteq (IF u \in open_docs THEN Unused[doc_map[u]] ELSE {})
    BY <1>e DEF ServerStep, ErrorsGround, StoredOf
<1>1. CASE did_open(s) /\ handlers[s].msg.uri = u
    <2>1. on_save_or_open_errors'[u] = Unused[doc_map'[u]]
        <3>1. PICK ast : ast = parse_shared(doc_map'[u], globals_cache)
            OBVIOUS
        <3>2. Shows(u, ast, TRUE)
            BY <1>0, <1>1, <3>1, DocumentErrors
        <3>3. ast.text = doc_map'[u]
            BY <3>1 DEF parse_shared
        <3>4. on_save_or_open_errors'[u] = Unused[ast.text]
            BY <3>2, ShowsKeeps, Zenon
        <3>5. QED
            BY <3>3, <3>4
    <2>2. u \in open_docs'
        BY <1>1 DEF did_open
    <2>3. QED
        BY <2>1, <2>2
<1>2. CASE did_change(s) /\ handlers[s].msg.uri = u
    <2>1. u \in open_docs /\ doc_map[u] # None
        BY <1>0, <1>2, NoticeFinds
    <2>2. on_save_or_open_errors'[u] = old \cap Unused[doc_map'[u]]
        <3>1. PICK ast : ast = parse_shared(doc_map'[u], globals_cache)
            OBVIOUS
        <3>2. Shows(u, ast, FALSE)
            BY <1>0, <1>2, <2>1, <3>1, DocumentErrors
        <3>3. ast.text = doc_map'[u]
            BY <3>1 DEF parse_shared
        <3>4. QED
            BY <1>e, <3>2, <3>3, ShowsKeeps
    <2>3. u \in open_docs'
        BY <1>2, <2>1 DEF did_change, docVars
    <2>4. QED
        BY <2>2, <2>3
<1>3. CASE did_close(s) /\ handlers[s].msg.uri = u
    BY <1>0, <1>3, DocumentErrors
<1>4. CASE did_save(s) /\ handlers[s].msg.uri = u
    <2>1. u \in open_docs /\ ast_map[u] = parse_shared(doc_map[u], globals_cache)
        BY <1>0, <1>4, SavesItsAst
    <2>2. UNCHANGED <<doc_map, open_docs>> /\ (ErrorsKept(u) \/ Shows(u, ast_map[u], TRUE))
        BY <1>0, <1>4, DocumentErrors
    <2>3. on_save_or_open_errors'[u] \in {old, Unused[doc_map[u]]}
        <3>1. ast_map[u].text = doc_map[u]
            BY <2>1 DEF parse_shared
        <3>2. ASSUME Shows(u, ast_map[u], TRUE)
              PROVE  on_save_or_open_errors'[u] = Unused[doc_map[u]]
            <4>1. on_save_or_open_errors'[u] = Unused[ast_map[u].text]
                BY <3>2, ShowsKeeps, Zenon
            <4>2. QED
                BY <3>1, <4>1
        <3>3. QED
            BY <1>e, <2>2, <3>2 DEF ErrorsKept
    <2>4. QED
        BY <1>0, <2>1, <2>2, <2>3
<1>5. CASE did_open_cache(s) /\ handlers[s].msg.uri = u
    <2>1. Opens(s, u)
        BY <1>5 DEF did_open_cache, At, Opens, Handles
    <2>2. HoldsAst(s, u)
        BY <1>0, <2>1, HoldsWhatItOpens
    <2>3. on_save_or_open_errors'[u] = Unused[doc_map[u]] /\ UNCHANGED <<doc_map, open_docs>>
        <3>1. handlers[s].ast.text = doc_map[u]
            BY <2>2 DEF HoldsAst, parse_shared
        <3>2. on_save_or_open_errors'[u] = Unused[handlers[s].ast.text] /\ UNCHANGED <<doc_map, open_docs>>
            BY <1>0, <1>5, DocumentErrors
        <3>3. QED
            BY <3>1, <3>2
    <2>4. QED
        BY <2>2, <2>3 DEF HoldsAst
<1>6. CASE handlers[s].msg.uri # u
           \/ ~(did_open(s) \/ did_change(s) \/ did_close(s) \/ did_save(s) \/ did_open_cache(s))
    <2>1. (u \in open_docs' <=> u \in open_docs) /\ (u \in open_docs => doc_map'[u] = doc_map[u])
        BY <1>6, TextStays
    <2>2. on_save_or_open_errors'[u] \subseteq old
        <3>1. ASSUME NEW ast, Shows(u, ast, FALSE)
              PROVE  on_save_or_open_errors'[u] \subseteq old
            BY <1>e, <3>1, ShowsKeeps
        <3>2. \/ ErrorsKept(u)
              \/ on_save_or_open_errors'[u] = {}
              \/ Shows(u, ast_map[u], FALSE)
              \/ Shows(u, ast_map'[u], FALSE)
            BY <1>0, <1>6, OtherErrors
        <3>3. QED
            BY <1>e, <3>1, <3>2 DEF ErrorsKept
    <2>3. QED
        BY <1>0, <2>1, <2>2
<1>7. QED
    BY <1>1, <1>2, <1>3, <1>4, <1>5, <1>6

\* An opening document has the errors its handler will set.
LEMMA OpeningStep ==
    ASSUME ErrorsGround, NEW s \in Slot, ServerStep(s), NEW u \in File, u \notin overtaken', OpeningOf(u)
    PROVE  OpeningOf(u)'
<1> SUFFICES ASSUME NEW r \in Slot, HoldsAst(r, u)', u \notin Project
             PROVE  on_save_or_open_errors'[u] = Unused[doc_map'[u]]
    BY DEF OpeningOf
<1>0. HandlerStep(s) /\ u \notin overtaken /\ ServerType /\ TurnsInv /\ HandlersInv
    BY DEF ServerStep, ErrorsGround, ServerType
<1>1. handlers'[r].pc = "did_open_cache" /\ handlers'[r].msg.uri = u
    BY DEF HoldsAst, Opens, Handles
<1>2. CASE r # s
    <2>1. handlers'[r] = handlers[r]
        BY <1>0, <1>2, OthersStay
    <2>2. HoldsAst(r, u)
        BY <1>0, <1>1, <2>1, HoldsWhatItOpens DEF Opens, Handles
    <2>3. /\ Kept(u) /\ ~Handles(s, u, Begun)
          /\ PublishEach(s) => u \notin handlers[s].todo \ handlers'[s].todo
        BY <1>0, <1>2, <2>2, OthersSpareOpening
    <2>4. handlers[s].msg.uri # u
          \/ ~(did_open(s) \/ did_change(s) \/ did_close(s) \/ did_save(s) \/ did_open_cache(s))
        BY <2>3 DEF did_open, did_change, did_close, did_save, did_open_cache, At, Handles, Begun, DocumentOps
    <2>5. ~(ReloadPublish(s) /\ handlers[s].uri = u)
        BY DEF ReloadPublish, At, ErrorsGround, ReloadsProject
    <2>6. u \in open_docs
        BY <2>2 DEF HoldsAst
    <2>7. ErrorsKept(u)
        BY <1>0, <2>3, <2>4, <2>5, <2>6, OtherErrors
    <2>8. on_save_or_open_errors[u] = Unused[doc_map[u]]
        BY <2>2 DEF OpeningOf
    <2>9. QED
        BY <2>3, <2>7, <2>8 DEF Kept, ErrorsKept
<1>3. CASE r = s
    <2>1. CASE Start(s)
        BY <1>0, <1>1, <1>3, <2>1, StartsOn DEF Entry
    <2>2. CASE Resume(s)
        <3>1. HoldsAst(s, u)
            BY <1>0, <1>1, <1>3, <2>2, HoldsWhatItOpens DEF Resume, Opens, Handles
        <3>2. QED
            BY <2>2, <3>1 DEF OpeningOf, Resume, docVars
    <2>3. CASE ~Start(s) /\ ~Resume(s)
        <3>1. did_open(s)
            BY <1>0, <1>1, <1>3, <2>3, MovesOn
        <3>2. handlers[s].msg.uri = u
            BY <1>0, <1>1, <1>3, <3>1, OpeningKeepsMessage
        <3>3. PICK ast : ast = parse_shared(doc_map'[u], globals_cache)
            OBVIOUS
        <3>4. Shows(u, ast, TRUE)
            BY <1>0, <3>1, <3>2, <3>3, DocumentErrors
        <3>5. on_save_or_open_errors'[u] = Unused[ast.text]
            BY <3>4, ShowsKeeps, Zenon
        <3>6. QED
            BY <3>3, <3>5 DEF parse_shared
    <2>4. QED
        BY <2>1, <2>2, <2>3
<1>4. QED
    BY <1>2, <1>3

\* A refresh with files left to publish goes on with them.
LEMMA EachGoesOn ==
    ASSUME ServerType, NEW s \in Slot, HandlerStep(s), handlers[s].pc = "publish_each", handlers[s].todo # {}
    PROVE  UNCHANGED handlers \/ (PublishEach(s) /\ handlers'[s].pc = "publish_each")
<1>1. PublishEach(s) \/ Resume(s)
    <2>1. handlers[s].pc # "done" /\ handlers[s].pc # "await_register" /\ handlers[s].pc # "await_pull"
        OBVIOUS
    <2>2. ~Start(s)
        BY <2>1 DEF Start, Idle
    <2>3. QED
        BY <2>1, <2>2 DEF HandlerStep, register_file_watchers, Registered, initialized_index,
           pull_configuration, apply_pulled_configuration, refresh_ast_globals_and_diagnostics,
           reload_flsproject, ReloadPublish, did_open, did_open_cache, did_change, did_save, did_close,
           did_change_watched_files, WatchedFile, did_change_workspace_folders, did_change_configuration,
           add_global, lookup, At
<1>h. PICK h : h = handlers[s]
    OBVIOUS
<1>0. h \in Handler /\ HandlersInv
    BY <1>h, AtType DEF ServerType
<1>2. CASE PublishEach(s)
    <2>1. PICK v \in h.todo, b \in BOOLEAN : Continue(s, [h EXCEPT !.todo = @ \ {v}], b)
        BY <1>2, <1>h DEF PublishEach, ComputeAndPublish
    <2>2. PICK g : g = [h EXCEPT !.todo = @ \ {v}]
        OBVIOUS
    <2>3. g.pc = "publish_each" /\ Continue(s, g, b)
        BY <1>0, <1>h, <2>1, <2>2 DEF Handler
    <2>4. handlers'[s] = g
        BY <1>0, <2>3, GoesOn
    <2>5. QED
        BY <1>2, <2>3, <2>4
<1>3. QED
    BY <1>1, <1>2 DEF Resume

\* What is computed from a document's own text and the globals in force is what
\* the client should see of it.
LEMMA ShowsShown ==
    ASSUME NEW u, NEW ast, NEW b, Shows(u, ast, b), ast = parse_shared(doc_map'[u], globals_cache)
    PROVE  published'[u] = Shown(u)'
BY DEF Shows, Shown, parse_shared, compute_diagnostics, is_lint_enabled, Errors

\* Nothing of it has changed.
LEMMA StaysShown ==
    ASSUME NEW u, published[u] = Shown(u), published'[u] = published[u], doc_map'[u] = doc_map[u],
           UNCHANGED <<config, globals_cache>>,
           u \in Project \/ on_save_or_open_errors'[u] = on_save_or_open_errors[u]
    PROVE  published'[u] = Shown(u)'
BY DEF Shown, parse_shared, compute_diagnostics, is_lint_enabled, Errors, is_flsproject

\* A step shows an open document as it should be, or somebody will.
LEMMA ShownStep ==
    ASSUME ErrorsGround, NEW s \in Slot, ServerStep(s), NEW u \in File, u \notin overtaken',
           OpeningOf(u), ShownOf(u)
    PROVE  ShownOf(u)'
<1> SUFFICES ASSUME u \in open_docs', \A r \in Slot : ~Due(handlers'[r], u)
             PROVE  published'[u] = Shown(u)'
    BY DEF ShownOf, Due, Owes, AfterReload
<1>0. HandlerStep(s) /\ u \notin overtaken /\ ServerType /\ TurnsInv /\ HandlersInv
    BY DEF ServerStep, ErrorsGround, ServerType
<1>1. \A r \in Slot \ {s} : ~Due(handlers[r], u)
    BY <1>0, OthersStay
<1>2. ASSUME refresh_ast_globals_and_diagnostics(s)
      PROVE  FALSE
    <2>h. PICK h : h = handlers[s]
        OBVIOUS
    <2>0. h \in Handler
        BY <1>0, <2>h, AtType
    <2>1. u \in open_docs /\ h.pc \in {"refresh", "refresh_again"}
        BY <1>2, <2>h DEF refresh_ast_globals_and_diagnostics, At
    <2>2. ~ \E r \in Slot : HoldsAst(r, u)
        BY <1>0, <1>2, <2>1, <2>h, OthersSpareOpening DEF HoldsAst, Opens, Handles
    <2>3. u \in updated
        BY <1>0, <2>1, <2>2, AstIsOfText DEF updated
    <2>4. PICK ret : Continue(s, [h EXCEPT !.pc = "publish_each", !.ret = ret, !.todo = updated], FALSE)
        BY <1>2, <2>h DEF refresh_ast_globals_and_diagnostics
    <2>5. PICK g : g = [h EXCEPT !.pc = "publish_each", !.ret = ret, !.todo = updated]
        OBVIOUS
    <2>6. g.pc = "publish_each" /\ g.todo = updated /\ Continue(s, g, FALSE)
        BY <2>0, <2>4, <2>5 DEF Handler
    <2>7. handlers'[s] = g
        BY <1>0, <2>6, GoesOn
    <2>8. QED
        BY <2>3, <2>6, <2>7 DEF Due
<1>3. ~Owes(handlers[s]) /\ UNCHANGED <<config, globals_cache>>
    BY <1>0, <1>2, OwesStep DEF Due
<1>4. CASE Due(handlers[s], u)
    <2>1. handlers[s].pc = "publish_each" /\ u \in handlers[s].todo
        BY <1>3, <1>4 DEF Due
    <2>2. PublishEach(s) /\ u \in handlers[s].todo \ handlers'[s].todo
        BY <1>0, <1>4, <2>1, EachGoesOn DEF Due
    <2>3. u \in open_docs
        BY <2>2 DEF PublishEach
    <2>4. ~ \E r \in Slot : HoldsAst(r, u)
        BY <1>0, <2>1, <2>2, OthersSpareOpening DEF HoldsAst, Opens, Handles
    <2>5. /\ ast_map[u] = parse_shared(doc_map[u], globals_cache) /\ ast_map[u] # NoAst
          /\ doc_map[u] # None
        BY <1>0, <2>3, <2>4, AstIsOfText
    <2>6. ~ReloadPublish(s) /\ ~did_open(s) /\ ~did_change(s) /\ ~did_close(s) /\ ~did_save(s) /\ ~did_open_cache(s)
        BY <2>1 DEF ReloadPublish, did_open, did_change, did_close, did_save, did_open_cache, At
    <2>7. UNCHANGED <<doc_map, ast_map, open_docs>> /\ Shows(u, ast_map[u], FALSE)
        BY <1>0, <2>2, <2>3, <2>5, <2>6, OtherErrors
    <2>8. QED
        BY <2>5, <2>7, ShowsShown
<1>5. CASE ~Due(handlers[s], u)
    <2>0. u \in open_docs => published[u] = Shown(u)
        BY <1>1, <1>5 DEF ShownOf
    <2>1. CASE did_open(s) /\ handlers[s].msg.uri = u
        <3>1. PICK ast : ast = parse_shared(doc_map'[u], globals_cache)
            OBVIOUS
        <3>2. Shows(u, ast, TRUE)
            BY <1>0, <2>1, <3>1, DocumentErrors
        <3>3. QED
            BY <3>1, <3>2, ShowsShown, Zenon
    <2>2. CASE did_change(s) /\ handlers[s].msg.uri = u
        <3>1. PICK ast : ast = parse_shared(doc_map'[u], globals_cache)
            OBVIOUS
        <3>2. doc_map[u] # None
            BY <1>0, <2>2, NoticeFinds
        <3>3. Shows(u, ast, FALSE)
            BY <1>0, <2>2, <3>1, <3>2, DocumentErrors
        <3>4. QED
            BY <3>1, <3>3, ShowsShown, Zenon
    <2>3. CASE did_close(s) /\ handlers[s].msg.uri = u
        BY <2>3 DEF did_close
    <2>4. CASE did_save(s) /\ handlers[s].msg.uri = u
        <3>1. u \in open_docs /\ ast_map[u] = parse_shared(doc_map[u], globals_cache)
            BY <1>0, <2>4, SavesItsAst
        <3>2. UNCHANGED doc_map /\ (ErrorsKept(u) \/ Shows(u, ast_map[u], TRUE))
            BY <1>0, <2>4, DocumentErrors
        <3>3. CASE ErrorsKept(u)
            BY <1>3, <2>0, <3>1, <3>2, <3>3, StaysShown DEF ErrorsKept
        <3>4. CASE Shows(u, ast_map[u], TRUE)
            <4>1. PICK ast : ast = ast_map[u]
                OBVIOUS
            <4>2. ast = parse_shared(doc_map'[u], globals_cache) /\ Shows(u, ast, TRUE)
                BY <3>1, <3>2, <3>4, <4>1
            <4>3. QED
                BY <4>2, ShowsShown, Zenon
        <3>5. QED
            BY <3>2, <3>3, <3>4
    <2>5. CASE did_open_cache(s) /\ handlers[s].msg.uri = u
        <3>1. Opens(s, u)
            BY <2>5 DEF did_open_cache, At, Opens, Handles
        <3>2. HoldsAst(s, u)
            BY <1>0, <3>1, HoldsWhatItOpens
        <3>3. /\ on_save_or_open_errors'[u] = Unused[handlers[s].ast.text]
              /\ published'[u] = published[u] /\ UNCHANGED doc_map
            BY <1>0, <2>5, DocumentErrors
        <3>4. handlers[s].ast.text = doc_map[u] /\ u \in open_docs
            BY <3>2 DEF HoldsAst, parse_shared
        <3>5. u \in Project \/ on_save_or_open_errors'[u] = on_save_or_open_errors[u]
            BY <3>2, <3>3, <3>4 DEF OpeningOf
        <3>6. QED
            BY <1>3, <2>0, <3>3, <3>4, <3>5, StaysShown
    <2>6. CASE handlers[s].msg.uri # u
               \/ ~(did_open(s) \/ did_change(s) \/ did_close(s) \/ did_save(s) \/ did_open_cache(s))
        <3>1. u \in open_docs /\ doc_map'[u] = doc_map[u]
            BY <2>6, TextStays
        <3>2. ~(ReloadPublish(s) /\ handlers[s].uri = u)
            BY <1>3 DEF ReloadPublish, At, Owes
        <3>3. ~(PublishEach(s) /\ u \in handlers[s].todo \ handlers'[s].todo)
            BY <1>5 DEF PublishEach, At, Due
        <3>4. ErrorsKept(u)
            BY <1>0, <2>6, <3>1, <3>2, <3>3, OtherErrors
        <3>5. QED
            BY <1>3, <2>0, <3>1, <3>4, StaysShown DEF ErrorsKept
    <2>7. QED
        BY <2>1, <2>2, <2>3, <2>4, <2>5, <2>6
<1>6. QED
    BY <1>4, <1>5

\* All three hold throughout.
LEMMA ShownInvInductive == Spec => []ShownInv
<1>1. Init => ShownInv
    BY DEF Init, ShownInv, StoredOf, OpeningOf, ShownOf, HoldsAst, Opens, Handles, Idle
<1>2. ASSUME TypeInv, TurnsInv, CachesInv, SyncInv, ReloadsProject, ShownInv, [Next]_vars
      PROVE  ShownInv'
    <2>1. ASSUME NEW s \in Slot, ServerStep(s)
          PROVE  ShownInv'
        <3>1. ErrorsGround
            BY <1>2 DEF ErrorsGround, TypeInv
        <3>2. ASSUME NEW u \in File, u \notin overtaken'
              PROVE  StoredOf(u)' /\ OpeningOf(u)' /\ ShownOf(u)'
            <4>1. StoredOf(u) /\ OpeningOf(u) /\ ShownOf(u)
                BY <1>2, <2>1, <3>2 DEF ShownInv, ServerStep
            <4>2. StoredOf(u)' /\ OpeningOf(u)'
                BY <2>1, <3>1, <3>2, <4>1, StoredStep, OpeningStep
            <4>3. ShownOf(u)'
                BY <2>1, <3>1, <3>2, <4>1, ShownStep
            <4>4. QED
                BY <4>2, <4>3
        <3>3. QED
            BY <3>2 DEF ShownInv
    <2>2. CASE (\E s \in Slot : Answer(s)) \/ ReportChanges \/ User \/ UNCHANGED vars
        <3>1. UNCHANGED <<handlers, published, doc_map, ast_map, open_docs, on_save_or_open_errors, config,
                          globals_cache, overtaken>>
            BY <2>2, ClientLeavesServer
        <3>2. QED
            BY <1>2, <3>1 DEF ShownInv, StoredOf, OpeningOf, ShownOf, HoldsAst, Opens, Handles, Due, Owes,
               AfterReload, Shown, parse_shared, compute_diagnostics, is_lint_enabled, Errors
    <2>3. QED
        BY <1>2, <2>1, <2>2 DEF Next
<1>3. QED
    BY <1>1, <1>2, TypeInvInductive, TurnsInvInductive, CachesInvInductive, SyncInvInductive,
       ReloadsProjectInductive, PTL DEF Spec

\* StoredErrorsApply: however handlers interleave at their sends and answers, the
\* errors kept since a document was last opened or saved never outlive the code
\* they are about, and are kept for open documents only, unless the document's
\* did_open was overtaken.
THEOREM StoredErrorsStayApplicable == Spec => []StoredErrorsApply
<1>1. ShownInv => StoredErrorsApply
    BY DEF ShownInv, StoredOf, StoredErrorsApply
<1>2. QED
    BY <1>1, ShownInvInductive, PTL

\* DiagnosticsAreCurrent: at every await, what the client was last sent for an open
\* document is what its text, the globals and the settings call for, or a refresh
\* that has begun will send it; publishes of other handlers change nothing of it.
THEOREM DiagnosticsStayCurrent == Spec => []DiagnosticsAreCurrent
<1>1. ASSUME TypeInv, GlobalsInv, CachesInv, SyncInv, ShownInv
      PROVE  DiagnosticsAreCurrent
    <2> SUFFICES ASSUME Settled, NEW u \in open_docs \ overtaken, ~BeingOpened(u),
                        \A s \in Slot : ~WillPublish(s, u)
                 PROVE  published[u] = compute_diagnostics(u, doc_map[u], ast_map[u],
                                                           on_save_or_open_errors[u], config)
        BY DEF DiagnosticsAreCurrent
    <2>0. u \in File
        BY <1>1 DEF TypeInv, ServerType, DocType
    <2>1. \A s \in Slot : ~Due(handlers[s], u)
        BY <1>1 DEF GlobalsInv, Settled, WillPublish, WillRecompute, Due, Owes
    <2>2. published[u] = Shown(u)
        BY <1>1, <2>0, <2>1 DEF ShownInv, ShownOf
    <2>3. ast_map[u] = parse_shared(doc_map[u], globals_cache)
        BY <1>1, <2>0 DEF CachesInv, CachesOf, BeingOpened, HoldsAst, Opens, Agree, SyncInv, SyncOf, Held
    <2>4. QED
        BY <2>2, <2>3 DEF Shown
<1>2. QED
    BY <1>1, TypeInvInductive, GlobalsInvInductive, CachesInvInductive, SyncInvInductive,
       ShownInvInductive, PTL

-----------------------------------------------------------------------------
(* The disk: a cached file that is not open is as on disk, or a change of it *)
(* is on its way to the server.                                              *)

\* Changes c mention u.
Reported(c, u) == \E i \in DOMAIN c : c[i].uri = u

\* The changes that the handler h has still to go through.
ChangesOf(h) ==
    IF h.pc = "did_change_watched_files" THEN h.msg.changes
    ELSE IF h.pc = "watched_file" THEN h.left ELSE <<>>

\* A change of u waits at the client, in a message or in a handler.
OnItsWay(u) ==
    \/ Reported(changes, u)
    \/ \E i \in DOMAIN inbox : inbox[i].op = "did_change_watched_files" /\ Reported(inbox[i].changes, u)
    \/ \E s \in Slot : Reported(ChangesOf(handlers[s]), u)

IndexInv ==
    \A u \in File \ (open_docs \cup unwatched \cup overtaken) : doc_map[u] \in {None, disk[u]} \/ OnItsWay(u)

-----------------------------------------------------------------------------
\* Reading from disk leaves a file as it was, forgets it, or has what is there.
LEMMA IndexReads ==
    ASSUME DocType, \/ \E folders : IndexFolders(folders)
                    \/ \E v \in File : Forget(v) \/ reindex_from_disk(v)
    PROVE  \A u \in File : doc_map'[u] \in {None, disk[u], doc_map[u]}
BY DEF DocType, IndexFolders, Forget, reindex_from_disk

\* Whatever a handler does, a file that is not open afterwards is as on disk, or
\* as it was and was not open before.
LEMMA ClosedAreRead ==
    ASSUME ErrorsGround, NEW s \in Slot, HandlerStep(s), NEW u \in File \ overtaken, u \notin open_docs'
    PROVE  \/ doc_map'[u] \in {None, disk[u]}
           \/ u \notin open_docs /\ doc_map'[u] = doc_map[u]
<1> USE DEF ServerType, ErrorsGround
<1>m. PICK m : m = handlers[s].msg
    OBVIOUS
<1>1. did_open(s) \/ did_change(s) \/ did_close(s) \/ lookup(s) => m.uri \in File
    <2>1. did_open(s) \/ did_change(s) \/ did_close(s) \/ lookup(s) =>
              /\ m \in Message
              /\ m.op \in {"did_open", "did_change", "did_close", "lookup"}
        BY AtType, <1>m DEF did_open, did_change, did_close, lookup, At, HandlerInv, Entry
    <2>2. QED
        BY <2>1, MessageFields
<1>2. CASE did_open(s)
    BY <1>m, <1>1, <1>2 DEF did_open, DocType
<1>3. CASE did_change(s)
    <2>1. m.uri # u /\ open_docs' = open_docs
        BY <1>m, <1>3, NoticeFinds DEF did_change, docVars
    <2>2. doc_map' = doc_map \/ \E t : doc_map' = [doc_map EXCEPT ![m.uri] = t]
        BY <1>m, <1>3 DEF did_change, docVars
    <2>3. QED
        BY <2>1, <2>2 DEF DocType
<1>4. CASE did_close(s)
    BY <1>m, <1>1, <1>4 DEF did_close, Forget, DocType
<1>5. CASE lookup(s)
    <2> DEFINE reads == ast_map[m.uri] = NoAst /\ disk[m.uri] # None
    <2>1. /\ doc_map' = [doc_map EXCEPT ![m.uri] = IF reads THEN disk[m.uri] ELSE @]
          /\ open_docs' = open_docs
        BY <1>m, <1>5 DEF lookup
    <2> HIDE DEF reads
    <2>2. QED
        BY <1>1, <1>5, <2>1 DEF DocType
<1>6. CASE WatchedFile(s)
    <2> DEFINE h == handlers[s]
               c == Head(h.left)
    <2>1. h.left \in Seq(FileChange)
        BY DEF HandlersInv, Handler
    <2>2. h.left # <<>> => c.uri \in File
        <3>1. h.left # <<>> => c \in FileChange
            BY <2>1
        <3>2. QED
            BY <3>1 DEF FileChange
    <2>3. /\ open_docs' = open_docs
          /\ \/ doc_map' = doc_map
             \/ c.uri \in File /\ (Forget(c.uri) \/ reindex_from_disk(c.uri))
        BY <1>6, <2>2 DEF WatchedFile, docVars
    <2> HIDE DEF c
    <2>4. QED
        BY <2>3, IndexReads
<1>7. CASE ~(did_open(s) \/ did_change(s) \/ did_close(s) \/ lookup(s) \/ WatchedFile(s))
    <2>1. CASE \/ initialized_index(s) \/ apply_pulled_configuration(s)
               \/ did_change_workspace_folders(s) \/ did_change_configuration(s)
        <3>1. UNCHANGED <<doc_map, open_docs>> \/ \E folders : IndexFolders(folders)
            BY <2>1 DEF initialized_index, apply_pulled_configuration, did_change_workspace_folders,
               did_change_configuration, docVars
        <3>2. QED
            BY <3>1, IndexReads DEF IndexFolders
    <2>2. CASE ~(\/ initialized_index(s) \/ apply_pulled_configuration(s)
                 \/ did_change_workspace_folders(s) \/ did_change_configuration(s))
        <3>1. UNCHANGED <<doc_map, open_docs>>
            BY <1>7, <2>2 DEF HandlerStep, Start, Resume, register_file_watchers, Registered,
               pull_configuration, refresh_ast_globals_and_diagnostics, PublishEach, reload_flsproject,
               ReloadPublish, did_open_cache, did_save, did_change_watched_files, add_global, docVars
        <3>2. QED
            BY <3>1
    <2>3. QED
        BY <2>1, <2>2
<1>8. QED
    BY <1>2, <1>3, <1>4, <1>5, <1>6, <1>7

\* A change on its way stays there until its handler has gone through it.
LEMMA ChangesStay ==
    ASSUME ServerType, NEW s \in Slot, HandlerStep(s), ~WatchedFile(s), NEW u \in File, OnItsWay(u)
    PROVE  OnItsWay(u)'
<1> USE DEF ServerType
<1> DEFINE h == handlers[s]
<1>0. /\ HandlerInv(h) /\ Locals(h) /\ h \in Handler
      /\ \A r \in Slot \ {s} : handlers'[r] = handlers[r]
    BY AtType, OthersStay
<1>c. changes' = changes
    BY DEF clientVars, HandlerStep, Start, Resume, register_file_watchers, Registered,
       initialized_index, pull_configuration, apply_pulled_configuration,
       refresh_ast_globals_and_diagnostics, PublishEach, reload_flsproject, ReloadPublish, did_open,
       did_open_cache, did_change, did_save, did_close, did_change_watched_files,
       did_change_workspace_folders, did_change_configuration, add_global, lookup
<1>1. CASE Start(s)
    <2>2. handlers'[s].msg = Head(inbox) /\ handlers'[s].pc = Head(inbox).op
        BY <1>1, StartsOn
    <2>5. Reported(ChangesOf(h), u) => FALSE
        BY <1>1 DEF Start, Idle, ChangesOf, Reported
    <2>6. CASE \E i \in DOMAIN inbox : /\ inbox[i].op = "did_change_watched_files"
                                       /\ Reported(inbox[i].changes, u)
        <3>1. PICK i \in DOMAIN inbox : /\ inbox[i].op = "did_change_watched_files"
                                        /\ Reported(inbox[i].changes, u)
            BY <2>6
        <3>2. inbox \in Seq(Message) /\ inbox # <<>> /\ inbox' = Tail(inbox)
            BY <1>1 DEF Start, MailType
        <3>3. CASE i = 1
            BY <2>2, <3>1, <3>2, <3>3 DEF OnItsWay, ChangesOf
        <3>4. CASE i # 1
            <4>1. i - 1 \in DOMAIN inbox' /\ inbox'[i - 1] = inbox[i]
                BY <3>1, <3>2, <3>4
            <4>2. QED
                BY <3>1, <4>1 DEF OnItsWay
        <3>5. QED
            BY <3>3, <3>4
    <2> HIDE DEF h
    <2>7. CASE \E r \in Slot \ {s} : Reported(ChangesOf(handlers[r]), u)
        BY <1>0, <2>7 DEF OnItsWay
    <2>8. QED
        BY <1>c, <2>5, <2>6, <2>7 DEF OnItsWay, h
<1>2. CASE did_change_watched_files(s)
    <2> DEFINE g == [h EXCEPT !.pc = "watched_file", !.left = h.msg.changes]
    <2>1. /\ h.pc = "did_change_watched_files" /\ g.pc = "watched_file" /\ g.left = h.msg.changes
          /\ Continue(s, g, FALSE) /\ inbox' = inbox
        BY <1>0, <1>2 DEF did_change_watched_files, At, Handler
    <2> HIDE DEF g
    <2>2. handlers'[s] = g
        BY <2>1, GoesOn
    <2>3. ChangesOf(h) = h.msg.changes /\ ChangesOf(handlers'[s]) = h.msg.changes
        BY <2>1, <2>2 DEF ChangesOf
    <2>4. QED
        BY <1>0, <1>c, <2>1, <2>3 DEF OnItsWay
<1>3. CASE Resume(s)
    BY <1>c, <1>3 DEF Resume, OnItsWay
<1>4. CASE ~Start(s) /\ ~did_change_watched_files(s) /\ ~Resume(s)
    <2>1. inbox' = inbox
        BY <1>4 DEF HandlerStep, register_file_watchers, Registered, initialized_index,
           pull_configuration, apply_pulled_configuration, refresh_ast_globals_and_diagnostics, PublishEach,
           reload_flsproject, ReloadPublish, did_open, did_open_cache, did_change, did_save, did_close,
           did_change_workspace_folders, did_change_configuration, add_global, lookup
    <2>2. h.pc \notin {"did_change_watched_files", "watched_file"}
        BY <1>4 DEF At, HandlerStep, register_file_watchers, Registered, initialized_index,
           pull_configuration, apply_pulled_configuration, refresh_ast_globals_and_diagnostics, PublishEach,
           reload_flsproject, ReloadPublish, did_open, did_open_cache, did_change, did_save, did_close,
           did_change_workspace_folders, did_change_configuration, add_global, lookup
    <2>3. ~Reported(ChangesOf(h), u)
        BY <2>2 DEF ChangesOf, Reported
    <2> HIDE DEF h
    <2>4. QED
        BY <1>0, <1>c, <2>1, <2>3 DEF OnItsWay, h
<1>5. QED
    BY <1>1, <1>2, <1>3, <1>4

\* A change that is gone through is of an open file, or leaves the file as on disk.
LEMMA WatchedIsRead ==
    ASSUME ServerType, NEW s \in Slot, WatchedFile(s), NEW u \in File \ open_docs, OnItsWay(u)
    PROVE  OnItsWay(u)' \/ doc_map'[u] \in {None, disk[u]}
<1> USE DEF ServerType
<1> DEFINE h == handlers[s]
           c == Head(h.left)
           g == [h EXCEPT !.left = Tail(@)]
<1>0. h \in Handler /\ h.left \in Seq(FileChange) /\ h.pc = "watched_file"
    BY AtType DEF WatchedFile, At, Handler
<1>1. \A r \in Slot \ {s} : handlers'[r] = handlers[r]
    BY OthersStay DEF HandlerStep
<1>2. UNCHANGED <<changes, inbox>>
    BY DEF WatchedFile, clientVars
<1>3. CASE ~Reported(h.left, u)
    <2>1. ~Reported(ChangesOf(h), u)
        BY <1>0, <1>3 DEF ChangesOf
    <2> HIDE DEF h
    <2>2. QED
        BY <1>1, <1>2, <2>1 DEF OnItsWay, h
<1>4. CASE Reported(h.left, u)
    <2>1. PICK i \in DOMAIN h.left : h.left[i].uri = u
        BY <1>4 DEF Reported
    <2>2. h.left # <<>> /\ i \in 1..Len(h.left) /\ c = h.left[1]
        BY <1>0, <2>1
    <2>3. CASE i = 1
        <3>1. c.uri = u
            BY <2>1, <2>2, <2>3
        <3>2. Forget(u) \/ reindex_from_disk(u)
            BY <2>2, <3>1 DEF WatchedFile, IsOpenBuffer
        <3>3. QED
            BY <3>2 DEF Forget, reindex_from_disk, DocType
    <2>4. CASE i # 1
        <3>1. g.pc = "watched_file" /\ g.left = Tail(h.left) /\ Continue(s, g, FALSE)
            BY <1>0, <2>2 DEF WatchedFile, Handler
        <3> HIDE DEF g
        <3>2. handlers'[s] = g
            BY <3>1, GoesOn
        <3>3. i - 1 \in DOMAIN Tail(h.left) /\ Tail(h.left)[i - 1].uri = u
            BY <1>0, <2>1, <2>2, <2>4
        <3>4. Reported(ChangesOf(handlers'[s]), u)
            BY <3>1, <3>2, <3>3 DEF ChangesOf, Reported
        <3>5. QED
            BY <3>4 DEF OnItsWay
    <2>5. QED
        BY <2>3, <2>4
<1>5. QED
    BY <1>3, <1>4

\* What the disk becomes is reported, or nothing watches it.
LEMMA DiskIsWatched ==
    ASSUME ServerType, NEW v \in File, NEW t, DiskBecomes(v, t)
    PROVE  /\ \A u \in File \ {v} : disk'[u] = disk[u]
           /\ unwatched \subseteq unwatched'
           /\ v \in unwatched' \/ Reported(changes', v)
           /\ \A u : Reported(changes, u) => Reported(changes', u)
<1> USE DEF ServerType, ClientType
<1>1. (\A u \in File \ {v} : disk'[u] = disk[u]) /\ unwatched \subseteq unwatched'
    BY DEF DiskBecomes
<1>2. CASE ~watching
    BY <1>1, <1>2 DEF DiskBecomes
<1>3. CASE watching
    <2> DEFINE c == [uri |-> v, deleted |-> t = None]
    <2>1. changes' = Append(changes, c) /\ c.uri = v
        BY <1>3 DEF DiskBecomes
    <2>2. changes \in Seq(FileChange) /\ c \in FileChange
        BY DEF FileChange
    <2> HIDE DEF c
    <2>3. /\ Len(changes) + 1 \in DOMAIN changes' /\ changes'[Len(changes) + 1] = c
          /\ \A i \in DOMAIN changes : i \in DOMAIN changes' /\ changes'[i] = changes[i]
        BY <2>1, <2>2
    <2>4. QED
        BY <1>1, <2>1, <2>3 DEF Reported
<1>4. QED
    BY <1>2, <1>3

\* The client's steps report every change, and lose none.
LEMMA ClientReports ==
    ASSUME ServerType, IndexInv, \/ \E s \in Slot : Answer(s)
                              \/ ReportChanges \/ User \/ UNCHANGED vars
    PROVE  IndexInv'
<1> USE DEF ServerType
<1>1. UNCHANGED <<handlers, doc_map, open_docs, overtaken>>
    BY ClientLeavesServer
<1>t. ASSUME NEW m, Tell(m)
      PROVE  \A i \in DOMAIN inbox : i \in DOMAIN inbox' /\ inbox'[i] = inbox[i]
    BY <1>t DEF Tell, MailType
<1>2. CASE ReportChanges
    <2> DEFINE m == [op |-> "did_change_watched_files", changes |-> changes]
    <2>1. Tell(m) /\ UNCHANGED <<disk, unwatched>>
        BY <1>2 DEF ReportChanges
    <2>2. m.op = "did_change_watched_files" /\ m.changes = changes
        OBVIOUS
    <2> HIDE DEF m
    <2>3. Len(inbox) + 1 \in DOMAIN inbox' /\ inbox'[Len(inbox) + 1] = m
        BY <2>1 DEF Tell, MailType
    <2>4. \A u : OnItsWay(u) => OnItsWay(u)'
        BY <1>1, <1>t, <2>1, <2>2, <2>3 DEF OnItsWay
    <2>5. QED
        BY <1>1, <2>1, <2>4 DEF IndexInv
<1>3. CASE /\ UNCHANGED <<disk, unwatched, changes>>
           /\ UNCHANGED inbox \/ \E m : Tell(m)
    <2>1. \A u : OnItsWay(u) => OnItsWay(u)'
        BY <1>1, <1>3, <1>t DEF OnItsWay
    <2>2. QED
        BY <1>1, <1>3, <2>1 DEF IndexInv
<1>4. ASSUME NEW v \in File, NEW t, DiskBecomes(v, t), UNCHANGED inbox \/ \E m : Tell(m)
      PROVE  IndexInv'
    <2>1. \A u : OnItsWay(u) => OnItsWay(u)'
        BY <1>1, <1>4, <1>t, DiskIsWatched DEF OnItsWay
    <2>2. v \in unwatched' \/ OnItsWay(v)'
        BY <1>4, DiskIsWatched DEF OnItsWay
    <2>3. (\A u \in File \ {v} : disk'[u] = disk[u]) /\ unwatched \subseteq unwatched'
        BY <1>4, DiskIsWatched
    <2>4. QED
        BY <1>1, <2>1, <2>2, <2>3 DEF IndexInv
<1>5. CASE User
    <2>1. ASSUME NEW u \in File, Save(u)
          PROVE  IndexInv'
        BY <1>4, <2>1 DEF Save
    <2>2. ASSUME NEW u \in File, NEW t, ExternalChange(u, t)
          PROVE  IndexInv'
        BY <1>4, <2>2 DEF ExternalChange
    <2>3. QED
        BY <1>3, <1>5, <2>1, <2>2 DEF User, Open, Edit, Close, Lookup, ChangeSettings, AddGlobal,
           ChangeFolders
<1>6. CASE (\E s \in Slot : Answer(s)) \/ UNCHANGED vars
    BY <1>3, <1>6 DEF Answer, vars, clientVars, taskVars
<1>7. QED
    BY <1>2, <1>5, <1>6

\* Every step keeps a change of every stale file on its way.
LEMMA IndexStep ==
    ASSUME ErrorsGround, IndexInv, [Next]_vars
    PROVE  IndexInv'
<1>1. ASSUME NEW s \in Slot, ServerStep(s)
      PROVE  IndexInv'
    <2>0. HandlerStep(s) /\ overtaken \subseteq overtaken' /\ ServerType
        BY <1>1 DEF ServerStep, ErrorsGround
    <2>1. UNCHANGED <<disk, unwatched>>
        BY <2>0 DEF clientVars, HandlerStep, Start, Resume, register_file_watchers, Registered,
           initialized_index, pull_configuration, apply_pulled_configuration,
           refresh_ast_globals_and_diagnostics, PublishEach, reload_flsproject, ReloadPublish, did_open,
           did_open_cache, did_change, did_save, did_close, did_change_watched_files, WatchedFile,
           did_change_workspace_folders, did_change_configuration, add_global, lookup
    <2>2. ASSUME NEW u \in File \ (open_docs' \cup unwatched' \cup overtaken')
          PROVE  doc_map'[u] \in {None, disk'[u]} \/ OnItsWay(u)'
        <3>1. CASE u \notin open_docs /\ doc_map'[u] = doc_map[u]
            <4>1. doc_map[u] \in {None, disk[u]} \/ OnItsWay(u)
                BY <2>0, <2>1, <2>2, <3>1 DEF IndexInv
            <4>2. OnItsWay(u) => OnItsWay(u)' \/ doc_map'[u] \in {None, disk[u]}
                BY <2>0, <3>1, ChangesStay, WatchedIsRead
            <4>3. QED
                BY <2>1, <3>1, <4>1, <4>2
        <3>2. CASE doc_map'[u] \in {None, disk[u]}
            BY <2>1, <3>2
        <3>3. QED
            BY <2>0, <2>2, <3>1, <3>2, ClosedAreRead
    <2>3. QED
        BY <2>2 DEF IndexInv
<1>2. QED
    BY <1>1, ClientReports DEF Next, ErrorsGround

\* It holds in every state the server reaches.
LEMMA IndexInvInductive == Spec => []IndexInv
<1>1. Init => IndexInv
    BY DEF Init, IndexInv
<1>2. TypeInv /\ TurnsInv /\ CachesInv /\ SyncInv /\ ReloadsProject /\ IndexInv /\ [Next]_vars => IndexInv'
    BY IndexStep DEF ErrorsGround, TypeInv
<1>3. QED
    BY <1>1, <1>2, TypeInvInductive, TurnsInvInductive, CachesInvInductive, SyncInvInductive,
       ReloadsProjectInductive, PTL DEF Spec

\* IndexFollowsDisk: at every await, a cached file that is not open is as on disk,
\* unless it changed before anything watched it, the change is still on its way,
\* or a did_open of it was overtaken: no indexing, lookup or closing in the
\* meantime brings back, or keeps, a text that nothing will correct.
THEOREM IndexKeepsUp == Spec => []IndexFollowsDisk
<1>1. ASSUME TypeInv, TurnsInv, IndexInv
      PROVE  IndexFollowsDisk
    <2>1. SUFFICES ASSUME Settled, NEW u \in File \ (open_docs \cup unwatched \cup overtaken), OnItsWay(u)
                   PROVE  \/ \E i \in DOMAIN changes : changes[i].uri = u
                          \/ \E i \in DOMAIN inbox :
                                /\ inbox[i].op = "did_change_watched_files"
                                /\ \E j \in DOMAIN inbox[i].changes : inbox[i].changes[j].uri = u
        BY <1>1 DEF IndexFollowsDisk, IndexInv
    <2>2. ASSUME NEW s \in Slot
          PROVE  ~Reported(ChangesOf(handlers[s]), u)
        <3>1. handlers[s].pc \notin AtOnce
            BY <1>1, <2>1 DEF TurnsInv, AtOnceInv, Settled
        <3>2. QED
            BY <3>1 DEF AtOnce, ChangesOf, Reported
    <2>3. QED
        BY <2>1, <2>2 DEF OnItsWay, Reported
<1>2. QED
    BY <1>1, TypeInvInductive, TurnsInvInductive, IndexInvInductive, PTL

-----------------------------------------------------------------------------
(* Open files, whether or not their did_open is overtaken *)

\* An open file has a text, and lacks an Ast only while a handler is about to
\* cache it.
OpenInv ==
    \A u \in open_docs : /\ doc_map[u] # None
                         /\ ast_map[u] = NoAst => \E s \in Slot : Opens(s, u)

\* The handler that opens u goes on to cache the Ast.
LEMMA CachesAnAst ==
    ASSUME ServerType, NEW s \in Slot, NEW u \in File, Opens(s, u), HandlerStep(s)
    PROVE  Opens(s, u)' \/ ast_map'[u] # NoAst
<1>1. CASE Resume(s)
    BY <1>1 DEF Resume, Opens, Handles
<1>2. CASE did_open_cache(s)
    <2>1. HandlerInv(handlers[s])
        BY AtType DEF ServerType
    <2>2. handlers[s].ast \in Ast
        BY <2>1 DEF HandlerInv, Opens, Handles
    <2>3. ast_map'[u] = handlers[s].ast
        BY <1>2 DEF did_open_cache, Opens, Handles, ServerType, DocType
    <2>4. QED
        BY <2>2, <2>3 DEF Ast, NoAst
<1>3. QED
    BY <1>1, <1>2, OpeningGoesOn DEF Opens, Handles

\* A step leaves an open file so.
LEMMA OpenStep ==
    ASSUME ServerType, OpenInv, NEW s \in Slot, HandlerStep(s)
    PROVE  OpenInv'
<1> SUFFICES ASSUME NEW u \in open_docs'
             PROVE  doc_map'[u] # None /\ (ast_map'[u] = NoAst => \E r \in Slot : Opens(r, u)')
    BY DEF OpenInv, Opens, Handles
<1>d. \A v \in open_docs : v \in File
    BY DEF ServerType, DocType
<1>1. CASE did_open(s) /\ handlers[s].msg.uri = u
    <2>1. Opens(s, u)'
        BY <1>1, OpeningKeepsMessage DEF Opens, Handles
    <2>2. doc_map' = [doc_map EXCEPT ![u] = handlers[s].msg.text] /\ handlers[s].msg.text \in Text /\ u \in File
        BY <1>1, OpeningKeepsMessage DEF did_open
    <2>3. QED
        BY <2>1, <2>2 DEF ServerType, DocType
<1>2. CASE ~(did_open(s) /\ handlers[s].msg.uri = u)
    <2>1. u \in open_docs /\ u \in File
        BY <1>2, <1>d, OpenEffect
    <2>2. doc_map[u] # None /\ (ast_map[u] = NoAst => \E r \in Slot : Opens(r, u))
        BY <2>1 DEF OpenInv
    <2>3. ASSUME ast_map[u] = NoAst, ast_map'[u] = NoAst
          PROVE  \E r \in Slot : Opens(r, u)'
        <3>1. PICK r \in Slot : Opens(r, u)
            BY <2>2, <2>3
        <3>2. CASE r # s
            <4>1. handlers'[r] = handlers[r]
                BY <3>2, OthersStay DEF ServerType
            <4>2. QED
                BY <3>1, <4>1 DEF Opens, Handles
        <3>3. QED
            BY <2>1, <2>3, <3>1, <3>2, CachesAnAst
    <2>4. CASE Kept(u)
        BY <2>2, <2>3, <2>4 DEF Kept
    <2>5. CASE \E t \in Text : ReadAs(u, t)
        BY <2>5 DEF ReadAs, parse_shared, NoAst
    <2>6. CASE did_close(s) /\ handlers[s].msg.uri = u
        BY <2>6 DEF did_close
    <2>7. CASE did_open_cache(s) /\ handlers[s].msg.uri = u
        <3>1. Opens(s, u) /\ UNCHANGED doc_map
            BY <2>7 DEF did_open_cache, At, Opens, Handles
        <3>2. QED
            BY <2>1, <2>2, <3>1, CachesAnAst
    <2>8. CASE refresh_ast_globals_and_diagnostics(s)
        <3>1. PICK gs : gs = GlobalsOf(config)
            OBVIOUS
        <3>2. ast_map' = AstsWith(gs) /\ UNCHANGED doc_map
            BY <2>8, <3>1 DEF refresh_ast_globals_and_diagnostics
        <3>3. ast_map'[u] = IF ast_map[u] = NoAst THEN NoAst ELSE [ast_map[u] EXCEPT !.globals = gs]
            BY <2>1, <3>2 DEF AstsWith
        <3>4. ast_map[u] # NoAst => ast_map[u] \in Ast
            BY <2>1 DEF ServerType, DocType
        <3>5. ast_map[u] # NoAst => ast_map'[u] # NoAst
            BY <3>3, <3>4 DEF Ast, NoAst
        <3>6. QED
            BY <2>2, <2>3, <3>2, <3>5
    <2>9. CASE ReloadPublish(s)
        <3>1. HandlerInv(handlers[s])
            BY AtType DEF ServerType
        <3>2. PICK v \in File, t \in Text : v = handlers[s].uri /\ t = handlers[s].text
            BY <2>9, <3>1 DEF ReloadPublish, At, HandlerInv
        <3>3. PICK ast : ast = IF ast_map[v] # NoAst THEN ast_map[v] ELSE parse_shared(t, globals_cache)
            OBVIOUS
        <3>4. ast # NoAst
            BY <3>3 DEF parse_shared, NoAst
        <3>5. UNCHANGED doc_map /\ (UNCHANGED ast_map \/ ast_map' = [ast_map EXCEPT ![v] = ast])
            BY <2>9, <3>2, <3>3 DEF ReloadPublish
        <3>6. ast_map'[u] = ast_map[u] \/ ast_map'[u] = ast
            BY <2>1, <3>5 DEF ServerType, DocType
        <3>7. QED
            BY <2>2, <2>3, <3>4, <3>5, <3>6
    <2>10. QED
        BY <1>2, <2>1, <2>4, <2>5, <2>6, <2>7, <2>8, <2>9, FileEffect
<1>3. QED
    BY <1>1, <1>2

\* It holds in every state the server reaches.
LEMMA OpenInvInductive == Spec => []OpenInv
<1>1. Init => OpenInv
    BY DEF Init, OpenInv
<1>2. ASSUME TypeInv, OpenInv, [Next]_vars
      PROVE  OpenInv'
    <2>1. ASSUME NEW s \in Slot, ServerStep(s)
          PROVE  OpenInv'
        BY <1>2, <2>1, OpenStep DEF TypeInv, ServerStep
    <2>2. CASE (\E s \in Slot : Answer(s)) \/ ReportChanges \/ User \/ UNCHANGED vars
        BY <1>2, <2>2, ClientLeavesServer DEF OpenInv, Opens, Handles
    <2>3. QED
        BY <1>2, <2>1, <2>2 DEF Next
<1>3. QED
    BY <1>1, <1>2, TypeInvInductive, PTL DEF Spec

-----------------------------------------------------------------------------
(* The project file's settings *)

\* A handler on its way to reload_flsproject, however many awaits away.
WillReload(h) ==
    \/ h.pc = "reload"
    \/ h.pc \in {"refresh", "publish_each"} /\ h.ret = "reload"
    \/ h.pc = "did_open_cache" /\ is_flsproject(h.msg.uri)

\* The settings of the only project file are in force while it is open, or a
\* handler is on its way to bring them into force.
ProjectInv ==
    \A p \in Project \cap open_docs : Project = {p} =>
        \/ config.fls = parse_and_validate_flsproject(doc_map[p])
        \/ \E s \in Slot : WillReload(handlers[s])

\* One that goes on as g is.
LEMMA ReloadsAs ==
    ASSUME HandlersInv, NEW s \in Slot, NEW g, NEW b \in BOOLEAN, Continue(s, g, b), WillReload(g)
    PROVE  WillReload(handlers'[s])
<1>1. g.pc # "done"
    BY DEF WillReload
<1>2. QED
    BY <1>1, GoesOn

LEMMA GotoReloads ==
    ASSUME HandlersInv, NEW s \in Slot, Goto(s, "reload")
    PROVE  WillReload(handlers'[s])
<1>1. PICK g : g = [handlers[s] EXCEPT !.pc = "reload"]
    OBVIOUS
<1>2. g.pc = "reload"
    BY <1>1 DEF HandlersInv, Handler
<1>3. handlers'[s] = g
    BY <1>1, Moves
<1>4. QED
    BY <1>2, <1>3 DEF WillReload

\* A handler on its way to reload stays on its way until it reloads.
LEMMA ReloadStays ==
    ASSUME ServerType, NEW s \in Slot, HandlerStep(s), WillReload(handlers[s]), ~reload_flsproject(s)
    PROVE  WillReload(handlers'[s])
<1> USE DEF ServerType
<1>h. PICK h : h = handlers[s]
    OBVIOUS
<1>0. HandlerInv(h) /\ Locals(h) /\ h \in Handler
    BY <1>h, AtType
<1>p. h.pc \in {"reload", "refresh", "publish_each", "did_open_cache"}
    BY <1>h DEF WillReload
<1>1. CASE Resume(s)
    BY <1>1 DEF Resume, WillReload
<1>2. CASE refresh_ast_globals_and_diagnostics(s)
    <2>1. h.pc = "refresh" /\ h.ret = "reload"
        BY <1>2, <1>h DEF refresh_ast_globals_and_diagnostics, At, WillReload
    <2>2. Continue(s, [h EXCEPT !.pc = "publish_each", !.ret = IF "refresh" = "refresh_again" THEN "done" ELSE @,
                                !.todo = updated], FALSE)
        BY <1>2, <1>h, <2>1 DEF refresh_ast_globals_and_diagnostics, At
    <2>3. PICK g : g = [h EXCEPT !.pc = "publish_each",
                                 !.ret = IF "refresh" = "refresh_again" THEN "done" ELSE @, !.todo = updated]
        OBVIOUS
    <2>4. g.pc = "publish_each" /\ g.ret = "reload" /\ Continue(s, g, FALSE)
        BY <1>0, <2>1, <2>2, <2>3 DEF Handler
    <2>5. QED
        BY <2>4, ReloadsAs DEF WillReload
<1>3. CASE PublishEach(s)
    <2>1. h.pc = "publish_each" /\ h.ret = "reload"
        BY <1>3, <1>h DEF PublishEach, At, WillReload
    <2>2. CASE Goto(s, h.ret)
        BY <2>1, <2>2, GotoReloads
    <2>3. CASE \E u \in h.todo, b \in BOOLEAN : Continue(s, [h EXCEPT !.todo = @ \ {u}], b)
        <3>1. PICK u \in h.todo, b \in BOOLEAN : Continue(s, [h EXCEPT !.todo = @ \ {u}], b)
            BY <2>3
        <3>2. PICK g : g = [h EXCEPT !.todo = @ \ {u}]
            OBVIOUS
        <3>3. g.pc = "publish_each" /\ g.ret = "reload" /\ Continue(s, g, b)
            BY <1>0, <2>1, <3>1, <3>2 DEF Handler
        <3>4. QED
            BY <3>3, ReloadsAs DEF WillReload
    <2>4. QED
        BY <1>3, <1>h, <2>2, <2>3 DEF PublishEach, ComputeAndPublish
<1>4. CASE did_open_cache(s)
    <2>1. h.pc = "did_open_cache" /\ is_flsproject(h.msg.uri)
        BY <1>4, <1>h DEF did_open_cache, At, WillReload
    <2>2. PICK g : g = [h EXCEPT !.pc = "reload", !.ast = NoAst]
        OBVIOUS
    <2>3. g.pc = "reload" /\ Continue(s, g, FALSE)
        BY <1>0, <1>4, <1>h, <2>1, <2>2 DEF did_open_cache, ReloadIfProject, Handler
    <2>4. QED
        BY <2>3, ReloadsAs DEF WillReload
<1>5. ~Start(s) /\ ~Registered(s) /\ ~apply_pulled_configuration(s)
    <2>1. Start(s) => h.pc = "done"
        BY <1>h DEF Start, Idle
    <2>2. Registered(s) \/ apply_pulled_configuration(s) => h.pc \in {"await_register", "await_pull"}
        BY <1>h DEF Registered, apply_pulled_configuration
    <2>3. QED
        BY <1>p, <2>1, <2>2
<1>6. ~(\/ register_file_watchers(s) \/ initialized_index(s) \/ pull_configuration(s) \/ ReloadPublish(s)
        \/ did_open(s) \/ did_change(s) \/ did_save(s) \/ did_close(s) \/ did_change_watched_files(s)
        \/ WatchedFile(s) \/ did_change_workspace_folders(s) \/ did_change_configuration(s)
        \/ add_global(s) \/ lookup(s))
    BY <1>h, <1>p DEF At, register_file_watchers, initialized_index, pull_configuration, ReloadPublish,
       did_open, did_change, did_save, did_close, did_change_watched_files, WatchedFile,
       did_change_workspace_folders, did_change_configuration, add_global, lookup
<1>7. QED
    BY <1>1, <1>2, <1>3, <1>4, <1>5, <1>6 DEF HandlerStep

\* With one project file, reload_flsproject takes it from memory.
LEMMA ReloadTakes ==
    ASSUME ServerType, NEW p \in Project, Project = {p}, doc_map[p] # None,
           NEW s \in Slot, reload_flsproject(s)
    PROVE  /\ config'.fls = parse_and_validate_flsproject(doc_map[p])
           /\ UNCHANGED <<doc_map, open_docs>>
<1>1. {u \in Project : doc_map[u] # None} = {p}
    OBVIOUS
<1>2. ProjectFiles = {[uri |-> u, text |-> doc_map[u]] : u \in {p}}
    BY <1>1 DEF ProjectFiles
<1>3. ProjectFiles = {[uri |-> p, text |-> doc_map[p]]}
    BY <1>2
<1>4. config' = [config EXCEPT !.fls = parse_and_validate_flsproject(doc_map[p])]
    <2>1. PICK q \in ProjectFiles : config' = [config EXCEPT !.fls = parse_and_validate_flsproject(q.text)]
        BY <1>3 DEF reload_flsproject
    <2>2. q.text = doc_map[p]
        BY <1>3
    <2>3. QED
        BY <2>1, <2>2
<1>5. config \in Configuration
    BY DEF ServerType, ConfigType
<1>6. QED
    BY <1>4, <1>5 DEF Configuration, reload_flsproject, docVars

\* A step after which its handler is not on its way to reload changed no project settings.
LEMMA SettingsKept ==
    ASSUME ServerType, NEW s \in Slot, HandlerStep(s), ~WillReload(handlers'[s]), ~reload_flsproject(s)
    PROVE  config'.fls = config.fls
<1> USE DEF ServerType
<1>h. PICK h : h = handlers[s]
    OBVIOUS
<1>0. h \in Handler
    BY <1>h, AtType
<1>1. CASE did_change_configuration(s)
    <2>1. UNCHANGED config \/ Goto(s, "reload")
        BY <1>1 DEF did_change_configuration
    <2>2. QED
        BY <2>1, GotoReloads
<1>2. CASE apply_pulled_configuration(s)
    <2>1. PICK g : g = [h EXCEPT !.pc = "refresh", !.ret = "reload"]
        OBVIOUS
    <2>2. g.pc = "refresh" /\ g.ret = "reload"
        BY <1>0, <2>1 DEF Handler
    <2>3. UNCHANGED config \/ Continue(s, g, FALSE)
        BY <1>2, <1>h, <2>1 DEF apply_pulled_configuration
    <2>4. QED
        BY <2>2, <2>3, ReloadsAs DEF WillReload
<1>3. CASE add_global(s)
    <2>1. config' = [config EXCEPT !.fennel.globals = @ \cup {h.msg.name}]
        BY <1>3, <1>h DEF add_global
    <2>2. config \in Configuration
        BY DEF ConfigType
    <2>3. QED
        BY <2>1, <2>2 DEF Configuration
<1>4. CASE ~did_change_configuration(s) /\ ~apply_pulled_configuration(s) /\ ~add_global(s)
    BY <1>4 DEF HandlerStep, Start, Resume, register_file_watchers, Registered, initialized_index,
       pull_configuration, refresh_ast_globals_and_diagnostics, PublishEach, ReloadPublish, did_open,
       did_open_cache, did_change, did_save, did_close, did_change_watched_files, WatchedFile,
       did_change_workspace_folders, lookup, configVars
<1>5. QED
    BY <1>1, <1>2, <1>3, <1>4

\* Nor did it open an open project file, or change its text, unless that had no Ast.
LEMMA ProjectKept ==
    ASSUME ServerType, NEW p \in Project, NEW s \in Slot, HandlerStep(s), p \in open_docs',
           ~WillReload(handlers'[s])
    PROVE  p \in open_docs /\ (doc_map'[p] = doc_map[p] \/ ast_map[p] = NoAst)
<1>h. PICK h : h = handlers[s]
    OBVIOUS
<1>0. h \in Handler /\ HandlersInv /\ p \in File
    BY <1>h, AtType DEF ServerType
<1>1. ~(did_open(s) /\ h.msg.uri = p)
    BY <1>h, OpeningKeepsMessage DEF WillReload, is_flsproject
<1>2. p \in open_docs /\ ~(did_close(s) /\ h.msg.uri = p)
    BY <1>0, <1>1, <1>h, OpenEffect DEF did_close
<1>3. CASE did_change(s) /\ h.msg.uri = p
    <2>1. CASE UNCHANGED docVars
        BY <1>2, <2>1 DEF docVars
    <2>2. CASE Continue(s, [h EXCEPT !.pc = "reload"], TRUE)
        <3>1. PICK g : g = [h EXCEPT !.pc = "reload"]
            OBVIOUS
        <3>2. g.pc = "reload" /\ Continue(s, g, TRUE)
            BY <1>0, <2>2, <3>1 DEF Handler
        <3>3. QED
            BY <1>0, <3>2, ReloadsAs DEF WillReload
    <2>3. QED
        BY <1>3, <1>h, <2>1, <2>2 DEF did_change, ComputeAndPublish, ReloadIfProject, is_flsproject
<1>4. CASE ~(did_change(s) /\ h.msg.uri = p)
    <2>1. did_open_cache(s) \/ refresh_ast_globals_and_diagnostics(s) => UNCHANGED doc_map
        BY DEF did_open_cache, refresh_ast_globals_and_diagnostics
    <2>2. QED
        BY <1>0, <1>1, <1>2, <1>4, <1>h, <2>1, FileEffect DEF Kept
<1>5. QED
    BY <1>3, <1>4

\* So each step keeps the settings of the project file in force or on their way.
LEMMA ProjectStep ==
    ASSUME ServerType, OpenInv, ProjectInv, NEW s \in Slot, HandlerStep(s)
    PROVE  ProjectInv'
<1>1. SUFFICES ASSUME NEW p \in Project, p \in open_docs', Project = {p}
               PROVE  \/ config'.fls = parse_and_validate_flsproject(doc_map'[p])
                      \/ \E r \in Slot : WillReload(handlers'[r])
    BY DEF ProjectInv, WillReload
<1>2. CASE reload_flsproject(s)
    <2>1. open_docs' = open_docs
        BY <1>2 DEF reload_flsproject, docVars
    <2>2. doc_map[p] # None
        BY <1>1, <2>1 DEF OpenInv
    <2>3. QED
        BY <1>1, <1>2, <2>2, ReloadTakes
<1>3. CASE ~reload_flsproject(s) /\ ~WillReload(handlers'[s])
    <2>1. p \in open_docs /\ (doc_map'[p] = doc_map[p] \/ ast_map[p] = NoAst)
        BY <1>1, <1>3, ProjectKept
    <2>0. config'.fls = config.fls
        BY <1>3, SettingsKept
    <2>2. ASSUME NEW r \in Slot, WillReload(handlers[r])
          PROVE  \E q \in Slot : WillReload(handlers'[q])
        <3>1. r # s
            BY <1>3, <2>2, ReloadStays
        <3>2. handlers'[r] = handlers[r]
            BY <3>1, OthersStay DEF ServerType
        <3>3. WillReload(handlers'[r])
            BY <2>2, <3>2
        <3>4. QED
            BY <3>3
    <2>3. CASE ast_map[p] = NoAst
        <3>1. PICK r \in Slot : Opens(r, p)
            BY <2>1, <2>3 DEF OpenInv
        <3>2. WillReload(handlers[r])
            BY <3>1 DEF WillReload, is_flsproject, Opens, Handles
        <3>3. QED
            BY <2>2, <3>2
    <2>4. CASE doc_map'[p] = doc_map[p]
        BY <1>1, <2>0, <2>1, <2>2, <2>4 DEF ProjectInv
    <2>5. QED
        BY <2>1, <2>3, <2>4
<1>4. QED
    BY <1>2, <1>3

\* They are, in every state the server reaches.
LEMMA ProjectInvInductive == Spec => []ProjectInv
<1>1. Init => ProjectInv
    BY DEF Init, ProjectInv
<1>2. ASSUME TypeInv, OpenInv, ProjectInv, [Next]_vars
      PROVE  ProjectInv'
    <2>1. CASE (\E s \in Slot : Answer(s)) \/ ReportChanges \/ User \/ UNCHANGED vars
        BY <1>2, <2>1, ClientLeavesServer DEF ProjectInv, WillReload
    <2>2. QED
        BY <1>2, <2>1, ProjectStep DEF Next, ServerStep, TypeInv
<1>3. QED
    BY <1>1, <1>2, TypeInvInductive, OpenInvInductive, PTL DEF Spec

\* ProjectSettingsSettle: however handlers interleave at their awaits, once
\* everything is handled the settings of the open project file are in force,
\* because whatever overwrites them, the pull of the client's, a push or an edit,
\* goes on to reload_flsproject, and nothing takes the buffer's text away.
THEOREM ProjectSettingsCatchUp == Spec => []ProjectSettingsSettle
<1>1. ProjectInv => ProjectSettingsSettle
    BY DEF ProjectInv, ProjectSettingsSettle, Quiescent, WillReload, Idle
<1>2. QED
    BY <1>1, ProjectInvInductive, PTL

-----------------------------------------------------------------------------
(* The user's globals *)

\* The globals of the user's present settings are configured.
Configured == settings.has_fennel => settings.fennel.globals \subseteq config.fennel.globals

\* A handler that will still ask the client for the settings, or has them.
Pulls(h) == h.pc \in {"initialized", "await_register", "pull", "await_pull", "did_change_configuration"}

\* A message that brings settings, and that none waits.
Brings(m) == m.op = "did_change_configuration"

NoneBrings == \A i \in DOMAIN inbox : ~Brings(inbox[i])

\* The last message that brings settings brings the present ones.
LastBrings ==
    \E i \in DOMAIN inbox :
        /\ Brings(inbox[i]) /\ inbox[i].settings = settings
        /\ \A j \in DOMAIN inbox : j > i => ~Brings(inbox[j])

\* Once no message brings settings any more, all the server may still apply are
\* the present ones, and it has applied them or will.
UserInv ==
    /\ \A s \in Slot : handlers[s].pc = "did_change_configuration" => current = s
    /\ \A i \in DOMAIN replies : replies[i].ok
    /\ \/ LastBrings
       \/ /\ NoneBrings
          /\ \A s \in Slot : handlers[s].pc = "did_change_configuration" => handlers[s].msg.settings = settings
          /\ \A i \in DOMAIN replies : replies[i].settings = settings
          /\ \/ Configured
             \/ \E s \in Slot : Pulls(handlers[s])
             \/ \E i \in DOMAIN inbox : inbox[i].op = "initialized"

\* A handler with settings to apply has the task, so it alone can move.
LEMMA AppliesAlone ==
    ASSUME UserInv, NEW s \in Slot, HandlerStep(s), NEW r \in Slot,
           handlers[r].pc = "did_change_configuration"
    PROVE  r = s /\ did_change_configuration(s)
<1>1. current = r /\ r # NoSlot
    BY DEF UserInv
<1>2. current \in {s, NoSlot}
    BY DEF HandlerStep, At, Start, Resume, register_file_watchers, Registered, initialized_index,
       pull_configuration, apply_pulled_configuration, refresh_ast_globals_and_diagnostics, PublishEach,
       reload_flsproject, ReloadPublish, did_open, did_open_cache, did_change, did_save, did_close,
       did_change_watched_files, WatchedFile, did_change_workspace_folders, did_change_configuration,
       add_global, lookup
<1>3. r = s
    BY <1>1, <1>2
<1>4. ~(Start(s) \/ Resume(s) \/ Registered(s) \/ apply_pulled_configuration(s))
    BY <1>1 DEF Start, Resume, Registered, apply_pulled_configuration
<1>5. ~(\/ register_file_watchers(s) \/ initialized_index(s) \/ pull_configuration(s)
        \/ refresh_ast_globals_and_diagnostics(s) \/ PublishEach(s) \/ reload_flsproject(s)
        \/ ReloadPublish(s) \/ did_open(s) \/ did_open_cache(s) \/ did_change(s) \/ did_save(s)
        \/ did_close(s) \/ did_change_watched_files(s) \/ WatchedFile(s)
        \/ did_change_workspace_folders(s) \/ add_global(s) \/ lookup(s))
    BY <1>3 DEF At, register_file_watchers, initialized_index, pull_configuration,
       refresh_ast_globals_and_diagnostics, PublishEach, reload_flsproject, ReloadPublish, did_open,
       did_open_cache, did_change, did_save, did_close, did_change_watched_files, WatchedFile,
       did_change_workspace_folders, add_global, lookup
<1>6. QED
    BY <1>3, <1>4, <1>5 DEF HandlerStep

\* A handler that will pull goes on to do so, until it applies the settings it got.
LEMMA PullStays ==
    ASSUME ServerType, UserInv, PullSupported, NEW s \in Slot, HandlerStep(s), Pulls(handlers[s]),
           ~Start(s), ~apply_pulled_configuration(s),
           did_change_configuration(s) => handlers[s].msg.empty
    PROVE  Pulls(handlers'[s])
<1> USE DEF ServerType
<1>h. PICK h : h = handlers[s]
    OBVIOUS
<1>0. h \in Handler
    BY <1>h, AtType
<1>1. ASSUME NEW pc \in {"pull", "await_register", "await_pull"},
             \/ Await(s, pc)
             \/ \E b \in BOOLEAN : Continue(s, [h EXCEPT !.pc = pc], b)
      PROVE  Pulls(handlers'[s])
    <2> DEFINE g == [h EXCEPT !.pc = pc]
    <2>1. g.pc = pc
        BY <1>0 DEF Handler
    <2>2. handlers' = [handlers EXCEPT ![s] = g] \/ \E b \in BOOLEAN : Continue(s, g, b)
        BY <1>1, <1>h DEF Await
    <2> HIDE DEF g
    <2>3. handlers'[s] = g
        BY <2>1, <2>2, GoesOn DEF HandlersInv
    <2>4. QED
        BY <2>1, <2>3 DEF Pulls
<1>2. CASE Resume(s)
    BY <1>2 DEF Resume, Pulls
<1>3. CASE register_file_watchers(s) \/ Registered(s)
    <2>1. \/ Await(s, "await_register")
          \/ \E b \in BOOLEAN : Continue(s, [h EXCEPT !.pc = "pull"], b)
        BY <1>3, <1>h DEF register_file_watchers, Registered
    <2>2. QED
        BY <1>1, <2>1
<1>4. CASE pull_configuration(s)
    BY <1>1, <1>4 DEF pull_configuration
<1>5. CASE did_change_configuration(s)
    <2>1. Goto(s, "pull")
        BY <1>5, <1>h DEF did_change_configuration
    <2>2. Continue(s, [h EXCEPT !.pc = "pull"], FALSE)
        BY <2>1, <1>h DEF Goto
    <2>3. QED
        BY <1>1, <2>2
<1>6. ~(\/ initialized_index(s) \/ refresh_ast_globals_and_diagnostics(s) \/ PublishEach(s)
        \/ reload_flsproject(s) \/ ReloadPublish(s) \/ did_open(s) \/ did_open_cache(s)
        \/ did_change(s) \/ did_save(s) \/ did_close(s) \/ did_change_watched_files(s)
        \/ WatchedFile(s) \/ did_change_workspace_folders(s) \/ add_global(s) \/ lookup(s))
    BY DEF Pulls, At, initialized_index, refresh_ast_globals_and_diagnostics, PublishEach,
       reload_flsproject, ReloadPublish, did_open, did_open_cache, did_change, did_save, did_close,
       did_change_watched_files, WatchedFile, did_change_workspace_folders, add_global, lookup
<1>7. QED
    BY <1>2, <1>3, <1>4, <1>5, <1>6 DEF HandlerStep

\* The steps of handlers that have started, but those that apply settings: they
\* take away none of the user's globals.
LEMMA ConfiguredStays ==
    ASSUME ServerType, NEW s \in Slot, HandlerStep(s), Configured, ~apply_pulled_configuration(s),
           did_change_configuration(s) => UNCHANGED config
    PROVE  Configured'
<1> USE DEF ServerType
<1>c. config \in Configuration /\ settings' = settings
    BY DEF ConfigType, clientVars, HandlerStep, Start, Resume, register_file_watchers, Registered,
       initialized_index, pull_configuration, apply_pulled_configuration,
       refresh_ast_globals_and_diagnostics, PublishEach, reload_flsproject, ReloadPublish, did_open,
       did_open_cache, did_change, did_save, did_close, did_change_watched_files, WatchedFile,
       did_change_workspace_folders, did_change_configuration, add_global, lookup
<1>1. CASE add_global(s)
    <2>1. PICK g : config' = [config EXCEPT !.fennel.globals = @ \cup {g}]
        BY <1>1 DEF add_global
    <2>2. config'.fennel.globals = config.fennel.globals \cup {g}
        BY <1>c, <2>1 DEF Configuration, Fennel
    <2>3. QED
        BY <1>c, <2>2 DEF Configured
<1>2. CASE reload_flsproject(s)
    <2>1. config' = config \/ \E fls : config' = [config EXCEPT !.fls = fls]
        BY <1>2 DEF reload_flsproject
    <2>2. config'.fennel = config.fennel
        BY <1>c, <2>1 DEF Configuration
    <2>3. QED
        BY <1>c, <2>2 DEF Configured
<1>3. CASE ~add_global(s) /\ ~reload_flsproject(s)
    <2>1. config' = config
        BY <1>3 DEF configVars, HandlerStep, Start, Resume, register_file_watchers, Registered,
           initialized_index, pull_configuration, refresh_ast_globals_and_diagnostics, PublishEach,
           ReloadPublish, did_open, did_open_cache, did_change, did_save, did_close,
           did_change_watched_files, WatchedFile, did_change_workspace_folders, lookup
    <2>2. QED
        BY <1>c, <2>1 DEF Configured
<1>4. QED
    BY <1>1, <1>2, <1>3

\* A step that starts the handler of the first message keeps the invariant.
LEMMA UserStart ==
    ASSUME ServerType, UserInv, NEW s \in Slot, Start(s)
    PROVE  UserInv'
<1> USE DEF ServerType
<1>m. PICK m : m = Head(inbox)
    OBVIOUS
<1>q. PICK q : q = inbox
    OBVIOUS
<1>1. /\ q \in Seq(Message) /\ q # <<>> /\ inbox' = Tail(q) /\ m = q[1]
      /\ replies = <<>> /\ replies' = <<>> /\ current = NoSlot /\ handlers[s] = Idle
      /\ UNCHANGED <<settings, config>>
    BY <1>m, <1>q DEF Start, MailType, clientVars, configVars
<1>2. m \in Message /\ m.op \in Entry
    <2>1. m \in Message
        BY <1>1
    <2>2. QED
        BY <2>1, MessageFields
<1>3. handlers'[s].pc = m.op /\ handlers'[s].msg = m /\ current' \in {s, NoSlot}
      /\ (m.op = "did_change_configuration" => current' = s)
    BY <1>m, StartsOn DEF AtOnce
<1>4. \A r \in Slot : handlers[r].pc # "did_change_configuration"
    BY <1>1, <1>2 DEF UserInv
<1>5. \A r \in Slot \ {s} : handlers'[r] = handlers[r]
    BY OthersStay DEF HandlerStep
<1>6. \A r \in Slot : handlers'[r].pc = "did_change_configuration" =>
          r = s /\ m.op = "did_change_configuration" /\ current' = r
    BY <1>3, <1>4, <1>5
<1>7. DOMAIN q = 1..Len(q) /\ Len(q) \in Nat /\ Len(q) >= 1 /\ Len(Tail(q)) = Len(q) - 1
      /\ DOMAIN Tail(q) = 1..(Len(q) - 1)
      /\ \A i \in 1..(Len(q) - 1) : Tail(q)[i] = q[i + 1]
    BY <1>1
<1>8. CASE LastBrings
    <2>1. PICK i \in 1..Len(q) : /\ Brings(q[i]) /\ q[i].settings = settings
                                 /\ \A j \in 1..Len(q) : j > i => ~Brings(q[j])
        BY <1>8, <1>q, <1>7 DEF LastBrings
    <2>2. CASE i = 1
        <3>1. \A j \in 1..(Len(q) - 1) : ~Brings(Tail(q)[j])
            <4> TAKE j \in 1..(Len(q) - 1)
            <4>1. j + 1 \in 1..Len(q) /\ j + 1 > 1
                BY <1>7
            <4>2. QED
                BY <2>1, <2>2, <4>1, <1>7
        <3>2. NoneBrings'
            BY <3>1, <1>1, <1>7 DEF NoneBrings
        <3>3. m.op = "did_change_configuration" /\ m.settings = settings
            BY <2>1, <2>2, <1>1 DEF Brings
        <3>4. Pulls(handlers'[s])
            BY <3>3, <1>3 DEF Pulls
        <3>5. QED
            BY <3>2, <3>3, <3>4, <1>1, <1>3, <1>6 DEF UserInv, Pulls
    <2>3. CASE i # 1
        <3>1. i - 1 \in 1..(Len(q) - 1) /\ Tail(q)[i - 1] = q[i]
            BY <1>7, <2>1, <2>3
        <3>2. \A j \in 1..(Len(q) - 1) : j > i - 1 => ~Brings(Tail(q)[j])
            <4> TAKE j \in 1..(Len(q) - 1)
            <4>1. j > i - 1 => j + 1 \in 1..Len(q) /\ j + 1 > i
                BY <1>7
            <4>2. QED
                BY <2>1, <4>1, <1>7
        <3>3. LastBrings'
            BY <2>1, <3>1, <3>2, <1>1, <1>7 DEF LastBrings, Brings
        <3>4. QED
            BY <3>3, <1>1, <1>6 DEF UserInv
    <2>4. QED
        BY <2>2, <2>3
<1>9. CASE ~LastBrings
    <2>1. /\ \A i \in 1..Len(q) : ~Brings(q[i])
          /\ \/ Configured
             \/ \E r \in Slot : Pulls(handlers[r])
             \/ \E i \in 1..Len(q) : q[i].op = "initialized"
        BY <1>9, <1>q, <1>7 DEF UserInv, NoneBrings
    <2>2. \A i \in 1..(Len(q) - 1) : i + 1 \in 1..Len(q)
        BY <1>7
    <2>3. NoneBrings'
        BY <2>1, <2>2, <1>1, <1>7 DEF NoneBrings, Brings
    <2>4. m.op # "did_change_configuration"
        BY <2>1, <1>1, <1>7 DEF Brings
    <2>5. \/ Configured'
          \/ \E r \in Slot : Pulls(handlers'[r])
          \/ \E i \in DOMAIN inbox' : inbox'[i].op = "initialized"
        <3>1. CASE Configured
            BY <3>1, <1>1 DEF Configured
        <3>2. ASSUME NEW r \in Slot, Pulls(handlers[r])
              PROVE  \E k \in Slot : Pulls(handlers'[k])
            <4>1. r # s
                BY <1>1, <3>2 DEF Pulls, Idle
            <4>2. QED
                BY <1>5, <3>2, <4>1 DEF Pulls
        <3>3. ASSUME NEW i \in 1..Len(q), q[i].op = "initialized"
              PROVE  \/ Pulls(handlers'[s])
                     \/ \E k \in 1..(Len(q) - 1) : Tail(q)[k].op = "initialized"
            <4>1. CASE i = 1
                BY <3>3, <4>1, <1>1, <1>3 DEF Pulls
            <4>2. CASE i # 1
                <5>1. i - 1 \in 1..(Len(q) - 1) /\ Tail(q)[i - 1] = q[i]
                    BY <1>7, <4>2
                <5>2. QED
                    BY <3>3, <5>1
            <4>3. QED
                BY <4>1, <4>2
        <3>4. QED
            BY <2>1, <3>1, <3>2, <3>3, <1>1, <1>7
    <2>6. QED
        BY <2>3, <2>4, <2>5, <1>1, <1>6 DEF UserInv, Pulls
<1>10. QED
    BY <1>8, <1>9

\* Where no message brings settings, a step that applies some applies the present
\* ones.
LEMMA AppliesPresent ==
    ASSUME ServerType, UserInv, ~LastBrings, PullSupported, NEW s \in Slot,
           \/ apply_pulled_configuration(s)
           \/ did_change_configuration(s) /\ ~handlers[s].msg.empty
    PROVE  Configured'
<1> USE DEF ServerType
<1>1. CASE apply_pulled_configuration(s)
    <2>1. PICK st : st = Head(replies).settings
        OBVIOUS
    <2>2. 1 \in DOMAIN replies /\ Head(replies) = replies[1]
        BY <1>1 DEF apply_pulled_configuration, MailType
    <2>3. Head(replies).ok /\ st = settings
        BY <2>1, <2>2 DEF UserInv
    <2>4. config' = [fennel |-> IF st.has_fennel THEN st.fennel ELSE config.fennel,
                     fls |-> IF st.has_fls THEN st.fls ELSE config.fls] /\ settings' = settings
        BY <1>1, <2>1, <2>3 DEF apply_pulled_configuration, clientVars
    <2>5. QED
        BY <2>3, <2>4 DEF Configured
<1>2. CASE did_change_configuration(s) /\ ~handlers[s].msg.empty
    <2>1. handlers[s].pc = "did_change_configuration"
        BY <1>2 DEF did_change_configuration, At
    <2>2. handlers[s].msg.settings = settings
        BY <2>1 DEF UserInv
    <2>3. config' = Deserialized(settings) /\ settings' = settings
        BY <1>2, <2>2 DEF did_change_configuration, clientVars
    <2>4. QED
        BY <2>3 DEF Configured, Deserialized
<1>3. QED
    BY <1>1, <1>2

\* The steps of handlers that have started keep the invariant.
LEMMA UserServer ==
    ASSUME ServerType, UserInv, PullSupported, NEW s \in Slot, HandlerStep(s), ~Start(s)
    PROVE  UserInv'
<1> USE DEF ServerType
<1>1. inbox' = inbox /\ settings' = settings
    BY DEF clientVars, HandlerStep, Resume, register_file_watchers, Registered,
       initialized_index, pull_configuration, apply_pulled_configuration,
       refresh_ast_globals_and_diagnostics, PublishEach, reload_flsproject, ReloadPublish, did_open,
       did_open_cache, did_change, did_save, did_close, did_change_watched_files, WatchedFile,
       did_change_workspace_folders, did_change_configuration, add_global, lookup
<1>2. \A i \in DOMAIN replies' : \E k \in DOMAIN replies : replies'[i] = replies[k]
    <2>1. CASE Registered(s) \/ apply_pulled_configuration(s)
        <3>1. replies # <<>> /\ replies' = Tail(replies) /\ replies \in Seq(Reply)
            BY <2>1 DEF Registered, apply_pulled_configuration, MailType
        <3>2. \A i \in DOMAIN Tail(replies) : i + 1 \in DOMAIN replies /\ Tail(replies)[i] = replies[i + 1]
            BY <3>1
        <3>3. QED
            BY <3>1, <3>2
    <2>2. CASE ~(Registered(s) \/ apply_pulled_configuration(s))
        <3>1. replies' = replies
            BY <2>2 DEF HandlerStep, Resume, register_file_watchers, initialized_index,
               pull_configuration, refresh_ast_globals_and_diagnostics, PublishEach, reload_flsproject,
               ReloadPublish, did_open, did_open_cache, did_change, did_save, did_close,
               did_change_watched_files, WatchedFile, did_change_workspace_folders,
               did_change_configuration, add_global, lookup
        <3>2. QED
            BY <3>1
    <2>3. QED
        BY <2>1, <2>2
<1>3. ASSUME NEW r \in Slot
      PROVE  handlers'[r].pc # "did_change_configuration"
    <2>1. CASE r # s
        BY <2>1, OthersStay, AppliesAlone
    <2>2. CASE r = s /\ Resume(s)
        <3>1. ~did_change_configuration(s) /\ handlers' = handlers
            BY <2>2 DEF Resume, did_change_configuration, At
        <3>2. QED
            BY <2>2, <3>1, AppliesAlone
    <2>3. CASE r = s /\ ~Resume(s)
        BY <2>3, MovesOn DEF Entry
    <2>4. QED
        BY <2>1, <2>2, <2>3
<1>4. CASE LastBrings
    <2>1. LastBrings'
        BY <1>1, <1>4 DEF LastBrings, Brings
    <2>2. QED
        BY <1>2, <1>3, <2>1 DEF UserInv
<1>5. CASE ~LastBrings
    <2>1. /\ NoneBrings /\ \A i \in DOMAIN replies : replies[i].settings = settings
          /\ \/ Configured
             \/ \E r \in Slot : Pulls(handlers[r])
             \/ \E i \in DOMAIN inbox : inbox[i].op = "initialized"
        BY <1>5 DEF UserInv
    <2>2. NoneBrings'
        BY <1>1, <2>1 DEF NoneBrings, Brings
    <2>3. \A i \in DOMAIN replies' : replies'[i].settings = settings'
        BY <1>1, <1>2, <2>1
    <2>4. \/ Configured'
          \/ \E r \in Slot : Pulls(handlers'[r])
          \/ \E i \in DOMAIN inbox' : inbox'[i].op = "initialized"
        <3>1. CASE \/ apply_pulled_configuration(s)
                   \/ did_change_configuration(s) /\ ~handlers[s].msg.empty
            BY <1>5, <3>1, AppliesPresent
        <3>2. CASE ~(\/ apply_pulled_configuration(s)
                     \/ did_change_configuration(s) /\ ~handlers[s].msg.empty)
            <4>1. CASE Configured
                <5>1. did_change_configuration(s) => UNCHANGED config
                    BY <3>2 DEF did_change_configuration
                <5>2. QED
                    BY <3>2, <4>1, <5>1, ConfiguredStays
            <4>2. ASSUME NEW r \in Slot, Pulls(handlers[r])
                  PROVE  Pulls(handlers'[r])
                <5>1. CASE r = s
                    BY <3>2, <4>2, <5>1, PullStays
                <5>2. CASE r # s
                    <6>1. handlers'[r] = handlers[r]
                        BY <5>2, OthersStay
                    <6>2. QED
                        BY <4>2, <6>1
                <5>3. QED
                    BY <5>1, <5>2
            <4>3. QED
                BY <1>1, <2>1, <4>1, <4>2
        <3>3. QED
            BY <3>1, <3>2
    <2>5. QED
        BY <1>2, <1>3, <2>2, <2>3, <2>4 DEF UserInv, Pulls
<1>6. QED
    BY <1>4, <1>5

\* What the client sends keeps it: only a change of the settings brings settings.
LEMMA UserTells ==
    ASSUME ServerType, UserInv, NEW m \in Message, Tell(m), UNCHANGED <<replies, handlers, current, config>>,
           \/ Brings(m) /\ m.settings = settings'
           \/ ~Brings(m) /\ settings' = settings
    PROVE  UserInv'
<1>q. PICK q : q = inbox
    OBVIOUS
<1>1. /\ q \in Seq(Message) /\ inbox' = Append(q, m)
      /\ UNCHANGED <<replies, handlers, current, config>>
    BY <1>q DEF ServerType, MailType, Tell
<1>2. /\ Len(q) \in Nat /\ DOMAIN q = 1..Len(q) /\ DOMAIN Append(q, m) = 1..(Len(q) + 1)
      /\ Append(q, m)[Len(q) + 1] = m
      /\ \A i \in 1..Len(q) : Append(q, m)[i] = q[i]
    BY <1>1
<1>3. CASE Brings(m) /\ m.settings = settings'
    <2>1. Len(q) + 1 \in 1..(Len(q) + 1) /\ \A j \in 1..(Len(q) + 1) : ~(j > Len(q) + 1)
        BY <1>2
    <2>2. LastBrings'
        BY <1>1, <1>2, <1>3, <2>1 DEF LastBrings, Brings
    <2>3. QED
        BY <1>1, <2>2 DEF UserInv
<1>4. CASE ~Brings(m) /\ settings' = settings
    <2>1. \A j \in 1..(Len(q) + 1) : j \in 1..Len(q) \/ j = Len(q) + 1
        BY <1>2
    <2>2. CASE LastBrings
        <3>1. PICK i \in 1..Len(q) : /\ Brings(q[i]) /\ q[i].settings = settings
                                     /\ \A j \in 1..Len(q) : j > i => ~Brings(q[j])
            BY <2>2, <1>q, <1>2 DEF LastBrings
        <3>2. i \in 1..(Len(q) + 1) /\ \A j \in 1..(Len(q) + 1) : j > i => ~Brings(Append(q, m)[j])
            BY <1>2, <1>4, <2>1, <3>1
        <3>3. LastBrings'
            BY <1>1, <1>2, <1>4, <3>1, <3>2 DEF LastBrings, Brings
        <3>4. QED
            BY <1>1, <3>3 DEF UserInv
    <2>3. CASE ~LastBrings
        <3>1. /\ \A i \in 1..Len(q) : ~Brings(q[i])
              /\ \/ Configured
                 \/ \E r \in Slot : Pulls(handlers[r])
                 \/ \E i \in 1..Len(q) : q[i].op = "initialized"
            BY <2>3, <1>q, <1>2 DEF UserInv, NoneBrings
        <3>2. NoneBrings'
            BY <1>1, <1>2, <1>4, <2>1, <3>1 DEF NoneBrings, Brings
        <3>3. (\E i \in 1..Len(q) : q[i].op = "initialized") =>
                  \E i \in 1..(Len(q) + 1) : Append(q, m)[i].op = "initialized"
            BY <1>2
        <3>4. Configured => Configured'
            BY <1>1, <1>4 DEF Configured
        <3>5. \A r \in Slot : Pulls(handlers[r]) => Pulls(handlers'[r])
            BY <1>1
        <3>6. \/ Configured'
              \/ \E r \in Slot : Pulls(handlers'[r])
              \/ \E i \in DOMAIN inbox' : inbox'[i].op = "initialized"
            BY <1>1, <1>2, <3>1, <3>3, <3>4, <3>5
        <3>7. QED
            BY <1>1, <1>4, <2>3, <3>2, <3>6 DEF UserInv, Pulls
    <2>4. QED
        BY <2>2, <2>3
<1>5. QED
    BY <1>3, <1>4

\* A client that answers gives the present settings.
LEMMA UserAnswer ==
    ASSUME ServerType, UserInv, "fail" \notin ClientOps, NEW s \in Slot, Answer(s)
    PROVE  UserInv'
<1>1. PICK r \in Reply : r.ok /\ r.settings = settings /\ replies' = Append(replies, r)
    <2>1. \E ok \in {TRUE} : replies' = Append(replies, [slot |-> s, ok |-> ok, settings |-> settings])
        BY DEF Answer
    <2>2. replies' = Append(replies, [slot |-> s, ok |-> TRUE, settings |-> settings])
        BY <2>1
    <2>3. [slot |-> s, ok |-> TRUE, settings |-> settings] \in Reply
        BY DEF Reply, ServerType, ClientType
    <2>4. QED
        BY <2>2, <2>3
<1>2. UNCHANGED <<settings, config, inbox, handlers, current>>
    BY DEF Answer, configVars
<1>3. replies \in Seq(Reply)
    BY DEF ServerType, MailType
<1>4. \A i \in DOMAIN replies' : \/ i \in DOMAIN replies /\ replies'[i] = replies[i]
                                 \/ replies'[i] = r
    BY <1>1, <1>3
<1>5. LastBrings => LastBrings'
    BY <1>2 DEF LastBrings, Brings
<1>6. NoneBrings => NoneBrings'
    BY <1>2 DEF NoneBrings, Brings
<1>7. (Configured => Configured') /\ \A k \in Slot : Pulls(handlers[k]) => Pulls(handlers'[k])
    BY <1>2 DEF Configured
<1>8. QED
    BY <1>1, <1>2, <1>4, <1>5, <1>6, <1>7 DEF UserInv

\* So does whatever else the client does.
LEMMA UserClient ==
    ASSUME ServerType, UserInv, User \/ ReportChanges
    PROVE  UserInv'
<1> USE DEF ServerType, ClientType
<1>1. ASSUME NEW u \in File, NEW t \in Text, Open(u, t)
      PROVE  UserInv'
    <2> DEFINE m == [op |-> "did_open", uri |-> u, text |-> t]
    <2>1. m \in Message /\ ~Brings(m)
        BY DEF Message, Brings
    <2>2. Tell(m) /\ UNCHANGED <<replies, handlers, current, config, settings>>
        BY <1>1 DEF Open, ClientOnly, configVars
    <2> HIDE DEF m
    <2>3. QED
        BY <2>1, <2>2, UserTells
<1>2. ASSUME NEW u \in File, NEW t \in Text, Edit(u, t)
      PROVE  UserInv'
    <2> DEFINE m == [op |-> "did_change", uri |-> u, base |-> editor[u], text |-> t]
    <2>1. m \in Message /\ ~Brings(m)
        BY <1>2 DEF Edit, Message, Brings
    <2>2. Tell(m) /\ UNCHANGED <<replies, handlers, current, config, settings>>
        BY <1>2 DEF Edit, ClientOnly, configVars
    <2> HIDE DEF m
    <2>3. QED
        BY <2>1, <2>2, UserTells
<1>3. ASSUME NEW u \in File, Save(u) \/ Close(u) \/ Lookup(u)
      PROVE  UserInv'
    <2>1. \A op \in {"did_save", "did_close", "lookup"} :
              [op |-> op, uri |-> u] \in Message /\ ~Brings([op |-> op, uri |-> u])
        BY DEF Message, Brings
    <2>2. PICK op \in {"did_save", "did_close", "lookup"} : Tell([op |-> op, uri |-> u])
        BY <1>3 DEF Save, Close, Lookup
    <2>3. UNCHANGED <<replies, handlers, current, config, settings>>
        BY <1>3 DEF Save, Close, Lookup, ClientOnly, configVars
    <2>4. PICK m \in Message : m = [op |-> op, uri |-> u]
        BY <2>1
    <2>5. QED
        BY <2>1, <2>2, <2>3, <2>4, UserTells
<1>4. ASSUME NEW st \in SettingsChoices, NEW empty \in BOOLEAN, ChangeSettings(st, empty)
      PROVE  UserInv'
    <2> DEFINE m == [op |-> "did_change_configuration", empty |-> empty, settings |-> st]
    <2>1. m \in Message /\ Brings(m) /\ m.settings = st
        BY DEF Message, Brings
    <2>2. Tell(m) /\ UNCHANGED <<replies, handlers, current, config>> /\ settings' = st
        BY <1>4 DEF ChangeSettings, ClientOnly, configVars
    <2> HIDE DEF m
    <2>3. QED
        BY <2>1, <2>2, UserTells
<1>5. ASSUME NEW g \in Global, AddGlobal(g)
      PROVE  UserInv'
    <2> DEFINE m == [op |-> "add_global", name |-> g]
    <2>1. m \in Message /\ ~Brings(m)
        BY DEF Message, Brings
    <2>2. Tell(m) /\ UNCHANGED <<replies, handlers, current, config, settings>>
        BY <1>5 DEF AddGlobal, ClientOnly, configVars
    <2> HIDE DEF m
    <2>3. QED
        BY <2>1, <2>2, UserTells
<1>6. ASSUME NEW f \in Folder, ChangeFolders(f)
      PROVE  UserInv'
    <2> DEFINE m == [op |-> "did_change_workspace_folders",
                     added |-> {f} \ workspace_map, removed |-> {f} \cap workspace_map]
    <2>1. m \in Message /\ ~Brings(m)
        BY DEF Message, Brings
    <2>2. Tell(m) /\ UNCHANGED <<replies, handlers, current, config, settings>>
        BY <1>6 DEF ChangeFolders, ClientOnly, configVars
    <2> HIDE DEF m
    <2>3. QED
        BY <2>1, <2>2, UserTells
<1>7. CASE ReportChanges
    <2> DEFINE m == [op |-> "did_change_watched_files", changes |-> changes]
    <2>1. m \in Message /\ ~Brings(m)
        BY DEF Message, Brings
    <2>2. Tell(m) /\ UNCHANGED <<replies, handlers, current, config, settings>>
        BY <1>7 DEF ReportChanges, ClientOnly, configVars
    <2> HIDE DEF m
    <2>3. QED
        BY <2>1, <2>2, UserTells
<1>8. ASSUME NEW u \in File, NEW t, ExternalChange(u, t)
      PROVE  UserInv'
    <2>1. UNCHANGED <<inbox, replies, handlers, current, config, settings>>
        BY <1>8 DEF ExternalChange, ClientOnly, configVars
    <2>2. QED
        BY <2>1 DEF UserInv, LastBrings, NoneBrings, Brings, Configured, Pulls
<1>9. QED
    BY <1>1, <1>2, <1>3, <1>4, <1>5, <1>6, <1>7, <1>8 DEF User

\* The invariant holds in every state the server reaches, if the client answers
\* every request for the settings.
LEMMA UserInvInductive ==
    ASSUME PullSupported, "fail" \notin ClientOps
    PROVE  Spec => []UserInv
<1>1. Init => UserInv
    <2>1. Init => /\ inbox = <<[op |-> "initialized"]>> /\ replies = <<>> /\ current = NoSlot
                  /\ \A s \in Slot : handlers[s] = Idle
        BY DEF Init
    <2>2. Init => inbox[1].op = "initialized" /\ DOMAIN inbox = {1}
        BY <2>1
    <2>3. QED
        BY <2>1, <2>2 DEF UserInv, NoneBrings, Brings, Idle
<1>2. ASSUME TypeInv, UserInv, [Next]_vars
      PROVE  UserInv'
    <2>1. CASE UNCHANGED vars
        BY <1>2, <2>1 DEF UserInv, LastBrings, NoneBrings, Brings, Configured, Pulls, vars, clientVars,
           taskVars, configVars
    <2>2. ASSUME NEW s \in Slot, ServerStep(s)
          PROVE  UserInv'
        BY <1>2, <2>2, UserStart, UserServer DEF TypeInv, ServerStep
    <2>3. QED
        BY <1>2, <2>1, <2>2, UserAnswer, UserClient DEF Next, TypeInv
<1>3. QED
    BY <1>1, <1>2, TypeInvInductive, PTL DEF Spec

\* UserGlobalsAreInForce: whatever handlers interleave with the pull of the
\* settings and with each other's sends, the last ones the user chose win once
\* everything is handled, and the globals cache has been brought up to them. A
\* client that cannot be asked, or fails to answer, leaves what initialize was given.
THEOREM UserGlobalsWin ==
    ASSUME PullSupported, "fail" \notin ClientOps
    PROVE  Spec => []UserGlobalsAreInForce
<1>1. ASSUME UserInv, GlobalsInv, Quiescent, settings.has_fennel
      PROVE  /\ settings.fennel.globals \subseteq config.fennel.globals
             /\ reconfigured => settings.fennel.globals \subseteq globals_cache
    <2>1. Configured
        BY <1>1 DEF UserInv, Quiescent, LastBrings, Pulls, Idle
    <2>2. settings.fennel.globals \subseteq config.fennel.globals
        BY <1>1, <2>1 DEF Configured
    <2>3. Fresh
        BY <1>1 DEF GlobalsInv, Quiescent, Owes, Idle
    <2>4. config.fennel.globals \subseteq GlobalsOf(config)
        BY DEF GlobalsOf
    <2>5. QED
        BY <2>2, <2>3, <2>4 DEF Fresh
<1>2. UserInv /\ GlobalsInv => UserGlobalsAreInForce
    BY <1>1 DEF UserGlobalsAreInForce
<1>3. QED
    BY <1>2, UserInvInductive, GlobalsInvInductive, PTL


-----------------------------------------------------------------------------
(* The index covers the workspace, if the client closes no file *)

\* The handler of `initialized` is on its way to index the folders.
WillIndex(h) ==
    /\ h.msg.op = "initialized"
    /\ \/ h.pc \in {"initialized", "await_register", "pull", "await_pull", "reload", "reload_publish",
                    "index"}
       \/ h.pc \in {"refresh", "publish_each"} /\ h.ret \in {"reload", "index"}

\* It stays on its way until it does.
LEMMA IndexStays ==
    ASSUME ServerType, NEW s \in Slot, HandlerStep(s), WillIndex(handlers[s]), ~initialized_index(s)
    PROVE  WillIndex(handlers'[s])
<1> USE DEF ServerType
<1>h. PICK h : h = handlers[s]
    OBVIOUS
<1>0. Locals(h) /\ h \in Handler
    BY <1>h, AtType
<1>w. /\ h.msg.op = "initialized"
      /\ h.pc \in {"initialized", "await_register", "pull", "await_pull", "reload", "reload_publish",
                   "index", "refresh", "publish_each"}
      /\ h.pc \in {"refresh", "publish_each"} => h.ret \in {"reload", "index"}
    BY <1>h DEF WillIndex
<1>1. ASSUME NEW g, NEW b \in BOOLEAN, Continue(s, g, b), WillIndex(g)
      PROVE  WillIndex(handlers'[s])
    <2>1. g.pc # "done"
        BY <1>1 DEF WillIndex
    <2>2. handlers'[s] = g
        BY <1>1, <2>1, GoesOn
    <2>3. QED
        BY <1>1, <2>2
<1>2. ASSUME NEW pc \in {"pull", "await_register", "await_pull", "reload", "index"},
             \/ Await(s, pc) \/ Goto(s, pc)
             \/ \E b \in BOOLEAN : Continue(s, [h EXCEPT !.pc = pc], b)
      PROVE  WillIndex(handlers'[s])
    <2> DEFINE g == [h EXCEPT !.pc = pc]
    <2>1. g.pc = pc /\ g.msg = h.msg
        BY <1>0 DEF Handler
    <2>2. handlers' = [handlers EXCEPT ![s] = g] \/ \E b \in BOOLEAN : Continue(s, g, b)
        BY <1>2, <1>h DEF Await, Goto
    <2> HIDE DEF g
    <2>3. WillIndex(g)
        BY <1>w, <2>1 DEF WillIndex
    <2>4. handlers' = [handlers EXCEPT ![s] = g] => handlers'[s] = g
        BY DEF HandlersInv
    <2>5. QED
        BY <1>1, <2>2, <2>3, <2>4
<1>3. CASE Resume(s)
    BY <1>3, <1>h DEF Resume
<1>5. CASE register_file_watchers(s) \/ Registered(s) \/ pull_configuration(s)
    <2>1. \/ Await(s, "await_register") \/ Await(s, "await_pull") \/ Goto(s, "reload")
          \/ \E b \in BOOLEAN : Continue(s, [h EXCEPT !.pc = "pull"], b)
        BY <1>5, <1>h DEF register_file_watchers, Registered, pull_configuration
    <2>2. QED
        BY <1>2, <2>1
<1>6. CASE apply_pulled_configuration(s)
    <2> DEFINE g == [h EXCEPT !.pc = "refresh", !.ret = "reload"]
    <2>1. g.pc = "refresh" /\ g.ret = "reload" /\ g.msg = h.msg
        BY <1>0 DEF Handler
    <2>2. Goto(s, "reload") \/ Continue(s, g, FALSE)
        BY <1>6, <1>h DEF apply_pulled_configuration
    <2> HIDE DEF g
    <2>3. WillIndex(g)
        BY <1>w, <2>1 DEF WillIndex
    <2>4. QED
        BY <1>1, <1>2, <2>2, <2>3
<1>7. CASE refresh_ast_globals_and_diagnostics(s)
    <2>1. h.pc = "refresh"
        BY <1>7, <1>h, <1>w DEF refresh_ast_globals_and_diagnostics, At
    <2> DEFINE g == [h EXCEPT !.pc = "publish_each",
                              !.ret = IF h.pc = "refresh_again" THEN "done" ELSE @, !.todo = updated]
    <2>2. g.pc = "publish_each" /\ g.ret = h.ret /\ g.msg = h.msg
        BY <1>0, <2>1 DEF Handler
    <2>3. Continue(s, g, FALSE)
        BY <1>7, <1>h DEF refresh_ast_globals_and_diagnostics, At
    <2> HIDE DEF g
    <2>4. WillIndex(g)
        BY <1>w, <2>1, <2>2 DEF WillIndex
    <2>5. QED
        BY <1>1, <2>3, <2>4
<1>8. CASE PublishEach(s)
    <2>1. h.pc = "publish_each" /\ h.ret \in {"reload", "index"}
        BY <1>8, <1>h, <1>w DEF PublishEach, At
    <2>2. ASSUME NEW u \in h.todo, NEW b \in BOOLEAN, Continue(s, [h EXCEPT !.todo = @ \ {u}], b)
          PROVE  WillIndex(handlers'[s])
        <3>1. PICK g : g = [h EXCEPT !.todo = @ \ {u}]
            OBVIOUS
        <3>2. g.pc = "publish_each" /\ g.ret = h.ret /\ g.msg = h.msg /\ Continue(s, g, b)
            BY <1>0, <2>1, <2>2, <3>1 DEF Handler
        <3>3. WillIndex(g)
            BY <1>w, <2>1, <3>2 DEF WillIndex
        <3>4. QED
            BY <1>1, <3>2, <3>3
    <2>3. Goto(s, h.ret) => WillIndex(handlers'[s])
        BY <1>2, <2>1
    <2>4. QED
        BY <1>8, <1>h, <2>2, <2>3 DEF PublishEach, ComputeAndPublish
<1>9. CASE reload_flsproject(s)
    <2>1. AfterReload(h.msg) = "index"
        BY <1>w DEF AfterReload
    <2>2. ASSUME NEW q \in ProjectFiles, NEW b \in BOOLEAN,
                 Continue(s, [h EXCEPT !.pc = "reload_publish", !.uri = q.uri, !.text = q.text], b)
          PROVE  WillIndex(handlers'[s])
        <3> DEFINE g == [h EXCEPT !.pc = "reload_publish", !.uri = q.uri, !.text = q.text]
        <3>1. g.pc = "reload_publish" /\ g.msg = h.msg
            BY <1>0 DEF Handler
        <3>2. Continue(s, g, b)
            BY <2>2
        <3> HIDE DEF g
        <3>3. WillIndex(g)
            BY <1>w, <3>1 DEF WillIndex
        <3>4. QED
            BY <1>1, <3>2, <3>3
    <2>3. QED
        BY <1>2, <1>9, <1>h, <2>1, <2>2 DEF reload_flsproject
<1>10. CASE ReloadPublish(s)
    <2>1. AfterReload(h.msg) = "index"
        BY <1>w DEF AfterReload
    <2>2. PICK g : g = [h EXCEPT !.pc = "refresh", !.ret = AfterReload(h.msg), !.uri = None,
                                 !.text = None]
        OBVIOUS
    <2>3. /\ g.pc = "refresh" /\ g.ret = "index" /\ g.msg = h.msg
          /\ Continue(s, g, FALSE) \/ Continue(s, g, TRUE)
        BY <1>0, <1>10, <1>h, <2>1, <2>2 DEF Handler, ReloadPublish, ComputeAndPublish
    <2>4. WillIndex(g)
        BY <1>w, <2>3 DEF WillIndex
    <2>5. QED
        BY <1>1, <2>3, <2>4
<1>11. ~Start(s)
    BY <1>h, <1>w DEF Start, Idle
<1>12. ~(\/ did_open(s) \/ did_open_cache(s) \/ did_change(s) \/ did_save(s) \/ did_close(s)
         \/ did_change_watched_files(s) \/ WatchedFile(s) \/ did_change_workspace_folders(s)
         \/ did_change_configuration(s) \/ add_global(s) \/ lookup(s))
    BY <1>h, <1>w DEF At, did_open, did_open_cache, did_change, did_save, did_close,
       did_change_watched_files, WatchedFile, did_change_workspace_folders, did_change_configuration,
       add_global, lookup
<1>13. QED
    BY <1>3, <1>5, <1>6, <1>7, <1>8, <1>9, <1>10, <1>11, <1>12 DEF HandlerStep

-----------------------------------------------------------------------------
(* Creations and deletions on their way *)

\* The changes c create u, and delete it only before they create it.
Creates(c, u) == \E i \in DOMAIN c : c[i].uri = u /\ ~c[i].deleted
Undone(c, u) ==
    \A i \in DOMAIN c : c[i].uri = u /\ c[i].deleted =>
        \E j \in DOMAIN c : j > i /\ c[j].uri = u /\ ~c[j].deleted

Reports(m) == m.op = "did_change_watched_files"

\* A creation of u waits at the client, or in a message behind place i.
CreationBehind(i, u) ==
    \/ Creates(changes, u)
    \/ \E j \in DOMAIN inbox : j > i /\ Reports(inbox[j]) /\ Creates(inbox[j].changes, u)

\* A creation of u is on its way,
CreationComes(u) == CreationBehind(0, u) \/ \E s \in Slot : Creates(ChangesOf(handlers[s]), u)

\* or at least there is one behind every deletion of u.
DeletionsUndone(u) ==
    /\ Undone(changes, u)
    /\ \A i \in DOMAIN inbox :
          Reports(inbox[i]) => Undone(inbox[i].changes, u) \/ CreationBehind(i, u)
    /\ \A s \in Slot : Undone(ChangesOf(handlers[s]), u) \/ CreationBehind(0, u)

NothingReported ==
    /\ changes = <<>> /\ \A i \in DOMAIN inbox : ~Reports(inbox[i])
    /\ \A s \in Slot : ChangesOf(handlers[s]) = <<>>

\* Without the first change,
LEMMA FirstChange ==
    ASSUME NEW c \in Seq(FileChange), c # <<>>, NEW u
    PROVE  /\ Creates(c, u) => Creates(Tail(c), u) \/ (Head(c).uri = u /\ ~Head(c).deleted)
           /\ Undone(c, u) => Undone(Tail(c), u)
           /\ Undone(c, u) /\ Head(c).uri = u /\ Head(c).deleted => Creates(Tail(c), u)
<1>1. PICK d, n : d = Tail(c) /\ n = Len(c)
    OBVIOUS
<1>2. /\ n \in Nat /\ n # 0 /\ DOMAIN c = 1..n /\ DOMAIN d = 1..(n - 1) /\ Head(c) = c[1]
      /\ \A i \in 1..(n - 1) : d[i] = c[i + 1]
    BY <1>1
<1>3. \A i \in 1..n : i = 1 \/ (i - 1 \in 1..(n - 1) /\ d[i - 1] = c[i])
    <2>1. \A i \in 1..n : i # 1 => i - 1 \in 1..(n - 1) /\ (i - 1) + 1 = i
        BY <1>2
    <2>2. QED
        BY <1>2, <2>1
<1>4. Creates(c, u) => Creates(d, u) \/ (c[1].uri = u /\ ~c[1].deleted)
    BY <1>2, <1>3 DEF Creates
<1>5. ASSUME Undone(c, u)
      PROVE  Undone(d, u)
    <2>1. SUFFICES ASSUME NEW i \in 1..(n - 1), d[i].uri = u, d[i].deleted
                   PROVE  \E j \in 1..(n - 1) : j > i /\ d[j].uri = u /\ ~d[j].deleted
        BY <1>2 DEF Undone
    <2>2. i + 1 \in 1..n /\ c[i + 1] = d[i]
        BY <1>2
    <2>3. PICK j \in 1..n : j > i + 1 /\ c[j].uri = u /\ ~c[j].deleted
        BY <1>2, <1>5, <2>1, <2>2 DEF Undone
    <2>4. j # 1 /\ j - 1 > i
        BY <1>2, <2>3
    <2>5. j - 1 \in 1..(n - 1) /\ d[j - 1] = c[j]
        BY <1>3, <2>4
    <2>6. QED
        BY <2>3, <2>4, <2>5
<1>6. ASSUME Undone(c, u), c[1].uri = u, c[1].deleted
      PROVE  Creates(d, u)
    <2>1. 1 \in 1..n
        BY <1>2
    <2>2. PICK j \in 1..n : j > 1 /\ c[j].uri = u /\ ~c[j].deleted
        BY <1>2, <1>6, <2>1 DEF Undone
    <2>3. j # 1
        BY <2>2
    <2>4. QED
        BY <1>2, <1>3, <2>2, <2>3 DEF Creates
<1>7. QED
    BY <1>1, <1>2, <1>4, <1>5, <1>6

\* and with one more.
LEMMA LastChange ==
    ASSUME NEW c \in Seq(FileChange), NEW x \in FileChange, NEW u
    PROVE  /\ Creates(c, u) => Creates(Append(c, x), u)
           /\ Undone(c, u) /\ (x.uri = u => ~x.deleted) => Undone(Append(c, x), u)
           /\ x.uri = u /\ ~x.deleted => Creates(Append(c, x), u) /\ Undone(Append(c, x), u)
<1>1. PICK d, n : d = Append(c, x) /\ n = Len(c)
    OBVIOUS
<1>2. /\ n \in Nat /\ DOMAIN c = 1..n /\ DOMAIN d = 1..(n + 1) /\ d[n + 1] = x
      /\ \A i \in 1..n : d[i] = c[i] /\ i \in 1..(n + 1)
    BY <1>1
<1>3. \A i \in 1..(n + 1) : i = n + 1 \/ (i \in 1..n /\ i < n + 1)
    BY <1>2
<1>4. n + 1 \in 1..(n + 1)
    BY <1>2
<1>5. Creates(c, u) => Creates(d, u)
    BY <1>2 DEF Creates
<1>6. ASSUME Undone(c, u), x.uri = u => ~x.deleted
      PROVE  Undone(d, u)
    <2>1. SUFFICES ASSUME NEW i \in 1..(n + 1), d[i].uri = u, d[i].deleted
                   PROVE  \E j \in 1..(n + 1) : j > i /\ d[j].uri = u /\ ~d[j].deleted
        BY <1>2 DEF Undone
    <2>2. i \in 1..n /\ d[i] = c[i]
        BY <1>2, <1>3, <1>6, <2>1
    <2>3. PICK j \in 1..n : j > i /\ c[j].uri = u /\ ~c[j].deleted
        BY <1>2, <1>6, <2>1, <2>2 DEF Undone
    <2>4. QED
        BY <1>2, <2>3
<1>7. ASSUME x.uri = u, ~x.deleted
      PROVE  Creates(d, u) /\ Undone(d, u)
    <2>1. Creates(d, u)
        BY <1>2, <1>4, <1>7 DEF Creates
    <2>2. ASSUME NEW i \in 1..(n + 1), d[i].deleted
          PROVE  \E j \in 1..(n + 1) : j > i /\ d[j].uri = u /\ ~d[j].deleted
        <3>1. i < n + 1
            BY <1>2, <1>3, <1>7, <2>2
        <3>2. n + 1 > i
            BY <1>2, <3>1
        <3>3. QED
            BY <1>2, <1>4, <1>7, <3>2
    <2>3. QED
        BY <1>2, <2>1, <2>2 DEF Undone
<1>8. QED
    BY <1>1, <1>5, <1>6, <1>7

-----------------------------------------------------------------------------
(* What is on its way stays there until its handler has gone through it *)

Watchers == {"did_change_watched_files", "watched_file"}

\* A handler with changes to go through has the task.
WatchersAlone == \A s \in Slot : handlers[s].pc \in Watchers => current = s

\* What is said of u now is said of it then.
StaysSo(u) ==
    /\ DeletionsUndone(u) => DeletionsUndone(u)'
    /\ CreationComes(u) => CreationComes(u)'

LEMMA NothingMoves ==
    ASSUME UNCHANGED <<changes, inbox>>,
           \A r \in Slot : ChangesOf(handlers'[r]) = ChangesOf(handlers[r]), NEW u
    PROVE  StaysSo(u) /\ (NothingReported => NothingReported')
BY DEF StaysSo, DeletionsUndone, CreationComes, CreationBehind, NothingReported, Reports

\* The handler of the first message takes its changes over.
LEMMA StartTakes ==
    ASSUME ServerType, WatchersAlone, NEW s \in Slot, Start(s), NEW u
    PROVE  StaysSo(u) /\ (NothingReported => NothingReported')
<1> USE DEF ServerType
<1>q. PICK q, m, n : q = inbox /\ m = Head(inbox) /\ n = Len(inbox)
    OBVIOUS
<1>1. /\ n \in Nat /\ n # 0 /\ DOMAIN q = 1..n /\ m = q[1] /\ DOMAIN inbox' = 1..(n - 1)
      /\ \A i \in 1..(n - 1) : inbox'[i] = q[i + 1]
      /\ m \in Message
    BY <1>q DEF MailType, Start
<1>2. changes' = changes
    BY DEF Start, clientVars
<1>3. \A r \in Slot : ChangesOf(handlers[r]) = <<>>
    BY DEF WatchersAlone, Watchers, Start, ChangesOf
<1>4. ChangesOf(handlers'[s]) = IF Reports(m) THEN m.changes ELSE <<>>
    <2>1. handlers'[s].msg = m /\ handlers'[s].pc = m.op /\ handlers'[s].pc # "watched_file"
        BY <1>q, StartsOn DEF Entry
    <2>2. QED
        BY <2>1 DEF ChangesOf, Reports
<1>5. \A r \in Slot \ {s} : ChangesOf(handlers'[r]) = <<>>
    BY <1>3, OthersStay DEF HandlerStep
<1>6. \A i \in 1..n : i = 1 \/ (i - 1 \in 1..(n - 1) /\ inbox'[i - 1] = q[i])
    <2>1. \A i \in 1..n : i # 1 => i - 1 \in 1..(n - 1) /\ (i - 1) + 1 = i
        BY <1>1
    <2>2. QED
        BY <1>1, <2>1
<1>7. ASSUME NEW i \in 1..n, CreationBehind(i, u)
      PROVE  CreationBehind(i - 1, u)'
    <2>1. CASE Creates(changes, u)
        BY <1>2, <2>1 DEF CreationBehind
    <2>2. ASSUME NEW j \in 1..n, j > i, Reports(q[j]), Creates(q[j].changes, u)
          PROVE  CreationBehind(i - 1, u)'
        <3>1. j # 1 /\ j - 1 > i - 1
            BY <1>1, <2>2
        <3>2. j - 1 \in 1..(n - 1) /\ inbox'[j - 1] = q[j]
            BY <1>6, <3>1
        <3>3. QED
            BY <1>1, <2>2, <3>1, <3>2 DEF CreationBehind, Reports
    <2>3. QED
        BY <1>7, <1>q, <1>1, <2>1, <2>2 DEF CreationBehind
<1>e. ~Creates(<<>>, u) /\ Undone(<<>>, u)
    BY DEF Creates, Undone
<1>8. ASSUME CreationComes(u)
      PROVE  CreationComes(u)'
    <2>1. CreationBehind(0, u)
        BY <1>8, <1>3, <1>e DEF CreationComes
    <2>2. CASE Creates(changes, u)
        BY <1>2, <2>2 DEF CreationComes, CreationBehind
    <2>3. ASSUME NEW j \in 1..n, Reports(q[j]), Creates(q[j].changes, u)
          PROVE  CreationComes(u)'
        <3>1. CASE j = 1
            <4>1. Creates(ChangesOf(handlers'[s]), u)
                BY <1>1, <1>4, <2>3, <3>1
            <4>2. QED
                BY <4>1 DEF CreationComes
        <3>2. CASE j # 1
            <4>1. j - 1 \in 1..(n - 1) /\ inbox'[j - 1] = q[j] /\ j - 1 > 0
                BY <1>1, <1>6, <3>2
            <4>2. QED
                BY <1>1, <2>3, <4>1 DEF CreationComes, CreationBehind, Reports
        <3>3. QED
            BY <3>1, <3>2
    <2>4. QED
        BY <1>q, <1>1, <2>1, <2>2, <2>3 DEF CreationBehind
<1>9. ASSUME DeletionsUndone(u)
      PROVE  DeletionsUndone(u)'
    <2>1. Undone(changes', u)
        BY <1>2, <1>9 DEF DeletionsUndone
    <2>2. ASSUME NEW i \in 1..n, Reports(q[i])
          PROVE  Undone(q[i].changes, u) \/ CreationBehind(i - 1, u)'
        BY <1>q, <1>1, <1>7, <1>9, <2>2 DEF DeletionsUndone
    <2>3. ASSUME NEW i \in 1..(n - 1), Reports(inbox'[i])
          PROVE  Undone(inbox'[i].changes, u) \/ CreationBehind(i, u)'
        <3>1. i + 1 \in 1..n /\ (i + 1) - 1 = i /\ inbox'[i] = q[i + 1]
            BY <1>1
        <3>2. QED
            BY <2>2, <2>3, <3>1
    <2>4. ASSUME NEW r \in Slot
          PROVE  Undone(ChangesOf(handlers'[r]), u) \/ CreationBehind(0, u)'
        <3>1. CASE r = s /\ Reports(m)
            <4>1. 1 \in 1..n /\ 1 - 1 = 0
                BY <1>1
            <4>2. Undone(q[1].changes, u) \/ CreationBehind(0, u)'
                BY <1>1, <2>2, <3>1, <4>1
            <4>3. QED
                BY <1>1, <1>4, <3>1, <4>2
        <3>2. CASE ~(r = s /\ Reports(m))
            BY <1>4, <1>5, <1>e, <3>2
        <3>3. QED
            BY <3>1, <3>2
    <2>5. QED
        BY <1>1, <2>1, <2>3, <2>4 DEF DeletionsUndone, Reports
<1>10. ASSUME NothingReported
       PROVE  NothingReported'
    <2>1. changes = <<>> /\ \A i \in 1..n : ~Reports(q[i])
        BY <1>10, <1>q, <1>1 DEF NothingReported
    <2>2. ~Reports(m)
        BY <1>1, <2>1
    <2>3. \A i \in 1..(n - 1) : ~Reports(inbox'[i])
        <3>1. \A i \in 1..(n - 1) : i + 1 \in 1..n /\ inbox'[i] = q[i + 1]
            BY <1>1
        <3>2. QED
            BY <2>1, <3>1
    <2>4. \A r \in Slot : ChangesOf(handlers'[r]) = <<>>
        BY <1>4, <1>5, <2>2
    <2>5. QED
        BY <1>1, <1>2, <2>1, <2>3, <2>4 DEF NothingReported, Reports
<1>11. QED
    BY <1>8, <1>9, <1>10 DEF StaysSo

\* A change that is gone through is gone; a deletion of u has its creation behind it.
LEMMA WatchedGoes ==
    ASSUME ServerType, NEW s \in Slot, WatchedFile(s), NEW u
    PROVE  LET left == handlers[s].left
           IN  /\ NothingReported => NothingReported'
               /\ DeletionsUndone(u) => DeletionsUndone(u)'
               /\ CreationComes(u) =>
                      \/ CreationComes(u)'
                      \/ left # <<>> /\ Head(left).uri = u /\ ~Head(left).deleted
               /\ DeletionsUndone(u) /\ left # <<>> /\ Head(left).uri = u /\ Head(left).deleted =>
                      CreationComes(u)'
<1> USE DEF ServerType
<1>h. PICK h : h = handlers[s]
    OBVIOUS
<1>c. PICK c : c = h.left
    OBVIOUS
<1>0. h \in Handler /\ c \in Seq(FileChange) /\ h.pc = "watched_file" /\ ChangesOf(h) = c
    BY <1>h, <1>c, AtType DEF WatchedFile, At, Handler, ChangesOf
<1>1. \A r \in Slot \ {s} : handlers'[r] = handlers[r]
    BY OthersStay DEF HandlerStep
<1>2. UNCHANGED <<changes, inbox>>
    BY DEF WatchedFile, clientVars
<1>3. CASE c = <<>>
    <2>1. Goto(s, "reload") \/ Goto(s, "done")
        BY <1>3, <1>h, <1>c DEF WatchedFile
    <2>2. handlers'[s].pc \in {"reload", "done"}
        <3>1. handlers'[s] \in {Idle, [h EXCEPT !.pc = "reload"]}
            BY <1>h, <2>1, Moves
        <3>2. QED
            BY <1>0, <3>1 DEF Handler, Idle
    <2>3. ChangesOf(handlers'[s]) = ChangesOf(h)
        BY <1>0, <1>3, <2>2 DEF ChangesOf
    <2>4. \A r \in Slot : ChangesOf(handlers'[r]) = ChangesOf(handlers[r])
        BY <1>h, <1>1, <2>3
    <2>5. StaysSo(u) /\ (NothingReported => NothingReported')
        BY <1>2, <2>4, NothingMoves
    <2>6. QED
        BY <1>3, <1>h, <1>c, <2>5 DEF StaysSo
<1>4. CASE c # <<>>
    <2> DEFINE g == [h EXCEPT !.left = Tail(@)]
    <2>1. g.pc = "watched_file" /\ g.left = Tail(c) /\ Continue(s, g, FALSE)
        BY <1>0, <1>4, <1>h, <1>c DEF WatchedFile, Handler
    <2> HIDE DEF g
    <2>2. handlers'[s] = g
        BY <2>1, GoesOn
    <2>3. PICK d : d = Tail(c) /\ ChangesOf(handlers'[s]) = d
        BY <2>1, <2>2 DEF ChangesOf
    <2>4. /\ Creates(c, u) => Creates(d, u) \/ (Head(c).uri = u /\ ~Head(c).deleted)
          /\ Undone(c, u) => Undone(d, u)
          /\ Undone(c, u) /\ Head(c).uri = u /\ Head(c).deleted => Creates(d, u)
        <3>1. c \in Seq(FileChange) /\ c # <<>> /\ d = Tail(c)
            BY <1>0, <1>4, <2>3
        <3>2. QED
            BY <3>1, FirstChange
    <2>5. \A i : CreationBehind(i, u) => CreationBehind(i, u)'
        BY <1>2 DEF CreationBehind, Reports
    <2>6. ~NothingReported
        BY <1>0, <1>4, <1>h DEF NothingReported
    <2>7. DeletionsUndone(u) => DeletionsUndone(u)'
        <3>1. ASSUME DeletionsUndone(u), NEW r \in Slot
              PROVE  Undone(ChangesOf(handlers'[r]), u) \/ CreationBehind(0, u)'
            <4>1. Undone(ChangesOf(handlers[r]), u) \/ CreationBehind(0, u)'
                BY <3>1, <2>5 DEF DeletionsUndone
            <4>2. CASE r = s
                BY <4>1, <4>2, <1>0, <1>h, <2>3, <2>4
            <4>3. CASE r # s
                BY <4>1, <4>3, <1>1
            <4>4. QED
                BY <4>2, <4>3
        <3>2. QED
            BY <1>2, <2>5, <3>1 DEF DeletionsUndone, Reports
    <2>8. ASSUME CreationComes(u)
          PROVE  CreationComes(u)' \/ (Head(c).uri = u /\ ~Head(c).deleted)
        <3>1. CASE CreationBehind(0, u)
            BY <2>5, <3>1 DEF CreationComes
        <3>2. ASSUME NEW r \in Slot, Creates(ChangesOf(handlers[r]), u)
              PROVE  CreationComes(u)' \/ (Head(c).uri = u /\ ~Head(c).deleted)
            <4>1. CASE r = s
                <5>1. Creates(d, u) \/ (Head(c).uri = u /\ ~Head(c).deleted)
                    BY <1>0, <1>h, <2>4, <3>2, <4>1
                <5>2. QED
                    BY <2>3, <5>1 DEF CreationComes
            <4>2. CASE r # s
                <5>1. Creates(ChangesOf(handlers'[r]), u)
                    BY <1>1, <3>2, <4>2
                <5>2. QED
                    BY <5>1 DEF CreationComes
            <4>3. QED
                BY <4>1, <4>2
        <3>3. QED
            BY <2>8, <3>1, <3>2 DEF CreationComes
    <2>9. ASSUME DeletionsUndone(u), Head(c).uri = u, Head(c).deleted
          PROVE  CreationComes(u)'
        <3>1. Undone(c, u) \/ CreationBehind(0, u)'
            BY <1>0, <1>h, <2>5, <2>9 DEF DeletionsUndone
        <3>2. CASE Undone(c, u)
            <4>1. Creates(ChangesOf(handlers'[s]), u)
                BY <2>3, <2>4, <2>9, <3>2
            <4>2. QED
                BY <4>1 DEF CreationComes
        <3>3. CASE CreationBehind(0, u)'
            BY <3>3 DEF CreationComes
        <3>4. QED
            BY <3>1, <3>2, <3>3
    <2>10. QED
        BY <1>4, <1>h, <1>c, <2>6, <2>7, <2>8, <2>9
<1>5. QED
    BY <1>3, <1>4

\* The other steps of handlers leave what is on its way alone.
LEMMA StepLeaves ==
    ASSUME ServerType, NEW s \in Slot, HandlerStep(s), ~Start(s), ~WatchedFile(s), NEW u
    PROVE  StaysSo(u) /\ (NothingReported => NothingReported')
<1> USE DEF ServerType
<1>h. PICK h : h = handlers[s]
    OBVIOUS
<1>0. HandlerInv(h) /\ h \in Handler
    BY <1>h, AtType
<1>1. UNCHANGED <<changes, inbox>>
    BY DEF clientVars, HandlerStep, Resume, register_file_watchers, Registered, initialized_index,
       pull_configuration, apply_pulled_configuration, refresh_ast_globals_and_diagnostics, PublishEach,
       reload_flsproject, ReloadPublish, did_open, did_open_cache, did_change, did_save, did_close,
       did_change_watched_files, did_change_workspace_folders, did_change_configuration, add_global,
       lookup
<1>2. ChangesOf(handlers'[s]) = ChangesOf(h)
    <2>1. CASE Resume(s)
        BY <2>1, <1>h DEF Resume
    <2>2. CASE did_change_watched_files(s)
        <3> DEFINE g == [h EXCEPT !.pc = "watched_file", !.left = h.msg.changes]
        <3>1. /\ h.pc = "did_change_watched_files" /\ g.pc = "watched_file" /\ g.left = h.msg.changes
              /\ Continue(s, g, FALSE)
            BY <1>0, <1>h, <2>2 DEF did_change_watched_files, At, Handler
        <3> HIDE DEF g
        <3>2. handlers'[s] = g
            BY <3>1, GoesOn
        <3>3. QED
            BY <3>1, <3>2 DEF ChangesOf
    <2>3. CASE ~Resume(s) /\ ~did_change_watched_files(s)
        <3>1. handlers'[s].pc \notin Watchers
            BY <2>3, MovesOn DEF Watchers, Entry
        <3>2. h.pc \notin Watchers
            BY <2>3, <1>h DEF Watchers, At, HandlerStep, register_file_watchers, Registered,
               initialized_index, pull_configuration, apply_pulled_configuration,
               refresh_ast_globals_and_diagnostics, PublishEach, reload_flsproject, ReloadPublish,
               did_open, did_open_cache, did_change, did_save, did_close, did_change_workspace_folders,
               did_change_configuration, add_global, lookup
        <3>3. QED
            BY <3>1, <3>2 DEF ChangesOf, Watchers
    <2>4. QED
        BY <2>1, <2>2, <2>3
<1>3. \A r \in Slot : ChangesOf(handlers'[r]) = ChangesOf(handlers[r])
    BY <1>h, <1>2, OthersStay
<1>4. QED
    BY <1>1, <1>3, NothingMoves

-----------------------------------------------------------------------------
(* What is read *)

\* Folders that are read have no file on disk without an Ast.
LEMMA IndexCoversFolders ==
    ASSUME ServerType, NEW folders, IndexFolders(folders), NEW f \in folders, NEW u \in FilesIn[f],
           u \in File, disk[u] # None
    PROVE  ast_map'[u] # NoAst
<1> DEFINE found == {v \in UNION {FilesIn[k] : k \in folders} : ast_map[v] = NoAst /\ disk[v] # None}
<1>1. ast_map'[u] = IF u \in found THEN parse_shared(disk[u], globals_cache) ELSE ast_map[u]
    BY DEF IndexFolders
<1>2. u \in found \/ ast_map[u] # NoAst
    OBVIOUS
<1> HIDE DEF found
<1>3. QED
    BY <1>1, <1>2 DEF parse_shared, NoAst

\* A file that is not open never comes to have a text and no Ast, and only a change
\* that is gone through takes an Ast away, unless a file is closed.
LEMMA AstsStay ==
    ASSUME ServerType, NEW s \in Slot, HandlerStep(s), ~did_close(s), NEW u \in File
    PROVE  /\ u \in open_docs => u \in open_docs'
           /\ ~WatchedFile(s) /\ ast_map[u] # NoAst => ast_map'[u] # NoAst
           /\ u \notin open_docs' /\ doc_map'[u] # None /\ ast_map'[u] = NoAst =>
                  doc_map[u] # None /\ ast_map[u] = NoAst
<1> USE DEF ServerType
<1>h. PICK h : h = handlers[s]
    OBVIOUS
<1>m. PICK m : m = h.msg
    OBVIOUS
<1>0. HandlerInv(h) /\ h \in Handler
    BY <1>h, AtType
<1>d. /\ doc_map \in [File -> Text \cup {None}] /\ ast_map \in [File -> Ast \cup {NoAst}]
      /\ disk \in [File -> Text \cup {None}]
    BY DEF DocType, ClientType
<1>a. /\ \A ast \in Ast : ast # NoAst
      /\ \A t, globals : t # None => parse_shared(t, globals) # NoAst
    BY DEF Ast, NoAst, parse_shared
<1>1. CASE did_open(s)
    <2>1. /\ m.uri \in File
          /\ doc_map' = [doc_map EXCEPT ![m.uri] = m.text]
          /\ open_docs' = open_docs \cup {m.uri}
          /\ ast_map' = ast_map
        BY <1>1, <1>h, <1>m, OpeningKeepsMessage DEF did_open
    <2>2. QED
        BY <1>d, <2>1
<1>2. CASE did_open_cache(s)
    <2>1. /\ ast_map' = [ast_map EXCEPT ![m.uri] = h.ast]
          /\ UNCHANGED <<doc_map, open_docs>>
        BY <1>2, <1>h, <1>m DEF did_open_cache
    <2>2. h.ast # NoAst
        BY <1>2, <1>0, <1>a, <1>h DEF did_open_cache, At, HandlerInv
    <2>3. QED
        BY <1>d, <2>1, <2>2
<1>3. CASE did_change(s)
    <2>1. \/ UNCHANGED <<doc_map, ast_map, open_docs>>
          \/ \E t \in Edited(doc_map[m.uri], m.base, m.text) :
                /\ doc_map' = [doc_map EXCEPT ![m.uri] = t]
                /\ ast_map' = [ast_map EXCEPT ![m.uri] = parse_shared(t, globals_cache)]
                /\ open_docs' = open_docs
        BY <1>3, <1>h, <1>m DEF did_change, docVars
    <2>2. \A t \in Edited(doc_map[m.uri], m.base, m.text) : t \in Text
        <3>1. m \in Message /\ m.op = "did_change"
            BY <1>3, <1>0, <1>h, <1>m DEF did_change, At, HandlerInv, Entry
        <3>2. QED
            BY <3>1, MessageFields DEF Edited
    <2>3. CASE UNCHANGED <<doc_map, ast_map, open_docs>>
        BY <2>3
    <2>4. ASSUME NEW t \in Edited(doc_map[m.uri], m.base, m.text),
                 doc_map' = [doc_map EXCEPT ![m.uri] = t],
                 ast_map' = [ast_map EXCEPT ![m.uri] = parse_shared(t, globals_cache)],
                 open_docs' = open_docs
          PROVE  /\ u \in open_docs => u \in open_docs'
                 /\ ast_map[u] # NoAst => ast_map'[u] # NoAst
                 /\ ast_map'[u] = NoAst => doc_map'[u] = doc_map[u] /\ ast_map[u] = NoAst
        <3>1. parse_shared(t, globals_cache) # NoAst
            BY <1>a, <2>2
        <3>2. QED
            BY <1>d, <2>4, <3>1
    <2>5. QED
        BY <2>1, <2>3, <2>4
<1>4. CASE lookup(s)
    <2> DEFINE reads == ast_map[m.uri] = NoAst /\ disk[m.uri] # None
    <2>1. /\ doc_map' = [doc_map EXCEPT ![m.uri] = IF reads THEN disk[m.uri] ELSE @]
          /\ ast_map' = [ast_map EXCEPT ![m.uri] = IF reads THEN parse_shared(disk[m.uri], globals_cache)
                                                            ELSE @]
          /\ open_docs' = open_docs
        BY <1>4, <1>h, <1>m DEF lookup
    <2>2. QED
        BY <1>d, <1>a, <2>1
<1>5. CASE WatchedFile(s)
    <2>1. /\ open_docs' = open_docs
          /\ \/ UNCHANGED <<doc_map, ast_map>>
             \/ \E v : Forget(v) \/ reindex_from_disk(v)
        BY <1>5 DEF WatchedFile, docVars
    <2>2. ASSUME NEW v, Forget(v) \/ reindex_from_disk(v), doc_map'[u] # None, ast_map'[u] = NoAst
          PROVE  doc_map[u] # None /\ ast_map[u] = NoAst
        <3>1. Forget(v) => doc_map[u] # None /\ ast_map[u] = NoAst
            BY <1>d, <2>2 DEF Forget
        <3>2. ASSUME disk[v] # None, ast_map' = [ast_map EXCEPT ![v] = parse_shared(disk[v], globals_cache)],
                     doc_map' = [doc_map EXCEPT ![v] = disk[v]]
              PROVE  doc_map[u] # None /\ ast_map[u] = NoAst
            <4>1. parse_shared(disk[v], globals_cache) # NoAst
                BY <1>a, <3>2
            <4>2. v # u
                BY <1>d, <2>2, <3>2, <4>1
            <4>3. QED
                BY <1>d, <2>2, <3>2, <4>2
        <3>3. QED
            BY <2>2, <3>1, <3>2 DEF reindex_from_disk
    <2>3. QED
        BY <1>5, <2>1, <2>2
<1>6. CASE refresh_ast_globals_and_diagnostics(s)
    <2>1. /\ ast_map' = AstsWith(GlobalsOf(config))
          /\ UNCHANGED <<doc_map, open_docs>>
        BY <1>6 DEF refresh_ast_globals_and_diagnostics
    <2>2. ast_map[u] # NoAst => ast_map'[u].text = ast_map[u].text /\ ast_map[u] \in Ast
        BY <1>d, <2>1 DEF AstsWith, Ast
    <2>3. \A ast \in Ast : ast.text # None
        BY DEF Ast
    <2>4. ast_map[u] # NoAst => ast_map'[u] # NoAst
        BY <2>2, <2>3 DEF NoAst
    <2>5. QED
        BY <2>1, <2>4
<1>7. CASE ReloadPublish(s)
    <2>1. /\ UNCHANGED <<doc_map, open_docs>>
          /\ \/ ast_map' = ast_map
             \/ \E ast : /\ ast_map' = [ast_map EXCEPT ![h.uri] = ast]
                         /\ ast = IF ast_map[h.uri] # NoAst THEN ast_map[h.uri]
                                  ELSE parse_shared(h.text, globals_cache)
        BY <1>7, <1>h DEF ReloadPublish
    <2>2. h.text \in Text
        BY <1>7, <1>0, <1>h DEF ReloadPublish, At, HandlerInv
    <2>3. parse_shared(h.text, globals_cache) # NoAst
        BY <1>a, <2>2
    <2>4. QED
        BY <1>d, <2>1, <2>3
<1>8. CASE \/ initialized_index(s) \/ apply_pulled_configuration(s)
           \/ did_change_workspace_folders(s) \/ did_change_configuration(s)
    <2>1. UNCHANGED <<doc_map, ast_map, open_docs>> \/ \E folders : IndexFolders(folders)
        BY <1>8 DEF initialized_index, apply_pulled_configuration, did_change_workspace_folders,
           did_change_configuration, docVars
    <2>2. ASSUME NEW folders, IndexFolders(folders)
          PROVE  /\ open_docs' = open_docs
                 /\ ast_map[u] # NoAst => ast_map'[u] # NoAst
                 /\ ast_map'[u] = NoAst => doc_map'[u] = doc_map[u] /\ ast_map[u] = NoAst
        <3> DEFINE found == {v \in UNION {FilesIn[k] : k \in folders} : ast_map[v] = NoAst /\ disk[v] # None}
        <3>1. /\ doc_map'[u] = (IF u \in found THEN disk[u] ELSE doc_map[u])
              /\ ast_map'[u] = (IF u \in found THEN parse_shared(disk[u], globals_cache) ELSE ast_map[u])
              /\ open_docs' = open_docs
              /\ u \in found => disk[u] # None
            BY <2>2 DEF IndexFolders
        <3> HIDE DEF found
        <3>2. QED
            BY <1>a, <3>1
    <2>3. QED
        BY <2>1, <2>2
<1>9. CASE \/ Start(s) \/ Resume(s) \/ register_file_watchers(s) \/ Registered(s)
           \/ pull_configuration(s) \/ PublishEach(s) \/ reload_flsproject(s) \/ did_save(s)
           \/ did_change_watched_files(s) \/ add_global(s)
    <2>1. UNCHANGED <<doc_map, ast_map, open_docs>>
        BY <1>9 DEF Start, Resume, register_file_watchers, Registered, pull_configuration,
           PublishEach, reload_flsproject, did_save, did_change_watched_files, add_global, docVars
    <2>2. QED
        BY <2>1
<1>10. QED
    BY <1>1, <1>2, <1>3, <1>4, <1>5, <1>6, <1>7, <1>8, <1>9 DEF HandlerStep

\* A folder that comes to be covered is read.
LEMMA FoldersAreRead ==
    ASSUME ServerType, NEW s \in Slot, HandlerStep(s), NEW f \in workspace_map' \cup config'.fennel.library,
           f \notin workspace_map \cup config.fennel.library,
           NEW u \in FilesIn[f], u \in File, disk[u] # None
    PROVE  ast_map'[u] # NoAst
<1> USE DEF ServerType
<1>h. PICK h : h = handlers[s]
    OBVIOUS
<1>c. config \in Configuration
    BY DEF ConfigType
<1>1. CASE did_change_workspace_folders(s)
    <2>1. PICK added, removed : /\ workspace_map' = (workspace_map \cup added) \ removed
                                /\ IndexFolders(added) /\ config' = config
        BY <1>1 DEF did_change_workspace_folders
    <2>2. f \in added
        BY <2>1
    <2>3. QED
        BY <2>1, <2>2, IndexCoversFolders
<1>2. CASE did_change_configuration(s)
    <2>1. workspace_map' = workspace_map /\ config' # config
        BY <1>2 DEF did_change_configuration
    <2>2. PICK st : config' = Deserialized(st) /\ IndexFolders(Deserialized(st).fennel.library)
        BY <1>2, <2>1 DEF did_change_configuration
    <2>3. f \in Deserialized(st).fennel.library
        BY <2>1, <2>2
    <2>4. QED
        BY <2>2, <2>3, IndexCoversFolders
<1>3. CASE apply_pulled_configuration(s)
    <2>1. workspace_map' = workspace_map /\ config' # config
        BY <1>3 DEF apply_pulled_configuration
    <2>2. PICK st :
            /\ config' = [fennel |-> IF st.has_fennel THEN st.fennel ELSE config.fennel,
                          fls |-> IF st.has_fls THEN st.fls ELSE config.fls]
            /\ IndexFolders(IF st.has_fennel THEN st.fennel.library ELSE {})
        BY <1>3, <2>1 DEF apply_pulled_configuration
    <2>3. config'.fennel = IF st.has_fennel THEN st.fennel ELSE config.fennel
        BY <2>2
    <2>4. st.has_fennel /\ f \in st.fennel.library
        BY <2>1, <2>3
    <2>5. IndexFolders(st.fennel.library)
        BY <2>2, <2>4
    <2>6. QED
        BY <2>4, <2>5, IndexCoversFolders
<1>4. CASE add_global(s)
    <2>1. PICK g : config' = [config EXCEPT !.fennel.globals = @ \cup {g}]
        BY <1>4 DEF add_global
    <2>2. config'.fennel.library = config.fennel.library /\ workspace_map' = workspace_map
        BY <1>4, <1>c, <2>1 DEF add_global, Configuration, Fennel
    <2>3. QED
        BY <2>2
<1>5. CASE reload_flsproject(s)
    <2>1. config' = config \/ \E fls : config' = [config EXCEPT !.fls = fls]
        BY <1>5 DEF reload_flsproject
    <2>2. config'.fennel = config.fennel /\ workspace_map' = workspace_map
        BY <1>5, <1>c, <2>1 DEF reload_flsproject, Configuration
    <2>3. QED
        BY <2>2
<1>6. CASE \/ Start(s) \/ Resume(s) \/ register_file_watchers(s) \/ Registered(s)
           \/ initialized_index(s) \/ pull_configuration(s) \/ refresh_ast_globals_and_diagnostics(s)
           \/ PublishEach(s) \/ ReloadPublish(s) \/ did_open(s) \/ did_open_cache(s) \/ did_change(s)
           \/ did_save(s) \/ did_close(s) \/ did_change_watched_files(s) \/ WatchedFile(s) \/ lookup(s)
    <2>1. UNCHANGED <<config, workspace_map>>
        BY <1>6 DEF Start, Resume, register_file_watchers, Registered, initialized_index,
           pull_configuration, refresh_ast_globals_and_diagnostics, PublishEach, ReloadPublish, did_open,
           did_open_cache, did_change, did_save, did_close, did_change_watched_files, WatchedFile, lookup,
           configVars
    <2>2. QED
        BY <2>1
<1>7. QED
    BY <1>1, <1>2, <1>3, <1>4, <1>5, <1>6 DEF HandlerStep

\* Going through the first change: it is of an open file, or leaves an Ast of a file
\* that is there, or deletes it.
LEMMA WatchedReads ==
    ASSUME ServerType, NEW s \in Slot, WatchedFile(s), NEW u \in File \ open_docs, disk[u] # None,
           doc_map[u] # None => ast_map[u] # NoAst
    PROVE  LET left == handlers[s].left
           IN  /\ left # <<>> /\ Head(left).uri = u /\ ~Head(left).deleted => ast_map'[u] # NoAst
               /\ ~(left # <<>> /\ Head(left).uri = u) => ast_map'[u] = ast_map[u]
<1> USE DEF ServerType
<1>c. PICK left, c : left = handlers[s].left /\ c = Head(left)
    OBVIOUS
<1>d. ast_map \in [File -> Ast \cup {NoAst}]
    BY DEF DocType
<1>1. CASE left = <<>>
    BY <1>1, <1>c DEF WatchedFile, docVars
<1>2. CASE left # <<>>
    <2>1. \/ c.uri \in open_docs /\ ast_map' = ast_map
          \/ ~c.deleted /\ reindex_from_disk(c.uri)
          \/ c.deleted /\ Forget(c.uri)
        BY <1>2, <1>c DEF WatchedFile, IsOpenBuffer
    <2>2. CASE c.uri = u
        <3>1. ASSUME ~c.deleted
              PROVE  ast_map'[u] # NoAst
            <4>1. reindex_from_disk(u)
                BY <2>1, <2>2, <3>1
            <4>2. QED
                BY <1>d, <4>1 DEF reindex_from_disk, parse_shared, NoAst
        <3>2. QED
            BY <1>2, <1>c, <2>2, <3>1
    <2>3. CASE c.uri # u
        <3>1. ast_map'[u] = ast_map[u]
            BY <1>d, <2>1, <2>3 DEF reindex_from_disk, Forget
        <3>2. QED
            BY <1>2, <1>c, <2>3, <3>1
    <2>4. QED
        BY <2>2, <2>3
<1>3. QED
    BY <1>1, <1>2

-----------------------------------------------------------------------------
(* The invariant of coverage *)

NeverCloses ==
    /\ \A i \in DOMAIN inbox : inbox[i].op # "did_close"
    /\ \A s \in Slot : handlers[s].pc # "did_close"

\* Only the handler of `initialized` registers watchers.
InitializedRegisters ==
    \A s \in Slot : handlers[s].pc = "await_register" => handlers[s].msg.op = "initialized"

ControlInv == NeverCloses /\ WatchersAlone /\ InitializedRegisters

\* A file that is not open has an Ast, if it has a text.
TextsHaveAsts == \A u \in File \ open_docs : doc_map[u] # None => ast_map[u] # NoAst

\* The file u has an Ast, or a handler is about to give it one.
Covered(u) ==
    \/ ast_map[u] # NoAst \/ u \in open_docs
    \/ CreationComes(u)
    \/ \E s \in Slot : WillIndex(handlers[s])

CoverInv ==
    /\ ControlInv /\ TextsHaveAsts
    /\ ~watching => NothingReported
    /\ watching =>
         /\ \A u \in File : disk[u] # None => DeletionsUndone(u)
         /\ \A f \in workspace_map \cup config.fennel.library : \A u \in FilesIn[f] :
                disk[u] # None => Covered(u)

-----------------------------------------------------------------------------
\* The handlers keep their order.
LEMMA ControlServer ==
    ASSUME ServerType, ControlInv, NEW s \in Slot, HandlerStep(s)
    PROVE  ControlInv'
<1> USE DEF ServerType
<1>h. PICK h : h = handlers[s]
    OBVIOUS
<1>0. HandlerInv(h) /\ h \in Handler
    BY <1>h, AtType
<1>1. \A r \in Slot \ {s} : handlers'[r] = handlers[r]
    BY OthersStay
<1>2. CASE Start(s)
    <2>1. PICK m : m = Head(inbox)
        OBVIOUS
    <2>2. m = inbox[1] /\ 1 \in DOMAIN inbox /\ m.op # "did_close"
        <3>1. m = inbox[1] /\ 1 \in DOMAIN inbox
            BY <1>2, <2>1 DEF Start, MailType
        <3>2. QED
            BY <3>1 DEF ControlInv, NeverCloses
    <2>3. /\ handlers'[s].pc = m.op /\ handlers'[s].pc \in Entry
          /\ handlers'[s].pc \in AtOnce => current' = s
        BY <1>2, <2>1, StartsOn
    <2>5. \A i \in DOMAIN inbox' : inbox'[i].op # "did_close"
        <3>1. inbox \in Seq(Message) /\ inbox # <<>> /\ inbox' = Tail(inbox)
            BY <1>2 DEF Start, MailType
        <3>2. \A i \in DOMAIN inbox' : i + 1 \in DOMAIN inbox /\ inbox'[i] = inbox[i + 1]
            BY <3>1
        <3>3. QED
            BY <3>2 DEF ControlInv, NeverCloses
    <2>6. NeverCloses'
        BY <1>1, <2>2, <2>3, <2>5 DEF ControlInv, NeverCloses
    <2>7. InitializedRegisters'
        BY <1>1, <2>3 DEF ControlInv, InitializedRegisters, Entry
    <2>8. \A r \in Slot : handlers[r].pc \notin Watchers
        BY <1>2 DEF Start, ControlInv, WatchersAlone
    <2>9. handlers'[s].pc \in Watchers => current' = s
        BY <2>3 DEF Watchers, AtOnce
    <2>10. WatchersAlone'
        BY <1>1, <2>8, <2>9 DEF WatchersAlone
    <2>11. QED
        BY <2>6, <2>7, <2>10 DEF ControlInv
<1>3. CASE Resume(s)
    <2>1. \A r \in Slot : handlers[r].pc \notin Watchers
        BY <1>3 DEF Resume, ControlInv, WatchersAlone
    <2>2. UNCHANGED <<inbox, handlers>>
        BY <1>3 DEF Resume
    <2>3. QED
        BY <2>1, <2>2 DEF ControlInv, NeverCloses, WatchersAlone, InitializedRegisters
<1>4. CASE ~Start(s) /\ ~Resume(s)
    <2>1. /\ handlers'[s].pc \notin Entry
          /\ handlers'[s].pc = "await_register" => register_file_watchers(s)
          /\ handlers'[s].pc = "watched_file" => did_change_watched_files(s) \/ WatchedFile(s)
        BY <1>4, MovesOn
    <2>2. inbox' = inbox
        BY <1>4 DEF HandlerStep, register_file_watchers, Registered, initialized_index,
           pull_configuration, apply_pulled_configuration, refresh_ast_globals_and_diagnostics, PublishEach,
           reload_flsproject, ReloadPublish, did_open, did_open_cache, did_change, did_save, did_close,
           did_change_watched_files, WatchedFile, did_change_workspace_folders, did_change_configuration,
           add_global, lookup
    <2>3. NeverCloses'
        BY <1>1, <2>1, <2>2 DEF ControlInv, NeverCloses, Entry
    <2>4. InitializedRegisters'
        <3>1. ASSUME register_file_watchers(s), handlers'[s].pc = "await_register"
              PROVE  handlers'[s].msg.op = "initialized"
            <4>1. h.msg.op = "initialized"
                BY <3>1, <1>0, <1>h DEF register_file_watchers, At, HandlerInv, Entry
            <4> DEFINE g == [h EXCEPT !.pc = "await_register"]
                       k == [h EXCEPT !.pc = "pull"]
            <4>2. g.msg = h.msg /\ k.pc = "pull"
                BY <1>0 DEF Handler
            <4>3. handlers' = [handlers EXCEPT ![s] = g] \/ \E b \in BOOLEAN : Continue(s, k, b)
                BY <3>1, <1>h DEF register_file_watchers, Await
            <4> HIDE DEF g, k
            <4>4. handlers'[s] = g \/ handlers'[s] = k
                BY <4>2, <4>3, GoesOn DEF HandlersInv
            <4>5. QED
                BY <3>1, <4>1, <4>2, <4>4
        <3>2. QED
            BY <1>1, <2>1, <3>1 DEF ControlInv, InitializedRegisters
    <2>5. current \in {s, NoSlot}
        BY HasTask
    <2>6. \A r \in Slot \ {s} : handlers'[r].pc \notin Watchers
        BY <1>1, <2>5 DEF ControlInv, WatchersAlone
    <2>7. handlers'[s].pc \in Watchers => current' = s
        BY <1>4, MovesOn DEF AtOnce, Watchers
    <2>8. WatchersAlone'
        BY <2>6, <2>7 DEF WatchersAlone
    <2>9. QED
        BY <2>3, <2>4, <2>8 DEF ControlInv
<1>5. QED
    BY <1>2, <1>3, <1>4

\* The handlers keep the files covered.
LEMMA CoverServer ==
    ASSUME ServerType, CoverInv, NEW s \in Slot, HandlerStep(s)
    PROVE  CoverInv'
<1> USE DEF ServerType
<1>1. ControlInv'
    BY ControlServer DEF CoverInv
<1>2. UNCHANGED <<disk, watching>>
    BY DEF clientVars, HandlerStep, Start, Resume, register_file_watchers, Registered,
       initialized_index, pull_configuration, apply_pulled_configuration,
       refresh_ast_globals_and_diagnostics, PublishEach, reload_flsproject, ReloadPublish, did_open,
       did_open_cache, did_change, did_save, did_close, did_change_watched_files, WatchedFile,
       did_change_workspace_folders, did_change_configuration, add_global, lookup
<1>3. ~did_close(s)
    BY DEF did_close, At, CoverInv, ControlInv, NeverCloses
<1>4. \A u \in File : /\ u \in open_docs => u \in open_docs'
                      /\ ~WatchedFile(s) /\ ast_map[u] # NoAst => ast_map'[u] # NoAst
                      /\ u \notin open_docs' /\ doc_map'[u] # None /\ ast_map'[u] = NoAst =>
                             doc_map[u] # None /\ ast_map[u] = NoAst
    BY <1>3, AstsStay
<1>5. TextsHaveAsts'
    BY <1>4 DEF CoverInv, TextsHaveAsts
<1>6. \A u : /\ NothingReported => NothingReported'
             /\ DeletionsUndone(u) => DeletionsUndone(u)'
             /\ ~WatchedFile(s) /\ CreationComes(u) => CreationComes(u)'
    <2>1. CASE WatchedFile(s)
        BY <2>1, WatchedGoes
    <2>2. CASE ~WatchedFile(s)
        <3>1. \A u : StaysSo(u) /\ (NothingReported => NothingReported')
            BY <2>2, StartTakes, StepLeaves DEF CoverInv, ControlInv
        <3>2. QED
            BY <2>2, <3>1 DEF StaysSo
    <2>3. QED
        BY <2>1, <2>2
<1>7. ASSUME watching, NEW f \in workspace_map' \cup config'.fennel.library, NEW u \in FilesIn[f],
             u \in File, disk[u] # None
      PROVE  Covered(u)'
    <2>1. CASE f \notin workspace_map \cup config.fennel.library
        BY <1>7, <2>1, FoldersAreRead DEF Covered
    <2>2. CASE f \in workspace_map \cup config.fennel.library
        <3>1. Covered(u)
            BY <1>7, <2>2 DEF CoverInv
        <3>2. CASE u \in open_docs
            BY <1>4, <1>7, <3>2 DEF Covered
        <3>3. ASSUME NEW r \in Slot, WillIndex(handlers[r])
              PROVE  Covered(u)'
            <4>1. CASE r = s /\ initialized_index(s)
                <5>1. IndexFolders(workspace_map \cup config.fennel.library)
                    BY <4>1 DEF initialized_index
                <5>2. ast_map'[u] # NoAst
                    BY <1>7, <2>2, <5>1, IndexCoversFolders
                <5>3. QED
                    BY <5>2 DEF Covered
            <4>2. CASE ~(r = s /\ initialized_index(s))
                <5>1. WillIndex(handlers'[r])
                    BY <3>3, <4>2, IndexStays, OthersStay
                <5>2. WillIndex(handlers[r])'
                    BY <5>1 DEF WillIndex
                <5>3. QED
                    BY <5>2 DEF Covered
            <4>3. QED
                BY <4>1, <4>2
        <3>4. CASE ~WatchedFile(s) /\ (ast_map[u] # NoAst \/ CreationComes(u))
            BY <1>4, <1>6, <1>7, <3>4 DEF Covered
        <3>5. CASE WatchedFile(s) /\ u \notin open_docs /\ (ast_map[u] # NoAst \/ CreationComes(u))
            <4>1. PICK left : left = handlers[s].left
                OBVIOUS
            <4>2. /\ left # <<>> /\ Head(left).uri = u /\ ~Head(left).deleted => ast_map'[u] # NoAst
                  /\ ~(left # <<>> /\ Head(left).uri = u) => ast_map'[u] = ast_map[u]
                <5>1. doc_map[u] # None => ast_map[u] # NoAst
                    BY <1>7, <3>5 DEF CoverInv, TextsHaveAsts
                <5>2. QED
                    BY <1>7, <3>5, <4>1, <5>1, WatchedReads
            <4>3. /\ CreationComes(u) =>
                         \/ CreationComes(u)'
                         \/ left # <<>> /\ Head(left).uri = u /\ ~Head(left).deleted
                  /\ DeletionsUndone(u) /\ left # <<>> /\ Head(left).uri = u /\ Head(left).deleted =>
                         CreationComes(u)'
                BY <3>5, <4>1, WatchedGoes
            <4>4. DeletionsUndone(u)
                BY <1>7 DEF CoverInv
            <4>5. ast_map'[u] # NoAst \/ CreationComes(u)'
                BY <3>5, <4>2, <4>3, <4>4
            <4>6. QED
                BY <4>5 DEF Covered
        <3>6. QED
            BY <3>1, <3>2, <3>3, <3>4, <3>5 DEF Covered
    <2>3. QED
        BY <2>1, <2>2
<1>8. \A f \in workspace_map' \cup config'.fennel.library : FilesIn[f] \subseteq File
    <2>1. ConfigType'
        <3>1. ServerType'
            BY ControlStepType, DocumentStepType, ConfigurationStepType, ReloadStepType DEF HandlerStep
        <3>2. QED
            BY <3>1
    <2>2. QED
        BY <2>1 DEF ConfigType, Configuration, Fennel
<1>9. QED
    BY <1>1, <1>2, <1>5, <1>6, <1>7, <1>8 DEF CoverInv

-----------------------------------------------------------------------------
(* The client keeps the files covered *)

\* What the client tells besides does not move what is on its way.
LEMMA MailComes ==
    ASSUME ServerType, UNCHANGED handlers, NEW u,
           inbox' = inbox \/ \E m \in Message : ~Reports(m) /\ Tell(m),
           Creates(changes, u) => Creates(changes', u), Undone(changes, u) => Undone(changes', u)
    PROVE  StaysSo(u) /\ (changes' = changes /\ NothingReported => NothingReported')
<1>1. /\ \A i \in DOMAIN inbox : i \in DOMAIN inbox' /\ inbox'[i] = inbox[i]
      /\ \A i \in DOMAIN inbox' : Reports(inbox'[i]) => i \in DOMAIN inbox
    <2>1. ASSUME NEW m \in Message, ~Reports(m), Tell(m)
          PROVE  /\ \A i \in DOMAIN inbox : i \in DOMAIN inbox' /\ inbox'[i] = inbox[i]
                 /\ \A i \in DOMAIN inbox' : Reports(inbox'[i]) => i \in DOMAIN inbox
        <3>1. PICK q : q = inbox
            OBVIOUS
        <3>2. q \in Seq(Message) /\ inbox' = Append(q, m)
            BY <2>1, <3>1 DEF ServerType, MailType, Tell
        <3>3. /\ Len(q) \in Nat /\ DOMAIN q = 1..Len(q) /\ DOMAIN inbox' = 1..(Len(q) + 1)
              /\ inbox'[Len(q) + 1] = m
              /\ \A i \in 1..Len(q) : inbox'[i] = q[i]
            BY <3>2
        <3>4. \A i \in 1..(Len(q) + 1) : i \in 1..Len(q) \/ i = Len(q) + 1
            BY <3>3
        <3>5. \A i \in 1..Len(q) : i \in 1..(Len(q) + 1)
            BY <3>3
        <3>6. QED
            BY <2>1, <3>1, <3>3, <3>4, <3>5
    <2>2. QED
        BY <2>1
<1>2. \A i : CreationBehind(i, u) => CreationBehind(i, u)'
    BY <1>1 DEF CreationBehind, Reports
<1>3. CreationComes(u) => CreationComes(u)'
    BY <1>2 DEF CreationComes
<1>4. DeletionsUndone(u) => DeletionsUndone(u)'
    BY <1>1, <1>2 DEF DeletionsUndone, Reports
<1>5. changes' = changes /\ NothingReported => NothingReported'
    BY <1>1 DEF NothingReported, Reports
<1>6. QED
    BY <1>3, <1>4, <1>5 DEF StaysSo

\* The changes reported together stay in their order, behind all others.
LEMMA ChangesComeAlong ==
    ASSUME ServerType, ReportChanges, NEW u
    PROVE  StaysSo(u)
<1> DEFINE m == [op |-> "did_change_watched_files", changes |-> changes]
<1>q. PICK q : q = inbox
    OBVIOUS
<1>c. PICK c : c = changes
    OBVIOUS
<1>1. /\ inbox' = Append(q, m) /\ q \in Seq(Message) /\ changes' = <<>>
      /\ Reports(m) /\ m.changes = c /\ UNCHANGED handlers
    BY <1>q, <1>c DEF ReportChanges, Tell, ServerType, MailType, Reports, ClientOnly
<1> HIDE DEF m
<1>2. /\ Len(q) \in Nat /\ DOMAIN q = 1..Len(q) /\ DOMAIN inbox' = 1..(Len(q) + 1)
      /\ inbox'[Len(q) + 1] = m
      /\ \A i \in 1..Len(q) : inbox'[i] = q[i]
    BY <1>1
<1>3. ASSUME NEW i \in 0..Len(q), CreationBehind(i, u)
      PROVE  CreationBehind(i, u)'
    <2>1. CASE Creates(c, u)
        <3>1. Len(q) + 1 > i /\ Len(q) + 1 \in DOMAIN inbox'
            BY <1>2
        <3>2. QED
            BY <1>1, <1>2, <2>1, <3>1 DEF CreationBehind, Reports
    <2>2. ASSUME NEW j \in DOMAIN q, j > i, Reports(q[j]), Creates(q[j].changes, u)
          PROVE  CreationBehind(i, u)'
        <3>1. j \in DOMAIN inbox' /\ inbox'[j] = q[j]
            BY <1>2
        <3>2. QED
            BY <2>2, <3>1 DEF CreationBehind, Reports
    <2>3. QED
        BY <1>q, <1>c, <1>3, <2>1, <2>2 DEF CreationBehind
<1>4. 0 \in 0..Len(q)
    BY <1>2
<1>5. CreationComes(u) => CreationComes(u)'
    BY <1>1, <1>3, <1>4 DEF CreationComes
<1>6. ASSUME DeletionsUndone(u)
      PROVE  DeletionsUndone(u)'
    <2>1. Undone(changes', u)
        BY <1>1 DEF Undone
    <2>2. ASSUME NEW i \in DOMAIN inbox', Reports(inbox'[i])
          PROVE  Undone(inbox'[i].changes, u) \/ CreationBehind(i, u)'
        <3>1. CASE i = Len(q) + 1
            BY <1>1, <1>2, <1>c, <1>6, <3>1 DEF DeletionsUndone
        <3>2. CASE i \in 1..Len(q)
            <4>1. Undone(q[i].changes, u) \/ CreationBehind(i, u)
                BY <1>2, <1>q, <1>6, <2>2, <3>2 DEF DeletionsUndone
            <4>2. i \in 0..Len(q)
                BY <1>2, <3>2
            <4>3. QED
                BY <1>2, <1>3, <3>2, <4>1, <4>2
        <3>3. QED
            BY <1>2, <3>1, <3>2
    <2>3. \A r \in Slot : Undone(ChangesOf(handlers'[r]), u) \/ CreationBehind(0, u)'
        BY <1>1, <1>3, <1>4, <1>6 DEF DeletionsUndone
    <2>4. QED
        BY <2>1, <2>2, <2>3 DEF DeletionsUndone, Reports
<1>7. QED
    BY <1>5, <1>6 DEF StaysSo

\* The handlers and the documents as they were, and what is on its way on its way.
LEMMA CoverKept ==
    ASSUME CoverInv, NeverCloses',
           UNCHANGED <<handlers, current, doc_map, ast_map, open_docs, config, workspace_map>>,
           UNCHANGED <<disk, watching>>,
           \A u \in File : StaysSo(u), ~watching => (NothingReported => NothingReported'),
           \A f \in workspace_map \cup config.fennel.library : FilesIn[f] \subseteq File
    PROVE  CoverInv'
<1>1. ControlInv' /\ TextsHaveAsts'
    BY DEF CoverInv, ControlInv, TextsHaveAsts, WatchersAlone, InitializedRegisters
<1>2. \A u \in File : Covered(u) => Covered(u)'
    BY DEF Covered, StaysSo, WillIndex
<1>3. \A u \in File : disk'[u] # None /\ watching => DeletionsUndone(u)'
    BY DEF CoverInv, StaysSo
<1>4. QED
    BY <1>1, <1>2, <1>3 DEF CoverInv

\* A file that changes on disk is covered, if it is there.
LEMMA CoverDisk ==
    ASSUME ServerType, CoverInv, NeverCloses', UNCHANGED watching,
           UNCHANGED <<handlers, current, doc_map, ast_map, open_docs, config, workspace_map>>,
           NEW v \in File, NEW t \in Text \cup {None}, DiskBecomes(v, t),
           inbox' = inbox \/ \E m \in Message : ~Reports(m) /\ Tell(m),
           \A f \in workspace_map \cup config.fennel.library : FilesIn[f] \subseteq File
    PROVE  CoverInv'
<1> USE DEF ServerType
<1>1. ControlInv' /\ TextsHaveAsts'
    BY DEF CoverInv, ControlInv, TextsHaveAsts, WatchersAlone, InitializedRegisters
<1>2. CASE ~watching
    <2>1. changes' = changes
        BY <1>2 DEF DiskBecomes
    <2>2. NothingReported'
        <3>1. StaysSo(v) /\ (changes' = changes /\ NothingReported => NothingReported')
            BY <2>1, MailComes
        <3>2. QED
            BY <1>2, <2>1, <3>1 DEF CoverInv
    <2>3. QED
        BY <1>1, <1>2, <2>2 DEF CoverInv
<1>3. CASE watching
    <2> DEFINE x == [uri |-> v, deleted |-> t = None]
    <2>1. x \in FileChange /\ x.uri = v /\ (x.deleted <=> t = None) /\ changes' = Append(changes, x)
        BY <1>3 DEF DiskBecomes, FileChange
    <2> HIDE DEF x
    <2>2. disk \in [File -> Text \cup {None}] /\ changes \in Seq(FileChange)
        BY DEF ClientType
    <2>3. /\ disk'[v] = t
          /\ \A u \in File \ {v} : disk'[u] = disk[u]
        BY <2>2 DEF DiskBecomes
    <2>4. ASSUME NEW u \in File \ {v}
          PROVE  StaysSo(u)
        BY <2>1, <2>2, <2>4, LastChange, MailComes
    <2>5. ASSUME t # None
          PROVE  CreationComes(v)' /\ DeletionsUndone(v)'
        <3>1. Creates(changes', v) /\ Undone(changes', v)
            BY <2>1, <2>2, <2>5, LastChange
        <3>2. \A i : CreationBehind(i, v)'
            BY <3>1 DEF CreationBehind
        <3>3. QED
            BY <3>1, <3>2 DEF CreationComes, DeletionsUndone
    <2>6. \A u \in File : disk'[u] # None => DeletionsUndone(u)'
        BY <1>3, <2>3, <2>4, <2>5 DEF CoverInv, StaysSo
    <2>7. ASSUME NEW f \in workspace_map \cup config.fennel.library, NEW u \in FilesIn[f], disk'[u] # None
          PROVE  Covered(u)'
        <3>1. CASE u = v
            BY <2>3, <2>5, <2>7, <3>1 DEF Covered
        <3>2. CASE u # v
            <4>1. u \in File \ {v}
                BY <2>7, <3>2
            <4>2. Covered(u)
                BY <1>3, <2>3, <2>7, <4>1 DEF CoverInv
            <4>3. QED
                BY <2>4, <4>1, <4>2 DEF Covered, StaysSo, WillIndex
        <3>3. QED
            BY <3>1, <3>2
    <2>8. QED
        BY <1>1, <1>3, <2>6, <2>7 DEF CoverInv
<1>4. QED
    BY <1>2, <1>3

\* A client that answers watches, once the handler that indexes has asked it to.
LEMMA CoverAnswer ==
    ASSUME ServerType, CoverInv, NEW s \in Slot, Answer(s)
    PROVE  CoverInv'
<1>1. /\ UNCHANGED <<handlers, current, doc_map, ast_map, open_docs, config, workspace_map>>
      /\ UNCHANGED <<disk, inbox, changes>>
      /\ watching' # watching => ~watching /\ watching' /\ handlers[s].pc = "await_register"
    BY DEF Answer, docVars, configVars, ServerType, ClientType
<1>2. NeverCloses'
    BY <1>1 DEF CoverInv, ControlInv, NeverCloses
<1>3. \A u : StaysSo(u) /\ (NothingReported => NothingReported')
    BY <1>1, NothingMoves
<1>4. \A f \in workspace_map \cup config.fennel.library : FilesIn[f] \subseteq File
    BY DEF ServerType, ConfigType, Configuration, Fennel
<1>5. CASE watching' = watching
    BY <1>1, <1>2, <1>3, <1>4, <1>5, CoverKept
<1>6. CASE watching' # watching
    <2>1. NothingReported
        BY <1>1, <1>6 DEF CoverInv
    <2>2. \A u : DeletionsUndone(u)
        BY <2>1 DEF NothingReported, DeletionsUndone, Undone
    <2>3. WillIndex(handlers[s])
        BY <1>1, <1>6 DEF CoverInv, ControlInv, InitializedRegisters, WillIndex
    <2>4. WillIndex(handlers[s])'
        BY <1>1, <2>3 DEF WillIndex
    <2>5. \A u : Covered(u)'
        BY <2>4 DEF Covered
    <2>6. ControlInv' /\ TextsHaveAsts'
        BY <1>1, <1>2 DEF CoverInv, ControlInv, TextsHaveAsts, WatchersAlone, InitializedRegisters
    <2>7. \A u : DeletionsUndone(u)'
        BY <1>3, <2>2 DEF StaysSo
    <2>8. QED
        BY <1>1, <1>6, <2>5, <2>6, <2>7 DEF CoverInv
<1>7. QED
    BY <1>5, <1>6

\* So does whatever else a client does that closes no file.
LEMMA CoverClient ==
    ASSUME "close" \notin ClientOps, ServerType, CoverInv, User \/ ReportChanges
    PROVE  CoverInv'
<1>1. UNCHANGED <<handlers, current, doc_map, ast_map, open_docs, config, workspace_map>>
    BY ClientLeavesServer
<1>2. \A f \in workspace_map \cup config.fennel.library : FilesIn[f] \subseteq File
    BY DEF ServerType, ConfigType, Configuration, Fennel
<1>3. ASSUME NEW m \in Message, Tell(m), m.op # "did_close"
      PROVE  NeverCloses'
    <2>1. \A i \in DOMAIN inbox' : inbox'[i] = m \/ (i \in DOMAIN inbox /\ inbox'[i] = inbox[i])
        BY <1>3 DEF Tell, ServerType, MailType
    <2>2. QED
        BY <1>1, <1>3, <2>1 DEF CoverInv, ControlInv, NeverCloses
<1>4. ASSUME NEW m \in Message, Tell(m), m.op # "did_close", ~Reports(m),
             UNCHANGED <<disk, watching, changes>>
      PROVE  CoverInv'
    <2>1. NeverCloses'
        BY <1>3, <1>4
    <2>2. \A u : StaysSo(u) /\ (NothingReported => NothingReported')
        BY <1>1, <1>4, MailComes
    <2>3. QED
        BY <1>1, <1>2, <1>4, <2>1, <2>2, CoverKept
<1>5. CASE ReportChanges
    <2> DEFINE m == [op |-> "did_change_watched_files", changes |-> changes]
    <2>1. m \in Message /\ m.op # "did_close"
        BY DEF Message, ServerType, ClientType
    <2>2. Tell(m) /\ UNCHANGED <<disk, watching>> /\ changes # <<>>
        BY <1>5 DEF ReportChanges
    <2> HIDE DEF m
    <2>3. NeverCloses'
        BY <1>3, <2>1, <2>2
    <2>4. watching
        BY <2>2 DEF CoverInv, NothingReported
    <2>5. QED
        BY <1>1, <1>2, <1>5, <2>2, <2>3, <2>4, ChangesComeAlong, CoverKept
<1>6. ASSUME NEW u \in File, NEW t \in Text, Open(u, t)
      PROVE  CoverInv'
    <2> DEFINE m == [op |-> "did_open", uri |-> u, text |-> t]
    <2>1. m \in Message /\ m.op # "did_close" /\ ~Reports(m)
        BY DEF Message, Reports
    <2>2. Tell(m) /\ UNCHANGED <<disk, watching, changes>>
        BY <1>6 DEF Open
    <2> HIDE DEF m
    <2>3. QED
        BY <1>4, <2>1, <2>2
<1>7. ASSUME NEW u \in File, NEW t \in Text, Edit(u, t)
      PROVE  CoverInv'
    <2> DEFINE m == [op |-> "did_change", uri |-> u, base |-> editor[u], text |-> t]
    <2>1. m \in Message /\ m.op # "did_close" /\ ~Reports(m)
        BY <1>7 DEF Edit, Message, Reports, ServerType, ClientType
    <2>2. Tell(m) /\ UNCHANGED <<disk, watching, changes>>
        BY <1>7 DEF Edit
    <2> HIDE DEF m
    <2>3. QED
        BY <1>4, <2>1, <2>2
<1>8. ASSUME NEW u \in File, Lookup(u)
      PROVE  CoverInv'
    <2> DEFINE m == [op |-> "lookup", uri |-> u]
    <2>1. m \in Message /\ m.op # "did_close" /\ ~Reports(m)
        BY DEF Message, Reports
    <2>2. Tell(m) /\ UNCHANGED <<disk, watching, changes>>
        BY <1>8 DEF Lookup
    <2> HIDE DEF m
    <2>3. QED
        BY <1>4, <2>1, <2>2
<1>9. ASSUME NEW st \in SettingsChoices, NEW empty \in BOOLEAN, ChangeSettings(st, empty)
      PROVE  CoverInv'
    <2> DEFINE m == [op |-> "did_change_configuration", empty |-> empty, settings |-> st]
    <2>1. m \in Message /\ m.op # "did_close" /\ ~Reports(m)
        BY DEF Message, Reports
    <2>2. Tell(m) /\ UNCHANGED <<disk, watching, changes>>
        BY <1>9 DEF ChangeSettings
    <2> HIDE DEF m
    <2>3. QED
        BY <1>4, <2>1, <2>2
<1>10. ASSUME NEW g \in Global, AddGlobal(g)
       PROVE  CoverInv'
    <2> DEFINE m == [op |-> "add_global", name |-> g]
    <2>1. m \in Message /\ m.op # "did_close" /\ ~Reports(m)
        BY DEF Message, Reports
    <2>2. Tell(m) /\ UNCHANGED <<disk, watching, changes>>
        BY <1>10 DEF AddGlobal
    <2> HIDE DEF m
    <2>3. QED
        BY <1>4, <2>1, <2>2
<1>11. ASSUME NEW f \in Folder, ChangeFolders(f)
       PROVE  CoverInv'
    <2> DEFINE m == [op |-> "did_change_workspace_folders",
                     added |-> {f} \ workspace_map, removed |-> {f} \cap workspace_map]
    <2>1. m \in Message /\ m.op # "did_close" /\ ~Reports(m)
        BY DEF Message, Reports
    <2>2. Tell(m) /\ UNCHANGED <<disk, watching, changes>>
        BY <1>11 DEF ChangeFolders
    <2> HIDE DEF m
    <2>3. QED
        BY <1>4, <2>1, <2>2
<1>12. ASSUME NEW u \in File, Save(u)
       PROVE  CoverInv'
    <2> DEFINE m == [op |-> "did_save", uri |-> u]
    <2>1. m \in Message /\ m.op # "did_close" /\ ~Reports(m)
        BY DEF Message, Reports
    <2>2. Tell(m) /\ UNCHANGED watching /\ DiskBecomes(u, editor[u])
        BY <1>12 DEF Save
    <2> HIDE DEF m
    <2>3. NeverCloses'
        BY <1>3, <2>1, <2>2
    <2>4. editor[u] \in Text \cup {None}
        BY DEF ServerType, ClientType
    <2>5. QED
        BY <1>1, <1>2, <2>1, <2>2, <2>3, <2>4, CoverDisk
<1>13. ASSUME NEW u \in File, NEW t \in Text \cup {None}, ExternalChange(u, t)
       PROVE  CoverInv'
    <2>1. UNCHANGED <<watching, inbox>> /\ DiskBecomes(u, t)
        BY <1>13 DEF ExternalChange
    <2>2. NeverCloses'
        BY <1>1, <2>1 DEF CoverInv, ControlInv, NeverCloses
    <2>3. QED
        BY <1>1, <1>2, <2>1, <2>2, CoverDisk
<1>14. ~\E u \in File : Close(u)
    BY DEF Close, Operation
<1>15. QED
    BY <1>5, <1>6, <1>7, <1>8, <1>9, <1>10, <1>11, <1>12, <1>13, <1>14 DEF User

\* The invariant holds in every state the server reaches, if no file is closed.
LEMMA CoverInvInductive ==
    ASSUME "close" \notin ClientOps
    PROVE  Spec => []CoverInv
<1>1. Init => CoverInv
    <2> SUFFICES ASSUME Init
                 PROVE  CoverInv
        OBVIOUS
    <2>1. /\ inbox = <<[op |-> "initialized"]>> /\ changes = <<>> /\ watching = FALSE
          /\ doc_map = [u \in File |-> None]
          /\ \A s \in Slot : handlers[s] = Idle
        BY DEF Init
    <2>2. inbox[1].op = "initialized" /\ DOMAIN inbox = {1}
        BY <2>1
    <2>3. ControlInv
        BY <2>1, <2>2 DEF ControlInv, NeverCloses, WatchersAlone, Watchers, InitializedRegisters, Idle
    <2>4. TextsHaveAsts
        BY <2>1 DEF TextsHaveAsts
    <2>5. NothingReported
        BY <2>1, <2>2 DEF NothingReported, Reports, ChangesOf, Idle
    <2>6. QED
        BY <2>1, <2>3, <2>4, <2>5 DEF CoverInv
<1>2. ASSUME TypeInv, CoverInv, [Next]_vars
      PROVE  CoverInv'
    <2>1. CASE UNCHANGED vars
        <3>1. /\ UNCHANGED <<handlers, current, doc_map, ast_map, open_docs, config, workspace_map>>
              /\ UNCHANGED <<disk, watching, inbox, changes>>
            BY <2>1 DEF vars, clientVars, taskVars, docVars, configVars
        <3>2. NeverCloses'
            BY <1>2, <3>1 DEF CoverInv, ControlInv, NeverCloses
        <3>3. \A u : StaysSo(u) /\ (NothingReported => NothingReported')
            BY <3>1, NothingMoves
        <3>4. \A f \in workspace_map \cup config.fennel.library : FilesIn[f] \subseteq File
            BY <1>2 DEF TypeInv, ServerType, ConfigType, Configuration, Fennel
        <3>5. QED
            BY <1>2, <3>1, <3>2, <3>3, <3>4, CoverKept
    <2>2. QED
        BY <1>2, <2>1, CoverServer, CoverAnswer, CoverClient DEF Next, ServerStep, TypeInv
<1>3. QED
    BY <1>1, <1>2, TypeInvInductive, PTL DEF Spec

\* IndexCoversWorkspace: with a client that closes no file, background indexing and
\* the watchers together miss none, however the creation of a file races the
\* registration of the watchers, the indexing, and the changes of the folders. (A
\* file that is closed is forgotten, and comes back only when it is looked up.)
THEOREM IndexCovers ==
    ASSUME "close" \notin ClientOps
    PROVE  Spec => []IndexCoversWorkspace
<1>1. TypeInv /\ OpenInv /\ CoverInv => IndexCoversWorkspace
    <2> SUFFICES ASSUME ServerType, OpenInv, CoverInv, Quiescent, watching,
                        NEW f \in workspace_map \cup config.fennel.library, NEW u \in FilesIn[f],
                        disk[u] # None
                 PROVE  ast_map[u] # NoAst
        BY DEF IndexCoversWorkspace, TypeInv
    <2>1. \A s \in Slot : /\ ~Opens(s, u) /\ ~WillIndex(handlers[s])
                          /\ ChangesOf(handlers[s]) = <<>>
        BY DEF Quiescent, Idle, NoMessage, Opens, Handles, WillIndex, ChangesOf
    <2>2. u \in File
        BY DEF ServerType, ConfigType, Configuration, Fennel
    <2>3. u \in open_docs => ast_map[u] # NoAst
        BY <2>1 DEF OpenInv
    <2>4. ~CreationComes(u)
        BY <2>1 DEF Quiescent, CreationComes, CreationBehind, Creates
    <2>5. Covered(u)
        BY <2>2 DEF CoverInv
    <2>6. QED
        BY <2>1, <2>3, <2>4, <2>5 DEF Covered
<1>2. QED
    BY <1>1, TypeInvInductive, OpenInvInductive, CoverInvInductive, PTL
=============================================================================
