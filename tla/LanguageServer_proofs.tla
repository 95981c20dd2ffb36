----------------------- MODULE LanguageServer_proofs -----------------------
(***************************************************************************)
(* Proofs about LanguageServer, for every set of files, texts, folders and *)
(* settings and any number of handlers and operations.                     *)
(***************************************************************************)
EXTENDS LanguageServer, TLAPS

USE BackendAssumption, LanguageServerAssumption

(* TypeOK in parts: what belongs to the client, the connection, the document *)
(* store and the configuration.                                              *)
ClientType ==
    /\ editor \in [File -> Text \cup {None}]
    /\ disk \in [File -> Text \cup {None}]
    /\ settings \in Settings
    /\ changes \in Seq(FileChange)
    /\ watching \in BOOLEAN
    /\ unwatched \subseteq File
    /\ ops \in 0..MaxOps

SentType == published \in [File -> SUBSET Diagnostic]

MailType ==
    /\ SentType
    /\ inbox \in Seq(Message)
    /\ replies \in Seq(Reply)

ErrorsType == on_save_or_open_errors \in [File -> SUBSET Lint]

DocType ==
    /\ doc_map \in [File -> Text \cup {None}]
    /\ ast_map \in [File -> Ast \cup {NoAst}]
    /\ open_docs \subseteq File
    /\ ErrorsType

ConfigType ==
    /\ workspace_map \subseteq Folder
    /\ config \in Configuration
    /\ globals_cache \subseteq Global

\* The points where a handler has just got its message.
Entry == {"initialized", "did_open", "did_change", "did_save", "did_close", "lookup",
          "did_change_watched_files", "did_change_workspace_folders",
          "did_change_configuration", "add_global"}

HistoryType ==
    /\ overtaken \subseteq File
    /\ reconfigured \in BOOLEAN

\* The places refresh returns to.
Locals(h) ==
    /\ h \in Handler
    /\ h.ret \in {"done", "reload", "index", "refresh_again"}

\* What a handler's locals hold where they are read.
HandlerInv(h) ==
    /\ Locals(h)
    /\ h.pc \in Entry => h.msg \in Message /\ h.msg.op = h.pc
    /\ h.pc = "watched_file" => h.msg \in Message /\ h.msg.op = "did_change_watched_files"
    /\ h.pc = "did_open_cache" => h.msg \in Message /\ h.msg.op = "did_open" /\ h.ast \in Ast
    /\ h.pc = "reload_publish" => h.uri \in File /\ h.text \in Text

HandlersInv ==
    /\ handlers \in [Slot -> Handler]
    /\ \A s \in Slot : HandlerInv(handlers[s])
    /\ current \in Slot \cup {NoSlot}

\* All but the history.
ServerType == ClientType /\ MailType /\ DocType /\ ConfigType /\ HandlersInv

TypeInv == ServerType /\ HistoryType

USE DEF SentType, ErrorsType

-----------------------------------------------------------------------------
\* The fields of a message are those of its operation.
LEMMA MessageFields ==
    ASSUME NEW m \in Message
    PROVE  /\ m.op \in Entry
           /\ m.op \in {"did_open", "did_change", "did_save", "did_close", "lookup"} => m.uri \in File
           /\ m.op = "did_open" => m.text \in Text
           /\ m.op = "did_change" => m.base \in Text /\ m.text \in Text
           /\ m.op = "did_change_watched_files" => m.changes \in Seq(FileChange)
           /\ m.op = "did_change_workspace_folders" => m.added \subseteq Folder /\ m.removed \subseteq Folder
           /\ m.op = "did_change_configuration" => m.settings \in Settings
           /\ m.op = "add_global" => m.name \in Global
BY DEF Message, Entry

\* A handler that goes on with well-typed locals keeps the task well-typed.
LEMMA ContinueType ==
    ASSUME HandlersInv, NEW s \in Slot, NEW h, HandlerInv(h), NEW b \in BOOLEAN, Continue(s, h, b)
    PROVE  HandlersInv'
<1>1. HandlerInv(Idle)
    BY DEF HandlerInv, Locals, Idle, Handler, PC, Entry, NoMessage
<1>2. CASE h.pc = "done"
    BY <1>1, <1>2 DEF Continue, HandlersInv, HandlerInv, Locals
<1>3. CASE h.pc # "done"
    BY <1>3 DEF Continue, HandlersInv, HandlerInv, Locals
<1>4. QED
    BY <1>2, <1>3

\* So does one that moves to a point where no local is read.
LEMMA MoveType ==
    ASSUME HandlersInv, NEW s \in Slot, NEW pc \in PC, NEW b \in BOOLEAN,
           pc \notin Entry \cup {"watched_file", "did_open_cache", "reload_publish"},
           Continue(s, [handlers[s] EXCEPT !.pc = pc], b)
    PROVE  HandlersInv'
<1> DEFINE h == handlers[s]
           g == [h EXCEPT !.pc = pc]
<1>1. HandlerInv(h) /\ h \in Handler
    BY DEF HandlersInv, HandlerInv, Locals
<1>2. g \in Handler /\ g.pc = pc /\ g.ret = h.ret
    BY <1>1 DEF Handler
<1>3. HandlerInv(g)
    <2> HIDE DEF g, h
    <2> QED BY <1>1, <1>2 DEF HandlerInv, Locals
<1>4. QED
    BY <1>3, ContinueType

\* Going to such a point is one way to move there,
LEMMA GotoType ==
    ASSUME HandlersInv, NEW s \in Slot, NEW pc \in PC,
           pc \notin Entry \cup {"watched_file", "did_open_cache", "reload_publish"},
           Goto(s, pc)
    PROVE  HandlersInv'
BY MoveType DEF Goto

\* and awaiting an answer is another.
LEMMA AwaitType ==
    ASSUME HandlersInv, NEW s \in Slot, NEW pc \in {"await_register", "await_pull"}, Await(s, pc)
    PROVE  HandlersInv'
<1> DEFINE h == handlers[s]
           g == [h EXCEPT !.pc = pc]
<1>1. HandlerInv(h) /\ h \in Handler
    BY DEF HandlersInv, HandlerInv, Locals
<1>2. g \in Handler /\ g.pc = pc /\ g.ret = h.ret
    BY <1>1 DEF Handler, PC
<1>3. HandlerInv(g)
    <2> HIDE DEF g, h
    <2> QED BY <1>1, <1>2 DEF HandlerInv, Locals, Entry
<1>4. handlers' = [handlers EXCEPT ![s] = g] /\ current' = NoSlot
    BY DEF Await
<1>5. QED
    <2> HIDE DEF g, h
    <2> QED BY <1>2, <1>3, <1>4 DEF HandlersInv

-----------------------------------------------------------------------------
\* What compute_diagnostics stores and returns.
LEMMA DiagnosticsType ==
    ASSUME ConfigType, NEW u \in File, NEW doc \in Text, NEW ast \in Ast,
           NEW stored \in SUBSET Lint, NEW b \in BOOLEAN
    PROVE  /\ StoredErrors(u, stored, ast, b) \subseteq Lint
           /\ compute_diagnostics(u, doc, ast, stored, config) \subseteq Diagnostic
<1>1. ast.text \in Text /\ Unused[ast.text] \subseteq Lint /\ Undefined[ast.text] \subseteq Global
    BY DEF Ast
<1>2. StoredErrors(u, stored, ast, b) \subseteq Lint
    BY <1>1 DEF StoredErrors
<1>3. Errors(ast) \subseteq Diagnostic
    BY <1>1 DEF Errors, Diagnostic
<1>4. \A lints \in SUBSET Lint : [kind: {"lint"}, name: lints] \subseteq Diagnostic
    BY DEF Diagnostic
<1>5. ProjectErrors[doc] \subseteq Lint
    OBVIOUS
<1>6. compute_diagnostics(u, doc, ast, stored, config) \subseteq Diagnostic
    BY <1>3, <1>4, <1>5 DEF compute_diagnostics
<1>7. QED
    BY <1>2, <1>6

\* What a handler stores and publishes has its type.
LEMMA ComputeAndPublishType ==
    ASSUME HandlersInv, DocType, ConfigType, MailType, NEW s \in Slot, NEW h, HandlerInv(h),
           NEW u \in File, NEW doc \in Text, NEW ast \in Ast, NEW b \in BOOLEAN,
           ComputeAndPublish(s, h, u, doc, ast, b)
    PROVE  HandlersInv' /\ ErrorsType' /\ SentType'
<1> DEFINE stored == StoredErrors(u, on_save_or_open_errors[u], ast, b)
           diags == compute_diagnostics(u, doc, ast, stored, config)
<1>1. on_save_or_open_errors[u] \in SUBSET Lint
    BY DEF DocType
<1>2. stored \in SUBSET Lint
    BY <1>1, DiagnosticsType
<1>3. diags \in SUBSET Diagnostic
    <2> HIDE DEF stored
    <2> QED BY <1>2, DiagnosticsType
<1>4. /\ on_save_or_open_errors' = [on_save_or_open_errors EXCEPT ![u] = stored]
      /\ published' = [published EXCEPT ![u] = diags]
      /\ Continue(s, h, TRUE)
    BY DEF ComputeAndPublish
<1>5. QED
    <2> HIDE DEF stored, diags
    <2> QED BY <1>2, <1>3, <1>4, ContinueType DEF DocType, MailType

\* Reading files from disk keeps the documents well-typed.
LEMMA IndexType ==
    ASSUME ClientType, DocType, ConfigType, NEW folders \in SUBSET Folder, IndexFolders(folders)
    PROVE  DocType'
BY DEF ClientType, DocType, ConfigType, IndexFolders, parse_shared, Ast

\* Forgetting a file does,
LEMMA ForgetType ==
    ASSUME DocType, NEW u \in File, Forget(u)
    PROVE  /\ doc_map' \in [File -> Text \cup {None}]
           /\ ast_map' \in [File -> Ast \cup {NoAst}]
           /\ on_save_or_open_errors' \in [File -> SUBSET Lint]
BY DEF DocType, Forget

\* and so does reading it again.
LEMMA ReindexType ==
    ASSUME ClientType, DocType, ConfigType, NEW u \in File, reindex_from_disk(u)
    PROVE  /\ doc_map' \in [File -> Text \cup {None}]
           /\ ast_map' \in [File -> Ast \cup {NoAst}]
           /\ on_save_or_open_errors' \in [File -> SUBSET Lint]
BY ForgetType DEF ClientType, DocType, ConfigType, reindex_from_disk, parse_shared, Ast

-----------------------------------------------------------------------------
\* The handler a step at pc runs satisfies its part of the invariant.
LEMMA AtType ==
    ASSUME HandlersInv, NEW s \in Slot
    PROVE  HandlerInv(handlers[s]) /\ Locals(handlers[s]) /\ handlers[s] \in Handler
BY DEF HandlersInv, HandlerInv, Locals

\* Steps of one handler that only move it on.
LEMMA ControlStepType ==
    ASSUME ServerType, NEW s \in Slot,
           Start(s) \/ Resume(s) \/ register_file_watchers(s) \/ Registered(s)
           \/ pull_configuration(s) \/ did_change_watched_files(s)
    PROVE  ServerType'
<1> USE DEF ServerType
<1>0. HandlerInv(handlers[s]) /\ Locals(handlers[s]) /\ handlers[s] \in Handler
    BY AtType
<1>1. CASE Start(s)
    <2> DEFINE m == Head(inbox)
               h == [Idle EXCEPT !.msg = m, !.pc = m.op]
    <2>1. m \in Message /\ m.op \in Entry /\ inbox' \in Seq(Message)
        BY <1>1, MessageFields DEF Start, MailType
    <2>2. h.msg = m /\ h.pc = m.op /\ h.ret = "done" /\ h \in Handler
        <3>1. Idle \in Handler /\ Idle.ret = "done"
            BY DEF Idle, Handler, PC, NoMessage
        <3>2. m.op \in PC
            BY <2>1 DEF Entry, PC
        <3> HIDE DEF m
        <3> QED BY <2>1, <3>1, <3>2 DEF Handler
    <2>3. HandlerInv(h)
        <3> HIDE DEF h
        <3> QED BY <2>1, <2>2 DEF HandlerInv, Locals, Entry
    <2> DEFINE b == m.op \in {"initialized", "did_open"}
    <2>4. Continue(s, h, b) /\ b \in BOOLEAN
        BY <1>1 DEF Start
    <2>5. HandlersInv'
        <3> HIDE DEF h, m, b
        <3> QED BY <2>3, <2>4, ContinueType
    <2>6. QED
        BY <1>1, <2>1, <2>5 DEF Start, ClientType, clientVars, MailType, DocType, docVars,
                                ConfigType, configVars
<1>2. CASE Resume(s)
    <2>1. HandlersInv'
        BY <1>2 DEF Resume, HandlersInv
    <2>2. QED
        BY <1>2, <2>1 DEF Resume, ClientType, clientVars, MailType, DocType, docVars,
                          ConfigType, configVars
<1>3. CASE register_file_watchers(s)
    <2>1. HandlersInv'
        <3>1. CASE DynamicWatch
            BY <1>3, <3>1, AwaitType DEF register_file_watchers
        <3>2. CASE ~DynamicWatch
            BY <1>0, <1>3, <3>2, MoveType DEF register_file_watchers, PC, Entry
        <3>3. QED
            BY <3>1, <3>2
    <2>2. QED
        BY <1>3, <2>1 DEF register_file_watchers, ClientType, clientVars, MailType, DocType, docVars,
                          ConfigType, configVars
<1>4. CASE Registered(s)
    <2>1. HandlersInv'
        BY <1>0, <1>4, MoveType DEF Registered, MailType, Reply, PC, Entry
    <2>2. replies' \in Seq(Reply)
        BY <1>4 DEF Registered, MailType
    <2>3. QED
        BY <1>4, <2>1, <2>2 DEF Registered, ClientType, clientVars, MailType, DocType, docVars,
                                ConfigType, configVars
<1>5. CASE pull_configuration(s)
    <2>1. HandlersInv'
        BY <1>5, AwaitType, GotoType DEF pull_configuration, PC, Entry
    <2>2. QED
        BY <1>5, <2>1 DEF pull_configuration, ClientType, clientVars, MailType, DocType, docVars,
                          ConfigType, configVars
<1>6. CASE did_change_watched_files(s)
    <2> DEFINE h == handlers[s]
               g == [h EXCEPT !.pc = "watched_file", !.left = h.msg.changes]
    <2>1. h.msg \in Message /\ h.msg.op = "did_change_watched_files"
        BY <1>0, <1>6 DEF did_change_watched_files, At, HandlerInv, Entry
    <2>2. h.msg.changes \in Seq(FileChange)
        <3> HIDE DEF h
        <3> QED BY <2>1, MessageFields
    <2>3. /\ g.pc = "watched_file" /\ g.msg = h.msg /\ g.ret = h.ret
          /\ g \in Handler
        BY <1>0, <2>2 DEF Handler, PC
    <2>4. HandlerInv(g)
        <3> HIDE DEF h, g
        <3>1. HandlerInv(h)
            BY <1>0 DEF h
        <3>2. QED
            BY <2>1, <2>3, <3>1 DEF HandlerInv, Locals, Entry
    <2>5. HandlersInv'
        <3>1. Continue(s, g, FALSE)
            BY <1>6 DEF did_change_watched_files
        <3> HIDE DEF g
        <3> QED BY <2>4, <3>1, ContinueType
    <2>6. QED
        BY <1>6, <2>5 DEF did_change_watched_files, ClientType, clientVars, MailType, DocType, docVars,
                          ConfigType, configVars
<1>7. QED
    BY <1>1, <1>2, <1>3, <1>4, <1>5, <1>6

\* The steps of the handlers about one document.
LEMMA DocumentStepType ==
    ASSUME ServerType, NEW s \in Slot,
           did_open(s) \/ did_open_cache(s) \/ did_change(s) \/ did_save(s) \/ WatchedFile(s)
           \/ did_close(s) \/ lookup(s)
    PROVE  ServerType'
<1> USE DEF ServerType
<1> DEFINE h == handlers[s]
           u == h.msg.uri
<1>0. HandlerInv(h) /\ Locals(h) /\ h \in Handler
    BY AtType
<1>1. CASE did_open(s)
    <2> DEFINE ast == parse_shared(h.msg.text, globals_cache)
               g == [h EXCEPT !.pc = "did_open_cache", !.ast = ast]
    <2>1. h.msg \in Message /\ h.msg.op = "did_open"
        BY <1>0, <1>1 DEF did_open, At, HandlerInv, Entry
    <2>2. u \in File /\ h.msg.text \in Text
        <3> HIDE DEF h
        <3> QED BY <2>1, MessageFields
    <2>3. ast \in Ast
        BY <2>2 DEF parse_shared, Ast, ConfigType
    <2>4. HandlerInv(g)
        <3>1. /\ g \in Handler /\ g.ret = h.ret /\ g.msg = h.msg /\ g.ast = ast
              /\ g.pc = "did_open_cache"
            <4> HIDE DEF ast
            <4> QED BY <1>0, <2>3 DEF Handler, PC
        <3> HIDE DEF g, h, ast
        <3> QED BY <1>0, <2>1, <2>3, <3>1 DEF Locals, HandlerInv, Entry
    <2>5. HandlersInv' /\ ErrorsType' /\ SentType'
        <3>1. ComputeAndPublish(s, g, u, h.msg.text, ast, TRUE)
            BY <1>1 DEF did_open
        <3> HIDE DEF g, ast, h
        <3> QED BY <2>1, <2>2, <2>3, <2>4, <3>1, ComputeAndPublishType
    <2>6. DocType'
        BY <1>1, <2>2, <2>5 DEF did_open, DocType
    <2>7. QED
        BY <1>1, <2>5, <2>6 DEF did_open, ClientType, clientVars, MailType, ConfigType, configVars
<1>2. CASE did_open_cache(s)
    <2> DEFINE g == [h EXCEPT !.pc = ReloadIfProject(u), !.ast = NoAst]
    <2>1. h.msg \in Message /\ h.msg.op = "did_open" /\ h.ast \in Ast
        BY <1>0, <1>2 DEF did_open_cache, At, HandlerInv
    <2>2. u \in File /\ Unused[h.ast.text] \in SUBSET Lint
        <3> HIDE DEF h
        <3> QED BY <2>1, MessageFields DEF Ast
    <2>3. /\ g.pc \in {"reload", "done"} /\ g.ret = h.ret
          /\ g \in Handler
        <3>1. ReloadIfProject(u) \in {"reload", "done"} \cap PC
            BY DEF ReloadIfProject, PC
        <3> QED BY <1>0, <3>1 DEF Handler
    <2>4. HandlersInv'
        <3>1. Continue(s, g, FALSE)
            BY <1>2 DEF did_open_cache
        <3>2. HandlerInv(g)
            <4> HIDE DEF g, h
            <4> QED BY <1>0, <2>3 DEF HandlerInv, Locals, Entry
        <3> HIDE DEF g
        <3> QED BY <3>1, <3>2, ContinueType
    <2>5. DocType'
        BY <1>2, <2>1, <2>2 DEF did_open_cache, DocType
    <2>6. QED
        BY <1>2, <2>4, <2>5 DEF did_open_cache, ClientType, clientVars, MailType, ConfigType, configVars
<1>3. CASE did_change(s)
    <2>1. h.msg \in Message /\ h.msg.op = "did_change"
        BY <1>0, <1>3 DEF did_change, At, HandlerInv, Entry
    <2>2. u \in File /\ h.msg.base \in Text /\ h.msg.text \in Text
        <3> HIDE DEF h
        <3> QED BY <2>1, MessageFields
    <2>3. CASE doc_map[u] = None /\ Goto(s, "done") /\ UNCHANGED <<docVars, published>>
        <3>1. HandlersInv'
            BY <2>3, GotoType DEF PC, Entry
        <3>2. QED
            BY <1>3, <2>3, <3>1 DEF did_change, ClientType, clientVars, MailType, DocType, docVars,
                                    ConfigType, configVars
    <2>4. ASSUME NEW t \in Edited(doc_map[u], h.msg.base, h.msg.text),
                 doc_map' = [doc_map EXCEPT ![u] = t],
                 ast_map' = [ast_map EXCEPT ![u] = parse_shared(t, globals_cache)],
                 ComputeAndPublish(s, [h EXCEPT !.pc = ReloadIfProject(u)], u, t,
                                   parse_shared(t, globals_cache), FALSE),
                 UNCHANGED open_docs
          PROVE  ServerType'
        <3> DEFINE g == [h EXCEPT !.pc = ReloadIfProject(u)]
        <3>1. t \in Text /\ parse_shared(t, globals_cache) \in Ast
            BY <2>2, <2>4 DEF Edited, parse_shared, Ast, ConfigType
        <3>2. HandlerInv(g)
            <4>1. g.pc \in {"reload", "done"} /\ g.ret = h.ret /\ g \in Handler
                <5>1. ReloadIfProject(u) \in {"reload", "done"} \cap PC
                    BY DEF ReloadIfProject, PC
                <5> QED BY <1>0, <5>1 DEF Handler
            <4> HIDE DEF g, h
            <4> QED BY <1>0, <4>1 DEF HandlerInv, Locals, Entry
        <3>3. HandlersInv' /\ ErrorsType' /\ SentType'
            <4> HIDE DEF h, g
            <4> QED BY <2>2, <2>4, <3>1, <3>2, ComputeAndPublishType DEF g
        <3>4. DocType'
            BY <2>2, <2>4, <3>1, <3>3 DEF DocType
        <3>5. QED
            BY <1>3, <3>3, <3>4 DEF did_change, ClientType, clientVars, MailType, ConfigType, configVars
    <2>5. QED
        BY <1>3, <2>3, <2>4 DEF did_change
<1>4. CASE did_save(s)
    <2>1. h.msg \in Message /\ h.msg.op = "did_save"
        BY <1>0, <1>4 DEF did_save, At, HandlerInv, Entry
    <2>2. u \in File
        <3> HIDE DEF h
        <3> QED BY <2>1, MessageFields
    <2>3. HandlersInv' /\ ErrorsType' /\ SentType'
        <3>1. CASE Goto(s, "reload") /\ UNCHANGED <<on_save_or_open_errors, published>>
            BY <3>1, GotoType DEF PC, Entry, DocType, MailType
        <3>2. CASE Goto(s, "done") /\ UNCHANGED <<on_save_or_open_errors, published>>
            BY <3>2, GotoType DEF PC, Entry, DocType, MailType
        <3> DEFINE g == [h EXCEPT !.pc = "done"]
        <3>3. CASE /\ ast_map[u] # NoAst /\ doc_map[u] # None
                   /\ ComputeAndPublish(s, g, u, doc_map[u], ast_map[u], TRUE)
            <4>1. doc_map[u] \in Text /\ ast_map[u] \in Ast
                BY <2>2, <3>3 DEF DocType
            <4>2. g.pc = "done" /\ g.ret = h.ret /\ g \in Handler
                BY <1>0 DEF Handler, PC
            <4>3. HandlerInv(g)
                <5> HIDE DEF g, h
                <5> QED BY <1>0, <4>2 DEF HandlerInv, Locals, Entry
            <4> HIDE DEF h, g
            <4> QED BY <2>2, <3>3, <4>1, <4>3, ComputeAndPublishType
        <3>4. QED
            <4>1. \/ Goto(s, "reload") /\ UNCHANGED <<on_save_or_open_errors, published>>
                  \/ Goto(s, "done") /\ UNCHANGED <<on_save_or_open_errors, published>>
                  \/ /\ ast_map[u] # NoAst /\ doc_map[u] # None
                     /\ ComputeAndPublish(s, g, u, doc_map[u], ast_map[u], TRUE)
                BY <1>4 DEF did_save
            <4>2. QED
                BY <3>1, <3>2, <3>3, <4>1
    <2>4. QED
        BY <1>4, <2>3 DEF did_save, ClientType, clientVars, MailType, DocType, ConfigType,
                          configVars
<1>5. CASE WatchedFile(s)
    <2> DEFINE c == Head(h.left)
               g == [h EXCEPT !.left = Tail(@)]
    <2>1. h.pc = "watched_file" /\ h.left \in Seq(FileChange)
        BY <1>0, <1>5 DEF WatchedFile, At, Handler
    <2>2. CASE h.left = <<>>
        <3>1. \E pc \in {"reload", "done"} : Goto(s, pc) /\ UNCHANGED docVars
            BY <1>5, <2>2 DEF WatchedFile
        <3>2. HandlersInv' /\ DocType'
            BY <3>1, GotoType DEF PC, Entry, DocType, docVars
        <3>3. QED
            BY <1>5, <3>2 DEF WatchedFile, ClientType, clientVars, MailType, ConfigType, configVars
    <2>3. CASE h.left # <<>>
        <3>1. c \in FileChange /\ Tail(h.left) \in Seq(FileChange)
            BY <2>1, <2>3
        <3>2. c.uri \in File
            BY <3>1 DEF FileChange
        <3>3. DocType'
            BY <1>5, <2>3, <3>2, ForgetType, ReindexType DEF WatchedFile, DocType
        <3>4. g.pc = h.pc /\ g.ret = h.ret /\ g.msg = h.msg /\ g \in Handler
            BY <1>0, <3>1 DEF Handler
        <3>5. HandlerInv(g)
            <4> HIDE DEF g, h
            <4> QED BY <1>0, <2>1, <3>4 DEF HandlerInv, Locals, Entry
        <3>6. HandlersInv'
            <4>1. Continue(s, g, FALSE)
                BY <1>5, <2>3 DEF WatchedFile
            <4> HIDE DEF g
            <4> QED BY <3>5, <4>1, ContinueType
        <3>7. QED
            BY <1>5, <3>3, <3>6 DEF WatchedFile, ClientType, clientVars, MailType, ConfigType, configVars
    <2>4. QED
        BY <2>2, <2>3
<1>6. CASE did_close(s)
    <2>1. h.msg \in Message /\ h.msg.op = "did_close"
        BY <1>0, <1>6 DEF did_close, At, HandlerInv, Entry
    <2>2. u \in File
        <3> HIDE DEF h
        <3> QED BY <2>1, MessageFields
    <2>3. HandlersInv' /\ DocType'
        BY <1>6, <2>2, ForgetType, GotoType DEF did_close, PC, Entry, DocType
    <2>4. QED
        BY <1>6, <2>3 DEF did_close, ClientType, clientVars, MailType, ConfigType, configVars
<1>7. CASE lookup(s)
    <2>1. h.msg \in Message /\ h.msg.op = "lookup"
        BY <1>0, <1>7 DEF lookup, At, HandlerInv, Entry
    <2>2. u \in File
        <3> HIDE DEF h
        <3> QED BY <2>1, MessageFields
    <2>3. HandlersInv'
        BY <1>7, GotoType DEF lookup, PC, Entry
    <2>4. DocType'
        BY <1>7, <2>2 DEF lookup, DocType, ClientType, ConfigType, parse_shared, Ast
    <2>5. QED
        BY <1>7, <2>3, <2>4 DEF lookup, ClientType, clientVars, MailType, ConfigType, configVars
<1>8. QED
    BY <1>1, <1>2, <1>3, <1>4, <1>5, <1>6, <1>7

\* Configurations read from a client's settings or from a project file.
LEMMA SettingsType ==
    ASSUME NEW st \in Settings
    PROVE  /\ Deserialized(st) \in Configuration
           /\ st.fennel \in Fennel /\ st.fls \in FlsProjectConfig
           /\ st.fennel.library \subseteq Folder
BY DEF Settings, Deserialized, Configuration, Fennel, FlsProjectConfig, DefaultFennel, DefaultFls

\* A configuration a step stores, from settings, a project file or a new global, is one.
LEMMA ConfigurationType ==
    ASSUME NEW c \in Configuration
    PROVE  /\ GlobalsOf(c) \subseteq Global /\ c.fennel.library \subseteq Folder
           /\ \A t \in Text : [c EXCEPT !.fls = parse_and_validate_flsproject(t)] \in Configuration
           /\ \A g \in Global : [c EXCEPT !.fennel.globals = @ \cup {g}] \in Configuration
<1>1. c.fennel \in Fennel /\ c.fls \in FlsProjectConfig
    BY DEF Configuration
<1>2. GlobalsOf(c) \subseteq Global /\ c.fennel.library \subseteq Folder
    BY <1>1 DEF GlobalsOf, Fennel, FlsProjectConfig
<1>3. \A t \in Text : parse_and_validate_flsproject(t) \in FlsProjectConfig
    BY DEF parse_and_validate_flsproject, FlsProjectConfig
<1>4. \A g \in Global : [c.fennel EXCEPT !.globals = @ \cup {g}] \in Fennel
    BY <1>1 DEF Fennel
<1>5. QED
    BY <1>2, <1>3, <1>4 DEF Configuration

\* What a handler does after reload_flsproject.
LEMMA AfterReloadType ==
    ASSUME NEW msg
    PROVE  AfterReload(msg) \in {"index", "refresh_again", "done"}
BY DEF AfterReload

\* The steps that read, change or apply the configuration.
LEMMA ConfigurationStepType ==
    ASSUME ServerType, NEW s \in Slot,
           apply_pulled_configuration(s) \/ refresh_ast_globals_and_diagnostics(s) \/ PublishEach(s)
           \/ initialized_index(s) \/ did_change_workspace_folders(s)
           \/ did_change_configuration(s) \/ add_global(s)
    PROVE  ServerType'
<1> USE DEF ServerType
<1> DEFINE h == handlers[s]
<1>0. HandlerInv(h) /\ Locals(h) /\ h \in Handler
    BY AtType
<1>1. CASE apply_pulled_configuration(s)
    <2> DEFINE st == Head(replies).settings
               g == [h EXCEPT !.pc = "refresh", !.ret = "reload"]
    <2>1. st \in Settings /\ replies' \in Seq(Reply)
        <3>1. replies \in Seq(Reply) /\ replies # <<>> /\ replies' = Tail(replies)
            BY <1>1 DEF apply_pulled_configuration, MailType
        <3>2. Head(replies) \in Reply /\ replies' \in Seq(Reply)
            BY <3>1
        <3>3. QED
            BY <3>2 DEF Reply
    <2>2. CASE ~Head(replies).ok
        <3>1. HandlersInv'
            BY <1>1, <2>2, GotoType DEF apply_pulled_configuration, PC, Entry
        <3>2. QED
            BY <1>1, <2>1, <2>2, <3>1 DEF apply_pulled_configuration, ClientType, clientVars, MailType,
                                          DocType, docVars, ConfigType
    <2>3. CASE Head(replies).ok
        <3> DEFINE folders == IF st.has_fennel THEN st.fennel.library ELSE {}
        <3>1. folders \in SUBSET Folder
            BY <2>1, SettingsType
        <3>2. DocType'
            <4>1. IndexFolders(folders)
                BY <1>1, <2>3 DEF apply_pulled_configuration
            <4> HIDE DEF folders
            <4> QED BY <3>1, <4>1, IndexType
        <3>3. config' \in Configuration
            <4> HIDE DEF st
            <4>1. config' = [fennel |-> IF st.has_fennel THEN st.fennel ELSE config.fennel,
                             fls |-> IF st.has_fls THEN st.fls ELSE config.fls]
                BY <1>1, <2>3 DEF apply_pulled_configuration, st
            <4>2. st.fennel \in Fennel /\ st.fls \in FlsProjectConfig
                BY <2>1, SettingsType
            <4>3. QED
                BY <4>1, <4>2 DEF ConfigType, Configuration
        <3>4. g.pc = "refresh" /\ g.ret = "reload" /\ g \in Handler
            BY <1>0 DEF Handler, PC
        <3>5. HandlersInv'
            <4>1. Continue(s, g, FALSE)
                BY <1>1, <2>3 DEF apply_pulled_configuration
            <4>2. HandlerInv(g)
                <5> HIDE DEF g, h
                <5> QED BY <1>0, <3>4 DEF HandlerInv, Locals, Entry
            <4> HIDE DEF g
            <4> QED BY <4>1, <4>2, ContinueType
        <3>6. QED
            BY <1>1, <2>1, <3>2, <3>3, <3>5 DEF apply_pulled_configuration, ClientType, clientVars,
                                                MailType, ConfigType
    <2>4. QED
        BY <2>2, <2>3
<1>2. CASE refresh_ast_globals_and_diagnostics(s)
    <2>1. PICK pc \in {"refresh", "refresh_again"} :
            Continue(s, [h EXCEPT !.pc = "publish_each",
                                  !.ret = IF pc = "refresh_again" THEN "done" ELSE @,
                                  !.todo = updated], FALSE)
        BY <1>2 DEF refresh_ast_globals_and_diagnostics
    <2> DEFINE ret == IF pc = "refresh_again" THEN "done" ELSE h.ret
               g == [h EXCEPT !.pc = "publish_each", !.ret = ret, !.todo = updated]
    <2>2. updated \in SUBSET File /\ "publish_each" \in PC
        BY DEF updated, PC
    <2>3. ret \in {"done", "reload", "index", "refresh_again"} /\ ret \in PC
        <3> HIDE DEF h
        <3> QED BY <1>0 DEF Locals, PC
    <2>4. g.pc = "publish_each" /\ g.ret = ret /\ g \in Handler
        <3> HIDE DEF ret
        <3> QED BY <1>0, <2>2, <2>3 DEF Handler
    <2>5. HandlersInv'
        <3>1. Continue(s, g, FALSE)
            BY <2>1
        <3>2. HandlerInv(g)
            <4> HIDE DEF g, h, ret
            <4> QED BY <1>0, <2>3, <2>4 DEF HandlerInv, Locals, Entry
        <3> HIDE DEF g
        <3> QED BY <3>1, <3>2, ContinueType
    <2>6. globals_cache' \subseteq Global
        BY <1>2, ConfigurationType DEF refresh_ast_globals_and_diagnostics, ConfigType
    <2>7. DocType'
        <3>1. ast_map' = AstsWith(GlobalsOf(config)) /\ GlobalsOf(config) \in SUBSET Global
            BY <1>2, ConfigurationType DEF refresh_ast_globals_and_diagnostics, ConfigType
        <3>2. \A a \in Ast, gs \in SUBSET Global : [a EXCEPT !.globals = gs] \in Ast
            BY DEF Ast
        <3>3. \A gs \in SUBSET Global : AstsWith(gs) \in [File -> Ast \cup {NoAst}]
            BY <3>2 DEF AstsWith, DocType
        <3>4. QED
            BY <1>2, <3>1, <3>3 DEF refresh_ast_globals_and_diagnostics, DocType
    <2>8. QED
        BY <1>2, <2>5, <2>6, <2>7 DEF refresh_ast_globals_and_diagnostics, ClientType, clientVars,
                                      MailType, ConfigType
<1>3. CASE PublishEach(s)
    <2>1. h.todo \subseteq File /\ h.pc = "publish_each"
        BY <1>0, <1>3 DEF PublishEach, At, Handler
    <2>2. HandlersInv' /\ ErrorsType' /\ SentType'
        <3>1. CASE Goto(s, h.ret) /\ UNCHANGED <<on_save_or_open_errors, published>>
            <4>1. h.ret \in {"done", "reload", "index", "refresh_again"} /\ h.ret \in PC
                <5> HIDE DEF h
                <5> QED BY <1>0 DEF Locals, PC
            <4>2. h.ret \notin Entry \cup {"watched_file", "did_open_cache", "reload_publish"}
                <5> HIDE DEF h
                <5> QED BY <4>1 DEF Entry
            <4>3. QED
                BY <3>1, <4>1, <4>2, GotoType DEF DocType, MailType
        <3>2. ASSUME NEW u \in h.todo,
                     \/ /\ Continue(s, [h EXCEPT !.todo = @ \ {u}], FALSE)
                        /\ UNCHANGED <<on_save_or_open_errors, published>>
                     \/ /\ doc_map[u] # None /\ ast_map[u] # NoAst
                        /\ ComputeAndPublish(s, [h EXCEPT !.todo = @ \ {u}], u, doc_map[u], ast_map[u],
                                             FALSE)
              PROVE  HandlersInv' /\ ErrorsType' /\ SentType'
            <4> DEFINE rest == [h EXCEPT !.todo = @ \ {u}]
            <4>1. /\ rest.pc = h.pc /\ rest.ret = h.ret
                  /\ rest \in Handler /\ u \in File
                BY <1>0, <2>1 DEF Handler
            <4>2. Locals(rest) /\ HandlerInv(rest)
                <5> HIDE DEF rest, h
                <5> QED BY <1>0, <2>1, <4>1 DEF HandlerInv, Locals, Entry
            <4>3. CASE Continue(s, rest, FALSE) /\ UNCHANGED <<on_save_or_open_errors, published>>
                <5> HIDE DEF rest
                <5> QED BY <4>2, <4>3, ContinueType DEF DocType, MailType
            <4>4. CASE /\ doc_map[u] # None /\ ast_map[u] # NoAst
                       /\ ComputeAndPublish(s, rest, u, doc_map[u], ast_map[u], FALSE)
                <5> HIDE DEF rest, h
                <5>1. u \in File
                    BY <4>1
                <5>2. doc_map[u] \in Text /\ ast_map[u] \in Ast
                    BY <5>1, <4>4 DEF DocType
                <5>3. QED
                    BY <4>2, <4>4, <5>1, <5>2, ComputeAndPublishType
            <4>5. QED
                BY <3>2, <4>3, <4>4
        <3>3. QED
            BY <1>3, <3>1, <3>2 DEF PublishEach
    <2>3. QED
        BY <1>3, <2>2 DEF PublishEach, ClientType, clientVars, MailType, DocType,
                          ConfigType, configVars
<1>4. CASE initialized_index(s)
    <2>1. HandlersInv'
        BY <1>4, GotoType DEF initialized_index, PC, Entry
    <2>2. workspace_map \cup config.fennel.library \in SUBSET Folder
        BY ConfigurationType DEF ConfigType
    <2>3. DocType'
        BY <1>4, <2>2, IndexType DEF initialized_index
    <2>4. QED
        BY <1>4, <2>1, <2>3 DEF initialized_index, ClientType, clientVars, MailType, ConfigType, configVars
<1>5. CASE did_change_workspace_folders(s)
    <2>1. h.msg \in Message /\ h.msg.op = "did_change_workspace_folders"
        BY <1>0, <1>5 DEF did_change_workspace_folders, At, HandlerInv, Entry
    <2>2. h.msg.added \in SUBSET Folder
        <3> HIDE DEF h
        <3> QED BY <2>1, MessageFields
    <2>3. DocType' /\ workspace_map' \subseteq Folder
        BY <1>5, <2>2, IndexType DEF did_change_workspace_folders, ConfigType
    <2>4. HandlersInv'
        BY <1>5, GotoType DEF did_change_workspace_folders, PC, Entry
    <2>5. QED
        BY <1>5, <2>3, <2>4 DEF did_change_workspace_folders, ClientType, clientVars, MailType, ConfigType
<1>6. CASE did_change_configuration(s)
    <2>1. h.msg \in Message /\ h.msg.op = "did_change_configuration"
        BY <1>0, <1>6 DEF did_change_configuration, At, HandlerInv, Entry
    <2>2. h.msg.settings \in Settings
        <3> HIDE DEF h
        <3> QED BY <2>1, MessageFields
    <2>3. HandlersInv'
        BY <1>6, GotoType DEF did_change_configuration, PC, Entry
    <2>4. Deserialized(h.msg.settings) \in Configuration
        <3> HIDE DEF h
        <3> QED BY <2>2, SettingsType
    <2>5. Deserialized(h.msg.settings).fennel.library \in SUBSET Folder
        <3> HIDE DEF h
        <3> QED BY <2>4, ConfigurationType
    <2>6. DocType' /\ config' \in Configuration
        BY <1>6, <2>4, <2>5, IndexType DEF did_change_configuration, ConfigType, DocType, docVars
    <2>7. QED
        BY <1>6, <2>3, <2>6 DEF did_change_configuration, ClientType, clientVars, MailType, ConfigType
<1>7. CASE add_global(s)
    <2> DEFINE g == [h EXCEPT !.pc = "refresh", !.ret = "done"]
    <2>1. h.msg \in Message /\ h.msg.op = "add_global"
        BY <1>0, <1>7 DEF add_global, At, HandlerInv, Entry
    <2>2. h.msg.name \in Global
        <3> HIDE DEF h
        <3> QED BY <2>1, MessageFields
    <2>3. config' \in Configuration
        BY <1>7, <2>2, ConfigurationType DEF add_global, ConfigType
    <2>4. g.pc = "refresh" /\ g.ret = "done" /\ g \in Handler
        BY <1>0 DEF Handler, PC
    <2>5. HandlersInv'
        <3>1. Continue(s, g, FALSE)
            BY <1>7 DEF add_global
        <3>2. HandlerInv(g)
            <4> HIDE DEF g, h
            <4> QED BY <1>0, <2>4 DEF HandlerInv, Locals, Entry
        <3> HIDE DEF g
        <3> QED BY <3>1, <3>2, ContinueType
    <2>6. QED
        BY <1>7, <2>3, <2>5 DEF add_global, ClientType, clientVars, MailType, DocType, docVars, ConfigType
<1>8. QED
    BY <1>1, <1>2, <1>3, <1>4, <1>5, <1>6, <1>7

\* The project file reload_flsproject takes.
LEMMA ProjectFilesType ==
    ASSUME ClientType, DocType, ConfigType, NEW p \in ProjectFiles
    PROVE  p.uri \in File /\ p.text \in Text
BY DEF ProjectFiles, ClientType, DocType, ConfigType

\* The steps of reload_flsproject.
LEMMA ReloadStepType ==
    ASSUME ServerType, NEW s \in Slot, reload_flsproject(s) \/ ReloadPublish(s)
    PROVE  ServerType'
<1> USE DEF ServerType
<1> DEFINE h == handlers[s]
           after == AfterReload(h.msg)
<1>0. HandlerInv(h) /\ Locals(h) /\ h \in Handler
    BY AtType
<1>a. after \in {"index", "refresh_again", "done"}
    BY AfterReloadType
<1>b. after \in PC /\ after \notin Entry \cup {"watched_file", "did_open_cache", "reload_publish"}
    <2> HIDE DEF after
    <2> QED BY <1>a DEF PC, Entry
<1>1. CASE reload_flsproject(s)
    <2>1. CASE Goto(s, after) /\ UNCHANGED config
        <3>1. HandlersInv'
            <4> HIDE DEF after
            <4> QED BY <1>b, <2>1, GotoType
        <3>2. QED
            BY <1>1, <2>1, <3>1 DEF reload_flsproject, ClientType, clientVars, MailType, DocType, docVars,
                                    ConfigType
    <2>2. ASSUME NEW p \in ProjectFiles,
                 config' = [config EXCEPT !.fls = parse_and_validate_flsproject(p.text)],
                 Continue(s, [h EXCEPT !.pc = "reload_publish", !.uri = p.uri, !.text = p.text],
                          ProjectErrors[p.text] # {})
          PROVE  ServerType'
        <3> DEFINE g == [h EXCEPT !.pc = "reload_publish", !.uri = p.uri, !.text = p.text]
                   b == ProjectErrors[p.text] # {}
        <3>1. p.uri \in File /\ p.text \in Text
            BY ProjectFilesType
        <3>2. /\ g.pc = "reload_publish" /\ g.uri = p.uri /\ g.text = p.text
              /\ g.ret = h.ret
              /\ g \in Handler
            BY <1>0, <3>1 DEF Handler, PC
        <3>3. HandlerInv(g)
            <4> HIDE DEF g, h
            <4> QED BY <1>0, <3>1, <3>2 DEF HandlerInv, Locals, Entry
        <3>4. HandlersInv'
            <4>1. Continue(s, g, b) /\ b \in BOOLEAN
                BY <2>2
            <4> HIDE DEF g, b
            <4> QED BY <3>3, <4>1, ContinueType
        <3>5. config' \in Configuration
            BY <2>2, <3>1, ConfigurationType DEF ConfigType
        <3>6. QED
            BY <1>1, <3>4, <3>5 DEF reload_flsproject, ClientType, clientVars, MailType, DocType, docVars,
                                    ConfigType
    <2>3. QED
        BY <1>1, <2>1, <2>2 DEF reload_flsproject
<1>2. CASE ReloadPublish(s)
    <2> DEFINE u == h.uri
               ast == IF ast_map[u] # NoAst THEN ast_map[u] ELSE parse_shared(h.text, globals_cache)
               g == [h EXCEPT !.pc = "refresh", !.ret = after, !.uri = None, !.text = None]
    <2>1. u \in File /\ h.text \in Text
        BY <1>0, <1>2 DEF ReloadPublish, At, HandlerInv
    <2>2. ast \in Ast
        <3>1. parse_shared(h.text, globals_cache) \in Ast
            BY <2>1 DEF parse_shared, Ast, ConfigType
        <3> HIDE DEF h
        <3> QED BY <2>1, <3>1 DEF DocType
    <2>3. g.pc = "refresh" /\ g.ret = after /\ g \in Handler
        <3> HIDE DEF after
        <3> QED BY <1>0, <1>b DEF Handler, PC
    <2>4. HandlerInv(g)
        <3> HIDE DEF g, h, after
        <3> QED BY <1>0, <1>a, <2>3 DEF HandlerInv, Locals, Entry
    <2>5. CASE Continue(s, g, FALSE) /\ UNCHANGED <<ast_map, on_save_or_open_errors, published>>
        <3>1. HandlersInv'
            <4> HIDE DEF g
            <4> QED BY <2>4, <2>5, ContinueType
        <3>2. QED
            BY <1>2, <2>5, <3>1 DEF ReloadPublish, ClientType, clientVars, MailType, DocType, ConfigType,
                                    configVars
    <2>6. CASE /\ doc_map[u] # None
               /\ ast_map' = [ast_map EXCEPT ![u] = ast]
               /\ ComputeAndPublish(s, g, u, doc_map[u], ast, FALSE)
        <3>1. doc_map[u] \in Text
            BY <2>1, <2>6 DEF DocType
        <3>2. HandlersInv' /\ ErrorsType' /\ SentType'
            <4> HIDE DEF g, ast, u
            <4> QED BY <2>1, <2>2, <2>4, <2>6, <3>1, ComputeAndPublishType
        <3>3. DocType'
            <4> HIDE DEF ast
            <4> QED BY <1>2, <2>2, <2>6, <3>2 DEF ReloadPublish, DocType
        <3>4. QED
            BY <1>2, <3>2, <3>3 DEF ReloadPublish, ClientType, clientVars, MailType, ConfigType, configVars
    <2>7. QED
        BY <1>2, <2>5, <2>6 DEF ReloadPublish
<1>3. QED
    BY <1>1, <1>2

\* The client's steps.
LEMMA ClientStepType ==
    ASSUME TypeInv, (\E s \in Slot : Answer(s)) \/ ReportChanges \/ User
    PROVE  TypeInv'
<1> USE DEF TypeInv, ServerType, HistoryType, historyVars, Tell, Operation, ClientOnly, DiskBecomes
<1>1. ASSUME NEW m \in Message, Tell(m)
      PROVE  inbox' \in Seq(Message)
    BY <1>1 DEF MailType
<1>2. ASSUME UNCHANGED <<handlers, current>>
      PROVE  HandlersInv'
    BY <1>2 DEF HandlersInv
<1>3. ASSUME ops < MaxOps, ops' = ops + 1
      PROVE  ops' \in 0..MaxOps
    BY <1>3 DEF ClientType
<1>4. ASSUME NEW u \in File, NEW t \in Text \cup {None}, DiskBecomes(u, t)
      PROVE  /\ disk' \in [File -> Text \cup {None}]
             /\ changes' \in Seq(FileChange)
             /\ unwatched' \subseteq File
    <2>1. [uri |-> u, deleted |-> t = None] \in FileChange
        BY DEF FileChange
    <2> DEFINE c == [uri |-> u, deleted |-> t = None]
    <2>2. Append(changes, c) \in Seq(FileChange)
        <3> HIDE DEF c
        <3> QED BY <2>1 DEF ClientType, c
    <2>3. changes' \in Seq(FileChange) /\ unwatched' \subseteq File
        <3>1. CASE watching
            BY <1>4, <2>2, <3>1 DEF ClientType
        <3>2. CASE ~watching
            BY <1>4, <3>2 DEF ClientType
        <3>3. QED
            BY <3>1, <3>2
    <2>4. QED
        BY <1>4, <2>3 DEF ClientType
<1>5. ASSUME NEW s \in Slot, Answer(s)
      PROVE  TypeInv'
    <2>1. PICK ok \in BOOLEAN :
            /\ replies' = Append(replies, [slot |-> s, ok |-> ok, settings |-> settings])
            /\ watching' = (watching \/ (handlers[s].pc = "await_register" /\ ok))
        BY <1>5 DEF Answer
    <2>2. replies' \in Seq(Reply)
        BY <2>1 DEF MailType, ClientType, Reply
    <2>3. watching' \in BOOLEAN
        BY <2>1
    <2>4. QED
        BY <1>2, <1>5, <2>2, <2>3 DEF Answer, ClientType, MailType, DocType, docVars, ConfigType, configVars
<1>6. CASE ReportChanges
    <2>1. [op |-> "did_change_watched_files", changes |-> changes] \in Message
        BY DEF Message, ClientType
    <2>2. QED
        BY <1>1, <1>2, <1>6, <2>1 DEF ReportChanges, ClientType, MailType, DocType, docVars, ConfigType,
                                      configVars
<1>7. ASSUME NEW u \in File, NEW t \in Text, Open(u, t)
      PROVE  TypeInv'
    <2>1. [op |-> "did_open", uri |-> u, text |-> t] \in Message
        BY DEF Message
    <2>2. QED
        BY <1>1, <1>2, <1>3, <1>7, <2>1 DEF Open, ClientType, MailType, DocType, docVars, ConfigType, configVars
<1>8. ASSUME NEW u \in File, NEW t \in Text, Edit(u, t)
      PROVE  TypeInv'
    <2>1. [op |-> "did_change", uri |-> u, base |-> editor[u], text |-> t] \in Message
        BY <1>8 DEF Edit, Message, ClientType
    <2>2. QED
        BY <1>1, <1>2, <1>3, <1>8, <2>1 DEF Edit, ClientType, MailType, DocType, docVars, ConfigType, configVars
<1>9. ASSUME NEW u \in File, Save(u)
      PROVE  TypeInv'
    <2>1. [op |-> "did_save", uri |-> u] \in Message
        BY DEF Message
    <2>2. QED
        BY <1>1, <1>2, <1>3, <1>4, <1>9, <2>1 DEF Save, ClientType, MailType, DocType, docVars, ConfigType,
                                                  configVars
<1>10. ASSUME NEW u \in File, Close(u)
       PROVE  TypeInv'
    <2>1. [op |-> "did_close", uri |-> u] \in Message
        BY DEF Message
    <2>2. QED
        BY <1>1, <1>2, <1>3, <1>10, <2>1 DEF Close, ClientType, MailType, DocType, docVars, ConfigType, configVars
<1>11. ASSUME NEW u \in File, Lookup(u)
       PROVE  TypeInv'
    <2>1. [op |-> "lookup", uri |-> u] \in Message
        BY DEF Message
    <2>2. QED
        BY <1>1, <1>2, <1>3, <1>11, <2>1 DEF Lookup, ClientType, MailType, DocType, docVars, ConfigType, configVars
<1>12. ASSUME NEW u \in File, NEW t \in Text \cup {None}, ExternalChange(u, t)
       PROVE  TypeInv'
    BY <1>2, <1>3, <1>4, <1>12 DEF ExternalChange, ClientType, MailType, DocType, docVars, ConfigType, configVars
<1>13. ASSUME NEW st \in SettingsChoices, NEW empty \in BOOLEAN, ChangeSettings(st, empty)
       PROVE  TypeInv'
    <2>1. [op |-> "did_change_configuration", empty |-> empty, settings |-> st] \in Message
        BY DEF Message
    <2>2. QED
        BY <1>1, <1>2, <1>3, <1>13, <2>1 DEF ChangeSettings, ClientType, MailType, DocType, docVars, ConfigType,
                                             configVars
<1>14. ASSUME NEW g \in Global, AddGlobal(g)
       PROVE  TypeInv'
    <2>1. [op |-> "add_global", name |-> g] \in Message
        BY DEF Message
    <2>2. QED
        BY <1>1, <1>2, <1>3, <1>14, <2>1 DEF AddGlobal, ClientType, MailType, DocType, docVars, ConfigType,
                                             configVars
<1>15. ASSUME NEW f \in Folder, ChangeFolders(f)
       PROVE  TypeInv'
    <2>1. [op |-> "did_change_workspace_folders",
           added |-> {f} \ workspace_map, removed |-> {f} \cap workspace_map] \in Message
        BY DEF Message
    <2>2. QED
        BY <1>1, <1>2, <1>3, <1>15, <2>1 DEF ChangeFolders, ClientType, MailType, DocType, docVars, ConfigType,
                                             configVars
<1>16. QED
    BY <1>5, <1>6, <1>7, <1>8, <1>9, <1>10, <1>11, <1>12, <1>13, <1>14, <1>15 DEF User

\* TypeOK is inductive together with what each handler's locals hold.
LEMMA TypeInvInductive == Spec => []TypeInv
<1>1. Init => TypeInv
    <2> SUFFICES ASSUME Init PROVE TypeInv
        OBVIOUS
    <2>1. ClientType /\ MailType
        <3>1. [op |-> "initialized"] \in Message
            BY DEF Message
        <3>2. settings \in Settings /\ disk \in [File -> Text \cup {None}]
            BY DEF Init
        <3>3. ClientType
            <4>1. ops \in 0..MaxOps
                BY DEF Init
            <4>2. editor \in [File -> Text \cup {None}] /\ changes \in Seq(FileChange)
                BY DEF Init
            <4>3. watching \in BOOLEAN /\ unwatched \subseteq File
                BY DEF Init
            <4>4. QED
                BY <3>2, <4>1, <4>2, <4>3 DEF ClientType
        <3>4. MailType
            BY <3>1 DEF Init, MailType
        <3>5. QED
            BY <3>3, <3>4
    <2>2. DocType
        BY DEF Init, DocType
    <2>3. ConfigType
        <3>1. Deserialized(settings) \in Configuration
            BY SettingsType DEF Init
        <3>2. [fennel |-> DefaultFennel, fls |-> DefaultFls] \in Configuration
            BY DEF Configuration, DefaultFennel, DefaultFls, Fennel, FlsProjectConfig
        <3>3. QED
            BY <3>1, <3>2 DEF Init, ConfigType
    <2>4. HandlersInv
        <3>1. Idle \in Handler /\ HandlerInv(Idle)
            BY DEF Idle, Handler, PC, NoMessage, HandlerInv, Locals, Entry
        <3>2. QED
            BY <3>1 DEF Init, HandlersInv
    <2>5. HistoryType
        BY DEF Init, HistoryType
    <2>6. QED
        BY <2>1, <2>2, <2>3, <2>4, <2>5 DEF TypeInv, ServerType
<1>2. TypeInv /\ [Next]_vars => TypeInv'
    <2> SUFFICES ASSUME TypeInv, [Next]_vars PROVE TypeInv'
        OBVIOUS
    <2>1. ASSUME NEW s \in Slot, ServerStep(s) PROVE TypeInv'
        <3>1. ServerType'
            BY <2>1, ControlStepType, DocumentStepType, ConfigurationStepType, ReloadStepType
               DEF ServerStep, HandlerStep, TypeInv
        <3>2. HistoryType'
            <4>1. /\ overtaken' = overtaken \cup {u \in File : Overtakes(s, u)}
                  /\ reconfigured' = (reconfigured \/ config' # config)
                BY <2>1 DEF ServerStep
            <4>2. QED
                BY <4>1 DEF TypeInv, HistoryType
        <3>3. QED
            BY <3>1, <3>2 DEF TypeInv
    <2>2. CASE UNCHANGED vars
        BY <2>2 DEF vars, clientVars, taskVars, docVars, configVars, historyVars, TypeInv,
                    ServerType, HistoryType, ClientType, MailType, DocType,
                    ConfigType, HandlersInv
    <2>3. QED
        BY <2>1, <2>2, ClientStepType DEF Next
<1>3. QED
    BY <1>1, <1>2, PTL DEF Spec

\* TypeOK: every variable of the server and of its client keeps its type; in
\* particular no handler resumes with a local it never set.
THEOREM TypeCorrect == Spec => []TypeOK
<1>1. TypeInv => TypeOK
    BY DEF TypeInv, ServerType, HistoryType, TypeOK, ClientType, MailType, DocType, ConfigType, HandlersInv
<1>2. QED
    BY <1>1, TypeInvInductive, PTL

-----------------------------------------------------------------------------
(* The handler that takes a step *)

\* A handler that goes on as h is h, whether or not it keeps the task.
LEMMA GoesOn ==
    ASSUME HandlersInv, NEW s \in Slot, NEW h, NEW b \in BOOLEAN, Continue(s, h, b)
    PROVE  /\ handlers'[s] = IF h.pc = "done" THEN Idle ELSE h
           /\ current' = IF h.pc = "done" THEN NoSlot ELSE IF b THEN current' ELSE s
           /\ current' \in {s, NoSlot}
BY DEF Continue, HandlersInv

\* One that moves to pc changes nothing else, unless it is done.
LEMMA Moves ==
    ASSUME HandlersInv, NEW s \in Slot, NEW pc, Goto(s, pc)
    PROVE  /\ handlers'[s] = IF pc = "done" THEN Idle ELSE [handlers[s] EXCEPT !.pc = pc]
           /\ current' = IF pc = "done" THEN NoSlot ELSE s
<1> DEFINE g == [handlers[s] EXCEPT !.pc = pc]
<1>1. g.pc = pc
    BY DEF HandlersInv, Handler
<1>2. Continue(s, g, FALSE)
    BY DEF Goto
<1> HIDE DEF g
<1>3. handlers'[s] = (IF g.pc = "done" THEN Idle ELSE g)
      /\ current' = (IF g.pc = "done" THEN NoSlot ELSE s)
    BY <1>2, GoesOn
<1>4. QED
    BY <1>1, <1>3 DEF g

\* A step of one handler leaves the others where they are.
LEMMA OthersStay ==
    ASSUME HandlersInv, NEW s \in Slot, HandlerStep(s)
    PROVE  \A r \in Slot \ {s} : handlers'[r] = handlers[r]
<1>1. ASSUME \/ \E h, b : Continue(s, h, b)
             \/ \E pc : Await(s, pc)
             \/ UNCHANGED handlers
      PROVE  \A r \in Slot \ {s} : handlers'[r] = handlers[r]
    BY <1>1 DEF Continue, Await, HandlersInv
<1>2. \/ \E h, b : Continue(s, h, b)
      \/ \E pc : Await(s, pc)
      \/ UNCHANGED handlers
    BY DEF HandlerStep, Start, Resume, register_file_watchers, Registered, initialized_index,
       pull_configuration, apply_pulled_configuration, refresh_ast_globals_and_diagnostics, PublishEach,
       reload_flsproject, ReloadPublish, did_open, did_open_cache, did_change, did_save, did_close,
       did_change_watched_files, WatchedFile, did_change_workspace_folders, did_change_configuration,
       add_global, lookup, Goto, ComputeAndPublish
<1>3. QED
    BY <1>1, <1>2

\* No step of the client moves a handler, or changes what the server keeps.
LEMMA ClientLeavesServer ==
    ASSUME \/ \E s \in Slot : Answer(s)
           \/ ReportChanges \/ User \/ UNCHANGED vars
    PROVE  UNCHANGED <<handlers, current, published, doc_map, ast_map, open_docs, on_save_or_open_errors,
                       config, globals_cache, workspace_map, overtaken, reconfigured>>
BY DEF Answer, ReportChanges, User, ClientOnly, Open, Edit, Save, Close, Lookup, ExternalChange,
       ChangeSettings, AddGlobal, ChangeFolders, vars, taskVars, docVars, configVars, historyVars

\* The points that a handler leaves in the run that brought it there.
AtOnce == {"refresh_again", "index", "did_change", "did_save", "did_change_watched_files", "watched_file",
           "did_close", "lookup", "did_change_workspace_folders", "did_change_configuration",
           "add_global"}

\* A step of a handler that has started moves it beyond the point where it got its
\* message; one step each leads to where it waits for the watchers, goes through
\* the changes they report, has still to cache the Ast of an opened document, or
\* has read the project file.
LEMMA MovesOn ==
    ASSUME ServerType, NEW s \in Slot, HandlerStep(s), ~Start(s), ~Resume(s)
    PROVE  /\ handlers'[s].pc \notin Entry
           /\ handlers'[s].pc \in AtOnce => current' = s
           /\ handlers'[s].pc = "did_open_cache" => did_open(s)
           /\ handlers'[s].pc = "await_register" => register_file_watchers(s)
           /\ handlers'[s].pc = "watched_file" => did_change_watched_files(s) \/ WatchedFile(s)
           /\ handlers'[s].pc = "reload_publish" => reload_flsproject(s)
<1> USE DEF ServerType
<1> DEFINE Left == Entry \cup (IF register_file_watchers(s) THEN {} ELSE {"await_register"})
                         \cup (IF did_change_watched_files(s) \/ WatchedFile(s) THEN {}
                               ELSE {"watched_file"})
                         \cup (IF did_open(s) THEN {} ELSE {"did_open_cache"})
                         \cup (IF reload_flsproject(s) THEN {} ELSE {"reload_publish"})
           Ends == handlers'[s].pc \notin Left /\ (handlers'[s].pc \in AtOnce => current' = s)
<1>l. /\ \A pc \in {"done", "pull", "await_pull", "reload", "refresh", "refresh_again", "publish_each",
                    "index"} : pc \notin Left
      /\ reload_flsproject(s) => "reload_publish" \notin Left
      /\ did_open(s) => "did_open_cache" \notin Left
      /\ register_file_watchers(s) => "await_register" \notin Left
      /\ did_change_watched_files(s) \/ WatchedFile(s) => "watched_file" \notin Left
      /\ Entry \subseteq Left
    BY DEF Entry
<1>r. /\ ~register_file_watchers(s) => "await_register" \in Left
      /\ ~(did_change_watched_files(s) \/ WatchedFile(s)) => "watched_file" \in Left
      /\ ~did_open(s) => "did_open_cache" \in Left
      /\ ~reload_flsproject(s) => "reload_publish" \in Left
    OBVIOUS
<1>a. \A pc \in {"done", "pull", "await_register", "await_pull", "reload", "reload_publish", "refresh",
                  "publish_each", "did_open_cache"} : pc \notin AtOnce
    BY DEF AtOnce
<1> HIDE DEF Left
<1> SUFFICES Ends
    BY <1>l, <1>r
<1>h. PICK h : h = handlers[s]
    OBVIOUS
<1>0. Locals(h) /\ h \in Handler
    BY <1>h, AtType
<1>1. ASSUME NEW g, NEW b \in BOOLEAN, Continue(s, g, b), g.pc \notin Left, b => g.pc \notin AtOnce
      PROVE  Ends
    BY <1>1, GoesOn, <1>l DEF Idle, AtOnce
<1>2. ASSUME NEW pc, Goto(s, pc), pc \notin Left
      PROVE  Ends
    <2> DEFINE g == [h EXCEPT !.pc = pc]
    <2>1. g.pc = pc
        BY <1>0 DEF Handler
    <2>2. Continue(s, g, FALSE)
        BY <1>2, <1>h DEF Goto
    <2> HIDE DEF g
    <2>3. QED
        BY <1>1, <1>2, <2>1, <2>2
<1>3. ASSUME NEW pc, Await(s, pc), pc \notin Left, pc \notin AtOnce
      PROVE  Ends
    BY <1>3, <1>0, <1>h DEF Await, HandlersInv, Handler
<1>6. CASE register_file_watchers(s) \/ Registered(s)
    <2> DEFINE g == [h EXCEPT !.pc = "pull"]
    <2>1. g.pc = "pull"
        BY <1>0 DEF Handler
    <2>2. (register_file_watchers(s) /\ Await(s, "await_register")) \/ \E b \in BOOLEAN : Continue(s, g, b)
        BY <1>6, <1>h DEF register_file_watchers, Registered, MailType, Reply
    <2> HIDE DEF g
    <2>3. QED
        BY <1>1, <1>3, <2>1, <2>2, <1>l, <1>a
<1>7. CASE \/ initialized_index(s) \/ pull_configuration(s) \/ did_close(s) \/ lookup(s)
           \/ did_change_workspace_folders(s) \/ did_change_configuration(s)
    <2>1. Await(s, "await_pull") \/ Goto(s, "reload") \/ Goto(s, "done") \/ Goto(s, "pull")
        BY <1>7 DEF initialized_index, pull_configuration, did_close, lookup,
           did_change_workspace_folders, did_change_configuration
    <2>2. QED
        BY <1>2, <1>3, <2>1, <1>l, <1>a
<1>8. CASE apply_pulled_configuration(s) \/ refresh_ast_globals_and_diagnostics(s) \/ add_global(s)
    <2>1. ASSUME NEW ret, NEW todo, NEW pc \in {"refresh", "publish_each"},
                 \/ Continue(s, [h EXCEPT !.pc = pc, !.ret = ret], FALSE)
                 \/ Continue(s, [h EXCEPT !.pc = pc, !.ret = ret, !.todo = todo], FALSE)
          PROVE  Ends
        <3> DEFINE g == [h EXCEPT !.pc = pc, !.ret = ret]
                   k == [h EXCEPT !.pc = pc, !.ret = ret, !.todo = todo]
        <3>1. g.pc = pc /\ k.pc = pc
            BY <1>0 DEF Handler
        <3>2. Continue(s, g, FALSE) \/ Continue(s, k, FALSE)
            BY <2>1
        <3> HIDE DEF g, k
        <3>3. QED
            BY <1>1, <3>1, <3>2, <1>l, <1>a
    <2>2. CASE apply_pulled_configuration(s)
        <3>1. Goto(s, "reload") \/ Continue(s, [h EXCEPT !.pc = "refresh", !.ret = "reload"], FALSE)
            BY <2>2, <1>h DEF apply_pulled_configuration
        <3>2. QED
            BY <1>2, <2>1, <3>1, <1>l
    <2>3. CASE add_global(s)
        <3>1. Continue(s, [h EXCEPT !.pc = "refresh", !.ret = "done"], FALSE)
            BY <2>3, <1>h DEF add_global
        <3>2. QED
            BY <2>1, <3>1
    <2>4. CASE refresh_ast_globals_and_diagnostics(s)
        <3>1. PICK ret, todo :
                  Continue(s, [h EXCEPT !.pc = "publish_each", !.ret = ret, !.todo = todo], FALSE)
            BY <2>4, <1>h DEF refresh_ast_globals_and_diagnostics
        <3>2. QED
            BY <2>1, <3>1
    <2>5. QED
        BY <1>8, <2>2, <2>3, <2>4
<1>9. CASE PublishEach(s)
    <2>1. ASSUME NEW u \in h.todo,
                 \E b \in BOOLEAN : Continue(s, [h EXCEPT !.todo = @ \ {u}], b)
          PROVE  Ends
        <3> DEFINE g == [h EXCEPT !.todo = @ \ {u}]
        <3>1. g.pc = "publish_each" /\ g \in Handler
            BY <1>0, <1>9, <1>h DEF Handler, PublishEach, At
        <3>2. \E b \in BOOLEAN : Continue(s, g, b)
            BY <2>1
        <3> HIDE DEF g
        <3>3. QED
            BY <1>1, <3>1, <3>2, <1>l, <1>a
    <2>2. \/ Goto(s, h.ret)
          \/ \E u \in h.todo : \E b \in BOOLEAN : Continue(s, [h EXCEPT !.todo = @ \ {u}], b)
        BY <1>9, <1>h DEF PublishEach, ComputeAndPublish
    <2>3. h.ret \notin Left
        BY <1>0, <1>l DEF Locals
    <2>4. QED
        BY <1>2, <2>1, <2>2, <2>3
<1>10. CASE reload_flsproject(s)
    <2>1. ASSUME NEW q \in ProjectFiles,
                 Continue(s, [h EXCEPT !.pc = "reload_publish", !.uri = q.uri, !.text = q.text],
                          ProjectErrors[q.text] # {})
          PROVE  Ends
        <3> DEFINE g == [h EXCEPT !.pc = "reload_publish", !.uri = q.uri, !.text = q.text]
        <3>1. g.pc = "reload_publish"
            BY <1>0 DEF Handler
        <3>2. Continue(s, g, ProjectErrors[q.text] # {})
            BY <2>1
        <3> HIDE DEF g
        <3>3. QED
            BY <1>1, <1>10, <3>1, <3>2, <1>l, <1>a
    <2>2. AfterReload(h.msg) \notin Left
        BY AfterReloadType, <1>l
    <2>3. CASE Goto(s, AfterReload(h.msg))
        BY <1>2, <2>2, <2>3
    <2>4. QED
        BY <1>10, <1>h, <2>1, <2>3 DEF reload_flsproject
<1>11. CASE ReloadPublish(s)
    <2> DEFINE g == [h EXCEPT !.pc = "refresh", !.ret = AfterReload(h.msg), !.uri = None, !.text = None]
    <2>1. g.pc = "refresh"
        BY <1>0 DEF Handler
    <2>2. \E b \in BOOLEAN : Continue(s, g, b)
        BY <1>11, <1>h DEF ReloadPublish, ComputeAndPublish
    <2> HIDE DEF g
    <2>3. QED
        BY <1>1, <2>1, <2>2, <1>l, <1>a
<1>12. CASE did_open(s)
    <2>1. PICK ast : Continue(s, [h EXCEPT !.pc = "did_open_cache", !.ast = ast], TRUE)
        BY <1>12, <1>h DEF did_open, ComputeAndPublish
    <2> DEFINE g == [h EXCEPT !.pc = "did_open_cache", !.ast = ast]
    <2>2. g.pc = "did_open_cache" /\ Continue(s, g, TRUE)
        BY <1>0, <2>1 DEF Handler
    <2> HIDE DEF g
    <2>3. QED
        BY <1>1, <1>12, <2>2, <1>l, <1>a
<1>13. CASE did_open_cache(s)
    <2>1. PICK pc : pc = ReloadIfProject(h.msg.uri)
        OBVIOUS
    <2> DEFINE g == [h EXCEPT !.pc = pc, !.ast = NoAst]
    <2>2. g.pc \notin Left
        BY <1>0, <2>1, <1>l DEF Handler, ReloadIfProject
    <2>3. Continue(s, g, FALSE)
        BY <1>13, <1>h, <2>1 DEF did_open_cache
    <2> HIDE DEF g
    <2>4. QED
        BY <1>1, <2>2, <2>3
<1>14. CASE did_change(s) \/ did_save(s)
    <2>1. ASSUME NEW pc \in {"done", "reload"}, NEW b \in BOOLEAN, Continue(s, [h EXCEPT !.pc = pc], b)
          PROVE  Ends
        <3> DEFINE g == [h EXCEPT !.pc = pc]
        <3>1. g.pc = pc /\ Continue(s, g, b)
            BY <1>0, <2>1 DEF Handler
        <3> HIDE DEF g
        <3>2. QED
            BY <1>1, <3>1, <1>l, <1>a
    <2>2. \E pc \in {"done", "reload"} : \E b \in BOOLEAN : Continue(s, [h EXCEPT !.pc = pc], b)
        BY <1>14, <1>h DEF did_change, did_save, ComputeAndPublish, Goto, ReloadIfProject
    <2>3. QED
        BY <2>1, <2>2
<1>15. CASE did_change_watched_files(s)
    <2> DEFINE g == [h EXCEPT !.pc = "watched_file", !.left = h.msg.changes]
    <2>1. g.pc = "watched_file"
        BY <1>0 DEF Handler
    <2>2. Continue(s, g, FALSE)
        BY <1>15, <1>h DEF did_change_watched_files
    <2> HIDE DEF g
    <2>3. QED
        BY <1>1, <1>15, <2>1, <2>2, <1>l
<1>16. CASE WatchedFile(s)
    <2> DEFINE g == [h EXCEPT !.left = Tail(@)]
    <2>1. g.pc = "watched_file"
        BY <1>0, <1>16, <1>h DEF Handler, WatchedFile, At
    <2>2. Goto(s, "reload") \/ Goto(s, "done") \/ Continue(s, g, FALSE)
        BY <1>16, <1>h DEF WatchedFile
    <2> HIDE DEF g
    <2>3. QED
        BY <1>1, <1>2, <1>16, <2>1, <2>2, <1>l
<1>17. QED
    BY <1>6, <1>7, <1>8, <1>9, <1>10, <1>11, <1>12, <1>13, <1>14, <1>15, <1>16 DEF HandlerStep
-----------------------------------------------------------------------------
(* Who has the task, and which notification about a document has begun *)

\* A handler at such a point has the task.
AtOnceInv == \A s \in Slot : handlers[s].pc \in AtOnce => current = s

\* The points at which a handler has begun a notification about a document, or
\* has still to cache the Ast of the one it opened.
Begun == DocumentOps \cup {"did_open_cache"}

\* At most one such handler is about u.
OneAtATime(u) == \A r, s \in Slot : Handles(r, u, Begun) /\ Handles(s, u, Begun) => r = s

TurnsInv == AtOnceInv /\ \A u \in File \ overtaken : OneAtATime(u)

\* A handler starts on the message at the head of the inbox, and keeps the task
\* unless it logs first.
LEMMA StartsOn ==
    ASSUME ServerType, NEW s \in Slot, Start(s)
    PROVE  /\ Head(inbox) \in Message /\ inbox # <<>> /\ inbox' = Tail(inbox)
           /\ handlers[s] = Idle /\ current = NoSlot
           /\ handlers'[s] = [Idle EXCEPT !.msg = Head(inbox), !.pc = Head(inbox).op]
           /\ handlers'[s].msg = Head(inbox) /\ handlers'[s].pc = Head(inbox).op
           /\ handlers'[s].todo = {} /\ handlers'[s].ret = "done"
           /\ handlers'[s].pc \in Entry
           /\ handlers'[s].pc \in AtOnce => current' = s
           /\ current' \in {s, NoSlot}
<1> DEFINE m == Head(inbox)
           h == [Idle EXCEPT !.msg = m, !.pc = m.op]
           b == m.op \in {"initialized", "did_open"}
<1>1. m \in Message /\ m.op \in Entry /\ inbox # <<>>
    BY MessageFields DEF Start, ServerType, MailType
<1>2. h.msg = m /\ h.pc = m.op /\ h.todo = {} /\ h.ret = "done"
    BY DEF Idle
<1>3. Continue(s, h, b) /\ b \in BOOLEAN /\ current = NoSlot /\ handlers[s] = Idle /\ inbox' = Tail(inbox)
    BY DEF Start
<1>4. m.op # "done" /\ (m.op \in AtOnce => ~b)
    BY <1>1 DEF Entry, AtOnce
<1>5. handlers'[s] = h /\ (~b => current' = s) /\ current' \in {s, NoSlot}
    <2> HIDE DEF h, b, m
    <2> QED BY <1>2, <1>3, <1>4, GoesOn DEF ServerType
<1>6. QED
    <2>1. handlers'[s] = h => handlers'[s] = [Idle EXCEPT !.msg = Head(inbox), !.pc = Head(inbox).op]
        OBVIOUS
    <2> HIDE DEF h, b
    <2> QED BY <1>1, <1>2, <1>3, <1>4, <1>5, <2>1

\* A handler that takes a step has the task, or nobody has.
LEMMA HasTask ==
    ASSUME ServerType, NEW s \in Slot, HandlerStep(s)
    PROVE  current \in {s, NoSlot}
BY DEF HandlerStep, Start, Resume, register_file_watchers, Registered, initialized_index,
       pull_configuration, apply_pulled_configuration, refresh_ast_globals_and_diagnostics, PublishEach,
       reload_flsproject, ReloadPublish, did_open, did_open_cache, did_change, did_save, did_close,
       did_change_watched_files, WatchedFile, did_change_workspace_folders, did_change_configuration,
       add_global, lookup, At

\* The message that a handler has is the one it started with.
LEMMA OpeningKeepsMessage ==
    ASSUME ServerType, NEW s \in Slot, did_open(s)
    PROVE  /\ handlers'[s].pc = "did_open_cache" /\ handlers'[s].msg = handlers[s].msg
           /\ handlers'[s].ast = parse_shared(handlers[s].msg.text, globals_cache)
           /\ handlers'[s].todo = handlers[s].todo /\ handlers'[s].ret = handlers[s].ret
           /\ handlers[s].pc = "did_open" /\ current = s /\ current' \in {s, NoSlot}
           /\ handlers[s].msg \in Message /\ handlers[s].msg.op = "did_open"
           /\ handlers[s].msg.uri \in File /\ handlers[s].msg.text \in Text
<1> DEFINE h == handlers[s]
           ast == parse_shared(h.msg.text, globals_cache)
           g == [h EXCEPT !.pc = "did_open_cache", !.ast = ast]
<1>1. HandlersInv
    BY DEF ServerType
<1>2. HandlerInv(h) /\ h \in Handler
    BY <1>1, AtType
<1>3. Continue(s, g, TRUE) /\ At(s, "did_open")
    BY DEF did_open, ComputeAndPublish
<1>4. g.pc = "did_open_cache" /\ g.msg = h.msg /\ g.ast = ast /\ g.todo = h.todo /\ g.ret = h.ret
    BY <1>2 DEF Handler
<1>5. handlers'[s] = g /\ current' \in {s, NoSlot}
    <2> HIDE DEF g
    <2> QED BY <1>1, <1>3, <1>4, GoesOn
<1>6. h.msg \in Message /\ h.msg.op = "did_open"
    <2> HIDE DEF h
    <2> QED BY <1>2, <1>3 DEF HandlerInv, At, Entry, h
<1>7. h.msg.uri \in File /\ h.msg.text \in Text
    <2> HIDE DEF h
    <2> QED BY <1>6, MessageFields
<1>8. QED
    <2>1. handlers'[s] = g => /\ handlers'[s].pc = g.pc /\ handlers'[s].msg = g.msg
                              /\ handlers'[s].ast = g.ast /\ handlers'[s].todo = g.todo /\ handlers'[s].ret = g.ret
        OBVIOUS
    <2> HIDE DEF g
    <2> QED BY <1>3, <1>4, <1>5, <1>6, <1>7, <2>1 DEF At

\* The invariant holds throughout.
LEMMA TurnsInvInductive == Spec => []TurnsInv
<1>1. Init => TurnsInv
    BY DEF Init, TurnsInv, AtOnceInv, OneAtATime, Handles, Begun, DocumentOps, AtOnce, Idle
<1>2. TypeInv /\ TurnsInv /\ [Next]_vars => TurnsInv'
    <2> SUFFICES ASSUME TypeInv, TurnsInv, [Next]_vars PROVE TurnsInv'
        OBVIOUS
    <2>1. ASSUME NEW s \in Slot, ServerStep(s) PROVE TurnsInv'
        <3>0. ServerType /\ HandlersInv /\ HandlerStep(s)
            BY <2>1 DEF TypeInv, ServerType, ServerStep
        <3>1. \A r \in Slot \ {s} : handlers'[r] = handlers[r]
            BY <3>0, OthersStay
        <3>2. current \in {s, NoSlot}
            BY <3>0, HasTask
        <3>3. \A r \in Slot \ {s} : handlers[r].pc \notin AtOnce
            BY <3>2, LanguageServerAssumption DEF TurnsInv, AtOnceInv
        <3>4. handlers'[s].pc \in AtOnce => current' = s
            <4>1. CASE Start(s)
                BY <3>0, <4>1, StartsOn
            <4>2. CASE Resume(s)
                BY <4>2 DEF Resume
            <4>3. CASE ~Start(s) /\ ~Resume(s)
                BY <3>0, <4>3, MovesOn
            <4>4. QED
                BY <4>1, <4>2, <4>3
        <3>5. AtOnceInv'
            BY <3>1, <3>3, <3>4 DEF AtOnceInv
        <3>6. ASSUME NEW u \in File, u \notin overtaken'
              PROVE  OneAtATime(u)'
            <4>1. u \notin overtaken /\ ~Overtakes(s, u) /\ OneAtATime(u)
                BY <2>1, <3>6 DEF ServerStep, TurnsInv
            <4>2. \A r \in Slot : handlers'[r] = handlers[r] => (Handles(r, u, Begun)' <=> Handles(r, u, Begun))
                BY DEF Handles
            <4>3. CASE Handles(s, u, Begun)' => Handles(s, u, Begun)
                BY <3>1, <4>1, <4>2, <4>3 DEF OneAtATime
            <4>4. CASE Handles(s, u, Begun)' /\ ~Handles(s, u, Begun)
                <5>1. Start(s)
                    <6>1. CASE Resume(s)
                        BY <4>4, <6>1 DEF Resume, Handles
                    <6>2. CASE ~Start(s) /\ ~Resume(s)
                        <7>1. did_open(s)
                            BY <3>0, <4>4, <6>2, MovesOn DEF Handles, Begun, DocumentOps, Entry
                        <7>2. QED
                            BY <3>0, <4>4, <7>1, OpeningKeepsMessage DEF Handles, Begun, DocumentOps
                    <6>3. QED
                        BY <6>1, <6>2
                <5>2. handlers'[s].pc \in DocumentOps /\ handlers'[s].msg.uri = u /\ handlers[s].pc = "done"
                    BY <3>0, <4>4, <5>1, StartsOn DEF Handles, Begun, DocumentOps, Entry, Idle
                <5>3. \A r \in Slot \ {s} : ~Handles(r, u, Begun)
                    <6>1. SUFFICES ASSUME NEW r \in Slot \ {s}, Handles(r, u, Begun) PROVE FALSE
                        OBVIOUS
                    <6>2. Handles(r, u, {"did_open", "did_open_cache"})
                        BY <3>3, <6>1 DEF Handles, Begun, DocumentOps, AtOnce
                    <6>3. QED
                        BY <4>1, <5>2, <6>1, <6>2 DEF Overtakes
                <5>4. QED
                    BY <3>1, <4>2, <5>3 DEF OneAtATime
            <4>5. QED
                BY <4>3, <4>4
        <3>7. QED
            BY <3>5, <3>6 DEF TurnsInv
    <2>2. ASSUME UNCHANGED <<handlers, current, overtaken>> PROVE TurnsInv'
        BY <2>2 DEF TurnsInv, AtOnceInv, OneAtATime, Handles
    <2>3. QED
        BY <2>1, <2>2, ClientLeavesServer DEF Next
<1>3. QED
    BY <1>1, <1>2, TypeInvInductive, PTL DEF Spec
-----------------------------------------------------------------------------
(* What a step of a handler does to one document *)

Kept(u) == doc_map'[u] = doc_map[u] /\ ast_map'[u] = ast_map[u] /\ globals_cache' = globals_cache

ReadAs(u, t) == doc_map'[u] = t /\ ast_map'[u] = parse_shared(t, globals_cache) /\ globals_cache' = globals_cache

Gone(u) == doc_map'[u] = None /\ ast_map'[u] = NoAst /\ globals_cache' = globals_cache

\* Reading files from disk keeps a document or reads one that has no Ast.
LEMMA IndexEffect ==
    ASSUME ServerType, NEW folders \in SUBSET Folder, IndexFolders(folders), UNCHANGED globals_cache,
           NEW u \in File
    PROVE  Kept(u) \/ \E t \in Text : ReadAs(u, t) /\ ast_map[u] = NoAst /\ t = disk[u]
<1> DEFINE found == {v \in UNION {FilesIn[f] : f \in folders} : ast_map[v] = NoAst /\ disk[v] # None}
<1>1. /\ doc_map'[u] = (IF u \in found THEN disk[u] ELSE doc_map[u])
      /\ ast_map'[u] = (IF u \in found THEN parse_shared(disk[u], globals_cache) ELSE ast_map[u])
      /\ u \in found => disk[u] # None /\ ast_map[u] = NoAst
    BY DEF IndexFolders
<1>2. disk[u] # None => disk[u] \in Text
    BY DEF ServerType, ClientType
<1> HIDE DEF found
<1>3. QED
    BY <1>1, <1>2 DEF Kept, ReadAs

\* A step keeps a document, reads or forgets it, or has it opened; or it computes
\* the globals anew, or parses a project file that lacks its Ast.
LEMMA FileEffect ==
    ASSUME ServerType, NEW s \in Slot, HandlerStep(s), NEW u \in File
    PROVE  \/ Kept(u)
           \/ /\ \E t \in Text : ReadAs(u, t)
              /\ \/ ast_map[u] = NoAst
                 \/ u \notin open_docs
                 \/ did_change(s) /\ handlers[s].msg.uri = u
           \/ Gone(u) /\ (u \notin open_docs \/ (did_close(s) /\ handlers[s].msg.uri = u))
           \/ did_open(s) /\ handlers[s].msg.uri = u
           \/ did_open_cache(s) /\ handlers[s].msg.uri = u
           \/ refresh_ast_globals_and_diagnostics(s)
           \/ ReloadPublish(s) /\ doc_map[u] # None /\ ast_map[u] = NoAst
<1> USE DEF ServerType
<1>h. PICK h : h = handlers[s]
    OBVIOUS
<1>0. HandlerInv(h) /\ h \in Handler
    BY <1>h, AtType
<1>d. doc_map \in [File -> Text \cup {None}] /\ ast_map \in [File -> Ast \cup {NoAst}]
    BY DEF DocType
<1>k. DocType /\ (UNCHANGED <<doc_map, ast_map, globals_cache>> => Kept(u))
    BY DEF Kept
<1>1. CASE Start(s) \/ Resume(s) \/ register_file_watchers(s) \/ Registered(s) \/ pull_configuration(s)
           \/ did_change_watched_files(s) \/ did_save(s) \/ reload_flsproject(s) \/ add_global(s)
           \/ PublishEach(s)
    BY <1>1, <1>k DEF Start, Resume, register_file_watchers, Registered, pull_configuration,
       did_change_watched_files, did_save, reload_flsproject, add_global, PublishEach, docVars, configVars
<1>2. CASE refresh_ast_globals_and_diagnostics(s)
    BY <1>2
<1>3. CASE did_open(s)
    <2>1. /\ doc_map' = [doc_map EXCEPT ![h.msg.uri] = h.msg.text]
          /\ UNCHANGED <<ast_map, globals_cache>>
        BY <1>3, <1>h DEF did_open, configVars
    <2>2. h.msg.uri # u => Kept(u)
        BY <2>1, <1>d DEF Kept
    <2>3. QED
        BY <1>3, <1>h, <2>2
<1>4. CASE did_open_cache(s)
    <2>1. /\ ast_map' = [ast_map EXCEPT ![h.msg.uri] = h.ast]
          /\ UNCHANGED <<doc_map, globals_cache>>
        BY <1>4, <1>h DEF did_open_cache, configVars
    <2>2. h.msg.uri # u => Kept(u)
        BY <2>1, <1>d DEF Kept
    <2>3. QED
        BY <1>4, <1>h, <2>2
<1>5. CASE did_change(s)
    <2>1. h.msg \in Message /\ h.msg.op = "did_change"
        BY <1>0, <1>5, <1>h DEF did_change, At, HandlerInv, Entry
    <2>2. h.msg.uri \in File /\ h.msg.text \in Text
        BY <2>1, MessageFields
    <2>3. UNCHANGED globals_cache
        BY <1>5 DEF did_change, configVars
    <2>4. CASE UNCHANGED docVars
        BY <2>3, <2>4, <1>k DEF docVars
    <2>5. CASE \E t \in Edited(doc_map[h.msg.uri], h.msg.base, h.msg.text) :
                  /\ doc_map' = [doc_map EXCEPT ![h.msg.uri] = t]
                  /\ ast_map' = [ast_map EXCEPT ![h.msg.uri] = parse_shared(t, globals_cache)]
        <3>1. PICK t \in Text : /\ doc_map' = [doc_map EXCEPT ![h.msg.uri] = t]
                                /\ ast_map' = [ast_map EXCEPT ![h.msg.uri] = parse_shared(t, globals_cache)]
            BY <2>2, <2>5 DEF Edited
        <3>2. h.msg.uri # u => Kept(u)
            BY <3>1, <1>d, <2>3 DEF Kept
        <3>3. h.msg.uri = u => ReadAs(u, t)
            BY <3>1, <1>d, <2>3 DEF ReadAs
        <3>4. QED
            BY <1>5, <1>h, <3>2, <3>3
    <2>6. QED
        BY <1>5, <1>h, <2>4, <2>5 DEF did_change, docVars
<1>6. CASE did_close(s)
    <2>1. Forget(h.msg.uri) /\ UNCHANGED globals_cache
        BY <1>6, <1>h DEF did_close, configVars
    <2>2. h.msg.uri # u => Kept(u)
        BY <2>1, <1>d DEF Kept, Forget
    <2>3. h.msg.uri = u => Gone(u)
        BY <2>1, <1>d DEF Gone, Forget
    <2>4. QED
        BY <1>6, <1>h, <2>2, <2>3
<1>7. CASE lookup(s)
    <2> DEFINE v == h.msg.uri
               reads == ast_map[v] = NoAst /\ disk[v] # None
    <2>1. /\ doc_map' = [doc_map EXCEPT ![v] = IF reads THEN disk[v] ELSE @]
          /\ ast_map' = [ast_map EXCEPT ![v] = IF reads THEN parse_shared(disk[v], globals_cache) ELSE @]
          /\ UNCHANGED globals_cache
        BY <1>7, <1>h DEF lookup, configVars
    <2>2. v # u \/ ~reads => Kept(u)
        BY <2>1, <1>d DEF Kept
    <2>3. v = u /\ reads => ReadAs(u, disk[u]) /\ disk[u] \in Text /\ ast_map[u] = NoAst
        BY <2>1, <1>d DEF ReadAs, ClientType
    <2>4. QED
        BY <2>2, <2>3
<1>8. CASE WatchedFile(s)
    <2> DEFINE c == Head(h.left)
    <2>1. UNCHANGED globals_cache
        BY <1>8 DEF WatchedFile, configVars
    <2>2. CASE h.left = <<>>
        BY <1>8, <1>h, <1>k, <2>1, <2>2 DEF WatchedFile, docVars
    <2>3. CASE h.left # <<>>
        <3>1. \/ UNCHANGED <<doc_map, ast_map>>
              \/ c.uri \notin open_docs /\ (reindex_from_disk(c.uri) \/ Forget(c.uri))
            BY <1>8, <1>h, <2>3 DEF WatchedFile, IsOpenBuffer
        <3>2. c.uri \in File
            <4>1. h.left \in Seq(FileChange)
                BY <1>0 DEF Handler
            <4>2. c \in FileChange
                BY <2>3, <4>1
            <4>3. QED
                BY <4>2 DEF FileChange
        <3>3. PICK v \in File : v = c.uri
            BY <3>2
        <3> HIDE DEF c
        <3>4. CASE UNCHANGED <<doc_map, ast_map>>
            BY <1>k, <2>1, <3>4
        <3>5. CASE v \notin open_docs /\ Forget(v)
            BY <2>1, <1>d, <3>5 DEF Forget, Kept, Gone
        <3>6. CASE v \notin open_docs /\ reindex_from_disk(v) /\ disk[v] # None
            <4>1. \/ UNCHANGED <<doc_map, ast_map>>
                  \/ /\ ast_map' = [ast_map EXCEPT ![v] = parse_shared(disk[v], globals_cache)]
                     /\ doc_map' = [doc_map EXCEPT ![v] = disk[v]]
                BY <3>6 DEF reindex_from_disk
            <4>2. disk[v] \in Text
                BY <3>6 DEF ClientType
            <4>3. QED
                BY <1>k, <2>1, <1>d, <3>6, <4>1, <4>2 DEF Kept, ReadAs
        <3>7. QED
            BY <3>1, <3>3, <3>4, <3>5, <3>6 DEF reindex_from_disk
    <2>4. QED
        BY <2>2, <2>3
<1>9. CASE ReloadPublish(s)
    <2> DEFINE v == h.uri
               ast == IF ast_map[v] # NoAst THEN ast_map[v] ELSE parse_shared(h.text, globals_cache)
    <2>1. /\ \/ UNCHANGED ast_map
             \/ doc_map[v] # None /\ ast_map' = [ast_map EXCEPT ![v] = ast]
          /\ UNCHANGED <<doc_map, globals_cache>>
        BY <1>9, <1>h DEF ReloadPublish, configVars
    <2>2. Kept(u) \/ (v = u /\ doc_map[u] # None /\ ast_map[u] = NoAst)
        BY <2>1, <1>d DEF Kept
    <2>3. QED
        BY <1>9, <2>2
<1>10. CASE initialized_index(s) \/ did_change_workspace_folders(s) \/ did_change_configuration(s)
            \/ apply_pulled_configuration(s)
    <2>1. ASSUME NEW folders \in SUBSET Folder, IndexFolders(folders), UNCHANGED globals_cache
          PROVE  Kept(u) \/ ((\E t \in Text : ReadAs(u, t)) /\ ast_map[u] = NoAst)
        BY <2>1, IndexEffect
    <2>2. CASE initialized_index(s)
        <3>1. workspace_map \cup config.fennel.library \in SUBSET Folder
            BY ConfigurationType DEF ConfigType
        <3>2. QED
            BY <2>1, <2>2, <3>1 DEF initialized_index, configVars
    <2>3. CASE did_change_workspace_folders(s)
        <3>1. h.msg \in Message /\ h.msg.op = "did_change_workspace_folders"
            BY <1>0, <2>3, <1>h DEF did_change_workspace_folders, At, HandlerInv, Entry
        <3>2. h.msg.added \in SUBSET Folder
            BY <3>1, MessageFields
        <3>3. QED
            BY <2>1, <2>3, <3>2, <1>h DEF did_change_workspace_folders
    <2>4. CASE did_change_configuration(s)
        <3>1. h.msg \in Message /\ h.msg.op = "did_change_configuration"
            BY <1>0, <2>4, <1>h DEF did_change_configuration, At, HandlerInv, Entry
        <3>2. h.msg.settings \in Settings
            BY <3>1, MessageFields
        <3>3. Deserialized(h.msg.settings).fennel.library \in SUBSET Folder
            BY <3>2, SettingsType, ConfigurationType
        <3>4. UNCHANGED globals_cache /\ (UNCHANGED docVars \/ IndexFolders(Deserialized(h.msg.settings).fennel.library))
            BY <2>4, <1>h DEF did_change_configuration
        <3>5. QED
            BY <2>1, <3>3, <3>4, <1>k DEF docVars
    <2>5. CASE apply_pulled_configuration(s)
        <3> DEFINE st == Head(replies).settings
                   folders == IF st.has_fennel THEN st.fennel.library ELSE {}
        <3>1. replies \in Seq(Reply) /\ replies # <<>>
            BY <2>5 DEF apply_pulled_configuration, MailType
        <3>2. Head(replies) \in Reply
            BY <3>1
        <3>3. st \in Settings
            BY <3>2 DEF Reply
        <3>4. folders \in SUBSET Folder
            <4> HIDE DEF st
            <4> QED BY <3>3, SettingsType DEF folders
        <3>5. UNCHANGED globals_cache /\ (UNCHANGED docVars \/ IndexFolders(folders))
            BY <2>5 DEF apply_pulled_configuration
        <3> HIDE DEF folders, st
        <3>6. QED
            BY <2>1, <3>4, <3>5, <1>k DEF docVars
    <2>6. QED
        BY <1>10, <2>2, <2>3, <2>4, <2>5
<1>11. QED
    BY <1>1, <1>2, <1>3, <1>4, <1>5, <1>6, <1>7, <1>8, <1>9, <1>10 DEF HandlerStep

\* Which documents are open changes at did_open and did_close alone.
LEMMA OpenEffect ==
    ASSUME ServerType, NEW s \in Slot, HandlerStep(s)
    PROVE  \/ UNCHANGED open_docs
           \/ did_open(s) /\ open_docs' = open_docs \cup {handlers[s].msg.uri}
           \/ did_close(s) /\ open_docs' = open_docs \ {handlers[s].msg.uri}
BY DEF HandlerStep, Start, Resume, register_file_watchers, Registered, initialized_index,
       pull_configuration, apply_pulled_configuration, refresh_ast_globals_and_diagnostics, PublishEach,
       reload_flsproject, ReloadPublish, did_open, did_open_cache, did_change, did_save, did_close,
       did_change_watched_files, WatchedFile, did_change_workspace_folders, did_change_configuration,
       add_global, lookup, IndexFolders, docVars

-----------------------------------------------------------------------------
(* A document and its Ast agree, unless the document is being opened: then   *)
(* its handler holds the Ast, and nobody else touches the document before it *)
(* is cached, or the did_open is overtaken.                                  *)

Agree(u) ==
    \/ doc_map[u] = None /\ ast_map[u] = NoAst
    \/ doc_map[u] # None /\ ast_map[u] = parse_shared(doc_map[u], globals_cache)

Opens(s, u) == Handles(s, u, {"did_open_cache"})

HoldsAst(s, u) ==
    /\ Opens(s, u)
    /\ u \in open_docs /\ doc_map[u] # None
    /\ handlers[s].ast = parse_shared(doc_map[u], globals_cache)

CachesOf(u) ==
    \/ Agree(u) /\ \A s \in Slot : ~Opens(s, u)
    \/ \E s \in Slot : HoldsAst(s, u)

CachesInv == \A u \in File \ overtaken : CachesOf(u)

\* While u is being opened no other handler disturbs it, unless it overtakes.
LEMMA OthersSpareOpening ==
    ASSUME ServerType, TurnsInv, NEW r \in Slot, NEW s \in Slot \ {r}, ServerStep(s), NEW u \in File,
           u \notin overtaken', HoldsAst(r, u)
    PROVE  /\ Kept(u) /\ u \in open_docs' /\ handlers'[r] = handlers[r]
           /\ ~Handles(s, u, Begun)
           /\ ~refresh_ast_globals_and_diagnostics(s)
           /\ PublishEach(s) => u \notin handlers[s].todo \ handlers'[s].todo
<1>1. HandlerStep(s) /\ u \notin overtaken /\ ~Overtakes(s, u) /\ OneAtATime(u)
    BY DEF ServerStep, TurnsInv
<1>2. handlers'[r] = handlers[r]
    BY <1>1, OthersStay DEF ServerType
<1>3. ~Handles(s, u, Begun)
    BY <1>1 DEF OneAtATime, HoldsAst, Opens, Handles, Begun
<1>4. /\ PublishEach(s) => u \notin handlers[s].todo \ handlers'[s].todo
      /\ ast_map'[u] = ast_map[u]
    BY <1>1 DEF Overtakes, HoldsAst, Opens
<1>5. ~refresh_ast_globals_and_diagnostics(s)
    BY <1>1 DEF Overtakes, HoldsAst, Opens
<1>6. ~((did_open(s) \/ did_open_cache(s) \/ did_change(s) \/ did_close(s)) /\ handlers[s].msg.uri = u)
    BY <1>3 DEF did_open, did_open_cache, did_change, did_close, At, Handles, Begun, DocumentOps
<1>7. Kept(u)
    <2>1. u \in open_docs /\ doc_map[u] # None
        BY DEF HoldsAst
    <2>2. ASSUME ast_map[u] = NoAst, NEW t \in Text, ReadAs(u, t)
          PROVE  FALSE
        <3>1. parse_shared(t, globals_cache) = NoAst
            BY <1>4, <2>2 DEF ReadAs
        <3>2. t = None
            BY <3>1 DEF parse_shared, NoAst
        <3>3. QED
            BY <3>2
    <2>3. ~(ReloadPublish(s) /\ doc_map[u] # None /\ ast_map[u] = NoAst) \/ Kept(u)
        BY <1>4 DEF ReloadPublish, Kept, configVars
    <2>4. QED
        BY <1>1, <1>5, <1>6, <2>1, <2>2, <2>3, FileEffect
<1>8. u \in open_docs'
    BY <1>1, <1>6, OpenEffect DEF HoldsAst
<1>9. QED
    BY <1>2, <1>3, <1>4, <1>5, <1>7, <1>8

\* The handler that opens u caches the Ast of its text.
LEMMA CachesItsAst ==
    ASSUME ServerType, TurnsInv, NEW s \in Slot, did_open_cache(s), NEW u \in File, u \notin overtaken,
           HoldsAst(s, u), \A r \in Slot \ {s} : handlers'[r] = handlers[r]
    PROVE  /\ Agree(u)' /\ doc_map'[u] = doc_map[u] /\ doc_map[u] # None
           /\ \A r \in Slot : ~Opens(r, u)'
<1>1. /\ ast_map' = [ast_map EXCEPT ![u] = handlers[s].ast]
      /\ UNCHANGED <<doc_map, globals_cache>>
    BY DEF did_open_cache, HoldsAst, Opens, Handles, configVars
<1>2. Agree(u)' /\ doc_map'[u] = doc_map[u] /\ doc_map[u] # None
    BY <1>1 DEF HoldsAst, Agree, ServerType, DocType
<1>3. handlers'[s].pc # "did_open_cache"
    <2>1. HandlerStep(s) /\ ~Start(s) /\ ~did_open(s)
        BY DEF HandlerStep, did_open_cache, At, Start, did_open, Idle
    <2>2. ~Resume(s)
        <3>1. current = s
            BY DEF did_open_cache, At
        <3>2. QED
            BY <3>1 DEF Resume
    <2>3. QED
        BY <2>1, <2>2, MovesOn
<1>4. \A r \in Slot \ {s} : ~Opens(r, u)
    BY DEF TurnsInv, OneAtATime, HoldsAst, Opens, Handles, Begun
<1>5. QED
    BY <1>2, <1>3, <1>4 DEF Opens, Handles

\* The handler of a did_open that has still to cache its Ast does nothing else.
LEMMA OpeningGoesOn ==
    ASSUME NEW s \in Slot, handlers[s].pc = "did_open_cache", HandlerStep(s)
    PROVE  did_open_cache(s) \/ Resume(s)
<1>1. handlers[s].pc # "done" /\ handlers[s].pc # "await_register" /\ handlers[s].pc # "await_pull"
    OBVIOUS
<1>2. ~Start(s)
    BY <1>1 DEF Start, Idle
<1>3. QED
    BY <1>1, <1>2 DEF HandlerStep, register_file_watchers, Registered, initialized_index,
       pull_configuration, apply_pulled_configuration, refresh_ast_globals_and_diagnostics, PublishEach,
       reload_flsproject, ReloadPublish, did_open, did_change, did_save, did_close,
       did_change_watched_files, WatchedFile, did_change_workspace_folders, did_change_configuration,
       add_global, lookup, At

\* A step of the server preserves the agreement of what it does not overtake.
LEMMA ServerStepKeepsCaches ==
    ASSUME ServerType, TurnsInv, CachesInv, NEW s \in Slot, ServerStep(s)
    PROVE  CachesInv'
<1> SUFFICES ASSUME NEW u \in File, u \notin overtaken'
             PROVE  CachesOf(u)'
    BY DEF CachesInv
<1>1. HandlerStep(s) /\ u \notin overtaken /\ CachesOf(u)
    BY DEF ServerStep, CachesInv
<1>2. \A r \in Slot \ {s} : handlers'[r] = handlers[r]
    BY <1>1, OthersStay DEF ServerType
<1>3. CASE did_open(s) /\ handlers[s].msg.uri = u
    <2>1. /\ doc_map'[u] = handlers[s].msg.text /\ u \in open_docs' /\ UNCHANGED globals_cache
          /\ handlers'[s].pc = "did_open_cache" /\ handlers'[s].msg = handlers[s].msg
          /\ handlers'[s].ast = parse_shared(handlers[s].msg.text, globals_cache)
          /\ handlers[s].msg.text # None
        BY <1>3, OpeningKeepsMessage DEF did_open, configVars, ServerType, DocType
    <2>2. HoldsAst(s, u)'
        BY <1>3, <2>1 DEF HoldsAst, Opens, Handles
    <2>3. QED
        BY <2>2 DEF CachesOf
<1>4. CASE ~(did_open(s) /\ handlers[s].msg.uri = u)
    <2>1. Opens(s, u)' => Opens(s, u)
        <3>1. CASE Start(s)
            BY <3>1, StartsOn DEF Opens, Handles, Entry
        <3>2. CASE Resume(s)
            BY <3>2 DEF Resume, Opens, Handles
        <3>3. CASE ~Start(s) /\ ~Resume(s)
            BY <1>1, <1>4, <3>3, MovesOn, OpeningKeepsMessage DEF Opens, Handles
        <3>4. QED
            BY <3>1, <3>2, <3>3
    <2>2. CASE Agree(u) /\ \A r \in Slot : ~Opens(r, u)
        <3>1. \A r \in Slot : ~Opens(r, u)'
            BY <1>2, <2>1, <2>2 DEF Opens, Handles
        <3>2. Agree(u)'
            <4>1. CASE Kept(u)
                BY <2>2, <4>1 DEF Kept, Agree
            <4>2. CASE \E t \in Text : ReadAs(u, t)
                BY <4>2 DEF ReadAs, Agree
            <4>3. CASE Gone(u)
                BY <4>3 DEF Gone, Agree
            <4>4. CASE did_open_cache(s) /\ handlers[s].msg.uri = u
                BY <2>2, <4>4 DEF did_open_cache, At, Opens, Handles
            <4>5. CASE refresh_ast_globals_and_diagnostics(s)
                <5>1. PICK gs : gs = GlobalsOf(config)
                    OBVIOUS
                <5>2. globals_cache' = gs /\ ast_map' = AstsWith(gs) /\ UNCHANGED doc_map
                    BY <4>5, <5>1 DEF refresh_ast_globals_and_diagnostics
                <5>3. ast_map'[u] = IF ast_map[u] = NoAst THEN NoAst ELSE [ast_map[u] EXCEPT !.globals = gs]
                    BY <5>2 DEF AstsWith
                <5>4. QED
                    BY <2>2, <5>2, <5>3 DEF Agree, parse_shared, NoAst
            <4>6. CASE doc_map[u] # None /\ ast_map[u] = NoAst
                BY <2>2, <4>6 DEF Agree, parse_shared, NoAst
            <4>7. QED
                BY <1>1, <1>4, <4>1, <4>2, <4>3, <4>4, <4>5, <4>6, FileEffect
        <3>3. QED
            BY <3>1, <3>2 DEF CachesOf
    <2>3. CASE \E r \in Slot : HoldsAst(r, u)
        <3>1. PICK r \in Slot : HoldsAst(r, u)
            BY <2>3
        <3>2. CASE r # s
            <4>1. Kept(u) /\ u \in open_docs' /\ handlers'[r] = handlers[r]
                BY <3>1, <3>2, OthersSpareOpening
            <4>2. HoldsAst(r, u)'
                BY <3>1, <4>1 DEF HoldsAst, Opens, Handles, Kept
            <4>3. QED
                BY <4>2 DEF CachesOf
        <3>3. CASE r = s
            <4>1. did_open_cache(s) \/ Resume(s)
                BY <1>1, <3>1, <3>3, OpeningGoesOn DEF HoldsAst, Opens, Handles
            <4>2. CASE did_open_cache(s)
                BY <1>1, <1>2, <3>1, <3>3, <4>2, CachesItsAst DEF CachesOf
            <4>3. CASE Resume(s)
                BY <3>1, <3>3, <4>3 DEF Resume, HoldsAst, Opens, Handles, CachesOf, docVars, configVars
            <4>4. QED
                BY <4>1, <4>2, <4>3
        <3>4. QED
            BY <3>2, <3>3
    <2>4. QED
        BY <1>1, <2>2, <2>3 DEF CachesOf
<1>5. QED
    BY <1>3, <1>4

\* The whole invariant holds: no step but the server's touches the caches.
LEMMA CachesInvInductive == Spec => []CachesInv
<1>1. Init => CachesInv
    BY DEF Init, CachesInv, CachesOf, Agree, Opens, Handles, Idle
<1>2. TypeInv /\ TurnsInv /\ CachesInv /\ [Next]_vars => CachesInv'
    <2> SUFFICES ASSUME TypeInv, TurnsInv, CachesInv, [Next]_vars PROVE CachesInv'
        OBVIOUS
    <2>1. ASSUME NEW s \in Slot, ServerStep(s) PROVE CachesInv'
        BY <2>1, ServerStepKeepsCaches DEF TypeInv
    <2>2. ASSUME UNCHANGED <<doc_map, ast_map, globals_cache, open_docs, handlers, overtaken>> PROVE CachesInv'
        BY <2>2 DEF CachesInv, CachesOf, Agree, HoldsAst, Opens, Handles
    <2>3. QED
        BY <2>1, <2>2, ClientLeavesServer DEF Next
<1>3. QED
    BY <1>1, <1>2, TypeInvInductive, TurnsInvInductive, PTL DEF Spec

\* CachesAgree: the document and Ast caches hold the same files and every Ast is
\* the parse of the cached text under the globals in force, at every step: whatever
\* files, texts, folders, settings and messages there are, and however handlers
\* interleave where they wait for the client's answers or for their own messages
\* to be sent. Excepted are a document whose did_open has still to cache its Ast,
\* and one whose did_open has been overtaken there.
THEOREM CachesStayInAgreement == Spec => []CachesAgree
<1>1. CachesInv => CachesAgree
    BY DEF CachesInv, CachesAgree, CachesOf, BeingOpened, HoldsAst, Opens, Agree
<1>2. QED
    BY <1>1, CachesInvInductive, PTL
=============================================================================
