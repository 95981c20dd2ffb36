--------------------- MODULE LanguageServer_sync_proofs ---------------------
(***************************************************************************)
(* LanguageServer implements DocumentSync, for every set of files, texts   *)
(* and folders and any number of handlers and operations.                  *)
(***************************************************************************)
EXTENDS LanguageServer_proofs, DataFacts

USE BackendAssumption, LanguageServerAssumption

-----------------------------------------------------------------------------
(* What the notifications about a document make of it *)

About(m, u) == m.op \in DocumentOps /\ m.uri = u

\* The text t of u after m, and what the sender of m took for granted of it.
Becomes(t, m, u) ==
    IF About(m, u) /\ m.op # "did_save" THEN IF m.op = "did_close" THEN None ELSE m.text ELSE t

Meets(t, m, u) ==
    About(m, u) => /\ m.op = "did_change" => t = m.base
                   /\ m.op = "did_save" => t # None

Served(u) == IF u \in open_docs THEN doc_map[u] ELSE None

\* The server holds a text for what it takes for open.
Held(u) == u \in open_docs => doc_map[u] # None

\* view[i]: the text of u after i of the messages that wait. They lead to what
\* the editor has; each edit was made to the text it will meet, and what is saved
\* is open.
Chain(view, u) ==
    /\ view \in [0..Len(inbox) -> Text \cup {None}]
    /\ view[Len(inbox)] = editor[u]
    /\ \A i \in 1..Len(inbox) : view[i] = Becomes(view[i - 1], inbox[i], u) /\ Meets(view[i - 1], inbox[i], u)

\* They start from what the server has, once the notification that a handler has
\* begun and not got to is applied.
StartsAt(t, u) ==
    \/ t = Served(u) /\ \A s \in Slot : ~Handles(s, u, DocumentOps)
    \/ \E s \in Slot : /\ Handles(s, u, DocumentOps)
                       /\ Meets(Served(u), handlers[s].msg, u)
                       /\ t = Becomes(Served(u), handlers[s].msg, u)

SyncOf(u) == Held(u) /\ \E view : Chain(view, u) /\ StartsAt(view[0], u)

SyncInv == \A u \in File \ overtaken : SyncOf(u)

\* The message of a handler that has begun a notification.
LEMMA BegunMessage ==
    ASSUME ServerType, NEW s \in Slot, NEW u, Handles(s, u, DocumentOps)
    PROVE  /\ handlers[s].msg \in Message /\ handlers[s].msg.op = handlers[s].pc
           /\ About(handlers[s].msg, u)
<1>1. HandlerInv(handlers[s])
    BY AtType DEF ServerType
<1>2. QED
    BY <1>1 DEF HandlerInv, Entry, Handles, DocumentOps, About

\* What becomes of a text is a text or None.
LEMMA BecomesType ==
    ASSUME NEW m \in Message, NEW u, NEW t \in Text \cup {None}
    PROVE  Becomes(t, m, u) \in Text \cup {None}
<1>1. m.op \in {"did_open", "did_change"} => m.text \in Text
    BY MessageFields
<1>2. QED
    BY <1>1 DEF Becomes, About, DocumentOps

-----------------------------------------------------------------------------
(* What a step does to what the server has of u *)

\* One that applies no notification about u leaves it.
LEMMA ServedStays ==
    ASSUME ServerType, TurnsInv, CachesInv, NEW s \in Slot, ServerStep(s), NEW u \in File,
           u \notin overtaken', Held(u), ~Handles(s, u, Notices) \/ Resume(s)
    PROVE  Served(u)' = Served(u) /\ Held(u)' /\ (u \in open_docs' <=> u \in open_docs)
<1>1. HandlerStep(s) /\ u \notin overtaken /\ CachesOf(u)
    BY DEF ServerStep, CachesInv
<1>0. CASE Resume(s)
    BY <1>0 DEF Resume, docVars, Served, Held
<1>2. CASE ~Handles(s, u, Notices)
    <2>1. ~((did_open(s) \/ did_change(s) \/ did_close(s)) /\ handlers[s].msg.uri = u)
        BY <1>2 DEF did_open, did_change, did_close, At, Handles, Notices
    <2>2. u \in open_docs' <=> u \in open_docs
        BY <1>1, <2>1, OpenEffect
    <2>3. ASSUME u \in open_docs
          PROVE  doc_map'[u] = doc_map[u]
        <3>1. CASE UNCHANGED doc_map
            BY <3>1
        <3>2. CASE Kept(u)
            BY <3>2 DEF Kept
        <3>3. CASE ast_map[u] = NoAst /\ \E t \in Text : ReadAs(u, t)
            <4>1. doc_map[u] # None
                BY <2>3 DEF Held
            <4>2. ~Agree(u)
                BY <3>3, <4>1 DEF Agree, parse_shared, NoAst
            <4>3. PICK r \in Slot : HoldsAst(r, u)
                BY <1>1, <4>2 DEF CachesOf
            <4>4. CASE r # s
                BY <4>3, <4>4, OthersSpareOpening DEF Kept
            <4>5. CASE r = s
                <5>1. did_open_cache(s) \/ Resume(s)
                    BY <1>1, <4>3, <4>5, OpeningGoesOn DEF HoldsAst, Opens, Handles
                <5>2. QED
                    BY <5>1 DEF did_open_cache, Resume, docVars
            <4>6. QED
                BY <4>4, <4>5
        <3>4. did_open_cache(s) \/ refresh_ast_globals_and_diagnostics(s) \/ ReloadPublish(s) => UNCHANGED doc_map
            BY DEF did_open_cache, refresh_ast_globals_and_diagnostics, ReloadPublish
        <3>5. QED
            BY <1>1, <2>1, <2>3, <3>1, <3>2, <3>3, <3>4, FileEffect
    <2>4. QED
        BY <2>2, <2>3 DEF Served, Held
<1>3. QED
    BY <1>0, <1>2

\* One that applies a notification makes of it what the notification says, if it
\* meets what its sender took for granted.
LEMMA NoticeApplies ==
    ASSUME ServerType, NEW s \in Slot, NEW u \in File, Handles(s, u, Notices),
           did_open(s) \/ did_change(s) \/ did_close(s), Meets(Served(u), handlers[s].msg, u), Held(u)
    PROVE  /\ Served(u)' = Becomes(Served(u), handlers[s].msg, u) /\ Held(u)'
           /\ doc_map'[u] = Becomes(Served(u), handlers[s].msg, u)
           /\ u \in open_docs' <=> Becomes(Served(u), handlers[s].msg, u) # None
           /\ \A v \in File \ {u} : doc_map'[v] = doc_map[v] /\ (v \in open_docs' <=> v \in open_docs)
<1>m. PICK m : m = handlers[s].msg
    OBVIOUS
<1>0. m \in Message /\ m.op = handlers[s].pc /\ About(m, u) /\ m.uri = u
    BY <1>m, BegunMessage DEF Handles, Notices, DocumentOps, About
<1>d. doc_map \in [File -> Text \cup {None}] /\ open_docs \subseteq File
    BY DEF ServerType, DocType
<1>1. CASE did_open(s)
    <2>1. m.op = "did_open" /\ m.text \in Text
        BY <1>0, <1>1, MessageFields DEF did_open, At
    <2>2. doc_map' = [doc_map EXCEPT ![u] = m.text] /\ open_docs' = open_docs \cup {u}
        BY <1>0, <1>1, <1>m DEF did_open
    <2>3. Becomes(Served(u), m, u) = m.text /\ m.text # None
        BY <1>0, <2>1 DEF Becomes
    <2>4. QED
        BY <1>d, <1>m, <2>2, <2>3 DEF Served, Held
<1>2. CASE did_change(s)
    <2>1. m.op = "did_change" /\ m.text \in Text /\ m.base \in Text
        BY <1>0, <1>2, MessageFields DEF did_change, At
    <2>2. Served(u) = m.base
        BY <1>0, <1>m, <2>1 DEF Meets
    <2>3. u \in open_docs /\ doc_map[u] = m.base /\ doc_map[u] # None
        BY <2>1, <2>2 DEF Served
    <2>4. Edited(doc_map[u], m.base, m.text) = {m.text}
        BY <2>3 DEF Edited
    <2>5. doc_map' = [doc_map EXCEPT ![u] = m.text] /\ open_docs' = open_docs
        BY <1>0, <1>2, <1>m, <2>3, <2>4 DEF did_change
    <2>6. Becomes(Served(u), m, u) = m.text /\ m.text # None
        BY <1>0, <2>1 DEF Becomes
    <2>7. QED
        BY <1>d, <1>m, <2>3, <2>5, <2>6 DEF Served, Held
<1>3. CASE did_close(s)
    <2>1. m.op = "did_close"
        BY <1>0, <1>3 DEF did_close, At
    <2>2. doc_map' = [doc_map EXCEPT ![u] = None] /\ open_docs' = open_docs \ {u}
        BY <1>0, <1>3, <1>m DEF did_close, Forget
    <2>3. Becomes(Served(u), m, u) = None
        BY <1>0, <2>1 DEF Becomes
    <2>4. QED
        BY <1>d, <1>m, <2>2, <2>3 DEF Served, Held
<1>4. QED
    BY <1>1, <1>2, <1>3

\* The messages that wait stay while no handler starts.
LEMMA InboxStays ==
    ASSUME NEW s \in Slot, HandlerStep(s)
    PROVE  UNCHANGED editor /\ (~Start(s) => UNCHANGED inbox)
BY DEF HandlerStep, Start, Resume, register_file_watchers, Registered, initialized_index,
       pull_configuration, apply_pulled_configuration, refresh_ast_globals_and_diagnostics, PublishEach,
       reload_flsproject, ReloadPublish, did_open, did_open_cache, did_change, did_save, did_close,
       did_change_watched_files, WatchedFile, did_change_workspace_folders, did_change_configuration,
       add_global, lookup, clientVars

\* A handler that has begun a notification applies it, or goes on waiting.
LEMMA BegunGoesOn ==
    ASSUME NEW s \in Slot, NEW u, Handles(s, u, DocumentOps), HandlerStep(s)
    PROVE  \/ Resume(s)
           \/ did_open(s) /\ handlers[s].pc = "did_open"
           \/ did_change(s) /\ handlers[s].pc = "did_change"
           \/ did_close(s) /\ handlers[s].pc = "did_close"
           \/ did_save(s) /\ handlers[s].pc = "did_save"
<1>1. handlers[s].pc \in DocumentOps
    BY DEF Handles
<1>2. handlers[s].pc # "done" /\ handlers[s].pc # "await_register" /\ handlers[s].pc # "await_pull"
    BY <1>1 DEF DocumentOps
<1>3. ~Start(s)
    BY <1>2 DEF Start, Idle
<1>4. QED
    BY <1>1, <1>2, <1>3 DEF HandlerStep, register_file_watchers, Registered, initialized_index,
       pull_configuration, apply_pulled_configuration, refresh_ast_globals_and_diagnostics, PublishEach,
       reload_flsproject, ReloadPublish, did_open, did_open_cache, did_change, did_save, did_close,
       did_change_watched_files, WatchedFile, did_change_workspace_folders, did_change_configuration,
       add_global, lookup, At, DocumentOps

\* What a handler has begun meets what its sender took for granted.
LEMMA BegunMeets ==
    ASSUME NEW u, OneAtATime(u), NEW s \in Slot, Handles(s, u, DocumentOps), NEW t, StartsAt(t, u)
    PROVE  /\ Meets(Served(u), handlers[s].msg, u) /\ t = Becomes(Served(u), handlers[s].msg, u)
           /\ \A r \in Slot \ {s} : ~Handles(r, u, DocumentOps)
<1>1. \A r \in Slot : Handles(r, u, DocumentOps) => r = s
    BY DEF OneAtATime, Handles, Begun
<1>2. QED
    BY <1>1 DEF StartsAt

\* The messages that wait, seen from one later.
LEMMA ChainShifts ==
    ASSUME ServerType, NEW u \in File, NEW view, Chain(view, u), inbox # <<>>, inbox' = Tail(inbox),
           editor' = editor
    PROVE  \E next : /\ Chain(next, u)'
                     /\ next[0] = Becomes(view[0], Head(inbox), u)
                     /\ Meets(view[0], Head(inbox), u)
<1>1. PICK n \in Nat : n = Len(inbox) - 1 /\ n + 1 = Len(inbox)
    <2>1. Len(inbox) \in Nat /\ Len(inbox) >= 1
        BY DEF ServerType, MailType
    <2>2. Len(inbox) - 1 \in Nat /\ (Len(inbox) - 1) + 1 = Len(inbox)
        BY <2>1
    <2>3. QED
        BY <2>2
<1>2. /\ Len(inbox') = n /\ Head(inbox) = inbox[1]
      /\ \A i \in 1..n : inbox'[i] = inbox[i + 1]
    BY <1>1 DEF ServerType, MailType
<1>3. PICK next : next = [i \in 0..n |-> view[i + 1]]
    OBVIOUS
<1>4. \A i \in 1..(n + 1) : view[i] = Becomes(view[i - 1], inbox[i], u) /\ Meets(view[i - 1], inbox[i], u)
    BY <1>1 DEF Chain
<1>5. next \in [0..n -> Text \cup {None}] /\ next[n] = editor'[u]
    BY <1>1, <1>3 DEF Chain
<1>6. ASSUME NEW i \in 1..n
      PROVE  next[i] = Becomes(next[i - 1], inbox'[i], u) /\ Meets(next[i - 1], inbox'[i], u)
    <2>1. i + 1 \in 1..(n + 1) /\ (i + 1) - 1 = i /\ i - 1 \in 0..n /\ (i - 1) + 1 = i /\ i \in 0..n
        OBVIOUS
    <2>2. next[i] = view[i + 1] /\ next[i - 1] = view[i] /\ inbox'[i] = inbox[i + 1]
        BY <1>2, <1>3, <2>1
    <2>3. view[i + 1] = Becomes(view[(i + 1) - 1], inbox[i + 1], u) /\ Meets(view[(i + 1) - 1], inbox[i + 1], u)
        BY <1>4, <2>1
    <2>4. QED
        BY <2>1, <2>2, <2>3
<1>7. next[0] = Becomes(view[0], Head(inbox), u) /\ Meets(view[0], Head(inbox), u)
    <2>1. 1 \in 1..(n + 1) /\ 1 - 1 = 0 /\ 0 \in 0..n /\ 0 + 1 = 1
        OBVIOUS
    <2>2. next[0] = view[1]
        BY <1>3, <2>1
    <2>3. QED
        BY <1>2, <1>4, <2>1, <2>2
<1>8. Chain(next, u)'
    BY <1>2, <1>5, <1>6 DEF Chain, Becomes, Meets, About
<1>9. QED
    BY <1>7, <1>8

\* A handler that starts on a notification about u begins it, and is the only one.
LEMMA StartSyncs ==
    ASSUME ServerType, TurnsInv, CachesInv, NEW s \in Slot, ServerStep(s), Start(s), NEW u \in File,
           u \notin overtaken', SyncOf(u)
    PROVE  SyncOf(u)'
<1>1. HandlerStep(s) /\ u \notin overtaken /\ ~Overtakes(s, u)
    BY DEF ServerStep
<1>2. PICK m : m = Head(inbox)
    OBVIOUS
<1>3. /\ m \in Message /\ inbox # <<>> /\ inbox' = Tail(inbox) /\ handlers[s] = Idle /\ current = NoSlot
      /\ handlers'[s].msg = m /\ handlers'[s].pc = m.op
      /\ \A r \in Slot \ {s} : handlers'[r] = handlers[r]
    BY <1>1, <1>2, StartsOn, OthersStay DEF ServerType
<1>4. handlers[s].pc = "done" /\ ~Handles(s, u, DocumentOps) /\ ~Handles(s, u, Notices)
    BY <1>3 DEF Idle, Handles, DocumentOps, Notices
<1>5. Served(u)' = Served(u) /\ Held(u)'
    BY <1>4, ServedStays DEF SyncOf
<1>6. PICK view : Chain(view, u) /\ StartsAt(view[0], u)
    BY DEF SyncOf
<1>7. UNCHANGED editor
    BY <1>1, InboxStays
<1>8. PICK next : Chain(next, u)' /\ next[0] = Becomes(view[0], m, u) /\ Meets(view[0], m, u)
    BY <1>2, <1>3, <1>6, <1>7, ChainShifts
<1>9. Handles(s, u, DocumentOps)' <=> About(m, u)
    BY <1>3 DEF Handles, About
<1>10. CASE About(m, u)
    <2>1. \A r \in Slot \ {s} : ~Handles(r, u, DocumentOps)
        <3>1. SUFFICES ASSUME NEW r \in Slot \ {s}, Handles(r, u, DocumentOps) PROVE FALSE
            OBVIOUS
        <3>2. handlers[r].pc \notin AtOnce
            BY <1>3 DEF TurnsInv, AtOnceInv
        <3>3. Handles(r, u, {"did_open", "did_open_cache"})
            BY <3>1, <3>2 DEF Handles, DocumentOps, AtOnce
        <3>4. QED
            BY <1>1, <1>3, <1>4, <1>10, <3>3 DEF Overtakes, About
    <2>2. view[0] = Served(u)
        BY <1>4, <1>6, <2>1 DEF StartsAt
    <2>3. /\ Meets(Served(u)', handlers'[s].msg, u)
          /\ next[0] = Becomes(Served(u)', handlers'[s].msg, u)
        BY <1>3, <1>5, <1>8, <2>2
    <2>4. StartsAt(next[0], u)'
        BY <1>9, <1>10, <2>3 DEF StartsAt, Meets, Becomes, About
    <2>5. QED
        BY <1>5, <1>8, <2>4 DEF SyncOf
<1>11. CASE ~About(m, u)
    <2>1. next[0] = view[0]
        BY <1>8, <1>11 DEF Becomes
    <2>2. \A r \in Slot : /\ Handles(r, u, DocumentOps)' <=> Handles(r, u, DocumentOps)
                          /\ Handles(r, u, DocumentOps) => handlers'[r] = handlers[r]
        BY <1>3, <1>4, <1>9, <1>11 DEF Handles
    <2>3. StartsAt(view[0], u)'
        BY <1>5, <1>6, <2>2 DEF StartsAt, Meets, Becomes, About
    <2>4. StartsAt(next[0], u)'
        BY <2>1, <2>3
    <2>5. QED
        BY <1>5, <1>8, <2>4 DEF SyncOf
<1>12. QED
    BY <1>10, <1>11

\* Any other step of the server applies what has begun, or nothing.
LEMMA HandlerSyncs ==
    ASSUME ServerType, TurnsInv, CachesInv, NEW s \in Slot, ServerStep(s), ~Start(s), NEW u \in File,
           u \notin overtaken', SyncOf(u)
    PROVE  SyncOf(u)'
<1>1. HandlerStep(s) /\ u \notin overtaken /\ OneAtATime(u) /\ Held(u)
    BY DEF ServerStep, TurnsInv, SyncOf
<1>2. \A r \in Slot \ {s} : handlers'[r] = handlers[r]
    BY <1>1, OthersStay DEF ServerType
<1>3. PICK view : Chain(view, u) /\ StartsAt(view[0], u)
    BY DEF SyncOf
<1>4. Chain(view, u)'
    <2>1. UNCHANGED <<inbox, editor>>
        BY <1>1, InboxStays
    <2>2. QED
        BY <1>3, <2>1 DEF Chain
<1>5. SUFFICES StartsAt(view[0], u)' /\ Held(u)'
    BY <1>4 DEF SyncOf
<1>6. ASSUME UNCHANGED handlers, Served(u)' = Served(u)
      PROVE  StartsAt(view[0], u)'
    BY <1>3, <1>6 DEF StartsAt, Handles, Meets, Becomes, About
<1>7. CASE Resume(s)
    BY <1>1, <1>6, <1>7, ServedStays DEF Resume
<1>8. CASE ~Resume(s)
    <2>1. ~Handles(s, u, DocumentOps)'
        BY <1>1, <1>8, MovesOn DEF Handles, DocumentOps, Entry
    <2>2. CASE ~Handles(s, u, DocumentOps)
        <3>1. Served(u)' = Served(u) /\ Held(u)'
            BY <1>1, <2>2, ServedStays DEF Handles, DocumentOps, Notices
        <3>2. \A r \in Slot : /\ Handles(r, u, DocumentOps)' <=> Handles(r, u, DocumentOps)
                              /\ Handles(r, u, DocumentOps) => handlers'[r] = handlers[r]
            BY <1>2, <2>1, <2>2 DEF Handles
        <3>3. QED
            BY <1>3, <3>1, <3>2 DEF StartsAt, Meets, Becomes, About
    <2>3. CASE Handles(s, u, DocumentOps)
        <3>m. PICK m : m = handlers[s].msg
            OBVIOUS
        <3>1. /\ Meets(Served(u), m, u) /\ view[0] = Becomes(Served(u), m, u)
              /\ \A r \in Slot \ {s} : ~Handles(r, u, DocumentOps)
            BY <1>1, <1>3, <2>3, <3>m, BegunMeets
        <3>2. \A r \in Slot : ~Handles(r, u, DocumentOps)'
            BY <1>2, <2>1, <3>1 DEF Handles
        <3>3. Served(u)' = Becomes(Served(u), m, u) /\ Held(u)'
            <4>1. CASE did_save(s) /\ handlers[s].pc = "did_save"
                <5>1. Served(u)' = Served(u) /\ Held(u)'
                    BY <1>1, <4>1, ServedStays DEF Handles, Notices
                <5>2. m.op = "did_save"
                    BY <2>3, <3>m, <4>1, BegunMessage
                <5>3. QED
                    BY <5>1, <5>2 DEF Becomes
            <4>2. CASE \/ did_open(s) /\ handlers[s].pc = "did_open"
                       \/ did_change(s) /\ handlers[s].pc = "did_change"
                       \/ did_close(s) /\ handlers[s].pc = "did_close"
                <5>1. Handles(s, u, Notices)
                    BY <2>3, <4>2 DEF Handles, Notices
                <5>2. QED
                    BY <1>1, <3>1, <3>m, <4>2, <5>1, NoticeApplies
            <4>3. QED
                BY <1>1, <1>8, <2>3, <4>1, <4>2, BegunGoesOn
        <3>4. QED
            BY <3>1, <3>2, <3>3 DEF StartsAt
    <2>4. QED
        BY <2>2, <2>3
<1>9. QED
    BY <1>7, <1>8

-----------------------------------------------------------------------------
(* What the client says *)

\* It says m, which is true of what the editor has.
Tells(m) ==
    /\ inbox' = Append(inbox, m)
    /\ editor' \in [File -> Text \cup {None}]
    /\ \A u \in File :
          /\ editor'[u] = Becomes(editor[u], m, u)
          /\ Meets(editor[u], m, u)
          /\ About(m, u) /\ m.op # "did_save" => editor[u] # editor'[u]

\* A step of the client says something, or nothing about a buffer.
LEMMA ClientTells ==
    ASSUME TypeInv, \/ \E s \in Slot : Answer(s)
                    \/ ReportChanges \/ User \/ UNCHANGED vars
    PROVE  (\E m \in Message : Tells(m)) \/ UNCHANGED <<inbox, editor>>
<1> USE DEF TypeInv, ServerType
<1>0. editor \in [File -> Text \cup {None}]
    BY DEF ClientType
<1>t. ASSUME NEW m \in Message, NEW u \in File, NEW t \in Text \cup {None}, m.uri = u, Tell(m),
             editor' = [editor EXCEPT ![u] = t], editor[u] # t,
             \/ m.op = "did_open" /\ m.text = t
             \/ m.op = "did_change" /\ m.text = t /\ m.base = editor[u]
             \/ m.op = "did_close" /\ t = None
      PROVE  Tells(m)
    BY <1>0, <1>t DEF Tell, Tells, Becomes, Meets, About, DocumentOps
<1>e. ASSUME NEW m \in Message, Tell(m), UNCHANGED editor,
             \/ m.op \notin DocumentOps
             \/ m.op = "did_save" /\ editor[m.uri] # None
      PROVE  Tells(m)
    BY <1>0, <1>e DEF Tell, Tells, Becomes, Meets, About, DocumentOps
<1>1. ASSUME NEW u \in File, NEW t \in Text, Open(u, t)
      PROVE  \E m \in Message : Tells(m)
    <2> DEFINE m == [op |-> "did_open", uri |-> u, text |-> t]
    <2>1. m \in Message /\ m.op = "did_open" /\ m.uri = u /\ m.text = t
        BY DEF Message
    <2>2. Tell(m) /\ editor' = [editor EXCEPT ![u] = t] /\ editor[u] # t
        BY <1>1 DEF Open
    <2> HIDE DEF m
    <2>3. QED
        BY <1>t, <2>1, <2>2
<1>2. ASSUME NEW u \in File, NEW t \in Text, Edit(u, t)
      PROVE  \E m \in Message : Tells(m)
    <2> DEFINE m == [op |-> "did_change", uri |-> u, base |-> editor[u], text |-> t]
    <2>1. m \in Message /\ m.op = "did_change" /\ m.uri = u /\ m.text = t /\ m.base = editor[u]
        BY <1>0, <1>2 DEF Message, Edit
    <2>2. Tell(m) /\ editor' = [editor EXCEPT ![u] = t] /\ editor[u] # t
        BY <1>2 DEF Edit
    <2> HIDE DEF m
    <2>3. QED
        BY <1>t, <2>1, <2>2
<1>3. ASSUME NEW u \in File, Close(u)
      PROVE  \E m \in Message : Tells(m)
    <2> DEFINE m == [op |-> "did_close", uri |-> u]
    <2>1. m \in Message /\ m.op = "did_close" /\ m.uri = u
        BY DEF Message
    <2>2. Tell(m) /\ editor' = [editor EXCEPT ![u] = None] /\ editor[u] # None
        BY <1>3 DEF Close
    <2> HIDE DEF m
    <2>3. QED
        BY <1>t, <2>1, <2>2
<1>5. ASSUME NEW u \in File, Save(u) \/ Lookup(u)
      PROVE  \E m \in Message : Tells(m)
    <2>1. \/ Tell([op |-> "did_save", uri |-> u]) /\ editor[u] # None
          \/ Tell([op |-> "lookup", uri |-> u])
        BY <1>5 DEF Save, Lookup
    <2>2. [op |-> "did_save", uri |-> u] \in Message /\ [op |-> "lookup", uri |-> u] \in Message
        BY DEF Message
    <2>3. UNCHANGED editor
        BY <1>5 DEF Save, Lookup, ClientOnly
    <2>4. QED
        BY <1>e, <2>1, <2>2, <2>3 DEF DocumentOps
<1>6. ASSUME NEW u \in File, NEW t \in Text \cup {None}, ExternalChange(u, t)
      PROVE  UNCHANGED <<inbox, editor>>
    BY <1>6 DEF ExternalChange, ClientOnly
<1>7. ASSUME NEW st \in SettingsChoices, NEW empty \in BOOLEAN, ChangeSettings(st, empty)
      PROVE  \E m \in Message : Tells(m)
    <2> DEFINE m == [op |-> "did_change_configuration", empty |-> empty, settings |-> st]
    <2>1. m \in Message /\ m.op \notin DocumentOps
        BY DEF Message, DocumentOps
    <2>2. QED
        BY <1>e, <1>7, <2>1 DEF ChangeSettings, ClientOnly
<1>8. ASSUME NEW g \in Global, AddGlobal(g)
      PROVE  \E m \in Message : Tells(m)
    <2> DEFINE m == [op |-> "add_global", name |-> g]
    <2>1. m \in Message /\ m.op \notin DocumentOps
        BY DEF Message, DocumentOps
    <2>2. QED
        BY <1>e, <1>8, <2>1 DEF AddGlobal, ClientOnly
<1>9. ASSUME NEW f \in Folder, ChangeFolders(f)
      PROVE  \E m \in Message : Tells(m)
    <2> DEFINE m == [op |-> "did_change_workspace_folders",
                     added |-> {f} \ workspace_map, removed |-> {f} \cap workspace_map]
    <2>1. m \in Message /\ m.op \notin DocumentOps
        BY DEF Message, DocumentOps
    <2>2. QED
        BY <1>e, <1>9, <2>1 DEF ChangeFolders, ClientOnly
<1>10. CASE ReportChanges
    <2> DEFINE m == [op |-> "did_change_watched_files", changes |-> changes]
    <2>1. m \in Message /\ m.op \notin DocumentOps
        BY DEF Message, DocumentOps, ClientType
    <2>2. QED
        BY <1>e, <1>10, <2>1 DEF ReportChanges, ClientOnly
<1>11. CASE (\E s \in Slot : Answer(s)) \/ UNCHANGED vars
    BY <1>11 DEF Answer, vars, clientVars, taskVars
<1>12. QED
    BY <1>1, <1>2, <1>3, <1>5, <1>6, <1>7, <1>8, <1>9, <1>10, <1>11 DEF User

\* What it says extends the chain by what the editor now has.
LEMMA TellSyncs ==
    ASSUME TypeInv, NEW m \in Message, Tells(m), UNCHANGED <<handlers, doc_map, open_docs>>,
           NEW u \in File, SyncOf(u)
    PROVE  SyncOf(u)'
<1>1. PICK n \in Nat : n = Len(inbox)
    BY DEF TypeInv, ServerType, MailType
<1>2. Len(inbox') = n + 1 /\ \A i \in 1..(n + 1) : inbox'[i] = IF i = n + 1 THEN m ELSE inbox[i]
    BY <1>1 DEF Tells, TypeInv, ServerType, MailType
<1>3. PICK view : Chain(view, u) /\ StartsAt(view[0], u)
    BY DEF SyncOf
<1>4. PICK next : next = [i \in 0..(n + 1) |-> IF i = n + 1 THEN editor'[u] ELSE view[i]]
    OBVIOUS
<1>5. /\ next \in [0..(n + 1) -> Text \cup {None}] /\ next[n + 1] = editor'[u] /\ next[0] = view[0]
      /\ view[n] = editor[u]
    BY <1>1, <1>3, <1>4 DEF Chain, Tells
<1>6. ASSUME NEW i \in 1..(n + 1)
      PROVE  next[i] = Becomes(next[i - 1], inbox'[i], u) /\ Meets(next[i - 1], inbox'[i], u)
    <2>1. CASE i = n + 1
        <3>1. next[i] = editor'[u] /\ next[i - 1] = editor[u] /\ inbox'[i] = m
            <4>1. i - 1 = n /\ n \in 0..(n + 1) /\ n # n + 1
                BY <2>1
            <4>2. QED
                BY <1>2, <1>4, <1>5, <2>1, <4>1
        <3>2. QED
            BY <3>1 DEF Tells
    <2>2. CASE i \in 1..n
        <3>1. next[i] = view[i] /\ next[i - 1] = view[i - 1] /\ inbox'[i] = inbox[i]
            BY <1>2, <1>4, <2>2
        <3>2. QED
            BY <1>1, <1>3, <2>2, <3>1 DEF Chain
    <2>3. QED
        BY <2>1, <2>2
<1>7. Chain(next, u)'
    BY <1>2, <1>5, <1>6 DEF Chain, Becomes, Meets, About
<1>8. StartsAt(next[0], u)' /\ Held(u)'
    BY <1>3, <1>5 DEF StartsAt, Handles, Served, Held, Meets, Becomes, About, SyncOf
<1>9. QED
    BY <1>7, <1>8 DEF SyncOf

\* At the start no buffer is open and `initialized` is on its way.
LEMMA SyncInvInit ==
    ASSUME Init
    PROVE  SyncInv
<1> SUFFICES ASSUME NEW u \in File PROVE SyncOf(u)
    BY DEF SyncInv
<1>1. PICK m : m = [op |-> "initialized"]
    OBVIOUS
<1>2. inbox = <<m>> /\ Len(inbox) = 1 /\ inbox[1] = m /\ m.op = "initialized"
    BY <1>1 DEF Init
<1>3. PICK view : view = [i \in 0..1 |-> None]
    OBVIOUS
<1>4. /\ view[0] = None /\ view[1] = None /\ Served(u) = None /\ editor[u] = None
      /\ u \notin open_docs /\ \A s \in Slot : ~Handles(s, u, DocumentOps)
    BY <1>3 DEF Init, Served, Handles, Idle, DocumentOps
<1>5. ASSUME NEW i \in 1..1
      PROVE  view[i] = Becomes(view[i - 1], inbox[i], u) /\ Meets(view[i - 1], inbox[i], u)
    <2>1. i = 1 /\ i - 1 = 0
        OBVIOUS
    <2>2. ~About(m, u)
        BY <1>2 DEF About, DocumentOps
    <2>3. QED
        BY <1>2, <1>4, <2>1, <2>2 DEF Becomes, Meets
<1>6. Chain(view, u) /\ StartsAt(view[0], u)
    BY <1>2, <1>3, <1>4, <1>5 DEF Chain, StartsAt
<1>7. QED
    BY <1>4, <1>6 DEF SyncOf, Held

\* The invariant holds in every state the server reaches.
LEMMA SyncInvInductive == Spec => []SyncInv
<1>1. TypeInv /\ TurnsInv /\ CachesInv /\ SyncInv /\ [Next]_vars => SyncInv'
    <2> SUFFICES ASSUME TypeInv, TurnsInv, CachesInv, SyncInv, [Next]_vars, NEW u \in File, u \notin overtaken'
                 PROVE  SyncOf(u)'
        BY DEF SyncInv
    <2>1. ASSUME NEW s \in Slot, ServerStep(s) PROVE SyncOf(u)'
        <3>1. u \notin overtaken
            BY <2>1 DEF ServerStep
        <3>2. QED
            BY <2>1, <3>1, StartSyncs, HandlerSyncs DEF SyncInv, TypeInv
    <2>2. CASE (\E s \in Slot : Answer(s)) \/ ReportChanges \/ User \/ UNCHANGED vars
        <3>1. UNCHANGED <<handlers, doc_map, open_docs, overtaken>>
            BY <2>2, ClientLeavesServer
        <3>2. SyncOf(u)
            BY <3>1 DEF SyncInv
        <3>3. ASSUME NEW m \in Message, Tells(m) PROVE SyncOf(u)'
            BY <3>1, <3>2, <3>3, TellSyncs
        <3>4. ASSUME UNCHANGED <<inbox, editor>> PROVE SyncOf(u)'
            BY <3>1, <3>2, <3>4 DEF SyncOf, Chain, StartsAt, Held, Served, Handles, Becomes, Meets, About
        <3>5. QED
            BY <2>2, <3>3, <3>4, ClientTells
    <2>3. QED
        BY <2>1, <2>2 DEF Next
<1>2. QED
    BY <1>1, SyncInvInit, TypeInvInductive, TurnsInvInductive, CachesInvInductive, PTL DEF Spec

-----------------------------------------------------------------------------
(* What follows for the code *)

\* EditsMeetTheirBase: the `expect` of did_change never fails and no edit is
\* dropped for want of its document. Whatever the disk does meanwhile, and
\* however many handlers wait for the client, an edit is applied to the text it
\* was made for, unless a did_open of its document has been overtaken.
THEOREM EditsMeetBase == Spec => []EditsMeetTheirBase
<1>1. ASSUME TypeInv, TurnsInv, SyncInv
      PROVE  EditsMeetTheirBase
    <2>1. SUFFICES ASSUME NEW s \in Slot, At(s, "did_change"), handlers[s].msg.uri \notin overtaken
                   PROVE  doc_map[handlers[s].msg.uri] = handlers[s].msg.base
        BY DEF EditsMeetTheirBase
    <2>2. PICK m, u : m = handlers[s].msg /\ u = m.uri
        OBVIOUS
    <2>3. Handles(s, u, DocumentOps) /\ handlers[s].pc = "did_change"
        BY <2>1, <2>2 DEF At, Handles, DocumentOps
    <2>4. m \in Message /\ m.op = "did_change" /\ About(m, u)
        BY <1>1, <2>2, <2>3, BegunMessage DEF TypeInv
    <2>5. m.base \in Text /\ u \in File
        BY <2>2, <2>4, MessageFields
    <2>6. OneAtATime(u) /\ SyncOf(u)
        BY <1>1, <2>1, <2>2, <2>5 DEF TurnsInv, SyncInv
    <2>7. Meets(Served(u), m, u)
        BY <2>2, <2>3, <2>6, BegunMeets DEF SyncOf
    <2>8. Served(u) = m.base /\ m.base # None
        BY <2>4, <2>5, <2>7 DEF Meets
    <2>9. QED
        BY <2>2, <2>8 DEF Served
<1>2. QED
    BY <1>1, TypeInvInductive, TurnsInvInductive, SyncInvInductive, PTL

\* A text that no message that waits is about is already what the editor shows.
LEMMA UntoldIsServed ==
    ASSUME TypeInv, NEW u, NEW view, Chain(view, u),
           \A i \in 1..Len(inbox) : inbox[i].op \in Notices => inbox[i].uri # u
    PROVE  editor[u] = view[0]
<1> DEFINE n == Len(inbox)
           same == {i \in 0..n : view[i] = view[0]}
<1>1. n \in Nat
    BY DEF TypeInv, ServerType, MailType
<1>2. ASSUME NEW i \in 1..n, i - 1 \in same
      PROVE  i \in same
    <2>1. view[i] = Becomes(view[i - 1], inbox[i], u)
        BY DEF Chain
    <2>2. ~(About(inbox[i], u) /\ inbox[i].op # "did_save")
        BY DEF About, DocumentOps, Notices
    <2>3. view[i] = view[i - 1]
        BY <2>1, <2>2 DEF Becomes
    <2>4. i \in 0..n
        BY <1>1
    <2>5. QED
        BY <1>2, <2>3, <2>4
<1>3. 0 \in same
    BY <1>1
<1> HIDE DEF same, n
<1>4. \A i \in 0..n : i \in same
    BY <1>1, <1>2, <1>3, Induction
<1>5. n \in same
    BY <1>1, <1>4
<1>6. QED
    BY <1>5 DEF Chain, same, n

\* EditorTextIsServed: once the notifications about a file have reached their
\* handlers, the server holds exactly the open buffer's text and takes the file
\* for open exactly if it is, whatever was read from disk on the way, unless a
\* did_open of the file has been overtaken.
THEOREM EditorTextServed == Spec => []EditorTextIsServed
<1>1. ASSUME TypeInv, SyncInv
      PROVE  EditorTextIsServed
    <2>1. SUFFICES ASSUME NEW u \in File, u \notin overtaken, Heard(u)
                   PROVE  /\ u \in open_docs <=> editor[u] # None
                          /\ editor[u] # None => doc_map[u] = editor[u]
        BY DEF EditorTextIsServed
    <2>2. Held(u) /\ \E view : Chain(view, u) /\ StartsAt(view[0], u)
        BY <1>1, <2>1 DEF SyncInv, SyncOf
    <2>3. PICK view : Chain(view, u) /\ StartsAt(view[0], u)
        BY <2>2
    <2>4. inbox \in Seq(Message)
        BY <1>1 DEF TypeInv, ServerType, MailType
    <2>5. editor[u] = view[0]
        BY <1>1, <2>1, <2>3, <2>4, UntoldIsServed DEF Heard
    <2>6. view[0] = Served(u)
        <3>1. ASSUME NEW s \in Slot, Handles(s, u, DocumentOps)
              PROVE  Becomes(Served(u), handlers[s].msg, u) = Served(u)
            <4>1. handlers[s].pc = "did_save"
                BY <2>1, <3>1 DEF Heard, Handles, DocumentOps, Notices
            <4>2. handlers[s].msg.op = "did_save"
                BY <1>1, <3>1, <4>1, BegunMessage DEF TypeInv
            <4>3. QED
                BY <4>2 DEF Becomes
        <3>2. QED
            BY <2>3, <3>1 DEF StartsAt
    <2>7. QED
        BY <2>2, <2>5, <2>6 DEF Served, Held
<1>2. QED
    BY <1>1, TypeInvInductive, SyncInvInductive, PTL

-----------------------------------------------------------------------------
(* The refinement *)

\* What the messages in q say of u, in order, and what handlers hs say that have
\* begun a notification about it.
SaidIn(q, u) == [i \in DOMAIN q |-> Said(q[i], u)]

Begins(h, u) == h.pc \in Notices /\ h.msg.uri = u

Beginning(hs, u) == {s \in Slot : Begins(hs[s], u)}

OneOf(S) == CHOOSE s \in S : TRUE

InFront(hs, u) ==
    IF Beginning(hs, u) = {} THEN <<>> ELSE Said(hs[OneOf(Beginning(hs, u))].msg, u)

LEMMA UnheardIs ==
    ASSUME NEW u
    PROVE  /\ Unheard(u) = InFront(handlers, u) \o FlattenSeq(SaidIn(inbox, u))
           /\ Unheard(u)' = InFront(handlers', u) \o FlattenSeq(SaidIn(inbox', u))
BY DEF Unheard, InFront, Beginning, OneOf, SaidIn, Handles, Begins

\* A message says nothing of a buffer, or what becomes of it.
LEMMA SaidIs ==
    ASSUME NEW m \in Message, NEW u
    PROVE  /\ About(m, u) /\ m.op # "did_save" =>
                 \A t : Said(m, u) = <<Becomes(t, m, u)>>
           /\ ~(About(m, u) /\ m.op # "did_save") => Said(m, u) = <<>> /\ \A t : Becomes(t, m, u) = t
           /\ IsSeq(Said(m, u))
<1>1. CASE About(m, u) /\ m.op # "did_save"
    BY <1>1, Tuples DEF Said, About, Becomes, DocumentOps
<1>2. CASE ~(About(m, u) /\ m.op # "did_save")
    BY <1>2, Tuples DEF Said, About, Becomes, DocumentOps
<1>3. QED
    BY <1>1, <1>2

\* Read so, a sequence of messages is one of sequences.
LEMMA SaidInIs ==
    ASSUME NEW q \in Seq(Message), NEW u
    PROVE  /\ AllSeqs(SaidIn(q, u)) /\ Len(SaidIn(q, u)) = Len(q)
           /\ \A i \in 1..Len(q) : SaidIn(q, u)[i] = Said(q[i], u)
<1>1. Len(q) \in Nat /\ DOMAIN q = 1..Len(q) /\ \A i \in 1..Len(q) : q[i] \in Message
    OBVIOUS
<1>2. PICK S : S = {Said(q[i], u) : i \in 1..Len(q)}
    OBVIOUS
<1>3. SaidIn(q, u) \in [1..Len(q) -> S]
    BY <1>1, <1>2 DEF SaidIn
<1>4. SaidIn(q, u) \in Seq(S) /\ Len(SaidIn(q, u)) = Len(q)
    BY <1>1, <1>3, SeqDef
<1>5. \A i \in 1..Len(q) : SaidIn(q, u)[i] = Said(q[i], u)
    BY <1>1 DEF SaidIn
<1>6. \A i \in 1..Len(q) : IsSeq(Said(q[i], u))
    BY <1>1, SaidIs
<1>7. QED
    BY <1>4, <1>5, <1>6 DEF AllSeqs, IsSeq

\* One message more, behind or in front.
LEMMA SaidLonger ==
    ASSUME NEW q \in Seq(Message), NEW m \in Message, NEW u
    PROVE  FlattenSeq(SaidIn(Append(q, m), u)) = FlattenSeq(SaidIn(q, u)) \o Said(m, u)
<1>1. PICK a, p, r, n : a = Append(q, m) /\ p = SaidIn(q, u) /\ r = SaidIn(a, u) /\ n = Len(q)
    OBVIOUS
<1>2. a \in Seq(Message) /\ Len(a) = n + 1 /\ n \in Nat /\ \A i \in 1..(n + 1) : a[i] = IF i = n + 1 THEN m ELSE q[i]
    BY <1>1
<1>3. AllSeqs(p) /\ Len(p) = n /\ \A i \in 1..n : p[i] = Said(q[i], u)
    BY <1>1, SaidInIs
<1>4. AllSeqs(r) /\ Len(r) = n + 1 /\ \A i \in 1..(n + 1) : r[i] = Said(a[i], u)
    <2>1. AllSeqs(SaidIn(a, u)) /\ Len(SaidIn(a, u)) = Len(a) /\ \A i \in 1..Len(a) : SaidIn(a, u)[i] = Said(a[i], u)
        BY <1>2, SaidInIs
    <2>2. AllSeqs(r) /\ Len(r) = Len(a) /\ \A i \in 1..Len(a) : r[i] = Said(a[i], u)
        BY <1>1, <2>1
    <2>3. QED
        BY <1>2, <2>2
<1>5. ASSUME NEW i \in 1..n
      PROVE  r[i] = p[i]
    <2>1. i \in 1..(n + 1) /\ i # n + 1
        BY <1>2
    <2>2. a[i] = q[i]
        BY <1>2, <2>1
    <2>3. QED
        BY <1>3, <1>4, <2>1, <2>2
<1>6. r[n + 1] = Said(m, u)
    BY <1>2, <1>4
<1>7. FlattenSeq(r) = FlattenSeq(p) \o r[n + 1]
    BY <1>3, <1>4, <1>5, FlattenLonger
<1>8. QED
    BY <1>1, <1>6, <1>7

LEMMA SaidFront ==
    ASSUME NEW q \in Seq(Message), q # <<>>, NEW u
    PROVE  /\ FlattenSeq(SaidIn(q, u)) = Said(Head(q), u) \o FlattenSeq(SaidIn(Tail(q), u))
           /\ IsSeq(FlattenSeq(SaidIn(Tail(q), u)))
<1>1. PICK a, p, r, n : a = Tail(q) /\ p = SaidIn(q, u) /\ r = SaidIn(a, u) /\ n = Len(a)
    OBVIOUS
<1>2. a \in Seq(Message) /\ Len(q) = n + 1 /\ n \in Nat /\ Head(q) = q[1] /\ \A i \in 1..n : a[i] = q[i + 1]
    BY <1>1
<1>3. AllSeqs(p) /\ Len(p) = n + 1 /\ \A i \in 1..(n + 1) : p[i] = Said(q[i], u)
    <2>1. AllSeqs(p) /\ Len(p) = Len(q) /\ \A i \in 1..Len(q) : p[i] = Said(q[i], u)
        BY <1>1, SaidInIs
    <2>2. QED
        BY <1>2, <2>1
<1>4. AllSeqs(r) /\ Len(r) = n /\ \A i \in 1..n : r[i] = Said(a[i], u)
    <2>1. AllSeqs(SaidIn(a, u)) /\ Len(SaidIn(a, u)) = Len(a) /\ \A i \in 1..Len(a) : SaidIn(a, u)[i] = Said(a[i], u)
        BY <1>2, SaidInIs
    <2>2. QED
        BY <1>1, <2>1
<1>5. \A i \in 1..Len(r) : r[i] = p[i + 1]
    BY <1>2, <1>3, <1>4
<1>6. p[1] = Said(Head(q), u)
    BY <1>2, <1>3
<1>7. FlattenSeq(p) = p[1] \o FlattenSeq(r) /\ IsSeq(FlattenSeq(r))
    BY <1>2, <1>3, <1>4, <1>5, FlattenFront
<1>8. QED
    BY <1>1, <1>6, <1>7

\* What is said is a sequence, whether or not anything is in front.
LEMMA FlattenIsSeq ==
    ASSUME NEW seqs, AllSeqs(seqs)
    PROVE  IsSeq(FlattenSeq(seqs))
<1>1. PICK p : FlattenSeq(seqs) = p[Len(seqs)] /\ \A i \in 0..Len(seqs) : IsSeq(p[i])
    BY FlattenJoins
<1>2. Len(seqs) \in 0..Len(seqs)
    BY SeqFacts DEF AllSeqs
<1>3. QED
    BY <1>1, <1>2

\* In front is what the one handler that has begun a notification says.
LEMMA FrontIs ==
    ASSUME NEW hs, NEW u
    PROVE  /\ (\A s \in Slot : ~Begins(hs[s], u)) => InFront(hs, u) = <<>>
           /\ \A s \in Slot : /\ Begins(hs[s], u)
                              /\ \A r \in Slot \ {s} : ~Begins(hs[r], u)
                              => InFront(hs, u) = Said(hs[s].msg, u)
<1>1. ASSUME NEW s \in Slot, Begins(hs[s], u), \A r \in Slot \ {s} : ~Begins(hs[r], u)
      PROVE  InFront(hs, u) = Said(hs[s].msg, u)
    <2>1. Beginning(hs, u) = {s}
        BY <1>1 DEF Beginning
    <2>2. OneOf(Beginning(hs, u)) = s
        BY <2>1 DEF OneOf
    <2>3. QED
        BY <2>1, <2>2 DEF InFront
<1>2. (\A s \in Slot : ~Begins(hs[s], u)) => InFront(hs, u) = <<>>
    BY DEF InFront, Beginning
<1>3. QED
    BY <1>1, <1>2

\* It stays while the same handlers have begun the same notifications.
LEMMA FrontStays ==
    ASSUME NEW hs, NEW gs, NEW u,
           \A s \in Slot : Begins(gs[s], u) <=> Begins(hs[s], u),
           \A s \in Slot : Begins(hs[s], u) => gs[s].msg = hs[s].msg
    PROVE  InFront(gs, u) = InFront(hs, u)
<1>1. Beginning(gs, u) = Beginning(hs, u)
    BY DEF Beginning
<1>2. CASE Beginning(hs, u) = {}
    BY <1>1, <1>2 DEF InFront
<1>3. CASE Beginning(hs, u) # {}
    <2>1. PICK r : r = OneOf(Beginning(hs, u))
        OBVIOUS
    <2>2. r \in Slot /\ Begins(hs[r], u)
        BY <1>3, <2>1 DEF OneOf, Beginning
    <2>3. gs[r].msg = hs[r].msg
        BY <2>2
    <2>4. QED
        BY <1>1, <1>3, <2>1, <2>3 DEF InFront
<1>4. QED
    BY <1>2, <1>3

\* What is in front and what waits are sequences.
LEMMA UnheardParts ==
    ASSUME ServerType, NEW u
    PROVE  IsSeq(InFront(handlers, u)) /\ IsSeq(FlattenSeq(SaidIn(inbox, u)))
<1>1. IsSeq(FlattenSeq(SaidIn(inbox, u)))
    BY SaidInIs, FlattenIsSeq DEF ServerType, MailType
<1>2. CASE Beginning(handlers, u) = {}
    BY <1>1, <1>2, Tuples DEF InFront
<1>3. CASE Beginning(handlers, u) # {}
    <2>1. PICK r : r = OneOf(Beginning(handlers, u))
        OBVIOUS
    <2>2. r \in Slot /\ Begins(handlers[r], u)
        BY <1>3, <2>1 DEF OneOf, Beginning
    <2>3. handlers[r].msg \in Message
        BY <2>2, BegunMessage DEF Begins, Handles, Notices, DocumentOps
    <2>4. InFront(handlers, u) = Said(handlers[r].msg, u)
        BY <1>3, <2>1 DEF InFront
    <2>5. QED
        BY <1>1, <2>3, <2>4, SaidIs
<1>4. QED
    BY <1>2, <1>3

\* A message that is sent is heard last.
LEMMA TellsUnheard ==
    ASSUME ServerType, NEW m \in Message, inbox' = Append(inbox, m), UNCHANGED handlers, NEW u
    PROVE  Unheard(u)' = Unheard(u) \o Said(m, u) /\ IsSeq(Unheard(u))
<1>1. PICK f, w, x : /\ f = InFront(handlers, u) /\ w = FlattenSeq(SaidIn(inbox, u))
                     /\ x = Said(m, u)
    OBVIOUS
<1>2. IsSeq(f) /\ IsSeq(w) /\ IsSeq(x)
    BY <1>1, UnheardParts, SaidIs
<1>3. FlattenSeq(SaidIn(inbox', u)) = w \o x
    BY <1>1, SaidLonger DEF ServerType, MailType
<1>4. Unheard(u) = f \o w /\ Unheard(u)' = f \o (w \o x)
    BY <1>1, <1>3, UnheardIs
<1>5. (f \o w) \o x = f \o (w \o x) /\ IsSeq(f \o w)
    BY <1>2, JoinsAssociate, ConcatFacts
<1>6. QED
    BY <1>1, <1>4, <1>5

\* A handler that starts leaves what is unheard of a file that it does not overtake.
LEMMA StartUnheard ==
    ASSUME ServerType, TurnsInv, NEW s \in Slot, ServerStep(s), Start(s), NEW u \in File, u \notin overtaken'
    PROVE  Unheard(u)' = Unheard(u)
<1>1. HandlerStep(s) /\ u \notin overtaken /\ ~Overtakes(s, u)
    BY DEF ServerStep
<1>2. PICK m : m = Head(inbox)
    OBVIOUS
<1>3. /\ m \in Message /\ inbox # <<>> /\ inbox' = Tail(inbox) /\ handlers[s] = Idle /\ current = NoSlot
      /\ handlers'[s].msg = m /\ handlers'[s].pc = m.op
      /\ \A r \in Slot \ {s} : handlers'[r] = handlers[r]
    BY <1>1, <1>2, StartsOn, OthersStay DEF ServerType
<1>4. PICK w : w = FlattenSeq(SaidIn(inbox', u))
    OBVIOUS
<1>5. FlattenSeq(SaidIn(inbox, u)) = Said(m, u) \o w /\ IsSeq(w)
    BY <1>2, <1>3, <1>4, SaidFront DEF ServerType, MailType
<1>6. ~Begins(handlers[s], u) /\ (Begins(handlers'[s], u) <=> About(m, u) /\ m.op # "did_save")
    BY <1>3 DEF Begins, Idle, Notices, About, DocumentOps
<1>7. CASE About(m, u) /\ m.op # "did_save"
    <2>1. \A r \in Slot \ {s} : ~Begins(handlers[r], u)
        <3>1. SUFFICES ASSUME NEW r \in Slot \ {s}, Begins(handlers[r], u) PROVE FALSE
            OBVIOUS
        <3>2. handlers[r].pc \notin AtOnce
            BY <1>3 DEF TurnsInv, AtOnceInv
        <3>3. Handles(r, u, {"did_open", "did_open_cache"})
            BY <3>1, <3>2 DEF Begins, Handles, Notices, AtOnce
        <3>4. handlers[s].pc = "done"
            BY <1>3 DEF Idle
        <3>5. QED
            BY <1>1, <1>3, <1>7, <3>3, <3>4 DEF Overtakes, About
    <2>2. InFront(handlers, u) = <<>>
        BY <1>6, <2>1, FrontIs
    <2>3. InFront(handlers', u) = Said(m, u)
        <3>1. Begins(handlers'[s], u) /\ \A r \in Slot \ {s} : ~Begins(handlers'[r], u)
            BY <1>3, <1>6, <1>7, <2>1
        <3>2. InFront(handlers', u) = Said(handlers'[s].msg, u)
            BY <3>1, FrontIs
        <3>3. QED
            BY <1>3, <3>2
    <2>4. IsSeq(Said(m, u) \o w)
        BY <1>3, <1>5, SaidIs, ConcatFacts
    <2>5. <<>> \o (Said(m, u) \o w) = Said(m, u) \o w
        BY <2>4, NothingJoins
    <2>6. QED
        BY <1>4, <1>5, <2>2, <2>3, <2>5, UnheardIs
<1>8. CASE ~(About(m, u) /\ m.op # "did_save")
    <2>1. Said(m, u) = <<>>
        BY <1>3, <1>8, SaidIs
    <2>2. <<>> \o w = w
        BY <1>5, NothingJoins
    <2>3. InFront(handlers', u) = InFront(handlers, u)
        <3>1. /\ \A r \in Slot : Begins(handlers'[r], u) <=> Begins(handlers[r], u)
              /\ \A r \in Slot : Begins(handlers[r], u) => handlers'[r].msg = handlers[r].msg
            BY <1>3, <1>6, <1>8
        <3>2. QED
            BY <3>1, FrontStays
    <2>4. QED
        BY <1>4, <1>5, <2>1, <2>2, <2>3, UnheardIs
<1>9. QED
    BY <1>7, <1>8

\* So does any other step that applies no notification about it.
LEMMA OtherUnheard ==
    ASSUME ServerType, NEW s \in Slot, HandlerStep(s), ~Start(s), NEW u,
           ~Handles(s, u, Notices) \/ Resume(s)
    PROVE  Unheard(u)' = Unheard(u)
<1>1. \A r \in Slot \ {s} : handlers'[r] = handlers[r]
    BY OthersStay DEF ServerType
<1>2. UNCHANGED inbox
    BY InboxStays
<1>3. CASE Resume(s)
    BY <1>2, <1>3 DEF Resume, Unheard, Handles
<1>4. CASE ~Handles(s, u, Notices) /\ ~Resume(s)
    <2>1. handlers'[s].pc \notin Notices
        BY <1>4, MovesOn DEF Notices, Entry
    <2>2. /\ \A r \in Slot : Begins(handlers'[r], u) <=> Begins(handlers[r], u)
          /\ \A r \in Slot : Begins(handlers[r], u) => handlers'[r].msg = handlers[r].msg
        BY <1>1, <1>4, <2>1 DEF Begins, Handles
    <2>3. InFront(handlers', u) = InFront(handlers, u)
        BY <2>2, FrontStays
    <2>4. QED
        BY <1>2, <2>3, UnheardIs
<1>5. QED
    BY <1>3, <1>4

\* A handler that applies a notification about v takes it from the front, and
\* leaves other files.
LEMMA NoticeUnheard ==
    ASSUME ServerType, NEW s \in Slot, HandlerStep(s), ~Start(s), ~Resume(s), NEW v,
           Handles(s, v, Notices), OneAtATime(v)
    PROVE  /\ Unheard(v) = <<Becomes(Served(v), handlers[s].msg, v)>> \o Unheard(v)' /\ IsSeq(Unheard(v)')
           /\ \A u : u # v => Unheard(u)' = Unheard(u)
<1>1. \A r \in Slot \ {s} : handlers'[r] = handlers[r] /\ ~Begins(handlers[r], v)
    <2>1. \A r \in Slot \ {s} : handlers'[r] = handlers[r]
        BY OthersStay DEF ServerType
    <2>2. \A r \in Slot \ {s} : ~Begins(handlers[r], v)
        BY DEF OneAtATime, Begins, Handles, Begun, DocumentOps, Notices
    <2>3. QED
        BY <2>1, <2>2
<1>2. UNCHANGED inbox
    BY InboxStays
<1>3. PICK m, w : m = handlers[s].msg /\ w = FlattenSeq(SaidIn(inbox, v))
    OBVIOUS
<1>4. m \in Message /\ About(m, v) /\ m.op # "did_save" /\ IsSeq(w)
    <2>1. Handles(s, v, DocumentOps) /\ handlers[s].pc # "did_save"
        BY DEF Handles, Notices, DocumentOps
    <2>2. QED
        BY <1>3, <2>1, BegunMessage, UnheardParts
<1>5. Said(m, v) = <<Becomes(Served(v), m, v)>>
    BY <1>4, SaidIs
<1>6. ~\E u : Begins(handlers'[s], u)
    BY MovesOn DEF Notices, Entry, Begins
<1>7. InFront(handlers, v) = Said(m, v)
    <2>1. Begins(handlers[s], v)
        BY DEF Begins, Handles
    <2>2. QED
        BY <1>1, <1>3, <2>1, FrontIs
<1>8. InFront(handlers', v) = <<>>
    BY <1>1, <1>6, FrontIs
<1>9. Unheard(v)' = w
    <2>1. <<>> \o w = w
        BY <1>4, NothingJoins
    <2>2. QED
        BY <1>2, <1>3, <1>8, <2>1, UnheardIs
<1>10. ASSUME NEW u, u # v
       PROVE  Unheard(u)' = Unheard(u)
    <2>1. ~Begins(handlers[s], u)
        BY <1>10 DEF Begins, Handles
    <2>2. /\ \A r \in Slot : Begins(handlers'[r], u) <=> Begins(handlers[r], u)
          /\ \A r \in Slot : Begins(handlers[r], u) => handlers'[r].msg = handlers[r].msg
        BY <1>1, <1>6, <2>1
    <2>3. QED
        BY <1>2, <2>2, FrontStays, UnheardIs
<1>11. QED
    BY <1>3, <1>4, <1>5, <1>7, <1>9, <1>10, UnheardIs

-----------------------------------------------------------------------------
\* The three kinds of steps are steps of the abstract specification.
LEMMA SaysIsSay ==
    ASSUME TypeInv, NEW v \in File, NEW t \in Text \cup {None}, editor[v] # t,
           editor' = [editor EXCEPT ![v] = t], UNCHANGED <<open_docs, doc_map, overtaken>>,
           \A u \in File : u # v => Unheard(u)' = Unheard(u),
           Unheard(v)' = Append(Unheard(v), t)
    PROVE  Sync!Next
<1> DEFINE said == [u \in File |-> IF u \in overtaken THEN <<>> ELSE Unheard(u)]
<1>0. said' = [said EXCEPT ![v] = IF v \in overtaken THEN @ ELSE Append(@, t)]
    <2>1. ASSUME NEW u \in File
          PROVE  said'[u] = [said EXCEPT ![v] = IF v \in overtaken THEN @ ELSE Append(@, t)][u]
        BY <2>1
    <2>2. QED
        BY <2>1
<1>1. Sync!Say(v, t)
    BY <1>0 DEF Sync!Say
<1>2. QED
    BY <1>1 DEF Sync!Next

LEMMA HearsIsHear ==
    ASSUME TypeInv, TypeInv', NEW v \in File, v \notin overtaken, UNCHANGED <<editor, overtaken>>,
           Unheard(v) # <<>>, Unheard(v)' = Tail(Unheard(v)), doc_map'[v] = Head(Unheard(v)),
           v \in open_docs' <=> Head(Unheard(v)) # None,
           \A u \in File : u # v => Unheard(u)' = Unheard(u),
           \A u \in File : u # v => doc_map'[u] = doc_map[u],
           \A u \in File : u # v => (u \in open_docs' <=> u \in open_docs)
    PROVE  Sync!Next
<1>1. open_docs \subseteq File /\ open_docs' \subseteq File
    BY DEF TypeInv, ServerType, DocType
<1> DEFINE said == [u \in File |-> IF u \in overtaken THEN <<>> ELSE Unheard(u)]
           text == [u \in File |-> IF u \in overtaken THEN None ELSE doc_map[u]]
<1>2. said[v] = Unheard(v) /\ said' = [said EXCEPT ![v] = Tail(@)]
    <2>1. ASSUME NEW u \in File
          PROVE  said'[u] = [said EXCEPT ![v] = Tail(@)][u]
        BY <2>1
    <2>2. QED
        BY <2>1
<1>3. text' = [text EXCEPT ![v] = Head(said[v])]
    <2>1. ASSUME NEW u \in File
          PROVE  text'[u] = [text EXCEPT ![v] = Head(said[v])][u]
        BY <1>2, <2>1
    <2>2. QED
        BY <2>1
<1>4. (open_docs \ overtaken)' = IF Head(said[v]) = None THEN (open_docs \ overtaken) \ {v}
                                 ELSE (open_docs \ overtaken) \cup {v}
    BY <1>1, <1>2
<1>5. Sync!Hear(v)
    BY <1>2, <1>3, <1>4 DEF Sync!Hear
<1>6. QED
    BY <1>5 DEF Sync!Next

LEMMA ReadsIsRead ==
    ASSUME TypeInv, TypeInv', UNCHANGED editor, overtaken \subseteq overtaken',
           \A u \in File : u \notin overtaken' => Unheard(u)' = Unheard(u),
           \A u \in File : u \notin overtaken' => (u \in open_docs' <=> u \in open_docs),
           \A u \in File : u \notin overtaken' /\ u \in open_docs => doc_map'[u] = doc_map[u]
    PROVE  Sync!Next
<1>1. /\ open_docs \subseteq File /\ open_docs' \subseteq File /\ overtaken' \subseteq File
      /\ doc_map' \in [File -> Text \cup {None}]
    BY DEF TypeInv, ServerType, DocType, HistoryType
<1>2. PICK files : files = overtaken' \ overtaken
    OBVIOUS
<1>3. files \in SUBSET File /\ overtaken' = overtaken \cup files
    BY <1>1, <1>2
<1>4. Sync!Read(files)
    BY <1>1, <1>3 DEF Sync!Read
<1>5. QED
    BY <1>3, <1>4 DEF Sync!Next

\* What the client says, it says of one buffer or of none.
LEMMA TellsIsSay ==
    ASSUME TypeInv, NEW m \in Message, Tells(m), UNCHANGED <<handlers, doc_map, open_docs, overtaken>>
    PROVE  Sync!Next \/ UNCHANGED Sync!vars
<1>0. ServerType /\ editor \in [File -> Text \cup {None}] /\ editor' \in [File -> Text \cup {None}]
    BY DEF TypeInv, ServerType, ClientType, Tells
<1>1. ASSUME NEW u
      PROVE  Unheard(u)' = Unheard(u) \o Said(m, u) /\ IsSeq(Unheard(u))
    BY <1>0, TellsUnheard DEF Tells
<1>2. ASSUME NEW u, ~(About(m, u) /\ m.op # "did_save")
      PROVE  Unheard(u)' = Unheard(u) /\ (u \in File => editor'[u] = editor[u])
    <2>1. Said(m, u) = <<>>
        BY <1>2, SaidIs
    <2>2. Unheard(u)' = Unheard(u)
        BY <1>1, <2>1, NothingJoins
    <2>3. QED
        BY <1>2, <2>2 DEF Tells, Becomes
<1>3. CASE \E v \in File : About(m, v) /\ m.op # "did_save"
    <2>1. PICK v \in File : About(m, v) /\ m.op # "did_save"
        BY <1>3
    <2>2. PICK t : t = editor'[v]
        OBVIOUS
    <2>3. t \in Text \cup {None} /\ editor[v] # t /\ t = Becomes(editor[v], m, v)
        BY <1>0, <2>1, <2>2 DEF Tells
    <2>4. \A u \in File : u # v => Unheard(u)' = Unheard(u) /\ editor'[u] = editor[u]
        BY <1>2, <2>1 DEF About
    <2>5. editor' = [editor EXCEPT ![v] = t]
        BY <1>0, <2>2, <2>4
    <2>6. Unheard(v)' = Append(Unheard(v), t)
        <3>1. Said(m, v) = <<t>>
            <4>1. \A a : Said(m, v) = <<Becomes(a, m, v)>>
                BY <2>1, SaidIs
            <4>2. QED
                BY <2>3, <4>1
        <3>2. PICK S : Unheard(v) \in Seq(S)
            BY <1>1 DEF IsSeq
        <3>3. Unheard(v) \in Seq(S \cup {t}) /\ t \in S \cup {t}
            BY <3>2, SeqMonotonic
        <3>4. Append(Unheard(v), t) = Unheard(v) \o <<t>>
            BY <3>3, AppendIsConcat
        <3>5. QED
            BY <1>1, <3>1, <3>4
    <2>7. QED
        BY <2>3, <2>4, <2>5, <2>6, SaysIsSay
<1>4. CASE ~\E v \in File : About(m, v) /\ m.op # "did_save"
    <2>1. \A u \in File : Unheard(u)' = Unheard(u) /\ editor'[u] = editor[u]
        BY <1>2, <1>4
    <2>2. editor' = editor
        BY <1>0, <2>1
    <2>3. QED
        BY <2>1, <2>2 DEF Sync!vars
<1>5. QED
    BY <1>3, <1>4

\* A notification about v that is applied is heard.
LEMMA NoticeIsHear ==
    ASSUME TypeInv, TypeInv', TurnsInv, CachesInv, SyncInv, NEW s \in Slot, ServerStep(s), ~Resume(s),
           NEW v \in File, v \notin overtaken', Handles(s, v, Notices)
    PROVE  Sync!Next
<1>0. ServerType /\ HandlerStep(s) /\ v \notin overtaken /\ OneAtATime(v) /\ SyncOf(v)
    BY DEF TypeInv, ServerStep, TurnsInv, SyncInv
<1>1. Handles(s, v, DocumentOps) /\ handlers[s].pc # "did_save" /\ handlers[s].pc \in Notices
    BY DEF Handles, Notices, DocumentOps
<1>2. did_open(s) \/ did_change(s) \/ did_close(s)
    BY <1>0, <1>1, BegunGoesOn
<1>3. At(s, "did_open") \/ At(s, "did_change") \/ At(s, "did_close")
    BY <1>2 DEF did_open, did_change, did_close
<1>4. ~Start(s) /\ ~refresh_ast_globals_and_diagnostics(s) /\ ~PublishEach(s)
    BY <1>3 DEF At, Start, Idle, refresh_ast_globals_and_diagnostics, PublishEach
<1>5. overtaken' = overtaken
    <2>1. ASSUME NEW u \in File, Overtakes(s, u) PROVE FALSE
        <3>1. handlers[s].pc # "done"
            BY <1>3 DEF At
        <3>2. PICK r \in Slot \ {s} : Handles(r, u, {"did_open_cache"}) /\ ast_map'[u] # ast_map[u]
            BY <1>4, <2>1, <3>1 DEF Overtakes
        <3>3. UNCHANGED ast_map \/ \E w \in Text \cup {None} : \E a : ast_map' = [ast_map EXCEPT ![v] = a]
            BY <1>1, <1>2 DEF did_open, did_change, did_close, Forget, docVars, Handles
        <3>4. u = v
            BY <1>0, <3>2, <3>3 DEF ServerType, DocType
        <3>5. Handles(r, v, Begun) /\ Handles(s, v, Begun)
            BY <1>1, <3>2, <3>4 DEF Handles, Begun
        <3>6. QED
            BY <1>0, <3>2, <3>5 DEF OneAtATime
    <2>2. QED
        BY <2>1 DEF ServerStep
<1>6. PICK m, t : m = handlers[s].msg /\ t = Becomes(Served(v), m, v)
    OBVIOUS
<1>7. Held(v) /\ Meets(Served(v), m, v)
    <2>1. PICK x : StartsAt(x, v)
        BY <1>0 DEF SyncOf
    <2>2. QED
        BY <1>0, <1>1, <1>6, <2>1, BegunMeets DEF SyncOf
<1>8. /\ doc_map'[v] = t /\ (v \in open_docs' <=> t # None)
      /\ \A u \in File \ {v} : doc_map'[u] = doc_map[u] /\ (u \in open_docs' <=> u \in open_docs)
    BY <1>0, <1>2, <1>6, <1>7, NoticeApplies
<1>9. /\ Unheard(v) = <<t>> \o Unheard(v)' /\ IsSeq(Unheard(v)')
      /\ \A u : u # v => Unheard(u)' = Unheard(u)
    BY <1>0, <1>4, <1>6, NoticeUnheard
<1>10. Unheard(v) # <<>> /\ Head(Unheard(v)) = t /\ Tail(Unheard(v)) = Unheard(v)'
    <2>1. PICK w : w = Unheard(v)'
        OBVIOUS
    <2>2. PICK S : w \in Seq(S)
        BY <1>9, <2>1 DEF IsSeq
    <2>3. PICK V : V = S \cup {t}
        OBVIOUS
    <2>4. w \in Seq(V) /\ t \in V
        BY <2>2, <2>3, SeqMonotonic
    <2>5. <<t>> \o w # <<>> /\ Head(<<t>> \o w) = t /\ Tail(<<t>> \o w) = w
        BY <2>4
    <2>6. QED
        BY <1>9, <2>1, <2>5
<1>11. UNCHANGED editor
    BY <1>0, InboxStays
<1>12. QED
    BY <1>0, <1>5, <1>8, <1>9, <1>10, <1>11, HearsIsHear

\* Any other step of the server reads the disk at most, or loses a document.
LEMMA OtherIsRead ==
    ASSUME TypeInv, TypeInv', TurnsInv, CachesInv, SyncInv, NEW s \in Slot, ServerStep(s),
           Resume(s) \/ \A v \in File \ overtaken' : ~Handles(s, v, Notices)
    PROVE  Sync!Next
<1>0. ServerType /\ HandlerStep(s) /\ overtaken \subseteq overtaken'
    BY DEF TypeInv, ServerStep
<1>1. ASSUME NEW u \in File, u \notin overtaken'
      PROVE  /\ Unheard(u)' = Unheard(u)
             /\ u \in open_docs' <=> u \in open_docs
             /\ u \in open_docs => doc_map'[u] = doc_map[u]
    <2>1. u \notin overtaken /\ Held(u) /\ (~Handles(s, u, Notices) \/ Resume(s))
        BY <1>0, <1>1 DEF SyncInv, SyncOf
    <2>2. Unheard(u)' = Unheard(u)
        <3>1. CASE Start(s)
            BY <1>0, <1>1, <3>1, StartUnheard
        <3>2. CASE ~Start(s)
            BY <1>0, <2>1, <3>2, OtherUnheard
        <3>3. QED
            BY <3>1, <3>2
    <2>3. Served(u)' = Served(u) /\ (u \in open_docs' <=> u \in open_docs)
        BY <1>0, <1>1, <2>1, ServedStays
    <2>4. QED
        BY <2>2, <2>3 DEF Served
<1>2. UNCHANGED editor
    BY <1>0, InboxStays
<1>3. QED
    BY <1>0, <1>1, <1>2, ReadsIsRead

\* KeepsDocumentsInSync: the server implements DocumentSync. Whatever handlers
\* interleave, at any await, each message of the editor is applied once, in the
\* order sent, to the text it was meant for, and nothing read from disk touches an
\* open document, except in a file whose did_open is overtaken.
THEOREM ServerKeepsDocumentsInSync == Spec => KeepsDocumentsInSync
<1>1. Init => Sync!Init
    <2> SUFFICES ASSUME Init PROVE Sync!Init
        OBVIOUS
    <2>1. ASSUME NEW u \in File
          PROVE  Unheard(u) = <<>>
        <3>1. PICK m : m = [op |-> "initialized"]
            OBVIOUS
        <3>2. inbox = <<m>> /\ m \in Message /\ m.op = "initialized"
            BY <3>1 DEF Init, Message
        <3>3. inbox \in Seq(Message) /\ inbox # <<>> /\ Head(inbox) = m /\ Tail(inbox) = <<>>
            BY <3>2
        <3>4. Said(m, u) = <<>>
            BY <3>2, SaidIs DEF About, DocumentOps
        <3>5. SaidIn(<<>>, u) = <<>>
            BY DEF SaidIn
        <3>6. FlattenSeq(SaidIn(inbox, u)) = <<>>
            <4>1. FlattenSeq(SaidIn(inbox, u)) = Said(Head(inbox), u) \o FlattenSeq(SaidIn(Tail(inbox), u))
                BY <3>3, SaidFront
            <4>2. FlattenSeq(SaidIn(inbox, u)) = <<>> \o <<>>
                BY <3>3, <3>4, <3>5, <4>1, FlattenNothing
            <4>3. QED
                BY <4>2, NothingJoins, Tuples
        <3>7. InFront(handlers, u) = <<>>
            BY FrontIs DEF Init, Begins, Idle, Notices
        <3>8. QED
            BY <3>6, <3>7, UnheardIs, NothingJoins, Tuples
    <2>2. QED
        BY <2>1 DEF Init, Sync!Init
<1>2. ASSUME TypeInv, TypeInv', TurnsInv, CachesInv, SyncInv, [Next]_vars
      PROVE  [Sync!Next]_(Sync!vars)
    <2>1. ASSUME NEW s \in Slot, ServerStep(s) PROVE Sync!Next
        BY <1>2, <2>1, NoticeIsHear, OtherIsRead
    <2>2. CASE (\E s \in Slot : Answer(s)) \/ ReportChanges \/ User \/ UNCHANGED vars
        <3>1. UNCHANGED <<handlers, doc_map, open_docs, overtaken>>
            BY <2>2, ClientLeavesServer
        <3>2. ASSUME NEW m \in Message, Tells(m) PROVE Sync!Next \/ UNCHANGED Sync!vars
            BY <1>2, <3>1, <3>2, TellsIsSay
        <3>3. ASSUME UNCHANGED <<inbox, editor>> PROVE UNCHANGED Sync!vars
            BY <3>1, <3>3 DEF Sync!vars, Unheard, Handles
        <3>4. QED
            BY <1>2, <2>2, <3>2, <3>3, ClientTells
    <2>3. QED
        BY <1>2, <2>1, <2>2 DEF Next
<1>3. QED
    BY <1>1, <1>2, TypeInvInductive, TurnsInvInductive, CachesInvInductive, SyncInvInductive, PTL
       DEF Spec, KeepsDocumentsInSync, Sync!Spec
=============================================================================
