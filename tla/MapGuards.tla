----------------------------- MODULE MapGuards -----------------------------
(***************************************************************************)
(* The guards that handlers hold on the server's DashMaps. A DashMap is a  *)
(* row of shards, each behind a reader-writer lock: a guard of one entry   *)
(* locks the whole shard, and an operation that finds it locked spins on   *)
(* the only task of the server. Handlers change places at awaits of the    *)
(* client alone, so a handler that waits for a guard waits for ever.       *)
(*                                                                         *)
(* A handler is the sequence of what it does to the maps (its "todo"); the *)
(* data of the entries is left out, and a choice the data makes is free.   *)
(***************************************************************************)
EXTENDS Naturals, Sequences, FiniteSets

CONSTANTS
    Uri,
    Project,          \* the project files (is_flsproject)
    Std,              \* the stubs: in doc_map alone
    Shard,
    Hashes,           \* the ways the maps may hash their keys to shards
    Worker,           \* the handlers tower-lsp may have in progress
    Idle,
    Requests,         \* the names of the handlers that the client calls
    SendMaySuspend,   \* whether a message to the client may give the task up
    MaxRequests       \* bounds the messages of the client

ASSUME UriAssumption == Project \subseteq Uri /\ Std \in Uri \ Project
ASSUME WorkerAssumption == Idle \notin Worker
ASSUME MaxRequestsAssumption == MaxRequests \in Nat

\* What the client may call.
Name ==
    {"initialized", "did_open", "did_change", "did_save", "did_close", "did_change_watched_files",
     "did_change_workspace_folders", "did_change_configuration", "hover", "signature_help",
     "document_link", "document_symbol", "selection_range", "folding_range", "document_highlight",
     "semantic_tokens_full", "inlay_hint", "code_action", "prepare_rename",
     "prepare_call_hierarchy", "outgoing_calls", "execute_command", "symbol", "incoming_calls",
     "completion", "goto_definition", "references", "rename"}

ASSUME RequestAssumption == Requests \subseteq Name /\ Idle \notin Name

VARIABLES
    shard,      \* where each map hashes each key to
    present,    \* the keys of each map
    held,       \* the guards of each handler
    request,    \* what each handler is doing
    todo,       \* what is left of it
    running,    \* who has the task
    requests    \* the messages so far

vars == <<shard, present, held, request, todo, running, requests>>

Map == {"doc_map", "ast_map", "on_save_or_open_errors"}

-----------------------------------------------------------------------------
\* What handlers consist of.

\* "found" runs with the guard, which is dropped after it at the latest.
Get(map, key, mode, found, missing) ==
    [op |-> "get", map |-> map, key |-> key, mode |-> mode, found |-> found, missing |-> missing,
     again |-> FALSE]
\* Locks the shard and lets it go at once: contains_key, and whatever is done to
\* the stored errors, whose entries decide nothing here.
Touch(map, key, mode) == [op |-> "touch", map |-> map, key |-> key, mode |-> mode]
Insert(map, key) == [op |-> "insert", map |-> map, key |-> key]
Erase(map, key) == [op |-> "remove", map |-> map, key |-> key]
Drop(map, key) == [op |-> "drop", map |-> map, key |-> key]
\* Visits the entries in any order: with a guard of each, or ("keys") from a copy.
Each(map, mode, body) == [op |-> "each", map |-> map, mode |-> mode, body |-> body]
OneOf(branches) == [op |-> "one_of", branches |-> branches]
Return == [op |-> "return"]
Answer == [op |-> "answer"]     \* the await of an answer of the client
Send == [op |-> "send"]         \* the await of a message to the client

If(map, key, found) == Get(map, key, "read", found, <<>>)
Need(map, key, found) == Get(map, key, "read", found, <<Return>>)
\* A second look at an entry that was there before its guard was dropped.
Again(map, key, found) == [Need(map, key, found) EXCEPT !.again = TRUE]
ForEach(map, Body(_)) == Each(map, "read", [u \in Uri |-> Body(u)])
Nothing(u) == <<>>
Maybe(steps) == OneOf({<<>>, steps})

-----------------------------------------------------------------------------
\* Helpers of the handlers (main.rs).

compute_diagnostics(u) ==
    IF u \in Project THEN <<>>
    ELSE <<Touch("on_save_or_open_errors", u, "write"), Touch("on_save_or_open_errors", u, "read")>>

get_or_parse_ast(u, some) ==
    <<Get("ast_map", u, "read", <<Drop("ast_map", u)>> \o some,
          <<Maybe(<<Insert("ast_map", u), Insert("doc_map", u)>> \o some)>>)>>

ensure_ast(u) ==
    <<Get("ast_map", u, "read", <<>>, <<Maybe(<<Insert("doc_map", u), Insert("ast_map", u)>>)>>)>>

\* Mutant: the cached text is still borrowed when the new one is stored.
ReindexBorrowing(u) ==
    <<If("doc_map", u, <<Maybe(<<Insert("ast_map", u), Insert("doc_map", u)>>)>>)>>

reindex_from_disk(u) ==
    <<OneOf({<<Erase("ast_map", u), Erase("doc_map", u), Touch("on_save_or_open_errors", u, "write")>>,
             <<Touch("doc_map", u, "read"), Maybe(<<Insert("ast_map", u), Insert("doc_map", u)>>)>>})>>

find_file(u) == <<Touch("doc_map", u, "read")>>

refresh_ast_globals_and_diagnostics ==
    LET publish(u) == <<If("doc_map", u, <<If("ast_map", u,
            compute_diagnostics(u) \o <<Drop("doc_map", u), Drop("ast_map", u), Send>>)>>)>>
    IN  <<Each("ast_map", "write", [u \in Uri |-> <<>>]), Each("ast_map", "keys", [u \in Uri |-> publish(u)])>>

reload_flsproject ==
    LET reload(p) ==
            <<Maybe(<<Send>>),
              If("doc_map", p,
                 <<Drop("doc_map", p), Get("ast_map", p, "read", <<>>, <<Insert("ast_map", p)>>)>>
                     \o compute_diagnostics(p) \o <<Send>>)>>
                \o refresh_ast_globals_and_diagnostics
    IN  <<ForEach("doc_map", Nothing), OneOf({<<>>} \cup {reload(p) : p \in Project})>>

IfProject(u) == IF u \in Project THEN reload_flsproject ELSE <<>>

-----------------------------------------------------------------------------
\* Notifications (lifecycle.rs).

did_open(u) ==
    <<Send, Insert("doc_map", u)>> \o compute_diagnostics(u)
        \o <<Send, Touch("on_save_or_open_errors", u, "write"), Insert("ast_map", u)>> \o IfProject(u)

\* Mutant: the text stays locked until the diagnostics are out.
DidChangeHolding(u) ==
    <<Get("doc_map", u, "write",
          compute_diagnostics(u) \o <<Insert("ast_map", u), Send>> \o IfProject(u), <<>>)>>

did_change(u) ==
    <<Get("doc_map", u, "write",
          <<Drop("doc_map", u)>> \o compute_diagnostics(u)
              \o <<Insert("ast_map", u), Send>> \o IfProject(u), <<>>)>>

did_save(u) ==
    IF u \in Project THEN reload_flsproject
    ELSE <<If("ast_map", u, <<If("doc_map", u, compute_diagnostics(u)
              \o <<Drop("doc_map", u), Drop("ast_map", u), Send>>)>>)>>

did_close(u) ==
    <<Erase("doc_map", u), Erase("ast_map", u), Touch("on_save_or_open_errors", u, "write")>>

did_change_watched_files(u) ==
    <<OneOf({<<>>, reindex_from_disk(u),
             <<Erase("ast_map", u), Erase("doc_map", u), Touch("on_save_or_open_errors", u, "write")>>})>>
        \o IfProject(u)

did_change_workspace_folders(u) == <<Maybe(ensure_ast(u))>> \o reload_flsproject

pull_configuration(u) ==
    <<Answer, Maybe(<<Maybe(ensure_ast(u))>> \o refresh_ast_globals_and_diagnostics)>>

did_change_configuration(u) ==
    <<OneOf({pull_configuration(u) \o reload_flsproject,
             <<Maybe(ensure_ast(u))>> \o reload_flsproject \o refresh_ast_globals_and_diagnostics})>>

initialized(u) ==
    <<Send, Answer>> \o pull_configuration(u) \o reload_flsproject \o ensure_ast(u)

-----------------------------------------------------------------------------
\* Requests. Most take the Ast and the text of their file and keep both to the end.

Reading(u, rest) == <<Need("ast_map", u, <<Need("doc_map", u, rest)>>)>>

hover(u) == Reading(u, <<>>)
signature_help(u) == Reading(u, <<>>)
document_link(u, t) == Reading(u, <<Maybe(find_file(t))>>)
document_symbol(u) == Reading(u, <<>>)
selection_range(u) == Reading(u, <<>>)
folding_range(u) == Reading(u, <<>>)
document_highlight(u) == Reading(u, <<>>)
semantic_tokens_full(u) == Reading(u, <<>>)
inlay_hint(u) == Reading(u, <<>>)
code_action(u) == Reading(u, <<Touch("on_save_or_open_errors", u, "read")>>)
prepare_rename(u) == Reading(u, <<>>)
prepare_call_hierarchy(u) == Reading(u, <<>>)
outgoing_calls(u) == Reading(u, <<>>)

execute_command(u) ==
    <<OneOf({Reading(u, <<>>), refresh_ast_globals_and_diagnostics})>>

symbol == LET visit(u) == <<Touch("doc_map", u, "read")>> IN <<ForEach("ast_map", visit)>>
incoming_calls == LET visit(u) == <<Touch("doc_map", u, "read")>> IN <<ForEach("ast_map", visit)>>

completion(u, t) ==
    Reading(u, <<OneOf({<<>>, find_file(t) \o get_or_parse_ast(t, <<>>), <<ForEach("ast_map", Nothing)>>})>>)

goto_definition(u, t) ==
    Reading(u, <<OneOf({
        <<>>,
        find_file(t),
        find_file(t) \o get_or_parse_ast(t, <<Maybe(<<Need("doc_map", t, <<Return>>)>>)>>) \o find_file(t),
        <<Touch("doc_map", Std, "read")>>})>>)

\* Mutant: the client is told of the progress between the two looks.
ReferencesReporting(u) ==
    Reading(u, <<Drop("ast_map", u), Drop("doc_map", u), Send, Again("doc_map", u, <<>>)>>)

references(u) ==
    LET locate(o) == <<Maybe(<<Touch("doc_map", o, "read")>>)>>
    IN  Reading(u, <<Maybe(<<Return>>), Drop("ast_map", u), Drop("doc_map", u),
                     ForEach("ast_map", Nothing),
                     Each("ast_map", "keys", [o \in Uri |-> locate(o)]),
                     Again("doc_map", u, <<>>)>>)

rename(u, t) ==
    LET edits(o) == IF o = t THEN <<>> ELSE <<If("doc_map", o, <<Maybe(find_file(t))>>)>>
        defining == IF u = t THEN <<Maybe(<<Again("doc_map", u, <<>>)>>)>>
                    ELSE <<If("ast_map", t, <<Touch("doc_map", t, "read")>>)>>
    IN  Reading(u, <<Maybe(<<Return>>), Maybe(find_file(t)), Drop("ast_map", u), Drop("doc_map", u)>>
                       \o defining \o <<ForEach("ast_map", edits)>>)

\* What a handler does for a message about u whose symbol leads to t.
Steps(name, u, t) ==
    CASE name = "initialized" -> initialized(u)
      [] name = "did_open" -> did_open(u)
      [] name = "did_change" -> did_change(u)
      [] name = "did_save" -> did_save(u)
      [] name = "did_close" -> did_close(u)
      [] name = "did_change_watched_files" -> did_change_watched_files(u)
      [] name = "did_change_workspace_folders" -> did_change_workspace_folders(u)
      [] name = "did_change_configuration" -> did_change_configuration(u)
      [] name = "hover" -> hover(u)
      [] name = "signature_help" -> signature_help(u)
      [] name = "document_link" -> document_link(u, t)
      [] name = "document_symbol" -> document_symbol(u)
      [] name = "selection_range" -> selection_range(u)
      [] name = "folding_range" -> folding_range(u)
      [] name = "document_highlight" -> document_highlight(u)
      [] name = "semantic_tokens_full" -> semantic_tokens_full(u)
      [] name = "inlay_hint" -> inlay_hint(u)
      [] name = "code_action" -> code_action(u)
      [] name = "prepare_rename" -> prepare_rename(u)
      [] name = "prepare_call_hierarchy" -> prepare_call_hierarchy(u)
      [] name = "outgoing_calls" -> outgoing_calls(u)
      [] name = "execute_command" -> execute_command(u)
      [] name = "symbol" -> symbol
      [] name = "incoming_calls" -> incoming_calls
      [] name = "completion" -> completion(u, t)
      [] name = "goto_definition" -> goto_definition(u, t)
      [] name = "references" -> references(u)
      [] name = "rename" -> rename(u, t)

-----------------------------------------------------------------------------
Init ==
    /\ shard \in Hashes
    /\ \E indexed \in SUBSET (Uri \ {Std}) :
           present = [m \in {"doc_map", "ast_map"} |-> CASE m = "doc_map" -> indexed \cup {Std}
                                    [] OTHER -> indexed]
    /\ held = [w \in Worker |-> {}]
    /\ request = [w \in Worker |-> Idle]
    /\ todo = [w \in Worker |-> <<>>]
    /\ running = Idle
    /\ requests = 0

\* The shard of the key can be locked so, while the running handler has "own".
Free(map, key, mode, own) ==
    \A w \in Worker : \A g \in IF w = running THEN own ELSE held[w] :
        ~ /\ g.map = map
          /\ shard[map][g.key] = shard[map][key]
          /\ "write" \in {g.mode, mode}

Lockable(map, key, mode) == Free(map, key, mode, held[running])

Now(op) == running # Idle /\ todo[running] # <<>> /\ Head(todo[running]).op = op
step == Head(todo[running])
Then(steps) == todo' = [todo EXCEPT ![running] = steps \o Tail(@)]

Start ==
    /\ running = Idle
    /\ requests < MaxRequests /\ requests' = requests + 1
    /\ \E w \in Worker : request[w] = Idle
    /\ running' = CHOOSE w \in Worker : request[w] = Idle
    /\ \E name \in Requests, u, t \in Uri \ {Std} :
        /\ request' = [request EXCEPT ![running'] = name]
        /\ todo' = [todo EXCEPT ![running'] = Steps(name, u, t)]
    /\ UNCHANGED <<shard, present, held>>

Resume(w) ==
    /\ running = Idle /\ request[w] # Idle
    /\ running' = w
    /\ UNCHANGED <<shard, present, held, request, todo, requests>>

Found ==
    /\ Now("get") /\ step.key \in present[step.map]
    /\ Lockable(step.map, step.key, step.mode)
    /\ held' = [held EXCEPT ![running] =
                   @ \cup {[map |-> step.map, key |-> step.key, mode |-> step.mode, of |-> "get"]}]
    /\ Then(Append(step.found, Drop(step.map, step.key)))
    /\ UNCHANGED <<shard, present, request, running, requests>>

Missing ==
    /\ Now("get") /\ step.key \notin present[step.map]
    /\ Lockable(step.map, step.key, step.mode)
    /\ Then(step.missing)
    /\ UNCHANGED <<shard, present, held, request, running, requests>>

Change ==
    /\ \/ Now("touch") /\ UNCHANGED present
       \/ Now("insert") /\ present' = [present EXCEPT ![step.map] = @ \cup {step.key}]
       \/ Now("remove") /\ present' = [present EXCEPT ![step.map] = @ \ {step.key}]
    /\ Lockable(step.map, step.key, IF step.op = "touch" THEN step.mode ELSE "write")
    /\ Then(<<>>)
    /\ UNCHANGED <<shard, held, request, running, requests>>

Release ==
    /\ Now("drop")
    /\ held' = [held EXCEPT ![running] =
                   {g \in @ : g.map # step.map \/ g.key # step.key \/ g.of = "each"}]
    /\ Then(<<>>)
    /\ UNCHANGED <<shard, present, request, running, requests>>

Iterate ==
    /\ Now("each")
    /\ Then(<<[op |-> "visit", map |-> step.map, mode |-> step.mode, body |-> step.body,
               left |-> present[step.map]]>>)
    /\ UNCHANGED <<shard, present, held, request, running, requests>>

\* The guards but that of the entry a visit comes from; the order of the entries
\* is the map's own.
Passed == {g \in held[running] : g.map # step.map \/ g.of = "get"}
Visited == CHOOSE u \in step.left : TRUE

Visit ==
    /\ Now("visit")
    /\ IF step.left = {} THEN Then(<<>>) /\ held' = [held EXCEPT ![running] = Passed]
       ELSE LET guard == [map |-> step.map, key |-> Visited, mode |-> step.mode, of |-> "each"]
            IN  /\ step.mode # "keys" => Free(step.map, Visited, step.mode, Passed)
                /\ held' = [held EXCEPT ![running] =
                               Passed \cup IF step.mode = "keys" THEN {} ELSE {guard}]
                /\ Then(Append(step.body[Visited], [step EXCEPT !.left = @ \ {Visited}]))
    /\ UNCHANGED <<shard, present, request, running, requests>>

Decide ==
    /\ Now("one_of")
    /\ \E branch \in step.branches : Then(branch)
    /\ UNCHANGED <<shard, present, held, request, running, requests>>

Await ==
    /\ Now("answer") \/ Now("send")
    /\ Then(<<>>)
    /\ running' = IF step.op = "send" /\ ~SendMaySuspend THEN running ELSE Idle
    /\ UNCHANGED <<shard, present, held, request, requests>>

\* The end of a handler drops what it still holds.
End ==
    /\ running # Idle /\ (todo[running] = <<>> \/ Now("return"))
    /\ held' = [held EXCEPT ![running] = {}]
    /\ request' = [request EXCEPT ![running] = Idle]
    /\ todo' = [todo EXCEPT ![running] = <<>>]
    /\ running' = Idle
    /\ UNCHANGED <<shard, present, requests>>

Step ==
    \/ Found \/ Missing \/ Change \/ Release \/ Iterate \/ Visit \/ Decide \/ Await \/ End

Next == Start \/ (\E w \in Worker : Resume(w)) \/ Step

Spec == Init /\ [][Next]_vars

-----------------------------------------------------------------------------
\* The running handler finds the shard it needs locked: it spins, and with it
\* the server.
Waits ==
    \/ (Now("get") \/ Now("touch")) /\ ~Lockable(step.map, step.key, step.mode)
    \/ (Now("insert") \/ Now("remove")) /\ ~Lockable(step.map, step.key, "write")
    \/ /\ Now("visit") /\ step.left # {} /\ step.mode # "keys"
       /\ ~Free(step.map, Visited, step.mode, Passed)

\* No handler comes to an operation on a map while its shard is locked against
\* it ("Drop DashMap guards before iterating the map mutably (avoids deadlock)",
\* definition.rs).
NeverWaits == ~Waits

\* A handler that waits is a completion or a jump to a definition that loads the
\* file of a require while it holds its own file's guards: nothing else, and no
\* guard of another handler, stops the server.
OnlyLookupsWait ==
    Waits => /\ request[running] \in {"completion", "goto_definition"}
             /\ step.op = "insert" /\ held[running] # {}
             /\ \A w \in Worker \ {running} : held[w] = {}

\* Whoever gives the task up has dropped its guards (lifecycle.rs: "release it
\* before awaiting"; compute_diagnostics does not await for that reason).
NoGuardAcrossAwait == \A w \in Worker : w # running => held[w] = {}

\* What references and rename found before they dropped their guards is still
\* there when they look again.
FoundAgain == (Now("get") /\ step.again) => step.key \in present[step.map]
=============================================================================
