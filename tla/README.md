# TLA+ models of the Fennel language server

This directory models `fennel-language-server` (crates under `src/crates/`): a
tower-lsp server that keeps the text and the syntax tree of every Fennel file it
knows, serves editor requests from them, and publishes diagnostics. The modules
are translations of the Rust code; comments name the function each definition
stands for and `PROJECT.json` ("map") gives the lines.

## The system

| component | state | operations | what makes it correct |
|---|---|---|---|
| document store (`main.rs` `Backend`, `providers/lifecycle.rs`) | `doc_map`, `ast_map`, `open_docs`, `on_save_or_open_errors` | did_open, did_change, did_save, did_close | an open buffer is served as the editor has it; text and Ast belong together |
| disk index and watchers | the same maps, `workspace_map` | register_file_watchers, did_change_watched_files, index_workspace_folder, get_or_parse_ast, did_change_workspace_folders | entries of closed files follow the disk; no file is missed; open buffers are never clobbered |
| configuration and globals (`config.rs`, `editing.rs`) | `config`, `globals_cache`, the globals inside each Ast | pull, push, addGlobal, recompute_globals, refresh | the last setting wins and reaches every Ast and every shown diagnostic |
| project file (`flsproject.rs`) | `config.fls` | reload_flsproject, parse_and_validate_flsproject | the open buffer's settings, otherwise the file's, are in force |
| diagnostics | what the client shows | compute_diagnostics, publish_diagnostics | the last published set is the one the present text and settings call for |
| lexer (`lexer.rs`) | the rest of the text, one character read ahead | next_token, validate_symbol | tokens lie where their ranges say; a name that is accepted stays one token where it is written |
| parser (`parser.rs`, `parser/*.rs`) | rule stack, token queue, tree builder, `nesting_depth` | parse, recover_error, synchronize | every input ends in a balanced tree that holds the whole text |
| AST, scopes and binding (`ast.rs`, `ast/bind.rs`, ...) | tables of bindings and uses | bindings, l_or_r_symbols, definition, reference, unused | a use goes to the binding in force where it stands |
| macro expansion, eval, error passes (`ast/*.rs`) | none that outlives a parse | | pure functions of the tree |
| requests (`providers/*.rs`) | the guards they hold | completion, definition, references, rename, hover, symbols, hierarchy | what was found under a guard is still there after it; nobody waits for himself; a rename keeps meaning |
| module resolution (`main.rs`) | none | uri_to_module_name, find_file | a file's name leads back to it, in any order of the folders |
| positions, semantic tokens (`helper.rs`, `semantic_tokens.rs`) | none | conversions, delta encoding | bytes, characters and UTF-16 units stand for the same places |
| dispatch (tower-lsp, external) | handlers in progress | start in message order, poll on one task | |

They interact as follows. The client sends notifications and requests over one
stream. tower-lsp starts their handlers in order, holds at most four at a time
and polls all of them on one task: a handler runs until it awaits the client.
Two kinds of await exist. Awaiting an answer (`client.configuration`,
`client.register_capability`) gives the task up, and other messages are handled
meanwhile. Awaiting a send (`log_message`, `show_message`, `publish_diagnostics`) may do so
too: the pinned tower-lsp 0.20 sends over a futures channel with one place, in which
the message is queued at once and the sender is held back while an earlier one is
unread. So notifications reach the client in the order in which they are sent, and
after any send other handlers may run before the rest of the sender. Whether that
happens depends on how fast the client's stream takes messages, and the models leave
it open at every send. All handlers share the maps of `Backend`; the disk is read
synchronously.

The hard behaviour is therefore: handlers interleaved at every await, sends included, over shared
maps; settings that arrive late; file events that race registration, indexing,
opening and closing; the order of publishes; and, in the parser, recovery from
any malformed input. `PROJECT.json` ("hazards") lists these at their lines.

## Modules

* `Backend` — the data (`Ast`, `Configuration`, settings, diagnostics) and the
  synchronous helpers. A text is an opaque value; constant functions say which
  names it leaves undefined, which lints it has and, read as a project file,
  what it sets. Globals and lints are small sets, so an undefined-name error is
  a name and positions are left out.
* `LanguageServer` — extends `Backend`. One variable per field of `struct
  Backend`, the handlers in progress (`handlers`, with a program counter and the
  locals that survive an await), the task (`current`), both directions of the
  connection (`inbox`, `replies`), and the client with its editor, disk,
  settings and watcher. One action is the code between two points where the task
  may change hands: e.g. `did_open` runs up to its publish, the publish included, and
  `did_open_cache` is the rest. `Continue` says whether the handler keeps the task;
  after a send it may or may not. Two variables are about the past only and
  nothing but the properties reads them: `overtaken` (below) and `reconfigured`, that
  the configuration has changed since `initialize`.
* `DocumentSync` — what the server promises an editor about documents, in terms
  of buffers, notifications and texts alone; `LanguageServer` implements it (see
  "The refinement").
* `LanguageServer_proofs` — extends `LanguageServer` and `TLAPS`: types and the
  agreement of the caches. On it stand `LanguageServer_sync_proofs` (documents and
  the refinement) and `LanguageServer_settled_proofs` (globals, diagnostics, the index,
  project and user settings). See "Proofs".
* `DataFacts` — what the proofs need of numbers and sequences: a set of naturals
  that is not empty has a least element, one that holds 0 and every successor of a
  member holds them all; lengths and elements of tuples, joins and suffixes of
  sequences of anything; that a fold over a set or a sequence has a value.
* `MCLanguageServer` — the values TLC uses.
* `Grammar` — what the parser is driven by: the rules of `bnf.rs`, the
  productions of `parser.rs`, the token sets of `sets.rs` and `syntax.rs` and the
  hand-written first sets. Constant operators only.
* `Parser` — `Parser::parse` as a state machine over its rule stack, token queue,
  tree builder, errors and `nesting_depth`, one action per early return of
  `parse_inner` and `recover_error`. `Branch` is the order of those returns, so
  the parser is deterministic in a text; `synchronize` is a loop inside one call
  and here takes one step per token (`skipping`, `depth`). A position is a token's
  number, the tree is the sequence of the builder's calls.
* `Parser_proofs` — extends `Parser`: every safety property that is about its states.
* `MCParser` — all texts over some tokens. `MCSentences` — the sentences of the
  grammar, derived rule by rule from the productions alone and then parsed,
  whole or with one token lost or put in.
* `MapGuards` — every handler as the list of its operations on `doc_map`,
  `ast_map` and the stored errors, with the guards it holds meanwhile. A DashMap
  is a set of shards, each a reader-writer lock, and which keys share a shard is
  an input. `MCMapGuards` — every request against every other. `MapGuards_proofs` —
  its three invariants, for any files, hashes and number of messages.
* `Positions` — the five conversions of `helper.rs` over ropey's, which is
  external; a text is a sequence of characters that differ in their widths.
* `Lexer` — extends `Positions`: a text, what is left of it, the tokens so far;
  one action per call of the lexer, and one for an editor that applies a rename
  and has the text lexed again. `Lexer_proofs` — the places of its tokens, what a
  rename leaves of them, the conversions of `Positions` and the highlights of
  `SemanticTokens`, for every text.
* `SemanticTokens` — extends `Lexer`: the answer to a request for highlights and
  the editor's reading of it. `MCText` — all short texts.
* `Selection` — `Filter`, which is `SelectSeq` by a definition that the provers can
  use.
* `Modules` — the two directions between files and module names. A directory is
  a sequence of names; the order in which the map visits folders is an input.
* `Scopes` — a program that grows form by form, the tables the AST passes compute
  from its finished tree, and (`env`) the symbol table one would keep while
  reading it, against which they are held. `Navigation_proofs` — the two
  directions of `Modules`, for any folders, and both invariants of `Scopes`, for
  programs of any length.
* `Rename` — extends `Scopes` and `Modules`: what a symbol stands for, definition,
  reference and rename across two files, and the editor applying the edits.
  `MCNavigation` — all small programs beside a module, and all small workspaces.

### The refinement

`Sync` in `LanguageServer` instantiates `DocumentSync`: the buffers are the
editor's (`buffer <- editor`), the files taken for open are `open_docs`, the text
held is `doc_map`. `said` has a queue for each file: the notification of a handler
that has been started and has not got to its write, then those of the messages in
`inbox` (`Unheard`), each as the buffer's new text (`Said`). So did_open, did_change and
did_close each refine `Hear` at the step that writes the maps, the client's Open, Edit
and Close refine `Say`; watched changes, indexing, lookups and folder changes refine
`Read` (which may not touch an open file), and everything else stutters. An edit is a
range and a text; that applying it to `doc_map` gives the text the editor has is what
`Hear` asks of did_change, and what a did_change that met another base would break.

The promise has an end. `did_open` awaits two sends: that of its log, before it has
stored anything, and that of its publish, between the text and the Ast. While it waits
there another handler may do work on the same file, and what the server holds may be
wrong from then on (`open_buffers` shows it). `Overtakes` says exactly which steps
these are: one that starts to handle the next notification about the file; or, at the
publish, one that reads the file from disk because it has no Ast, that gives the Asts
new globals, or that publishes the file's errors in a refresh. A file that this
happened to is in `overtaken`, which is the variable `lost` of `DocumentSync`: a step
that refines `Read` may lose files, and nothing is promised of a lost one. For all
other files the properties hold at every interleaving.

### How code maps to actions

Handlers: `did_open`, `did_change`, `did_save`, `did_close`,
`did_change_watched_files`/`WatchedFile` (one step per changed file),
`did_change_workspace_folders`, `did_change_configuration`, `add_global`
(the `fennel.addGlobal` command), `lookup` (`get_or_parse_ast` on behalf of any
request), `register_file_watchers`/`Registered`/`initialized_index` (the parts
of `initialized`). Called from several of them: `pull_configuration` and
`apply_pulled_configuration`, `reload_flsproject` and `ReloadPublish`,
`refresh_ast_globals_and_diagnostics` and `PublishEach`. A call is a jump of the
program counter, and `ret` and `AfterReload` say where it comes back.
`Start`, `Resume`, `Answer` are the transport; `Open`, `Edit`, `Save`, `Close`,
`ExternalChange`, `ChangeSettings`, `AddGlobal`, `Lookup`, `ChangeFolders` and
`ReportChanges` are the client and the file system, which are outside this
repository and modelled from what the handlers assume of them.

Choices worth knowing:

* `initialize` is the initial state: its folders and options are stored, and it
  does not recompute the globals: until the configuration first changes the cache
  may have the standard library's names alone (`{}` here).
* A map without an order (`DashMap`) is a nondeterministic choice: the order of
  publishes, and which project file is taken.
* An edit that meets another text than it was made to yields any text, and
  `EditsMeetTheirBase` says it never happens.
* `Configuration::deserialize` never fails, so the error branch of
  `did_change_configuration` is not an action.
* The reply to a request is read from the same stream as the messages, so it
  wakes its handler before handlers of later messages are first polled.

## Runs

The runs of `LanguageServer` use two slots (one more than needed for
interleaving; the code has four), two or three files, two texts that differ in
every respect the server can tell, and a bound `MaxOps` on client operations; the
server's steps are unbounded. `CHECK_DEADLOCK FALSE` because the client may stop
at any time and, after `MaxOps` operations, does; the other runs say it where all
requests have been answered, a parse has ended or a program may not grow.

| run | bounds | what it asks |
|---|---|---|
| `documents` | 1 source file, 1 project file, 3 operations among open, change, save, close, disk | does the server implement `DocumentSync`, do all caches follow the right one of editor and disk, and do shown diagnostics match them |
| `configuration` | 3 operations among open, change, settings (two different ones, pushed or only announced), addGlobal; fairness | does every change of the configuration reach the globals, the Asts and the diagnostics, does no late answer undo it, does the open project's file win, and is everything handled |
| `workspace` | 3 files, 2 folders, 3 operations among disk, settings, folders, lookup; requests to the client may fail | is no file missed and no entry stale |
| `open_buffers` | 2 operations among open, change | expected to fail: see below |
| `project_edits` | 3 operations among open, close, disk | expected to fail: see below |
| `parser_texts` | every text of up to 4 tokens of 8 kinds (symbols good and bad, `:into` and `&into`), limit 2, fairness | does the parser end, hold the whole text and report what it passes over |
| `parser_sentences` | every list of up to 11 tokens derived for 9 heads, and every call of up to 9; those of up to 8 tokens for four of them also with one token lost or put in; limit 4 | is what the productions derive parsed without an error, and does recovery keep tree and counters right and skip to the right place |
| `parser_depth` | texts of up to 4 tokens, limit 2 | expected to fail: see below |
| `guards` | 3 messages of 28 kinds, two in progress, every map of three keys to two shards | who can wait for whom, who holds a guard over an await, is what was found still there |
| `guards_lookup` | 1 message | expected to fail: see below |
| `text` | every text of up to 3 of 22 characters, 4 of 8, 4 of the 6 that numbers are made of, 5 of 5; any rename to 18 new names | do tokens, positions and highlights lie where they say, does an accepted rename leave the other tokens alone |
| `navigation` | every program in 14 forms of up to 6 nodes and 4 names, 8 together (7 with a rarer form), over two names, a field and a module; every pair of files in nine directories under up to three folders in any order, with and without a library; the default search paths, with a pattern of two `?`, one with `?` inside of a name and an absolute one | does a use go to the right binding, does a rename keep meaning, do names and files lead to each other |

Why the bounds suffice: every property relates one file (and at most one project
file) to the configuration, and the shortest violation of each by a plausible
bug (the mutants in `PROJECT.json`) takes at most three operations, while the
runs interleave them with the start-up sequence of `initialized`, whose two
awaits let every message arrive before, between and after.

`open_buffers` finds that an open buffer is not always served. `did_open` logs before it
stores the text (lifecycle.rs:169). If that send has to wait, the `did_change` that
follows is started on the same task, finds no document and returns, or finds the text
that background indexing has read and applies the edit to that; `did_open` then
stores the older text. The comment at lifecycle.rs:261 calls the editor "the source of
truth" for open buffers. The same happens at its publish (lifecycle.rs:180), where the
late `ast_map.insert` overwrites a newer Ast or brings back that of a closed file. The other
runs have the same interleavings and ask what holds in spite of them: all files that
are not `overtaken` are right at every moment; with overtaken files or without, the
globals and the settings come out right and everything is handled.

That a publish waits needs no exception of its own. A set of diagnostics is computed and queued without
an await in between, so what a publish says is true when it is sent, and the queue
keeps the order; what can come late is only the rest of a refresh, which computes its
next set from the maps of that moment (`DiagnosticsAreCurrent`).

`project_edits` finds a disagreement with `README.md` ("edits made outside the
editor are picked up"): a project file changed on disk while open and then
closed keeps the settings of the closed buffer, because the watched change is
skipped for an open file and `did_close` does not reload.

`parser_depth` finds that a comment in `parser.rs` says more than the parser
does: `nesting_depth` is not the number of open lists after `early_close`, which
pops lists without counting them down; errors add up until lists are refused that
are not deep at all. Two smaller things of the kind show in the module. The list
that reaches `MAX_NESTING_DEPTH` is counted before its own opening is tested, so
it is refused too (parser.rs:128). And whitespace before a closing delimiter is
eaten while an optional rule is pending and ends up as a node's last child,
against parser.rs:149.

`guards_lookup` finds that completion and goto_definition hold guards of their
own file while `get_or_parse_ast` inserts another one: if both keys fall into one
shard the handler waits for itself, and with it the server. `guards` says that
this is the only place: with three messages in any interleaving only those two
handlers ever wait (`OnlyLookupsWait`), no guard is kept over an await of the
client (`NoGuardAcrossAwait`), and what references and rename look up again after
dropping their guards is still there (`FoundAgain`). Two messages in progress and
two shards suffice because a guard is held by one handler against another or
itself; the third message meets what the first two left.

In `text`, three characters hold every pair with something before or behind it,
which is as far as the lexer reads ahead; the longer texts are for escapes,
comments, line breaks and numbers. `RE_INTEGER` and `RE_FLOAT` are the whole expressions,
with one character for the digits 1 to 9 and one for the letters a to f other than e.
`RenameKeepsTokens` has one exception, which the model found: `validate_symbol` lets the
name `0x` through, and before a field that begins with a digit it is read with that
as a number (`x.1` becomes `0x.1`, a FLOAT); so with a sign in front. `PositionsAgree`
leaves out texts with U+2028, which is a line break for ropey's default features and
not for the protocol; a position behind the end of the document panics in ropey (`Panic` in
`position_to_char_idx`), and no editor sends it. Highlight columns are counted in
characters where the protocol counts UTF-16 units, and `HighlightsMatchTokens`
reads them so. The differences are unsigned in the code, which is why it asks that
none be below zero: unsorted parts would be sent as huge numbers.

In `navigation`, eight nodes and names together (`MaxSize`) hold a binding, a
shadowing one and a use; seven (`MaxRareSize`) hold for each of the rarer forms a
binding and a use inside or behind it, and a `catch`. `lambda`, `collect` and
`icollect` are modelled and, binding as `fn` and `each` do, left out of the run.
`NearestIsMostRecent` has one exception: a binding made inside the value of the latest
one and outliving it (a global in a local's value) comes before it. `RenameKeepsMeaning` is stated for a new name that occurs
nowhere, in programs without overlapping scopes of one name and without a field
of a module bound again under another name, since there the code is less careful.
What it does not look at:

* `reference` takes every use of the name in a binding's scope, those of an inner
  binding of the name too;
* a symbol bound to a field of a module is renamed along with the field, whatever
  its own name, and may then capture;
* renaming a name taken out of a module (`{: f}`) changes the key here and not the
  module; renaming a field of a local table renames the table; at the name of
  `(fn m.f ...)` the whole dotted name is replaced; `m.g.f` counts as the `f` of `m`;
* that the new name is free is not checked.

`NamedFromInnermostRoot` leaves out the `init.fnl` of a folder itself. The comment on
`module_name_from_relative` (main.rs:1082) says that it has no name in that folder, so
that an outer one would name it; the code strips `/init` only behind a directory and
calls it `init`. The model has what the code does.

A search pattern is cut into its names before it is used: `Substituted` gives its path
with the module in place of each `?` and its slashes (`str::replace` and `Path`, of the
standard library), and `MCNavigation` writes that out for patterns with several `?`,
with one inside of a name, and with a root in front. A pattern can make any file out
of a name, so `ImportsAreFound` concludes that the file is found or that a pattern made
another one out of its name that exists. It is about a file that is in every folder
the other one is in and whose last name is unique: a module of a nested folder is
offered to the outer one under a name that is not found from there, and between nested folders
`find_file` takes the first in the map's order, which `uri_to_module_name` takes
care not to (main.rs:392). The import binds the export's name to the whole module.

For the parser, texts of four tokens reach every branch of `recover_error`
(limit 2 makes refusal common), and damaged sentences (limit 4) reach the recoveries that
need a form around them; a symbol stands for any expression in the sentences, and
eleven tokens hold each of their forms at least once with a body; a call has no form of
its own and needs nine to hold another one. `each`,
`collect` and `icollect` are not among the forms: their lists of patterns are
told from the iterator by two tokens, which a sentence with an empty table or a
list for a pattern, or with a clause after a symbol, misleads (listed under
"hazards", as is that `synchronize` does not count the opening it may be called
after). The parser's fairness is that of a loop that keeps running.

Fairness: `WF` on each slot's `ServerStep` (tokio polls a ready task), on
`Answer` (a client that answers every request) and on `ReportChanges` (a client
that reports what it was asked to watch). The user's operations are not fair.
`EverythingIsHandled` needs no strong fairness: a handler that is ready and loses the
task to another one loses it to steps that bring the other to its end, and there are
only finitely many messages.

## Proofs

The theorems hold for every value of the constants that `BackendAssumption` and
`LanguageServerAssumption` allow: any number of files, project files, folders,
texts, globals and slots, any bound `MaxOps`; for the parser, any set of texts of
any length and any limit (`ParserAssumption`); for the lexer, any set of texts of
any length and any new names (`LexerAssumption`: characters are strings, and what
`peek` holds when it holds nothing is none; `PositionsAssumption`: an answer that is
no position is no number); for the guards, any files, project
files and messages and any way to hash keys to shards; for names, any search paths,
whatever their patterns make of a name (`ModulesAssumption`), and any layout of folders,
libraries and files (`IsLayout`).
They cover the refinement and every invariant of `LanguageServer`, `Parser`,
`MapGuards`, `Lexer`, `Positions`, `SemanticTokens`, `Modules` and `Scopes` that the
runs find true.

| theorem | states | besides the assumptions on constants |
|---|---|---|
| `TypeCorrect` | `TypeOK` | |
| `CachesStayInAgreement` | `CachesAgree` | |
| `EditsMeetBase` | `EditsMeetTheirBase` | |
| `EditorTextServed` | `EditorTextIsServed` | |
| `ServerKeepsDocumentsInSync` | `KeepsDocumentsInSync` | |
| `GlobalsStayCurrent` | `GlobalsCacheIsCurrent` | |
| `StoredErrorsStayApplicable` | `StoredErrorsApply` | |
| `DiagnosticsStayCurrent` | `DiagnosticsAreCurrent` | |
| `IndexKeepsUp` | `IndexFollowsDisk` | |
| `IndexCovers` | `IndexCoversWorkspace` | the client closes no file |
| `ProjectSettingsCatchUp` | `ProjectSettingsSettle` | |
| `UserGlobalsWin` | `UserGlobalsAreInForce` | the client answers `workspace/configuration`, and does not fail to |
| `DepthStaysBounded` | `DepthIsBounded` (parser) | |
| `TypesHold` | `TypeOK` (parser) | |
| `TreeStaysBalanced` | `TreeIsBalanced` | |
| `OpenListsStayCounted` | `OpenListsAreCounted` | |
| `TreeStaysLossless` | `LosslessTree` | |
| `ErrorsStayReported` | `ErrorsAreReported` | |
| `AcceptedStaysPaired` | `AcceptedIsPaired` | |
| `FirstSkipsEndTheirList` | `FirstSkipEndsItsList` | |
| `TokensStayThePlaces` | `TokensAreThePlaces` (lexer) | |
| `RenamesKeepTokens` | `RenameKeepsTokens` | |
| `PositionsStayInAgreement` | `PositionsAgree` (positions) | |
| `HighlightsStayOnTokens` | `HighlightsMatchTokens` (semantic tokens) | |
| `GuardsGoBeforeAwaits` | `NoGuardAcrossAwait` (guards) | |
| `OnlyLookupsEverWait` | `OnlyLookupsWait` | |
| `SecondLooksFind` | `FoundAgain` | |
| `NamesStartInnermost` | `NamedFromInnermostRoot` (modules) | |
| `ImportsLeadBack` | `ImportsAreFound` | |
| `EnvIsInForce` | `ScopeInv`, the invariant below | |
| `SearchFindsMostRecent` | `NearestIsMostRecent` (scopes) | |
| `UnusedIsUnused` | `UnusedHasNoUse` | |

In all of them any send may suspend its handler. The hypotheses of `UserGlobalsWin` are
those of the run that checks it: a client that cannot be pulled from and only announces
a change, or one that fails to answer, leaves the server with what it had. So is that
of `IndexCovers`: `did_close` forgets the file, and nothing reads it again until the
disk changes or a request looks it up, so the statement is false for a client that
closes files.

### Types and caches (`LanguageServer_proofs`)

`TypeOK` alone is not inductive: a step uses the locals of a handler according to
its program counter (a `did_open` handler has a message with a text, one that has read
the project file has a file and a text). The invariant is `TypeInv`, which adds
`HandlersInv`: per program counter, which message and which locals the handler holds.

Who may be where at the same time is `TurnsInv`. At the points that a handler reaches
and leaves without a send in between (`AtOnce`) it has the task; and about a document
that is not overtaken at most one handler at a time has begun a notification, or still
has its Ast to cache (`OneAtATime`), since only the sends of `did_open` let another one
begin, and that one overtakes.

`CachesAgree` follows from `CachesInv`: a document and its Ast agree and nobody is
opening it, or the handler that opens it holds the Ast of the text that the server
has, under the globals in force (`HoldsAst`). What disturbs that from another slot is
exactly what counts as overtaking (`OthersSpareOpening`).

### Documents and the refinement (`LanguageServer_sync_proofs`)

That an edit meets its base is about the whole past of a file: what the editor had
when it made the edit, and every notification between that and the present. The
invariant therefore gives every file that is not overtaken a view of its future
(`Chain`): a text for each place in the inbox, the last of which is what the editor has,
where each message makes of the text before it the one behind it (`Becomes`), an edit
was made to the text before it, and what is saved is open (`Meets`). It starts from
what the server holds, or from what a handler that has begun a notification and not got
to it will make of that (`StartsAt`); there is one such handler at most, by `TurnsInv`. A
client step appends to the view, a handler that starts takes its first place away;
nothing else may touch an open file. `SyncInv` is this with `Held` (an open file has a
text).

`ServerKeepsDocumentsInSync` has one step per action: it maps to the step of
`DocumentSync` named above or to a stutter. `said` is a join of what the messages say of a
file, so a step of the proof compares two joins; a step in which a file is overtaken
maps to a `Read` that loses it.

### Globals and diagnostics (`LanguageServer_settled_proofs`)

`GlobalsInv`: the globals are those of the configuration, or some handler owes a
refresh (`Owes`, a property of its program counter). It holds however handlers
interleave, because a handler owes the refresh from the step that changes the
configuration on. `GlobalsCacheIsCurrent` excepts such a handler (`WillRecompute`); the one
place that it does not name, `reload` after a pushed configuration, has the task, because
no await lies between.

`ShownInv` has, for each file that is not overtaken, a part per way a published set can
become stale: errors kept from the last open or save apply (`StoredOf`), between the two
halves of `did_open` they are already those that its handler will set (`OpeningOf`), and
what was published last is what the file calls for, or some handler will publish it
again (`ShownOf`, `Due`).

### The index (`LanguageServer_settled_proofs`)

`IndexInv`: a cached file that is neither open nor unwatched is as on disk, or a
change of it is on its way: at the client, in a message, or among those the handler
of the message has left. A file that is closed is forgotten, so nothing stale stays
behind; what was read is what was on disk then, and what changes it afterwards
reports a change.

That the index misses no file needs the order in which a file is created and deleted,
for a deletion that is gone through after a later creation would drop the file for
good. `CoverInv` says of a client that watches and closes nothing:

* every file on disk below a folder or a library is `Covered`: it has an Ast, or is
  open (and gets one, by `OpenInv`), or a creation of it is on its way, or the
  handler of `initialized` has still to index the folders (`WillIndex`);
* behind every deletion on its way of a file that is on disk there is a creation of it
  (`DeletionsUndone`): in the same report, in a later one, or at the client;
* a file that is not open and has a text has an Ast (`TextsHaveAsts`), without which
  the creation of a cached file would add nothing.

`OpenInv` says what of an open file holds whether it is overtaken or not: it has a text,
and lacks an Ast only while a handler is about to cache it. Before the client watches,
nothing is reported (`NothingReported`), and it begins to watch while the handler that
is going to index waits for it (`InitializedRegisters`): there the first clause begins
to hold, whatever was created before. Reports keep their order because only one handler
at a time goes through changes, and it has the task (`WatchersAlone`). A folder that is
added later is read by the step that adds it.

### Settings (`LanguageServer_settled_proofs`)

`ProjectInv`: while the only project file is open, its buffer's settings are in
force or a handler is on its way to `reload_flsproject` (`WillReload`). Of several
project files `reload_flsproject` takes any, and closing one of them does not
reload, so with several of them no such statement holds, and the property is
about a workspace with one.

`UserInv` follows the last change of the user's settings: either the last waiting
message that brings settings brings the present ones (`LastBrings`), or none waits,
every answer and every handler with settings still to apply holds the present
ones, and they are configured unless a handler is still pulling or about to. A
pushed change is applied by the step that follows its start, and a pull is answered
from the settings of that moment, so nothing older can come later.

### The parser (`Parser_proofs`)

`DepthIsBounded` is inductive by itself, but the step that counts a list up needs
that it is taken below the limit: `OpeningsBegin` (only the opening token is in an
opening's first set), `ExpansionFits` (an expansion that starts with an opening was
chosen at one; the choice of the first alternative needs `LeastExists`) and
`ExpandsBelowTheLimit` (such a token is refused at the limit).

The other proofs share `ShapeInv`: the queue is as long as what is left of the text
and its end is its own (`QueueInv`), the root is at the bottom of the stack and a
list points at what was read (`StackInv`), the tree and the errors are about what
was read (`TreeInv`). `TypeOK` follows from it and is too weak by itself: that an
error lies in the text needs that the token read does. Two facts about the grammar
are checked production by production: an alternative is some rules without
delimiters, or such rules between an opening and its closing (`IsProduction`). On the
stack a step is one of three things: it leaves it, pops rules (`Pops`), or replaces
the first one by an expansion, its close and what is left of it (`Pushes`); to the
tree it adds calls of which `Makes` counts the starts and the finishes. So

* `TreeIsBalanced` and `OpenListsAreCounted` compare two changes of a cardinality:
  closes that leave the stack and finishes that are made, lists that leave it and
  levels that are given back. `early_close` gives back none, so the counter is only
  an upper bound, as `parser_depth` shows;
* `LosslessTree` says that the step that reads a token puts it into the tree or, if
  it refuses it, among the errors;
* `ErrorsAreReported` needs `SkipInv`: while `synchronize` passes over tokens, an
  error is the last thing in the tree but whitespace and comments, so what it adds
  is excused by what it follows.

`AcceptedIsPaired` is about the whole text, and its invariant `PairSteps` about every
prefix. As long as there is no error, the closings among the rules of the stack, from
the top, are those the text read so far leaves open (`PairInv`; `Pending` says it by
an enumeration of their places, and the opening that an expansion is about to read is
the one exception). That needs: a rule for a delimiter is met once, never repeated or
optional, and one for an opening is on top (`RuleInv`); relabelling `:into` changes no
delimiter (`TextInv`); nothing is skipped and all is read before the stack is empty
(`EndInv`). `OpenAfter` is a recursive function; what it gives for a prefix, and that
it only depends on the delimiters, is an induction along the text by `Induction` of
`DataFacts`.

`FirstSkipEndsItsList` goes on from there into the skip that follows the first error.
Up to that error the rule for a closing lies on the end of its list (`ListsEnd`), and
what was open where that list began are the closings below it (`PlaceInv`).
`synchronize` leaves the stack alone, and its counter is the number of lists opened
and not closed since the token in error (`Above`), or a closing has been met that does
not fit (`Broken`), which no later token repairs (`FirstSkipInv`). So it stops where
exactly the closings of the stack are open, the first of them is read, and the rest is
what was open where the list began; that two enumerations of the same closings are
the same is `BelowIsUnique`. If the error is itself an opening, `Above` is off by one
from the start: `synchronize` does not count the token it is called after, which is
why the property leaves that case out (listed under "hazards").

### The lexer and positions (`Lexer_proofs`)

`TokensAreThePlaces` is about bytes, and the lexer counts them token by token, so the
proof rests on two folds: `Width` adds up along a join (`Utf8Width`) and `FlattenSeq`
of one text more is a join (`FlattenOneMore`). Both folds are recursive functions of
the community modules. That they are defined at all, and that they are the last of
the sums or joins of the prefixes (`Sums`, `Joins`), is an induction along the text by
`Induction` of `DataFacts`.

`Reads` is what a read of a token promises: the token's text and what the lexer has
left, in `peek` and in its source, are what it had left before, and the range is as
wide as the text. There is a lemma for each kind of token; they end in `TakeReads` (up
to a place, nothing peeked at) or `PeekReads` (one character more is taken out of the
source, and put into `peek`), which are about where a text is cut. The word behind a
dash is the one that puts a character back. A comment's end needs that no character
is `None`, or the end of the text would count as half of a line break.

`CutInv` says that the texts of the tokens and what the lexer has left are the text,
`PlaceInv` that each token starts where the last one ended and the lexer's offset is
behind the last. A rename replaces the whole text, by the join of texts again, and
starts over.

`RenameKeepsTokens` says that writing another name into a text and reading the text
again does not touch its neighbours. The lexer is a loop with a place that it can
look one character ahead of, so the proof first says what a token is without it:
`ReadOff` gives, for each kind, the characters of a token and the one that ended it.
`NextBegins` is that the lexer reads such a token, whatever it peeked at and put back.
Two facts about `ReadOff` carry the rest. A text begins with one token only
(`BeginsOnce`). What it begins with depends on the characters of the token and on the
class of the next one (`ReadLocally`), and all characters that words consist of are in
one class, so the token before a renamed symbol ends where it did. A name that
`validate_symbol` lets through is one word and a symbol (`ValidIsName`), and still is
with the field names of the old symbol behind it, which the rename keeps
(`RenamedIsName`; that they would make it a number is the case of `HexFraction`, and no
other, by `NoNumber`).
`CutRenamed` puts the three parts of the new text together. The invariant is `KeepInv`: the tokens found are those
that the text begins with, one behind the other (`FreshInv`), and after a rename the
tokens expected are those of the new text, of which a prefix has been found
(`ExpectedInv`); no token before the last is the end. That `TABLE` is a function over
the words it has, rather than a chain of `@@`, is for the provers.

`PositionsAgree` is about a text alone, so its proof is that of `PlacesAgree`, for any
text without line separators. Bytes and UTF-16 units grow strictly with the place
(`BytesGrow`, `UnitsGrow`, from the sums of widths again: no character is without
one), so the last place not behind an offset is the offset's own (`BytesPlace`,
`UnitsPlace`). ropey's number of a line is the number of breaks before it
(`LinesAreCounted`), and no two starts of lines have the same one, since the sets of
breaks before them are of different size (`LineStartsOnce`); so the `CHOOSE` of
`line_to_char` finds the start that the editor counted its column from, and no
position of the editor is refused as behind the last line or the last unit. The proof
nowhere uses that the place is not inside a `\r\n`; that is excluded because the
protocol has no position there.

`HighlightsMatchTokens` needs no invariant beyond that of the places. From it the
tokens are where the texts before them end, in characters (`TokensHaveBounds`), and
what is left is about one text. A line is a range of places (`LineRange`), so a
token's part of a line is the range that the two have in common (`SegmentOnFacts`);
the line breaks that `Trimmed` cuts off are all the line breaks it holds, because
only a line break can stand behind one (`BreaksEnd`; a lone `\r` ends a line, so a
second character behind it is the `\n` of a pair). Parts of one token are on
different lines, parts of two tokens between different places, so no character is in
two parts, and each of a token's characters is in one (`SegmentsAreApart`). No two
parts start at the same place, so the place sorts them, and the ranks number them
without gaps (`RanksNumber`, a count of finite sets). That the differences add up to
the parts again (`DeltasAddUp`) is an induction along the data. `RawTokens` sorts by
ranks, which the provers can expand; `SetToSortSeq` they cannot.

### The guards (`MapGuards_proofs`)

A handler is a program of steps that hold further steps: what to do with a found
entry, the body of a loop, the branches of a choice. What it may do later is in its
`todo`, so the invariant has to say that the rest of every program is harmless, and
says it in the manner of a type system. A typing is a set of pairs of guards and a
step; it is consistent if each step is allowed with its guards (`Allowed`: an
operation on a map is not stopped by them, an await has none, and the steps held
inside are again in the typing, with the guards that are there then). A program is
`Safe` with some guards if a typing has all of its steps with those that its drops
leave (`Left`). That replaces an induction over programs, which the prover cannot do,
by the existence of a set.

Whether an operation is stopped depends on the hash. `Clear` does not: it asks for no
conflicting guard on the same map at all, and so the theorems hold for every hash.
What `references` and `rename` count on is told by the same means: an entry that may
be missing counts as something the program may meet (`Unseen`), finding it takes it
away, and a second look is allowed only without it.

One lemma for each form of step, each helper and each handler ends in `SafeSteps`:
what a message starts is safe. `GuardsInv` then says that every rest of a handler is
safe with the guards it holds and the entries that are missing, that only the handler
that has the task holds guards, and that those that look again are never without the
task; `KeepsGuards` and `Goes` are the shape of most of its steps. The three theorems
read it off for the next step. A type of `completion` and `goto_definition` may insert
over guards (`Careless`), nothing else may.

### Names and imports (`Navigation_proofs`)

Both theorems are about one layout, so there is no invariant; the work is in the
operators. The root that `uri_to_module_name` takes is a fold over the folders in
the order of the map: `LongestRootIsBest` shows by `FoldExists` and `Induction`
(`DataFacts`) that it ends in a longest folder that holds the file, whatever the
order. A folder inside all others that hold the file is at least as long as each of
them, and a directory within another one of the same length is that one.

For `ImportsLeadBack`, `Leads` says of a list of tries that every file in it goes by
the module's last name (`LastNames`), list by list as `find_file` joins them: what
is tried in the folders, in the libraries and next to the requiring file. Of what a
pattern makes of a name nothing is known, so the property has its other conclusion: if
none of those files exists but the one looked for, the lists of the search paths hold
nothing but it (`Only`, `JoinOnly`). So what is found first, in whichever list, can only
be the file itself, and what is left to show is that the file is among the tries at all
(`NameIsLookedFor`): its name within a root is looked for below that root. An init file
goes by the name of its directory as well. `SelectSeq` has no definition the provers can
use, hence `Filter`.

### Scopes (`Navigation_proofs`)

Both invariants of `Scopes` hold a table computed at the end, in which a binding is
a range of offsets, against what was in force when a use was written. `ScopeInv`
connects them at every moment between. It says of a program under way:

* its tree has its shape: parents come first and begin first, only the first node is
  the root, some kinds stand only in some others, a `catch` is the last thing in its
  match-try (`TreeInv`, `KindInv`, `CatchInv`), and the open nodes are a chain from the
  root to where the writer is (`OpenInv`);
* tokens lie behind the start of their node, and a name with a field behind the name,
  at a place where no node ends (`TokenInv`);
* `env` has exactly the bindings that are made (`Made`: what declares them is closed)
  and not over (`Over`: the frame that they live in is closed, or catches), and of two
  entries the later one was made later (`EnvInv`);
* every token has recorded the last of the bindings of its name whose range it is in,
  as far as that range is known yet (`SeesInv`).

A binding is not made where its name stands but where its declarer ends, so "later" is
not the order of names: `Later` allows one that stands inside another's declarer, and
that is the exception in `NearestIsMostRecent`. `SeesInv` is stable because what happens
later lies behind: a node that closes ends bindings at the end of the text
(`ClosingKeeps`), a `catch` at its own start (`OpeningKeeps`), neither before a token
that is there already (`Keeps`, `SightStays`). The table's order has to be kept too:
what a closing node makes is later than all the table has, because what is left there
was written before the node began, or inside of it (`ClosingEnv`). For that the lemmas on
`ScopesOf`, a recursive function up the tree, say that the scopes of an open node are
open and the first of them is the innermost scope form that is (`ScopesFacts`), by an
induction over the path.

When the program is written only the root is open, and then `Over` and `To` say what
the ranges of `bindings` and `l_or_r_symbols` say (`ScopeEnds`, `SymFacts`).
`l_or_r_symbols` is a fold in which every step searches the table so far;
`SymbolsAreBindings` goes along it and shows, using what each name in a pattern has
seen, that it adds exactly the names that bound when they were written. From there
`SearchFinds` is about a maximum of a set of numbers. `UnusedIsUnused` is about uses
with a field, which `unused_l_symbols` does not see since their text is a longer one: the
name stands right before the field, is a use of its own, and no range begins between
the two, so it counts for the same binding.

### Only model-checked

* Liveness (`EverythingIsHandled`, `Termination`) is out of the prover's reach.
* `SentencesParse`, which is about the sentences that `MCSentences` derives.
* `RenameKeepsMeaning`. What a fold
  over a text or a program computes is an induction over data. The library's
  induction theorems take an operator as a parameter and cannot be used; `DataFacts`
  replaces them where what is said can be written as a set of numbers, which serves
  along a sequence of states, the prefixes of a text, the sums of its widths or the
  names of a program, and is not done for a program before and after a rename.
* `Safe` has a typing of any size in it, so TLC cannot evaluate `GuardsInv`; the run
  `guards` checks the three invariants themselves.

## Not modelled

With reasons under "components" in `PROJECT.json`: macro expansion and evaluation
(pure functions of the tree that no state depends on), the passes that find
errors (constant functions of a text), the walk over a project file's table (what
it sets and reports is a constant function of its text), what requests other than
definition, references, rename and highlights answer, `macros`, varargs, dotted function
names and the special names of macros and hash functions in `Scopes`, the command line and the socket (pure I/O), tests and
stubs.

## Plan

1. Done: `Backend`, `LanguageServer`, their runs, `TypeCorrect`,
   `CachesStayInAgreement`; `Grammar`, `Parser`, their runs, `DepthStaysBounded`.
2. Done: `DocumentSync` and the refinement, `MapGuards`, `Positions`, `Lexer`,
   `SemanticTokens`, `Modules`, `Scopes`, `Rename`. Left: the walk over a project
   table with its key tables; `macros` and varargs in `Scopes`.
3. Done: the proofs of `LanguageServer` and its refinement, of `Parser`, of
   `MapGuards`, of `Lexer`, `Positions` and `SemanticTokens`, of `Modules` and of `Scopes`.
   Left: `Rename`.
