------------------------------- MODULE Parser -------------------------------
(***************************************************************************)
(* The parser of parser.rs: a stack of rules drives it over the tokens, it *)
(* builds a tree and recovers from any error. The tree under construction  *)
(* is the sequence of the builder's calls, a position in the text is the   *)
(* number of the token there, and a token is its kind and, where the       *)
(* parser looks at it, its text.                                           *)
(***************************************************************************)
EXTENDS Grammar, FiniteSets

\* What the lexer makes of a text; it tells the end by a kind of its own.
Lexeme == [kind : STRING \ {"END"}, text : STRING]

CONSTANTS
    Inputs,             \* the texts, as sequences of tokens
    MAX_NESTING_DEPTH,
    ColonTexts,         \* texts of keywords that begin with a colon
    InvalidSymbols      \* texts of symbols with an empty field or method

ASSUME ParserAssumption == MAX_NESTING_DEPTH \in Nat \ {0} /\ Inputs \subseteq Seq(Lexeme)

VARIABLES
    source,         \* the tokens of the text
    queue,          \* those not yet consumed: the token queue and the lexer's rest
    rule_stack,     \* the top first
    builder,        \* the calls made to the tree builder
    errors,
    nesting_depth,
    skipping,       \* synchronize is at work
    depth           \* its local variable

vars == <<source, queue, rule_stack, builder, errors, nesting_depth, skipping, depth>>

-----------------------------------------------------------------------------
End == [kind |-> "END", text |-> ""]

cur_rule == Head(rule_stack)
cur_token == IF queue = <<>> THEN End ELSE Head(queue)
Here == Len(source) - Len(queue) + 1

\* Mutant: whitespace is dropped.
StepToCode == IF queue = <<>> THEN queue ELSE SelectSeq(Tail(queue), LAMBDA t : t.kind \notin OUTBAND)

Step == IF queue = <<>> THEN queue ELSE Tail(queue)

InCode(token) == token.kind \notin OUTBAND

\* The next token that is neither whitespace nor a comment.
peek == LET code == SelectSeq(Step, InCode)
        IN  IF code = <<>> THEN "END" ELSE Head(code).kind

start_node(kind) == <<[event |-> "start", kind |-> kind, at |-> 0]>>
token(kind) == <<[event |-> "token", kind |-> kind, at |-> Here]>>
finish_nodes(n) == [i \in 1..n |-> [event |-> "finish", kind |-> "", at |-> 0]]

\* Mutant: only the first error is reported.
FirstError(kind, at) == IF errors = <<>> THEN <<[kind |-> kind, at |-> at]>> ELSE <<>>

Error(kind, at) == <<[kind |-> kind, at |-> at]>>

IsClose(rule) == rule.notation = "Close"

First(S) == CHOOSE i \in S : \A j \in S : i <= j

\* The rules cur_rule is expanded to at cur_token: the first alternative that
\* can begin with it, or none.
Expansion ==
    LET all == Alternatives(cur_rule.expect)
        fit == {i \in 1..Len(all) : first_set(Head(all[i]).expect, cur_token.kind)}
        try == {i \in 1..Len(TryAlternatives) :
                    /\ cur_rule.expect = "N_MATCH_TRY_CLAUSE" /\ cur_token.kind = "L_PAREN"
                    /\ peek \in TryAlternatives[i].peek}
    IN  CASE fit # {} -> all[First(fit)]
          [] fit = {} /\ try # {} -> TryAlternatives[First(try)].clause
          [] OTHER -> <<>>

\* Whether a repetition or an option ends here.
Stops ==
    \/ /\ cur_rule.notation \in {"Repeat", "Optional", "RepeatPeek"}
       /\ cur_token.kind \in cur_rule.ends
    \/ cur_rule.notation = "RepeatPeek" /\ peek \in cur_rule.follows

\* How far down the stack a closing token closes, 0 if nowhere.
find_close(stack, kinds) ==
    LET open == {i \in DOMAIN stack : IsClose(stack[i]) /\ stack[i].expect \in kinds}
    IN  IF open = {} THEN 0 ELSE First(open)

Closed == CASE cur_token.kind = "R_PAREN" -> LIST
            [] cur_token.kind = "R_BRACE" -> KV_TABLE
            [] cur_token.kind = "R_BRACKET" -> TABLE
            [] OTHER -> {}

MayBeString(tok) ==
    tok.kind \in {"KEYWORD_INTO", "KEYWORD_UNTIL"} /\ tok.text \in ColonTexts

\* Mutant: one list more than the limit.
RefusesLate == nesting_depth > MAX_NESTING_DEPTH /\ cur_token.kind \in L_DELIMITERS

Refuses == nesting_depth >= MAX_NESTING_DEPTH /\ cur_token.kind \in L_DELIMITERS

\* What the parser does next: its early returns, in their order.
Branch ==
    IF skipping THEN "synchronize"
    ELSE IF Refuses THEN "refuse"
    ELSE IF IsClose(cur_rule) THEN "close"
    ELSE IF ~InCode(cur_token) THEN "outband"
    ELSE IF cur_rule.notation = "Once" /\ cur_rule.expect = cur_token.kind THEN "match"
    ELSE IF Stops THEN "stop"
    ELSE IF Expansion # <<>> THEN "expand"
    ELSE IF find_close(rule_stack, Closed) # 0 THEN "early_close"
    ELSE IF MayBeString(cur_token) THEN "rekeyword"
    ELSE IF cur_token.kind = "END" THEN "missing_close"
    ELSE "unexpected"

At(branch) == rule_stack # <<>> /\ Branch = branch

-----------------------------------------------------------------------------
Init ==
    /\ source \in Inputs /\ queue = source
    /\ rule_stack = <<Star("N_SEXP", {"END"}), One("END"), Close("ROOT", 0)>>
    /\ builder = start_node("ROOT") /\ errors = <<>>
    /\ nesting_depth = 0 /\ skipping = FALSE /\ depth = 0

Below(n) == SubSeq(rule_stack, n + 1, Len(rule_stack))

\* Where on the stack nodes wait for their end, and lists among them.
Closes == {i \in DOMAIN rule_stack : IsClose(rule_stack[i])}
Lists == {i \in Closes : rule_stack[i].at # 0}

\* The closes among the top n rules.
Popped(n) == {i \in Closes : i <= n}

skip == rule_stack' = Tail(rule_stack)

\* A list beyond the limit is not opened.
Refuse ==
    /\ At("refuse")
    /\ errors' = errors \o Error("UnexpectedEof", Here)
    /\ queue' = Step
    /\ UNCHANGED <<source, rule_stack, builder, nesting_depth, skipping, depth>>

\* Mutant: the end of any node gives a level back.
DepthAfterNode(rule) == IF nesting_depth > 0 THEN nesting_depth - 1 ELSE nesting_depth

DepthAfter(rule) == IF rule.at # 0 /\ nesting_depth > 0 THEN nesting_depth - 1 ELSE nesting_depth

CloseNode ==
    /\ At("close")
    /\ nesting_depth' = DepthAfter(cur_rule)
    /\ builder' = builder \o finish_nodes(1)
    /\ skip
    /\ UNCHANGED <<source, queue, errors, skipping, depth>>

EatOutband ==
    /\ At("outband")
    /\ builder' = builder \o token(cur_token.kind)
    /\ queue' = Step
    /\ UNCHANGED <<source, rule_stack, errors, nesting_depth, skipping, depth>>

\* parse_symbol: nothing after a dot or a colon, or more than one method.
IsInvalid == cur_token.kind = "SYMBOL" /\ cur_token.text \in InvalidSymbols

\* The expected token. A symbol is split at its fields and its method; what is
\* wrong with it is a token of its own.
Match ==
    /\ At("match")
    /\ builder' = builder \o token(cur_token.kind) \o (IF IsInvalid THEN token("ERROR") ELSE <<>>)
    /\ errors' = errors \o (IF IsInvalid THEN Error("InvalidSymbol", Here) ELSE <<>>)
    /\ skip
    /\ queue' = Step
    /\ UNCHANGED <<source, nesting_depth, skipping, depth>>

Stop ==
    /\ At("stop")
    /\ skip
    /\ UNCHANGED <<source, queue, builder, errors, nesting_depth, skipping, depth>>

\* A rule gives way to those of a production, the end of its node and what is
\* left of it.
Expand ==
    LET opens == Head(Expansion).expect \in L_DELIMITERS
    IN  /\ At("expand")
        /\ rule_stack' = Expansion \o <<Close(cur_rule.expect, IF opens THEN Here ELSE 0)>>
                                   \o Remaining(cur_rule) \o Tail(rule_stack)
        /\ nesting_depth' = IF opens THEN nesting_depth + 1 ELSE nesting_depth
        /\ builder' = builder \o start_node(cur_rule.expect)
        /\ UNCHANGED <<source, queue, errors, skipping, depth>>

\* Mutant: a node is closed that stays on the stack.
FinishesAll(n) == finish_nodes(n)

Finishes(n) == finish_nodes(Cardinality(Popped(n)))

\* Mutant: only a list with an opening of its own is reported.
UnterminatedList(close) == IF close.at # 0 THEN Error("Unterminated", close.at) ELSE <<>>

Unterminated(close) ==
    Error("Unterminated", Here)
        \o (IF close.at # 0 THEN Error("Unterminated", close.at) ELSE <<>>)

\* recover_error: a closing token ends the nearest list of its kind and all
\* that is open in it; only the innermost is reported.
EarlyClose ==
    LET n == find_close(rule_stack, Closed)
    IN  /\ At("early_close")
        /\ rule_stack' = Below(n)
        /\ builder' = builder \o Finishes(n) \o token(cur_token.kind)
        /\ errors' = errors \o Unterminated(rule_stack[First(Popped(n))])
        /\ queue' = Step
        /\ UNCHANGED <<source, nesting_depth, skipping, depth>>

\* Mutant: the token stays what it was.
StillKeyword(tok) == tok

AsString(tok) == [tok EXCEPT !.kind = "COLON_STRING"]

\* Mutant: the token is put before itself.
RelabelledTwice == <<AsString(cur_token)>> \o queue

Relabelled == <<AsString(cur_token)>> \o Tail(queue)

\* recover_error: ":into" and ":until" may be strings.
Rekeyword ==
    /\ At("rekeyword")
    /\ queue' = Relabelled
    /\ UNCHANGED <<source, rule_stack, builder, errors, nesting_depth, skipping, depth>>

\* recover_error at the end of the text: everything is closed, and the
\* innermost open list is reported.
MissingClose ==
    /\ At("missing_close")
    /\ rule_stack' = <<>>
    /\ builder' = builder \o token("ERROR") \o Finishes(Len(rule_stack))
    /\ errors' = errors \o (IF Lists = {} THEN Error("UnexpectedEof", Here)
                                          ELSE Error("Dismatched", rule_stack[First(Lists)].at))
    /\ UNCHANGED <<source, queue, nesting_depth, skipping, depth>>

\* recover_error: any other token is passed over, and what follows it too where
\* the list only waits for its end.
Unexpected ==
    /\ At("unexpected")
    /\ builder' = builder \o token("ERROR")
    /\ errors' = errors \o Error("Unexpected", Here)
    /\ queue' = Step
    /\ skipping' = (cur_rule.expect = "R_PAREN")
    /\ depth' = 0
    /\ UNCHANGED <<source, rule_stack, nesting_depth>>

\* Mutant: a nested list ends the skipping.
SyncStopsEarly == cur_token.kind \in {"END", "R_PAREN"}

SyncStops == cur_token.kind = "END" \/ (cur_token.kind = "R_PAREN" /\ depth = 0)

synchronize ==
    /\ At("synchronize")
    /\ IF SyncStops
         THEN skipping' = FALSE /\ UNCHANGED <<queue, builder, depth>>
         ELSE /\ builder' = builder \o token(IF InCode(cur_token) THEN "ERROR" ELSE cur_token.kind)
              /\ queue' = Step
              /\ depth' = CASE cur_token.kind \in L_DELIMITERS -> depth + 1
                            [] cur_token.kind \in {"R_PAREN", "R_BRACKET", "R_BRACE"} /\ depth > 0
                                 -> depth - 1
                            [] OTHER -> depth
              /\ UNCHANGED skipping
    /\ UNCHANGED <<source, rule_stack, errors, nesting_depth>>

recover_error == EarlyClose \/ Rekeyword \/ MissingClose \/ Unexpected

parse_inner == CloseNode \/ EatOutband \/ Match \/ Stop \/ Expand \/ recover_error

Done == rule_stack = <<>> /\ UNCHANGED vars

Next == Refuse \/ parse_inner \/ synchronize \/ Done

Spec == Init /\ [][Next]_vars

\* The parser is a loop on one thread: it keeps running.
FairSpec == Spec /\ WF_vars(Next)

-----------------------------------------------------------------------------
(* Properties.                                                             *)

\* The calls of each kind among those made to the builder.
Tokens == {i \in DOMAIN builder : builder[i].event = "token"}
Starts == {i \in DOMAIN builder : builder[i].event = "start"}
Finished == {i \in DOMAIN builder : builder[i].event = "finish"}
Reported == {errors[i].at : i \in DOMAIN errors}
RefusedAt == {errors[i].at : i \in {j \in DOMAIN errors : errors[j].kind = "UnexpectedEof"}}

\* Whether the delimiters of a text pair up.
Closing == [L_PAREN |-> "R_PAREN", L_BRACKET |-> "R_BRACKET", L_BRACE |-> "R_BRACE"]
Pair(open, t) ==
    CASE t.kind \in DOMAIN Closing -> <<Closing[t.kind]>> \o open
      [] t.kind \in {"R_PAREN", "R_BRACKET", "R_BRACE"} ->
            IF open # <<>> /\ Head(open) = t.kind THEN Tail(open) ELSE <<"mismatch">> \o open
      [] OTHER -> open
OpenAfter(text) ==
    LET open[n \in 0..Len(text)] == IF n = 0 THEN <<>> ELSE Pair(open[n - 1], text[n])
    IN  open[Len(text)]

\* The shape of the parser's state: the root stays at the bottom of the stack
\* until all is popped, a list points at the token read that opened it, and
\* every error lies in the text or at its end.
TypeOK ==
    /\ Len(queue) <= Len(source) /\ skipping \in BOOLEAN /\ depth \in 0..Len(source)
    /\ rule_stack # <<>> => rule_stack[Len(rule_stack)] = Close("ROOT", 0)
    /\ \A i \in Lists : rule_stack[i].at \in 1..Here
    /\ Reported \subseteq 1..(Len(source) + 1)

\* The nodes open in the tree are those whose ends wait on the stack, whatever
\* early_close and missing_close pop: the builder is never asked to finish a
\* node that is not open, and none stays open.
TreeIsBalanced == Cardinality(Starts) - Cardinality(Finished) = Cardinality(Closes)

\* The tree holds the text: every token read by step is in it, in order, but
\* for the openings that were refused and reported.
LosslessTree ==
    /\ \A i, j \in Tokens : i < j => builder[i].at <= builder[j].at
    /\ 1..(Here - 1) \subseteq {builder[i].at : i \in Tokens} \cup RefusedAt

\* recover_error passes over nothing in silence: a token the tree holds as an
\* error is reported, or is skipped together with one before it that is.
ErrorsAreReported ==
    \A i \in Tokens :
        builder[i].kind = "ERROR" =>
            \/ builder[i].at \in Reported
            \/ builder[i].at > Len(source) /\ errors # <<>>
            \/ \E j \in Tokens : /\ j < i /\ builder[j].kind = "ERROR"
                                 /\ \A k \in Tokens : j < k /\ k < i => builder[k].kind \in OUTBAND

\* A text that parses without an error is one whose delimiters pair up.
AcceptedIsPaired == rule_stack = <<>> /\ errors = <<>> => OpenAfter(source) = <<>>

\* The parser never counts more open lists than MAX_NESTING_DEPTH.
DepthIsBounded == nesting_depth \in 0..MAX_NESTING_DEPTH

\* However recovery leaves the counter, it is never below the number of lists
\* that wait for their end on the stack: the limit bounds the tree's depth.
OpenListsAreCounted == Cardinality(Lists) <= nesting_depth

\* Where the delimiters pair up, the tokens that synchronize passes over after
\* the first error end with the list the error is in, not with one inside it.
\* This is so only if the error itself is no opening: synchronize does not
\* count the token it is called after.
FirstSkipEndsItsList ==
    [][(/\ At("synchronize") /\ SyncStops /\ OpenAfter(source) = <<>>
        /\ Len(errors) = 1 /\ source[errors[1].at].kind \notin L_DELIMITERS) =>
        /\ Lists # {} /\ cur_token.kind = "R_PAREN"
        /\ OpenAfter(SubSeq(source, 1, Here))
               = OpenAfter(SubSeq(source, 1, rule_stack[First(Lists)].at - 1))]_vars

\* Whatever the text, the parser comes to its end.
Termination == <>(rule_stack = <<>>)

-----------------------------------------------------------------------------
(* What comments say of the parser.                                        *)

\* parser.rs:41, "Nesting depth of lists currently open".
DepthIsOpenLists == nesting_depth = Cardinality(Lists)
=============================================================================
