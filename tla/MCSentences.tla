---------------------------- MODULE MCSentences ----------------------------
(***************************************************************************)
(* The parser on the sentences of its own grammar, whole or damaged by one *)
(* token. A sentence is derived by the productions alone: neither the      *)
(* first sets nor the ends of repetitions, which sets.rs and parser.rs     *)
(* give by hand, play a part.                                              *)
(***************************************************************************)
EXTENDS Parser

CONSTANTS
    Heads,      \* what stands in the list that is derived
    Kinds,      \* the tokens of sentences
    MaxLength,  \* and how many
    MaxCallLength,  \* in a call, which holds the other forms again
    Damageable, \* the tokens of those that may lose one or get one more
    DamageLength

ASSUME DamageAssumption == Damageable \subseteq Kinds /\ DamageLength <= MaxLength

VARIABLES
    todo,       \* the rules still to be derived, leftmost first
    stage       \* "derive", then "whole" or "damaged" while it is parsed

sentenceVars == <<vars, todo, stage>>

NoText == {<<>>}

Seqs == INSTANCE SequencesExt

-----------------------------------------------------------------------------
\* One token for each kind: a good symbol, a keyword that is no string.
Plain(kind) ==
    [kind |-> kind, text |-> CASE kind = "SYMBOL" -> "x"
                               [] kind = "KEYWORD_INTO" -> "&into"
                               [] OTHER -> ""]

Nodes == DOMAIN Forms \cup DOMAIN Bindings \cup DOMAIN Loops \cup DOMAIN Matching

Productions(kind) ==
    LET all == Alternatives(kind)
    IN  {all[i] : i \in DOMAIN all}
            \cup IF kind = "N_MATCH_TRY_CLAUSE"
                   THEN {TryAlternatives[i].clause : i \in DOMAIN TryAlternatives} ELSE {}

Must(rules) == SelectSeq(rules, LAMBDA r : r.notation \in {"Once", "Repeat1", "Repeat1Peek"})

\* The tokens that rules take at least, when "known" pairs nodes with lengths
\* of what they derive.
Least(rules, known) ==
    LET lengths(kind) == IF kind \in Nodes THEN {n \in 1..MaxLength : <<kind, n>> \in known}
                         ELSE IF kind \in Kinds THEN {1} ELSE {}
        least(S) == IF S = {} THEN MaxLength + 1 ELSE CHOOSE n \in S : \A m \in S : n <= m
        total[i \in 0..Len(rules)] ==
            IF i = 0 THEN 0 ELSE total[i - 1] + least(lengths(rules[i].expect))
    IN  total[Len(rules)]

\* The lengths known after i rounds over the productions.
RECURSIVE Known(_)
Known(i) ==
    IF i = 0 THEN {}
    ELSE LET known == Known(i - 1)
         IN  known \cup UNION {{<<kind, Least(Must(p), known)>> : p \in Productions(kind)} : kind \in Nodes}
Lengths == Known(12)

IsCall(text) == Len(text) > 1 /\ text[2].kind = "SYMBOL"
Fits(rules, text) ==
    Least(Must(rules), Lengths) + Len(text) <= (IF IsCall(text) THEN MaxCallLength ELSE MaxLength)

-----------------------------------------------------------------------------
SentenceInit ==
    /\ Init
    /\ \E head \in Heads : todo = <<One("L_PAREN"), One(head), One("R_PAREN")>>
    /\ Fits(todo, <<>>)
    /\ stage = "derive"

rule == Head(todo)

Becomes(rules, text) ==
    /\ stage = "derive" /\ todo # <<>>
    /\ Fits(rules, text)
    /\ todo' = rules /\ source' = text /\ queue' = text
    /\ UNCHANGED <<rule_stack, builder, errors, nesting_depth, skipping, depth, stage>>

Shift ==
    /\ todo # <<>> /\ rule.notation = "Once" /\ rule.expect \in Kinds
    /\ Becomes(Tail(todo), Append(source, Plain(rule.expect)))

Unfold ==
    /\ todo # <<>> /\ rule.notation = "Once"
    /\ \E p \in Productions(rule.expect) : Becomes(p \o Tail(todo), source)

Iterate ==
    /\ todo # <<>> /\ rule.notation # "Once"
    /\ Becomes(<<One(rule.expect)>> \o Remaining(rule) \o Tail(todo), source)

Leave ==
    /\ todo # <<>> /\ rule.notation \in {"Optional", "Repeat", "RepeatPeek"}
    /\ Becomes(Tail(todo), source)

Parsing(text, as) ==
    /\ stage = "derive" /\ todo = <<>>
    /\ stage' = as
    /\ source' = text /\ queue' = text
    /\ UNCHANGED <<rule_stack, builder, errors, nesting_depth, skipping, depth, todo>>

Whole == Parsing(source, "whole")

MayBreak == Len(source) <= DamageLength /\ \A i \in DOMAIN source : source[i].kind \in Damageable

Lose == MayBreak /\ \E i \in DOMAIN source : Parsing(Seqs!RemoveAt(source, i), "damaged")

PutIn == MayBreak /\ \E i \in 0..Len(source), kind \in Damageable :
            Parsing(Seqs!InsertAt(source, i + 1, Plain(kind)), "damaged")

Parse == stage # "derive" /\ Next /\ UNCHANGED <<todo, stage>>

SentenceNext == Shift \/ Unfold \/ Iterate \/ Leave \/ Whole \/ Lose \/ PutIn \/ Parse

SentenceSpec == SentenceInit /\ [][SentenceNext]_sentenceVars

-----------------------------------------------------------------------------
\* The first sets and the ends of repetitions agree with the productions: what
\* the productions derive is parsed without an error, if it does not reach the
\* nesting limit.
SentencesParse ==
    stage = "whole" /\ errors # <<>> =>
        \E i \in DOMAIN source : Len(OpenAfter(SubSeq(source, 1, i))) >= MAX_NESTING_DEPTH
=============================================================================
