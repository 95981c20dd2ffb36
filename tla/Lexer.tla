------------------------------- MODULE Lexer -------------------------------
(***************************************************************************)
(* The lexer: it cuts a text into tokens that carry byte ranges, reading   *)
(* one character behind a token's end and keeping it in "peek". A rename   *)
(* of a symbol, to a name that the lexer accepts, lexes the text anew.     *)
(***************************************************************************)
EXTENDS Positions

CONSTANTS
    Texts,          \* the documents
    NewNames,       \* what a user may ask to rename a symbol to
    RESERVED,       \* the reserved words (builtins.rs)
    None

\* A character is a string, and None is no character: neither one of a text nor
\* the line break that the end of a comment is compared with.
ASSUME LexerAssumption ==
    /\ Texts \cup NewNames \subseteq Seq(STRING \ {None})
    /\ None # "newline"

VARIABLES
    text,           \* the document
    lexer,          \* what is left of it
    tokens,
    expected        \* after a rename: the kinds and texts to find again

vars == <<text, lexer, tokens, expected>>

-----------------------------------------------------------------------------
\* Characters and words.

BOUND == {"(", ")", ",", "backtick"}

is_whitespace(c) == c \in {"space", "newline", "return", "separator"}

kind_by_char(c) ==
    IF is_whitespace(c) THEN "Whitespace"
    ELSE IF c = ";" THEN "Comment"
    ELSE IF c = "quote" THEN "QuoteString"
    ELSE IF c = "#" THEN "Hash"
    ELSE IF c \in BOUND THEN "Bound"
    ELSE "Word"

\* The table's words of the modelled characters; a keyword is the letter lambda.
OPERATORS == {<<"+">>, <<"-">>, <<".">>, <<".", ".">>}
TABLE == [word \in OPERATORS \cup {<<".", ".", ".">>, <<":">>, <<"&">>, <<"lambda">>} |->
             CASE word = <<".", ".", ".">> -> "VARARG"
               [] word = <<":">> -> "COLON"
               [] word = <<"&">> -> "CAPTURE"
               [] word = <<"lambda">> -> "KEYWORD_LAMBDA"
               [] OTHER -> "OPERATOR"]

\* The digits other than 0 are one character here, and so are the letters a to f
\* other than e.
DIGITS == {"0", "1"}
HEX == DIGITS \cup {"a", "e"}

\* The characters of a word's sign, whether 0x follows, and what both take.
Sign(word) == IF word[1] \in {"+", "-"} THEN 1 ELSE 0
IsHex(word) ==
    Len(word) >= Sign(word) + 2 /\ word[Sign(word) + 1] = "0" /\ word[Sign(word) + 2] = "x"
Prefix(word) == Sign(word) + IF IsHex(word) THEN 2 ELSE 0

Among(word, first, last, chars) == \A i \in first..last : word[i] \in chars

RE_INTEGER(word) ==
    LET n == Prefix(word)
    IN  /\ n < Len(word) /\ word[n + 1] \in DIGITS
        /\ Among(word, n + 2, Len(word), DIGITS \cup {"_"})

\* Behind the first n characters and up to the last: a fraction, digits with at most
\* one dot among them; and from there to the word's end nothing or an exponent.
Fraction(word, n, last) ==
    /\ n + 2 <= last /\ word[n + 1] = "." /\ word[n + 2] \in DIGITS
    /\ Among(word, n + 3, last, DIGITS \cup {"_"})
Decimals(word, n, last, digits) ==
    /\ n < last /\ word[n + 1] \in digits
    /\ \A i \in (n + 2)..last :
          \/ word[i] \in digits \cup {"_"}
          \/ word[i] = "." /\ Among(word, i + 1, last, DIGITS \cup {"_"})
Exponent(word, last) ==
    \/ last = Len(word)
    \/ /\ word[last + 1] \in {"e", "E"}
       /\ \E n \in {last + 1, last + 2} :
             /\ n < Len(word) /\ (n = last + 2 => word[n] \in {"+", "-"})
             /\ Among(word, n + 1, Len(word), DIGITS \cup {"_"})

RE_FLOAT(word) ==
    \E last \in DOMAIN word :
       /\ Exponent(word, last)
       /\ \/ Fraction(word, Prefix(word), last)
          \/ Decimals(word, Sign(word), last, DIGITS)
          \/ IsHex(word) /\ Decimals(word, Prefix(word), last, HEX)
RE_SYMBOL(word) ==
    /\ word[1] \notin {".", ":", "#"}
    /\ ToSet(word) \cap {"quote", "'", "~", ";", ",", "@", "backtick", "&"} = {}
RE_COLON_STRING(word) ==
    /\ word[1] = ":" /\ Len(word) > 1
    /\ ToSet(Tail(word)) \cap {"quote", "'", "~", ";", "@"} = {}

WordKind(word) ==
    IF word \in DOMAIN TABLE THEN TABLE[word]
    ELSE IF RE_INTEGER(word) THEN "INTEGER"
    ELSE IF RE_FLOAT(word) THEN "FLOAT"
    ELSE IF RE_SYMBOL(word) THEN "SYMBOL"
    ELSE IF RE_COLON_STRING(word) THEN "COLON_STRING"
    ELSE "ERROR"

-----------------------------------------------------------------------------
\* Reading. A lexer between two tokens has what it peeked at and its source.

new(source) ==
    [source |-> IF source = <<>> THEN <<>> ELSE Tail(source),
     peek |-> IF source = <<>> THEN None ELSE source[1],
     offset |-> 0, token |-> None]

finish_token(kind, current, source, peek, offset) ==
    LET end == offset + Width(current, Utf8)
    IN  [source |-> source, peek |-> peek, offset |-> end,
         token |-> [kind |-> kind, text |-> current, start |-> offset, end |-> end]]

\* The number of characters in front that pass.
Leading(chars, Passes(_)) ==
    Max({n \in 0..Len(chars) : \A i \in 1..n : Passes(chars[i])})

\* Takes what passes, and one character more, into "peek".
Scan(current, chars, Passes(_), Kind(_), offset) ==
    LET n == Leading(chars, Passes)
        word == current \o SubSeq(chars, 1, n)
    IN  finish_token(Kind(word), word, SubSeq(chars, n + 2, Len(chars)),
                     IF n < Len(chars) THEN chars[n + 1] ELSE None, offset)

\* Takes up to the place, and keeps nothing.
Take(current, chars, n, kind, offset) ==
    finish_token(kind, current \o SubSeq(chars, 1, n), SubSeq(chars, n + 1, Len(chars)), None,
                 offset)

\* Mutant: the character behind a dash that starts no comment is lost.
WordLosing(head, source, offset) ==
    IF head = "-" /\ source # <<>> /\ source[1] = "-"
    THEN Scan(<<"-", "-">>, Tail(source), LAMBDA c : c \notin {"newline", "return"},
              LAMBDA word : "COMMENT", offset)
    ELSE Scan(<<head>>, IF head = "-" /\ source # <<>> THEN Tail(source) ELSE source,
              LAMBDA c : kind_by_char(c) \in {"Word", "Hash"}, WordKind, offset)

Word(head, source, offset) ==
    IF head = "-" /\ source # <<>> /\ source[1] = "-"
    THEN Scan(<<"-", "-">>, Tail(source), LAMBDA c : c \notin {"newline", "return"},
              LAMBDA word : "COMMENT", offset)
    ELSE LET pending == IF head = "-" /\ source # <<>> THEN <<source[1]>> ELSE <<>>
             rest == IF head = "-" /\ source # <<>> THEN Tail(source) ELSE source
         IN  Scan(<<head>>, pending \o rest, LAMBDA c : kind_by_char(c) \in {"Word", "Hash"},
                  WordKind, offset)

Hash(head, source, offset) ==
    LET peek == IF source = <<>> THEN None ELSE source[1]
        alone == peek = None \/ is_whitespace(peek) \/ peek = ")"
    IN  finish_token(IF alone THEN "LENGTH" ELSE "HASHFN", <<head>>,
                     IF source = <<>> THEN <<>> ELSE Tail(source), peek, offset)

\* A quote is escaped behind an odd run of backslashes.
QuoteString(head, source, offset) ==
    LET backslashes(i) == Max({n \in 0..(i - 1) : \A k \in (i - n)..(i - 1) : source[k] = "backslash"})
        ends == {i \in DOMAIN source : source[i] = "quote" /\ backslashes(i) % 2 = 0}
    IN  IF ends = {} THEN Take(<<head>>, source, Len(source), "ERROR", offset)
        ELSE Take(<<head>>, source, Min(ends), "QUOTE_STRING", offset)

\* The line break is part of the comment; what follows a lone return is peeked at.
Comment(head, source, offset) ==
    LET n == Leading(source, LAMBDA c : c \notin {"newline", "return"})
        returns == n < Len(source) /\ source[n + 1] = "return"
        next == IF n + 2 <= Len(source) THEN source[n + 2] ELSE None
    IN  IF n = Len(source) THEN Take(<<head>>, source, n, "COMMENT", offset)
        ELSE IF returns /\ next = "newline" THEN Take(<<head>>, source, n + 2, "COMMENT", offset)
        ELSE IF returns
        THEN finish_token("COMMENT", <<head>> \o SubSeq(source, 1, n + 1),
                          SubSeq(source, n + 3, Len(source)), next, offset)
        ELSE Take(<<head>>, source, n + 1, "COMMENT", offset)

Whitespace(head, source, offset) ==
    Scan(<<head>>, source, is_whitespace, LAMBDA word : "WHITESPACE", offset)

Bound(head, source, offset) ==
    LET kind == CASE head = "(" -> "L_PAREN" [] head = ")" -> "R_PAREN"
                  [] head = "," -> "COMMA" [] head = "backtick" -> "BACKTICK"
    IN  Take(<<head>>, source, 0, kind, offset)

AtEnd(l) == l.peek = None /\ l.source = <<>>

next_token(l) ==
    LET head == IF l.peek # None THEN l.peek ELSE l.source[1]
        source == IF l.peek # None THEN l.source ELSE Tail(l.source)
        kind == kind_by_char(head)
    IN  IF AtEnd(l) THEN finish_token("END", <<>>, <<>>, None, l.offset)
        ELSE IF kind = "Word" THEN Word(head, source, l.offset)
        ELSE IF kind = "Hash" THEN Hash(head, source, l.offset)
        ELSE IF kind = "QuoteString" THEN QuoteString(head, source, l.offset)
        ELSE IF kind = "Comment" THEN Comment(head, source, l.offset)
        ELSE IF kind = "Whitespace" THEN Whitespace(head, source, l.offset)
        ELSE Bound(head, source, l.offset)

\* Mutant: only the first token of the name is looked at.
ValidStart(symbol) ==
    LET first == next_token(new(symbol))
    IN  /\ first.token.kind = "SYMBOL"
        /\ ToSet(first.token.text) \cap {".", ":"} = {}
        /\ first.token.text \notin RESERVED

validate_symbol(symbol) ==
    LET first == next_token(new(symbol))
    IN  /\ first.token.kind = "SYMBOL"
        /\ ToSet(first.token.text) \cap {".", ":"} = {}
        /\ next_token(first).token.kind = "END"
        /\ first.token.text \notin RESERVED

-----------------------------------------------------------------------------
Init ==
    /\ text \in Texts
    /\ lexer = new(text)
    /\ tokens = <<>>
    /\ expected = None

Done == tokens # <<>> /\ Last(tokens).kind = "END"

LexToken ==
    /\ ~Done
    /\ lexer' = next_token(lexer)
    /\ tokens' = Append(tokens, lexer'.token)
    /\ UNCHANGED <<text, expected>>

Found(token) == [kind |-> token.kind, text |-> token.text]

\* The name that a rename replaces: all of a symbol, or what comes before its
\* fields, which the parser cuts off.
Name(symbol) == SubSeq(symbol, 1, Leading(symbol, LAMBDA c : c \notin {".", ":"}))

\* The editor applies the edit of a rename, and the text is lexed again.
Rename ==
    /\ Done /\ expected = None
    /\ \E i \in DOMAIN tokens, name \in NewNames :
          /\ tokens[i].kind = "SYMBOL"
          /\ validate_symbol(Name(tokens[i].text)) /\ validate_symbol(name)
          /\ LET renamed == name \o SubSeq(tokens[i].text, Len(Name(tokens[i].text)) + 1,
                                           Len(tokens[i].text))
                 all == [tokens EXCEPT ![i].text = renamed]
             IN  /\ text' = FlattenSeq([k \in DOMAIN all |-> all[k].text])
                 /\ expected' = [k \in DOMAIN all |-> Found(all[k])]
    /\ lexer' = new(text')
    /\ tokens' = <<>>

Next == LexToken \/ Rename \/ (Done /\ UNCHANGED vars)

Spec == Init /\ [][Next]_vars

-----------------------------------------------------------------------------
(***************************************************************************)
(* Nothing of the text is lost, doubled or moved, whatever was peeked at   *)
(* or put back: the tokens, the character in "peek" and the source are the *)
(* text, and a token's range is its place in bytes.                        *)
(***************************************************************************)
TokensAreThePlaces ==
    LET read == FlattenSeq([k \in DOMAIN tokens |-> tokens[k].text])
        peeked == IF lexer.peek = None THEN <<>> ELSE <<lexer.peek>>
    IN  /\ read \o peeked \o lexer.source = text
        /\ lexer.offset = Width(read, Utf8)
        /\ \A k \in DOMAIN tokens :
              /\ tokens[k].start = IF k = 1 THEN 0 ELSE tokens[k - 1].end
              /\ tokens[k].end = tokens[k].start + Width(tokens[k].text, Utf8)

\* A word that begins as a fraction in front of which is 0x.
HexFraction(word) ==
    LET n == Prefix(word)
    IN  IsHex(word) /\ n + 2 <= Len(word) /\ word[n + 1] = "." /\ word[n + 2] \in DIGITS
HexFractionIn(found) ==
    \E k \in DOMAIN found : found[k].kind = "SYMBOL" /\ HexFraction(found[k].text)

(***************************************************************************)
(* A rename that is let through changes the name and nothing else: lexing  *)
(* the new text finds the tokens of the old one, with the symbol in its    *)
(* place a symbol still. It does so for every name but 0x, which is let    *)
(* through, and with a sign: in front of a field that begins with a digit  *)
(* it is the beginning of a number.                                        *)
(***************************************************************************)
RenameKeepsTokens ==
    (Done /\ expected # None /\ ~HexFractionIn(expected))
        => [k \in DOMAIN tokens |-> Found(tokens[k])] = expected

\* The editor and the server mean the same places of the text.
PositionsAgree == (tokens = <<>> /\ "separator" \notin ToSet(text)) => SamePlaces(text)
=============================================================================
