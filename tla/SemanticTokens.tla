-------------------------- MODULE SemanticTokens --------------------------
(***************************************************************************)
(* The semantic tokens of a lexed document: classified tokens are cut at   *)
(* line breaks and sent as differences to the token before. What a symbol  *)
(* refers to is left out: it decides the colour, not the place.            *)
(***************************************************************************)
EXTENDS Lexer

Classification(kind) ==
    IF kind = "COMMENT" THEN "comment"
    ELSE IF kind \in {"QUOTE_STRING", "COLON_STRING"} THEN "string"
    ELSE IF kind \in {"FLOAT", "INTEGER"} THEN "number"
    ELSE IF kind \in {"OPERATOR", "LENGTH"} THEN "operator"
    ELSE IF kind = "KEYWORD_LAMBDA" THEN "keyword"
    ELSE IF kind \in {"CAPTURE", "VARARG"} THEN "parameter"
    ELSE IF kind = "SYMBOL" THEN "variable"
    ELSE None

\* The first characters of a segment, without the line break it ends with.
Trimmed(doc, start, end) ==
    Max({n \in 0..(end - start) :
            n = 0 \/ doc[start + n] \notin {"newline", "return"}})

\* The parts of a token, line by line.
Segments(doc, token) ==
    LET start == byte_to_char(doc, token.start)
        end == byte_to_char(doc, IF token.end < Width(doc, Utf8) THEN token.end ELSE Width(doc, Utf8))
        lines == char_to_line(doc, start)..char_to_line(doc, IF end = 0 THEN 0 ELSE end - 1)
        segment(line) ==
            LET first == Max({start, line_to_char(doc, line)})
                last == Min({end, line_to_char(doc, line + 1)})
            IN  [line |-> line, col |-> first - line_to_char(doc, line),
                 len |-> Trimmed(doc, first, last), type |-> Classification(token.kind)]
    IN  IF token.start >= token.end \/ token.start >= Width(doc, Utf8) THEN {}
        ELSE {s \in {segment(line) : line \in lines} : s.len > 0}

\* The order of their places.
Before(a, b) == a.line < b.line \/ (a.line = b.line /\ a.col < b.col)

\* Sorted: each comes behind those of smaller places.
RawTokens(doc, all) ==
    LET classified == {k \in DOMAIN all : Classification(all[k].kind) # None}
        segments == UNION {Segments(doc, all[k]) : k \in classified}
        Rank(s) == Cardinality({r \in segments : Before(r, s)}) + 1
    IN  [k \in 1..Cardinality(segments) |-> CHOOSE s \in segments : Rank(s) = k]

\* Mutant: the column is not taken relative to the token before.
DeltaFromLine(raw, k) ==
    LET prev == IF k = 1 THEN 0 ELSE raw[k - 1].line
    IN  [delta_line |-> raw[k].line - prev, delta_start |-> raw[k].col,
         length |-> raw[k].len, token_type |-> raw[k].type]

Delta(raw, k) ==
    LET prev == IF k = 1 THEN [line |-> 0, col |-> 0] ELSE raw[k - 1]
    IN  [delta_line |-> raw[k].line - prev.line,
         delta_start |-> IF raw[k].line = prev.line THEN raw[k].col - prev.col ELSE raw[k].col,
         length |-> raw[k].len, token_type |-> raw[k].type]

semantic_tokens_full(doc, all) ==
    LET raw == RawTokens(doc, all) IN [k \in DOMAIN raw |-> Delta(raw, k)]

-----------------------------------------------------------------------------
\* The editor's reading: the characters that each token of the data colours.
Coloured(doc, data) ==
    LET place[k \in 0..Len(data)] ==
            IF k = 0 THEN [line |-> 0, col |-> 0]
            ELSE [line |-> place[k - 1].line + data[k].delta_line,
                  col |-> data[k].delta_start
                            + IF data[k].delta_line = 0 THEN place[k - 1].col ELSE 0]
        first(k) == line_to_char(doc, place[k].line) + place[k].col
    IN  [k \in 1..Len(data) |-> (first(k) + 1)..(first(k) + data[k].length)]

(***************************************************************************)
(* The editor colours the characters of every classified token, on all of  *)
(* its lines and in its own colour, but for the line breaks; no character  *)
(* twice; and no difference, an unsigned number, would be below zero.      *)
(* Columns are taken as the characters the server counts.                  *)
(***************************************************************************)
HighlightsMatchTokens ==
    Done =>
      LET data == semantic_tokens_full(text, tokens)
          coloured == Coloured(text, data)
          chars(k) == (byte_to_char(text, tokens[k].start) + 1)..byte_to_char(text, tokens[k].end)
      IN  /\ \A i, j \in DOMAIN data : i # j => coloured[i] \cap coloured[j] = {}
          /\ \A k \in DOMAIN tokens, c \in 1..Len(text) :
                (c \in chars(k) /\ text[c] \notin {"newline", "return"}) =>
                   {data[i].token_type : i \in {i \in DOMAIN data : c \in coloured[i]}}
                     = {Classification(tokens[k].kind)} \ {None}
          /\ \A i \in DOMAIN data :
                /\ data[i].delta_line >= 0 /\ data[i].delta_start >= 0
                /\ \A c \in coloured[i] : c <= Len(text) /\ text[c] \notin {"newline", "return"}
=============================================================================
