----------------------------- MODULE Positions -----------------------------
(***************************************************************************)
(* The positions of characters in a document: characters (the rope's       *)
(* index), bytes (the parser's and the lexer's offsets) and pairs of a     *)
(* line and a UTF-16 column (the protocol's). A character is a string; its *)
(* widths tell it apart from the others.                                   *)
(***************************************************************************)
EXTENDS Naturals, Sequences, FiniteSetsExt, SequencesExt

CONSTANTS InvalidRequest, Panic     \* the answers that are no position

\* They are not numbers either, as the places of a text are.
ASSUME PositionsAssumption == InvalidRequest \notin Nat /\ Panic \notin Nat

Utf8(c) ==
    CASE c = "wide" -> 4
      [] c = "separator" -> 3       \* U+2028, a line break for ropey
      [] c = "lambda" -> 2
      [] OTHER -> 1

Utf16(c) == IF c = "wide" THEN 2 ELSE 1

Utf32(c) == 1

Width(text, Unit(_)) == FoldLeft(LAMBDA sum, c : sum + Unit(c), 0, text)

\* ----- ropey: characters are counted from 0, and so are lines.

char_to_byte(text, char) == Width(SubSeq(text, 1, char), Utf8)
char_to_utf16_cu(text, char) == Width(SubSeq(text, 1, char), Utf16)

\* The character that holds the unit.
LastAt(text, unit, At(_, _)) == Max({char \in 0..Len(text) : At(text, char) <= unit})
byte_to_char(text, byte) == LastAt(text, byte, char_to_byte)
utf16_cu_to_char(text, unit) == LastAt(text, unit, char_to_utf16_cu)

EndsLine(text, i) ==
    \/ text[i] \in {"newline", "separator"}
    \/ text[i] = "return" /\ ~(i < Len(text) /\ text[i + 1] = "newline")

LineStarts(text) == {0} \cup {i \in 1..Len(text) : EndsLine(text, i)}
len_lines(text) == Cardinality(LineStarts(text))

char_to_line(text, char) == Cardinality({start \in LineStarts(text) : start <= char}) - 1
\* One line past the last is the end of the text.
line_to_char(text, line) ==
    IF line = len_lines(text) THEN Len(text)
    ELSE CHOOSE start \in LineStarts(text) : char_to_line(text, start) = line

\* ----- helper.rs

position_to_char_idx(text, position) ==
    LET unit == char_to_utf16_cu(text, line_to_char(text, position.line)) + position.character
    IN  IF position.line > len_lines(text) THEN InvalidRequest
        ELSE IF unit > Width(text, Utf16) THEN Panic
        ELSE utf16_cu_to_char(text, unit)

position_to_byte_offset(text, position) ==
    LET char == position_to_char_idx(text, position)
    IN  IF char \in {InvalidRequest, Panic} THEN char ELSE char_to_byte(text, char)

\* Mutant: the column is counted in characters.
PositionInCharacters(text, offset) ==
    LET char == byte_to_char(text, offset)
        line == char_to_line(text, char)
    IN  IF offset > Width(text, Utf8) THEN InvalidRequest
        ELSE [line |-> line, character |-> char - line_to_char(text, line)]

byte_offset_to_position(text, offset) ==
    LET char == byte_to_char(text, offset)
        line == char_to_line(text, char)
    IN  IF offset > Width(text, Utf8) THEN InvalidRequest
        ELSE [line |-> line,
              character |-> char_to_utf16_cu(text, char)
                                - char_to_utf16_cu(text, line_to_char(text, line))]

lsp_range(text, range) ==
    [start |-> byte_offset_to_position(text, range.start),
     end |-> byte_offset_to_position(text, range.end)]

rope_range(text, range) ==
    [start |-> position_to_char_idx(text, range.start),
     end |-> position_to_char_idx(text, range.end)]

-----------------------------------------------------------------------------
\* The protocol's position of a boundary: its lines end with \n, \r\n or \r.
EditorPosition(text, char) ==
    LET ends == {i \in 1..char : EndsLine(text, i) /\ text[i] # "separator"}
    IN  [line |-> Cardinality(ends),
         character |-> Width(SubSeq(text, Max(ends \cup {0}) + 1, char), Utf16)]

\* Between the two characters of a line break there is no position.
Boundaries(text) ==
    {char \in 0..Len(text) :
        ~(char \in 1..(Len(text) - 1) /\ text[char] = "return" /\ text[char + 1] = "newline")}

(***************************************************************************)
(* What the editor selects is what the server edits, and what the server   *)
(* points at is what the editor shows: at every boundary of a text without *)
(* line separators, a position of the protocol, a character of the rope    *)
(* and a byte of the tree stand for each other.                            *)
(***************************************************************************)
SamePlaces(text) ==
    LET places == Boundaries(text)
        range(a, b) == [start |-> a, end |-> b]
    IN  \A a, b \in places :
            (a <= b) =>
              LET shown == range(EditorPosition(text, a), EditorPosition(text, b))
                  bytes == range(char_to_byte(text, a), char_to_byte(text, b))
              IN  /\ rope_range(text, shown) = range(a, b)
                  /\ lsp_range(text, bytes) = shown
                  /\ position_to_byte_offset(text, shown.start) = bytes.start
=============================================================================
