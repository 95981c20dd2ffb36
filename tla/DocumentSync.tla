---------------------------- MODULE DocumentSync ----------------------------
(***************************************************************************)
(* What the language server promises an editor about documents. The editor *)
(* says in order what becomes of each buffer; the server hears it in that  *)
(* order, and then holds the text that the editor meant. Other files it    *)
(* may read anew at any time, an open one never. A document may get lost;  *)
(* the server promises nothing about it from then on.                      *)
(***************************************************************************)
EXTENDS Sequences

CONSTANTS File, Text, None

VARIABLES
    buffer,     \* buffer[u]: what the editor shows for u, or None
    said,       \* said[u]: what the editor said has become of u and the
                \* server has not heard, in order
    open,       \* the files that the server takes for open
    text,       \* text[u]: what the server holds for u, or None
    lost        \* the files it has lost; nothing else is kept of them

vars == <<buffer, said, open, text, lost>>

Init ==
    /\ buffer = [u \in File |-> None]
    /\ said = [u \in File |-> <<>>]
    /\ open = {}
    /\ text = [u \in File |-> None]
    /\ lost = {}

\* A buffer is opened, changed, or closed (None).
Say(u, t) ==
    /\ buffer[u] # t
    /\ buffer' = [buffer EXCEPT ![u] = t]
    /\ said' = [said EXCEPT ![u] = IF u \in lost THEN @ ELSE Append(@, t)]
    /\ UNCHANGED <<open, text, lost>>

Hear(u) ==
    /\ said[u] # <<>>
    /\ said' = [said EXCEPT ![u] = Tail(@)]
    /\ text' = [text EXCEPT ![u] = Head(said[u])]
    /\ open' = IF Head(said[u]) = None THEN open \ {u} ELSE open \cup {u}
    /\ UNCHANGED <<buffer, lost>>

\* The disk is read, or what was read is forgotten, and open files may get lost.
Read(files) ==
    /\ lost' = lost \cup files
    /\ said' = [u \in File |-> IF u \in lost' THEN <<>> ELSE said[u]]
    /\ open' = open \ lost'
    /\ text' \in [File -> Text \cup {None}]
    /\ \A u \in open' : text'[u] = text[u]
    /\ \A u \in lost' : text'[u] = None
    /\ UNCHANGED buffer

Next ==
    \/ \E u \in File, t \in Text \cup {None} : Say(u, t)
    \/ \E u \in File : Hear(u)
    \/ \E files \in SUBSET File : Read(files)

Spec == Init /\ [][Next]_vars
=============================================================================
