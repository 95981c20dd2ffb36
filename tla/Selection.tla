----------------------------- MODULE Selection -----------------------------
(***************************************************************************)
(* SelectSeq, with a definition that proofs can use.                       *)
(***************************************************************************)
EXTENDS SequencesExt

\* What passes the test, in order.
Filter(s, Test(_)) == FlattenSeq([k \in DOMAIN s |-> IF Test(s[k]) THEN <<s[k]>> ELSE <<>>])
=============================================================================
