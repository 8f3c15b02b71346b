------------------------------ MODULE MCTerminal ------------------------------
(***************************************************************************)
(* A line whose link has the hash 0, and one with another link; a blank    *)
(* line has none.  The first has a text of one column.                     *)
(***************************************************************************)
EXTENDS Terminal

CONSTANTS a, b, u, v

MCOutputs == {[text |-> a, uri |-> u], [text |-> b, uri |-> v]}
MCNarrow == {a}
MCHash == [x \in {u, v} |-> IF x = u THEN 0 ELSE 7]
=============================================================================
