------------------------------ MODULE MCPboTree ------------------------------
(* Small instances of PboTree. *)
EXTENDS PboTree

\* "A" and "a", which have the same key, and "B", which "a" is behind and "A"
\* before.
MCTitles == {Title(0, 1, 0), Title(1, 1, 0), Title(0, 2, 0)}
=============================================================================
