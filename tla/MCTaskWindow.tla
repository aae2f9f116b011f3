---------------------------- MODULE MCTaskWindow ----------------------------
(* Small instances of TaskWindow. *)
EXTENDS TaskWindow

CONSTANTS long

\* One task of two units, the others of one.
MCSize == [k \in Tasks |-> IF k = long THEN 2 ELSE 1]
=============================================================================
