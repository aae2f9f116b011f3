----------------------------- MODULE MCClipboard -----------------------------
(* A small instance of Clipboard. *)
EXTENDS Clipboard

\* "a" at the top and "b" in the folder "F".
MCEntries == {[path |-> <<Title("a", 0)>>, bytes |-> "A"],
              [path |-> <<Title("F", 0), Title("b", 0)>>, bytes |-> "B"]}
=============================================================================
