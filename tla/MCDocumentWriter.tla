-------------------------- MODULE MCDocumentWriter --------------------------
(* Small instances of DocumentWriter: two paths, documents of two lengths. *)
EXTENDS DocumentWriter

\* Version 1 is long, version 2 short, version 3 long again: an old file can
\* be longer than, as long as, and shorter than the one written over it.
MCLength == [v \in Versions |-> IF v = 2 THEN 1 ELSE 2]

MCNoFaults   == {}
MCSoftFaults == {"open", "read"}
=============================================================================
