----------------------------- MODULE AtomicSave -----------------------------
(***************************************************************************)
(* What saving a document promises to someone who looks at the disk: from  *)
(* the moment a save begins until it ends, its target holds what it held   *)
(* before; then it holds the whole new file, or still the old one.  The    *)
(* document that gets there is the one that was open when the save began.  *)
(***************************************************************************)
CONSTANTS Paths

VARIABLES
  shelf,    \* shelf[p]: the contents of the file at p
  saving,   \* a save is under way
  target,   \* the path of the last save
  version   \* the version of the open document

vars == <<shelf, saving, target, version>>

Init ==
  /\ saving = FALSE
  /\ target \in Paths
  /\ version = 0

Begin(p) ==
  /\ ~saving
  /\ saving' = TRUE
  /\ target' = p
  /\ UNCHANGED <<shelf, version>>

Commit ==
  /\ saving
  /\ saving' = FALSE
  /\ \A p \in Paths \ {target}: shelf'[p] = shelf[p]
  /\ shelf'[target].version = version
  /\ shelf'[target].state = "signed"
  /\ UNCHANGED <<target, version>>

Abort ==
  /\ saving
  /\ saving' = FALSE
  /\ UNCHANGED <<shelf, target, version>>

\* The document may change between two saves, never during one.
Change ==
  /\ ~saving
  /\ ~saving'
  /\ UNCHANGED <<shelf, target>>

Next ==
  \/ \E p \in Paths: Begin(p)
  \/ Commit
  \/ Abort
  \/ Change

Spec == Init /\ [][Next]_vars
=============================================================================
