------------------------------- MODULE PboTree -------------------------------
(***************************************************************************)
(* The nodes of a document and the items that show them: PboNode on top of *)
(* AbstractNode (pbom/domain), what PboModel::createNodeSet, the tree's    *)
(* Remove and the rename dialog do to them, and TreeWidgetItem, which      *)
(* follows the nodes by the indexes in their signals.                      *)
(*                                                                         *)
(* Everything here runs on one thread: an operation is one step, and what  *)
(* has to fit together is what the operations leave behind.                *)
(***************************************************************************)
EXTENDS Integers, FiniteSets, Sequences, SequencesExt

CONSTANTS
  Titles,       \* the titles entries come with
  MaxCopy,      \* bound on the number of copies of a title
  MaxNodes,     \* bound on the number of nodes besides the root
  MaxSegments   \* bound on the segments of all the paths inserted at once

\* A title is what the code tells apart of it: whether it is in lower case,
\* the name, and the number n of "name(n)", 0 for no number.
Title(lower, name, copy) == [lower |-> lower, name |-> name, copy |-> copy]

ASSUME TitlesAssumption ==
  \A t \in Titles: t = Title(t.lower, t.name, 0) /\ t.lower \in 0 .. 1
                                                 /\ t.name \in Nat
ASSUME BoundsAssumption ==
  MaxCopy \in Nat \ {0} /\ MaxNodes \in Nat \ {0} /\ MaxSegments \in Nat \ {0}

VARIABLES
  tree,      \* tree[n]: the node n, for the nodes there are
  view,      \* view[n]: the item that shows node n
  loaded,    \* the window has a document
  changed,   \* the last step emitted hierarchyChanged
  outcome    \* how the last step ended

vars == <<tree, view, loaded, changed, outcome>>

Root == 0
None == -1

\* The name of the file.
RootTitle == CHOOSE t \in Titles: TRUE

Resolutions == {"Unset", "Skip", "Copy", "Replace"}

-----------------------------------------------------------------------------
(* Titles. *)

\* normalizeTitle: the key of the child map is the title in upper case.
Key(t) == [t EXCEPT !.lower = 0]

\* QString's order: upper case comes before lower case.
TitleLess(a, b) ==
  \/ a.lower < b.lower
  \/ a.lower = b.lower /\ a.name < b.name
  \/ a.lower = b.lower /\ a.name = b.name /\ a.copy < b.copy

\* FileNames: the number goes before the extension of a file.
CopyTitle(t, n) == [t EXCEPT !.copy = n]

\* The order of siblings: PboNodeType lists File before Folder.
Less(a, b) == IF a.type = b.type THEN TitleLess(a.title, b.title)
                                 ELSE a.type = "Folder"

-----------------------------------------------------------------------------
(* A scene is what an operation works on: the nodes, the items, and what   *)
(* was emitted.                                                            *)

Scene(emits) == [tree |-> tree, view |-> view, emits |-> emits,
                 changed |-> FALSE, outcome |-> "done"]

NewNode(type, title, parent) ==
  [type |-> type, title |-> title, parent |-> parent,
   map |-> <<>>, list |-> <<>>]

NewItem(title) == [text |-> title, items |-> <<>>]

\* What the links lead to from n: the least set with n that they do not leave.
Closed(S, links) == \A link \in links: link[1] \in S => link[2] \in S

Reached(n, links) ==
  LET all == {n} \union {link[2]: link \in links}
  IN  {m \in all: \A S \in SUBSET all: n \in S /\ Closed(S, links) => m \in S}

\* The nodes at or below n, the items at or below that of n.
NodesBelow(nodes, n) ==
  Reached(n, {<<nodes[m].parent, m>>: m \in DOMAIN nodes \ {Root}})

ItemsBelow(shown, n) ==
  Reached(n, UNION {{m} \X ToSet(shown[m].items): m \in DOMAIN shown})

Without(f, S) == [x \in DOMAIN f \ S |-> f[x]]

\* std::lower_bound over siblings that are in order.
IndexFor(nodes, list, n) ==
  1 + Cardinality({i \in 1 .. Len(list): Less(nodes[list[i]], nodes[n])})

HasChild(nodes, p, t) == Key(t) \in DOMAIN nodes[p].map
GetChild(nodes, p, t) == IF HasChild(nodes, p, t) THEN nodes[p].map[Key(t)]
                                                  ELSE None

\* AbstractNode::addChild and removeChild; the index is what the signals say.
AddChild(nodes, p, n) ==
  LET key == Key(nodes[n].title)
  IN  [nodes EXCEPT
         ![p].map  = [k \in DOMAIN @ \union {key} |-> IF k = key THEN n
                                                                 ELSE @[k]],
         ![p].list = InsertAt(@, IndexFor(nodes, @, n), n)]

RemoveChild(nodes, p, n) ==
  [nodes EXCEPT ![p].map  = Without(@, {Key(nodes[n].title)}),
                ![p].list = RemoveAt(@, IndexFor(nodes, @, n))]

IndexOf(nodes, n) == IndexFor(nodes, nodes[nodes[n].parent].list, n)

-----------------------------------------------------------------------------
(* The items: TreeWidgetItem's slots. *)

OnNodeChildCreated(shown, p, n, title, index) ==
  [m \in DOMAIN shown \union {n} |->
     IF m = n THEN NewItem(title)
     ELSE IF m = p THEN [shown[p] EXCEPT !.items = InsertAt(@, index, n)]
     ELSE shown[m]]

\* Wrong: the item is put at its new place before it is taken away.
OnNodeChildCopied(shown, p, prev, new) ==
  [shown EXCEPT ![p].items = RemoveAt(InsertAt(@, new, @[prev]), prev)]

OnNodeChildMoved(shown, p, prev, new) ==
  [shown EXCEPT ![p].items = InsertAt(RemoveAt(@, prev), new, @[prev])]

OnNodeChildRemoved(shown, p, index) ==
  Without([shown EXCEPT ![p].items = RemoveAt(@, index)],
          ItemsBelow(shown, shown[p].items[index]))

OnNodeTitleChanged(shown, n, title) == [shown EXCEPT ![n].text = title]

\* TreeWidgetBase::setRoot: an item for every node, children in list order.
ShowTree(nodes) ==
  [n \in DOMAIN nodes |-> [text |-> nodes[n].title, items |-> nodes[n].list]]

-----------------------------------------------------------------------------
(* PboNode. *)

FreeNodes(s) == (1 .. MaxNodes) \ DOMAIN s.tree
FreshNode(s) == CHOOSE n \in FreeNodes(s): \A m \in FreeNodes(s): n <= m

CreateNode(s, p, title, type) ==
  LET n == FreshNode(s)
      nodes == [m \in DOMAIN s.tree \union {n} |->
                  IF m = n THEN NewNode(type, title, p) ELSE s.tree[m]]
      added == AddChild(nodes, p, n)
  IN  [s EXCEPT !.tree = added,
                !.view = IF s.emits
                         THEN OnNodeChildCreated(@, p, n, title,
                                                 IndexOf(added, n))
                         ELSE @]

\* Wrong: what is below the node stays.
RemoveNodeAlone(s, n) ==
  [s EXCEPT !.tree = Without(RemoveChild(@, s.tree[n].parent, n), {n}),
            !.view = OnNodeChildRemoved(@, s.tree[n].parent,
                                        IndexOf(s.tree, n))]

RemoveNode(s, n) ==
  LET p == s.tree[n].parent
  IN  [s EXCEPT !.tree = Without(RemoveChild(@, p, n), NodesBelow(@, n)),
                !.view = IF s.emits
                         THEN OnNodeChildRemoved(@, p, IndexOf(s.tree, n))
                         ELSE @]

\* Wrong: the first copy is "(1)", and so is the second.
PickFirstTitle(s, p, t) == CopyTitle(t, 1)

\* pickFolderTitle and pickFileTitle: the first number that is free.
PickTitle(s, p, t) ==
  LET free == {k \in 1 .. MaxCopy + 1: ~HasChild(s.tree, p, CopyTitle(t, k))}
  IN  CopyTitle(t, CHOOSE k \in free: \A j \in free: k <= j)

\* Past the bounds of the model the scene is full, and no step ends with it.
Created(d, s, title, type) ==
  IF FreeNodes(s) = {} \/ title.copy > MaxCopy
  THEN [d EXCEPT !.scene.outcome = "full"]
  ELSE [scene |-> CreateNode(s, d.node, title, type), node |-> FreshNode(s)]

\* One segment of createHierarchy: d.node is where it has got to.
Put(d, title, type, onConflict) ==
  LET s == d.scene
      existing == GetChild(s.tree, d.node, title)
  IN  IF s.outcome # "done" THEN d
      ELSE IF existing = None THEN Created(d, s, title, type)
      ELSE IF type = "Folder" /\ s.tree[existing].type = "Folder"
      THEN [d EXCEPT !.node = existing]
      ELSE CASE onConflict = "Replace" ->
                  Created(d, RemoveNode(s, existing), title, type)
             [] onConflict = "Copy" ->
                  Created(d, s, PickTitle(s, d.node, title), type)
             [] OTHER -> [d EXCEPT !.scene.outcome = "thrown"]

CreateHierarchy(s, p, path, onConflict) ==
  LET descend[i \in 0 .. Len(path) - 1] ==
        IF i = 0 THEN [scene |-> s, node |-> p]
        ELSE Put(descend[i - 1], path[i], "Folder", onConflict)
      file == Put(descend[Len(path) - 1], Last(path), "File", onConflict)
  IN  [file EXCEPT !.scene.changed =
         @ \/ (s.emits /\ file.scene.outcome = "done")]

\* PboNode::get: there is nothing below a file.
Get(nodes, p, path) ==
  LET down[i \in 0 .. Len(path)] ==
        IF i = 0 THEN p
        ELSE IF down[i - 1] = None THEN None
        ELSE GetChild(nodes, down[i - 1], path[i])
  IN  down[Len(path)]

\* Wrong: only the end of the path is looked at.
IsEndConflict(nodes, p, path) == Get(nodes, p, path) # None

\* IsPathConflict: a file where the path has a folder, or anything where the
\* path has its file.
IsPathConflict(nodes, p, path) ==
  \/ Get(nodes, p, path) # None
  \/ \E i \in 1 .. Len(path) - 1:
       LET n == Get(nodes, p, SubSeq(path, 1, i))
       IN  n # None /\ nodes[n].type = "File"

\* Wrong: the folder that is left empty stays.
RemoveAlone(s, n) == [RemoveNode(s, n) EXCEPT !.changed = TRUE]

\* Wrong: nobody is told.
RemoveSilently(s, n) == [RemoveNode(s, n) EXCEPT !.changed = FALSE]

\* removeFromHierarchy takes with it the folders that would be left empty.
OnlyChildren(nodes) ==
  {m \in DOMAIN nodes \ {Root}:
     nodes[m].parent # Root /\ Len(nodes[nodes[m].parent].list) = 1}

RemoveFromHierarchy(s, n) ==
  LET emptied == Reached(n, {<<m, s.tree[m].parent>>: m \in OnlyChildren(s.tree)})
      top == CHOOSE m \in emptied: m \notin OnlyChildren(s.tree)
  IN  [RemoveNode(s, top) EXCEPT !.changed = TRUE]

\* PboNode::setTitle, of a node below the root.
SetTitle(s, n, title) ==
  LET p == s.tree[n].parent
      renamed == AddChild([RemoveChild(s.tree, p, n) EXCEPT ![n].title = title],
                          p, n)
      prev  == IndexOf(s.tree, n)
      new   == IndexOf(renamed, n)
      moved == IF prev # new THEN OnNodeChildMoved(s.view, p, prev, new)
                             ELSE s.view
  IN  [s EXCEPT !.tree = renamed,
                !.view = OnNodeTitleChanged(moved, n, title),
                !.changed = TRUE]

-----------------------------------------------------------------------------
(* The operations. *)

\* Bound: a path has one or two segments, one or two are inserted at once.
Paths == {<<t>>: t \in Titles} \union Titles \X Titles

DescriptorLists ==
  {list \in {<<d>>: d \in Paths} \union Paths \X Paths:
     Len(FlattenSeq(list)) <= MaxSegments}

Folders == {n \in DOMAIN tree: tree[n].type # "File"}

Becomes(s) ==
  /\ s.outcome # "full"
  /\ tree' = s.tree
  /\ view' = s.view
  /\ changed' = s.changed
  /\ outcome' = s.outcome
  /\ UNCHANGED loaded

\* DocumentReader::read builds the nodes, nobody listens yet; then the window
\* shows them.
Load(entries) ==
  /\ ~loaded
  /\ LET empty == [Scene(FALSE) EXCEPT
                     !.tree = [n \in {Root} |-> NewNode("Container", RootTitle, None)]]
         read[i \in 0 .. Len(entries)] ==
           IF i = 0 THEN empty
           ELSE CreateHierarchy(read[i - 1], Root, entries[i], "Copy").scene
         s == read[Len(entries)]
     IN  /\ s.outcome # "full"
         /\ tree' = s.tree
         /\ view' = ShowTree(s.tree)
  /\ loaded' = TRUE
  /\ changed' = FALSE
  /\ outcome' = "done"

Unload ==
  /\ loaded
  /\ tree' = <<>>
  /\ view' = <<>>
  /\ loaded' = FALSE
  /\ changed' = FALSE
  /\ outcome' = "done"

\* One descriptor of createNodeSet.  The node in the way is looked up by the
\* whole path, and its cached files are dropped without a check for null.
InsertNode(s, p, path, resolution) ==
  IF s.outcome # "done" \/ resolution = "Skip" THEN s
  ELSE IF resolution \in {"Copy", "Replace"} /\ Get(s.tree, p, path) = None
  THEN [s EXCEPT !.outcome = "crashed"]
  ELSE CreateHierarchy(s, p, path, resolution).scene

\* checkConflicts, before anything is inserted.
CheckConflicts(p, descriptors) ==
  {d \in ToSet(descriptors): IsPathConflict(tree, p, d)}

\* createNodeSet, with what the user said about each path in conflict.
CreateNodeSet(p, descriptors, choice) ==
  LET Resolution(d) == IF d \in DOMAIN choice THEN choice[d] ELSE "Unset"
      insert[i \in 0 .. Len(descriptors)] ==
        IF i = 0 THEN Scene(TRUE)
        ELSE InsertNode(insert[i - 1], p, descriptors[i], Resolution(descriptors[i]))
  IN  Becomes(insert[Len(descriptors)])

\* addFilesFromFileSystemExecute, for a user who accepts the dialog.  A paste
\* of nodes does the same; what it removes of a cut is not modelled.
AddFiles(p, descriptors) ==
  \E choice \in [CheckConflicts(p, descriptors) -> Resolutions \ {"Unset"}]:
    CreateNodeSet(p, descriptors, choice)

\* Wrong: what is below something selected is selected, too.
AllSelections ==
  {S \in SUBSET (DOMAIN tree \ {Root}): Cardinality(S) \in 1 .. 2}

\* getSelectedHierarchies leaves out what is below something selected.  Bound:
\* at most two nodes are selected.
Selections ==
  {S \in SUBSET (DOMAIN tree \ {Root}):
     /\ Cardinality(S) \in 1 .. 2
     /\ \A m, n \in S: m # n => m \notin NodesBelow(tree, n)}

Drop(s, n) == IF n \in DOMAIN s.tree THEN RemoveFromHierarchy(s, n)
              ELSE [s EXCEPT !.outcome = "dangling"]

\* selectionRemove, in whatever order the items are selected.  It holds plain
\* pointers: one of them dangles if its node went with an earlier one.
SelectionRemove(nodes) ==
  LET drop[i \in 0 .. Len(nodes)] == IF i = 0 THEN Scene(TRUE)
                                     ELSE Drop(drop[i - 1], nodes[i])
  IN  Becomes(drop[Len(nodes)])

\* Wrong: a title in a different casing is taken for a free one.
MayBeTitledByCase(n, title) ==
  \A m \in ToSet(tree[tree[n].parent].list): tree[m].title # title

\* PboNodeTransaction::verifyTitle
MayBeTitled(n, title) ==
  GetChild(tree, tree[n].parent, title) \in {None, n}

\* The rename dialog, which is modal.  The root has no siblings, and what a
\* new title of the root does is part of MainWindow.
Rename(n, title) ==
  /\ title # tree[n].title
  /\ MayBeTitled(n, title)
  /\ Becomes(SetTitle(Scene(TRUE), n, title))

Init ==
  /\ tree = <<>>
  /\ view = <<>>
  /\ loaded = FALSE
  /\ changed = FALSE
  /\ outcome = "done"

Edit ==
  /\ loaded
  /\ \/ \E p \in Folders: \E descriptors \in DescriptorLists:
          AddFiles(p, descriptors)
     \/ \E S \in Selections: \E nodes \in SetToSeqs(S): SelectionRemove(nodes)
     \/ \E n \in DOMAIN tree \ {Root}: \E t \in Titles: \E k \in {0, 1}:
          Rename(n, CopyTitle(t, k))

\* After a crash, or the use of a node that is gone, nothing is certain.
Next ==
  /\ outcome \in {"done", "thrown"}
  /\ \/ \E entries \in DescriptorLists: Load(entries)
     \/ Unload
     \/ Edit

Spec == Init /\ [][Next]_vars

-----------------------------------------------------------------------------
(* Properties. *)

AllTitles == {CopyTitle(t, k): t \in Titles, k \in 0 .. MaxCopy}

TypeOK ==
  /\ DOMAIN tree \subseteq 0 .. MaxNodes
  /\ DOMAIN view \subseteq 0 .. MaxNodes
  /\ \A n \in DOMAIN tree:
       /\ tree[n].type = "Container" <=> n = Root
       /\ tree[n].type \in {"Container", "Folder", "File"}
       /\ tree[n].title \in AllTitles
       /\ tree[n].parent \in DOMAIN tree \union {None}
       /\ DOMAIN tree[n].map \subseteq {Key(t): t \in AllTitles}
       /\ tree[n].list \in Seq(DOMAIN tree)
  /\ \A n \in DOMAIN view: view[n].text \in AllTitles
  /\ loaded \in BOOLEAN
  /\ changed \in BOOLEAN
  /\ outcome \in {"done", "thrown", "crashed", "dangling"}

\* A node's map of children and its list of children hold the same nodes,
\* those whose parent it is, so no two siblings differ in case only; and the
\* list is in order, without which the binary search that every removal and
\* every signal depends on would miss.
SiblingsConsistent(nodes, p) ==
  LET list == nodes[p].list
  IN  /\ {n \in DOMAIN nodes: nodes[n].parent = p} = ToSet(list)
      /\ DOMAIN nodes[p].map = {Key(nodes[n].title): n \in ToSet(list)}
      /\ \A n \in ToSet(list): GetChild(nodes, p, nodes[n].title) = n
      /\ \A i \in 1 .. Len(list) - 1: Less(nodes[list[i]], nodes[list[i + 1]])

ChildrenConsistent == \A p \in DOMAIN tree: SiblingsConsistent(tree, p)

\* The items, which know of the nodes by the indexes in signals alone, show
\* the nodes there are, with their titles and in their order.
ViewMirrorsTree == view = ShowTree(tree)

\* Removing several nodes at once, each with the folders it leaves empty and
\* everything below, never comes to one that an earlier removal took along.
NoDanglingNode == outcome # "dangling"

\* A PBO has no entry for a folder: one that is empty would not survive a
\* save.  No operation leaves one behind, one that is cut short neither.
NoEmptyFolder ==
  \A n \in DOMAIN tree: tree[n].type = "Folder" => tree[n].list # <<>>

\* One step up from a node, with the keys that lead back down.
OneUp(nodes, at) ==
  IF at.node = Root THEN at
  ELSE [node |-> nodes[at.node].parent,
        keys |-> <<Key(nodes[at.node].title)>> \o at.keys]

\* The keys from the root to n: what the path of an entry means.
KeyPath(nodes, n) ==
  LET up[k \in 0 .. MaxNodes] == IF k = 0 THEN [node |-> n, keys |-> <<>>]
                                 ELSE OneUp(nodes, up[k - 1])
  IN  up[MaxNodes].keys

Entries(nodes) ==
  {KeyPath(nodes, n): n \in {m \in DOMAIN nodes: nodes[m].type = "File"}}

Comparable(a, b) == IsPrefix(a, b) \/ IsPrefix(b, a)

\* checkConflicts asks the user about the entries that createHierarchy could
\* not insert without an answer, and about no others.
ConflictsForeseen ==
  \A p \in Folders, path \in Paths:
    LET c == CreateHierarchy(Scene(TRUE), p, path, "Unset").scene
    IN  c.outcome # "full" =>
          (c.outcome = "thrown" <=> IsPathConflict(tree, p, path))

\* The answer decides about nothing else: a replacement takes away the
\* entries that cannot be beside the new one and no others, a copy takes
\* away none and adds one, under its own path if that is free.
InsertionKeepsTheRest ==
  \A p \in Folders, path \in Paths:
    LET Now(r)  == CreateHierarchy(Scene(TRUE), p, path, r).scene
        old     == Entries(tree)
        new     == KeyPath(tree, p) \o [i \in DOMAIN path |-> Key(path[i])]
        replace == Now("Replace")
        copy    == Now("Copy")
    IN  /\ replace.outcome # "full" =>
             Entries(replace.tree) = {e \in old: ~Comparable(e, new)} \union {new}
        /\ copy.outcome # "full" =>
             /\ old \subseteq Entries(copy.tree)
             /\ Cardinality(Entries(copy.tree) \ old) = 1
             /\ ~IsPathConflict(tree, p, path) => new \in Entries(copy.tree)

\* The window hears of every change: without that a changed document would
\* close without a question.
ChangesAnnounced == [][loaded /\ loaded' /\ tree' # tree => changed']_vars

\* func_test.cpp takes a file where the path has a folder for a conflict, and
\* pbonode_test.cpp replaces that file by the folder.  Whatever the user
\* answers, the insertion is carried out.
AnswersCarriedOut == outcome # "crashed"
=============================================================================
