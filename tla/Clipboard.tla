------------------------------ MODULE Clipboard ------------------------------
(***************************************************************************)
(* The tree widget's Cut, Copy, Paste, drag and drop, and Open             *)
(* (ui/treewidget/treewidget.cpp) with the things they leave for later: the *)
(* nodes DeleteOp is to delete, the descriptors on the clipboard, and the  *)
(* files TempBackend and ExecBackend have extracted (io/bb), all of them   *)
(* kept while entries are removed, renamed and replaced and the PBO is     *)
(* saved and opened again.                                                 *)
(*                                                                         *)
(* How the nodes hang together is PboTree; here an entry is its path.  The *)
(* tree is disabled while one of its operations runs, and nothing else is  *)
(* done then: what happens when that is broken is MainWindow.              *)
(***************************************************************************)
EXTENDS Integers, Sequences, FiniteSets, SequencesExt, FiniteSetsExt

CONSTANTS
  Entries,     \* the entries of the PBO that is opened: [path, bytes]
  FileTitles,  \* titles of files
  Bytes,       \* contents an entry may have
  External,    \* the contents of the files outside that may be added
  MaxNodes,    \* bound on the nodes there are at once
  MaxDepth,    \* bound on the segments of a path
  MaxCopy,     \* bound on the number of copies of a title
  MaxLayouts,  \* bound on the layouts the PBO file goes through
  MaxTurns,    \* bound on the things the user, or a viewer, does
  Mishaps      \* what may go on that the code is not up to

\* A title is a name and the number n of "name(n)", 0 for none.  Folders and
\* files have different names: a file where a path has a folder is PboTree's.
Title(name, copy) == <<name, copy>>

AllMishaps ==
  {"stale paste",  \* a paste though the last copy, cut or drag came to nothing
   "across save",  \* a paste of descriptors of a PBO that was saved meanwhile
   "onto itself",  \* a move below, or in the place of, what is moved
   "skip",         \* a conflict of something that is moved answered by Skip
   "refused",      \* a drop whose conflicts dialog is cancelled
   "copy drop",    \* a drop onto the own tree as a copy
   "taken title",  \* a copy gets the title of another one that is inserted
   "vacated",      \* an entry comes to a path that another one has left
   "homonyms",     \* two of the nodes taken have one title
   "retry",        \* an entry whose extraction failed is taken again
   "late write"}   \* a viewer writes its file after the entry was opened anew

ASSUME MishapsAssumption == Mishaps \subseteq AllMishaps
ASSUME BoundsAssumption ==
  {MaxNodes, MaxDepth, MaxCopy, MaxLayouts, MaxTurns} \subseteq Nat \ {0}
ASSUME ContentsAssumption ==
  External \subseteq Bytes /\ \A e \in Entries: e.bytes \in Bytes

FileNames == FileTitles \union {Last(e.path)[1]: e \in Entries}
FolderNames == UNION {{title[1]: title \in ToSet(Front(e.path))}: e \in Entries}

ASSUME NamesAssumption ==
  /\ IsFiniteSet(Entries)
  /\ FileNames \cap FolderNames = {}
  /\ \A e \in Entries:
       e.path \in Seq((FileNames \union FolderNames) \X Nat) \ {<<>>}

VARIABLES
  nodes,      \* nodes[n]: path and source of the node n; the root is not one
  disk,       \* the PBO file: which layout it has, and its entries
  delete,     \* DeleteOp::nodes_
  clipboard,  \* the descriptors on the clipboard
  temp,       \* temp[p]: the contents of the file TempBackend has at path p
  exec,       \* exec[p]: ExecBackend::extracted_ at path p
  op,         \* the operation of the tree that runs in the background
  outcome,    \* how the last step ended
  gesture,    \* what the user's last copy, cut or drag came to
  cut,        \* the nodes that are cut, for the user
  vacated,    \* the paths that entries have left since the PBO was opened
  meant,      \* the nodes the last step was meant to take away
  given,      \* the files the last step has given to other programs
  turns       \* how many things the user, or a viewer, has done

vars == <<nodes, disk, delete, clipboard, temp, exec, op, outcome,
          gesture, cut, vacated, meant, given, turns>>

user == <<gesture, cut, vacated>>

Gone == 0         \* in place of a pointer to a node that is no more
NoSource == [layout |-> -1, bytes |-> "none"]
Own == 0          \* the layout of a source that is a file of its own
Garbage == "garbage"
Partial == "partial"

Idle == [kind |-> "none", sel |-> {}, todo |-> {}, file |-> "none",
         cancelled |-> FALSE, failed |-> FALSE]

-----------------------------------------------------------------------------
(* Nodes and what they refer to. *)

\* A PboBinarySource is a path and an offset: when the file is laid out
\* differently by now, something else is there.
Read(d, src) == IF src.layout \in {Own, d.layout} THEN src.bytes ELSE Garbage

At(ns, path) == {n \in DOMAIN ns: ns[n].path = path}
Below(ns, S) ==
  {m \in DOMAIN ns: \E n \in S \cap DOMAIN ns: IsPrefix(ns[n].path, ns[m].path)}
FilesOf(ns) == {n \in DOMAIN ns: ns[n].src # NoSource}
FilesBelow(ns, S) == Below(ns, S) \cap FilesOf(ns)
Folders == {<<>>} \union {nodes[n].path: n \in DOMAIN nodes \ FilesOf(nodes)}
PathsOf(ns, S) == {ns[n].path: n \in S}

Contents(ns, d) == {Read(d, ns[n].src): n \in FilesOf(ns)}

\* A scene is what an operation works on.
Scene ==
  [nodes |-> nodes, temp |-> temp, exec |-> exec, delete |-> delete,
   removed |-> {}, outcome |-> "done"]

Without(f, S) == [x \in DOMAIN f \ S |-> f[x]]

\* A pointer that DeleteOp holds to a node that goes points to nothing.
RemoveNodes(s, S) ==
  [s EXCEPT !.nodes = Without(@, S), !.removed = @ \union S,
            !.delete = [i \in DOMAIN @ |-> IF @[i] \in S THEN Gone ELSE @[i]]]

\* PboNode::removeFromHierarchy takes with it the folders left empty.
RemoveFromHierarchy(s, n) ==
  LET path == s.nodes[n].path
      Children(k) == {m \in DOMAIN s.nodes: /\ Len(s.nodes[m].path) = k + 1
                                            /\ IsPrefix(SubSeq(path, 1, k),
                                                        s.nodes[m].path)}
      top == Min({k \in 1 .. Len(path):
                    \A j \in k .. Len(path) - 1: Cardinality(Children(j)) = 1})
  IN  RemoveNodes(s, Below(s.nodes, At(s.nodes, SubSeq(path, 1, top))))

\* Ids are taken again only when nothing refers to the old node.
FreeIds(s) ==
  (1 .. MaxNodes) \ (DOMAIN s.nodes \union s.removed \union cut
                     \union {s.delete[i]: i \in DOMAIN s.delete})

Put(s, path, src) ==
  IF FreeIds(s) = {} \/ Len(path) > MaxDepth THEN [s EXCEPT !.outcome = "full"]
  ELSE LET id == Min(FreeIds(s))
       IN  [s EXCEPT !.nodes = [n \in DOMAIN @ \union {id} |->
              IF n = id THEN [path |-> path, src |-> src] ELSE @[n]]]

\* The title a copy gets: the first number that is free.
CopyPath(ns, path) ==
  LET Copied(k) == Front(path) \o <<Title(Last(path)[1], k)>>
  IN  Copied(Min({k \in 1 .. MaxNodes + 1: At(ns, Copied(k)) = {}}))

PutFolder(s, path) ==
  IF At(s.nodes, path) # {} THEN s ELSE Put(s, path, NoSource)

PutFolders(s, path) ==
  LET put[k \in 0 .. Len(path) - 1] ==
        IF k = 0 THEN s ELSE PutFolder(put[k - 1], SubSeq(path, 1, k))
  IN  put[Len(path) - 1]

\* PboNode::createHierarchy
CreateHierarchy(s, path, src, onConflict) ==
  LET f == PutFolders(s, path)
      existing == At(f.nodes, path)
      copied == CopyPath(f.nodes, path)
  IN  IF f.outcome # "done" THEN f
      ELSE IF existing = {} THEN Put(f, path, src)
      ELSE CASE onConflict = "Replace" -> Put(RemoveNodes(f, existing), path, src)
             [] onConflict = "Copy"    -> IF Last(copied)[2] > MaxCopy
                                          THEN [f EXCEPT !.outcome = "full"]
                                          ELSE Put(f, copied, src)
             [] OTHER                  -> [f EXCEPT !.outcome = "thrown"]

\* Wrong: only the files for opening are dropped.
ClearExec(s, path) == [s EXCEPT !.exec = Without(@, {path})]

\* BinaryBackend::clear, of the entry that is in the way.
Clear(s, path) ==
  [s EXCEPT !.temp = Without(@, {path}), !.exec = Without(@, {path})]

\* PboModel::createNodeSet, of one descriptor and of all of them.
InsertNode(s, dir, d, answer) ==
  LET path == dir \o d.path
      resolution == IF path \in DOMAIN answer THEN answer[path] ELSE "Unset"
  IN  IF s.outcome # "done" \/ resolution = "Skip" THEN s
      ELSE CreateHierarchy(IF resolution = "Unset" THEN s ELSE Clear(s, path),
                           path, d.src, resolution)

CreateNodeSet(s, dir, list, answer) ==
  LET insert[i \in 0 .. Len(list)] ==
        IF i = 0 THEN s ELSE InsertNode(insert[i - 1], dir, list[i], answer)
  IN  insert[Len(list)]

-----------------------------------------------------------------------------
(* DeleteOp. *)

\* commit goes over plain pointers.  A node that went with an earlier one of
\* them, or long ago, is used after it is gone.
DeleteOne(s, i) ==
  IF s.outcome # "done" THEN s
  ELSE IF s.delete[i] = Gone THEN [s EXCEPT !.outcome = "dangling"]
  ELSE RemoveFromHierarchy(s, s.delete[i])

DeleteAll(s) ==
  LET delete_[i \in 0 .. Len(s.delete)] ==
        IF i = 0 THEN s ELSE DeleteOne(delete_[i - 1], i)
  IN  delete_[Len(s.delete)]

\* Wrong: what was deleted stays scheduled.
CommitForever(s) == DeleteAll(s)

Commit(s) == [DeleteAll(s) EXCEPT !.delete = <<>>]

-----------------------------------------------------------------------------
(* The operations that begin in the tree and go on in the background. *)

\* Bound: one or two nodes, none below another, are selected.
Selections ==
  {S \in SUBSET DOMAIN nodes:
     /\ Cardinality(S) \in 1 .. 2
     /\ \A m, n \in S: m # n => m \notin Below(nodes, {n})}

\* NodeDescriptors::packNodes: paths are relative to what is selected.
Pack(S) ==
  UNION {{[node |-> m,
           path |-> SubSeq(nodes[m].path, Len(nodes[n].path), Len(nodes[m].path)),
           src  |-> nodes[m].src]: m \in FilesBelow(nodes, {n})}: n \in S}

\* What other programs find at the URLs: for a folder, all there is in it.
Found(S) ==
  UNION {{<<p, temp[p]>>: p \in {q \in DOMAIN temp: IsPrefix(nodes[n].path, q)}}:
           n \in S}

\* What they should find.
Expected(S) ==
  {<<nodes[m].path, Read(disk, nodes[m].src)>>: m \in FilesBelow(nodes, S)}

Nothing == [gone |-> {}, forsaken |-> {}]
Given(entries, files) == [entries |-> entries, files |-> files]
NoFiles == Given({}, {})

\* A mishap is let happen only when it is among the Mishaps.
Only(mishap, happens) == happens => mishap \in Mishaps

Launch(kind, S) ==
  /\ op' = [Idle EXCEPT !.kind = kind, !.sel = S, !.todo = FilesBelow(nodes, S)]
  /\ outcome' = "done"
  /\ meant' = Nothing
  /\ given' = NoFiles
  /\ UNCHANGED <<nodes, disk, clipboard, temp, exec, user>>

TakeFiles(kind, S) ==
  /\ Only("homonyms", \E c, d \in Pack(S): c # d /\ c.path = d.path)
  /\ Only("vacated", \E n \in S, p \in vacated: IsPrefix(nodes[n].path, p))
  /\ Only("retry", \E p \in PathsOf(nodes, FilesBelow(nodes, S)):
                     p \in DOMAIN temp /\ temp[p] = Partial)
  /\ Launch(kind, S)

\* Wrong: what an earlier cut has scheduled stays scheduled.
CopyAndKeep(S) == TakeFiles("copy", S) /\ UNCHANGED delete

SelectionCopy(S) == TakeFiles("copy", S) /\ delete' = <<>>

SelectionCut(S) == TakeFiles("cut", S) /\ delete' = SetToSeq(S)

DragStarted(S) == TakeFiles("drag", S) /\ delete' = SetToSeq(S)

SelectionOpen(n) ==
  /\ nodes[n].src # NoSource
  /\ Launch("open", {n})
  /\ UNCHANGED delete

Cancel ==
  /\ op.kind # "none" /\ ~op.cancelled
  /\ op' = [op EXCEPT !.cancelled = TRUE]
  /\ UNCHANGED <<nodes, disk, delete, clipboard, temp, exec, outcome, user,
                 meant, given>>

Synced(n, t, o) ==
  /\ op.kind \in {"copy", "cut", "drag"} /\ n \in op.todo
  /\ temp' = t
  /\ op' = o
  /\ UNCHANGED <<nodes, disk, delete, clipboard, exec, outcome, user, meant, given>>

Extended(f, x, y) == [z \in DOMAIN f \union {x} |-> IF z = x THEN y ELSE f[z]]

\* TempBackend::syncPboFileNode: the file that is at the path is good enough.
\* A cancelled extraction removes what it has written.
SyncPboFileNode(n) ==
  LET path == nodes[n].path
  IN  Synced(n, IF path \in DOMAIN temp \/ op.cancelled THEN temp
                ELSE Extended(temp, path, Read(disk, nodes[n].src)),
             [op EXCEPT !.todo = @ \ {n}])

\* The source cannot be read.  That ends the whole operation, and leaves what
\* was written.
SyncFails(n) ==
  LET path == nodes[n].path
  IN  /\ path \notin DOMAIN temp
      /\ Synced(n, Extended(temp, path, Partial),
                [op EXCEPT !.todo = {}, !.failed = TRUE])

-----------------------------------------------------------------------------
(* ExecBackend.  A cached file is as it was extracted, or changed by its    *)
(* viewer, or gone; and a viewer may hold it so that nobody else opens it.  *)

\* tryReuse of the cached file i, after those before it.
TryReuse(cache, t, i, takes) ==
  LET file == cache[i]
  IN  IF t.found \/ t.outcome # "done" \/ (file.state = "same" /\ file.locked)
      THEN [t EXCEPT !.kept = Append(@, file)]
      ELSE IF file.state = "same"
      THEN [t EXCEPT !.found = TRUE, !.bytes = file.bytes,
                     !.kept = IF takes THEN @ ELSE Append(@, file)]
      ELSE IF t.kept = <<>> /\ i < Len(cache)
           THEN [t EXCEPT !.outcome = "undefined"] ELSE t

TryAll(cache, takes) ==
  LET try[i \in 0 .. Len(cache)] ==
        IF i = 0
        THEN [found |-> FALSE, bytes |-> "none", kept |-> <<>>, outcome |-> "done"]
        ELSE TryReuse(cache, try[i - 1], i, takes)
  IN  try[Len(cache)]

\* Wrong: the file that is found is taken out of the cache.
TryFindAndTake(cache) == TryAll(cache, TRUE)

\* tryFindExisting: goes by an iterator, and erases what is of no use any
\* more.  QList erases its first item by moving its own beginning, so that the
\* iterator stays at the item that was destroyed when others follow.
TryFindExisting(cache) == TryAll(cache, FALSE)

\* execSync, the whole of the worker of Open.  What a cancelled extraction has
\* removed is cached all the same.
ExecSync(n) ==
  LET path  == nodes[n].path
      cache == TryFindExisting(IF path \in DOMAIN exec THEN exec[path] ELSE <<>>)
      bytes == Read(disk, nodes[n].src)
      file  == [bytes |-> bytes, locked |-> FALSE,
                state |-> IF op.cancelled THEN "gone" ELSE "same"]
  IN  /\ op.kind = "open" /\ n \in op.todo
      /\ op' = [op EXCEPT !.todo = {}, !.file = IF cache.found THEN cache.bytes
                                               ELSE bytes]
      /\ exec' = IF cache.found THEN Extended(exec, path, cache.kept)
                 ELSE Extended(exec, path, cache.kept \o <<file>>)
      /\ outcome' = cache.outcome
      /\ UNCHANGED <<nodes, disk, delete, clipboard, temp, user, meant, given>>

\* The program that shows an opened file writes it, or takes hold of it.
ViewerTouches(path, i, file) ==
  /\ exec[path][i].state = "same"
  /\ exec' = [exec EXCEPT ![path][i] = file]
  /\ outcome' = "done"
  /\ meant' = Nothing
  /\ given' = NoFiles
  /\ UNCHANGED <<nodes, disk, delete, clipboard, temp, op, user>>

ViewerWrites(path, i) ==
  /\ Only("late write", i < Len(exec[path]))
  /\ ViewerTouches(path, i, [bytes |-> "edited", state |-> "changed",
                             locked |-> FALSE])

ViewerLocks(path, i) ==
  ViewerTouches(path, i, [exec[path][i] EXCEPT !.locked = ~@])

-----------------------------------------------------------------------------
(* The ends of those operations, in the thread of the window. *)

OpenExecute ==
  /\ op.kind = "open" /\ op.todo = {}
  /\ op' = Idle
  /\ given' = IF op.cancelled \/ op.failed THEN NoFiles
              ELSE LET n == CHOOSE n \in op.sel: TRUE
                   IN  Given(Expected({n}), {<<nodes[n].path, op.file>>})
  /\ meant' = Nothing
  /\ outcome' = "done"
  /\ UNCHANGED <<nodes, disk, delete, clipboard, temp, exec, user>>

\* copyOrCutExecute.  After a cancel or an error the clipboard is what it was,
\* and what was scheduled stays scheduled.
CopyOrCutExecute ==
  /\ op.kind \in {"copy", "cut"} /\ op.todo = {}
  /\ op' = Idle
  /\ IF op.cancelled \/ op.failed
     THEN /\ gesture' = "stale"
          /\ cut' = {}
          /\ given' = NoFiles
          /\ UNCHANGED clipboard
     ELSE /\ clipboard' = Pack(op.sel)
          /\ gesture' = op.kind
          /\ cut' = IF op.kind = "cut" THEN op.sel ELSE {}
          /\ given' = Given(Expected(op.sel), Found(op.sel))
  /\ meant' = Nothing
  /\ outcome' = "done"
  /\ UNCHANGED <<nodes, disk, delete, temp, exec, vacated>>

\* checkConflicts, and what the user answers to each of them.
Conflicts(dir, parcel) ==
  {p \in {dir \o d.path: d \in parcel}: At(nodes, p) # {}}
Refused == [p \in {<<>>} |-> "Refused"]
Answers(dir, parcel) ==
  [Conflicts(dir, parcel) -> {"Skip", "Copy", "Replace"}] \union
  (IF Conflicts(dir, parcel) = {} THEN {} ELSE {Refused})
Replaced(answer) ==
  UNION {At(nodes, p): p \in {q \in DOMAIN answer: answer[q] = "Replace"}}

\* addFilesFromPbo, when the dialog has had its answer, if there is one.
AddFilesFromPbo(s, dir, list, answer) ==
  LET created == CreateNodeSet(s, dir, list, answer)
  IN  IF answer = Refused THEN s
      ELSE IF created.outcome = "done" THEN Commit(created) ELSE created

\* The user moves S to dir: not below itself nor into its own place, and
\* leaving nothing out; and no copy gets in the way of another one.
PlainMove(S, dir, parcel, answer) ==
  /\ Only("onto itself",
          \E d \in parcel: \E n \in S \cap DOMAIN nodes:
            /\ IsPrefix(nodes[n].path, dir \o d.path)
            /\ nodes[n].path = dir \o d.path => answer[dir \o d.path] # "Copy")
  /\ Only("skip", S # {} /\ \E p \in DOMAIN answer: answer[p] = "Skip")
  /\ Only("taken title",
          \E c, d \in parcel: /\ c # d /\ dir \o c.path \in DOMAIN answer
                               /\ answer[dir \o c.path] = "Copy"
                               /\ Front(c.path) = Front(d.path)
                               /\ Last(c.path)[1] = Last(d.path)[1])

FilePaths(ns) == PathsOf(ns, FilesOf(ns))

Becomes(s) ==
  /\ s.outcome # "full"
  /\ Only("vacated", (FilePaths(s.nodes) \ FilePaths(nodes)) \cap vacated # {})
  /\ nodes' = s.nodes
  /\ temp' = s.temp
  /\ exec' = s.exec
  /\ delete' = s.delete
  /\ outcome' = s.outcome
  /\ vacated' = vacated \union (FilePaths(nodes) \ FilePaths(s.nodes))

\* What was cut is no longer what the user has cut once it is touched.
CutTouched(s) ==
  LET Now(ns) == {<<m, ns[m].path>>: m \in Below(ns, cut)}
  IN  Now(nodes) # Now(s.nodes)

Edited(s) ==
  /\ Becomes(s)
  /\ gesture' = IF CutTouched(s) THEN "stale" ELSE gesture
  /\ cut' = IF CutTouched(s) THEN {} ELSE cut

PasteTo(s, dir, answer) ==
  LET accepted == answer # Refused
  IN  /\ clipboard # {}
      /\ Only("stale paste", gesture = "stale")
      /\ Only("across save",
              \E d \in clipboard: d.src.layout \notin {Own, disk.layout})
      /\ accepted => PlainMove(cut, dir, clipboard, answer)
      /\ Becomes(s)
      /\ gesture' = IF accepted /\ s.outcome = "done" THEN "copy" ELSE gesture
      /\ cut' = IF accepted /\ s.outcome = "done" THEN {} ELSE cut
      /\ meant' = IF accepted
                  THEN [gone |-> Replaced(answer) \union FilesBelow(nodes, cut),
                        forsaken |-> Replaced(answer)]
                  ELSE Nothing
      /\ given' = NoFiles
      /\ UNCHANGED <<disk, clipboard, op>>

\* Wrong: what was cut goes even if the dialog is cancelled.
PasteAnyway(dir, list, answer) ==
  PasteTo(IF answer = Refused THEN Commit(Scene)
          ELSE AddFilesFromPbo(Scene, dir, list, answer), dir, answer)

\* selectionPaste of what was taken from a PBO, in the order it was taken.
SelectionPaste(dir, list, answer) ==
  PasteTo(AddFilesFromPbo(Scene, dir, list, answer), dir, answer)

\* The end of a drag as dragStartExecute sees it.  An exception in the drop
\* ended the drop and not the drag.
DragEnds(s, action) ==
  IF action # "move" \/ s.outcome = "full" THEN s
  ELSE [Commit([s EXCEPT !.outcome = "done"]) EXCEPT
          !.outcome = IF @ = "done" THEN s.outcome ELSE @]

Dragged ==
  /\ ~op.cancelled /\ ~op.failed
  /\ op' = Idle
  /\ given' = Given(Expected(op.sel), Found(op.sel))
  /\ UNCHANGED <<disk, clipboard>>

\* dragStartExecute with a drop onto the own tree, which dropEvent accepts
\* whatever becomes of it.
DropHere(dir, list, answer, action) ==
  LET parcel == Pack(op.sel)
      plain == answer # Refused /\ action = "move"
  IN  /\ Dragged
      /\ Only("refused", answer = Refused)
      /\ Only("copy drop", action = "copy")
      /\ answer # Refused => PlainMove(op.sel, dir, parcel, answer)
      /\ Becomes(DragEnds(AddFilesFromPbo(Scene, dir, list, answer), action))
      /\ gesture' = IF plain /\ gesture # "cut" THEN gesture ELSE "stale"
      /\ cut' = {}
      /\ meant' = [gone |-> Replaced(answer) \union
                            (IF plain THEN FilesBelow(nodes, op.sel) ELSE {}),
                   forsaken |-> Replaced(answer)]

\* dragStartExecute with a drop onto another program, or none at all.
DropElsewhere(action) ==
  LET moved == IF action = "move" THEN FilesBelow(nodes, op.sel) ELSE {}
  IN  /\ Dragged
      /\ Becomes(DragEnds(Scene, action))
      /\ gesture' = IF action = "move" /\ gesture # "cut" THEN gesture ELSE "stale"
      /\ cut' = {}
      /\ meant' = [gone |-> moved, forsaken |-> moved]

\* dragStartExecute after a cancel or an error.
DragFailed ==
  /\ op.cancelled \/ op.failed
  /\ op' = Idle
  /\ gesture' = "stale"
  /\ cut' = {}
  /\ meant' = Nothing
  /\ given' = NoFiles
  /\ outcome' = "done"
  /\ UNCHANGED <<nodes, disk, delete, clipboard, temp, exec, vacated>>

-----------------------------------------------------------------------------
(* The other things that are done to the document meanwhile. *)

Edit(s, gone) ==
  /\ Edited(s)
  /\ meant' = [gone |-> gone, forsaken |-> gone]
  /\ given' = NoFiles
  /\ UNCHANGED <<disk, clipboard, op>>

\* addFilesFromFileSystemExecute, for one file.
Added(title, bytes) == [node |-> Gone, path |-> <<title>>,
                        src |-> [layout |-> Own, bytes |-> bytes]]

AddFile(dir, title, bytes, answer) ==
  Edit(IF answer = Refused THEN Scene
       ELSE CreateNodeSet(Scene, dir, <<Added(title, bytes)>>, answer),
       Replaced(answer))

SelectionRemove(list) ==
  LET remove[i \in 0 .. Len(list)] ==
        IF i = 0 THEN Scene ELSE RemoveFromHierarchy(remove[i - 1], list[i])
  IN  Edit(remove[Len(list)], FilesBelow(nodes, ToSet(list)))

\* Bound: only files are renamed.
SelectionRename(n, title) ==
  LET path == Front(nodes[n].path) \o <<title>>
  IN  /\ nodes[n].src # NoSource
      /\ At(nodes, path) = {}
      /\ Edit([Scene EXCEPT !.nodes[n].path = path], {})

EntriesNow ==
  {[path |-> nodes[n].path, bytes |-> Read(disk, nodes[n].src)]: n \in FilesOf(nodes)}

\* DocumentWriter lays the PBO out anew and makes the nodes refer to it.
Save ==
  LET layout == disk.layout + 1
  IN  /\ disk.layout < MaxLayouts
      /\ disk' = [layout |-> layout, entries |-> EntriesNow]
      /\ nodes' = [n \in DOMAIN nodes |->
                     IF nodes[n].src = NoSource THEN nodes[n]
                     ELSE [nodes[n] EXCEPT !.src = [layout |-> layout,
                                                    bytes |-> Read(disk, @)]]]
      /\ outcome' = "done"
      /\ meant' = Nothing
      /\ given' = NoFiles
      /\ UNCHANGED <<delete, clipboard, temp, exec, op, user>>

\* The nodes that a reader makes of the entries; see DocumentReader.
LoadEntry(s, d, e) ==
  CreateHierarchy(s, e.path, [layout |-> d.layout, bytes |-> e.bytes], "Copy")

Loaded(s, d) ==
  LET list == SetToSeq(d.entries)
      load[i \in 0 .. Len(list)] == IF i = 0 THEN s
                                    ELSE LoadEntry(load[i - 1], d, list[i])
  IN  load[Len(list)]

\* loadFile unloads the document: its nodes and its backends, with their files,
\* are gone.  Nobody tells DeleteOp.
Reopen ==
  LET s == Loaded(RemoveNodes(Scene, DOMAIN nodes), disk)
  IN  /\ s.outcome = "done"
      /\ nodes' = s.nodes
      /\ delete' = s.delete
      /\ temp' = <<>>
      /\ exec' = <<>>
      /\ vacated' = {}
      /\ gesture' = IF gesture = "cut" THEN "stale" ELSE gesture
      /\ cut' = {}
      /\ meant' = [gone |-> FilesOf(nodes), forsaken |-> FilesOf(nodes)]
      /\ given' = NoFiles
      /\ outcome' = "done"
      /\ UNCHANGED <<disk, clipboard, op>>

-----------------------------------------------------------------------------
Init ==
  LET d == [layout |-> 1, entries |-> Entries]
      empty == [nodes |-> <<>>, temp |-> <<>>, exec |-> <<>>, delete |-> <<>>,
                removed |-> {}, outcome |-> "done"]
      s == Loaded(empty, d)
  IN  /\ cut = {}
      /\ s.outcome = "done"
      /\ nodes = s.nodes
      /\ disk = d
      /\ delete = <<>>
      /\ clipboard = {}
      /\ temp = <<>>
      /\ exec = <<>>
      /\ op = Idle
      /\ outcome = "done"
      /\ gesture = "none"
      /\ vacated = {}
      /\ meant = Nothing
      /\ given = NoFiles
      /\ turns = 0

Take ==
  \/ \E S \in Selections: SelectionCopy(S) \/ SelectionCut(S) \/ DragStarted(S)
  \/ \E n \in DOMAIN nodes: SelectionOpen(n)

Worker ==
  \E n \in op.todo: \/ SyncPboFileNode(n)
                    \/ SyncFails(n)
                    \/ ExecSync(n)

Drop ==
  /\ op.kind = "drag" /\ op.todo = {}
  /\ \/ \E dir \in Folders: \E answer \in Answers(dir, Pack(op.sel)):
          \E list \in SetToSeqs(Pack(op.sel)): \E action \in {"move", "copy"}:
            DropHere(dir, list, answer, action)
     \/ \E action \in {"move", "copy", "none"}: DropElsewhere(action)
     \/ DragFailed

Paste ==
  \E dir \in Folders: \E answer \in Answers(dir, clipboard):
    \E list \in SetToSeqs(clipboard): SelectionPaste(dir, list, answer)

Change ==
  \/ \E dir \in Folders, name \in FileTitles, bytes \in External:
       \E answer \in Answers(dir, {Added(Title(name, 0), bytes)}):
         AddFile(dir, Title(name, 0), bytes, answer)
  \/ \E S \in Selections: \E list \in SetToSeqs(S): SelectionRemove(list)
  \/ \E n \in DOMAIN nodes, name \in FileTitles: SelectionRename(n, Title(name, 0))
  \/ Save
  \/ Reopen

Viewer ==
  \E path \in DOMAIN exec: \E i \in DOMAIN exec[path]:
    ViewerWrites(path, i) \/ ViewerLocks(path, i)

\* After a step that used what is gone, nothing is certain.
Next ==
  /\ outcome \in {"done", "thrown"}
  /\ \/ /\ op.kind = "none" /\ turns < MaxTurns
        /\ turns' = turns + 1
        /\ Take \/ Paste \/ Change \/ Viewer
     \/ /\ turns' = turns
        /\ Cancel \/ Worker \/ OpenExecute \/ CopyOrCutExecute \/ Drop

Spec == Init /\ [][Next]_vars

-----------------------------------------------------------------------------
(* Properties. *)

TypeOK ==
  /\ DOMAIN nodes \subseteq 1 .. MaxNodes
  /\ \A n \in DOMAIN nodes:
       /\ Len(nodes[n].path) \in 1 .. MaxDepth
       /\ nodes[n].src.layout \in -1 .. MaxLayouts
       /\ nodes[n].src.bytes \in Bytes \union {Garbage, "none"}
  /\ disk.layout \in 1 .. MaxLayouts
  /\ \A i \in DOMAIN delete: delete[i] \in {Gone} \union DOMAIN nodes
  /\ \A p \in DOMAIN temp: temp[p] \in Bytes \union {Garbage, Partial}
  /\ \A p \in DOMAIN exec: exec[p] # <<>>
  /\ op.kind \in {"none", "copy", "cut", "drag", "open"}
  /\ outcome \in {"done", "thrown", "dangling", "undefined"}
  /\ gesture \in {"none", "copy", "cut", "stale"}
  /\ cut # {} => gesture = "cut"

\* Every step takes away the entries the user meant to take away, and no
\* others: a cut its nodes when it is pasted, and once only; a copy none; a
\* drag its nodes when it ends as a move, and none when it does not.
GoneAsMeant ==
  [][FilesOf(nodes) \ FilesOf(nodes)' = meant'.gone]_vars

\* What an entry contained is in the document until it is removed, replaced or
\* moved out of it: moving it about, and saving in between, loses nothing.
ContentsKept ==
  [][LET Kept == (FilesOf(nodes) \ meant'.forsaken)
     IN  {Read(disk, nodes[n].src): n \in Kept} \subseteq Contents(nodes', disk')]_vars

\* No operation uses a node that was removed, replaced or unloaded since it was
\* cut or dragged, nor a cache item that was erased, and none ends half-way.
NothingDangles == outcome = "done"

\* What a viewer is shown, and what another program finds at the URLs of the
\* clipboard or of a drag, are the contents the entries have at that moment.
OthersGetTheEntries == given.entries = given.files
=============================================================================
