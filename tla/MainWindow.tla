----------------------------- MODULE MainWindow -----------------------------
(***************************************************************************)
(* The main window, its tree and its status bar (pbom/ui/mainwindow.cpp,   *)
(* pbom/ui/treewidget/treewidget.cpp, pbom/ui/statusbar.cpp) and the model *)
(* they work on (pbom/model/pbomodel.cpp).                                 *)
(*                                                                         *)
(* The slots run on the GUI thread, one at a time.  Loading, saving and    *)
(* the tree's long operations run on workers of the pool, on the very      *)
(* document the window edits; a QFutureWatcher posts the end of a worker   *)
(* back to the GUI thread.  Nothing is locked: what keeps the two apart is *)
(* which parts of the window are enabled.                                  *)
(***************************************************************************)
EXTENDS Naturals, Sequences

CONSTANTS
  Paths,       \* the PBO files on the disk, or to be
  NoPath,      \* a null path
  MaxContent,  \* bound on the number of contents a document goes through
  Documents,   \* the documents loaded, told apart while something uses them
  NoDocument,  \* a null document
  Patient      \* the user leaves the menu bar alone while the tree is busy

ASSUME PathsAssumption   == NoPath \notin Paths
ASSUME BoundsAssumption  == MaxContent \in Nat \ {0}
ASSUME DocsAssumption    == NoDocument \notin Documents
ASSUME PatientAssumption == Patient \in BOOLEAN

\* prepare: open, extract, copy, cut, drag - the worker reads nodes of the
\* document.  collect: the worker lists files of the disk to be added.
TreeKinds == {"prepare", "collect"}
Kinds     == {"load", "save"} \union TreeKinds

VARIABLES
  \* PboModel
  loadedPath,    \* loadedPath_
  document,      \* document_: null, or which one of the documents loaded
  content,       \* what is in the document: one number per change
  \* the workers; bound: one of each kind at a time
  worker,        \* worker[k]: what the worker of kind k is doing
  finished,      \* the ends of workers posted to the GUI thread
  \* MainWindow, TreeWidget, StatusBar
  hasChanges,    \* hasChanges_; actionFileSave is enabled as it is
  loadedStatus,  \* actionFileSaveAs and actionFileClose are enabled
  menubar,       \* the menu bar is enabled
  tree,          \* the tree is enabled
  bar,           \* whose progress the status bar shows, "none" if hidden
  \* the world, and history
  disk,          \* disk[p]: the contents of the file at p, 0 if there is none
  lastContent,
  abandoned      \* an InvalidOperationException ended a slot

modelVars  == <<loadedPath, document, content>>
windowVars == <<hasChanges, loadedStatus, menubar, tree, bar>>
worldVars  == <<disk, lastContent>>
vars == <<modelVars, worker, finished, windowVars, worldVars, abandoned>>

Idle == [state |-> "idle", document |-> NoDocument, content |-> 0,
         path |-> NoPath, watched |-> FALSE, cancelled |-> FALSE,
         failed |-> FALSE]

-----------------------------------------------------------------------------
(* What a slot does to the window and the workers. *)

\* A disabled menu bar takes the shortcuts of its actions with it.
MenuUsable == menubar /\ (Patient => bar \notin TreeKinds)

\* The tree's actions are in the Edit menu as well as in the tree.
TreeUsable == document # NoDocument /\ (tree \/ MenuUsable)

\* QtConcurrent::run, then StatusBar::progressShow, then setFuture on the
\* watcher.  progressShow throws when the bar is taken: the slot ends there,
\* the event loop goes on, and nobody watches the worker.
Launch(k, p, doc) ==
  /\ worker[k].state = "idle"
  /\ worker' = [worker EXCEPT ![k] =
                  [Idle EXCEPT !.state = "queued", !.document = doc,
                               !.content = content, !.path = p,
                               !.watched = (bar = "none")]]
  /\ bar' = IF bar = "none" THEN k ELSE bar
  /\ abandoned' = (abandoned \/ bar # "none")

\* Wrong: one half of the window stays enabled.
SetIsLoadingMenuOnly == menubar' = FALSE /\ UNCHANGED tree
SetIsLoadingTreeOnly == tree' = FALSE /\ UNCHANGED menubar

SetIsLoading == menubar' = FALSE /\ tree' = FALSE

\* StatusBar::progressHide, with its check.
ProgressHide ==
  /\ bar' = "none"
  /\ abandoned' = (abandoned \/ bar = "none")

ResetIsLoading == menubar' = TRUE /\ tree' = TRUE /\ ProgressHide

BackgroundOpStopped == tree' = TRUE /\ UNCHANGED menubar /\ ProgressHide

\* A change of the document reaches the window as modelChanged.
ChangeDocument ==
  /\ lastContent < MaxContent
  /\ lastContent' = lastContent + 1
  /\ content' = lastContent + 1
  /\ hasChanges' = TRUE

-----------------------------------------------------------------------------
(* The user. *)

\* Open: queryCloseUnsaved, then the loaded document is dropped and the new
\* one is read by a worker.
OpenFile(p) ==
  /\ MenuUsable
  /\ Launch("load", p, NoDocument)
  /\ SetIsLoading
  /\ document' = NoDocument
  /\ loadedPath' = NoPath
  /\ hasChanges' = FALSE
  /\ loadedStatus' = FALSE
  /\ UNCHANGED <<content, finished, disk, lastContent>>

\* Save (p is null) and Save As.
SaveFile(p) ==
  /\ MenuUsable
  /\ IF p = NoPath THEN hasChanges ELSE loadedStatus
  /\ Launch("save", p, document)
  /\ SetIsLoading
  /\ UNCHANGED <<modelVars, finished, hasChanges, loadedStatus, worldVars>>

CloseFile ==
  /\ MenuUsable
  /\ loadedStatus
  /\ document' = NoDocument
  /\ loadedPath' = NoPath
  /\ hasChanges' = FALSE
  /\ loadedStatus' = FALSE
  /\ UNCHANGED <<content, worker, finished, menubar, tree, bar, worldVars,
                 abandoned>>

\* selectionOpen, selectionExtract, selectionCopy, selectionCut, dragStarted
\* and addFilesFromFilesystem: backgroundOpStarted disables the tree only.
StartTreeOperation(k) ==
  /\ TreeUsable
  /\ Launch(k, NoPath, document)
  /\ tree' = FALSE
  /\ UNCHANGED <<modelVars, finished, hasChanges, loadedStatus, menubar,
                 worldVars>>

\* Remove, rename, paste of nodes, headers: done at once, on the GUI thread.
\* A new title of the root is a new path of the model (titleChanged).
EditDocument ==
  /\ TreeUsable
  /\ ChangeDocument
  /\ loadedPath' \in {loadedPath} \union Paths
  /\ UNCHANGED <<document, worker, finished, loadedStatus, menubar, tree, bar,
                 disk, abandoned>>

\* The Cancel button of the status bar; loading does not have it.
ClickCancel ==
  /\ bar \in Kinds \ {"load"}
  /\ ~worker[bar].cancelled
  /\ worker' = [worker EXCEPT ![bar].cancelled = TRUE]
  /\ UNCHANGED <<modelVars, finished, windowVars, worldVars, abandoned>>

-----------------------------------------------------------------------------
(* The workers. *)

\* The end of a worker is posted if somebody watches.
WorkerEnds(k, failed) ==
  IF worker[k].watched
  THEN /\ worker' = [worker EXCEPT ![k].state = "ended", ![k].failed = failed]
       /\ finished' = Append(finished, k)
  ELSE /\ worker' = [worker EXCEPT ![k] = Idle]
       /\ UNCHANGED finished

\* PboModel::loadFile sets the path before there is a document.
LoadBegins ==
  /\ worker["load"].state = "queued"
  /\ worker' = [worker EXCEPT !["load"].state = "running"]
  /\ loadedPath' = worker["load"].path
  /\ UNCHANGED <<document, content, finished, windowVars, worldVars,
                 abandoned>>

\* Wrong: the path of a file that could not be read stays.
LoadEndsWithPath ==
  /\ worker["load"].state = "running"
  /\ \/ /\ disk[worker["load"].path] # 0
        /\ document' \in Documents \ {worker[k].document: k \in Kinds}
        /\ content' = disk[worker["load"].path]
        /\ WorkerEnds("load", FALSE)
     \/ /\ WorkerEnds("load", TRUE)
        /\ UNCHANGED <<document, content>>
  /\ UNCHANGED <<loadedPath, windowVars, worldVars, abandoned>>

LoadEnds ==
  /\ worker["load"].state = "running"
  /\ \/ /\ disk[worker["load"].path] # 0
        /\ document' \in Documents \ {worker[k].document: k \in Kinds}
        /\ content' = disk[worker["load"].path]
        /\ WorkerEnds("load", FALSE)
        /\ UNCHANGED loadedPath
     \/ /\ loadedPath' = NoPath
        /\ WorkerEnds("load", TRUE)
        /\ UNCHANGED <<document, content>>
  /\ UNCHANGED <<windowVars, worldVars, abandoned>>

\* Wrong: the path of a save is that of the load worker.
SaveBeginsAtLoad ==
  /\ worker["save"].state = "queued"
  /\ worker' = [worker EXCEPT !["save"].state = "running",
                              !["save"].path = worker["load"].path]
  /\ UNCHANGED <<modelVars, finished, windowVars, worldVars, abandoned>>

\* PboModel::saveFile picks the path on the worker.
SaveBegins ==
  /\ worker["save"].state = "queued"
  /\ worker' = [worker EXCEPT
                  !["save"].state = "running",
                  !["save"].path  = IF @ = NoPath THEN loadedPath ELSE @]
  /\ UNCHANGED <<modelVars, finished, windowVars, worldVars, abandoned>>

\* DocumentWriter::write, then `if (!cancel()) setLoadedPath(savePath)`.  A
\* cancel may come too late for the writer and in time for that question.
SaveEnds ==
  /\ worker["save"].state = "running"
  /\ \/ /\ disk' = [disk EXCEPT ![worker["save"].path] = content]
        /\ loadedPath' = IF worker["save"].cancelled THEN loadedPath
                                                     ELSE worker["save"].path
        /\ WorkerEnds("save", FALSE)
     \/ /\ worker["save"].cancelled
        /\ WorkerEnds("save", FALSE)
        /\ UNCHANGED <<disk, loadedPath>>
     \/ /\ WorkerEnds("save", TRUE)
        /\ UNCHANGED <<disk, loadedPath>>
  /\ UNCHANGED <<document, content, windowVars, lastContent, abandoned>>

TreeOperationEnds(k) ==
  /\ worker[k].state = "queued"
  /\ \E failed \in BOOLEAN: WorkerEnds(k, failed)
  /\ UNCHANGED <<modelVars, windowVars, worldVars, abandoned>>

RunWorker(k) ==
  \/ k = "load" /\ (LoadBegins \/ LoadEnds)
  \/ k = "save" /\ (SaveBegins \/ SaveEnds)
  \/ k \in TreeKinds /\ TreeOperationEnds(k)

-----------------------------------------------------------------------------
(* The ends of the workers, on the GUI thread. *)

\* A cancelled future is not valid; a failed one throws what the worker threw.
Succeeded(k) == ~worker[k].cancelled /\ ~worker[k].failed

\* Where progressHide throws, the slot ends before it looks at the result.
Delivered == bar # "none"

Take(k) ==
  /\ finished # <<>>
  /\ Head(finished) = k
  /\ finished' = Tail(finished)
  /\ worker' = [worker EXCEPT ![k] = Idle]

LoadComplete ==
  /\ Take("load")
  /\ ResetIsLoading
  /\ loadedStatus' = Succeeded("load")
  /\ hasChanges' = (hasChanges /\ ~(Delivered /\ Succeeded("load")))
  /\ UNCHANGED <<modelVars, worldVars>>

\* Wrong: the result is not looked at.
SaveCompleteUnread ==
  /\ Take("save")
  /\ ResetIsLoading
  /\ hasChanges' = FALSE
  /\ UNCHANGED <<modelVars, loadedStatus, worldVars>>

\* Wrong: a cancelled save leaves the slot first.
SaveCompleteCancelledFirst ==
  /\ Take("save")
  /\ IF worker["save"].cancelled
     THEN UNCHANGED <<menubar, tree, bar, abandoned, hasChanges>>
     ELSE /\ ResetIsLoading
          /\ hasChanges' = (hasChanges /\ ~Succeeded("save"))
  /\ UNCHANGED <<modelVars, loadedStatus, worldVars>>

SaveComplete ==
  /\ Take("save")
  /\ ResetIsLoading
  /\ hasChanges' = (hasChanges /\ ~(Delivered /\ Succeeded("save")))
  /\ UNCHANGED <<modelVars, loadedStatus, worldVars>>

\* openExecute, extractExecute and copyOrCutExecute leave the document alone;
\* dragStartExecute deletes what was dragged out as a move, and
\* addFilesFromFileSystemExecute inserts what the user agrees to.
TreeOperationComplete(k) ==
  /\ Take(k)
  /\ BackgroundOpStopped
  /\ \/ /\ Delivered
        /\ Succeeded(k)
        /\ document # NoDocument
        /\ ChangeDocument
     \/ UNCHANGED <<content, hasChanges, lastContent>>
  /\ UNCHANGED <<loadedPath, document, loadedStatus, disk>>

HandleEvent ==
  \/ LoadComplete
  \/ SaveComplete
  \/ \E k \in TreeKinds: TreeOperationComplete(k)

-----------------------------------------------------------------------------
Init ==
  /\ loadedPath = NoPath
  /\ document = NoDocument
  /\ content = 0
  /\ worker = [k \in Kinds |-> Idle]
  /\ finished = <<>>
  /\ hasChanges = FALSE
  /\ loadedStatus = FALSE
  /\ menubar = TRUE
  /\ tree = TRUE
  /\ bar = "none"
  /\ disk \in [Paths -> {0, 1}]
  /\ lastContent = 1
  /\ abandoned = FALSE

Next ==
  \/ \E p \in Paths: OpenFile(p)
  \/ \E p \in Paths \union {NoPath}: SaveFile(p)
  \/ CloseFile
  \/ \E k \in TreeKinds: StartTreeOperation(k)
  \/ EditDocument
  \/ ClickCancel
  \/ \E k \in Kinds: RunWorker(k)
  \/ HandleEvent

Spec == Init /\ [][Next]_vars

\* The pool runs what is queued, and the event loop handles what is posted;
\* the user need do nothing.
FairSpec ==
  /\ Spec
  /\ \A k \in Kinds: WF_vars(RunWorker(k))
  /\ WF_vars(HandleEvent)

-----------------------------------------------------------------------------
(* Properties. *)

Worker == [state:     {"idle", "queued", "running", "ended"},
           document:  Documents \union {NoDocument},
           content:   0 .. MaxContent,
           path:      Paths \union {NoPath},
           watched:   BOOLEAN,
           cancelled: BOOLEAN,
           failed:    BOOLEAN]

TypeOK ==
  /\ loadedPath \in Paths \union {NoPath}
  /\ document \in Documents \union {NoDocument}
  /\ content \in 0 .. MaxContent
  /\ worker \in [Kinds -> Worker]
  /\ \A k \in {"load", "save"}:
       worker[k].state = "running" => worker[k].path \in Paths
  /\ finished \in Seq(Kinds)
  /\ hasChanges \in BOOLEAN
  /\ loadedStatus \in BOOLEAN
  /\ menubar \in BOOLEAN
  /\ tree \in BOOLEAN
  /\ bar \in Kinds \union {"none"}
  /\ disk \in [Paths -> 0 .. MaxContent]
  /\ lastContent \in 1 .. MaxContent
  /\ abandoned \in BOOLEAN

Working(k) == worker[k].state \in {"queued", "running"}

\* statusbar.cpp: "A new background operation must not begin while the
\* previous is running", "There is no background operation in progress".
\* The window never runs into either, so no slot is cut short half-way.
NoSlotAbandoned == ~abandoned

\* A worker that reads the document, and files that are being collected for
\* one of its folders, find that document still there: it is not closed, nor
\* replaced by another one, before they are done with it.
WorkersKeepTheirDocument ==
  /\ \A k \in {"save", "prepare"}:
       Working(k) => worker[k].document = document
  /\ worker["collect"].state # "idle" =>
       worker["collect"].document = document

\* CHANGELOG.md, 1.1.0: changes made in a PBO while it is being saved no
\* longer corrupt it.  The document a save is writing does not change.
NoChangeWhileSaving == Working("save") => content = worker["save"].content

\* A title without the asterisk can be trusted: when nothing is running, a
\* document shown as having no changes is the one in the file it is loaded
\* from - after saves that were cancelled in time, too late, or failed.
SavedMeansSaved ==
  document # NoDocument /\ ~hasChanges /\ bar = "none" => disk[loadedPath] = content

\* Between operations the model has a path exactly when it has a document,
\* and the actions on the document are enabled exactly then.
ModelConsistent ==
  bar = "none" => /\ loadedPath # NoPath <=> document # NoDocument
                  /\ loadedStatus <=> document # NoDocument
                  /\ hasChanges => document # NoDocument

\* A window that was disabled for an operation is enabled again.
WindowComesBack == ~(menubar /\ tree) ~> (menubar /\ tree)
=============================================================================
