-------------------------- MODULE MainWindowProofs --------------------------
(***************************************************************************)
(* What holds of MainWindow for any files, any documents and any number of *)
(* changes, when the user waits for what the tree is doing.  Without such  *)
(* a user it is false, as the run MainWindow_menu shows.                   *)
(***************************************************************************)
EXTENDS MainWindow, TLAPS

-----------------------------------------------------------------------------
(* The inductive invariant.                                                *)
(*                                                                         *)
(* Nothing is locked: the status bar is what keeps the operations apart.   *)
(* It belongs to one worker at a time, the only one there is, and which    *)
(* parts of the window are enabled follows from whose it is.               *)

\* Who holds the status bar, who works, what is posted and what is enabled.
OneAtATime ==
  /\ menubar <=> bar \notin {"load", "save"}
  /\ tree <=> bar = "none"
  /\ \A k \in Kinds: k # bar => worker[k] = Idle
  /\ bar # "none" => worker[bar].state # "idle" /\ worker[bar].watched
  /\ finished = IF bar # "none" /\ worker[bar].state = "ended" THEN <<bar>>
                                                             ELSE <<>>
  /\ ~abandoned

\* A load, from the dropped document to the new one.
LoadInv ==
  bar = "load" =>
    LET w == worker["load"]
    IN  /\ ~hasChanges
        /\ ~loadedStatus
        /\ ~w.cancelled
        /\ w.path \in Paths
        /\ w.state = "queued" => loadedPath = NoPath /\ document = NoDocument
        /\ w.state = "running" => loadedPath = w.path /\ document = NoDocument
        /\ w.state = "ended" /\ w.failed =>
             loadedPath = NoPath /\ document = NoDocument
        /\ w.state = "ended" /\ ~w.failed =>
             /\ loadedPath \in Paths
             /\ document # NoDocument
             /\ disk[loadedPath] = content

\* The document at any other time.
DocumentInv ==
  bar # "load" =>
    /\ loadedPath # NoPath <=> document # NoDocument
    /\ loadedStatus <=> document # NoDocument
    /\ hasChanges => document # NoDocument
    /\ document # NoDocument /\ ~hasChanges => disk[loadedPath] = content

\* A save writes the document there is, and has put it at its path when it
\* ends as neither cancelled nor failed.
SaveInv ==
  bar = "save" =>
    LET w == worker["save"]
    IN  /\ document # NoDocument
        /\ w.document = document
        /\ w.content = content
        /\ w.state = "ended" /\ Succeeded("save") => disk[loadedPath] = content

\* An operation of the tree works on the document there is.
TreeInv == bar \in TreeKinds => worker[bar].document = document

IInv == TypeOK /\ OneAtATime /\ LoadInv /\ DocumentInv /\ SaveInv /\ TreeInv

-----------------------------------------------------------------------------
(* What the parts of a slot do, when the window is as OneAtATime says.     *)

\* A worker with nothing to do is one of the workers.
LEMMA IdleType == Idle \in Worker /\ Idle.state = "idle"
  BY BoundsAssumption DEF Idle, Worker

\* The user starts or changes something only while nothing works.
LEMMA NothingWorks ==
  ASSUME Patient, TypeOK, OneAtATime, MenuUsable \/ TreeUsable
  PROVE  bar = "none"
  BY DEF TypeOK, OneAtATime, MenuUsable, TreeUsable, Kinds

\* What is launched then gets the status bar, and is watched.
LEMMA LaunchTakesBar ==
  ASSUME TypeOK, OneAtATime, bar = "none",
         NEW k \in Kinds, NEW p \in Paths \union {NoPath},
         NEW doc \in Documents \union {NoDocument},
         Launch(k, p, doc)
  PROVE  /\ worker' \in [Kinds -> Worker]
         /\ worker'[k].state = "queued" /\ worker'[k].watched
         /\ worker'[k].path = p
         /\ worker'[k].document = doc /\ worker'[k].content = content
         /\ ~worker'[k].cancelled
         /\ \A j \in Kinds: j # k => worker'[j] = Idle
         /\ bar' = k
         /\ abandoned' = FALSE
  BY IdleType DEF TypeOK, OneAtATime, Launch, Idle, Worker, Kinds, TreeKinds

\* The end of the worker that has the status bar is posted.
LEMMA EndIsPosted ==
  ASSUME TypeOK, OneAtATime, NEW k \in Kinds, NEW failed \in BOOLEAN,
         worker[k].state \in {"queued", "running"},
         WorkerEnds(k, failed)
  PROVE  /\ bar = k
         /\ worker' \in [Kinds -> Worker]
         /\ worker'[k].state = "ended" /\ worker'[k].failed = failed
         /\ worker'[k].path = worker[k].path
         /\ worker'[k].document = worker[k].document
         /\ worker'[k].content = worker[k].content
         /\ worker'[k].cancelled = worker[k].cancelled
         /\ worker'[k].watched
         /\ \A j \in Kinds: j # k => worker'[j] = worker[j]
         /\ finished' = <<k>>
<1>1. bar = k
  BY IdleType DEF OneAtATime
<1>2. worker[k].watched /\ finished = <<>>
  BY <1>1 DEF OneAtATime, Kinds, TreeKinds
<1>3. finished' = <<k>>
  BY <1>2 DEF WorkerEnds
<1>4. worker' = [worker EXCEPT ![k].state = "ended", ![k].failed = failed]
  BY <1>2 DEF WorkerEnds
<1>5. QED
  BY <1>1, <1>2, <1>3, <1>4 DEF TypeOK, Worker

\* The end that is taken from the queue is that of the worker with the bar.
LEMMA TakeEmpties ==
  ASSUME TypeOK, OneAtATime, NEW k \in Kinds, Take(k)
  PROVE  /\ bar = k
         /\ worker[k].state = "ended"
         /\ finished' = <<>> /\ finished' \in Seq(Kinds)
         /\ worker' \in [Kinds -> Worker]
         /\ \A j \in Kinds: worker'[j] = Idle
<1>1. bar # "none" /\ worker[bar].state = "ended" /\ finished = <<bar>>
  BY DEF OneAtATime, Take
<1>2. bar = k /\ finished' = <<>>
  BY <1>1 DEF Take
<1>3. finished' \in Seq(Kinds)
  BY <1>2
<1>4. QED
  BY <1>1, <1>2, <1>3, IdleType DEF OneAtATime, Take, TypeOK

-----------------------------------------------------------------------------
(* Every step keeps the invariant. *)

\* The invariant holds when the program starts.
LEMMA InitIInv == Init => IInv
<1> SUFFICES ASSUME Init PROVE IInv
  OBVIOUS
<1>1. TypeOK
  <2>1. worker \in [Kinds -> Worker]
    BY IdleType DEF Init
  <2>2. \A k \in {"load", "save"}: worker[k].state # "running"
    BY IdleType DEF Init, Kinds
  <2>3. disk \in [Paths -> 0 .. MaxContent]
    BY BoundsAssumption DEF Init
  <2>4. finished \in Seq(Kinds)
    BY DEF Init
  <2>5. content \in 0 .. MaxContent /\ lastContent \in 1 .. MaxContent
    BY BoundsAssumption DEF Init
  <2>6. QED
    BY <2>1, <2>2, <2>3, <2>4, <2>5 DEF Init, TypeOK
<1>2. OneAtATime
  BY DEF Init, OneAtATime, Kinds, TreeKinds
<1>3. LoadInv /\ DocumentInv /\ SaveInv /\ TreeInv
  BY DEF Init, LoadInv, DocumentInv, SaveInv, TreeInv, TreeKinds
<1>4. QED
  BY <1>1, <1>2, <1>3 DEF IInv

\* What the user does keeps it.
LEMMA UserStep ==
  ASSUME Patient, IInv,
         \/ \E p \in Paths: OpenFile(p)
         \/ \E p \in Paths \union {NoPath}: SaveFile(p)
         \/ CloseFile
         \/ \E k \in TreeKinds: StartTreeOperation(k)
         \/ EditDocument
         \/ ClickCancel
  PROVE  IInv'
<1> USE DEF IInv
<1>1. ASSUME NEW p \in Paths, OpenFile(p) PROVE IInv'
  <2>1. bar = "none"
    BY <1>1, NothingWorks DEF OpenFile
  <2>2. /\ worker' \in [Kinds -> Worker]
        /\ worker'["load"].state = "queued" /\ worker'["load"].watched
        /\ worker'["load"].path = p /\ ~worker'["load"].cancelled
        /\ \A j \in Kinds: j # "load" => worker'[j] = Idle
        /\ bar' = "load" /\ abandoned' = FALSE
    BY <1>1, <2>1, LaunchTakesBar DEF OpenFile, Kinds
  <2>3. TypeOK'
    BY <1>1, <2>2, IdleType DEF OpenFile, SetIsLoading, TypeOK, Kinds
  <2>4. OneAtATime'
    BY <1>1, <2>1, <2>2 DEF OpenFile, SetIsLoading, OneAtATime, Kinds
  <2>5. LoadInv' /\ DocumentInv' /\ SaveInv' /\ TreeInv'
    BY <1>1, <2>2
    DEF OpenFile, LoadInv, DocumentInv, SaveInv, TreeInv, TreeKinds
  <2>6. QED
    BY <2>3, <2>4, <2>5
<1>2. ASSUME NEW p \in Paths \union {NoPath}, SaveFile(p) PROVE IInv'
  <2>1. bar = "none"
    BY <1>2, NothingWorks DEF SaveFile
  <2>2. /\ worker' \in [Kinds -> Worker]
        /\ worker'["save"].state = "queued" /\ worker'["save"].watched
        /\ worker'["save"].document = document
        /\ worker'["save"].content = content
        /\ \A j \in Kinds: j # "save" => worker'[j] = Idle
        /\ bar' = "save" /\ abandoned' = FALSE
    BY <1>2, <2>1, LaunchTakesBar DEF SaveFile, Kinds, TypeOK
  <2>3. document # NoDocument
    BY <1>2, <2>1 DEF SaveFile, DocumentInv
  <2>4. TypeOK'
    <3>1. \A j \in {"load", "save"}: worker'[j].state # "running"
      BY <2>2, IdleType DEF Kinds
    <3>2. QED
      BY <1>2, <2>2, <3>1
      DEF SaveFile, SetIsLoading, TypeOK, Kinds, modelVars, worldVars
  <2>5. OneAtATime'
    BY <1>2, <2>1, <2>2 DEF SaveFile, SetIsLoading, OneAtATime, Kinds
  <2>6. LoadInv' /\ DocumentInv' /\ SaveInv' /\ TreeInv'
    BY <1>2, <2>1, <2>2, <2>3
    DEF SaveFile, LoadInv, DocumentInv, SaveInv, TreeInv, TreeKinds,
        modelVars, worldVars
  <2>7. QED
    BY <2>4, <2>5, <2>6
<1>3. CASE CloseFile
  <2>1. bar = "none"
    BY <1>3, NothingWorks DEF CloseFile
  <2>2. TypeOK' /\ OneAtATime'
    BY <1>3, <2>1
    DEF CloseFile, TypeOK, OneAtATime, worldVars
  <2>3. LoadInv' /\ DocumentInv' /\ SaveInv' /\ TreeInv'
    BY <1>3, <2>1
    DEF CloseFile, LoadInv, DocumentInv, SaveInv, TreeInv, TreeKinds
  <2>4. QED
    BY <2>2, <2>3
<1>4. ASSUME NEW k \in TreeKinds, StartTreeOperation(k) PROVE IInv'
  <2>1. bar = "none" /\ k \in Kinds /\ k \notin {"load", "save", "none"}
    BY <1>4, NothingWorks DEF StartTreeOperation, Kinds, TreeKinds
  <2>2. /\ worker' \in [Kinds -> Worker]
        /\ worker'[k].state = "queued" /\ worker'[k].watched
        /\ worker'[k].document = document
        /\ \A j \in Kinds: j # k => worker'[j] = Idle
        /\ bar' = k /\ abandoned' = FALSE
    BY <1>4, <2>1, LaunchTakesBar DEF StartTreeOperation, TypeOK
  <2>3. TypeOK'
    <3>1. \A j \in {"load", "save"}: worker'[j].state # "running"
      BY <2>1, <2>2, IdleType DEF Kinds
    <3>2. QED
      BY <1>4, <2>1, <2>2, <3>1
      DEF StartTreeOperation, TypeOK, modelVars, worldVars
  <2>4. OneAtATime'
    BY <1>4, <2>1, <2>2 DEF StartTreeOperation, OneAtATime
  <2>5. LoadInv' /\ DocumentInv' /\ SaveInv' /\ TreeInv'
    BY <1>4, <2>1, <2>2
    DEF StartTreeOperation, LoadInv, DocumentInv, SaveInv, TreeInv,
        modelVars, worldVars
  <2>6. QED
    BY <2>3, <2>4, <2>5
<1>5. CASE EditDocument
  <2>1. bar = "none" /\ document # NoDocument
    BY <1>5, NothingWorks DEF EditDocument, TreeUsable
  <2>2. TypeOK'
    BY <1>5, BoundsAssumption
    DEF EditDocument, ChangeDocument, TypeOK
  <2>3. OneAtATime'
    BY <1>5, <2>1 DEF EditDocument, OneAtATime
  <2>4. loadedPath' # NoPath
    BY <1>5, <2>1, PathsAssumption DEF EditDocument, DocumentInv
  <2>5. LoadInv' /\ DocumentInv' /\ SaveInv' /\ TreeInv'
    BY <1>5, <2>1, <2>4
    DEF EditDocument, ChangeDocument, LoadInv, DocumentInv, SaveInv, TreeInv,
        TreeKinds
  <2>6. QED
    BY <2>2, <2>3, <2>5
<1>6. CASE ClickCancel
  <2>1. bar \in Kinds /\ bar # "load" /\ bar # "none"
    BY <1>6 DEF ClickCancel, Kinds, TreeKinds
  <2>2. /\ worker' \in [Kinds -> Worker]
        /\ worker'[bar].state = worker[bar].state
        /\ worker'[bar].watched = worker[bar].watched
        /\ worker'[bar].path = worker[bar].path
        /\ worker'[bar].document = worker[bar].document
        /\ worker'[bar].content = worker[bar].content
        /\ worker'[bar].cancelled
        /\ \A j \in Kinds: j # bar => worker'[j] = worker[j]
    BY <1>6, <2>1 DEF ClickCancel, TypeOK, Worker
  <2>3. TypeOK'
    BY <1>6, <2>1, <2>2
    DEF ClickCancel, TypeOK, Kinds, modelVars, windowVars, worldVars
  <2>4. OneAtATime'
    BY <1>6, <2>1, <2>2 DEF ClickCancel, OneAtATime, windowVars
  <2>5. LoadInv' /\ DocumentInv' /\ SaveInv' /\ TreeInv'
    BY <1>6, <2>1, <2>2
    DEF ClickCancel, LoadInv, DocumentInv, SaveInv, TreeInv, Succeeded,
        modelVars, windowVars, worldVars
  <2>6. QED
    BY <2>3, <2>4, <2>5
<1>7. QED
  BY <1>1, <1>2, <1>3, <1>4, <1>5, <1>6

\* What the workers do keeps it.
LEMMA WorkerStep ==
  ASSUME IInv, NEW k \in Kinds, RunWorker(k)
  PROVE  IInv'
<1> USE DEF IInv
<1>1. CASE LoadBegins
  <2>1. bar = "load" /\ worker["load"].path \in Paths
    BY <1>1, IdleType DEF LoadBegins, OneAtATime, LoadInv, Kinds
  <2>2. /\ worker' \in [Kinds -> Worker]
        /\ worker'["load"].state = "running"
        /\ worker'["load"].watched = worker["load"].watched
        /\ worker'["load"].path = worker["load"].path
        /\ worker'["load"].cancelled = worker["load"].cancelled
        /\ \A j \in Kinds: j # "load" => worker'[j] = worker[j]
    BY <1>1 DEF LoadBegins, TypeOK, Worker, Kinds
  <2>3. TypeOK'
    BY <1>1, <2>1, <2>2
    DEF LoadBegins, TypeOK, windowVars, worldVars, Kinds
  <2>4. OneAtATime'
    BY <1>1, <2>1, <2>2 DEF LoadBegins, OneAtATime, windowVars, Kinds
  <2>5. LoadInv' /\ DocumentInv' /\ SaveInv' /\ TreeInv'
    BY <1>1, <2>1, <2>2
    DEF LoadBegins, LoadInv, DocumentInv, SaveInv, TreeInv, TreeKinds,
        windowVars, worldVars
  <2>6. QED
    BY <2>3, <2>4, <2>5
<1>2. CASE LoadEnds
  <2>1. worker["load"].state = "running" /\ "load" \in Kinds
    BY <1>2 DEF LoadEnds, Kinds
  <2>2. bar = "load"
    BY <2>1, IdleType DEF OneAtATime
  <2>3. ASSUME disk[worker["load"].path] # 0,
               document' \in Documents,
               content' = disk[worker["load"].path],
               WorkerEnds("load", FALSE),
               UNCHANGED loadedPath
        PROVE  IInv'
    <3>1. /\ worker' \in [Kinds -> Worker]
          /\ worker'["load"].state = "ended" /\ worker'["load"].failed = FALSE
          /\ worker'["load"].path = worker["load"].path
          /\ worker'["load"].cancelled = worker["load"].cancelled
          /\ worker'["load"].watched
          /\ \A j \in Kinds: j # "load" => worker'[j] = worker[j]
          /\ finished' = <<"load">>
      BY <2>1, <2>3, EndIsPosted
    <3>2. loadedPath = worker["load"].path /\ loadedPath \in Paths
      BY <2>1, <2>2 DEF LoadInv
    <3>3. TypeOK'
      BY <1>2, <2>3, <3>1, <3>2
      DEF LoadEnds, TypeOK, windowVars, worldVars, Kinds
    <3>4. OneAtATime'
      BY <1>2, <2>2, <3>1 DEF LoadEnds, OneAtATime, windowVars, Kinds
    <3>5. LoadInv' /\ DocumentInv' /\ SaveInv' /\ TreeInv'
      BY <1>2, <2>2, <2>3, <3>1, <3>2, DocsAssumption
      DEF LoadEnds, LoadInv, DocumentInv, SaveInv, TreeInv, TreeKinds,
          windowVars, worldVars
    <3>6. QED
      BY <3>3, <3>4, <3>5
  <2>4. ASSUME loadedPath' = NoPath,
               WorkerEnds("load", TRUE),
               UNCHANGED <<document, content>>
        PROVE  IInv'
    <3>1. /\ worker' \in [Kinds -> Worker]
          /\ worker'["load"].state = "ended" /\ worker'["load"].failed = TRUE
          /\ worker'["load"].path = worker["load"].path
          /\ worker'["load"].cancelled = worker["load"].cancelled
          /\ worker'["load"].watched
          /\ \A j \in Kinds: j # "load" => worker'[j] = worker[j]
          /\ finished' = <<"load">>
      BY <2>1, <2>4, EndIsPosted
    <3>2. TypeOK'
      BY <1>2, <2>4, <3>1 DEF LoadEnds, TypeOK, windowVars, worldVars, Kinds
    <3>3. OneAtATime'
      BY <1>2, <2>2, <3>1 DEF LoadEnds, OneAtATime, windowVars, Kinds
    <3>4. LoadInv' /\ DocumentInv' /\ SaveInv' /\ TreeInv'
      BY <1>2, <2>1, <2>2, <2>4, <3>1
      DEF LoadEnds, LoadInv, DocumentInv, SaveInv, TreeInv, TreeKinds,
          windowVars, worldVars
    <3>5. QED
      BY <3>2, <3>3, <3>4
  <2>5. QED
    BY <1>2, <2>3, <2>4 DEF LoadEnds
<1>3. CASE SaveBegins
  <2>1. bar = "save"
    BY <1>3, IdleType DEF SaveBegins, OneAtATime, Kinds
  <2>2. /\ worker' \in [Kinds -> Worker]
        /\ worker'["save"].state = "running"
        /\ worker'["save"].path \in Paths
        /\ worker'["save"].watched = worker["save"].watched
        /\ worker'["save"].document = worker["save"].document
        /\ worker'["save"].content = worker["save"].content
        /\ \A j \in Kinds: j # "save" => worker'[j] = worker[j]
    <3> DEFINE p == IF worker["save"].path = NoPath THEN loadedPath
                                                    ELSE worker["save"].path
    <3>1. worker["save"] \in Worker /\ "save" \in Kinds
      BY DEF TypeOK, Kinds
    <3>2. p \in Paths
      BY <2>1, <3>1 DEF TypeOK, Worker, SaveInv, DocumentInv
    <3>3. worker' = [worker EXCEPT !["save"] =
                       [@ EXCEPT !.state = "running", !.path = p]]
      BY <1>3 DEF SaveBegins, TypeOK, Kinds, Worker
    <3> HIDE DEF p
    <3>4. QED
      BY <3>1, <3>2, <3>3 DEF TypeOK, Worker
  <2>3. TypeOK'
    BY <1>3, <2>2
    DEF SaveBegins, TypeOK, modelVars, windowVars, worldVars, Kinds
  <2>4. OneAtATime'
    BY <1>3, <2>1, <2>2 DEF SaveBegins, OneAtATime, windowVars, Kinds
  <2>5. LoadInv' /\ DocumentInv' /\ SaveInv' /\ TreeInv'
    BY <1>3, <2>1, <2>2
    DEF SaveBegins, LoadInv, DocumentInv, SaveInv, TreeInv, TreeKinds,
        modelVars, windowVars, worldVars
  <2>6. QED
    BY <2>3, <2>4, <2>5
<1>4. CASE SaveEnds
  <2>1. worker["save"].state = "running" /\ "save" \in Kinds
    BY <1>4 DEF SaveEnds, Kinds
  <2>2. bar = "save" /\ worker["save"].path \in Paths
    BY <2>1, IdleType DEF OneAtATime, TypeOK
  <2>3. PICK failed \in BOOLEAN: WorkerEnds("save", failed)
    BY <1>4 DEF SaveEnds
  <2>4. /\ worker' \in [Kinds -> Worker]
        /\ worker'["save"].state = "ended"
        /\ worker'["save"].failed = failed
        /\ worker'["save"].document = worker["save"].document
        /\ worker'["save"].content = worker["save"].content
        /\ worker'["save"].cancelled = worker["save"].cancelled
        /\ worker'["save"].watched
        /\ \A j \in Kinds: j # "save" => worker'[j] = worker[j]
        /\ finished' = <<"save">>
    BY <2>1, <2>3, EndIsPosted
  <2>5. \/ /\ disk' = [disk EXCEPT ![worker["save"].path] = content]
           /\ loadedPath' = IF worker["save"].cancelled
                            THEN loadedPath ELSE worker["save"].path
        \/ /\ UNCHANGED <<disk, loadedPath>>
           /\ worker["save"].cancelled \/ worker'["save"].failed
    <3>1. ASSUME WorkerEnds("save", TRUE)
          PROVE  worker'["save"].failed = TRUE
      BY <2>1, <3>1, EndIsPosted
    <3>2. QED
      BY <1>4, <3>1 DEF SaveEnds
  <2>6. TypeOK'
    BY <1>4, <2>2, <2>4, <2>5
    DEF SaveEnds, TypeOK, windowVars, Kinds
  <2>7. OneAtATime'
    BY <1>4, <2>2, <2>4 DEF SaveEnds, OneAtATime, windowVars, Kinds
  <2>8. LoadInv' /\ DocumentInv' /\ SaveInv' /\ TreeInv'
    <3>1. loadedPath \in Paths /\ disk \in [Paths -> 0 .. MaxContent]
      BY <2>2 DEF SaveInv, DocumentInv, TypeOK
    <3>2. loadedPath' \in Paths /\ loadedPath' # NoPath
      BY <2>2, <2>5, <3>1, PathsAssumption
    <3>3. ~hasChanges => disk'[loadedPath'] = content
      BY <2>2, <2>5, <3>1 DEF SaveInv, DocumentInv
    <3>4. ~worker["save"].cancelled /\ ~worker'["save"].failed =>
             disk'[loadedPath'] = content
      BY <2>2, <2>5, <3>1
    <3>5. QED
      BY <1>4, <2>2, <2>4, <3>2, <3>3, <3>4
      DEF SaveEnds, LoadInv, DocumentInv, SaveInv, TreeInv, TreeKinds,
          Succeeded, windowVars
  <2>9. QED
    BY <2>6, <2>7, <2>8
<1>5. CASE k \in TreeKinds /\ TreeOperationEnds(k)
  <2>1. worker[k].state = "queued" /\ k \notin {"load", "save", "none"}
    BY <1>5 DEF TreeOperationEnds, TreeKinds
  <2>2. PICK failed \in BOOLEAN: WorkerEnds(k, failed)
    BY <1>5 DEF TreeOperationEnds
  <2>3. /\ bar = k
        /\ worker' \in [Kinds -> Worker]
        /\ worker'[k].state = "ended" /\ worker'[k].watched
        /\ worker'[k].document = worker[k].document
        /\ \A j \in Kinds: j # k => worker'[j] = worker[j]
        /\ finished' = <<k>>
    BY <2>1, <2>2, EndIsPosted
  <2>4. TypeOK'
    BY <1>5, <2>1, <2>3
    DEF TreeOperationEnds, TypeOK, modelVars, windowVars, worldVars, Kinds
  <2>5. OneAtATime'
    BY <1>5, <2>1, <2>3 DEF TreeOperationEnds, OneAtATime, windowVars
  <2>6. LoadInv' /\ DocumentInv' /\ SaveInv' /\ TreeInv'
    BY <1>5, <2>1, <2>3
    DEF TreeOperationEnds, LoadInv, DocumentInv, SaveInv, TreeInv,
        modelVars, windowVars, worldVars
  <2>7. QED
    BY <2>4, <2>5, <2>6
<1>6. QED
  BY <1>1, <1>2, <1>3, <1>4, <1>5 DEF RunWorker

\* The slots at the ends of the workers keep it.
LEMMA EventStep ==
  ASSUME IInv, HandleEvent
  PROVE  IInv'
<1> USE DEF IInv
<1>1. CASE LoadComplete
  <2>1. /\ bar = "load" /\ worker["load"].state = "ended"
        /\ finished' = <<>> /\ finished' \in Seq(Kinds)
        /\ worker' \in [Kinds -> Worker]
        /\ \A j \in Kinds: worker'[j] = Idle
    BY <1>1, TakeEmpties DEF LoadComplete, Kinds
  <2>2. bar' = "none" /\ abandoned' = FALSE /\ menubar' = TRUE /\ tree' = TRUE
    BY <1>1, <2>1
    DEF LoadComplete, ResetIsLoading, ProgressHide, OneAtATime, TypeOK
  <2>3. loadedStatus' = ~worker["load"].failed /\ hasChanges' = FALSE
    BY <1>1, <2>1 DEF LoadComplete, LoadInv, Succeeded, TypeOK, Worker
  <2>4. TypeOK'
    <3>1. worker["load"].failed \in BOOLEAN
      BY DEF TypeOK, Worker, Kinds
    <3>2. QED
      BY <1>1, <2>1, <2>2, <2>3, <3>1, IdleType
      DEF LoadComplete, TypeOK, modelVars, worldVars, Kinds
  <2>5. OneAtATime'
    BY <2>1, <2>2 DEF OneAtATime
  <2>6. LoadInv' /\ DocumentInv' /\ SaveInv' /\ TreeInv'
    BY <1>1, <2>1, <2>2, <2>3, PathsAssumption
    DEF LoadComplete, LoadInv, DocumentInv, SaveInv, TreeInv, TreeKinds,
        modelVars, worldVars
  <2>7. QED
    BY <2>4, <2>5, <2>6
<1>2. CASE SaveComplete
  <2>1. /\ bar = "save" /\ worker["save"].state = "ended"
        /\ finished' = <<>> /\ finished' \in Seq(Kinds)
        /\ worker' \in [Kinds -> Worker]
        /\ \A j \in Kinds: worker'[j] = Idle
    BY <1>2, TakeEmpties DEF SaveComplete, Kinds
  <2>2. bar' = "none" /\ abandoned' = FALSE /\ menubar' = TRUE /\ tree' = TRUE
    BY <1>2, <2>1
    DEF SaveComplete, ResetIsLoading, ProgressHide, OneAtATime, TypeOK
  <2>3. /\ hasChanges' \in BOOLEAN
        /\ hasChanges' <=> hasChanges /\ ~Succeeded("save")
    BY <1>2, <2>1 DEF SaveComplete, Delivered, TypeOK
  <2>4. TypeOK'
    BY <1>2, <2>1, <2>2, <2>3, IdleType
    DEF SaveComplete, TypeOK, modelVars, worldVars, Kinds
  <2>5. OneAtATime'
    BY <2>1, <2>2 DEF OneAtATime
  <2>6. LoadInv' /\ DocumentInv' /\ SaveInv' /\ TreeInv'
    BY <1>2, <2>1, <2>2, <2>3
    DEF SaveComplete, LoadInv, DocumentInv, SaveInv, TreeInv, TreeKinds,
        modelVars, worldVars
  <2>7. QED
    BY <2>4, <2>5, <2>6
<1>3. ASSUME NEW k \in TreeKinds, TreeOperationComplete(k)
      PROVE  IInv'
  <2>1. /\ bar = k /\ bar # "load"
        /\ finished' = <<>> /\ finished' \in Seq(Kinds)
        /\ worker' \in [Kinds -> Worker]
        /\ \A j \in Kinds: worker'[j] = Idle
    BY <1>3, TakeEmpties DEF TreeOperationComplete, TreeKinds, Kinds
  <2>2. bar' = "none" /\ abandoned' = FALSE /\ menubar' = TRUE /\ tree' = TRUE
    BY <1>3, <2>1
    DEF TreeOperationComplete, BackgroundOpStopped, ProgressHide, OneAtATime,
        TypeOK, TreeKinds
  <2>3. TypeOK'
    <3>1. /\ content' \in 0 .. MaxContent /\ lastContent' \in 1 .. MaxContent
          /\ hasChanges' \in BOOLEAN
      <4>1. CASE UNCHANGED <<content, hasChanges, lastContent>>
        BY <4>1 DEF TypeOK
      <4>2. CASE ChangeDocument
        BY <4>2, BoundsAssumption DEF ChangeDocument, TypeOK
      <4>3. QED
        BY <1>3, <4>1, <4>2 DEF TreeOperationComplete
    <3>2. \A j \in {"load", "save"}: worker'[j].state # "running"
      BY <2>1 DEF Idle, Kinds
    <3>3. /\ UNCHANGED <<loadedPath, document, loadedStatus, disk>>
      BY <1>3 DEF TreeOperationComplete
    <3>4. QED
      BY <2>1, <2>2, <3>1, <3>2, <3>3 DEF TypeOK
  <2>4. OneAtATime'
    BY <2>1, <2>2 DEF OneAtATime
  <2>5. LoadInv' /\ DocumentInv' /\ SaveInv' /\ TreeInv'
    BY <1>3, <2>1, <2>2
    DEF TreeOperationComplete, ChangeDocument, LoadInv, DocumentInv, SaveInv,
        TreeInv, TreeKinds
  <2>6. QED
    BY <2>3, <2>4, <2>5
<1>4. QED
  BY <1>1, <1>2, <1>3 DEF HandleEvent

-----------------------------------------------------------------------------
(* The theorems. *)

\* The inductive invariant holds throughout.
LEMMA Invariance ==
  ASSUME Patient
  PROVE  Spec => []IInv
<1>1. IInv /\ [Next]_vars => IInv'
  <2> SUFFICES ASSUME IInv, [Next]_vars PROVE IInv'
    OBVIOUS
  <2>1. CASE UNCHANGED vars
    BY <2>1
    DEF vars, modelVars, windowVars, worldVars, IInv, TypeOK, OneAtATime,
        LoadInv, DocumentInv, SaveInv, TreeInv, Succeeded
  <2>2. QED
    BY <2>1, UserStep, WorkerStep, EventStep DEF Next
<1>2. QED
  BY InitIInv, <1>1, PTL DEF Spec

\* The types hold for any files, documents and number of changes.
THEOREM WindowTypeCorrect ==
  ASSUME Patient
  PROVE  Spec => []TypeOK
<1>1. IInv => TypeOK
  BY DEF IInv
<1>2. QED
  BY Invariance, <1>1, PTL

\* No slot is cut short by the status bar being taken, or being free.
THEOREM SlotsComplete ==
  ASSUME Patient
  PROVE  Spec => []NoSlotAbandoned
<1>1. IInv => NoSlotAbandoned
  BY DEF IInv, OneAtATime, NoSlotAbandoned
<1>2. QED
  BY Invariance, <1>1, PTL

\* A worker's document stays open until the worker is done with it.
THEOREM DocumentsOutliveWorkers ==
  ASSUME Patient
  PROVE  Spec => []WorkersKeepTheirDocument
<1>1. IInv => WorkersKeepTheirDocument
  BY IdleType
  DEF IInv, OneAtATime, SaveInv, TreeInv, WorkersKeepTheirDocument, Working,
      Kinds, TreeKinds
<1>2. QED
  BY Invariance, <1>1, PTL

\* The document a save writes does not change before it has been written.
THEOREM SavesUndisturbed ==
  ASSUME Patient
  PROVE  Spec => []NoChangeWhileSaving
<1>1. IInv => NoChangeWhileSaving
  BY IdleType
  DEF IInv, OneAtATime, SaveInv, NoChangeWhileSaving, Working, Kinds
<1>2. QED
  BY Invariance, <1>1, PTL

\* A title without the asterisk is that of a document as it is on the disk.
THEOREM TitleCanBeTrusted ==
  ASSUME Patient
  PROVE  Spec => []SavedMeansSaved
<1>1. IInv => SavedMeansSaved
  BY DEF IInv, DocumentInv, SavedMeansSaved
<1>2. QED
  BY Invariance, <1>1, PTL

\* When nothing works, path, document and enabled actions fit together.
THEOREM WindowConsistent ==
  ASSUME Patient
  PROVE  Spec => []ModelConsistent
<1>1. IInv => ModelConsistent
  BY DEF IInv, DocumentInv, ModelConsistent
<1>2. QED
  BY Invariance, <1>1, PTL
=============================================================================
