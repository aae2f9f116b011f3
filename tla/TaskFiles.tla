------------------------------ MODULE TaskFiles ------------------------------
(***************************************************************************)
(* The pack and unpack tasks on the disk they share: one command line, the *)
(* jobs it makes of its inputs, and what they do to the files              *)
(* (model/task/packtask.cpp, unpacktask.cpp, io/bb/unpackbackend.cpp,      *)
(* unpacktaskbackend.cpp, io/fileconflictresolutionpolicy.cpp).            *)
(*                                                                         *)
(* With a window the jobs run on the threads of the pool and can be        *)
(* cancelled; without one they run in turn.  What the window makes of      *)
(* their reports is TaskWindow, how a PBO is written is DocumentWriter.    *)
(***************************************************************************)
EXTENDS Integers, FiniteSetsExt, PackConfig, CommandLine

CONSTANTS
  Contents,      \* what a file may hold at first, one in a PBO included
  Disks,         \* what may be on the disk at first: path -> content
  Folders,       \* the folders there are at first
  UserCommands,  \* the command lines a user may type
  Selections,    \* the selections a user may make in the Explorer
  Answers,       \* the directories a user may pick in a dialog
  Modes,         \* the values of the setting for conflicts
  Escapes,       \* Escapes[b]: a title b that no file can have, made one
  Reserved,      \* Reserved[b]: a title b of a device, and a number drawn
  PrefixPaths,   \* PrefixPaths[v]: the path that the prefix v is cleaned to
  Threads,       \* the threads of the pool
  MaxCopy,       \* the copies of a name that are tried, INT_MAX - 1 in the code
  MaxCommands,   \* bound on the commands given
  Faults         \* what may go wrong with the disk

ASSUME ModesAssumption   == Modes \subseteq {"Abort", "Copy", "Overwrite"}
ASSUME ThreadsAssumption == Threads \in Nat \ {0}
ASSUME FaultsAssumption  ==
  Faults \subseteq {"header", "folder", "open", "source", "config", "write"}
ASSUME BoundsAssumption  == {MaxCopy, MaxCommands} \subseteq Nat
\* Paths, and what is selected in the Explorer, are sequences.
IsSequence(s) == s \in Seq(ToSet(s))
ASSUME PathsAssumption   ==
  /\ IsSequence(CurrentPath)
  /\ \A path \in Answers: IsSequence(path)
  /\ \A v \in DOMAIN PrefixPaths: IsSequence(PrefixPaths[v])
  /\ \A s \in Selections: IsSequence(s) /\ \A path \in ToSet(s): IsSequence(path)
  /\ \A c \in UserCommands:
       /\ IsSequence(c.inputs) /\ IsSequence(c.output)
       /\ \A input \in ToSet(c.inputs): IsSequence(input.path)
\* Files, and those in a PBO, are finite in number; they hold sequences of cells,
\* and nothing can be read in an empty one; every header of a PBO has a name.
IsDocumentOf(contents, doc) ==
  /\ IsFiniteSet(DOMAIN doc.files)
  /\ \A f \in DOMAIN doc.files: doc.files[f] \in contents
  /\ \A i \in DOMAIN doc.headers: HeaderWellFormed(doc.headers[i])
IsContent(contents, c) ==
  /\ IsSequence(c.cells)
  /\ NoValue \notin ToSet(c.cells)
  /\ c.cells = <<>> => c = Bytes(<<>>)
  /\ c.as = "pbo" => IsDocumentOf(contents, Value(c))
AreContents(contents) == \A c \in contents: IsContent(contents, c)
ASSUME ContentsAssumption ==
  /\ AreContents(Contents)
  /\ \A d \in Disks:
       /\ IsFiniteSet(DOMAIN d)
       /\ \A p \in DOMAIN d: IsSequence(p) /\ p # <<>> /\ d[p] \in Contents
\* The two subcommands there are.
ASSUME VerbsAssumption   == \A c \in UserCommands: c.verb \in {"pack", "unpack"}

VARIABLES
  disk,     \* disk[p]: the content of the file at path p
  folders,  \* the folders there are
  command,  \* the command that is executed
  mode,     \* the setting for conflicts
  answer,   \* the directory picked in the dialog
  jobs,     \* jobs[j]: how far the job of the input j has got
  stopped,  \* TaskWindowModel::stopped_
  crashed,  \* the process of the command has been terminated
  before,   \* the disk when the command was given
  given     \* how many commands there have been

commandVars == <<command, mode, answer, before, given>>
vars == <<disk, folders, jobs, stopped, crashed, commandVars>>

NoCommand == Command("none", "none", <<>>, {}, <<>>)
NoPath == <<>>

-----------------------------------------------------------------------------
(* The disk. *)

\* FileNames::getCopyFileName
CopyPath(path, k) == Front(path) \o <<[Last(path) EXCEPT !.copy = k]>>

\* FileConflictResolutionPolicy::getCopyFileName
FreeCopies(d, path) == {k \in 1 .. MaxCopy: CopyPath(path, k) \notin DOMAIN d}
FreePath(d, path) == CopyPath(path, Min(FreeCopies(d, path)))

\* It gives up: its exception is none that its callers expect.
NoCopyFree(d, path) ==
  path \in DOMAIN d /\ mode = "Copy" /\ FreeCopies(d, path) = {}

\* Wrong: the first copy, whether it is there or not.
ResolveToFirstCopy(d, path) ==
  IF path \notin DOMAIN d \/ mode = "Overwrite" THEN path
  ELSE IF mode = "Abort" THEN NoPath
  ELSE CopyPath(path, 1)

\* FileConflictResolutionPolicy::resolvePotentialConflicts; NoPath for the
\* exception.
Resolve(d, path) ==
  IF path \notin DOMAIN d \/ mode = "Overwrite" THEN path
  ELSE IF mode = "Abort" THEN NoPath
  ELSE FreePath(d, path)

\* SanitizedString: what is left of a title on the disk is legal there, but two
\* titles may come to one.
Escaped(name) ==
  IF name.base \in DOMAIN Escapes THEN [name EXCEPT !.base = Escapes[@]] ELSE name
Unreserved(name) ==
  IF name.base \in DOMAIN Reserved /\ name.copy = 0
  THEN {[name EXCEPT !.base = b]: b \in Reserved[name.base]}
  ELSE {name}
Sanitized(title) == Unreserved(Escaped(title))

FilesIn(d, folder) == {p \in DOMAIN d: Front(p) = folder}

\* The file at the path, be it there or not, has the content.
Put(d, path, content) ==
  [p \in DOMAIN d \union {path} |-> IF p = path THEN content ELSE d[p]]

\* A file that is opened to be read and written is created, never truncated.
Opened(d, path) == IF path \in DOMAIN d THEN d ELSE Put(d, path, Bytes(<<>>))

\* The first n cells of an entry are in the file, over those that were there.
Overlay(old, new, n) ==
  LET cells == SubSeq(new.cells, 1, n) \o SubSeq(old.cells, n + 1, Len(old.cells))
  IN  IF cells = new.cells THEN new ELSE Bytes(cells)

\* Whether something is done, or fails.
Outcomes(fault) == IF fault \in Faults THEN {TRUE, FALSE} ELSE {TRUE}

-----------------------------------------------------------------------------
(* Jobs. *)

NewJob ==
  [stage |-> "waiting",
   document |-> NotPacked("none").doc,
   folder |-> NoPath,   \* where the entries go
   todo |-> <<>>,       \* the entries that are not dealt with
   path |-> NoPath,     \* the file in hand
   at |-> 0,            \* how much of it is written
   placed |-> <<>>,     \* placed[f]: the file the entry f was given
   progress |-> 0,
   size |-> -1,         \* the maximum of the progress, when it is known
   quiet |-> TRUE]      \* no message has been sent

Running(j) == jobs[j].stage \notin {"waiting", "ended"}

Target(j) ==
  OutputDirectoryFor(command, command.inputs[j], answer)

\* An update of the job j that leaves the rest alone.
Change(j, fields) ==
  jobs' = [jobs EXCEPT ![j] = [f \in DOMAIN @ |-> IF f \in DOMAIN fields
                                                  THEN fields[f] ELSE @[f]]]

Stay == UNCHANGED <<stopped, crashed, commandVars>>

Fail(j) == Change(j, [stage |-> "ended", quiet |-> FALSE])

\* An exception leaves the task: TaskRunnable::run makes it a message, and
\* without a window nothing stops it before main.
Raise(j) ==
  /\ Change(j, [stage |-> "ended", quiet |-> FALSE])
  /\ crashed' = ~HasWindow(command)
  /\ UNCHANGED <<stopped, commandVars>>

Reaches(j, stage) == command # NoCommand /\ ~crashed /\ jobs[j].stage = stage

\* pickNextTask: a task that is picked and then dropped because of a cancel
\* was not begun.  Without a window there is one thread.
PickJob(j) ==
  /\ Reaches(j, "waiting")
  /\ \A i \in 1 .. j - 1: jobs[i].stage # "waiting"
  /\ Cardinality({i \in DOMAIN jobs: Running(i)})
       < IF HasWindow(command) THEN Threads ELSE 1
  /\ ~stopped
  /\ Change(j, [stage |-> command.verb])
  /\ UNCHANGED <<disk, folders>>
  /\ Stay

-----------------------------------------------------------------------------
(* UnpackTask::execute *)

PrefixHeaderOf(doc) ==
  SelectSeq(doc.headers, LAMBDA h: h.name = "prefix")

\* tryUsePboPrefixAsPath: the segments of the path the prefix names, none if
\* it is not to be used.
PrefixPath(doc) ==
  IF "--use-pbo-prefix" \in command.options /\ PrefixHeaderOf(doc) # <<>>
  THEN LET value == Head(PrefixHeaderOf(doc)).value
       IN  IF value \in DOMAIN PrefixPaths THEN PrefixPaths[value] ELSE <<>>
  ELSE <<>>

\* It is absolute, or leads out of the output directory.
PrefixRefused(doc) ==
  PrefixPath(doc) # <<>> /\ Head(PrefixPath(doc)).base \in {"/", ".."}

\* getFileNameWithoutExtension
Stem(path) == [Last(path) EXCEPT !.ext = ""]

PboDir(j, doc) ==
  Target(j) \o (IF PrefixPath(doc) # <<>> THEN PrefixPath(doc)
                ELSE <<Stem(command.inputs[j].path)>>)

\* Wrong: the folder is left to be made by the entries.
MkpathLater(path) == folders

\* QDir::mkpath
Mkpath(path) == folders \union {path}

\* tryReadPboHeader, tryCreatePboDir, and the count of the entries.
PrepareUnpack(j) ==
  /\ Reaches(j, "unpack")
  /\ \E readable \in Outcomes("header"), made \in Outcomes("folder"):
     LET content == disk[command.inputs[j].path]
     IN  IF ~readable \/ content.as # "pbo"
         THEN Fail(j) /\ UNCHANGED folders
         ELSE LET doc == Value(content)
              IN  IF PrefixRefused(doc) \/ ~made
                  THEN Fail(j) /\ UNCHANGED folders
                  ELSE /\ folders' = Mkpath(PboDir(j, doc))
                       /\ Change(j, [stage |-> "entry", document |-> doc,
                            folder |-> PboDir(j, doc),
                            todo |-> SetToSeq(DOMAIN doc.files),
                            size |-> Cardinality(DOMAIN doc.files),
                            quiet |-> "--use-pbo-prefix" \notin command.options
                                        \/ PrefixHeaderOf(doc) # <<>>])
  /\ UNCHANGED disk
  /\ Stay

\* Wrong: an entry in conflict is passed over in silence.
ResolveEntrySilently(j) ==
  /\ Reaches(j, "entry")
  /\ IF stopped \/ jobs[j].todo = <<>> THEN Change(j, [stage |-> "config"]) /\ Stay
     ELSE \E made \in Outcomes("folder"), name \in Sanitized(Head(jobs[j].todo)):
          LET desired == Append(jobs[j].folder, name)
              path == Resolve(disk, desired)
          IN  IF made /\ NoCopyFree(disk, desired) THEN Raise(j)
              ELSE IF ~made \/ path = NoPath
              THEN /\ Change(j, [progress |-> jobs[j].progress + 1,
                                 todo |-> Tail(jobs[j].todo)])
                   /\ Stay
              ELSE Change(j, [stage |-> "open", path |-> path]) /\ Stay
  /\ UNCHANGED <<disk, folders>>

\* The next entry: its folders are made, and the conflict resolved.
ResolveEntry(j) ==
  /\ Reaches(j, "entry")
  /\ IF stopped \/ jobs[j].todo = <<>> THEN Change(j, [stage |-> "config"]) /\ Stay
     ELSE \E made \in Outcomes("folder"), name \in Sanitized(Head(jobs[j].todo)):
          LET desired == Append(jobs[j].folder, name)
              path == Resolve(disk, desired)
          IN  IF made /\ NoCopyFree(disk, desired) THEN Raise(j)
              ELSE IF ~made \/ path = NoPath
              THEN /\ Change(j, [quiet |-> FALSE, progress |-> jobs[j].progress + 1,
                                 todo |-> Tail(jobs[j].todo)])
                   /\ Stay
              ELSE Change(j, [stage |-> "open", path |-> path]) /\ Stay
  /\ UNCHANGED <<disk, folders>>

\* The file, which may have come to be since, and then the source are opened.
OpenEntry(j) ==
  /\ Reaches(j, "open")
  /\ \E opened \in Outcomes("open"), readable \in Outcomes("source"):
     LET job == jobs[j]
     IN  IF stopped
         THEN /\ Change(j, [stage |-> "entry", todo |-> Tail(job.todo)])
              /\ UNCHANGED disk
              /\ Stay
         ELSE IF ~opened
         THEN /\ Change(j, [stage |-> "entry", quiet |-> FALSE,
                            progress |-> job.progress + 1, todo |-> Tail(job.todo)])
              /\ UNCHANGED disk
              /\ Stay
         ELSE /\ disk' = Opened(disk, job.path)
              /\ IF readable
                 THEN /\ Change(j, [stage |-> "write", at |-> 0,
                           placed |-> Put(job.placed, Head(job.todo), job.path)])
                      /\ Stay
                 ELSE Raise(j)
  /\ UNCHANGED folders

\* writeToFs, a buffer at a time; a cancel ends it as the end of the entry does.
WriteEntry(j) ==
  /\ Reaches(j, "write")
  /\ LET job == jobs[j]
         entry == job.document.files[Head(job.todo)]
     IN  IF stopped \/ job.at = Len(entry.cells)
         THEN /\ Change(j, [stage |-> "entry", progress |-> job.progress + 1,
                            todo |-> Tail(job.todo)])
              /\ UNCHANGED disk
         ELSE /\ Change(j, [at |-> job.at + 1])
              /\ disk' = [disk EXCEPT ![job.path] = Overlay(@, entry, job.at + 1)]
  /\ UNCHANGED folders
  /\ Stay

\* Wrong: pbo.json is written over, whatever the setting.
ResolveConfigOver(j) ==
  /\ Reaches(j, "config")
  /\ Change(j, [stage |-> "save config",
                path |-> Append(jobs[j].folder, PboJsonName)])
  /\ UNCHANGED <<disk, folders>>
  /\ Stay

\* extractPboConfig comes after a cancel, too.
ResolveConfig(j) ==
  /\ Reaches(j, "config")
  /\ LET desired == Append(jobs[j].folder, PboJsonName)
         path == Resolve(disk, desired)
     IN  IF NoCopyFree(disk, desired) THEN Raise(j)
         ELSE IF path = NoPath THEN Fail(j) /\ Stay
         ELSE Change(j, [stage |-> "save config", path |-> path]) /\ Stay
  /\ UNCHANGED <<disk, folders>>

\* PboJsonHelper::saveTo truncates the file.
SaveConfig(j) ==
  /\ Reaches(j, "save config")
  /\ \E opened \in Outcomes("open"):
     IF opened
     THEN /\ disk' = Put(disk, jobs[j].path,
                         JsonFile(ExtractFrom(jobs[j].document)))
          /\ Change(j, [stage |-> "ended"])
     ELSE Fail(j) /\ UNCHANGED disk
  /\ UNCHANGED folders
  /\ Stay

-----------------------------------------------------------------------------
(* PackTask::execute *)

\* The conflict of the PBO is resolved before anything else is done.
ResolvePbo(j) ==
  /\ Reaches(j, "pack")
  /\ LET folder == Last(command.inputs[j].path)
         desired == Append(Target(j), [folder EXCEPT !.ext = "pbo"])
         path == Resolve(disk, desired)
     IN  IF NoCopyFree(disk, desired) THEN Raise(j)
         ELSE IF path = NoPath THEN Fail(j) /\ Stay
         ELSE Change(j, [stage |-> "collect", path |-> path]) /\ Stay
  /\ UNCHANGED <<disk, folders>>

\* collectDir, and the configuration that is found.
Collect(j) ==
  /\ Reaches(j, "collect")
  /\ \E readable \in Outcomes("config"):
     LET paths == FilesIn(disk, command.inputs[j].path)
         files == [f \in {Last(p): p \in paths} |->
                     disk[Append(command.inputs[j].path, f)]]
         packed == Apply(files)
     IN  IF stopped THEN Change(j, [stage |-> "ended"]) /\ Stay
         ELSE IF paths = {} THEN Fail(j) /\ Stay
         ELSE IF ~readable /\ ConfigRead(files) # {} THEN Raise(j)
         ELSE IF packed.outcome # "done" THEN Fail(j) /\ Stay
         ELSE /\ Change(j, [stage |-> "open pbo", document |-> packed.doc,
                            size |-> 10 * Cardinality(paths)])
              /\ Stay
  /\ UNCHANGED <<disk, folders>>

\* The temporary files of the writer are beside the PBO.
OpenPbo(j) ==
  /\ Reaches(j, "open pbo")
  /\ Change(j, [stage |-> "write pbo"])
  /\ UNCHANGED <<disk, folders>>
  /\ Stay

\* Two writers of one PBO have their temporary files in common: what is moved
\* into place is then anything.
Shared(j) ==
  \E i \in DOMAIN jobs \ {j}:
    jobs[i].path = jobs[j].path /\ jobs[i].stage \in {"write pbo", "ended"}

\* DocumentWriter::write puts the whole PBO in place, or nothing; a cancel may
\* come too late.
WritePbo(j) ==
  /\ Reaches(j, "write pbo")
  /\ \E written \in Outcomes("write") \union (IF stopped THEN {FALSE} ELSE {}),
        content \in {PboFile(jobs[j].document)}
                      \union (IF Shared(j) THEN {Bytes(<<"mixed">>)} ELSE {}):
     IF written
     THEN /\ disk' = Put(disk, jobs[j].path, content)
          /\ Change(j, [stage |-> "ended", progress |-> jobs[j].size])
     ELSE /\ UNCHANGED disk
          /\ Change(j, [stage |-> "ended", quiet |-> stopped])
  /\ UNCHANGED folders
  /\ Stay

-----------------------------------------------------------------------------
(* Commands. *)

Commands ==
  {c \in UserCommands: Accepted(c.program, c.verb, c.options)}
    \union UNION {ExplorerCommands(s, folders): s \in Selections}

\* ExistingFile and ExistingDirectory check the inputs.
InputsExist(c) ==
  \A i \in DOMAIN c.inputs:
    c.inputs[i].path \in IF c.verb = "unpack" THEN DOMAIN disk ELSE folders

\* A dialog that is cancelled ends the command.
GiveCommand(c, asked) ==
  /\ command = NoCommand
  /\ given < MaxCommands
  /\ InputsExist(c)
  /\ given' = given + 1
  /\ IF Asks(c) /\ asked = NoPath
     THEN UNCHANGED <<command, mode, answer, before, jobs>>
     ELSE /\ command' = c
          /\ mode' \in Modes
          /\ answer' = asked
          /\ before' = disk
          /\ jobs' = [i \in DOMAIN c.inputs |-> NewJob]
  /\ stopped' = FALSE
  /\ crashed' = FALSE
  /\ UNCHANGED <<disk, folders>>

Cancel ==
  /\ command # NoCommand
  /\ HasWindow(command)
  /\ ~stopped
  /\ \E j \in DOMAIN jobs: jobs[j].stage # "ended"
  /\ stopped' = TRUE
  /\ UNCHANGED <<disk, folders, jobs, crashed, commandVars>>

\* Wrong: the jobs that were not begun are waited for.
CommandOverAll == crashed \/ \A j \in DOMAIN jobs: jobs[j].stage = "ended"

\* The jobs a cancel or the end of the process leaves undone stay undone.
CommandOver ==
  crashed \/ \A j \in DOMAIN jobs:
               jobs[j].stage = "ended" \/ (stopped /\ jobs[j].stage = "waiting")

EndCommand ==
  /\ command # NoCommand
  /\ CommandOver
  /\ command' = NoCommand
  /\ jobs' = <<>>
  /\ answer' = NoPath
  /\ UNCHANGED <<disk, folders, stopped, crashed, mode, before, given>>

UnpackStep(j) ==
  \/ PrepareUnpack(j)
  \/ ResolveEntry(j)
  \/ OpenEntry(j)
  \/ WriteEntry(j)
  \/ ResolveConfig(j)
  \/ SaveConfig(j)

PackStep(j) ==
  \/ ResolvePbo(j)
  \/ Collect(j)
  \/ OpenPbo(j)
  \/ WritePbo(j)

JobStep(j) == PickJob(j) \/ UnpackStep(j) \/ PackStep(j)

Init ==
  /\ disk \in Disks
  /\ folders = Folders
  /\ command = NoCommand
  /\ mode \in {"Abort"}
  /\ answer = NoPath
  /\ jobs = <<>>
  /\ stopped = FALSE
  /\ crashed = FALSE
  /\ before = disk
  /\ given = 0

Next ==
  \/ \E c \in Commands: \E asked \in Answers \union {NoPath}:
       /\ ~Asks(c) => asked = NoPath
       /\ GiveCommand(c, asked)
  \/ \E j \in DOMAIN jobs: JobStep(j)
  \/ Cancel
  \/ EndCommand

Spec == Init /\ [][Next]_vars

\* The threads of the pool, or of the console program, go on.
FairSpec ==
  Spec /\ WF_vars(EndCommand) /\ WF_vars(\E j \in DOMAIN jobs: JobStep(j))

-----------------------------------------------------------------------------
(* Properties. *)

Stages == {"waiting", "unpack", "entry", "open", "write", "config",
           "save config", "pack", "collect", "open pbo", "write pbo", "ended"}

TypeOK ==
  /\ \A p \in DOMAIN disk:
       Front(p) \in folders /\ disk[p].as \in {"bytes", "json", "pbo"}
  /\ mode \in Modes \union {"Abort"}
  /\ command \in Commands \union {NoCommand}
  /\ \A j \in DOMAIN jobs:
       /\ jobs[j].stage \in Stages
       /\ jobs[j].progress \in 0 .. Max({0, jobs[j].size})
       /\ jobs[j].stage = "write" => jobs[j].path \in DOMAIN disk
  /\ stopped \in BOOLEAN
  /\ crashed \in BOOLEAN
  /\ given \in 0 .. MaxCommands

\* What was on the disk before the command is not touched, unless the user has
\* chosen to overwrite: not by a race of two jobs, and not by pbo.json.
UsersFilesKept ==
  mode # "Overwrite" =>
    \A p \in DOMAIN before: p \in DOMAIN disk /\ disk[p] = before[p]

Ended(j) == jobs[j].stage = "ended" /\ ~stopped /\ ~crashed

\* The other files the jobs have been given, for an entry or for pbo.json.
GivenTwice(j, f) ==
  LET path == jobs[j].placed[f]
  IN  \/ path = Append(jobs[j].folder, PboJsonName)
      \/ \E g \in DOMAIN jobs[j].placed \ {f}: jobs[j].placed[g] = path
      \/ \E i \in DOMAIN jobs \ {j}:
           \/ jobs[i].path = path
           \/ \E g \in DOMAIN jobs[i].placed: jobs[i].placed[g] = path

\* A job that ends without a word, and was not cancelled, has done all of it:
\* every entry was extracted to a file that holds it, or the PBO is there, and
\* the progress bar is full.  When the file was there and was longer, it keeps
\* its end; when two of a command's jobs, or two entries, were given one file, it
\* is anyone's.
QuietMeansDone ==
  \A j \in DOMAIN jobs:
    Ended(j) /\ jobs[j].quiet =>
      /\ jobs[j].progress = jobs[j].size
      /\ command.verb = "unpack" =>
           /\ DOMAIN jobs[j].placed = DOMAIN jobs[j].document.files
           /\ \A f \in DOMAIN jobs[j].placed:
                ~GivenTwice(j, f) =>
                  IsPrefix(jobs[j].document.files[f].cells,
                           disk[jobs[j].placed[f]].cells)
      /\ command.verb = "pack" /\ ~Shared(j) =>
           disk[jobs[j].path] = PboFile(jobs[j].document)

\* Two entries are never given one file, unless the user has chosen to overwrite
\* or they are those of jobs that run at once and unpack into one folder.
CopiesApart ==
  mode # "Overwrite" =>
    \A i, j \in DOMAIN jobs:
      i = j \/ ~HasWindow(command) \/ jobs[i].folder # jobs[j].folder =>
        \A f \in DOMAIN jobs[i].placed, g \in DOMAIN jobs[j].placed:
          jobs[i].placed[f] = jobs[j].placed[g] => i = j /\ f = g

\* A PBO that is unpacked to a folder of its own is packed from there to what
\* it was, its headers and their order included, if a disk takes its titles;
\* the files the configuration is read from are not packed.
RepackRestores ==
  \A j \in DOMAIN jobs:
    LET doc == jobs[j].document
        folder == jobs[j].folder
        files == [f \in {Last(p): p \in FilesIn(disk, folder)} |->
                    disk[Append(folder, f)]]
    IN  /\ command.verb = "unpack"
        /\ Ended(j)
        /\ jobs[j].quiet
        /\ FilesIn(before, folder) = {}
        /\ \A i \in DOMAIN jobs \ {j}: jobs[i].folder # folder
        /\ PboJsonName \notin DOMAIN doc.files
        /\ \A f \in DOMAIN doc.files: Sanitized(f) = {f}
        => /\ Apply(files).outcome = "done"
           /\ Apply(files).doc.headers = doc.headers
           /\ Apply(files).doc.files
                = [f \in DOMAIN doc.files \ ConfigNames |-> doc.files[f]]

\* Whatever fails, and whether or not it is cancelled, a command comes to its
\* end.
CommandEnds == command # NoCommand ~> command = NoCommand
=============================================================================
