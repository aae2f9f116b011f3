--------------------------- MODULE DocumentWriter ---------------------------
(***************************************************************************)
(* How a document reaches the disk: DocumentWriter::write and the helpers  *)
(* it calls (pbom/io/documentwriter.cpp).  The writer runs on a worker     *)
(* thread; the user may press Cancel between any two of its steps, and the *)
(* program reads that flag only at the places the code reads it.           *)
(*                                                                         *)
(* A path stands for three names on the disk: the PBO itself, the ".t"     *)
(* file the new contents are prepared in, and the ".bak" file.  What is in *)
(* a file is abstracted to the version of the document it was written      *)
(* from, how far the writing got, its length, and whether bytes of an      *)
(* older, longer file still follow the new ones.                           *)
(***************************************************************************)
EXTENDS Naturals, FiniteSets

CONSTANTS
  Paths,       \* the paths a document is saved to
  NoPath,      \* "no path"
  MaxVersion,  \* bound on the number of document versions
  Length,      \* Length[v]: bytes of the header and body of version v
  LongFile,    \* bound: a file this long is longer than any version
  Faults       \* which of AllFaults the environment may inflict

\* rename, remove, open: the call reports a failure.  read: a source breaks
\* while it is being read.  full: write() stores nothing, and as the writer
\* looks at no result of write() it goes on.  crash: the process ends.
AllFaults == {"rename", "remove", "open", "read", "full", "crash"}

Versions == 1 .. MaxVersion

ASSUME PathsAssumption  == NoPath \notin Paths
ASSUME BoundAssumption  == MaxVersion \in Nat \ {0}
ASSUME LengthAssumption == /\ LongFile \in Nat
                           /\ Length \in [Versions -> 1 .. (LongFile - 1)]
ASSUME FaultsAssumption == Faults \subseteq AllFaults

VARIABLES
  \* the disk
  disk,          \* disk[p]: the file at p
  tmp,           \* tmp[p]: the file at p.t
  bak,           \* bak[p]: the file at p.bak
  \* the document
  version,       \* the version of the open document
  refs,          \* what the binary sources of its nodes refer to
  signature,     \* the version the document's signature was computed for
  lastVersion,   \* the newest version made so far
  \* DocumentWriter::write
  pc,            \* the next step of the write in progress
  path,          \* path_
  shouldBackup,
  backupMade,
  cancelled,     \* cancel()
  intact,        \* the bytes in the body file are those of the nodes
  result,        \* how the last write ended
  \* history
  orig,          \* what was at path when the write began
  leftover,      \* there was a file at path.t when the write began
  hit            \* the faults that struck this write

diskVars   == <<disk, tmp, bak>>
docVars    == <<version, refs, signature, lastVersion>>
callVars   == <<path, shouldBackup, orig, leftover>>
vars == <<diskVars, docVars, callVars, pc, backupMade, cancelled, intact,
          result, hit>>

-----------------------------------------------------------------------------
(* Files and the sources that refer to them. *)

Absent == [version |-> 0, state |-> "absent", len |-> 0, tail |-> FALSE,
           intact |-> TRUE]

\* torn: begun and not complete; whole: header and body are there; signed:
\* the zero byte and the signature follow, the file is complete.
Contents == [version: Versions,
             state:   {"torn", "whole", "signed"},
             len:     0 .. LongFile,
             tail:    BOOLEAN,
             intact:  BOOLEAN] \union {Absent}

\* A node's bytes are in a file of their own on the disk, or in a PBO at the
\* offsets they had when the version ref.version was written.
FsRef == [path |-> NoPath, version |-> 0]
Ref   == [path: Paths, version: Versions] \union {FsRef}

PboRef(p, v) == [path |-> p, version |-> v]

\* The file a source opens exists.
CanOpen(r) == r # FsRef => disk[r.path] # Absent

\* The file has the layout the source's offsets were computed for.
Matches(r) ==
  r # FsRef => /\ disk[r.path].version = r.version
               /\ disk[r.path].state \in {"whole", "signed"}

Target == IF shouldBackup THEN tmp[path] ELSE disk[path]

Longer(m, n) == IF m > n THEN m ELSE n

\* PboFile::open(ReadWrite) creates the file or opens it as it is: it does
\* not truncate.  The header is then written over what was there, and up to
\* n bytes of the file exist should the writing stop before the body ends.
Opened(c, n) == [c EXCEPT !.version = version, !.state = "torn", !.len = n,
                          !.intact = intact]

\* Wrong: the body is appended to what was there.
CopiedBehind(c) == [c EXCEPT !.version = version, !.state = "whole",
                             !.len = c.len + Length[version]]

\* The body is copied behind the header: what an older, longer file had
\* beyond that point stays.
Copied(c) == [c EXCEPT !.version = version, !.state = "whole",
                       !.tail = c.len > Length[version],
                       !.len  = Longer(c.len, Length[version])]

\* The file is read to its end for the hash, and the signature put there:
\* one unit of length.
Signed(c) == [c EXCEPT !.version = version, !.state = "signed",
                       !.len = IF c.len < LongFile THEN c.len + 1
                                                   ELSE LongFile]

\* Wrong: the file is always written in place.
SetInPlace(c) == disk' = [disk EXCEPT ![path] = c] /\ UNCHANGED <<tmp, bak>>

SetTarget(c) ==
  IF shouldBackup
  THEN tmp'  = [tmp EXCEPT ![path] = c]  /\ UNCHANGED <<disk, bak>>
  ELSE disk' = [disk EXCEPT ![path] = c] /\ UNCHANGED <<tmp, bak>>

-----------------------------------------------------------------------------
(* Ends and failures of a write. *)

End(outcome) == pc' = "done" /\ result' = outcome

\* A DiskAccessException leaves write(); nothing is undone.
Throw == End("failed")

Strikes(f) == f \in Faults /\ hit' = hit \union {f}

NoFault == UNCHANGED hit

\* QFile::remove on the file being written, its result ignored.
RemoveTarget ==
  \/ SetTarget(Absent) /\ NoFault
  \/ Strikes("remove") /\ UNCHANGED diskVars

-----------------------------------------------------------------------------
(* The steps of a write, in the order of the code. *)

Writing == pc \notin {"idle", "done"}

\* PboModel::saveFile calls write(): is there a file to back up?
Begin(p) ==
  /\ ~Writing
  /\ version # 0
  /\ pc' = "body"
  /\ path' = p
  /\ shouldBackup' = (disk[p] # Absent)
  /\ backupMade' = FALSE
  /\ cancelled' = FALSE
  /\ intact' = TRUE
  /\ result' = "none"
  /\ orig' = disk[p]
  /\ leftover' = (tmp[p] # Absent)
  /\ hit' = {}
  /\ UNCHANGED <<diskVars, docVars>>

\* The user cancels: QPromise::isCanceled stays true from now on.
Cancel ==
  /\ Writing
  /\ ~cancelled
  /\ cancelled' = TRUE
  /\ UNCHANGED <<diskVars, docVars, callVars, pc, backupMade, intact, result,
                 hit>>

\* writeNode: every node's source is opened and copied into the body file.
\* A source whose file is gone throws; one whose file has another layout
\* gives the wrong bytes, or throws where the file is too short.  A
\* cancelled writeNode returns without opening the sources that are left.
WriteBody ==
  /\ pc = "body"
  /\ \/ /\ cancelled \/ \A r \in refs: CanOpen(r)
        /\ intact' = \A r \in refs: Matches(r)
        /\ pc' = "open"
        /\ NoFault
        /\ UNCHANGED result
     \/ /\ ~cancelled
        /\ \E r \in refs: ~(CanOpen(r) /\ Matches(r))
        /\ Throw
        /\ NoFault
        /\ UNCHANGED intact
     \/ /\ Strikes("read")
        /\ Throw
        /\ UNCHANGED intact
  /\ UNCHANGED <<diskVars, docVars, callVars, backupMade, cancelled>>

\* Open the file to write and put the header there.
OpenAndWriteHeader ==
  /\ pc = "open"
  /\ \/ /\ cancelled
        /\ pc' = "decide"
        /\ UNCHANGED <<diskVars, result>>
        /\ NoFault
     \/ /\ ~cancelled
        /\ Strikes("open")
        /\ Throw
        /\ UNCHANGED diskVars
     \/ /\ ~cancelled
        /\ \E n \in Target.len .. Longer(Target.len, Length[version]):
             SetTarget(Opened(Target, n))
        /\ pc' = "copy"
        /\ UNCHANGED result
        /\ NoFault
  /\ UNCHANGED <<docVars, callVars, backupMade, cancelled, intact>>

\* The check behind writeHeader, then copyBody.
CopyBody ==
  /\ pc = "copy"
  /\ \/ cancelled /\ RemoveTarget /\ pc' = "decide"
     \/ ~cancelled /\ SetTarget(Copied(Target)) /\ pc' = "sign" /\ NoFault
     \/ ~cancelled /\ Strikes("full") /\ UNCHANGED diskVars /\ pc' = "sign"
  /\ UNCHANGED <<docVars, callVars, backupMade, cancelled, intact, result>>

\* writeSignature: the document gets its signature before the file does.
WriteSignature ==
  /\ pc = "sign"
  /\ \/ /\ cancelled
        /\ UNCHANGED <<diskVars, signature>>
        /\ NoFault
     \/ /\ ~cancelled
        /\ signature' = version
        /\ Target.state = "whole"
        /\ SetTarget(Signed(Target))
        /\ NoFault
     \/ /\ ~cancelled
        /\ signature' = version
        /\ Strikes("full")
        /\ UNCHANGED diskVars
  /\ pc' = "written"
  /\ UNCHANGED <<version, refs, lastVersion, callVars, backupMade, cancelled,
                 intact, result>>

\* The last check of writeInternal.
CheckWritten ==
  /\ pc = "written"
  /\ \/ cancelled /\ RemoveTarget
     \/ ~cancelled /\ UNCHANGED diskVars /\ NoFault
  /\ pc' = "decide"
  /\ UNCHANGED <<docVars, callVars, backupMade, cancelled, intact, result>>

\* Wrong: nothing is swapped.
DecideInPlace ==
  /\ pc = "decide"
  /\ ~cancelled
  /\ pc' = "final"
  /\ UNCHANGED <<diskVars, result, docVars, callVars, backupMade, cancelled,
                 intact>>
  /\ NoFault

\* The first check of write(): a cancelled write removes a new file, and
\* leaves whatever is at path.t where it is.
Decide ==
  /\ pc = "decide"
  /\ \/ /\ cancelled
        /\ End("cancelled")
        /\ IF shouldBackup THEN UNCHANGED diskVars /\ NoFault
                           ELSE RemoveTarget
     \/ /\ ~cancelled
        /\ pc' = IF shouldBackup THEN "backup" ELSE "final"
        /\ UNCHANGED <<diskVars, result>>
        /\ NoFault
  /\ UNCHANGED <<docVars, callVars, backupMade, cancelled, intact>>

\* Wrong: nothing is done for a write that was cancelled since.
RemoveOldBackupOrStop ==
  /\ pc = "backup"
  /\ ~cancelled
  /\ bak' = [bak EXCEPT ![path] = Absent]
  /\ pc' = "moveOld"
  /\ UNCHANGED <<disk, tmp, result, docVars, callVars, backupMade, cancelled,
                 intact>>
  /\ NoFault

\* `shouldBackup && !cancel()`, and the previous backup is removed.
RemoveOldBackup ==
  /\ pc = "backup"
  /\ \/ /\ cancelled
        /\ pc' = "final"
        /\ UNCHANGED <<diskVars, result>>
        /\ NoFault
     \/ /\ ~cancelled
        /\ bak' = [bak EXCEPT ![path] = Absent]
        /\ pc' = "moveOld"
        /\ UNCHANGED <<disk, tmp, result>>
        /\ NoFault
     \/ /\ ~cancelled
        /\ bak[path] # Absent
        /\ Strikes("remove")
        /\ Throw
        /\ UNCHANGED diskVars
  /\ UNCHANGED <<docVars, callVars, backupMade, cancelled, intact>>

\* Wrong: the original is removed, not renamed.
RemoveOriginal ==
  /\ pc = "moveOld"
  /\ disk' = [disk EXCEPT ![path] = Absent]
  /\ pc' = "moveNew"
  /\ UNCHANGED <<tmp, bak, result, docVars, callVars, backupMade, cancelled,
                 intact>>
  /\ NoFault

\* QFile::rename(path_, backupPath)
MoveOriginalToBackup ==
  /\ pc = "moveOld"
  /\ \/ /\ bak'  = [bak EXCEPT ![path] = disk[path]]
        /\ disk' = [disk EXCEPT ![path] = Absent]
        /\ pc' = "moveNew"
        /\ UNCHANGED <<tmp, result>>
        /\ NoFault
     \/ /\ Strikes("rename")
        /\ Throw
        /\ UNCHANGED diskVars
  /\ UNCHANGED <<docVars, callVars, backupMade, cancelled, intact>>

\* QFile::rename(filePath, path_)
MoveNewIntoPlace ==
  /\ pc = "moveNew"
  /\ \/ /\ disk' = [disk EXCEPT ![path] = tmp[path]]
        /\ tmp'  = [tmp EXCEPT ![path] = Absent]
        /\ backupMade' = TRUE
        /\ pc' = "final"
        /\ UNCHANGED <<bak, result>>
        /\ NoFault
     \/ /\ Strikes("rename")
        /\ Throw
        /\ UNCHANGED <<diskVars, backupMade>>
  /\ UNCHANGED <<docVars, callVars, cancelled, intact>>

\* Wrong: the nodes are still read from where they were.
KeepBinarySources == UNCHANGED refs

\* assignBinarySources: from here on the nodes are read from path.
AssignBinarySources ==
  refs' = IF refs = {} THEN {} ELSE {PboRef(path, version)}

\* The second check of write(): take a cancelled write back, or make it final.
Finish ==
  /\ pc = "final"
  /\ \/ /\ ~cancelled
        /\ AssignBinarySources
        /\ End("saved")
        /\ UNCHANGED diskVars
        /\ NoFault
     \/ /\ cancelled
        /\ backupMade \/ ~shouldBackup
        /\ disk' = [disk EXCEPT ![path] = Absent]
        /\ IF backupMade THEN pc' = "undo" /\ UNCHANGED result
                         ELSE End("cancelled")
        /\ UNCHANGED <<tmp, bak, refs>>
        /\ NoFault
     \/ /\ cancelled
        /\ backupMade \/ ~shouldBackup
        /\ Strikes("remove")
        /\ Throw
        /\ UNCHANGED <<diskVars, refs>>
     \/ /\ cancelled
        /\ ~backupMade /\ shouldBackup
        /\ End("cancelled")
        /\ UNCHANGED <<diskVars, refs>>
        /\ NoFault
  /\ UNCHANGED <<version, signature, lastVersion, callVars, backupMade,
                 cancelled, intact>>

\* Wrong: the backup stays the backup.
LeaveBackup ==
  /\ pc = "undo"
  /\ End("cancelled")
  /\ UNCHANGED <<diskVars, docVars, callVars, backupMade, cancelled, intact>>
  /\ NoFault

\* QFile::rename(backupPath, path_)
RestoreOriginal ==
  /\ pc = "undo"
  /\ \/ /\ disk' = [disk EXCEPT ![path] = bak[path]]
        /\ bak'  = [bak EXCEPT ![path] = Absent]
        /\ End("cancelled")
        /\ UNCHANGED tmp
        /\ NoFault
     \/ /\ Strikes("rename")
        /\ Throw
        /\ UNCHANGED diskVars
  /\ UNCHANGED <<docVars, callVars, backupMade, cancelled, intact>>

Step ==
  \/ WriteBody
  \/ OpenAndWriteHeader
  \/ CopyBody
  \/ WriteSignature
  \/ CheckWritten
  \/ Decide
  \/ RemoveOldBackup
  \/ MoveOriginalToBackup
  \/ MoveNewIntoPlace
  \/ Finish
  \/ RestoreOriginal

\* The process ends: what is on the disk stays there, the document is lost.
Crash ==
  /\ Writing
  /\ Strikes("crash")
  /\ pc' = "idle"
  /\ result' = "crashed"
  /\ version' = 0
  /\ refs' = {}
  /\ signature' = 0
  /\ UNCHANGED <<diskVars, lastVersion, callVars, backupMade, cancelled,
                 intact>>

-----------------------------------------------------------------------------
(* What happens to the document between two writes. *)

writerVars == <<backupMade, cancelled, intact, result, hit>>

\* Nodes are removed, or added from files on the disk.
Edit ==
  /\ ~Writing
  /\ lastVersion < MaxVersion
  /\ lastVersion' = lastVersion + 1
  /\ version' = lastVersion + 1
  /\ \E kept \in SUBSET refs: refs' \in {kept, kept \union {FsRef}}
  /\ pc' = "idle"
  /\ UNCHANGED <<diskVars, signature, callVars, writerVars>>

\* A PBO is opened.  The header of a torn file may be all there.
Open(p) ==
  /\ ~Writing
  /\ disk[p] # Absent
  /\ pc' = "idle"
  /\ version' = disk[p].version
  /\ refs' = {PboRef(p, disk[p].version)}
  /\ signature' = IF disk[p].state = "signed" THEN disk[p].version ELSE 0
  /\ UNCHANGED <<diskVars, lastVersion, callVars, writerVars>>

Init ==
  /\ disk = [p \in Paths |-> Absent]
  /\ tmp = [p \in Paths |-> Absent]
  /\ bak = [p \in Paths |-> Absent]
  /\ version = 0
  /\ refs = {}
  /\ signature = 0
  /\ lastVersion = 0
  /\ pc = "idle"
  /\ path \in Paths
  /\ shouldBackup = FALSE
  /\ backupMade = FALSE
  /\ cancelled = FALSE
  /\ intact = TRUE
  /\ result = "none"
  /\ orig = Absent
  /\ leftover = FALSE
  /\ hit = {}

Next ==
  \/ \E p \in Paths: Begin(p) \/ Open(p)
  \/ Edit
  \/ Cancel
  \/ Step
  \/ Crash

Spec == Init /\ [][Next]_vars

\* The thread pool runs the worker to its end; the user need do nothing.
FairSpec == Spec /\ WF_vars(Step)

-----------------------------------------------------------------------------
(* Properties. *)

Steps == {"body", "open", "copy", "sign", "written", "decide", "backup",
          "moveOld", "moveNew", "final", "undo"}

DiskType ==
  /\ disk \in [Paths -> Contents]
  /\ tmp \in [Paths -> Contents]
  /\ bak \in [Paths -> Contents]

DocType ==
  /\ version \in 0 .. MaxVersion
  /\ refs \in SUBSET Ref
  /\ signature \in 0 .. MaxVersion
  /\ lastVersion \in 0 .. MaxVersion

CallType ==
  /\ path \in Paths
  /\ shouldBackup \in BOOLEAN
  /\ orig \in Contents
  /\ leftover \in BOOLEAN

ControlType ==
  /\ pc \in Steps \union {"idle", "done"}
  /\ backupMade \in BOOLEAN
  /\ cancelled \in BOOLEAN
  /\ intact \in BOOLEAN
  /\ result \in {"none", "saved", "cancelled", "failed", "crashed"}

HitType == hit \in SUBSET AllFaults

\* The type invariant of the disk, the document and the writer.
TypeOK == DiskType /\ DocType /\ CallType /\ ControlType /\ HitType

\* Whatever goes wrong with a write, and wherever it stops - a cancel, an
\* error of any call, a full disk, the end of the process - the file that was
\* there when it began is at its path or in the .bak file beside it.
OriginalKept == orig # Absent => orig \in {disk[path], bak[path]}

\* A write that ends as cancelled leaves at the path what it found there,
\* wherever the cancel came - also after the new file was moved into place.
\* Only a new file may stay behind, when it could not be removed.
CancelRestores ==
  result = "cancelled" =>
    disk[path] = orig \/ (orig = Absent /\ "remove" \in hit)

\* A write that ends as saved has put the document at the path, complete and
\* with the signature the document shows, the old file is the backup, and
\* the file has foreign bytes at its end only where an earlier write had
\* left a .t file.
SavedIsDocument ==
  pc = "done" /\ result = "saved" /\ "full" \notin hit =>
    /\ disk[path].state = "signed"
    /\ disk[path].version = version
    /\ signature = version
    /\ orig # Absent => bak[path] = orig
    /\ disk[path].tail => leftover

\* The sources of the open document can be read: the file they name has the
\* layout they were made for, or, while a write is swapping files, the backup
\* it keeps has it.  Stated for writes that no file operation of the swap
\* itself fails.
SourcesReadable ==
  Faults \subseteq {"open", "read"} =>
    \A r \in refs: \/ Matches(r)
                   \/ /\ Writing
                      /\ r.path = path
                      /\ orig = bak[path]
                      /\ orig.version = r.version

\* CHANGELOG.md, 1.1.0: a cancel while saving no longer corrupts a PBO.  A
\* saved file ends with its own signature, not with bytes of an older file.
NoStaleTail == pc = "done" /\ result = "saved" => ~disk[path].tail

\* A write that has begun ends.
WriteEnds == Writing ~> ~Writing

-----------------------------------------------------------------------------
(* What the writer promises: a save replaces the file or leaves it alone. *)

\* The contents of q as far as a reader that knows about .bak can tell.
Shelf(q) ==
  IF ~Writing \/ q # path THEN disk[q]
  ELSE IF ~shouldBackup THEN Absent
  ELSE IF pc = "moveNew" \/ backupMade THEN bak[q]
  ELSE disk[q]

Abstract == INSTANCE AtomicSave WITH
  shelf  <- [q \in Paths |-> Shelf(q)],
  saving <- Writing,
  target <- path

\* Where nothing but a cancel and errors before the swap interfere, a write
\* is one atomic step from the old file to the new one, or to no change.
SaveIsAtomic == Abstract!Spec
=============================================================================
