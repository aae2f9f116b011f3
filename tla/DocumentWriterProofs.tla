------------------------ MODULE DocumentWriterProofs ------------------------
(***************************************************************************)
(* What holds of DocumentWriter for any paths, any number of versions of   *)
(* any lengths, and any faults; then, from the section on how far the new  *)
(* file is, that a save looks like one atomic step (AtomicSave) when only  *)
(* a cancel and the errors before the swap interfere.                      *)
(***************************************************************************)
EXTENDS DocumentWriter, TLAPS

-----------------------------------------------------------------------------
(* The operators on file contents stay within Contents. *)

\* No file at all is one of the contents.
LEMMA AbsentType == Absent \in Contents
  BY DEF Contents

\* Every state a file can be in during a write is one of Contents.
LEMMA ContentsClosed ==
  ASSUME TypeOK, version # 0, NEW c \in Contents
  PROVE  /\ \A n \in c.len .. Longer(c.len, Length[version]):
              Opened(c, n) \in Contents
         /\ Copied(c) \in Contents
         /\ Signed(c) \in Contents
<1> version \in Versions
  BY BoundAssumption DEF TypeOK, DocType, Versions
<1> Length[version] \in 1 .. (LongFile - 1) /\ LongFile \in Nat
  BY LengthAssumption
<1> DEFINE Entry == [version: 0 .. MaxVersion,
                     state:   {"absent", "torn", "whole", "signed"},
                     len:     0 .. LongFile,
                     tail:    BOOLEAN,
                     intact:  BOOLEAN]
<1>0. c \in Entry
  <2>1. CASE c = Absent
    <3>1. 0 \in 0 .. MaxVersion /\ 0 \in 0 .. LongFile
      BY BoundAssumption
    <3>2. QED
      BY <2>1, <3>1 DEF Absent
  <2>2. CASE c # Absent
    BY <2>2, BoundAssumption DEF Contents, Versions
  <2>3. QED
    BY <2>1, <2>2
<1>1. \A n \in c.len .. Longer(c.len, Length[version]):
         Opened(c, n) \in Contents
  <2>1. c.len .. Longer(c.len, Length[version]) \subseteq 0 .. LongFile
    BY <1>0 DEF Longer
  <2>2. intact \in BOOLEAN
    BY DEF TypeOK, ControlType
  <2>3. QED
    BY <1>0, <2>1, <2>2 DEF Opened, Contents
<1>2. Copied(c) \in Contents
  <2>1. Longer(c.len, Length[version]) \in 0 .. LongFile
    BY <1>0 DEF Longer
  <2>2. (c.len > Length[version]) \in BOOLEAN
    BY <1>0
  <2>3. QED
    BY <1>0, <2>1, <2>2 DEF Copied, Contents
<1>3. Signed(c) \in Contents
  <2>1. (IF c.len < LongFile THEN c.len + 1 ELSE LongFile) \in 0 .. LongFile
    BY <1>0
  <2>2. QED
    BY <1>0, <2>1 DEF Signed, Contents
<1>4. QED
  BY <1>1, <1>2, <1>3

\* The file being written is one of the contents.
LEMMA TargetType == TypeOK => Target \in Contents
  BY DEF TypeOK, DiskType, CallType, Target

\* A write changes only the file it writes, and keeps the disk typed.
LEMMA SetTargetType ==
  ASSUME TypeOK, NEW c \in Contents, SetTarget(c)
  PROVE  DiskType'
  BY DEF TypeOK, SetTarget, DiskType

\* A step that touches no file keeps the disk typed.
LEMMA DiskUnchangedType ==
  ASSUME TypeOK, UNCHANGED diskVars
  PROVE  DiskType'
  BY DEF TypeOK, DiskType, diskVars

\* So does, for the document and for the call, a step that touches neither.
LEMMA UnchangedTypes ==
  ASSUME TypeOK
  PROVE  /\ UNCHANGED docVars => DocType'
         /\ UNCHANGED callVars => CallType'
  BY DEF TypeOK, DocType, docVars, CallType, callVars

\* A step strikes with a fault there is, or with none.
LEMMA FaultTypes ==
  ASSUME TypeOK
  PROVE  /\ NoFault => HitType'
         /\ \A f: Strikes(f) => HitType'
  BY FaultsAssumption DEF TypeOK, HitType, NoFault, Strikes

\* Removing the file being written, or failing to, keeps the types.
LEMMA RemoveTargetType ==
  ASSUME TypeOK, RemoveTarget
  PROVE  DiskType' /\ HitType'
<1>1. CASE SetTarget(Absent) /\ NoFault
  BY <1>1, AbsentType, SetTargetType, FaultTypes
<1>2. CASE Strikes("remove") /\ UNCHANGED diskVars
  BY <1>2, FaultTypes, DiskUnchangedType
<1>3. QED
  BY <1>1, <1>2 DEF RemoveTarget

-----------------------------------------------------------------------------
(* The inductive invariant.                                                *)
(*                                                                         *)
(* A write knows where the original is: at its path until it is renamed,   *)
(* in .bak from then on.  Placement says so step by step; OriginalKept and *)
(* CancelRestores say what is left of it when the write is over.           *)

\* The steps before the swap, at which the original is still at its path.
BeforeSwap == {"body", "open", "copy", "sign", "written", "decide", "backup",
               "moveOld"}

Placement ==
  /\ Writing => version # 0
  /\ Writing => (shouldBackup <=> orig # Absent)
  /\ Writing => result = "none"
  /\ pc \in BeforeSwap => ~backupMade
  /\ pc \in BeforeSwap /\ shouldBackup => disk[path] = orig
  /\ pc \in {"body", "open"} => disk[path] = orig
  /\ pc \in {"backup", "moveOld", "moveNew", "undo"} => shouldBackup
  /\ pc = "moveNew" => bak[path] = orig /\ ~backupMade
  /\ pc = "final" /\ backupMade => shouldBackup /\ bak[path] = orig
  /\ pc = "final" /\ shouldBackup /\ ~backupMade => disk[path] = orig
  /\ pc = "undo" => bak[path] = orig

IInv == TypeOK /\ Placement /\ OriginalKept /\ CancelRestores

\* The invariant holds before the first write.
LEMMA InitIInv == Init => IInv
<1> SUFFICES ASSUME Init PROVE IInv
  OBVIOUS
<1>1. TypeOK
  <2>1. DiskType
    BY AbsentType DEF Init, DiskType
  <2>2. DocType
    BY BoundAssumption DEF Init, DocType
  <2>3. CallType /\ HitType
    BY AbsentType DEF Init, CallType, HitType
  <2>4. ControlType
    BY DEF Init, ControlType
  <2>5. QED
    BY <2>1, <2>2, <2>3, <2>4 DEF TypeOK
<1>2. Placement /\ OriginalKept /\ CancelRestores
  BY DEF Init, Placement, OriginalKept, CancelRestores, Writing, BeforeSwap
<1>3. QED
  BY <1>1, <1>2 DEF IInv

\* Every step keeps the types.
LEMMA NextType ==
  ASSUME TypeOK, Placement, [Next]_vars
  PROVE  TypeOK'
<1> USE DEF Steps
<1>1. ASSUME NEW p \in Paths, Begin(p) PROVE TypeOK'
  <2>1. DiskType' /\ DocType'
    BY <1>1, DiskUnchangedType, UnchangedTypes DEF Begin
  <2>2. CallType'
    BY <1>1 DEF Begin, TypeOK, DiskType, CallType
  <2>3. ControlType' /\ HitType'
    BY <1>1 DEF Begin, TypeOK, ControlType, HitType
  <2>4. QED
    BY <2>1, <2>2, <2>3 DEF TypeOK
<1>2. ASSUME NEW p \in Paths, Open(p) PROVE TypeOK'
  <2>1. DiskType' /\ CallType'
    BY <1>2, DiskUnchangedType, UnchangedTypes DEF Open
  <2>2. disk[p].version \in Versions
    BY <1>2 DEF Open, TypeOK, DiskType, Contents
  <2>3. PboRef(p, disk[p].version) \in Ref
    BY <2>2 DEF PboRef, Ref
  <2>4. DocType'
    BY <1>2, <2>2, <2>3, BoundAssumption
    DEF Open, TypeOK, DocType, Versions
  <2>5. ControlType' /\ HitType'
    BY <1>2 DEF Open, writerVars, TypeOK, ControlType, HitType
  <2>6. QED
    BY <2>1, <2>4, <2>5 DEF TypeOK
<1>3. CASE Edit
  <2>1. DiskType' /\ CallType'
    BY <1>3, DiskUnchangedType, UnchangedTypes DEF Edit
  <2>2. DocType'
    BY <1>3, BoundAssumption DEF Edit, TypeOK, DocType, Ref
  <2>3. ControlType' /\ HitType'
    BY <1>3 DEF Edit, writerVars, TypeOK, ControlType, HitType
  <2>4. QED
    BY <2>1, <2>2, <2>3 DEF TypeOK
<1>4. CASE Cancel
  <2>1. DiskType'
    BY <1>4, DiskUnchangedType DEF Cancel
  <2>2. DocType' /\ CallType'
    BY <1>4, UnchangedTypes DEF Cancel
  <2>3. ControlType'
    BY <1>4 DEF Cancel, ControlType, TypeOK, End, Throw
  <2>4. HitType'
    BY <1>4 DEF Cancel, TypeOK, HitType
  <2>5. QED
    BY <2>1, <2>2, <2>3, <2>4 DEF TypeOK
<1>5. CASE WriteBody
  <2>1. DiskType'
    BY <1>5, DiskUnchangedType DEF WriteBody
  <2>2. DocType' /\ CallType'
    BY <1>5, UnchangedTypes DEF WriteBody
  <2>3. ControlType'
    BY <1>5 DEF WriteBody, ControlType, TypeOK, End, Throw
  <2>4. HitType'
    BY <1>5, FaultTypes DEF WriteBody
  <2>5. QED
    BY <2>1, <2>2, <2>3, <2>4 DEF TypeOK
<1>6. CASE OpenAndWriteHeader
  <2>1. DiskType'
    <3>1. CASE UNCHANGED diskVars
      BY <3>1, DiskUnchangedType
    <3>2. ASSUME NEW n \in Target.len .. Longer(Target.len, Length[version]),
                 SetTarget(Opened(Target, n))
          PROVE  DiskType'
      BY <1>6, <3>2, TargetType, ContentsClosed, SetTargetType
      DEF OpenAndWriteHeader, Placement, Writing
    <3>3. QED
      BY <1>6, <3>1, <3>2 DEF OpenAndWriteHeader
  <2>2. DocType' /\ CallType'
    BY <1>6, UnchangedTypes DEF OpenAndWriteHeader
  <2>3. ControlType'
    BY <1>6 DEF OpenAndWriteHeader, ControlType, TypeOK, End, Throw
  <2>4. HitType'
    BY <1>6, FaultTypes DEF OpenAndWriteHeader
  <2>5. QED
    BY <2>1, <2>2, <2>3, <2>4 DEF TypeOK
<1>7. CASE CopyBody
  <2>1. DiskType'
    BY <1>7, DiskUnchangedType, RemoveTargetType, TargetType, ContentsClosed,
       SetTargetType
    DEF CopyBody, Placement, Writing
  <2>2. DocType' /\ CallType'
    BY <1>7, UnchangedTypes DEF CopyBody
  <2>3. ControlType'
    BY <1>7 DEF CopyBody, ControlType, TypeOK, End, Throw
  <2>4. HitType'
    BY <1>7, FaultTypes, RemoveTargetType DEF CopyBody
  <2>5. QED
    BY <2>1, <2>2, <2>3, <2>4 DEF TypeOK
<1>8. CASE WriteSignature
  <2>1. DiskType'
    BY <1>8, DiskUnchangedType, TargetType, ContentsClosed, SetTargetType
    DEF WriteSignature, Placement, Writing
  <2>2. DocType' /\ CallType'
    BY <1>8, UnchangedTypes DEF WriteSignature, TypeOK, DocType
  <2>3. ControlType'
    BY <1>8 DEF WriteSignature, ControlType, TypeOK
  <2>4. HitType'
    BY <1>8, FaultTypes DEF WriteSignature
  <2>5. QED
    BY <2>1, <2>2, <2>3, <2>4 DEF TypeOK
<1>9. CASE CheckWritten
  <2>1. DiskType'
    BY <1>9, DiskUnchangedType, RemoveTargetType DEF CheckWritten
  <2>2. DocType' /\ CallType'
    BY <1>9, UnchangedTypes DEF CheckWritten
  <2>3. ControlType'
    BY <1>9 DEF CheckWritten, ControlType, TypeOK, End, Throw
  <2>4. HitType'
    BY <1>9, FaultTypes, RemoveTargetType DEF CheckWritten
  <2>5. QED
    BY <2>1, <2>2, <2>3, <2>4 DEF TypeOK
<1>10. CASE Decide
  <2>1. DiskType'
    BY <1>10, DiskUnchangedType, RemoveTargetType DEF Decide
  <2>2. DocType' /\ CallType'
    BY <1>10, UnchangedTypes DEF Decide
  <2>3. ControlType'
    BY <1>10 DEF Decide, ControlType, TypeOK, End, Throw
  <2>4. HitType'
    BY <1>10, FaultTypes, RemoveTargetType DEF Decide
  <2>5. QED
    BY <2>1, <2>2, <2>3, <2>4 DEF TypeOK
<1>11. CASE RemoveOldBackup
  <2>1. DiskType'
    BY <1>11, AbsentType
    DEF RemoveOldBackup, TypeOK, DiskType, CallType, diskVars
  <2>2. DocType' /\ CallType'
    BY <1>11, UnchangedTypes DEF RemoveOldBackup
  <2>3. ControlType'
    BY <1>11 DEF RemoveOldBackup, ControlType, TypeOK, End, Throw
  <2>4. HitType'
    BY <1>11, FaultTypes DEF RemoveOldBackup
  <2>5. QED
    BY <2>1, <2>2, <2>3, <2>4 DEF TypeOK
<1>12. CASE MoveOriginalToBackup
  <2>1. DiskType'
    BY <1>12, AbsentType
    DEF MoveOriginalToBackup, TypeOK, DiskType, CallType, diskVars
  <2>2. DocType' /\ CallType'
    BY <1>12, UnchangedTypes DEF MoveOriginalToBackup
  <2>3. ControlType'
    BY <1>12 DEF MoveOriginalToBackup, ControlType, TypeOK, End, Throw
  <2>4. HitType'
    BY <1>12, FaultTypes DEF MoveOriginalToBackup
  <2>5. QED
    BY <2>1, <2>2, <2>3, <2>4 DEF TypeOK
<1>13. CASE MoveNewIntoPlace
  <2>1. DiskType'
    BY <1>13, AbsentType
    DEF MoveNewIntoPlace, TypeOK, DiskType, CallType, diskVars
  <2>2. DocType' /\ CallType'
    BY <1>13, UnchangedTypes DEF MoveNewIntoPlace
  <2>3. ControlType'
    BY <1>13 DEF MoveNewIntoPlace, ControlType, TypeOK, End, Throw
  <2>4. HitType'
    BY <1>13, FaultTypes DEF MoveNewIntoPlace
  <2>5. QED
    BY <2>1, <2>2, <2>3, <2>4 DEF TypeOK
<1>14. CASE Finish
  <2>1. DiskType'
    BY <1>14, AbsentType DEF Finish, TypeOK, DiskType, CallType, diskVars
  <2>2. CallType'
    BY <1>14, UnchangedTypes DEF Finish
  <2>3. version \in Versions
    BY <1>14 DEF Finish, Placement, Writing, TypeOK, DocType, Versions
  <2>4. DocType'
    <3>1. PboRef(path, version) \in Ref
      BY <2>3 DEF PboRef, Ref, TypeOK, CallType
    <3>2. refs' \in SUBSET Ref
      BY <1>14, <3>1 DEF Finish, AssignBinarySources, TypeOK, DocType
    <3>3. QED
      BY <1>14, <3>2 DEF Finish, TypeOK, DocType
  <2>5. ControlType'
    BY <1>14 DEF Finish, ControlType, TypeOK, End, Throw
  <2>6. HitType'
    BY <1>14, FaultTypes DEF Finish
  <2>7. QED
    BY <2>1, <2>2, <2>4, <2>5, <2>6 DEF TypeOK
<1>15. CASE RestoreOriginal
  <2>1. DiskType'
    BY <1>15, AbsentType
    DEF RestoreOriginal, TypeOK, DiskType, CallType, diskVars
  <2>2. DocType' /\ CallType'
    BY <1>15, UnchangedTypes DEF RestoreOriginal
  <2>3. ControlType'
    BY <1>15 DEF RestoreOriginal, ControlType, TypeOK, End, Throw
  <2>4. HitType'
    BY <1>15, FaultTypes DEF RestoreOriginal
  <2>5. QED
    BY <2>1, <2>2, <2>3, <2>4 DEF TypeOK
<1>16. CASE Crash
  <2>1. DiskType' /\ CallType'
    BY <1>16, DiskUnchangedType, UnchangedTypes DEF Crash
  <2>2. DocType'
    BY <1>16, BoundAssumption DEF Crash, TypeOK, DocType
  <2>3. ControlType' /\ HitType'
    BY <1>16, FaultTypes DEF Crash, TypeOK, ControlType
  <2>4. QED
    BY <2>1, <2>2, <2>3 DEF TypeOK
<1>17. CASE UNCHANGED vars
  BY <1>17, DiskUnchangedType, UnchangedTypes
  DEF vars, TypeOK, ControlType, HitType
<1>18. QED
  BY <1>1, <1>2, <1>3, <1>4, <1>5, <1>6, <1>7, <1>8, <1>9, <1>10, <1>11,
     <1>12, <1>13, <1>14, <1>15, <1>16, <1>17 DEF Next, Step

-----------------------------------------------------------------------------
(* Every step keeps the original in its place.  A write that touches only  *)
(* the file it writes cannot disturb it: with an original that file is     *)
(* path.t, and without one there is nothing to keep.                       *)

\* What writing to, or removing, the file being written leaves alone.
LEMMA SetTargetKeeps ==
  ASSUME TypeOK, NEW c, SetTarget(c)
  PROVE  /\ bak' = bak
         /\ shouldBackup => disk' = disk
         /\ ~shouldBackup => disk'[path] = c
  BY DEF SetTarget, TypeOK, DiskType, CallType

\* The same of its removal, which only a fault can prevent.
LEMMA RemoveTargetKeeps ==
  ASSUME TypeOK, RemoveTarget
  PROVE  /\ bak' = bak
         /\ shouldBackup => disk' = disk
         /\ ~shouldBackup => disk'[path] = Absent \/ "remove" \in hit'
  BY SetTargetKeeps DEF RemoveTarget, diskVars, Strikes

\* Every step keeps the original where Placement says it is.
LEMMA NextPlacement ==
  ASSUME IInv, [Next]_vars
  PROVE  Placement' /\ OriginalKept' /\ CancelRestores'
<1> USE DEF IInv, Placement, OriginalKept, CancelRestores, BeforeSwap
<1>1. ASSUME NEW p \in Paths, Begin(p)
      PROVE  Placement' /\ OriginalKept' /\ CancelRestores'
  BY <1>1 DEF Begin, Writing, diskVars, docVars
<1>2. ASSUME NEW p \in Paths, Open(p)
      PROVE  Placement' /\ OriginalKept' /\ CancelRestores'
  BY <1>2 DEF Open, Writing, diskVars, callVars, writerVars
<1>3. CASE Edit
  BY <1>3 DEF Edit, Writing, diskVars, callVars, writerVars
<1>4. CASE Cancel
  BY <1>4 DEF Cancel, Writing, diskVars, docVars, callVars
<1>5. CASE WriteBody
  BY <1>5 DEF WriteBody, Writing, diskVars, docVars, callVars, Throw, End
<1>6. CASE OpenAndWriteHeader
  BY <1>6, SetTargetKeeps
  DEF OpenAndWriteHeader, Writing, diskVars, docVars, callVars, Throw, End
<1>7. CASE CopyBody
  BY <1>7, SetTargetKeeps, RemoveTargetKeeps
  DEF CopyBody, Writing, diskVars, docVars, callVars
<1>8. CASE WriteSignature
  BY <1>8, SetTargetKeeps DEF WriteSignature, Writing, diskVars, callVars
<1>9. CASE CheckWritten
  BY <1>9, RemoveTargetKeeps
  DEF CheckWritten, Writing, diskVars, docVars, callVars
<1>10. CASE Decide
  BY <1>10, RemoveTargetKeeps
  DEF Decide, Writing, diskVars, docVars, callVars, End
<1>11. CASE RemoveOldBackup
  BY <1>11
  DEF RemoveOldBackup, Writing, diskVars, docVars, callVars, Throw, End
<1>12. CASE MoveOriginalToBackup
  BY <1>12
  DEF MoveOriginalToBackup, Writing, diskVars, docVars, callVars, Throw, End,
      TypeOK, DiskType, CallType
<1>13. CASE MoveNewIntoPlace
  BY <1>13
  DEF MoveNewIntoPlace, Writing, diskVars, docVars, callVars, Throw, End
<1>14. CASE Finish
  BY <1>14
  DEF Finish, Writing, diskVars, callVars, Throw, End, TypeOK, DiskType,
      CallType
<1>15. CASE RestoreOriginal
  BY <1>15
  DEF RestoreOriginal, Writing, diskVars, docVars, callVars, Throw, End,
      TypeOK, DiskType, CallType
<1>16. CASE Crash
  BY <1>16 DEF Crash, Writing, diskVars, callVars
<1>17. CASE UNCHANGED vars
  BY <1>17 DEF vars, Writing, diskVars, docVars, callVars
<1>18. QED
  BY <1>1, <1>2, <1>3, <1>4, <1>5, <1>6, <1>7, <1>8, <1>9, <1>10, <1>11,
     <1>12, <1>13, <1>14, <1>15, <1>16, <1>17 DEF Next, Step

-----------------------------------------------------------------------------
(* The theorems. *)

\* The inductive invariant holds throughout.
LEMMA Invariance == Spec => []IInv
<1>1. IInv /\ [Next]_vars => IInv'
  BY NextType, NextPlacement DEF IInv
<1>2. QED
  BY InitIInv, <1>1, PTL DEF Spec

\* The types hold for any paths, versions, lengths and faults.
THEOREM TypeCorrect == Spec => []TypeOK
<1>1. IInv => TypeOK
  BY DEF IInv
<1>2. QED
  BY Invariance, <1>1, PTL

\* However a write ends or stops, the file it found is at its path or in .bak.
THEOREM OriginalNeverLost == Spec => []OriginalKept
<1>1. IInv => OriginalKept
  BY DEF IInv
<1>2. QED
  BY Invariance, <1>1, PTL

\* A write that ends as cancelled has changed nothing at the path, up to a new
\* file that could not be removed.
THEOREM CancelledLeavesPath == Spec => []CancelRestores
<1>1. IInv => CancelRestores
  BY DEF IInv
<1>2. QED
  BY Invariance, <1>1, PTL

-----------------------------------------------------------------------------
(* The inductive invariant: how far the new file is at each step.          *)

\* The steps at which the new file is complete, unless the write was
\* cancelled or the disk was full.
Swapping == {"written", "decide", "backup", "moveOld", "moveNew"}

\* Which steps strike is limited to what the environment may inflict.
HitInv == hit \subseteq Faults

\* A file is written from nothing unless a .t file was left behind.
FreshInv ==
  /\ pc \in {"body", "open"} /\ ~leftover => Target = Absent
  /\ pc = "copy" /\ ~leftover => ~Target.tail /\ Target.len <= Length[version]
  /\ pc \in {"sign"} \union Swapping /\ ~leftover => ~Target.tail

\* The new file has the version of the document, and grows step by step.
GrowthInv ==
  /\ pc = "copy" => Target.version = version
  /\ pc = "sign" /\ "full" \notin hit =>
       Target.version = version /\ Target.state = "whole"
  /\ pc \in Swapping /\ ~cancelled /\ "full" \notin hit =>
       /\ Target.version = version /\ Target.state = "signed"
       /\ signature = version

\* What is at the path once a write cannot but end as saved.
InPlaceInv ==
  /\ pc = "final" /\ ~cancelled =>
       /\ shouldBackup => backupMade
       /\ "full" \notin hit =>
            /\ disk[path].version = version /\ disk[path].state = "signed"
            /\ signature = version
       /\ disk[path].tail => leftover
  /\ pc = "undo" => backupMade

ProgressInv == HitInv /\ FreshInv /\ GrowthInv /\ InPlaceInv

\* With no more than errors before the swap, a file is torn only while it is
\* being written, and the file a source names is the one it was made for.
SoftFaults == Faults \subseteq {"open", "read"}

SourcesInv ==
  /\ \A p \in Paths: ~Writing \/ p # path => disk[p].state # "torn"
  /\ Writing => orig.state # "torn"
  /\ \A r \in refs:
       r # FsRef =>
         IF Writing /\ r.path = path THEN orig.version = r.version
                                     ELSE disk[r.path].version = r.version

AInv == /\ IInv
        /\ ProgressInv
        /\ SavedIsDocument
        /\ SoftFaults => SourcesInv

-----------------------------------------------------------------------------
(* What the writing of a file does to the file written.                    *)

\* Every file has these fields, and so has no file at all.
Entry == [version: 0 .. MaxVersion,
          state:   {"absent", "torn", "whole", "signed"},
          len:     0 .. LongFile,
          tail:    BOOLEAN,
          intact:  BOOLEAN]

\* What a path may hold has a version, a state and a length.
LEMMA ContentsAreEntries == Contents \subseteq Entry
<1>1. Absent \in Entry
  <2>1. 0 \in 0 .. MaxVersion /\ 0 \in 0 .. LongFile
    BY BoundAssumption, LengthAssumption
  <2>2. QED
    BY <2>1 DEF Absent, Entry
<1>2. Contents \ {Absent} \subseteq Entry
  BY BoundAssumption DEF Contents, Versions, Entry
<1>3. QED
  BY <1>1, <1>2

\* What opening, copying and signing make of a file.
LEMMA WrittenFields ==
  ASSUME NEW c \in Contents, NEW n
  PROVE  /\ Opened(c, n).version = version
         /\ Opened(c, n).state = "torn"
         /\ Opened(c, n).len = n
         /\ Opened(c, n).tail = c.tail
         /\ Copied(c).version = version
         /\ Copied(c).state = "whole"
         /\ Copied(c).tail = (c.len > Length[version])
         /\ Signed(c).version = version
         /\ Signed(c).state = "signed"
         /\ Signed(c).tail = c.tail
<1>1. c \in Entry
  BY ContentsAreEntries
<1>2. QED
  BY <1>1 DEF Opened, Copied, Signed, Entry

\* A path without a file.
LEMMA AbsentFields ==
  /\ Absent.version = 0 /\ Absent.state = "absent" /\ Absent.len = 0
  /\ Absent.tail = FALSE
  BY DEF Absent

\* What is set is the file being written, and nothing else on the disk that
\* is not its .t file.
LEMMA SetTargetSets ==
  ASSUME TypeOK, NEW c, SetTarget(c), UNCHANGED callVars
  PROVE  /\ Target' = c
         /\ \A p \in Paths: p # path => disk'[p] = disk[p]
         /\ bak' = bak
         /\ shouldBackup => disk' = disk
  BY DEF SetTarget, Target, TypeOK, DiskType, CallType, callVars

\* A removal either removes it or strikes and changes nothing.
LEMMA RemoveTargetSets ==
  ASSUME TypeOK, RemoveTarget, UNCHANGED callVars
  PROVE  /\ Target' = Absent \/ Target' = Target
         /\ \A p \in Paths: p # path => disk'[p] = disk[p]
         /\ bak' = bak
         /\ shouldBackup => disk' = disk
         /\ hit \subseteq hit'
         /\ hit \subseteq Faults => hit' \subseteq Faults
         /\ "remove" \notin Faults => Target' = Absent
<1>1. CASE SetTarget(Absent) /\ NoFault
  BY <1>1, SetTargetSets DEF NoFault
<1>2. CASE Strikes("remove") /\ UNCHANGED diskVars
  BY <1>2 DEF Strikes, diskVars, callVars, Target
<1>3. QED
  BY <1>1, <1>2 DEF RemoveTarget

-----------------------------------------------------------------------------
(* The file that is being written. *)

\* Nothing is being written at first.
LEMMA InitAInv == Init => AInv
<1> SUFFICES ASSUME Init PROVE AInv
  OBVIOUS
<1>1. IInv
  BY InitIInv
<1>2. ProgressInv
  BY DEF Init, ProgressInv, HitInv, FreshInv, GrowthInv, InPlaceInv, Swapping
<1>3. SavedIsDocument
  BY DEF Init, SavedIsDocument
<1>4. SourcesInv
  BY AbsentFields DEF Init, SourcesInv, Writing
<1>5. QED
  BY <1>1, <1>2, <1>3, <1>4 DEF AInv

\* Every step takes the new file further, or ends the write.
LEMMA NextProgress ==
  ASSUME IInv, ProgressInv, SavedIsDocument, [Next]_vars
  PROVE  ProgressInv' /\ SavedIsDocument'
<1> DEFINE Goal == ProgressInv' /\ SavedIsDocument'
<1> USE DEF ProgressInv, HitInv, Swapping
<1>0. /\ TypeOK /\ Target \in Contents
      /\ path \in Paths /\ disk \in [Paths -> Contents]
      /\ Writing => version \in Versions /\ Length[version] \in Nat
  BY TargetType, LengthAssumption, BoundAssumption
  DEF IInv, TypeOK, DiskType, CallType, DocType, Placement, Versions
<1>1. ASSUME NEW p \in Paths, Begin(p) PROVE Goal
  BY <1>0, <1>1, AbsentFields
  DEF Begin, FreshInv, GrowthInv, InPlaceInv, SavedIsDocument, Target,
      diskVars
<1>2. ASSUME NEW p \in Paths, Open(p) PROVE Goal
  BY <1>2
  DEF Open, FreshInv, GrowthInv, InPlaceInv, SavedIsDocument, writerVars
<1>3. ASSUME Edit PROVE Goal
  BY <1>3
  DEF Edit, FreshInv, GrowthInv, InPlaceInv, SavedIsDocument, writerVars
<1>4. ASSUME Cancel PROVE Goal
  <2>1. UNCHANGED <<Target, diskVars, docVars, callVars, pc, hit, result>>
    BY <1>4 DEF Cancel, diskVars, callVars, Target
  <2>2. UNCHANGED <<version, signature, disk, bak, leftover, shouldBackup,
                    backupMade, path, orig>> /\ cancelled'
    BY <1>4, <2>1 DEF Cancel, diskVars, docVars, callVars
  <2>3. QED
    BY <2>1, <2>2, <1>4
    DEF Cancel, Writing, FreshInv, GrowthInv, InPlaceInv, SavedIsDocument
<1>5. ASSUME WriteBody PROVE Goal
  BY <1>5
  DEF WriteBody, FreshInv, GrowthInv, InPlaceInv, SavedIsDocument, Target,
      diskVars, docVars, callVars, Throw, End, Strikes, NoFault
<1>6. ASSUME OpenAndWriteHeader PROVE Goal
  <2>1. CASE cancelled
    BY <1>6, <2>1, AbsentFields
    DEF OpenAndWriteHeader, FreshInv, GrowthInv, InPlaceInv, SavedIsDocument,
        Target, diskVars, docVars, callVars, NoFault
  <2>2. CASE Throw /\ Strikes("open")
    BY <1>6, <2>2
    DEF OpenAndWriteHeader, FreshInv, GrowthInv, InPlaceInv, SavedIsDocument,
        docVars, callVars, Throw, End, Strikes
  <2>3. ASSUME NEW n \in Target.len .. Longer(Target.len, Length[version]),
               SetTarget(Opened(Target, n)), pc' = "copy", NoFault
        PROVE  Goal
    <3>1. Target' = Opened(Target, n)
      BY <1>0, <1>6, <2>3, SetTargetSets DEF OpenAndWriteHeader
    <3>2. /\ Target'.version = version /\ Target'.len = n
          /\ Target'.tail = Target.tail
      BY <1>0, <3>1, WrittenFields
    <3>3. ~leftover => ~Target.tail /\ n <= Length[version]
      <4>1. ~leftover => Target = Absent
        BY <1>6 DEF OpenAndWriteHeader, FreshInv
      <4>2. Length[version] \in Nat
        BY <1>0, <1>6 DEF OpenAndWriteHeader, Writing
      <4>3. QED
        BY <2>3, <4>1, <4>2, AbsentFields DEF Longer
    <3>4. QED
      BY <1>6, <2>3, <3>2, <3>3
      DEF OpenAndWriteHeader, FreshInv, GrowthInv, InPlaceInv,
          SavedIsDocument, docVars, callVars, NoFault
  <2>4. QED
    BY <1>6, <2>1, <2>2, <2>3 DEF OpenAndWriteHeader
<1>7. ASSUME CopyBody PROVE Goal
  <2>1. CASE cancelled /\ RemoveTarget /\ pc' = "decide"
    <3>1. /\ Target' = Absent \/ Target' = Target
          /\ hit \subseteq hit' /\ hit' \subseteq Faults
      BY <1>0, <1>7, <2>1, RemoveTargetSets DEF CopyBody
    <3>2. QED
      BY <1>7, <2>1, <3>1, AbsentFields
      DEF CopyBody, FreshInv, GrowthInv, InPlaceInv, SavedIsDocument, docVars,
          callVars
  <2>2. CASE SetTarget(Copied(Target)) /\ pc' = "sign" /\ NoFault
    <3>1. Target' = Copied(Target)
      BY <1>0, <1>7, <2>2, SetTargetSets DEF CopyBody
    <3>2. /\ Target'.version = version /\ Target'.state = "whole"
          /\ Target'.tail = (Target.len > Length[version])
      BY <1>0, <3>1, WrittenFields
    <3>3. Target.len \in Nat /\ Length[version] \in Nat
      BY <1>0, <1>7, ContentsAreEntries, LengthAssumption
      DEF CopyBody, Writing, Entry
    <3>4. ~leftover => ~(Target.len > Length[version])
      BY <1>7, <3>3 DEF CopyBody, FreshInv
    <3>5. ~leftover => ~Target'.tail
      BY <3>2, <3>4
    <3>6. QED
      BY <1>7, <2>2, <3>2, <3>5
      DEF CopyBody, FreshInv, GrowthInv, InPlaceInv, SavedIsDocument, docVars,
          callVars, NoFault
  <2>3. CASE Strikes("full") /\ UNCHANGED diskVars /\ pc' = "sign"
    BY <1>7, <2>3
    DEF CopyBody, FreshInv, GrowthInv, InPlaceInv, SavedIsDocument, Target,
        diskVars, docVars, callVars, Strikes
  <2>4. QED
    BY <1>7, <2>1, <2>2, <2>3 DEF CopyBody
<1>8. ASSUME WriteSignature PROVE Goal
  <2>1. CASE cancelled /\ UNCHANGED diskVars /\ NoFault
    BY <1>8, <2>1
    DEF WriteSignature, FreshInv, GrowthInv, InPlaceInv, SavedIsDocument,
        Target, diskVars, callVars, NoFault
  <2>2. CASE SetTarget(Signed(Target)) /\ NoFault /\ signature' = version
    <3>1. Target' = Signed(Target)
      BY <1>0, <1>8, <2>2, SetTargetSets DEF WriteSignature
    <3>2. /\ Target'.version = version /\ Target'.state = "signed"
          /\ Target'.tail = Target.tail
      BY <1>0, <3>1, WrittenFields
    <3>3. QED
      BY <1>8, <2>2, <3>2
      DEF WriteSignature, FreshInv, GrowthInv, InPlaceInv, SavedIsDocument,
          callVars, NoFault
  <2>3. CASE Strikes("full") /\ UNCHANGED diskVars
    BY <1>8, <2>3
    DEF WriteSignature, FreshInv, GrowthInv, InPlaceInv, SavedIsDocument,
        Target, diskVars, callVars, Strikes
  <2>4. QED
    BY <1>8, <2>1, <2>2, <2>3 DEF WriteSignature
<1>9. ASSUME CheckWritten PROVE Goal
  <2>1. CASE cancelled /\ RemoveTarget
    <3>1. /\ Target' = Absent \/ Target' = Target
          /\ hit \subseteq hit' /\ hit' \subseteq Faults
      BY <1>0, <1>9, <2>1, RemoveTargetSets DEF CheckWritten
    <3>2. QED
      BY <1>9, <2>1, <3>1, AbsentFields
      DEF CheckWritten, FreshInv, GrowthInv, InPlaceInv, SavedIsDocument,
          docVars, callVars
  <2>2. CASE ~cancelled /\ UNCHANGED diskVars /\ NoFault
    BY <1>9, <2>2
    DEF CheckWritten, FreshInv, GrowthInv, InPlaceInv, SavedIsDocument,
        Target, diskVars, docVars, callVars, NoFault
  <2>3. QED
    BY <1>9, <2>1, <2>2 DEF CheckWritten
<1>10. ASSUME Decide PROVE Goal
  <2>1. CASE cancelled
    BY <1>0, <1>10, <2>1, RemoveTargetSets
    DEF Decide, FreshInv, GrowthInv, InPlaceInv, SavedIsDocument, End,
        NoFault
  <2>2. CASE ~cancelled
    BY <1>10, <2>2
    DEF Decide, FreshInv, GrowthInv, InPlaceInv, SavedIsDocument, Target,
        diskVars, docVars, callVars, NoFault
  <2>3. QED
    BY <2>1, <2>2
<1>11. ASSUME RemoveOldBackup PROVE Goal
  BY <1>11
  DEF RemoveOldBackup, FreshInv, GrowthInv, InPlaceInv, SavedIsDocument,
      Target, diskVars, docVars, callVars, NoFault, Strikes, Throw, End
<1>12. ASSUME MoveOriginalToBackup PROVE Goal
  BY <1>12
  DEF MoveOriginalToBackup, IInv, Placement, FreshInv, GrowthInv, InPlaceInv,
      SavedIsDocument, Target, diskVars, docVars, callVars, NoFault, Strikes,
      Throw, End
<1>13. ASSUME MoveNewIntoPlace PROVE Goal
  BY <1>0, <1>13
  DEF MoveNewIntoPlace, IInv, Placement, FreshInv, GrowthInv, InPlaceInv,
      SavedIsDocument, Target, diskVars, docVars, callVars, NoFault, Strikes,
      Throw, End
<1>14. ASSUME Finish PROVE Goal
  <2>1. CASE ~cancelled
    BY <1>14, <2>1
    DEF Finish, IInv, Placement, Writing, FreshInv, GrowthInv, InPlaceInv,
        SavedIsDocument, diskVars, callVars, NoFault, End
  <2>2. CASE cancelled
    BY <1>14, <2>2
    DEF Finish, FreshInv, GrowthInv, InPlaceInv, SavedIsDocument, diskVars,
        callVars, NoFault, Strikes, Throw, End
  <2>3. QED
    BY <2>1, <2>2
<1>15. ASSUME RestoreOriginal PROVE Goal
  BY <1>15
  DEF RestoreOriginal, FreshInv, GrowthInv, InPlaceInv, SavedIsDocument,
      NoFault, Strikes, Throw, End
<1>16. ASSUME Crash PROVE Goal
  BY <1>16
  DEF Crash, FreshInv, GrowthInv, InPlaceInv, SavedIsDocument, Strikes
<1>17. ASSUME UNCHANGED vars PROVE Goal
  BY <1>17
  DEF vars, diskVars, docVars, callVars, FreshInv, GrowthInv, InPlaceInv,
      SavedIsDocument, Target
<1>18. QED
  BY <1>1, <1>2, <1>3, <1>4, <1>5, <1>6, <1>7, <1>8, <1>9, <1>10, <1>11,
     <1>12, <1>13, <1>14, <1>15, <1>16, <1>17 DEF Next, Step

-----------------------------------------------------------------------------
(* The sources of the document. *)

\* With no more than errors before the swap, the sources stay readable.
LEMMA NextSources ==
  ASSUME AInv, SoftFaults, [Next]_vars
  PROVE  SourcesInv'
<1> USE DEF AInv, SoftFaults
<1>0. /\ TypeOK /\ Target \in Contents /\ SourcesInv
      /\ path \in Paths /\ disk \in [Paths -> Contents]
      /\ refs \subseteq Ref
      /\ \A r \in Ref: r # FsRef => r.path \in Paths /\ r.version # 0
      /\ "remove" \notin Faults /\ "rename" \notin Faults
      /\ "full" \notin Faults /\ "crash" \notin Faults /\ "full" \notin hit
  BY TargetType
  DEF IInv, TypeOK, DiskType, CallType, DocType, Ref, Versions, ProgressInv,
      HitInv
\* What a step that ends a write has to leave at the path.
<1>a. ASSUME Writing, ~Writing', UNCHANGED <<refs, path>>,
             disk'[path] = orig, \A p \in Paths: p # path => disk'[p] = disk[p]
      PROVE  SourcesInv'
  BY <1>0, <1>a DEF SourcesInv
\* A step inside a write leaves the other paths and the sources alone.
<1>b. ASSUME Writing, Writing', UNCHANGED <<refs, path, orig>>,
             \A p \in Paths: p # path => disk'[p] = disk[p]
      PROVE  SourcesInv'
  BY <1>0, <1>b DEF SourcesInv
<1>1. ASSUME NEW p \in Paths, Begin(p) PROVE SourcesInv'
  BY <1>0, <1>1 DEF Begin, SourcesInv, Writing, diskVars, docVars
<1>2. ASSUME NEW p \in Paths, Open(p) PROVE SourcesInv'
  BY <1>0, <1>2 DEF Open, SourcesInv, Writing, diskVars, PboRef
<1>3. ASSUME Edit PROVE SourcesInv'
  BY <1>0, <1>3 DEF Edit, SourcesInv, Writing, diskVars
<1>4. ASSUME Cancel PROVE SourcesInv'
  BY <1>4, <1>b DEF Cancel, Writing, diskVars, docVars, callVars
<1>5. ASSUME WriteBody PROVE SourcesInv'
  BY <1>5, <1>a, <1>b
  DEF WriteBody, Writing, diskVars, docVars, callVars, Throw, End, IInv,
      Placement
<1>6. ASSUME OpenAndWriteHeader PROVE SourcesInv'
  <2>1. CASE UNCHANGED diskVars
    BY <1>6, <2>1, <1>a, <1>b
    DEF OpenAndWriteHeader, Writing, diskVars, docVars, callVars, Throw, End,
        IInv, Placement
  <2>2. ASSUME NEW n, SetTarget(Opened(Target, n)), pc' = "copy"
        PROVE  SourcesInv'
    BY <1>0, <1>6, <2>2, <1>b, SetTargetSets
    DEF OpenAndWriteHeader, Writing, docVars, callVars
  <2>3. QED
    BY <1>6, <2>1, <2>2 DEF OpenAndWriteHeader
<1>7. ASSUME CopyBody PROVE SourcesInv'
  BY <1>0, <1>7, <1>b, SetTargetSets, RemoveTargetSets
  DEF CopyBody, Writing, docVars, callVars, diskVars
<1>8. ASSUME WriteSignature PROVE SourcesInv'
  BY <1>0, <1>8, <1>b, SetTargetSets
  DEF WriteSignature, Writing, callVars, diskVars
<1>9. ASSUME CheckWritten PROVE SourcesInv'
  BY <1>0, <1>9, <1>b, RemoveTargetSets
  DEF CheckWritten, Writing, docVars, callVars, diskVars
<1>10. ASSUME Decide PROVE SourcesInv'
  <2>1. CASE ~cancelled
    BY <1>10, <2>1, <1>b
    DEF Decide, Writing, docVars, callVars, diskVars
  <2>2. CASE cancelled /\ shouldBackup
    BY <1>10, <2>2, <1>a
    DEF Decide, Writing, docVars, callVars, diskVars, End, IInv, Placement,
        BeforeSwap
  <2>3. CASE cancelled /\ ~shouldBackup
    <3>1. Target' = Absent /\ \A p \in Paths: p # path => disk'[p] = disk[p]
      BY <1>0, <1>10, <2>3, RemoveTargetSets DEF Decide
    <3>2. disk'[path] = orig
      BY <1>10, <2>3, <3>1
      DEF Decide, callVars, Target, IInv, Placement, Writing
    <3>3. QED
      BY <1>10, <2>3, <3>1, <3>2, <1>a
      DEF Decide, Writing, docVars, callVars, End
  <2>4. QED
    BY <2>1, <2>2, <2>3
<1>11. ASSUME RemoveOldBackup PROVE SourcesInv'
  BY <1>0, <1>11, <1>b
  DEF RemoveOldBackup, Writing, docVars, callVars, diskVars, Strikes
<1>12. ASSUME MoveOriginalToBackup PROVE SourcesInv'
  BY <1>0, <1>12, <1>b
  DEF MoveOriginalToBackup, Writing, docVars, callVars, Strikes
<1>13. ASSUME MoveNewIntoPlace PROVE SourcesInv'
  BY <1>0, <1>13, <1>b
  DEF MoveNewIntoPlace, Writing, docVars, callVars, Strikes
<1>14. ASSUME Finish PROVE SourcesInv'
  <2>1. CASE ~cancelled
    <3>1. /\ UNCHANGED <<disk, path>> /\ ~Writing'
          /\ \A r \in refs': r = PboRef(path, version)
          /\ disk[path].version = version /\ disk[path].state = "signed"
      BY <1>0, <1>14, <2>1
      DEF Finish, AssignBinarySources, End, Writing, diskVars, callVars,
          ProgressInv, InPlaceInv
    <3>2. QED
      BY <1>0, <1>14, <3>1 DEF SourcesInv, PboRef, Finish, Writing
  <2>2. CASE cancelled /\ pc' = "undo"
    BY <1>0, <1>14, <2>2, <1>b
    DEF Finish, Writing, callVars, End, Strikes
  <2>3. CASE cancelled /\ pc' # "undo"
    <3>1. ~Writing' /\ UNCHANGED <<refs, path>> /\ Writing
      BY <1>14, <2>3 DEF Finish, Writing, callVars, End, Throw
    <3>2. /\ disk'[path] = orig
          /\ \A p \in Paths: p # path => disk'[p] = disk[p]
      BY <1>0, <1>14, <2>3
      DEF Finish, Strikes, diskVars, IInv, Placement, Writing
    <3>3. QED
      BY <3>1, <3>2, <1>a
  <2>4. QED
    BY <2>1, <2>2, <2>3
<1>15. ASSUME RestoreOriginal PROVE SourcesInv'
  BY <1>0, <1>15, <1>a
  DEF RestoreOriginal, Writing, docVars, callVars, Strikes, End, IInv,
      Placement
<1>16. ASSUME Crash PROVE SourcesInv'
  BY <1>0, <1>16 DEF Crash, Strikes
<1>17. ASSUME UNCHANGED vars PROVE SourcesInv'
  BY <1>17 DEF vars, diskVars, docVars, callVars, SourcesInv, Writing
<1>18. QED
  BY <1>1, <1>2, <1>3, <1>4, <1>5, <1>6, <1>7, <1>8, <1>9, <1>10, <1>11,
     <1>12, <1>13, <1>14, <1>15, <1>16, <1>17 DEF Next, Step

-----------------------------------------------------------------------------
(* A save is atomic: every step maps to a step of AtomicSave or stutters.  *)

\* The disk that the writer finds is one that AtomicSave starts with.
LEMMA InitRefines == Init => Abstract!Init
  BY DEF Init, Abstract!Init, Writing

\* During a write the shelf shows what was there when it began, after it what
\* is on the disk.
ShelfShows ==
  \A q \in Paths: Shelf(q) = IF Writing /\ q = path THEN orig ELSE disk[q]

\* The shelf shows that in every state of the invariant.
LEMMA ShelfKept == AInv => ShelfShows
<1> SUFFICES ASSUME AInv, Writing PROVE Shelf(path) = orig
  BY DEF ShelfShows, Shelf
<1>1. CASE ~shouldBackup
  BY <1>1 DEF AInv, IInv, Placement, Shelf
<1>2. CASE shouldBackup /\ (pc = "moveNew" \/ backupMade)
  BY <1>2
  DEF AInv, IInv, TypeOK, ControlType, Steps, Placement, BeforeSwap, Shelf,
      Writing
<1>3. CASE shouldBackup /\ ~(pc = "moveNew" \/ backupMade)
  BY <1>3
  DEF AInv, IInv, TypeOK, ControlType, Steps, Placement, BeforeSwap, Shelf,
      Writing, ProgressInv, InPlaceInv
<1>4. QED
  BY <1>1, <1>2, <1>3

\* And in the next one.
LEMMA ShelfKeptNext == AInv' => ShelfShows'
  BY ShelfKept, PTL

\* Every step of the writer is a step of AtomicSave, or shows nothing.
LEMMA StepRefines ==
  ASSUME AInv, AInv', SoftFaults, [Next]_vars
  PROVE  [Abstract!Next]_(Abstract!vars)
<1> DEFINE shelf == [q \in Paths |-> Shelf(q)]
           Goal == [Abstract!Next]_(Abstract!vars)
<1>0. /\ TypeOK /\ Target \in Contents
      /\ path \in Paths /\ disk \in [Paths -> Contents]
      /\ "remove" \notin Faults /\ "rename" \notin Faults
      /\ "full" \notin Faults /\ "crash" \notin Faults /\ "full" \notin hit
      /\ ShelfShows /\ ShelfShows'
  BY TargetType, ShelfKept, ShelfKeptNext
  DEF AInv, IInv, TypeOK, DiskType, CallType, ProgressInv, HitInv, SoftFaults
\* A step inside a write is a stutter.
<1>a. ASSUME Writing, Writing', UNCHANGED <<path, orig, version>>,
             \A p \in Paths: p # path => disk'[p] = disk[p]
      PROVE  Goal
  <2>1. shelf' = shelf
    BY <1>0, <1>a DEF ShelfShows
  <2>2. QED
    BY <1>a, <2>1 DEF Abstract!vars
\* A step that ends a write and leaves the original at the path aborts it.
<1>b. ASSUME Writing, ~Writing', UNCHANGED <<path, orig, version>>,
             disk'[path] = orig, \A p \in Paths: p # path => disk'[p] = disk[p]
      PROVE  Goal
  <2>1. shelf' = shelf
    BY <1>0, <1>b DEF ShelfShows
  <2>2. QED
    BY <1>b, <2>1 DEF Abstract!Next, Abstract!Abort
<1>1. ASSUME NEW p \in Paths, Begin(p) PROVE Goal
  <2>1. shelf' = shelf
    BY <1>0, <1>1 DEF ShelfShows, Begin, Writing, diskVars
  <2>2. Abstract!Begin(p)
    BY <1>1, <2>1 DEF Abstract!Begin, Begin, Writing, docVars
  <2>3. QED
    BY <2>2 DEF Abstract!Next
<1>2. ASSUME Edit \/ \E p \in Paths: Open(p) PROVE Goal
  <2>1. shelf' = shelf
    BY <1>0, <1>2 DEF ShelfShows, Edit, Open, Writing, diskVars
  <2>2. Abstract!Change
    BY <1>2, <2>1 DEF Abstract!Change, Edit, Open, Writing, callVars
  <2>3. QED
    BY <2>2 DEF Abstract!Next
<1>4. ASSUME Cancel PROVE Goal
  BY <1>4, <1>a DEF Cancel, Writing, diskVars, docVars, callVars
<1>5. ASSUME WriteBody PROVE Goal
  BY <1>5, <1>a, <1>b
  DEF WriteBody, Writing, diskVars, docVars, callVars, Throw, End, AInv, IInv,
      Placement
<1>6. ASSUME OpenAndWriteHeader PROVE Goal
  <2>1. CASE UNCHANGED diskVars
    BY <1>6, <2>1, <1>a, <1>b
    DEF OpenAndWriteHeader, Writing, diskVars, docVars, callVars, Throw, End,
        AInv, IInv, Placement
  <2>2. ASSUME NEW n, SetTarget(Opened(Target, n)), pc' = "copy"
        PROVE  Goal
    BY <1>0, <1>6, <2>2, <1>a, SetTargetSets
    DEF OpenAndWriteHeader, Writing, docVars, callVars
  <2>3. QED
    BY <1>6, <2>1, <2>2 DEF OpenAndWriteHeader
<1>7. ASSUME CopyBody PROVE Goal
  BY <1>0, <1>7, <1>a, SetTargetSets, RemoveTargetSets
  DEF CopyBody, Writing, docVars, callVars, diskVars
<1>8. ASSUME WriteSignature PROVE Goal
  BY <1>0, <1>8, <1>a, SetTargetSets
  DEF WriteSignature, Writing, callVars, diskVars
<1>9. ASSUME CheckWritten PROVE Goal
  BY <1>0, <1>9, <1>a, RemoveTargetSets
  DEF CheckWritten, Writing, docVars, callVars, diskVars
<1>10. ASSUME Decide PROVE Goal
  <2>1. CASE ~cancelled
    BY <1>10, <2>1, <1>a
    DEF Decide, Writing, docVars, callVars, diskVars
  <2>2. CASE cancelled /\ shouldBackup
    BY <1>10, <2>2, <1>b
    DEF Decide, Writing, docVars, callVars, diskVars, End, AInv, IInv,
        Placement, BeforeSwap
  <2>3. CASE cancelled /\ ~shouldBackup
    <3>1. Target' = Absent /\ \A p \in Paths: p # path => disk'[p] = disk[p]
      BY <1>0, <1>10, <2>3, RemoveTargetSets DEF Decide
    <3>2. disk'[path] = orig
      BY <1>10, <2>3, <3>1
      DEF Decide, callVars, Target, AInv, IInv, Placement, Writing
    <3>3. QED
      BY <1>10, <2>3, <3>1, <3>2, <1>b
      DEF Decide, Writing, docVars, callVars, End
  <2>4. QED
    BY <2>1, <2>2, <2>3
<1>11. ASSUME RemoveOldBackup PROVE Goal
  BY <1>0, <1>11, <1>a
  DEF RemoveOldBackup, Writing, docVars, callVars, diskVars, Strikes
<1>12. ASSUME MoveOriginalToBackup PROVE Goal
  BY <1>0, <1>12, <1>a
  DEF MoveOriginalToBackup, Writing, docVars, callVars, Strikes
<1>13. ASSUME MoveNewIntoPlace PROVE Goal
  BY <1>0, <1>13, <1>a
  DEF MoveNewIntoPlace, Writing, docVars, callVars, Strikes
<1>14. ASSUME Finish PROVE Goal
  <2>1. CASE ~cancelled
    <3>1. /\ UNCHANGED <<disk, path, version>> /\ ~Writing' /\ Writing
          /\ disk[path].version = version /\ disk[path].state = "signed"
      BY <1>0, <1>14, <2>1
      DEF Finish, End, Writing, diskVars, callVars, AInv, ProgressInv,
          InPlaceInv
    <3>2. /\ \A p \in Paths \ {path}: shelf'[p] = shelf[p]
          /\ shelf'[path] = disk[path]
      BY <1>0, <3>1 DEF ShelfShows
    <3>3. Abstract!Commit
      BY <3>1, <3>2 DEF Abstract!Commit
    <3>4. QED
      BY <3>3 DEF Abstract!Next
  <2>2. CASE cancelled /\ pc' = "undo"
    BY <1>0, <1>14, <2>2, <1>a
    DEF Finish, Writing, callVars, End, Strikes
  <2>3. CASE cancelled /\ pc' # "undo"
    <3>1. ~Writing' /\ UNCHANGED <<path, orig, version>> /\ Writing
      BY <1>14, <2>3 DEF Finish, Writing, callVars, End, Throw
    <3>2. /\ disk'[path] = orig
          /\ \A p \in Paths: p # path => disk'[p] = disk[p]
      BY <1>0, <1>14, <2>3
      DEF Finish, Strikes, diskVars, AInv, IInv, Placement, Writing
    <3>3. QED
      BY <3>1, <3>2, <1>b
  <2>4. QED
    BY <2>1, <2>2, <2>3
<1>15. ASSUME RestoreOriginal PROVE Goal
  BY <1>0, <1>15, <1>b
  DEF RestoreOriginal, Writing, docVars, callVars, Strikes, End, AInv, IInv,
      Placement
<1>16. ASSUME Crash PROVE Goal
  BY <1>0, <1>16 DEF Crash, Strikes
<1>17. ASSUME UNCHANGED vars PROVE Goal
  <2>1. UNCHANGED <<path, version, disk, orig, pc>>
    BY <1>17 DEF vars, diskVars, docVars, callVars
  <2>2. shelf' = shelf /\ Writing' = Writing
    BY <1>0, <2>1 DEF ShelfShows, Writing
  <2>3. QED
    BY <2>1, <2>2 DEF Abstract!vars
<1>18. QED
  BY <1>1, <1>2, <1>4, <1>5, <1>6, <1>7, <1>8, <1>9, <1>10, <1>11,
     <1>12, <1>13, <1>14, <1>15, <1>16, <1>17 DEF Next, Step

-----------------------------------------------------------------------------
(* The theorems. *)

LEMMA AtomicInvariance == Spec => []AInv
<1>1. AInv /\ [Next]_vars => AInv'
  BY NextType, NextPlacement, NextProgress, NextSources DEF AInv, IInv
<1>2. QED
  BY InitAInv, <1>1, PTL DEF Spec

\* Whatever faults may strike, a write that ended as saved put the document at
\* the path, signed, and made the old file the backup - unless the disk was
\* full, which the writer does not look at.
THEOREM SavedMeansWritten == Spec => []SavedIsDocument
<1>1. AInv => SavedIsDocument
  BY DEF AInv
<1>2. QED
  BY AtomicInvariance, <1>1, PTL

\* With no error inside the swap, the document can be read at every moment,
\* from the path or from the backup the write keeps.
THEOREM SourcesStayReadable == Spec => []SourcesReadable
<1>1. AInv => SourcesReadable
  <2> SUFFICES ASSUME AInv, SoftFaults, NEW r \in refs, r # FsRef
               PROVE  \/ Matches(r)
                      \/ /\ Writing
                         /\ r.path = path
                         /\ orig = bak[path]
                         /\ orig.version = r.version
    BY DEF SourcesReadable, SoftFaults, Matches
  <2>1. /\ SourcesInv /\ r.path \in Paths /\ r.version \in Versions
        /\ orig \in Entry /\ disk[r.path] \in Entry
    BY ContentsAreEntries
    DEF AInv, IInv, TypeOK, DocType, CallType, DiskType, Ref
  <2>2. \A c \in Contents: c.version = r.version =>
          c.state \in {"torn", "whole", "signed"}
    BY <2>1, AbsentFields DEF Contents, Versions
  <2>3. /\ orig \in Contents /\ disk[r.path] \in Contents
    BY <2>1 DEF AInv, IInv, TypeOK, CallType, DiskType
  <2>4. CASE ~(Writing /\ r.path = path)
    BY <2>1, <2>2, <2>3, <2>4 DEF SourcesInv, Matches
  <2>5. CASE Writing /\ r.path = path
    <3>1. orig.version = r.version /\ orig.state # "torn"
      BY <2>1, <2>5 DEF SourcesInv
    <3>2. shouldBackup
      BY <2>1, <2>5, <3>1, AbsentFields
      DEF AInv, IInv, Placement, Versions
    <3>3. orig \in {disk[path], bak[path]}
      BY <3>2, <2>5 DEF AInv, IInv, OriginalKept, Placement
    <3>4. QED
      BY <2>2, <2>3, <2>5, <3>1, <3>3 DEF Matches
  <2>6. QED
    BY <2>4, <2>5
<1>2. QED
  BY AtomicInvariance, <1>1, PTL

\* The writer implements AtomicSave when only a cancel, at any step, and
\* errors before the swap interfere.
THEOREM WriterIsAtomic ==
  ASSUME SoftFaults
  PROVE  Spec => SaveIsAtomic
<1>1. AInv /\ AInv' /\ [Next]_vars => [Abstract!Next]_(Abstract!vars)
  BY StepRefines
<1>2. QED
  BY InitRefines, AtomicInvariance, <1>1, PTL
  DEF Spec, SaveIsAtomic, Abstract!Spec
=============================================================================
