--------------------------- MODULE TaskFilesProofs ---------------------------
(***************************************************************************)
(* A pack or an unpack leaves the files of the user alone, unless he has   *)
(* chosen to overwrite; no two entries are given one file; a task that     *)
(* ends without a message has done all of it; and what was unpacked packs  *)
(* to what it was: proofs for every disk, every command and any number of  *)
(* threads.                                                                *)
(***************************************************************************)
EXTENDS TaskFiles, SequenceTheorems, FiniteSetTheorems, WellFoundedInduction,
        TLAPS

(***************************************************************************)
(* The operators of the disk.                                              *)
(***************************************************************************)

\* Of some numbers one is the least.
LEMMA MinIsThere ==
  ASSUME NEW S, S \subseteq Nat, S # {}
  PROVE  Min(S) \in S
<1>1. \E x \in S: \A y \in S: ~(<<y, x>> \in OpToRel(<, Nat))
  BY NatLessThanWellFounded, WFMin
<1>2. PICK x \in S: \A y \in S: ~(<<y, x>> \in OpToRel(<, Nat))
  BY <1>1
<1>3. ASSUME NEW y \in S
      PROVE  x =< y
  <2>1. x \in Nat /\ y \in Nat
    OBVIOUS
  <2>2. ~(y < x)
    <3>. SUFFICES ASSUME y < x
                  PROVE  FALSE
      OBVIOUS
    <3>1. <<y, x>> \in Nat \X Nat
      BY <2>1
    <3>2. <<y, x>> \in OpToRel(<, Nat)
      BY <3>1, Zenon DEF OpToRel
    <3>. QED
      BY <1>2, <3>2
  <2>. QED
    BY <2>1, <2>2
<1>. QED
  BY <1>3 DEF Min

\* getCopyFileName: the name it picks is free.
LEMMA FreePathIsFree ==
  ASSUME NEW d, NEW path, FreeCopies(d, path) # {}
  PROVE  FreePath(d, path) \notin DOMAIN d
<1>1. FreeCopies(d, path) \subseteq Nat
  BY BoundsAssumption DEF FreeCopies
<1>2. Min(FreeCopies(d, path)) \in FreeCopies(d, path)
  BY <1>1, MinIsThere
<1>. QED
  BY <1>2 DEF FreeCopies, FreePath

\* resolvePotentialConflicts: whatever it returns is free, unless the user has
\* chosen to overwrite.
LEMMA ResolvedIsFree ==
  ASSUME NEW d, NEW path, mode \in {"Abort", "Copy"},
         ~NoCopyFree(d, path), Resolve(d, path) # NoPath
  PROVE  Resolve(d, path) \notin DOMAIN d
<1>1. CASE path \notin DOMAIN d
  BY <1>1 DEF Resolve
<1>2. CASE path \in DOMAIN d
  <2>1. mode = "Copy"
    BY <1>2 DEF Resolve
  <2>2. FreeCopies(d, path) # {}
    BY <1>2, <2>1 DEF NoCopyFree
  <2>. QED
    BY <1>2, <2>1, <2>2, FreePathIsFree DEF Resolve
<1>. QED
  BY <1>1, <1>2

(***************************************************************************)
(* The invariant.                                                          *)
(***************************************************************************)

JobFields == DOMAIN NewJob

\* The job has a file in hand that it will write, or is writing.
Holds(job) ==
  job.stage \in {"open", "write", "save config",
                 "collect", "open pbo", "write pbo"}

ModeInv == mode \in {"Abort", "Copy", "Overwrite"}
CommandInv == command # NoCommand => command.verb \in {"pack", "unpack"}
JobsInv == \A j \in DOMAIN jobs: DOMAIN jobs[j] = JobFields

\* A file in hand was not there when the command was given.
FreshInv ==
  mode # "Overwrite" =>
    \A j \in DOMAIN jobs: Holds(jobs[j]) => jobs[j].path \notin DOMAIN before

KeepInv ==
  /\ ModeInv
  /\ CommandInv
  /\ JobsInv
  /\ FreshInv
  /\ UsersFilesKept

\* No command has been given, and the disk is the user's.
LEMMA Initially == Init => KeepInv
BY DEF Init, KeepInv, ModeInv, CommandInv, JobsInv, FreshInv, UsersFilesKept

\* A step that changes one job and no other, and the disk at most at the file
\* the job has in hand, keeps the invariant if a file that is taken in hand is
\* not on the disk.
LEMMA OneJobKeeps ==
  ASSUME KeepInv, NEW j \in DOMAIN jobs,
         DOMAIN jobs' = DOMAIN jobs,
         DOMAIN jobs'[j] = JobFields,
         \A i \in DOMAIN jobs: i # j => jobs'[i] = jobs[i],
         UNCHANGED mode, UNCHANGED command, UNCHANGED before,
         \/ disk' = disk
         \/ /\ Holds(jobs[j])
            /\ \A p \in DOMAIN disk:
                 p # jobs[j].path => p \in DOMAIN disk' /\ disk'[p] = disk[p],
         mode # "Overwrite" /\ Holds(jobs'[j]) =>
           \/ Holds(jobs[j]) /\ jobs'[j].path = jobs[j].path
           \/ jobs'[j].path \notin DOMAIN disk
  PROVE  KeepInv'
<1>1. ModeInv' /\ CommandInv'
  BY DEF KeepInv, ModeInv, CommandInv
<1>2. JobsInv'
  BY DEF KeepInv, JobsInv
<1>3. ASSUME mode # "Overwrite",
             NEW i \in DOMAIN jobs, Holds(jobs'[i])
      PROVE  jobs'[i].path \notin DOMAIN before
  <2>1. CASE i # j
    BY <1>3, <2>1 DEF KeepInv, FreshInv
  <2>2. CASE i = j
    <3>1. CASE Holds(jobs[j]) /\ jobs'[j].path = jobs[j].path
      BY <1>3, <2>2, <3>1 DEF KeepInv, FreshInv
    <3>2. CASE jobs'[j].path \notin DOMAIN disk
      BY <1>3, <2>2, <3>2 DEF KeepInv, UsersFilesKept
    <3>. QED
      BY <1>3, <2>2, <3>1, <3>2
  <2>. QED
    BY <2>1, <2>2
<1>4. FreshInv'
  BY <1>3 DEF FreshInv, Holds
<1>5. UsersFilesKept'
  <2>1. ASSUME mode # "Overwrite", NEW p \in DOMAIN before
        PROVE  p \in DOMAIN disk' /\ disk'[p] = before[p]
    <3>1. p \in DOMAIN disk /\ disk[p] = before[p]
      BY <2>1 DEF KeepInv, UsersFilesKept
    <3>2. Holds(jobs[j]) => p # jobs[j].path
      BY <2>1 DEF KeepInv, FreshInv
    <3>. QED
      BY <3>1, <3>2
  <2>. QED
    BY <2>1 DEF UsersFilesKept
<1>. QED
  BY <1>1, <1>2, <1>4, <1>5 DEF KeepInv

\* What an update of a job changes.
LEMMA ChangeIsLocal ==
  ASSUME JobsInv, NEW j \in DOMAIN jobs, NEW fields, Change(j, fields)
  PROVE  /\ DOMAIN jobs' = DOMAIN jobs
         /\ DOMAIN jobs'[j] = JobFields
         /\ \A i \in DOMAIN jobs: i # j => jobs'[i] = jobs[i]
         /\ \A f \in JobFields:
              jobs'[j][f] = IF f \in DOMAIN fields THEN fields[f] ELSE jobs[j][f]
<1>. DEFINE Changed == [f \in DOMAIN jobs[j] |-> IF f \in DOMAIN fields
                                                 THEN fields[f] ELSE jobs[j][f]]
<1>1. jobs' = [jobs EXCEPT ![j] = Changed]
  BY DEF Change
<1>2. jobs'[j] = Changed
  BY <1>1
<1>3. DOMAIN jobs[j] = JobFields
  BY DEF JobsInv
<1>. QED
  BY <1>1, <1>2, <1>3

\* The names of the fields, where a proof needs to tell them apart.
LEMMA StageIsAField == "stage" \in JobFields /\ "path" \in JobFields
BY DEF JobFields, NewJob

HoldingStages == {"open", "write", "save config", "collect", "open pbo", "write pbo"}

\* A job that goes on with the file it has in hand, or without one.
LEMMA GoingOnKeeps ==
  ASSUME KeepInv, NEW j \in DOMAIN jobs, NEW fields, Change(j, fields),
         UNCHANGED mode, UNCHANGED command, UNCHANGED before,
         "path" \notin DOMAIN fields,
         "stage" \in DOMAIN fields =>
           Holds(jobs[j]) \/ fields["stage"] \notin HoldingStages,
         \/ disk' = disk
         \/ /\ Holds(jobs[j])
            /\ \A p \in DOMAIN disk:
                 p # jobs[j].path => p \in DOMAIN disk' /\ disk'[p] = disk[p]
  PROVE  KeepInv'
<1>1. JobsInv
  BY DEF KeepInv
<1>2. /\ DOMAIN jobs' = DOMAIN jobs
      /\ DOMAIN jobs'[j] = JobFields
      /\ \A i \in DOMAIN jobs: i # j => jobs'[i] = jobs[i]
      /\ jobs'[j]["path"] = jobs[j]["path"]
      /\ jobs'[j]["stage"]
           = IF "stage" \in DOMAIN fields THEN fields["stage"] ELSE jobs[j]["stage"]
  BY <1>1, ChangeIsLocal, StageIsAField
<1>3. Holds(jobs'[j]) => Holds(jobs[j]) /\ jobs'[j].path = jobs[j].path
  BY <1>2 DEF Holds, HoldingStages
<1>. QED
  BY <1>2, <1>3, OneJobKeeps

\* A job that takes a file in hand that is not on the disk.
LEMMA TakingFreeKeeps ==
  ASSUME KeepInv, NEW j \in DOMAIN jobs, NEW fields, Change(j, fields),
         UNCHANGED mode, UNCHANGED command, UNCHANGED before, UNCHANGED disk,
         "path" \in DOMAIN fields,
         mode # "Overwrite" => fields["path"] \notin DOMAIN disk
  PROVE  KeepInv'
<1>1. JobsInv
  BY DEF KeepInv
<1>2. /\ DOMAIN jobs' = DOMAIN jobs
      /\ DOMAIN jobs'[j] = JobFields
      /\ \A i \in DOMAIN jobs: i # j => jobs'[i] = jobs[i]
      /\ jobs'[j]["path"] = fields["path"]
  BY <1>1, ChangeIsLocal, StageIsAField
<1>. QED
  BY <1>2, OneJobKeeps

\* What fails, and what raises, has no file in hand any more.
LEMMA EndingKeeps ==
  ASSUME KeepInv, NEW j \in DOMAIN jobs, UNCHANGED disk,
         (Fail(j) /\ Stay) \/ Raise(j)
  PROVE  KeepInv'
<1>. DEFINE fields == [stage |-> "ended", quiet |-> FALSE]
<1>1. Change(j, fields)
  BY DEF Fail, Raise
<1>2. UNCHANGED mode /\ UNCHANGED command /\ UNCHANGED before
  BY DEF Raise, Stay, commandVars
<1>3. "path" \notin DOMAIN fields /\ "stage" \in DOMAIN fields
        /\ fields["stage"] \notin HoldingStages
  BY DEF HoldingStages
<1>. HIDE DEF fields
<1>. QED
  BY <1>1, <1>2, <1>3, GoingOnKeeps

\* A thread takes a job.
LEMMA PickJobKeeps ==
  ASSUME KeepInv, NEW j \in DOMAIN jobs, PickJob(j)
  PROVE  KeepInv'
<1>. DEFINE fields == [stage |-> command.verb]
<1>1. Change(j, fields) /\ UNCHANGED disk
  BY DEF PickJob
<1>2. UNCHANGED mode /\ UNCHANGED command /\ UNCHANGED before
  BY DEF PickJob, Stay, commandVars
<1>3. command.verb \in {"pack", "unpack"}
  BY DEF PickJob, Reaches, KeepInv, CommandInv
<1>4. "path" \notin DOMAIN fields /\ "stage" \in DOMAIN fields
        /\ fields["stage"] \notin HoldingStages
  BY <1>3 DEF HoldingStages
<1>. HIDE DEF fields
<1>. QED
  BY <1>1, <1>2, <1>4, GoingOnKeeps

\* UnpackTask reads the headers, makes its folder, and changes no file.
LEMMA PrepareUnpackKeeps ==
  ASSUME KeepInv, NEW j \in DOMAIN jobs, PrepareUnpack(j)
  PROVE  KeepInv'
<1>1. UNCHANGED disk /\ Stay
  BY DEF PrepareUnpack
<1>2. UNCHANGED mode /\ UNCHANGED command /\ UNCHANGED before
  BY <1>1 DEF Stay, commandVars
<1>. DEFINE fields(doc) ==
       [stage |-> "entry", document |-> doc, folder |-> PboDir(j, doc),
        todo |-> SetToSeq(DOMAIN doc.files), size |-> Cardinality(DOMAIN doc.files),
        quiet |-> "--use-pbo-prefix" \notin command.options
                    \/ PrefixHeaderOf(doc) # <<>>]
<1>3. Fail(j) \/ \E doc: Change(j, fields(doc))
  BY DEF PrepareUnpack
<1>4. ASSUME NEW doc, Change(j, fields(doc))
      PROVE  KeepInv'
  <2>1. "path" \notin DOMAIN fields(doc) /\ "stage" \in DOMAIN fields(doc)
          /\ fields(doc)["stage"] \notin HoldingStages
    BY DEF HoldingStages
  <2>. HIDE DEF fields
  <2>. QED
    BY <1>1, <1>2, <1>4, <2>1, GoingOnKeeps
<1>. HIDE DEF fields
<1>. QED
  BY <1>1, <1>3, <1>4, EndingKeeps

\* A path that was resolved is taken in hand.
LEMMA ResolvingKeeps ==
  ASSUME KeepInv, NEW j \in DOMAIN jobs, UNCHANGED disk, Stay,
         NEW desired, NEW stage,
         ~NoCopyFree(disk, desired), Resolve(disk, desired) # NoPath,
         Change(j, [stage |-> stage, path |-> Resolve(disk, desired)])
  PROVE  KeepInv'
<1>. DEFINE fields == [stage |-> stage, path |-> Resolve(disk, desired)]
<1>1. UNCHANGED mode /\ UNCHANGED command /\ UNCHANGED before
  BY DEF Stay, commandVars
<1>2. mode # "Overwrite" => Resolve(disk, desired) \notin DOMAIN disk
  BY ResolvedIsFree DEF KeepInv, ModeInv
<1>3. Change(j, fields) /\ "path" \in DOMAIN fields
        /\ fields["path"] = Resolve(disk, desired)
  OBVIOUS
<1>. HIDE DEF fields
<1>. QED
  BY <1>1, <1>2, <1>3, TakingFreeKeeps

\* The path of an entry is resolved as the setting says.
LEMMA ResolveEntryKeeps ==
  ASSUME KeepInv, NEW j \in DOMAIN jobs, ResolveEntry(j)
  PROVE  KeepInv'
<1>. DEFINE last == [stage |-> "config"]
            skipped == [quiet |-> FALSE, progress |-> jobs[j].progress + 1,
                        todo |-> Tail(jobs[j].todo)]
            resolved(desired) ==
              [stage |-> "open", path |-> Resolve(disk, desired)]
<1>1. UNCHANGED disk
  BY DEF ResolveEntry
<1>2. \/ Change(j, last) /\ Stay
      \/ Raise(j)
      \/ Change(j, skipped) /\ Stay
      \/ \E desired:
           /\ ~NoCopyFree(disk, desired)
           /\ Resolve(disk, desired) # NoPath
           /\ Change(j, resolved(desired))
           /\ Stay
  BY Zenon DEF ResolveEntry
<1>3. Stay => UNCHANGED mode /\ UNCHANGED command /\ UNCHANGED before
  BY DEF Stay, commandVars
<1>4. ASSUME Change(j, last), Stay
      PROVE  KeepInv'
  <2>1. "path" \notin DOMAIN last /\ last["stage"] \notin HoldingStages
    BY DEF HoldingStages
  <2>. HIDE DEF last
  <2>. QED
    BY <1>1, <1>3, <1>4, <2>1, GoingOnKeeps
<1>5. ASSUME Change(j, skipped), Stay
      PROVE  KeepInv'
  <2>1. "path" \notin DOMAIN skipped /\ "stage" \notin DOMAIN skipped
    OBVIOUS
  <2>. HIDE DEF skipped
  <2>. QED
    BY <1>1, <1>3, <1>5, <2>1, GoingOnKeeps
<1>. QED
  BY <1>1, <1>2, <1>4, <1>5, EndingKeeps, ResolvingKeeps

\* A step that changes no job and no file.
LEMMA StayKeeps ==
  ASSUME Stay
  PROVE  UNCHANGED mode /\ UNCHANGED command /\ UNCHANGED before
BY DEF Stay, commandVars

\* A job that ends with an error changes no file.
LEMMA RaiseKeeps ==
  ASSUME NEW j, Raise(j)
  PROVE  UNCHANGED mode /\ UNCHANGED command /\ UNCHANGED before
BY DEF Raise, commandVars

\* The file of an entry is opened, at the path that was resolved.
LEMMA OpenEntryKeeps ==
  ASSUME KeepInv, NEW j \in DOMAIN jobs, OpenEntry(j)
  PROVE  KeepInv'
<1>. DEFINE left == [stage |-> "entry", todo |-> Tail(jobs[j].todo)]
            failed == [stage |-> "entry", quiet |-> FALSE,
                       progress |-> jobs[j].progress + 1,
                       todo |-> Tail(jobs[j].todo)]
            opened == [stage |-> "write", at |-> 0,
                       placed |-> Put(jobs[j].placed, Head(jobs[j].todo),
                                      jobs[j].path)]
            ended == [stage |-> "ended", quiet |-> FALSE]
<1>1. Holds(jobs[j])
  BY DEF OpenEntry, Reaches, Holds
<1>2. \/ disk' = disk
      \/ \A p \in DOMAIN disk:
           p # jobs[j].path => p \in DOMAIN disk' /\ disk'[p] = disk[p]
  <2>1. disk' = disk \/ disk' = Opened(disk, jobs[j].path)
    BY DEF OpenEntry
  <2>. QED
    BY <2>1 DEF Opened, Put
<1>3. \/ \/ Change(j, left)
         \/ Change(j, failed)
         \/ Change(j, opened)
         \/ Change(j, ended)
  BY DEF OpenEntry, Raise
<1>4. UNCHANGED mode /\ UNCHANGED command /\ UNCHANGED before
  BY StayKeeps, RaiseKeeps DEF OpenEntry
<1>5. /\ "path" \notin DOMAIN left
      /\ "path" \notin DOMAIN failed
      /\ "path" \notin DOMAIN opened
      /\ "path" \notin DOMAIN ended
  OBVIOUS
<1>. HIDE DEF left, failed, opened, ended
<1>. QED
  BY <1>1, <1>2, <1>3, <1>4, <1>5, GoingOnKeeps

\* An entry is written into the file at that path, and into no other.
LEMMA WriteEntryKeeps ==
  ASSUME KeepInv, NEW j \in DOMAIN jobs, WriteEntry(j)
  PROVE  KeepInv'
<1>. DEFINE done == [stage |-> "entry", progress |-> jobs[j].progress + 1,
                     todo |-> Tail(jobs[j].todo)]
            more == [at |-> jobs[j].at + 1]
            entry == jobs[j].document.files[Head(jobs[j].todo)]
<1>1. Holds(jobs[j])
  BY DEF WriteEntry, Reaches, Holds
<1>2. \/ disk' = disk
      \/ disk' = [disk EXCEPT ![jobs[j].path] =
                                  Overlay(@, entry, jobs[j].at + 1)]
  BY DEF WriteEntry
<1>3. \/ disk' = disk
      \/ \A p \in DOMAIN disk:
           p # jobs[j].path => p \in DOMAIN disk' /\ disk'[p] = disk[p]
  BY <1>2
<1>4. Change(j, done) \/ Change(j, more)
  BY DEF WriteEntry
<1>5. UNCHANGED mode /\ UNCHANGED command /\ UNCHANGED before
  BY StayKeeps DEF WriteEntry
<1>6. "path" \notin DOMAIN done /\ "path" \notin DOMAIN more
  OBVIOUS
<1>. HIDE DEF done, more
<1>. QED
  BY <1>1, <1>3, <1>4, <1>5, <1>6, GoingOnKeeps

\* The path of pbo.json is resolved as the setting says.
LEMMA ResolveConfigKeeps ==
  ASSUME KeepInv, NEW j \in DOMAIN jobs, ResolveConfig(j)
  PROVE  KeepInv'
<1>. DEFINE desired == Append(jobs[j].folder, PboJsonName)
<1>1. UNCHANGED disk
  BY DEF ResolveConfig
<1>2. \/ Raise(j)
      \/ Fail(j) /\ Stay
      \/ /\ ~NoCopyFree(disk, desired)
         /\ Resolve(disk, desired) # NoPath
         /\ Change(j, [stage |-> "save config", path |-> Resolve(disk, desired)])
         /\ Stay
  BY DEF ResolveConfig
<1>. HIDE DEF desired
<1>. QED
  BY <1>1, <1>2, EndingKeeps, ResolvingKeeps

\* The path of the PBO is resolved as the setting says.
LEMMA ResolvePboKeeps ==
  ASSUME KeepInv, NEW j \in DOMAIN jobs, ResolvePbo(j)
  PROVE  KeepInv'
<1>. DEFINE folder == Last(command.inputs[j].path)
            desired == Append(Target(j), [folder EXCEPT !.ext = "pbo"])
<1>1. UNCHANGED disk
  BY DEF ResolvePbo
<1>2. \/ Raise(j)
      \/ Fail(j) /\ Stay
      \/ /\ ~NoCopyFree(disk, desired)
         /\ Resolve(disk, desired) # NoPath
         /\ Change(j, [stage |-> "collect", path |-> Resolve(disk, desired)])
         /\ Stay
  BY DEF ResolvePbo
<1>. HIDE DEF desired
<1>. QED
  BY <1>1, <1>2, EndingKeeps, ResolvingKeeps

\* pbo.json is written at the path that was resolved.
LEMMA SaveConfigKeeps ==
  ASSUME KeepInv, NEW j \in DOMAIN jobs, SaveConfig(j)
  PROVE  KeepInv'
<1>. DEFINE saved == [stage |-> "ended"]
<1>1. Holds(jobs[j])
  BY DEF SaveConfig, Reaches, Holds
<1>2. \/ /\ disk' = Put(disk, jobs[j].path,
                        JsonFile(ExtractFrom(jobs[j].document)))
         /\ Change(j, saved)
      \/ Fail(j) /\ UNCHANGED disk
  BY DEF SaveConfig
<1>3. Stay
  BY DEF SaveConfig
<1>4. CASE Fail(j) /\ UNCHANGED disk
  BY <1>3, <1>4, EndingKeeps
<1>5. ASSUME NEW content, disk' = Put(disk, jobs[j].path, content),
             Change(j, saved)
      PROVE  KeepInv'
  <2>1. \A p \in DOMAIN disk:
          p # jobs[j].path => p \in DOMAIN disk' /\ disk'[p] = disk[p]
    BY <1>5 DEF Put
  <2>2. "path" \notin DOMAIN saved
    OBVIOUS
  <2>. HIDE DEF saved
  <2>. QED
    BY <1>1, <1>3, <1>5, <2>1, <2>2, StayKeeps, GoingOnKeeps
<1>. QED
  BY <1>2, <1>4, <1>5

\* PackTask reads the files of the folder, and changes none.
LEMMA CollectKeeps ==
  ASSUME KeepInv, NEW j \in DOMAIN jobs, Collect(j)
  PROVE  KeepInv'
<1>. DEFINE stoppedFields == [stage |-> "ended"]
            packed(doc, size) == [stage |-> "open pbo", document |-> doc, size |-> size]
<1>1. Holds(jobs[j]) /\ UNCHANGED disk
  BY DEF Collect, Reaches, Holds
<1>2. \/ Change(j, stoppedFields) /\ Stay
      \/ Fail(j) /\ Stay
      \/ Raise(j)
      \/ \E doc, size: Change(j, packed(doc, size)) /\ Stay
  BY Zenon DEF Collect
<1>3. ASSUME Change(j, stoppedFields), Stay
      PROVE  KeepInv'
  <2>1. "path" \notin DOMAIN stoppedFields
    OBVIOUS
  <2>. HIDE DEF stoppedFields
  <2>. QED
    BY <1>1, <1>3, <2>1, StayKeeps, GoingOnKeeps
<1>4. ASSUME NEW doc, NEW size, Change(j, packed(doc, size)), Stay
      PROVE  KeepInv'
  <2>1. "path" \notin DOMAIN packed(doc, size)
    OBVIOUS
  <2>. HIDE DEF packed
  <2>. QED
    BY <1>1, <1>4, <2>1, StayKeeps, GoingOnKeeps
<1>. HIDE DEF stoppedFields, packed
<1>. QED
  BY <1>1, <1>2, <1>3, <1>4, EndingKeeps

\* The writer begins with its temporary files, which are nobody's.
LEMMA OpenPboKeeps ==
  ASSUME KeepInv, NEW j \in DOMAIN jobs, OpenPbo(j)
  PROVE  KeepInv'
<1>. DEFINE fields == [stage |-> "write pbo"]
<1>1. Holds(jobs[j]) /\ UNCHANGED disk /\ Stay /\ Change(j, fields)
  BY DEF OpenPbo, Reaches, Holds
<1>2. "path" \notin DOMAIN fields
  OBVIOUS
<1>. HIDE DEF fields
<1>. QED
  BY <1>1, <1>2, StayKeeps, GoingOnKeeps

\* The PBO, or what two writers made of it, is put at the path that was
\* resolved.
LEMMA WritePboKeeps ==
  ASSUME KeepInv, NEW j \in DOMAIN jobs, WritePbo(j)
  PROVE  KeepInv'
<1>. DEFINE written == [stage |-> "ended", progress |-> jobs[j].size]
            failed == [stage |-> "ended", quiet |-> stopped]
<1>1. Holds(jobs[j]) /\ Stay
  BY DEF WritePbo, Reaches, Holds
<1>2. \/ \E content: /\ disk' = Put(disk, jobs[j].path, content)
                     /\ Change(j, written)
      \/ UNCHANGED disk /\ Change(j, failed)
  BY Zenon DEF WritePbo
<1>3. \/ disk' = disk
      \/ \A p \in DOMAIN disk:
           p # jobs[j].path => p \in DOMAIN disk' /\ disk'[p] = disk[p]
  BY <1>2 DEF Put
<1>4. Change(j, written) \/ Change(j, failed)
  BY <1>2
<1>5. "path" \notin DOMAIN written /\ "path" \notin DOMAIN failed
  OBVIOUS
<1>. HIDE DEF written, failed
<1>. QED
  BY <1>1, <1>3, <1>4, <1>5, StayKeeps, GoingOnKeeps

\* The command lines there are name one of the two subcommands.
LEMMA VerbsOfCommands ==
  ASSUME NEW c \in Commands
  PROVE  c.verb \in {"pack", "unpack"}
<1>1. CASE c \in UserCommands
  BY <1>1, VerbsAssumption
<1>2. ASSUME NEW s \in Selections, c \in ExplorerCommands(s, folders)
      PROVE  c.verb \in {"pack", "unpack"}
  <2>. DEFINE verb == IF SelectionMode(s, folders) = "files" THEN "unpack" ELSE "pack"
  <2>1. \E inputs, options, output:
          c = Command("pbom", verb, inputs, options, output)
    BY <1>2, Zenon DEF ExplorerCommands
  <2>. QED
    BY <2>1 DEF Command
<1>. QED
  BY <1>1, <1>2 DEF Commands

\* A new command takes the disk as it is for the user's.
LEMMA GiveCommandKeeps ==
  ASSUME KeepInv, NEW c \in Commands, NEW asked, GiveCommand(c, asked)
  PROVE  KeepInv'
<1>1. CASE UNCHANGED <<command, mode, answer, before, jobs>>
  BY <1>1 DEF GiveCommand, KeepInv, ModeInv, CommandInv, JobsInv, FreshInv,
              Holds, UsersFilesKept
<1>2. CASE ~(UNCHANGED <<command, mode, answer, before, jobs>>)
  <2>1. /\ command' = c
        /\ mode' \in Modes
        /\ before' = disk
        /\ jobs' = [i \in DOMAIN c.inputs |-> NewJob]
        /\ disk' = disk
    BY <1>2 DEF GiveCommand
  <2>2. ModeInv' /\ CommandInv'
    BY <2>1, VerbsOfCommands, ModesAssumption DEF ModeInv, CommandInv
  <2>3. JobsInv'
    BY <2>1 DEF JobsInv, JobFields
  <2>4. FreshInv'
    BY <2>1 DEF FreshInv, Holds, NewJob
  <2>5. UsersFilesKept'
    BY <2>1 DEF UsersFilesKept
  <2>. QED
    BY <2>2, <2>3, <2>4, <2>5 DEF KeepInv
<1>. QED
  BY <1>1, <1>2

\* No step of any job breaks the invariant.
LEMMA StepKeeps == KeepInv /\ [Next]_vars => KeepInv'
<1>. SUFFICES ASSUME KeepInv, [Next]_vars
              PROVE  KeepInv'
  OBVIOUS
<1>1. ASSUME NEW c \in Commands, NEW asked, GiveCommand(c, asked)
      PROVE  KeepInv'
  BY <1>1, GiveCommandKeeps
<1>2. ASSUME NEW j \in DOMAIN jobs, JobStep(j)
      PROVE  KeepInv'
  BY <1>2, PickJobKeeps, PrepareUnpackKeeps, ResolveEntryKeeps, OpenEntryKeeps,
     WriteEntryKeeps, ResolveConfigKeeps, SaveConfigKeeps, ResolvePboKeeps,
     CollectKeeps, OpenPboKeeps, WritePboKeeps DEF JobStep, UnpackStep, PackStep
<1>3. CASE Cancel \/ UNCHANGED vars
  <2>1. UNCHANGED disk /\ UNCHANGED jobs /\ UNCHANGED mode /\ UNCHANGED command
          /\ UNCHANGED before
    BY <1>3 DEF Cancel, vars, commandVars
  <2>. QED
    BY <2>1 DEF KeepInv, ModeInv, CommandInv, JobsInv, FreshInv, Holds,
                UsersFilesKept
<1>4. CASE EndCommand
  <2>1. command' = NoCommand /\ DOMAIN jobs' = {} /\ UNCHANGED mode
          /\ UNCHANGED disk /\ UNCHANGED before
    BY <1>4 DEF EndCommand
  <2>. QED
    BY <2>1 DEF KeepInv, ModeInv, CommandInv, JobsInv, FreshInv, UsersFilesKept
<1>. QED
  BY <1>1, <1>2, <1>3, <1>4 DEF Next

(***************************************************************************)
(* What was on the disk before the command is not touched, unless the user *)
(* has chosen to overwrite: the path of resolvePotentialConflicts is free, *)
(* and a file that was there is never free.                                *)
(***************************************************************************)
THEOREM CommandsKeepUsersFiles == Spec => []UsersFilesKept
<1>1. KeepInv => UsersFilesKept
  BY DEF KeepInv
<1>. QED
  BY Initially, StepKeeps, <1>1, PTL DEF Spec

(***************************************************************************)
(* The names for copies: what two entries are given.                       *)
(***************************************************************************)

\* The command and what was answered to it have paths; there are as many jobs
\* as inputs.
GivenInv ==
  /\ IsSequence(answer)
  /\ command # NoCommand =>
       /\ IsSequence(command.output)
       /\ IsSequence(command.inputs)
       /\ \A i \in DOMAIN command.inputs: IsSequence(command.inputs[i].path)
  /\ DOMAIN jobs = IF command = NoCommand THEN {} ELSE DOMAIN command.inputs

\* Only a job that has its folder has given its entries a file.
FolderInv ==
  \A j \in DOMAIN jobs:
    /\ IsSequence(jobs[j].folder)
    /\ jobs[j].stage \in {"waiting", "unpack"} => DOMAIN jobs[j].placed = {}

\* The file an entry was given is there, in the folder of its job.
PlacedInv ==
  \A j \in DOMAIN jobs:
    \A f \in DOMAIN jobs[j].placed:
      /\ jobs[j].placed[f] \in DOMAIN disk
      /\ Front(jobs[j].placed[f]) = jobs[j].folder

\* Without a window there is one job at a time.
TurnInv ==
  ~HasWindow(command) =>
    \A i, j \in DOMAIN jobs: Running(i) /\ Running(j) => i = j

\* The jobs that do not run at once, or have their outputs apart.
Apart(i, j) ==
  i = j \/ ~HasWindow(command) \/ jobs[i].folder # jobs[j].folder

\* The file an entry is to be given is in the folder of its job, and was given
\* to no other.
ChoiceInv ==
  \A j \in DOMAIN jobs:
    jobs[j].stage = "open" =>
      /\ Front(jobs[j].path) = jobs[j].folder
      /\ mode # "Overwrite" =>
           \A i \in DOMAIN jobs:
             Apart(i, j) =>
               \A f \in DOMAIN jobs[i].placed: jobs[i].placed[f] # jobs[j].path

ApartInv ==
  /\ GivenInv
  /\ FolderInv
  /\ PlacedInv
  /\ TurnInv
  /\ ChoiceInv
  /\ CopiesApart

-----------------------------------------------------------------------------
(* Paths. *)

\* A sequence over any set is one.
LEMMA SequenceOver ==
  ASSUME NEW S, NEW s \in Seq(S)
  PROVE  IsSequence(s)
<1>1. Len(s) \in Nat /\ DOMAIN s = 1 .. Len(s) /\ s \in [1 .. Len(s) -> S]
  BY LenProperties
<1>2. s \in [1 .. Len(s) -> ToSet(s)]
  BY <1>1 DEF ToSet
<1>3. s \in UNION {[1 .. n -> ToSet(s)]: n \in Nat}
  BY <1>1, <1>2
<1>. QED
  BY <1>3, SeqDef DEF IsSequence

\* No path is a path.
LEMMA NoPathIsSequence == IsSequence(NoPath)
BY SequenceOver, EmptySeq DEF NoPath

\* A path below a path.
LEMMA ConcatIsSequence ==
  ASSUME NEW s, NEW t, IsSequence(s), IsSequence(t)
  PROVE  IsSequence(s \o t)
<1>. DEFINE S == ToSet(s) \union ToSet(t)
<1>1. s \in Seq(S) /\ t \in Seq(S)
  BY SeqMonotonic DEF IsSequence
<1>. QED
  BY <1>1, ConcatProperties, SequenceOver

\* The folder of a path.
LEMMA FrontIsSequence ==
  ASSUME NEW s, IsSequence(s)
  PROVE  IsSequence(Front(s))
<1>1. Len(s) \in Nat /\ \A i \in 1 .. Len(s) - 1: s[i] \in ToSet(s)
  BY LenProperties, ElementOfSeq DEF IsSequence
<1>2. SubSeq(s, 1, Len(s) - 1) \in Seq(ToSet(s))
  BY <1>1, SubSeqProperties
<1>. QED
  BY <1>2, SequenceOver DEF Front

\* The folder of a file is what it was appended to.
LEMMA FrontOfAppend ==
  ASSUME NEW s, IsSequence(s), NEW x
  PROVE  IsSequence(Append(s, x)) /\ Front(Append(s, x)) = s
<1>. DEFINE S == ToSet(s) \union {x}
            t == Append(s, x)
<1>1. s \in Seq(S) /\ x \in S
  BY SeqMonotonic DEF IsSequence
<1>2. /\ t \in Seq(S) /\ Len(t) = Len(s) + 1 /\ Len(s) \in Nat
      /\ \A i \in 1 .. Len(s): t[i] = s[i]
  BY <1>1, AppendProperties, LenProperties
<1>. HIDE DEF t
<1>3. \A i \in 1 .. Len(t) - 1: t[i] \in S
  BY <1>2, ElementOfSeq
<1>4. SubSeq(t, 1, Len(t) - 1) = s
  <2>. DEFINE u == SubSeq(t, 1, Len(t) - 1)
  <2>1. /\ u \in Seq(S) /\ Len(u) = Len(s)
        /\ \A i \in 1 .. Len(s): u[i] = t[i]
    <3>1. /\ u \in Seq(S)
          /\ Len(u) = IF 1 <= Len(t) - 1 THEN Len(t) - 1 - 1 + 1 ELSE 0
          /\ \A i \in 1 .. Len(t) - 1 - 1 + 1: u[i] = t[1 + i - 1]
      BY <1>2, <1>3, SubSeqProperties
    <3>. HIDE DEF u
    <3>. QED
      BY <1>2, <3>1
  <2>. HIDE DEF u
  <2>. QED
    BY <1>1, <1>2, <2>1, SeqEqual
<1>. QED
  BY <1>2, <1>4, SequenceOver DEF Front, t

\* A copy is in the folder of the original.
LEMMA CopyIsBeside ==
  ASSUME NEW path, IsSequence(path), NEW k
  PROVE  /\ Front(CopyPath(path, k)) = Front(path)
         /\ IsSequence(CopyPath(path, k))
<1>. DEFINE x == [Last(path) EXCEPT !.copy = k]
            folder == Front(path)
            S == ToSet(folder) \union {x}
<1>1. IsSequence(folder)
  BY FrontIsSequence
<1>2. folder \in Seq(S) /\ x \in S
  BY <1>1, SeqMonotonic DEF IsSequence
<1>3. CopyPath(path, k) = Append(folder, x)
  BY <1>2, AppendIsConcat DEF CopyPath
<1>. HIDE DEF x, folder
<1>. QED
  BY <1>1, <1>3, FrontOfAppend DEF folder

\* resolvePotentialConflicts: what it returns is in the folder it was given.
LEMMA ResolvedIsBeside ==
  ASSUME NEW d, NEW folder, IsSequence(folder), NEW name,
         Resolve(d, Append(folder, name)) # NoPath
  PROVE  /\ Front(Resolve(d, Append(folder, name))) = folder
         /\ IsSequence(Resolve(d, Append(folder, name)))
<1>. DEFINE path == Append(folder, name)
<1>1. IsSequence(path) /\ Front(path) = folder
  BY FrontOfAppend
<1>2. \A k: Front(CopyPath(path, k)) = folder /\ IsSequence(CopyPath(path, k))
  BY <1>1, CopyIsBeside
<1>3. \/ Resolve(d, path) = path
      \/ Resolve(d, path) = NoPath
      \/ Resolve(d, path) = CopyPath(path, Min(FreeCopies(d, path)))
  BY DEF Resolve, FreePath
<1>. HIDE DEF path
<1>4. Resolve(d, path) # NoPath
  BY DEF path
<1>5. Front(Resolve(d, path)) = folder /\ IsSequence(Resolve(d, path))
  BY <1>1, <1>2, <1>3, <1>4
<1>. QED
  BY <1>5 DEF path

\* The output directory is a path.
LEMMA TargetIsSequence ==
  ASSUME GivenInv, NEW j \in DOMAIN jobs
  PROVE  IsSequence(Target(j)) /\ IsSequence(command.inputs[j].path)
<1>1. /\ command # NoCommand
      /\ IsSequence(command.output)
      /\ IsSequence(command.inputs[j].path)
      /\ IsSequence(answer)
      /\ IsSequence(CurrentPath)
  BY PathsAssumption DEF GivenInv
<1>2. IsSequence(AbsolutePath(command.inputs[j]))
  BY <1>1, FrontIsSequence DEF AbsolutePath
<1>3. IsSequence(OutputDir(command, answer))
  BY <1>1 DEF OutputDir
<1>. QED
  BY <1>1, <1>2, <1>3 DEF Target, OutputDirectoryFor

\* tryCreatePboDir: the folder of the entries is a path.
LEMMA PboDirIsSequence ==
  ASSUME GivenInv, NEW j \in DOMAIN jobs, NEW doc
  PROVE  IsSequence(PboDir(j, doc))
<1>1. IsSequence(Target(j)) /\ IsSequence(command.inputs[j].path)
  BY TargetIsSequence
<1>2. IsSequence(PrefixPath(doc))
  <2>. DEFINE value == Head(PrefixHeaderOf(doc)).value
  <2>1. \/ value \in DOMAIN PrefixPaths /\ PrefixPath(doc) = PrefixPaths[value]
        \/ PrefixPath(doc) = NoPath
    BY DEF PrefixPath, NoPath
  <2>. HIDE DEF value
  <2>. QED
    BY <2>1, PathsAssumption, NoPathIsSequence
<1>3. ASSUME NEW x
      PROVE  IsSequence(<<x>>)
  <2>1. <<x>> \in Seq({x})
    OBVIOUS
  <2>. QED
    BY <2>1, SequenceOver
<1>. QED
  BY <1>1, <1>2, <1>3, ConcatIsSequence DEF PboDir

\* One job at a time without a window: as long as no job begins, and when one
\* begins that finds no other.
LEMMA TurnsGoOn ==
  ASSUME TurnInv, NEW j \in DOMAIN jobs, UNCHANGED command,
         DOMAIN jobs' = DOMAIN jobs,
         \A i \in DOMAIN jobs: i # j => jobs'[i] = jobs[i],
         \/ Running(j)
         \/ ~HasWindow(command) => \A i \in DOMAIN jobs: ~Running(i)
  PROVE  TurnInv'
<1>1. \A i \in DOMAIN jobs: i # j => (Running(i)' <=> Running(i))
  BY DEF Running
<1>. QED
  BY <1>1 DEF TurnInv

\* A job that goes on keeps the folder it has, and the files it has given to
\* its entries; it gives another one to an entry as it opens it.
Gives(j, h) ==
  /\ jobs[j].stage = "open"
  /\ jobs'[j].stage # "open"
  /\ jobs[j].path \in DOMAIN disk'
  /\ jobs'[j].placed = Put(jobs[j].placed, h, jobs[j].path)

\* What a step of the job j does to what is given.
GoesOn(j) ==
  /\ UNCHANGED <<mode, command, answer>>
  /\ DOMAIN jobs' = DOMAIN jobs
  /\ \A i \in DOMAIN jobs: i # j => jobs'[i] = jobs[i]
  /\ DOMAIN disk \subseteq DOMAIN disk'
  /\ jobs'[j].stage # "waiting"
  /\ jobs'[j].stage = "unpack" => jobs[j].stage = "waiting"
  /\ \/ Running(j)
     \/ ~HasWindow(command) => \A i \in DOMAIN jobs: ~Running(i)
  /\ \/ jobs'[j].folder = jobs[j].folder
     \/ DOMAIN jobs[j].placed = {} /\ jobs'[j].stage # "open"
          /\ IsSequence(jobs'[j].folder)
  /\ \/ jobs'[j].placed = jobs[j].placed
     \/ jobs'[j].folder = jobs[j].folder /\ \E h: Gives(j, h)
  /\ jobs'[j].stage = "open" =>
       /\ UNCHANGED disk
       /\ jobs'[j].placed = jobs[j].placed
       /\ jobs'[j].folder = jobs[j].folder
       /\ Front(jobs'[j].path) = jobs[j].folder
       /\ mode # "Overwrite" => jobs'[j].path \notin DOMAIN disk

\* The file that is given to an entry is there, in the folder of the job.
LEMMA PlacedStays ==
  ASSUME PlacedInv, ChoiceInv, NEW j \in DOMAIN jobs, GoesOn(j)
  PROVE  PlacedInv'
<1>1. ASSUME NEW i \in DOMAIN jobs, NEW f \in DOMAIN jobs'[i].placed
      PROVE  /\ jobs'[i].placed[f] \in DOMAIN disk'
             /\ Front(jobs'[i].placed[f]) = jobs'[i].folder
  <2>1. CASE i # j \/ jobs'[i].placed = jobs[i].placed
    <3>1. f \in DOMAIN jobs[i].placed /\ jobs'[i].placed[f] = jobs[i].placed[f]
      BY <1>1, <2>1 DEF GoesOn
    <3>2. jobs'[i].folder = jobs[i].folder
      BY <2>1, <3>1 DEF GoesOn
    <3>. QED
      BY <3>1, <3>2 DEF GoesOn, PlacedInv
  <2>2. CASE i = j /\ jobs'[i].placed # jobs[i].placed
    <3>1. PICK h: Gives(j, h)
      BY <2>2 DEF GoesOn
    <3>2. jobs'[j].folder = jobs[j].folder
      BY <2>2 DEF GoesOn
    <3>3. Front(jobs[j].path) = jobs[j].folder
      BY <3>1 DEF Gives, ChoiceInv
    <3>4. CASE f = h
      BY <1>1, <2>2, <3>1, <3>2, <3>3, <3>4 DEF Gives, Put
    <3>5. CASE f # h
      <4>1. f \in DOMAIN jobs[j].placed
              /\ jobs'[j].placed[f] = jobs[j].placed[f]
        BY <1>1, <2>2, <3>1, <3>5 DEF Gives, Put
      <4>. QED
        BY <2>2, <3>2, <4>1 DEF GoesOn, PlacedInv
    <3>. QED
      BY <3>4, <3>5
  <2>. QED
    BY <2>1, <2>2
<1>. QED
  BY <1>1 DEF PlacedInv, GoesOn

\* A job has given no file before it has its folder.
LEMMA FoldersStay ==
  ASSUME FolderInv, NEW j \in DOMAIN jobs, GoesOn(j)
  PROVE  FolderInv'
<1>1. ASSUME NEW i \in DOMAIN jobs
      PROVE  /\ IsSequence(jobs'[i].folder)
             /\ jobs'[i].stage \in {"waiting", "unpack"} =>
                  DOMAIN jobs'[i].placed = {}
  <2>1. CASE i # j
    BY <2>1 DEF FolderInv, GoesOn
  <2>2. CASE i = j
    <3>1. IsSequence(jobs'[j].folder)
      BY DEF FolderInv, GoesOn
    <3>2. jobs'[j].stage \in {"waiting", "unpack"} =>
            jobs[j].stage = "waiting" /\ jobs'[j].placed = jobs[j].placed
      BY DEF GoesOn, Gives
    <3>. QED
      BY <2>2, <3>1, <3>2 DEF FolderInv
  <2>. QED
    BY <2>1, <2>2
<1>. QED
  BY <1>1 DEF FolderInv, GoesOn

\* Where a file that an entry was given comes from.
Kept(i, f) ==
  /\ f \in DOMAIN jobs[i].placed
  /\ jobs'[i].placed[f] = jobs[i].placed[f]
Taken(i, f) ==
  /\ jobs[i].stage = "open"
  /\ jobs'[i].stage # "open"
  /\ jobs'[i].placed[f] = jobs[i].path

\* It was given before, or is the one that was chosen.
LEMMA FilesAreKeptOrTaken ==
  ASSUME NEW j \in DOMAIN jobs, GoesOn(j), NEW i \in DOMAIN jobs,
         NEW f \in DOMAIN jobs'[i].placed
  PROVE  /\ jobs'[i].folder = jobs[i].folder
         /\ Kept(i, f) \/ (i = j /\ Taken(i, f))
<1>1. CASE i # j
  BY <1>1 DEF GoesOn, Kept
<1>2. CASE i = j /\ jobs'[j].placed = jobs[j].placed
  <2>1. DOMAIN jobs[j].placed # {}
    BY <1>2
  <2>. QED
    BY <1>2, <2>1 DEF GoesOn, Kept
<1>3. CASE i = j /\ jobs'[j].placed # jobs[j].placed
  <2>1. PICK h: Gives(j, h)
    BY <1>3 DEF GoesOn
  <2>2. jobs'[j].folder = jobs[j].folder
    BY <1>3 DEF GoesOn
  <2>3. CASE f = h
    BY <1>3, <2>1, <2>2, <2>3 DEF Gives, Put, Taken
  <2>4. CASE f # h
    BY <1>3, <2>1, <2>2, <2>4 DEF Gives, Put, Kept
  <2>. QED
    BY <2>3, <2>4
<1>. QED
  BY <1>1, <1>2, <1>3

\* Two entries are not given one file.
LEMMA CopiesStayApart ==
  ASSUME ChoiceInv, CopiesApart, NEW j \in DOMAIN jobs, GoesOn(j)
  PROVE  CopiesApart'
<1>1. ASSUME mode # "Overwrite",
             NEW i \in DOMAIN jobs, NEW k \in DOMAIN jobs,
             i = k \/ ~HasWindow(command) \/ jobs'[i].folder # jobs'[k].folder,
             NEW f \in DOMAIN jobs'[i].placed, NEW g \in DOMAIN jobs'[k].placed,
             jobs'[i].placed[f] = jobs'[k].placed[g]
      PROVE  i = k /\ f = g
  <2>1. /\ jobs'[i].folder = jobs[i].folder
        /\ Kept(i, f) \/ (i = j /\ Taken(i, f))
    BY FilesAreKeptOrTaken
  <2>2. /\ jobs'[k].folder = jobs[k].folder
        /\ Kept(k, g) \/ (k = j /\ Taken(k, g))
    BY FilesAreKeptOrTaken
  <2>3. Apart(i, k) /\ Apart(k, i)
    BY <1>1, <2>1, <2>2 DEF Apart
  <2>4. CASE Kept(i, f) /\ Kept(k, g)
    <3>1. /\ f \in DOMAIN jobs[i].placed /\ g \in DOMAIN jobs[k].placed
          /\ jobs[i].placed[f] = jobs[k].placed[g]
      BY <1>1, <2>4 DEF Kept
    <3>2. i = k \/ ~HasWindow(command) \/ jobs[i].folder # jobs[k].folder
      BY <2>3 DEF Apart
    <3>. QED
      BY <1>1, <3>1, <3>2 DEF CopiesApart
  <2>5. CASE Kept(i, f) /\ k = j /\ Taken(k, g)
    BY <1>1, <2>3, <2>5 DEF Kept, Taken, ChoiceInv
  <2>6. CASE i = j /\ Taken(i, f) /\ Kept(k, g)
    BY <1>1, <2>3, <2>6 DEF Kept, Taken, ChoiceInv
  <2>7. CASE i = j /\ Taken(i, f) /\ k = j /\ Taken(k, g)
    <3>1. ASSUME NEW h, Gives(j, h), ~Kept(j, f), ~Kept(j, g)
          PROVE  f = h /\ g = h
      BY <1>1, <2>7, <3>1 DEF Gives, Put, Kept
    <3>. QED
      BY <2>4, <2>5, <2>6, <2>7, <3>1 DEF GoesOn, Kept
  <2>. QED
    BY <2>1, <2>2, <2>4, <2>5, <2>6, <2>7
<1>. QED
  BY <1>1 DEF CopiesApart, GoesOn

\* The file that is chosen for an entry was given to no other.
LEMMA ChoicesStay ==
  ASSUME TurnInv, PlacedInv, ChoiceInv, NEW j \in DOMAIN jobs, GoesOn(j)
  PROVE  ChoiceInv'
<1>1. ASSUME NEW k \in DOMAIN jobs, jobs'[k].stage = "open"
      PROVE  Front(jobs'[k].path) = jobs'[k].folder
  BY <1>1 DEF GoesOn, ChoiceInv
<1>2. ASSUME NEW k \in DOMAIN jobs, jobs'[k].stage = "open", mode # "Overwrite",
             NEW i \in DOMAIN jobs, Apart(i, k)',
             NEW f \in DOMAIN jobs'[i].placed,
             jobs'[i].placed[f] = jobs'[k].path
      PROVE  FALSE
  <2>1. /\ jobs'[i].folder = jobs[i].folder
        /\ Kept(i, f) \/ (i = j /\ Taken(i, f))
    BY FilesAreKeptOrTaken
  <2>2. CASE k = j
    <3>1. Kept(i, f)
      BY <1>2, <2>1, <2>2 DEF Taken
    <3>2. jobs[i].placed[f] \in DOMAIN disk
      BY <3>1 DEF Kept, PlacedInv
    <3>. QED
      BY <1>2, <2>2, <3>1, <3>2 DEF Kept, GoesOn
  <2>3. CASE k # j
    <3>1. jobs'[k] = jobs[k]
      BY <2>3 DEF GoesOn
    <3>2. Apart(i, k)
      BY <1>2, <2>1, <3>1 DEF Apart, GoesOn
    <3>3. CASE Kept(i, f)
      BY <1>2, <3>1, <3>2, <3>3 DEF Kept, ChoiceInv
    <3>4. CASE i = j /\ Taken(i, f)
      <4>1. Running(i) /\ Running(k) /\ i # k
        BY <1>2, <2>3, <3>1, <3>4 DEF Taken, Running
      <4>2. jobs[i].folder # jobs[k].folder
        BY <3>2, <4>1 DEF TurnInv, Apart
      <4>. QED
        BY <1>2, <3>1, <3>4, <4>2 DEF Taken, ChoiceInv
    <3>. QED
      BY <2>1, <3>3, <3>4
  <2>. QED
    BY <2>2, <2>3
<1>3. \A k \in DOMAIN jobs: jobs'[k].stage = "open" =>
        /\ Front(jobs'[k].path) = jobs'[k].folder
        /\ mode # "Overwrite" =>
             \A i \in DOMAIN jobs: Apart(i, k)' =>
               \A f \in DOMAIN jobs'[i].placed: jobs'[i].placed[f] # jobs'[k].path
  BY <1>1, <1>2
<1>. QED
  BY <1>3 DEF ChoiceInv, GoesOn

\* What one job does leaves the files that are given apart.
LEMMA OneJobStaysApart ==
  ASSUME ApartInv, NEW j \in DOMAIN jobs, GoesOn(j)
  PROVE  ApartInv'
<1>1. GivenInv'
  BY DEF ApartInv, GivenInv, GoesOn
<1>2. TurnInv'
  BY TurnsGoOn DEF ApartInv, GoesOn
<1>. QED
  BY <1>1, <1>2, FoldersStay, PlacedStays, ChoicesStay, CopiesStayApart
  DEF ApartInv

-----------------------------------------------------------------------------
(* What the steps of a job do to what is given. *)

\* The stages before the entries, and the one in which a file is chosen.
LEMMA FieldsOfJobs ==
  {"stage", "path", "folder", "placed"} \subseteq JobFields
BY DEF JobFields, NewJob

\* No step of a job changes the command.
LEMMA CommandStays ==
  ASSUME NEW j, Stay \/ Raise(j)
  PROVE  UNCHANGED <<mode, command, answer>>
BY DEF Stay, Raise, commandVars

\* A step that gives no entry a file.
LEMMA PlainStepGoesOn ==
  ASSUME KeepInv, NEW j \in DOMAIN jobs, NEW fields, Change(j, fields),
         Stay \/ Raise(j),
         DOMAIN disk \subseteq DOMAIN disk',
         jobs[j].stage \notin {"waiting", "ended"},
         "folder" \notin DOMAIN fields, "placed" \notin DOMAIN fields,
         IF "stage" \in DOMAIN fields
         THEN fields["stage"] \notin {"waiting", "unpack", "open"}
         ELSE jobs[j].stage \notin {"waiting", "unpack", "open"}
  PROVE  GoesOn(j)
<1>1. UNCHANGED <<mode, command, answer>>
  BY CommandStays
<1>2. /\ DOMAIN jobs' = DOMAIN jobs
      /\ \A i \in DOMAIN jobs: i # j => jobs'[i] = jobs[i]
      /\ jobs'[j]["folder"] = jobs[j]["folder"]
      /\ jobs'[j]["placed"] = jobs[j]["placed"]
      /\ jobs'[j]["stage"]
           = IF "stage" \in DOMAIN fields THEN fields["stage"] ELSE jobs[j]["stage"]
  BY ChangeIsLocal, FieldsOfJobs DEF KeepInv
<1>3. jobs'[j].stage \notin {"waiting", "unpack", "open"}
  BY <1>2
<1>4. Running(j)
  BY DEF Running
<1>. QED
  BY <1>1, <1>2, <1>3, <1>4 DEF GoesOn

\* The end of a job, with or without an error.
LEMMA EndGoesOn ==
  ASSUME KeepInv, NEW j \in DOMAIN jobs, DOMAIN disk \subseteq DOMAIN disk',
         (Fail(j) /\ Stay) \/ Raise(j),
         jobs[j].stage \notin {"waiting", "ended"}
  PROVE  GoesOn(j)
<1>. DEFINE fields == [stage |-> "ended", quiet |-> FALSE]
<1>1. Change(j, fields) /\ (Stay \/ Raise(j))
  BY DEF Fail, Raise
<1>2. /\ "folder" \notin DOMAIN fields /\ "placed" \notin DOMAIN fields
      /\ "stage" \in DOMAIN fields
      /\ fields["stage"] \notin {"waiting", "unpack", "open"}
  OBVIOUS
<1>. HIDE DEF fields
<1>. QED
  BY <1>1, <1>2, PlainStepGoesOn

\* A thread takes a job, without a window when there is no other.
LEMMA PickJobGoesOn ==
  ASSUME KeepInv, GivenInv, NEW j \in DOMAIN jobs, PickJob(j)
  PROVE  GoesOn(j)
<1>. DEFINE fields == [stage |-> command.verb]
            running == {i \in DOMAIN jobs: Running(i)}
<1>1. /\ Change(j, fields) /\ UNCHANGED disk /\ Stay
      /\ command # NoCommand /\ jobs[j].stage = "waiting"
      /\ Cardinality(running) < IF HasWindow(command) THEN Threads ELSE 1
  BY DEF PickJob, Reaches
<1>2. command.verb \in {"pack", "unpack"}
  BY <1>1 DEF KeepInv, CommandInv
<1>3. /\ DOMAIN jobs' = DOMAIN jobs
      /\ \A i \in DOMAIN jobs: i # j => jobs'[i] = jobs[i]
      /\ jobs'[j]["folder"] = jobs[j]["folder"]
      /\ jobs'[j]["placed"] = jobs[j]["placed"]
      /\ jobs'[j]["stage"] = command.verb
  BY <1>1, ChangeIsLocal, FieldsOfJobs DEF KeepInv
<1>4. ~HasWindow(command) => running = {}
  <2>1. IsFiniteSet(DOMAIN jobs)
    <3>1. /\ DOMAIN jobs = 1 .. Len(command.inputs)
          /\ Len(command.inputs) \in Nat
      BY <1>1, LenProperties DEF GivenInv, IsSequence
    <3>. QED
      BY <3>1, FS_Interval
  <2>2. IsFiniteSet(running)
    BY <2>1, FS_Subset
  <2>3. Cardinality(running) \in Nat /\ (Cardinality(running) = 0 <=> running = {})
    BY <2>2, FS_CardinalityType, FS_EmptySet
  <2>. HIDE DEF running
  <2>. QED
    BY <1>1, <2>3
<1>5. UNCHANGED <<mode, command, answer>>
  BY <1>1, CommandStays
<1>. QED
  BY <1>1, <1>2, <1>3, <1>4, <1>5 DEF GoesOn

\* UnpackTask has its folder before it gives an entry a file.
LEMMA PrepareUnpackGoesOn ==
  ASSUME KeepInv, GivenInv, FolderInv, NEW j \in DOMAIN jobs, PrepareUnpack(j)
  PROVE  GoesOn(j)
<1>1. UNCHANGED disk /\ Stay /\ jobs[j].stage = "unpack"
  BY DEF PrepareUnpack, Reaches
<1>. DEFINE fields(doc) ==
       [stage |-> "entry", document |-> doc, folder |-> PboDir(j, doc),
        todo |-> SetToSeq(DOMAIN doc.files), size |-> Cardinality(DOMAIN doc.files),
        quiet |-> "--use-pbo-prefix" \notin command.options
                    \/ PrefixHeaderOf(doc) # <<>>]
<1>2. Fail(j) \/ \E doc: Change(j, fields(doc))
  BY DEF PrepareUnpack
<1>3. ASSUME NEW doc, Change(j, fields(doc))
      PROVE  GoesOn(j)
  <2>1. /\ "folder" \in DOMAIN fields(doc) /\ "placed" \notin DOMAIN fields(doc)
        /\ fields(doc)["folder"] = PboDir(j, doc)
        /\ "stage" \in DOMAIN fields(doc) /\ fields(doc)["stage"] = "entry"
    OBVIOUS
  <2>. HIDE DEF fields
  <2>2. /\ DOMAIN jobs' = DOMAIN jobs
        /\ \A i \in DOMAIN jobs: i # j => jobs'[i] = jobs[i]
        /\ jobs'[j]["folder"] = PboDir(j, doc)
        /\ jobs'[j]["placed"] = jobs[j]["placed"]
        /\ jobs'[j]["stage"] = "entry"
    BY <1>3, <2>1, ChangeIsLocal, FieldsOfJobs DEF KeepInv
  <2>3. IsSequence(PboDir(j, doc))
    BY PboDirIsSequence
  <2>4. DOMAIN jobs[j].placed = {}
    BY <1>1 DEF FolderInv
  <2>5. UNCHANGED <<mode, command, answer>>
    BY <1>1, CommandStays
  <2>6. Running(j)
    BY <1>1 DEF Running
  <2>. QED
    BY <1>1, <2>2, <2>3, <2>4, <2>5, <2>6 DEF GoesOn
<1>. HIDE DEF fields
<1>. QED
  BY <1>1, <1>2, <1>3, EndGoesOn

\* The file that is chosen for an entry is free, and in the folder of the job.
LEMMA ResolveEntryGoesOn ==
  ASSUME KeepInv, FolderInv, NEW j \in DOMAIN jobs, ResolveEntry(j)
  PROVE  GoesOn(j)
<1>. DEFINE last == [stage |-> "config"]
            skipped == [quiet |-> FALSE, progress |-> jobs[j].progress + 1,
                        todo |-> Tail(jobs[j].todo)]
            resolved(path) == [stage |-> "open", path |-> path]
            folder == jobs[j].folder
<1>1. UNCHANGED disk /\ jobs[j].stage = "entry"
  BY DEF ResolveEntry, Reaches
<1>2. \/ Change(j, last) /\ Stay
      \/ Raise(j)
      \/ Change(j, skipped) /\ Stay
      \/ \E name:
           /\ ~NoCopyFree(disk, Append(folder, name))
           /\ Resolve(disk, Append(folder, name)) # NoPath
           /\ Change(j, resolved(Resolve(disk, Append(folder, name))))
           /\ Stay
  BY Zenon DEF ResolveEntry
<1>3. ASSUME Change(j, last), Stay
      PROVE  GoesOn(j)
  <2>1. /\ "folder" \notin DOMAIN last /\ "placed" \notin DOMAIN last
        /\ "stage" \in DOMAIN last
        /\ last["stage"] \notin {"waiting", "unpack", "open"}
    OBVIOUS
  <2>. HIDE DEF last
  <2>. QED
    BY <1>1, <1>3, <2>1, PlainStepGoesOn
<1>4. ASSUME Change(j, skipped), Stay
      PROVE  GoesOn(j)
  <2>1. /\ "folder" \notin DOMAIN skipped /\ "placed" \notin DOMAIN skipped
        /\ "stage" \notin DOMAIN skipped
    OBVIOUS
  <2>. HIDE DEF skipped
  <2>. QED
    BY <1>1, <1>4, <2>1, PlainStepGoesOn
<1>5. ASSUME NEW name, NEW path, path = Resolve(disk, Append(folder, name)),
             ~NoCopyFree(disk, Append(folder, name)), path # NoPath,
             Change(j, resolved(path)), Stay
      PROVE  GoesOn(j)
  <2>1. /\ "folder" \notin DOMAIN resolved(path) /\ "placed" \notin DOMAIN resolved(path)
        /\ "stage" \in DOMAIN resolved(path) /\ resolved(path)["stage"] = "open"
        /\ "path" \in DOMAIN resolved(path) /\ resolved(path)["path"] = path
    OBVIOUS
  <2>. HIDE DEF resolved
  <2>2. /\ DOMAIN jobs' = DOMAIN jobs
        /\ \A i \in DOMAIN jobs: i # j => jobs'[i] = jobs[i]
        /\ jobs'[j]["folder"] = jobs[j]["folder"]
        /\ jobs'[j]["placed"] = jobs[j]["placed"]
        /\ jobs'[j]["stage"] = "open"
        /\ jobs'[j]["path"] = path
    BY <1>5, <2>1, ChangeIsLocal, FieldsOfJobs DEF KeepInv
  <2>3. Front(path) = folder
    BY <1>5, ResolvedIsBeside DEF FolderInv
  <2>4. mode # "Overwrite" => path \notin DOMAIN disk
    BY <1>5, ResolvedIsFree DEF KeepInv, ModeInv
  <2>5. UNCHANGED <<mode, command, answer>>
    BY <1>5, CommandStays
  <2>6. Running(j)
    BY <1>1 DEF Running
  <2>. QED
    BY <1>1, <2>2, <2>3, <2>4, <2>5, <2>6 DEF GoesOn
<1>. HIDE DEF last, skipped, resolved, folder
<1>. QED
  BY <1>1, <1>2, <1>3, <1>4, <1>5, EndGoesOn

\* An entry is given the file that was chosen, as it is opened.
LEMMA OpenEntryGoesOn ==
  ASSUME KeepInv, NEW j \in DOMAIN jobs, OpenEntry(j)
  PROVE  GoesOn(j)
<1>. DEFINE left == [stage |-> "entry", todo |-> Tail(jobs[j].todo)]
            failed == [stage |-> "entry", quiet |-> FALSE,
                       progress |-> jobs[j].progress + 1,
                       todo |-> Tail(jobs[j].todo)]
            bound(h) == [stage |-> "write", at |-> 0,
                          placed |-> Put(jobs[j].placed, h, jobs[j].path)]
<1>1. jobs[j].stage = "open"
  BY DEF OpenEntry, Reaches
<1>2. DOMAIN disk \subseteq DOMAIN disk'
  <2>1. disk' = disk \/ disk' = Opened(disk, jobs[j].path)
    BY DEF OpenEntry
  <2>. QED
    BY <2>1 DEF Opened, Put
<1>3. \/ Change(j, left) /\ Stay
      \/ Change(j, failed) /\ Stay
      \/ Raise(j)
      \/ /\ disk' = Opened(disk, jobs[j].path)
         /\ Change(j, bound(Head(jobs[j].todo)))
         /\ Stay
  BY DEF OpenEntry
<1>4. /\ "folder" \notin DOMAIN left /\ "placed" \notin DOMAIN left
      /\ "folder" \notin DOMAIN failed /\ "placed" \notin DOMAIN failed
      /\ "stage" \in DOMAIN left /\ left["stage"] = "entry"
      /\ "stage" \in DOMAIN failed /\ failed["stage"] = "entry"
  OBVIOUS
<1>5. ASSUME NEW h, disk' = Opened(disk, jobs[j].path),
             Change(j, bound(h)), Stay
      PROVE  GoesOn(j)
  <2>. DEFINE placed == Put(jobs[j].placed, h, jobs[j].path)
  <2>1. /\ "folder" \notin DOMAIN bound(h)
        /\ "path" \notin DOMAIN bound(h)
        /\ "stage" \in DOMAIN bound(h) /\ bound(h)["stage"] = "write"
        /\ "placed" \in DOMAIN bound(h) /\ bound(h)["placed"] = placed
    OBVIOUS
  <2>. HIDE DEF bound, placed
  <2>2. /\ DOMAIN jobs' = DOMAIN jobs
        /\ \A i \in DOMAIN jobs: i # j => jobs'[i] = jobs[i]
        /\ jobs'[j]["folder"] = jobs[j]["folder"]
        /\ jobs'[j]["placed"] = placed
        /\ jobs'[j]["stage"] = "write"
    BY <1>5, <2>1, ChangeIsLocal, FieldsOfJobs DEF KeepInv
  <2>3. jobs[j].path \in DOMAIN disk'
    BY <1>5 DEF Opened, Put
  <2>4. Gives(j, h)
    BY <1>1, <2>2, <2>3 DEF Gives, placed
  <2>5. UNCHANGED <<mode, command, answer>>
    BY <1>5, CommandStays
  <2>6. Running(j)
    BY <1>1 DEF Running
  <2>. QED
    BY <1>2, <2>2, <2>4, <2>5, <2>6 DEF GoesOn
<1>. HIDE DEF left, failed, bound
<1>. QED
  BY <1>1, <1>2, <1>3, <1>4, <1>5, EndGoesOn, PlainStepGoesOn

\* An entry is written into the file it has.
LEMMA WriteEntryGoesOn ==
  ASSUME KeepInv, NEW j \in DOMAIN jobs, WriteEntry(j)
  PROVE  GoesOn(j)
<1>. DEFINE done == [stage |-> "entry", progress |-> jobs[j].progress + 1,
                     todo |-> Tail(jobs[j].todo)]
            more == [at |-> jobs[j].at + 1]
            entry == jobs[j].document.files[Head(jobs[j].todo)]
<1>1. jobs[j].stage = "write" /\ Stay
  BY DEF WriteEntry, Reaches
<1>2. disk' = disk \/ disk' = [disk EXCEPT ![jobs[j].path] =
                                  Overlay(@, entry, jobs[j].at + 1)]
  BY DEF WriteEntry
<1>3. DOMAIN disk' = DOMAIN disk
  BY <1>2
<1>4. Change(j, done) \/ Change(j, more)
  BY DEF WriteEntry
<1>5. /\ "folder" \notin DOMAIN done /\ "placed" \notin DOMAIN done
      /\ "folder" \notin DOMAIN more /\ "placed" \notin DOMAIN more
      /\ "stage" \in DOMAIN done /\ done["stage"] = "entry"
      /\ "stage" \notin DOMAIN more
  OBVIOUS
<1>. HIDE DEF done, more
<1>. QED
  BY <1>1, <1>3, <1>4, <1>5, PlainStepGoesOn

\* The stages behind the entries give them no file.
LEMMA LastStagesGoOn ==
  ASSUME KeepInv, NEW j \in DOMAIN jobs,
         \/ ResolveConfig(j) \/ SaveConfig(j) \/ ResolvePbo(j)
         \/ OpenPbo(j) \/ WritePbo(j)
  PROVE  GoesOn(j)
<1>. DEFINE to(stage, path) == [stage |-> stage, path |-> path]
            on(stage) == [stage |-> stage]
            written == [stage |-> "ended", progress |-> jobs[j].size]
            unwritten == [stage |-> "ended", quiet |-> stopped]
            Later == {"save config", "collect", "write pbo", "ended"}
<1>1. jobs[j].stage \notin {"waiting", "ended"}
  BY DEF ResolveConfig, SaveConfig, ResolvePbo, OpenPbo, WritePbo, Reaches
<1>2. DOMAIN disk \subseteq DOMAIN disk'
  <2>1. disk' = disk \/ \E content: disk' = Put(disk, jobs[j].path, content)
    BY Zenon DEF ResolveConfig, SaveConfig, ResolvePbo, OpenPbo, WritePbo
  <2>. QED
    BY <2>1 DEF Put
<1>3. \/ (Fail(j) /\ Stay) \/ Raise(j)
      \/ \E stage \in Later: \E path: Change(j, to(stage, path)) /\ Stay
      \/ \E stage \in Later: Change(j, on(stage)) /\ Stay
      \/ Change(j, written) /\ Stay
      \/ Change(j, unwritten) /\ Stay
  <2>1. CASE ResolveConfig(j)
    BY <2>1 DEF ResolveConfig
  <2>2. CASE SaveConfig(j)
    BY <2>2 DEF SaveConfig
  <2>3. CASE ResolvePbo(j)
    BY <2>3 DEF ResolvePbo
  <2>4. CASE OpenPbo(j)
    BY <2>4 DEF OpenPbo
  <2>5. CASE WritePbo(j)
    BY <2>5, Zenon DEF WritePbo
  <2>. QED
    BY <2>1, <2>2, <2>3, <2>4, <2>5
<1>4. ASSUME NEW stage \in Later
      PROVE  /\ "folder" \notin DOMAIN on(stage) /\ "placed" \notin DOMAIN on(stage)
             /\ "stage" \in DOMAIN on(stage)
             /\ on(stage)["stage"] \notin {"waiting", "unpack", "open"}
  OBVIOUS
<1>5. ASSUME NEW stage \in Later, NEW path
      PROVE  /\ "folder" \notin DOMAIN to(stage, path)
             /\ "placed" \notin DOMAIN to(stage, path)
             /\ "stage" \in DOMAIN to(stage, path)
             /\ to(stage, path)["stage"] \notin {"waiting", "unpack", "open"}
  OBVIOUS
<1>6. /\ "folder" \notin DOMAIN written /\ "placed" \notin DOMAIN written
      /\ "stage" \in DOMAIN written /\ written["stage"] = "ended"
      /\ "folder" \notin DOMAIN unwritten /\ "placed" \notin DOMAIN unwritten
      /\ "stage" \in DOMAIN unwritten /\ unwritten["stage"] = "ended"
  OBVIOUS
<1>. HIDE DEF to, on, written, unwritten, Later
<1>. QED
  BY <1>1, <1>2, <1>3, <1>4, <1>5, <1>6, EndGoesOn, PlainStepGoesOn

\* PackTask gives no entry a file at all.
LEMMA CollectGoesOn ==
  ASSUME KeepInv, NEW j \in DOMAIN jobs, Collect(j)
  PROVE  GoesOn(j)
<1>. DEFINE stoppedFields == [stage |-> "ended"]
            packed(doc, size) == [stage |-> "open pbo", document |-> doc, size |-> size]
<1>1. jobs[j].stage = "collect" /\ UNCHANGED disk
  BY DEF Collect, Reaches
<1>2. \/ Change(j, stoppedFields) /\ Stay
      \/ Fail(j) /\ Stay
      \/ Raise(j)
      \/ \E doc, size: Change(j, packed(doc, size)) /\ Stay
  BY Zenon DEF Collect
<1>3. /\ "folder" \notin DOMAIN stoppedFields /\ "placed" \notin DOMAIN stoppedFields
      /\ "stage" \in DOMAIN stoppedFields /\ stoppedFields["stage"] = "ended"
  OBVIOUS
<1>4. ASSUME NEW doc, NEW size
      PROVE  /\ "folder" \notin DOMAIN packed(doc, size)
             /\ "placed" \notin DOMAIN packed(doc, size)
             /\ "stage" \in DOMAIN packed(doc, size)
             /\ packed(doc, size)["stage"] = "open pbo"
  OBVIOUS
<1>. HIDE DEF stoppedFields, packed
<1>. QED
  BY <1>1, <1>2, <1>3, <1>4, EndGoesOn, PlainStepGoesOn

\* The command lines there are name inputs and outputs that are paths.
LEMMA PathsOfCommands ==
  ASSUME NEW c \in Commands
  PROVE  /\ IsSequence(c.output)
         /\ IsSequence(c.inputs)
         /\ \A i \in DOMAIN c.inputs: IsSequence(c.inputs[i].path)
<1>1. CASE c \in UserCommands
  <2>1. \A i \in DOMAIN c.inputs: c.inputs[i] \in ToSet(c.inputs)
    BY DEF ToSet
  <2>. QED
    BY <1>1, <2>1, PathsAssumption
<1>2. ASSUME NEW s \in Selections, c \in ExplorerCommands(s, folders)
      PROVE  /\ IsSequence(c.output)
             /\ IsSequence(c.inputs)
             /\ \A i \in DOMAIN c.inputs: IsSequence(c.inputs[i].path)
  <2>. DEFINE inputs == [i \in DOMAIN s |-> Input(s[i], FALSE)]
              verb == IF SelectionMode(s, folders) = "files" THEN "unpack" ELSE "pack"
  <2>1. /\ s # <<>> /\ IsSequence(s)
        /\ \A i \in DOMAIN s: IsSequence(s[i])
    BY <1>2, PathsAssumption DEF ExplorerCommands, SelectionMode, ToSet
  <2>2. /\ Len(s) \in Nat \ {0} /\ DOMAIN s = 1 .. Len(s)
    BY <2>1, EmptySeq, LenProperties DEF IsSequence
  <2>3. IsSequence(inputs)
    <3>1. inputs \in [1 .. Len(s) -> ToSet(inputs)]
      BY <2>2 DEF ToSet
    <3>2. inputs \in Seq(ToSet(inputs))
      <4>1. Len(s) \in Nat
        BY <2>2
      <4>2. inputs \in UNION {[1 .. n -> ToSet(inputs)]: n \in Nat}
        BY <3>1, <4>1
      <4>. QED
        BY <4>2, SeqDef
    <3>. QED
      BY <3>2 DEF IsSequence
  <2>4. \A i \in DOMAIN inputs: inputs[i].path = s[i]
    BY DEF Input
  <2>5. IsSequence(Front(s[1]))
    BY <2>1, <2>2, FrontIsSequence
  <2>6. \/ c = Command("pbom", verb, inputs, {"--prompt"}, NoPath)
        \/ c = Command("pbom", verb, inputs, {"--output-directory"}, Front(s[1]))
    BY <1>2, Zenon DEF ExplorerCommands, NoPath
  <2>. HIDE DEF inputs, verb
  <2>7. c.inputs = inputs /\ c.output \in {NoPath, Front(s[1])}
    BY <2>6 DEF Command
  <2>8. DOMAIN inputs = DOMAIN s
    BY DEF inputs
  <2>. QED
    BY <2>1, <2>3, <2>4, <2>5, <2>7, <2>8, NoPathIsSequence
<1>. QED
  BY <1>1, <1>2 DEF Commands

\* Before a command nothing was given.
LEMMA InitiallyApart == Init => ApartInv
<1>. SUFFICES ASSUME Init
              PROVE  ApartInv
  OBVIOUS
<1>1. DOMAIN jobs = {} /\ command = NoCommand /\ IsSequence(answer)
  BY NoPathIsSequence DEF Init
<1>. QED
  BY <1>1 DEF ApartInv, GivenInv, FolderInv, PlacedInv, TurnInv, ChoiceInv,
              CopiesApart

\* The jobs of a new command have given nothing.
LEMMA GiveCommandStaysApart ==
  ASSUME KeepInv, ApartInv, NEW c \in Commands, NEW asked \in Answers \union {NoPath},
         GiveCommand(c, asked)
  PROVE  ApartInv'
<1>1. UNCHANGED disk
  BY DEF GiveCommand
<1>2. CASE UNCHANGED <<command, mode, answer, before, jobs>>
  BY <1>1, <1>2 DEF ApartInv, GivenInv, FolderInv, PlacedInv, TurnInv, ChoiceInv,
                    CopiesApart, Running, Apart
<1>3. CASE ~(UNCHANGED <<command, mode, answer, before, jobs>>)
  <2>1. /\ command' = c
        /\ answer' = asked
        /\ jobs' = [i \in DOMAIN c.inputs |-> NewJob]
    BY <1>3 DEF GiveCommand
  <2>2. c # NoCommand
    BY VerbsOfCommands DEF NoCommand, Command
  <2>3. GivenInv'
    BY <2>1, <2>2, PathsOfCommands, PathsAssumption, NoPathIsSequence DEF GivenInv
  <2>4. \A j \in DOMAIN jobs': /\ jobs'[j].stage = "waiting"
                               /\ DOMAIN jobs'[j].placed = {}
                               /\ IsSequence(jobs'[j].folder)
    BY <2>1, NoPathIsSequence DEF NewJob
  <2>. QED
    BY <2>3, <2>4 DEF ApartInv, FolderInv, PlacedInv, TurnInv, ChoiceInv,
                      CopiesApart, Running
<1>. QED
  BY <1>2, <1>3

\* Whatever is done, and whatever fails, the files that are given stay apart.
LEMMA StepStaysApart == KeepInv /\ ApartInv /\ [Next]_vars => ApartInv'
<1>. SUFFICES ASSUME KeepInv, ApartInv, [Next]_vars
              PROVE  ApartInv'
  OBVIOUS
<1>0. GivenInv /\ FolderInv
  BY DEF ApartInv
<1>1. ASSUME NEW c \in Commands, NEW asked \in Answers \union {NoPath},
             GiveCommand(c, asked)
      PROVE  ApartInv'
  BY <1>1, GiveCommandStaysApart
<1>2. ASSUME NEW j \in DOMAIN jobs, JobStep(j)
      PROVE  ApartInv'
  <2>1. GoesOn(j)
    BY <1>0, <1>2, PickJobGoesOn, PrepareUnpackGoesOn, ResolveEntryGoesOn,
       OpenEntryGoesOn, WriteEntryGoesOn, LastStagesGoOn, CollectGoesOn
    DEF JobStep, UnpackStep, PackStep
  <2>. QED
    BY <2>1, OneJobStaysApart
<1>3. CASE Cancel \/ UNCHANGED vars
  <2>1. UNCHANGED disk /\ UNCHANGED jobs /\ UNCHANGED mode /\ UNCHANGED command
          /\ UNCHANGED answer
    BY <1>3 DEF Cancel, vars, commandVars
  <2>. QED
    BY <2>1 DEF ApartInv, GivenInv, FolderInv, PlacedInv, TurnInv, ChoiceInv,
                CopiesApart, Running, Apart
<1>4. CASE EndCommand
  <2>1. command' = NoCommand /\ DOMAIN jobs' = {} /\ answer' = NoPath
    BY <1>4 DEF EndCommand
  <2>. QED
    BY <2>1, NoPathIsSequence
    DEF ApartInv, GivenInv, FolderInv, PlacedInv, TurnInv, ChoiceInv, CopiesApart
<1>. QED
  BY <1>1, <1>2, <1>3, <1>4 DEF Next

(***************************************************************************)
(* Two entries are never given one file, unless the user has chosen to     *)
(* overwrite or they are those of jobs that run at once and unpack into    *)
(* one folder: between the choice of a file and its opening nobody else    *)
(* gives that file to an entry.                                            *)
(***************************************************************************)
THEOREM EntriesGetFilesOfTheirOwn == Spec => []CopiesApart
<1>1. Init => KeepInv /\ ApartInv
  BY Initially, InitiallyApart
<1>2. KeepInv /\ ApartInv /\ [Next]_vars => (KeepInv /\ ApartInv)'
  BY StepKeeps, StepStaysApart
<1>3. KeepInv /\ ApartInv => CopiesApart
  BY DEF ApartInv
<1>. QED
  BY <1>1, <1>2, <1>3, PTL DEF Spec

(***************************************************************************)
(* A job that ends without a word has done all of it.                      *)
(***************************************************************************)

UnpackStages ==
  {"waiting", "unpack", "entry", "open", "write", "config", "save config", "ended"}
PackStages == {"waiting", "pack", "collect", "open pbo", "write pbo", "ended"}

\* A job goes through the stages of the subcommand.
StageInv ==
  \A j \in DOMAIN jobs:
    jobs[j].stage \in IF command.verb = "unpack" THEN UnpackStages ELSE PackStages

\* What is to be unpacked is there.
InputsInv ==
  command.verb = "unpack" =>
    \A j \in DOMAIN jobs: command.inputs[j].path \in DOMAIN disk

\* There are finitely many files, and there are paths to them.
IsFilePath(path) == IsSequence(path) /\ path # <<>>
FilesInv ==
  /\ IsFiniteSet(DOMAIN disk)
  /\ \A p \in DOMAIN disk: IsFilePath(p)
  /\ \A j \in DOMAIN jobs: Holds(jobs[j]) => IsFilePath(jobs[j].path)

\* What is on the disk, and in the documents in hand, are contents.
AllIn(contents) ==
  /\ AreContents(contents)
  /\ \A p \in DOMAIN disk: disk[p] \in contents
  /\ \A j \in DOMAIN jobs: IsDocumentOf(contents, jobs[j].document)
ContentsInv == \E contents: AllIn(contents)

Distinct(s) == \A i, k \in DOMAIN s: s[i] = s[k] => i = k

\* The entries that are not dealt with, and those that have a file, are all
\* there are; the first of the former is in hand.
TodoOK(job, cancelled) ==
  /\ IsSequence(job.todo)
  /\ Distinct(job.todo)
  /\ job.progress \in Int
  /\ DOMAIN job.placed \subseteq DOMAIN job.document.files
  /\ ToSet(job.todo) \subseteq DOMAIN job.document.files
  /\ ~cancelled => job.progress + Len(job.todo) = job.size
  /\ ~cancelled /\ job.quiet =>
       DOMAIN job.document.files \subseteq DOMAIN job.placed \union ToSet(job.todo)
  /\ job.stage \in {"open", "write"} => job.todo # <<>>
  /\ job.stage \in {"entry", "open"} =>
       ToSet(job.todo) \intersect DOMAIN job.placed = {}
  /\ job.stage = "write" =>
       /\ ToSet(job.todo) \intersect DOMAIN job.placed = {Head(job.todo)}
       /\ job.placed[Head(job.todo)] = job.path
       /\ job.at \in Nat
       /\ job.at <= Len(job.document.files[Head(job.todo)].cells)

\* A job that has not prepared its entries has counted none of them.
TodoInv ==
  \A j \in DOMAIN jobs:
    /\ jobs[j].stage \in {"waiting", "unpack"} => jobs[j].progress = 0
    /\ jobs[j].stage \in {"entry", "open", "write"} => TodoOK(jobs[j], stopped)

\* When all entries are dealt with, the progress is full, and without a message
\* all of them have a file; pbo.json is not one of these unless it was chosen to
\* be.
DoneOK(job, cancelled) ==
  /\ ~cancelled =>
       /\ job.progress = job.size
       /\ job.quiet => DOMAIN job.placed = DOMAIN job.document.files
  /\ DOMAIN job.placed \subseteq DOMAIN job.document.files
  /\ job.stage # "config" =>
       \A f \in DOMAIN job.placed:
         job.placed[f] = job.path => job.path = Append(job.folder, PboJsonName)
DoneInv ==
  command.verb = "unpack" =>
    \A j \in DOMAIN jobs:
      \/ jobs[j].stage \in {"config", "save config"}
      \/ jobs[j].stage = "ended" /\ jobs[j].quiet
      => DoneOK(jobs[j], stopped)

\* No other entry was given the file that this one was, nor pbo.json.
Sole(j, f) ==
  \A i \in DOMAIN jobs:
    /\ \A g \in DOMAIN jobs[i].placed:
         jobs[i].placed[g] = jobs[j].placed[f] => i = j /\ g = f
    /\ jobs[i].stage \in {"save config", "ended"} => jobs[i].path # jobs[j].placed[f]

\* The first n cells are those of the entry.
Starts(cells, entry, n) ==
  /\ n <= Len(cells)
  /\ \A k \in 1 .. n: cells[k] = entry[k]

\* How much of an entry is written.
Written(job, f) ==
  IF job.stage = "write" /\ f = Head(job.todo) THEN job.at
  ELSE Len(job.document.files[f].cells)

WrittenInv ==
  command.verb = "unpack" /\ ~stopped =>
    \A j \in DOMAIN jobs:
      \A f \in DOMAIN jobs[j].placed:
        Sole(j, f) =>
          Starts(disk[jobs[j].placed[f]].cells, jobs[j].document.files[f].cells,
                 Written(jobs[j], f))

\* A PBO that is packed is there.
PackedInv ==
  command.verb = "pack" /\ ~stopped =>
    \A j \in DOMAIN jobs:
      jobs[j].stage = "ended" /\ jobs[j].quiet =>
        /\ jobs[j].progress = jobs[j].size
        /\ jobs[j].path \in DOMAIN disk
        /\ ~Shared(j) => disk[jobs[j].path] = PboFile(jobs[j].document)

DoneParts ==
  /\ StageInv
  /\ InputsInv
  /\ FilesInv
  /\ ContentsInv
  /\ TodoInv
  /\ DoneInv
  /\ WrittenInv
  /\ PackedInv

-----------------------------------------------------------------------------
(* Sequences and cells. *)

\* A function on the first numbers is a sequence.
LEMMA SequenceOf ==
  ASSUME NEW n \in Nat, NEW s, DOMAIN s = 1 .. n, NEW S,
         s \in [1 .. n -> S]
  PROVE  /\ s \in Seq(S)
         /\ IsSequence(s)
         /\ Len(s) = n
<1>1. s \in UNION {[1 .. m -> S]: m \in Nat}
  OBVIOUS
<1>2. s \in Seq(S)
  BY <1>1, SeqDef
<1>. QED
  BY <1>2, SequenceOver, LenProperties

\* The files of a document, one after the other.
LEMMA SetInSequence ==
  ASSUME NEW S, IsFiniteSet(S)
  PROVE  /\ IsSequence(SetToSeq(S))
         /\ Distinct(SetToSeq(S))
         /\ ToSet(SetToSeq(S)) = S
         /\ Len(SetToSeq(S)) = Cardinality(S)
         /\ Cardinality(S) \in Nat
<1>. DEFINE n == Cardinality(S)
            s == SetToSeq(S)
<1>1. n \in Nat /\ ExistsBijection(1 .. n, S)
  BY FS_CardinalityType
<1>2. \E f \in [1 .. n -> S]: IsInjective(f)
  <2>1. PICK f: f \in Bijection(1 .. n, S)
    BY <1>1, Zenon DEF ExistsBijection
  <2>2. f \in [1 .. n -> S] /\ IsInjective(f)
    BY <2>1 DEF Bijection, Injection
  <2>. QED
    BY <2>2
<1>3. s \in [1 .. n -> S] /\ IsInjective(s)
  BY <1>2, Zenon DEF SetToSeq
<1>. HIDE DEF s
<1>4. DOMAIN s = 1 .. n
  BY <1>3
<1>5. IsSequence(s) /\ Len(s) = n
  BY <1>1, <1>3, <1>4, SequenceOf
<1>6. Distinct(s)
  BY <1>3 DEF Distinct, IsInjective
<1>7. ToSet(s) = S
  <2>1. IsFiniteSet(1 .. n) /\ Cardinality(1 .. n) = n
    BY <1>1, FS_Interval
  <2>2. s \in Injection(1 .. n, S)
    BY <1>3 DEF Injection
  <2>3. s \in Surjection(1 .. n, S)
    BY <2>1, <2>2, FS_Injection
  <2>4. \A t \in S: \E k \in 1 .. n: s[k] = t
    BY <2>3 DEF Surjection
  <2>. QED
    BY <1>3, <1>4, <2>4 DEF ToSet
<1>. QED
  BY <1>1, <1>5, <1>6, <1>7 DEF s

\* The first of them is dealt with.
LEMMA TailInSequence ==
  ASSUME NEW s, IsSequence(s), Distinct(s), s # <<>>
  PROVE  /\ IsSequence(Tail(s))
         /\ Distinct(Tail(s))
         /\ Len(Tail(s)) = Len(s) - 1
         /\ Len(s) \in Nat
         /\ ToSet(Tail(s)) = ToSet(s) \ {Head(s)}
         /\ Head(s) \in ToSet(s)
<1>1. s \in Seq(ToSet(s))
  BY DEF IsSequence
<1>2. /\ Len(s) \in Nat /\ Len(s) # 0
      /\ DOMAIN s = 1 .. Len(s)
  BY <1>1, LenProperties, EmptySeq
<1>3. /\ Tail(s) \in Seq(ToSet(s))
      /\ Len(Tail(s)) = Len(s) - 1
      /\ \A i \in 1 .. Len(s) - 1: Tail(s)[i] = s[i + 1]
      /\ Head(s) = s[1]
  BY <1>1, HeadTailProperties
<1>4. DOMAIN Tail(s) = 1 .. Len(s) - 1
  BY <1>3, LenProperties
<1>5. Distinct(Tail(s))
  <2>1. ASSUME NEW i \in 1 .. Len(s) - 1, NEW k \in 1 .. Len(s) - 1,
               Tail(s)[i] = Tail(s)[k]
        PROVE  i = k
    <3>1. /\ i + 1 \in DOMAIN s /\ k + 1 \in DOMAIN s
          /\ s[i + 1] = s[k + 1]
      BY <1>2, <1>3, <2>1
    <3>2. i + 1 = k + 1
      BY <3>1 DEF Distinct
    <3>. QED
      BY <1>2, <3>2
  <2>. QED
    BY <1>4, <2>1 DEF Distinct
<1>6. ToSet(Tail(s)) = ToSet(s) \ {Head(s)}
  <2>1. ASSUME NEW i \in 1 .. Len(s) - 1
        PROVE  Tail(s)[i] \in ToSet(s) \ {Head(s)}
    <3>1. i + 1 \in DOMAIN s /\ 1 \in DOMAIN s /\ i + 1 # 1
      BY <1>2
    <3>2. s[i + 1] # s[1]
      BY <3>1 DEF Distinct
    <3>. QED
      BY <1>3, <3>1, <3>2 DEF ToSet
  <2>2. ASSUME NEW i \in 1 .. Len(s), s[i] # s[1]
        PROVE  \E k \in 1 .. Len(s) - 1: Tail(s)[k] = s[i]
    <3>1. i - 1 \in 1 .. Len(s) - 1 /\ (i - 1) + 1 = i
      BY <1>2, <2>2
    <3>2. Tail(s)[i - 1] = s[(i - 1) + 1]
      BY <1>3, <3>1
    <3>. QED
      BY <3>1, <3>2
  <2>3. ToSet(Tail(s)) = {Tail(s)[i]: i \in 1 .. Len(s) - 1}
    BY <1>4 DEF ToSet
  <2>4. ToSet(s) = {s[i]: i \in 1 .. Len(s)} /\ Head(s) = s[1]
    BY <1>2, <1>3 DEF ToSet
  <2>5. ToSet(Tail(s)) \subseteq ToSet(s) \ {Head(s)}
    BY <2>1, <2>3
  <2>6. ToSet(s) \ {Head(s)} \subseteq ToSet(Tail(s))
    BY <2>2, <2>3, <2>4
  <2>. QED
    BY <2>5, <2>6
<1>7. Head(s) \in ToSet(s)
  BY <1>2, <1>3 DEF ToSet
<1>. QED
  BY <1>2, <1>3, <1>5, <1>6, <1>7, SequenceOver

\* writeToFs: what is written of an entry so far is at the beginning of the
\* file, whatever was there.
LEMMA OverlayStarts ==
  ASSUME NEW old, NEW new, IsSequence(old.cells), IsSequence(new.cells),
         NEW n \in Nat, n <= Len(new.cells)
  PROVE  /\ IsSequence(Overlay(old, new, n).cells)
         /\ Starts(Overlay(old, new, n).cells, new.cells, n)
         /\ Overlay(old, new, n) = new \/ Overlay(old, new, n).as # "pbo"
         /\ ToSet(Overlay(old, new, n).cells)
              \subseteq ToSet(new.cells) \union ToSet(old.cells)
         /\ \/ Overlay(old, new, n) = new
            \/ Overlay(old, new, n) = Bytes(Overlay(old, new, n).cells)
<1>. DEFINE s == new.cells
            t == old.cells
            S == ToSet(s) \union ToSet(t)
            front == SubSeq(s, 1, n)
            rest == SubSeq(t, n + 1, Len(t))
            cells == front \o rest
<1>1. s \in Seq(S) /\ t \in Seq(S)
  BY SeqMonotonic DEF IsSequence
<1>2. Len(s) \in Nat /\ Len(t) \in Nat /\ DOMAIN s = 1 .. Len(s)
  BY <1>1, LenProperties
<1>. HIDE DEF s, t, S
<1>3. /\ front \in Seq(S)
      /\ Len(front) = n
      /\ \A k \in 1 .. n: front[k] = s[k]
  <2>1. n <= Len(s)
    BY DEF s
  <2>2. CASE n = 0
    BY <1>1, <1>2, <2>2, SubSeqProperties, EmptySeq
  <2>3. CASE n # 0
    <3>1. /\ SubSeq(s, 1, n) \in Seq(S)
          /\ Len(SubSeq(s, 1, n)) = IF 1 <= n THEN n - 1 + 1 ELSE 0
          /\ \A i \in 1 .. n - 1 + 1: SubSeq(s, 1, n)[i] = s[1 + i - 1]
      BY <1>1, <1>2, <2>1, <2>3, SubSeqProperties
    <3>. QED
      BY <2>3, <3>1
  <2>. QED
    BY <2>2, <2>3
<1>4. rest \in Seq(S)
  <2>1. CASE n + 1 <= Len(t)
    BY <1>1, <1>2, <2>1, SubSeqProperties
  <2>2. CASE ~(n + 1 <= Len(t))
    BY <1>1, <1>2, <2>2, SubSeqProperties, EmptySeq
  <2>. QED
    BY <2>1, <2>2
<1>. HIDE DEF front, rest
<1>5. /\ cells \in Seq(S)
      /\ Len(cells) = n + Len(rest)
      /\ Len(rest) \in Nat
      /\ \A k \in 1 .. n: cells[k] = s[k]
  <2>1. /\ cells \in Seq(S)
        /\ Len(cells) = Len(front) + Len(rest)
        /\ \A i \in 1 .. Len(front) + Len(rest):
             cells[i] = IF i <= Len(front) THEN front[i] ELSE rest[i - Len(front)]
    BY <1>3, <1>4, ConcatProperties
  <2>2. Len(rest) \in Nat
    BY <1>4, LenProperties
  <2>. QED
    BY <1>3, <2>1, <2>2
<1>. HIDE DEF cells
<1>6. IsSequence(cells) /\ Starts(cells, s, n)
  <2>1. IsSequence(cells)
    BY <1>5, SequenceOver
  <2>. QED
    BY <1>5, <2>1 DEF Starts
<1>7. Overlay(old, new, n) = IF cells = s THEN new ELSE Bytes(cells)
  BY DEF Overlay, cells, front, rest, s, t
<1>8. Bytes(cells).cells = cells /\ Bytes(cells).as = "bytes"
  BY DEF Bytes
<1>9. ToSet(cells) \subseteq ToSet(s) \union ToSet(t)
  <2>1. \A i \in DOMAIN cells: cells[i] \in S
    BY <1>5
  <2>2. \A x \in ToSet(cells): x \in S
    BY <2>1 DEF ToSet
  <2>. QED
    BY <2>2 DEF S
<1>10. ToSet(s) \subseteq ToSet(s) \union ToSet(t)
  OBVIOUS
<1>. DEFINE o == Overlay(old, new, n)
<1>11. o = new \/ (o = Bytes(cells) /\ o.cells = cells /\ o.as = "bytes")
  BY <1>7, <1>8
<1>. HIDE DEF o
<1>12. CASE o = new
  <2>1. cells = s \/ o.cells = s
    BY <1>12 DEF s
  <2>2. IsSequence(o.cells) /\ Starts(o.cells, s, n)
    <3>1. o.cells = s
      BY <1>12 DEF s
    <3>2. IsSequence(s) /\ Len(s) \in Nat
      BY <1>1, <1>2 DEF s
    <3>3. n <= Len(s)
      BY DEF s
    <3>. QED
      BY <3>1, <3>2, <3>3 DEF Starts
  <2>3. o.cells = s
    BY <1>12 DEF s
  <2>. QED
    BY <1>10, <1>12, <2>2, <2>3 DEF s, t, o
<1>13. CASE o = Bytes(cells) /\ o.cells = cells /\ o.as = "bytes"
  BY <1>6, <1>9, <1>13 DEF s, t, o
<1>. QED
  BY <1>11, <1>12, <1>13

\* What begins with all of an entry has it as a prefix.
LEMMA StartsWithAll ==
  ASSUME NEW s, NEW t, IsSequence(s), IsSequence(t), Starts(t, s, Len(s))
  PROVE  IsPrefix(s, t)
<1>. DEFINE S == ToSet(s) \union ToSet(t)
            n == Len(s)
<1>1. s \in Seq(S) /\ t \in Seq(S)
  BY SeqMonotonic DEF IsSequence
<1>2. n \in Nat /\ Len(t) \in Nat /\ n <= Len(t)
        /\ \A k \in 1 .. n: t[k] = s[k]
  BY <1>1, LenProperties DEF Starts
<1>. HIDE DEF S, n
<1>3. SubSeq(s, 1, n) = SubSeq(t, 1, n)
  <2>1. SubSeq(s, 1, n) = [i \in 1 .. n |-> s[i]]
    BY <1>1, <1>2, SMT
  <2>2. SubSeq(t, 1, n) = [i \in 1 .. n |-> t[i]]
    BY <1>1, <1>2, SMT
  <2>. QED
    BY <1>2, <2>1, <2>2
<1>. QED
  BY <1>2, <1>3 DEF IsPrefix, n

-----------------------------------------------------------------------------
(* What the steps of a job do to it and to the disk. *)

\* The job changes in these fields at most, no other job does, and the command
\* is the same.
Keeps(j, fields) ==
  /\ DOMAIN jobs' = DOMAIN jobs
  /\ \A i \in DOMAIN jobs: i # j => jobs'[i] = jobs[i]
  /\ \A f \in JobFields \ fields: jobs'[j][f] = jobs[j][f]
  /\ UNCHANGED <<mode, command, answer, stopped>>

Moves(j, from, to) == jobs[j].stage = from /\ jobs'[j].stage = to

\* A stage that ends in an error; the file of the entry may be there by then.
Failed(j) ==
  /\ jobs[j].stage \notin {"waiting", "write", "ended"}
  /\ Moves(j, jobs[j].stage, "ended")
  /\ Keeps(j, {"stage", "quiet"})
  /\ jobs'[j].quiet = FALSE
  /\ \/ disk' = disk
     \/ jobs[j].stage = "open" /\ disk' = Opened(disk, jobs[j].path)

\* One stage follows the other.
Passed(j, from, to) ==
  /\ Moves(j, from, to)
  /\ Keeps(j, {"stage"})
  /\ disk' = disk

\* And a path is taken in hand.
Named(j, from, to) ==
  /\ Moves(j, from, to)
  /\ Keeps(j, {"stage", "path"})
  /\ IsFilePath(jobs'[j].path)
  /\ disk' = disk

Prepared(j) ==
  /\ Moves(j, "unpack", "entry")
  /\ Keeps(j, {"stage", "document", "folder", "todo", "size", "quiet"})
  /\ disk[command.inputs[j].path].as = "pbo"
  /\ jobs'[j].document = Value(disk[command.inputs[j].path])
  /\ jobs'[j].todo = SetToSeq(DOMAIN jobs'[j].document.files)
  /\ jobs'[j].size = Cardinality(DOMAIN jobs'[j].document.files)
  /\ disk' = disk

EntriesThrough(j) ==
  Passed(j, "entry", "config") /\ (stopped \/ jobs[j].todo = <<>>)

EntrySkipped(j) ==
  /\ jobs[j].stage \in {"entry", "open"} /\ jobs[j].todo # <<>>
  /\ Moves(j, jobs[j].stage, "entry")
  /\ Keeps(j, {"stage", "quiet", "progress", "todo"})
  /\ jobs'[j].quiet = FALSE
  /\ jobs'[j].progress = jobs[j].progress + 1
  /\ jobs'[j].todo = Tail(jobs[j].todo)
  /\ disk' = disk

EntryNamed(j) ==
  /\ Named(j, "entry", "open") /\ jobs[j].todo # <<>>
  /\ \E name \in Sanitized(Head(jobs[j].todo)):
       jobs'[j].path = Resolve(disk, Append(jobs[j].folder, name))

EntryLeft(j) ==
  /\ Moves(j, "open", "entry") /\ stopped
  /\ Keeps(j, {"stage", "todo"})
  /\ jobs'[j].todo = Tail(jobs[j].todo)
  /\ disk' = disk

EntryOpened(j) ==
  /\ Moves(j, "open", "write")
  /\ Keeps(j, {"stage", "at", "placed"})
  /\ jobs'[j].at = 0
  /\ jobs'[j].placed = Put(jobs[j].placed, Head(jobs[j].todo), jobs[j].path)
  /\ disk' = Opened(disk, jobs[j].path)

EntryInHand(j) == jobs[j].document.files[Head(jobs[j].todo)]

EntryGrown(j) ==
  /\ Moves(j, "write", "write")
  /\ Keeps(j, {"at"})
  /\ jobs[j].at # Len(EntryInHand(j).cells)
  /\ jobs'[j].at = jobs[j].at + 1
  /\ disk' = [disk EXCEPT ![jobs[j].path] = Overlay(@, EntryInHand(j), jobs[j].at + 1)]

EntryEnded(j) ==
  /\ Moves(j, "write", "entry")
  /\ stopped \/ jobs[j].at = Len(EntryInHand(j).cells)
  /\ Keeps(j, {"stage", "progress", "todo"})
  /\ jobs'[j].progress = jobs[j].progress + 1
  /\ jobs'[j].todo = Tail(jobs[j].todo)
  /\ disk' = disk

ConfigNamed(j) ==
  /\ Named(j, "config", "save config")
  /\ jobs'[j].path = Resolve(disk, Append(jobs[j].folder, PboJsonName))
  /\ jobs'[j].path \in DOMAIN disk =>
       jobs'[j].path = Append(jobs[j].folder, PboJsonName)

ConfigSaved(j) ==
  /\ Moves(j, "save config", "ended")
  /\ Keeps(j, {"stage"})
  /\ disk' = Put(disk, jobs[j].path, JsonFile(ExtractFrom(jobs[j].document)))

PackGivenUp(j) == Passed(j, "collect", "ended") /\ stopped

FilesFound(j) ==
  [f \in {Last(p): p \in FilesIn(disk, command.inputs[j].path)} |->
     disk[Append(command.inputs[j].path, f)]]

Collected(j) ==
  /\ Moves(j, "collect", "open pbo")
  /\ Keeps(j, {"stage", "document", "size"})
  /\ jobs'[j].document = Apply(FilesFound(j)).doc
  /\ disk' = disk

PboWritten(j) ==
  /\ Moves(j, "write pbo", "ended")
  /\ Keeps(j, {"stage", "progress"})
  /\ jobs'[j].progress = jobs[j].size
  /\ \E content: /\ disk' = Put(disk, jobs[j].path, content)
                 /\ \/ content = PboFile(jobs[j].document)
                    \/ content = Bytes(<<"mixed">>) /\ Shared(j)

PboNotWritten(j) ==
  /\ Moves(j, "write pbo", "ended")
  /\ Keeps(j, {"stage", "quiet"})
  /\ jobs'[j].quiet = stopped
  /\ disk' = disk

UnpackEffect(j) ==
  \/ Failed(j)
  \/ Prepared(j)
  \/ EntriesThrough(j) \/ EntrySkipped(j) \/ EntryNamed(j)
  \/ EntryLeft(j) \/ EntryOpened(j) \/ EntryGrown(j) \/ EntryEnded(j)
  \/ ConfigNamed(j) \/ ConfigSaved(j)

PackEffect(j) ==
  \/ Failed(j)
  \/ Named(j, "pack", "collect")
  \/ PackGivenUp(j) \/ Collected(j)
  \/ Passed(j, "open pbo", "write pbo")
  \/ PboWritten(j) \/ PboNotWritten(j)

Effect(j) ==
  \/ Passed(j, "waiting", command.verb) /\ command # NoCommand
  \/ UnpackEffect(j)
  \/ PackEffect(j)

\* What an update keeps.
LEMMA ChangeKeeps ==
  ASSUME JobsInv, NEW j \in DOMAIN jobs, NEW fields, Change(j, fields),
         Stay \/ Raise(j), DOMAIN fields \subseteq JobFields
  PROVE  /\ Keeps(j, DOMAIN fields)
         /\ \A f \in DOMAIN fields: jobs'[j][f] = fields[f]
<1>1. UNCHANGED <<mode, command, answer, stopped>>
  BY DEF Stay, Raise, commandVars
<1>. QED
  BY <1>1, ChangeIsLocal DEF Keeps

\* The fields of a job.
LEMMA AllFields ==
  JobFields = {"stage", "document", "folder", "todo", "path", "at", "placed",
               "progress", "size", "quiet"}
BY DEF JobFields, NewJob

\* A job that ends in an error.
LEMMA EndFails ==
  ASSUME JobsInv, NEW j \in DOMAIN jobs,
         (Fail(j) /\ Stay) \/ Raise(j),
         jobs[j].stage \notin {"waiting", "write", "ended"},
         disk' = disk \/ (jobs[j].stage = "open" /\ disk' = Opened(disk, jobs[j].path))
  PROVE  Failed(j)
<1>. DEFINE fields == [stage |-> "ended", quiet |-> FALSE]
<1>1. Change(j, fields) /\ (Stay \/ Raise(j))
  BY DEF Fail, Raise
<1>2. /\ DOMAIN fields = {"stage", "quiet"}
      /\ fields["stage"] = "ended" /\ fields["quiet"] = FALSE
      /\ DOMAIN fields \subseteq JobFields
  BY AllFields
<1>. HIDE DEF fields
<1>. QED
  BY <1>1, <1>2, ChangeKeeps DEF Failed, Moves

\* A stage that is passed.
LEMMA StagePasses ==
  ASSUME JobsInv, NEW j \in DOMAIN jobs, NEW to, Change(j, [stage |-> to]), Stay,
         UNCHANGED disk
  PROVE  Passed(j, jobs[j].stage, to)
<1>. DEFINE fields == [stage |-> to]
<1>1. /\ DOMAIN fields = {"stage"}
      /\ fields["stage"] = to
      /\ DOMAIN fields \subseteq JobFields
  BY AllFields
<1>2. Change(j, fields)
  OBVIOUS
<1>. HIDE DEF fields
<1>. QED
  BY <1>1, <1>2, ChangeKeeps DEF Passed, Moves

\* A path that is taken in hand.
LEMMA PathIsNamed ==
  ASSUME JobsInv, NEW j \in DOMAIN jobs, NEW to, NEW path,
         Change(j, [stage |-> to, path |-> path]), Stay, UNCHANGED disk,
         IsFilePath(path)
  PROVE  Named(j, jobs[j].stage, to) /\ jobs'[j].path = path
<1>. DEFINE fields == [stage |-> to, path |-> path]
<1>1. /\ DOMAIN fields = {"stage", "path"}
      /\ fields["stage"] = to /\ fields["path"] = path
      /\ DOMAIN fields \subseteq JobFields
  BY AllFields
<1>2. Change(j, fields)
  OBVIOUS
<1>. HIDE DEF fields
<1>. QED
  BY <1>1, <1>2, ChangeKeeps DEF Named, Moves

\* resolvePotentialConflicts returns the path of a file.
LEMMA ResolvedIsPath ==
  ASSUME NEW folder, IsSequence(folder), NEW name,
         Resolve(disk, Append(folder, name)) # NoPath
  PROVE  IsFilePath(Resolve(disk, Append(folder, name)))
BY ResolvedIsBeside DEF IsFilePath, NoPath

\* A thread takes a job.
LEMMA PickJobEffect ==
  ASSUME JobsInv, NEW j \in DOMAIN jobs, PickJob(j)
  PROVE  Effect(j)
<1>1. /\ Change(j, [stage |-> command.verb]) /\ Stay /\ UNCHANGED disk
      /\ jobs[j].stage = "waiting" /\ command # NoCommand
  BY DEF PickJob, Reaches
<1>2. Passed(j, "waiting", command.verb)
  BY <1>1, StagePasses
<1>. QED
  BY <1>1, <1>2 DEF Effect

\* UnpackTask reads the headers.
LEMMA PrepareUnpackEffect ==
  ASSUME JobsInv, NEW j \in DOMAIN jobs, PrepareUnpack(j)
  PROVE  UnpackEffect(j)
<1>. DEFINE content == disk[command.inputs[j].path]
            doc == Value(content)
            fields ==
              [stage |-> "entry", document |-> doc, folder |-> PboDir(j, doc),
               todo |-> SetToSeq(DOMAIN doc.files),
               size |-> Cardinality(DOMAIN doc.files),
               quiet |-> "--use-pbo-prefix" \notin command.options
                           \/ PrefixHeaderOf(doc) # <<>>]
<1>1. UNCHANGED disk /\ Stay /\ jobs[j].stage = "unpack"
  BY DEF PrepareUnpack, Reaches
<1>2. Fail(j) \/ (content.as = "pbo" /\ Change(j, fields))
  BY DEF PrepareUnpack
<1>3. ASSUME content.as = "pbo", Change(j, fields)
      PROVE  Prepared(j)
  <2>1. /\ DOMAIN fields = {"stage", "document", "folder", "todo", "size", "quiet"}
        /\ fields["stage"] = "entry" /\ fields["document"] = doc
        /\ fields["todo"] = SetToSeq(DOMAIN doc.files)
        /\ fields["size"] = Cardinality(DOMAIN doc.files)
        /\ DOMAIN fields \subseteq JobFields
    BY AllFields
  <2>. HIDE DEF fields
  <2>2. /\ Keeps(j, DOMAIN fields)
        /\ \A f \in DOMAIN fields: jobs'[j][f] = fields[f]
    BY <1>1, <1>3, <2>1, ChangeKeeps
  <2>. QED
    BY <1>1, <1>3, <2>1, <2>2 DEF Prepared, Moves
<1>. HIDE DEF fields, content
<1>. QED
  BY <1>1, <1>2, <1>3, EndFails DEF UnpackEffect

\* An entry that is passed over, with a message.
LEMMA EntryIsSkipped ==
  ASSUME JobsInv, NEW j \in DOMAIN jobs,
         jobs[j].stage \in {"entry", "open"}, jobs[j].todo # <<>>,
         Stay, UNCHANGED disk,
         \/ /\ jobs[j].stage = "entry"
            /\ Change(j, [quiet |-> FALSE, progress |-> jobs[j].progress + 1,
                          todo |-> Tail(jobs[j].todo)])
         \/ Change(j, [stage |-> "entry", quiet |-> FALSE,
                       progress |-> jobs[j].progress + 1,
                       todo |-> Tail(jobs[j].todo)])
  PROVE  EntrySkipped(j)
<1>. DEFINE at == [quiet |-> FALSE, progress |-> jobs[j].progress + 1,
                   todo |-> Tail(jobs[j].todo)]
            to == [stage |-> "entry", quiet |-> FALSE,
                   progress |-> jobs[j].progress + 1,
                   todo |-> Tail(jobs[j].todo)]
<1>1. \/ Change(j, at) /\ jobs[j].stage = "entry"
      \/ Change(j, to)
  OBVIOUS
<1>2. /\ DOMAIN at = {"quiet", "progress", "todo"}
      /\ at["quiet"] = FALSE /\ at["progress"] = jobs[j].progress + 1
      /\ at["todo"] = Tail(jobs[j].todo)
      /\ DOMAIN at \subseteq JobFields
  BY AllFields
<1>3. /\ DOMAIN to = {"stage", "quiet", "progress", "todo"}
      /\ to["stage"] = "entry" /\ to["quiet"] = FALSE
      /\ to["progress"] = jobs[j].progress + 1
      /\ to["todo"] = Tail(jobs[j].todo)
      /\ DOMAIN to \subseteq JobFields
  BY AllFields
<1>. HIDE DEF at, to
<1>4. CASE Change(j, at) /\ jobs[j].stage = "entry"
  <2>1. /\ Keeps(j, DOMAIN at)
        /\ \A f \in DOMAIN at: jobs'[j][f] = at[f]
    BY <1>2, <1>4, ChangeKeeps
  <2>2. jobs'[j].stage = "entry"
    BY <1>2, <1>4, <2>1, AllFields DEF Keeps
  <2>. QED
    BY <1>2, <1>4, <2>1, <2>2 DEF EntrySkipped, Moves, Keeps
<1>5. CASE Change(j, to)
  <2>1. /\ Keeps(j, DOMAIN to)
        /\ \A f \in DOMAIN to: jobs'[j][f] = to[f]
    BY <1>3, <1>5, ChangeKeeps
  <2>. QED
    BY <1>3, <2>1 DEF EntrySkipped, Moves
<1>. QED
  BY <1>1, <1>4, <1>5

\* The path of an entry is resolved.
LEMMA ResolveEntryEffect ==
  ASSUME JobsInv, FolderInv, NEW j \in DOMAIN jobs, ResolveEntry(j)
  PROVE  UnpackEffect(j)
<1>. DEFINE folder == jobs[j].folder
<1>1. UNCHANGED disk /\ jobs[j].stage = "entry" /\ IsSequence(folder)
  BY DEF ResolveEntry, Reaches, FolderInv
<1>2. \/ /\ Change(j, [stage |-> "config"]) /\ Stay
         /\ stopped \/ jobs[j].todo = <<>>
      \/ Raise(j)
      \/ /\ jobs[j].todo # <<>>
         /\ Change(j, [quiet |-> FALSE, progress |-> jobs[j].progress + 1,
                       todo |-> Tail(jobs[j].todo)])
         /\ Stay
      \/ \E name \in Sanitized(Head(jobs[j].todo)):
           /\ jobs[j].todo # <<>>
           /\ Resolve(disk, Append(folder, name)) # NoPath
           /\ Change(j, [stage |-> "open",
                         path |-> Resolve(disk, Append(folder, name))])
           /\ Stay
  BY Zenon DEF ResolveEntry
<1>. HIDE DEF folder
<1>3. ASSUME Change(j, [stage |-> "config"]), Stay,
             stopped \/ jobs[j].todo = <<>>
      PROVE  EntriesThrough(j)
  BY <1>1, <1>3, StagePasses DEF EntriesThrough
<1>4. ASSUME jobs[j].todo # <<>>, Stay,
             Change(j, [quiet |-> FALSE, progress |-> jobs[j].progress + 1,
                        todo |-> Tail(jobs[j].todo)])
      PROVE  EntrySkipped(j)
  BY <1>1, <1>4, EntryIsSkipped
<1>5. ASSUME NEW name \in Sanitized(Head(jobs[j].todo)), jobs[j].todo # <<>>, Stay,
             Resolve(disk, Append(folder, name)) # NoPath,
             Change(j, [stage |-> "open",
                        path |-> Resolve(disk, Append(folder, name))])
      PROVE  EntryNamed(j)
  <2>1. IsFilePath(Resolve(disk, Append(folder, name)))
    BY <1>1, <1>5, ResolvedIsPath
  <2>2. /\ Named(j, "entry", "open")
        /\ jobs'[j].path = Resolve(disk, Append(folder, name))
    BY <1>1, <1>5, <2>1, PathIsNamed
  <2>. QED
    BY <1>5, <2>2 DEF EntryNamed, folder
<1>6. Raise(j) => Failed(j)
  BY <1>1, EndFails
<1>. QED
  BY <1>2, <1>3, <1>4, <1>5, <1>6 DEF UnpackEffect

\* The file of an entry is opened.
LEMMA OpenEntryEffect ==
  ASSUME JobsInv, NEW j \in DOMAIN jobs, jobs[j].todo # <<>>, OpenEntry(j)
  PROVE  UnpackEffect(j)
<1>. DEFINE left == [stage |-> "entry", todo |-> Tail(jobs[j].todo)]
            skipped == [stage |-> "entry", quiet |-> FALSE,
                        progress |-> jobs[j].progress + 1,
                        todo |-> Tail(jobs[j].todo)]
            placed == Put(jobs[j].placed, Head(jobs[j].todo), jobs[j].path)
            opened == [stage |-> "write", at |-> 0, placed |-> placed]
<1>1. jobs[j].stage = "open"
  BY DEF OpenEntry, Reaches
<1>2. \/ stopped /\ Change(j, left) /\ UNCHANGED disk /\ Stay
      \/ Change(j, skipped) /\ UNCHANGED disk /\ Stay
      \/ disk' = Opened(disk, jobs[j].path) /\ Change(j, opened) /\ Stay
      \/ disk' = Opened(disk, jobs[j].path) /\ Raise(j)
  BY DEF OpenEntry
<1>3. /\ DOMAIN left = {"stage", "todo"}
      /\ left["stage"] = "entry" /\ left["todo"] = Tail(jobs[j].todo)
      /\ DOMAIN left \subseteq JobFields
  BY AllFields
<1>4. /\ DOMAIN opened = {"stage", "at", "placed"}
      /\ opened["stage"] = "write" /\ opened["at"] = 0 /\ opened["placed"] = placed
      /\ DOMAIN opened \subseteq JobFields
  BY AllFields
<1>5. Change(j, skipped) /\ UNCHANGED disk /\ Stay => EntrySkipped(j)
  BY <1>1, EntryIsSkipped
<1>. HIDE DEF left, opened, skipped, placed
<1>6. ASSUME stopped, Change(j, left), UNCHANGED disk, Stay
      PROVE  EntryLeft(j)
  <2>1. /\ Keeps(j, DOMAIN left)
        /\ \A f \in DOMAIN left: jobs'[j][f] = left[f]
    BY <1>3, <1>6, ChangeKeeps
  <2>. QED
    BY <1>1, <1>3, <1>6, <2>1 DEF EntryLeft, Moves
<1>7. ASSUME disk' = Opened(disk, jobs[j].path), Change(j, opened), Stay
      PROVE  EntryOpened(j)
  <2>1. /\ Keeps(j, DOMAIN opened)
        /\ \A f \in DOMAIN opened: jobs'[j][f] = opened[f]
    BY <1>4, <1>7, ChangeKeeps
  <2>. QED
    BY <1>1, <1>4, <1>7, <2>1 DEF EntryOpened, Moves, placed
<1>8. disk' = Opened(disk, jobs[j].path) /\ Raise(j) => Failed(j)
  BY <1>1, EndFails
<1>. QED
  BY <1>2, <1>5, <1>6, <1>7, <1>8 DEF UnpackEffect

\* A buffer is written, or the entry is at its end.
LEMMA WriteEntryEffect ==
  ASSUME JobsInv, NEW j \in DOMAIN jobs, WriteEntry(j)
  PROVE  UnpackEffect(j)
<1>. DEFINE done == [stage |-> "entry", progress |-> jobs[j].progress + 1,
                     todo |-> Tail(jobs[j].todo)]
            more == [at |-> jobs[j].at + 1]
            grown == [disk EXCEPT ![jobs[j].path] =
                                     Overlay(@, EntryInHand(j), jobs[j].at + 1)]
<1>1. jobs[j].stage = "write" /\ Stay
  BY DEF WriteEntry, Reaches
<1>2. \/ /\ stopped \/ jobs[j].at = Len(EntryInHand(j).cells)
         /\ Change(j, done)
         /\ UNCHANGED disk
      \/ /\ jobs[j].at # Len(EntryInHand(j).cells)
         /\ Change(j, more)
         /\ disk' = grown
  BY DEF WriteEntry, EntryInHand
<1>3. /\ DOMAIN done = {"stage", "progress", "todo"}
      /\ done["stage"] = "entry" /\ done["progress"] = jobs[j].progress + 1
      /\ done["todo"] = Tail(jobs[j].todo)
      /\ DOMAIN done \subseteq JobFields
  BY AllFields
<1>4. DOMAIN more = {"at"} /\ more["at"] = jobs[j].at + 1 /\ DOMAIN more \subseteq JobFields
  BY AllFields
<1>. HIDE DEF done, more, grown
<1>5. ASSUME stopped \/ jobs[j].at = Len(EntryInHand(j).cells),
             Change(j, done), UNCHANGED disk
      PROVE  EntryEnded(j)
  <2>1. /\ Keeps(j, DOMAIN done)
        /\ \A f \in DOMAIN done: jobs'[j][f] = done[f]
    BY <1>1, <1>3, <1>5, ChangeKeeps
  <2>. QED
    BY <1>1, <1>3, <1>5, <2>1 DEF EntryEnded, Moves
<1>6. ASSUME jobs[j].at # Len(EntryInHand(j).cells), Change(j, more), disk' = grown
      PROVE  EntryGrown(j)
  <2>1. /\ Keeps(j, DOMAIN more)
        /\ \A f \in DOMAIN more: jobs'[j][f] = more[f]
    BY <1>1, <1>4, <1>6, ChangeKeeps
  <2>2. jobs'[j].stage = "write"
    BY <1>1, <1>4, <2>1, AllFields DEF Keeps
  <2>. QED
    BY <1>1, <1>4, <1>6, <2>1, <2>2 DEF EntryGrown, Moves, grown
<1>. QED
  BY <1>2, <1>5, <1>6 DEF UnpackEffect

\* The path of pbo.json is resolved; one that is there is the one it is to have.
LEMMA ResolveConfigEffect ==
  ASSUME KeepInv, FolderInv, NEW j \in DOMAIN jobs, ResolveConfig(j)
  PROVE  UnpackEffect(j)
<1>. DEFINE folder == jobs[j].folder
            desired == Append(folder, PboJsonName)
            path == Resolve(disk, desired)
<1>1. /\ UNCHANGED disk /\ jobs[j].stage = "config" /\ IsSequence(folder)
      /\ JobsInv
  BY DEF ResolveConfig, Reaches, FolderInv, KeepInv
<1>2. \/ (Fail(j) /\ Stay) \/ Raise(j)
      \/ /\ ~NoCopyFree(disk, desired) /\ path # NoPath
         /\ Change(j, [stage |-> "save config", path |-> path]) /\ Stay
  BY DEF ResolveConfig
<1>3. ASSUME ~NoCopyFree(disk, desired), path # NoPath,
             Change(j, [stage |-> "save config", path |-> path]), Stay
      PROVE  ConfigNamed(j)
  <2>1. IsFilePath(path)
    BY <1>1, <1>3, ResolvedIsPath
  <2>2. path \in DOMAIN disk => path = desired
    <3>1. CASE mode = "Overwrite"
      BY <3>1 DEF Resolve
    <3>2. CASE mode # "Overwrite"
      <4>1. mode \in {"Abort", "Copy"}
        BY <3>2 DEF KeepInv, ModeInv
      <4>. HIDE DEF desired
      <4>2. ~NoCopyFree(disk, desired) /\ Resolve(disk, desired) # NoPath
        BY <1>3
      <4>3. Resolve(disk, desired) \notin DOMAIN disk
        BY <4>1, <4>2, ResolvedIsFree
      <4>. QED
        BY <4>3
    <3>. QED
      BY <3>1, <3>2
  <2>. HIDE DEF path
  <2>3. Named(j, "config", "save config") /\ jobs'[j].path = path
    BY <1>1, <1>3, <2>1, PathIsNamed
  <2>. QED
    BY <2>2, <2>3 DEF ConfigNamed, path, desired, folder
<1>. HIDE DEF path, desired
<1>. QED
  BY <1>1, <1>2, <1>3, EndFails DEF UnpackEffect

\* pbo.json is saved.
LEMMA SaveConfigEffect ==
  ASSUME JobsInv, NEW j \in DOMAIN jobs, SaveConfig(j)
  PROVE  UnpackEffect(j)
<1>. DEFINE fields == [stage |-> "ended"]
            saved == Put(disk, jobs[j].path, JsonFile(ExtractFrom(jobs[j].document)))
<1>1. jobs[j].stage = "save config" /\ Stay
  BY DEF SaveConfig, Reaches
<1>2. (Fail(j) /\ UNCHANGED disk) \/ (Change(j, fields) /\ disk' = saved)
  BY DEF SaveConfig
<1>3. /\ DOMAIN fields = {"stage"} /\ fields["stage"] = "ended"
      /\ DOMAIN fields \subseteq JobFields
  BY AllFields
<1>. HIDE DEF fields, saved
<1>4. ASSUME Change(j, fields), disk' = saved
      PROVE  ConfigSaved(j)
  <2>1. /\ Keeps(j, DOMAIN fields)
        /\ \A f \in DOMAIN fields: jobs'[j][f] = fields[f]
    BY <1>1, <1>3, <1>4, ChangeKeeps
  <2>. QED
    BY <1>1, <1>3, <1>4, <2>1 DEF ConfigSaved, Moves, saved
<1>. QED
  BY <1>1, <1>2, <1>4, EndFails DEF UnpackEffect

\* The path of the PBO is resolved.
LEMMA ResolvePboEffect ==
  ASSUME JobsInv, GivenInv, NEW j \in DOMAIN jobs, ResolvePbo(j)
  PROVE  PackEffect(j)
<1>. DEFINE name == [Last(command.inputs[j].path) EXCEPT !.ext = "pbo"]
            path == Resolve(disk, Append(Target(j), name))
<1>1. UNCHANGED disk /\ jobs[j].stage = "pack" /\ IsSequence(Target(j))
  BY TargetIsSequence DEF ResolvePbo, Reaches
<1>2. \/ (Fail(j) /\ Stay) \/ Raise(j)
      \/ path # NoPath /\ Change(j, [stage |-> "collect", path |-> path]) /\ Stay
  BY DEF ResolvePbo
<1>. HIDE DEF name
<1>3. path # NoPath => IsFilePath(path)
  BY <1>1, ResolvedIsPath
<1>. HIDE DEF path
<1>4. path # NoPath /\ Change(j, [stage |-> "collect", path |-> path]) /\ Stay
        => Named(j, "pack", "collect")
  BY <1>1, <1>3, PathIsNamed
<1>. QED
  BY <1>1, <1>2, <1>4, EndFails DEF PackEffect

\* The files to be packed are collected.
LEMMA CollectEffect ==
  ASSUME JobsInv, NEW j \in DOMAIN jobs, Collect(j)
  PROVE  PackEffect(j)
<1>. DEFINE doc == Apply(FilesFound(j)).doc
            fields(n) == [stage |-> "open pbo", document |-> doc, size |-> n]
<1>1. UNCHANGED disk /\ jobs[j].stage = "collect"
  BY DEF Collect, Reaches
<1>2. \/ (Fail(j) /\ Stay) \/ Raise(j)
      \/ stopped /\ Change(j, [stage |-> "ended"]) /\ Stay
      \/ \E n: Change(j, fields(n)) /\ Stay
  BY Zenon DEF Collect, FilesFound
<1>3. stopped /\ Change(j, [stage |-> "ended"]) /\ Stay => PackGivenUp(j)
  BY <1>1, StagePasses DEF PackGivenUp
<1>4. ASSUME NEW n, Change(j, fields(n)), Stay
      PROVE  Collected(j)
  <2>1. /\ DOMAIN fields(n) = {"stage", "document", "size"}
        /\ fields(n)["stage"] = "open pbo" /\ fields(n)["document"] = doc
        /\ DOMAIN fields(n) \subseteq JobFields
    BY AllFields
  <2>. HIDE DEF fields
  <2>2. /\ Keeps(j, DOMAIN fields(n))
        /\ \A f \in DOMAIN fields(n): jobs'[j][f] = fields(n)[f]
    BY <1>4, <2>1, ChangeKeeps
  <2>. QED
    BY <1>1, <2>1, <2>2 DEF Collected, Moves
<1>. HIDE DEF fields, doc
<1>. QED
  BY <1>1, <1>2, <1>3, <1>4, EndFails DEF PackEffect

\* The writer of the PBO begins.
LEMMA OpenPboEffect ==
  ASSUME JobsInv, NEW j \in DOMAIN jobs, OpenPbo(j)
  PROVE  PackEffect(j)
<1>1. /\ Change(j, [stage |-> "write pbo"]) /\ Stay /\ UNCHANGED disk
      /\ jobs[j].stage = "open pbo"
  BY DEF OpenPbo, Reaches
<1>. QED
  BY <1>1, StagePasses DEF PackEffect

\* The PBO is put in place, or not.
LEMMA WritePboEffect ==
  ASSUME JobsInv, NEW j \in DOMAIN jobs, WritePbo(j)
  PROVE  PackEffect(j)
<1>. DEFINE written == [stage |-> "ended", progress |-> jobs[j].size]
            unwritten == [stage |-> "ended", quiet |-> stopped]
<1>1. jobs[j].stage = "write pbo" /\ Stay
  BY DEF WritePbo, Reaches
<1>2. \/ /\ Change(j, written)
         /\ \E content: /\ disk' = Put(disk, jobs[j].path, content)
                        /\ \/ content = PboFile(jobs[j].document)
                           \/ content = Bytes(<<"mixed">>) /\ Shared(j)
      \/ Change(j, unwritten) /\ disk' = disk
  <2>. DEFINE contents == {PboFile(jobs[j].document)}
                            \union (IF Shared(j) THEN {Bytes(<<"mixed">>)} ELSE {})
  <2>1. \E content \in contents:
          \/ disk' = Put(disk, jobs[j].path, content) /\ Change(j, written)
          \/ UNCHANGED disk /\ Change(j, unwritten)
    BY Zenon DEF WritePbo
  <2>2. ASSUME NEW content \in contents
        PROVE  \/ content = PboFile(jobs[j].document)
               \/ content = Bytes(<<"mixed">>) /\ Shared(j)
    BY <2>2
  <2>. HIDE DEF contents, written, unwritten
  <2>. QED
    BY <2>1, <2>2
<1>3. /\ DOMAIN written = {"stage", "progress"}
      /\ written["stage"] = "ended" /\ written["progress"] = jobs[j].size
      /\ DOMAIN written \subseteq JobFields
  BY AllFields
<1>4. /\ DOMAIN unwritten = {"stage", "quiet"}
      /\ unwritten["stage"] = "ended" /\ unwritten["quiet"] = stopped
      /\ DOMAIN unwritten \subseteq JobFields
  BY AllFields
<1>. HIDE DEF written, unwritten
<1>5. ASSUME Change(j, written),
             \E content: /\ disk' = Put(disk, jobs[j].path, content)
                         /\ \/ content = PboFile(jobs[j].document)
                            \/ content = Bytes(<<"mixed">>) /\ Shared(j)
      PROVE  PboWritten(j)
  <2>1. /\ Keeps(j, DOMAIN written)
        /\ \A f \in DOMAIN written: jobs'[j][f] = written[f]
    BY <1>1, <1>3, <1>5, ChangeKeeps
  <2>. QED
    BY <1>1, <1>3, <1>5, <2>1 DEF PboWritten, Moves
<1>6. ASSUME Change(j, unwritten), disk' = disk
      PROVE  PboNotWritten(j)
  <2>1. /\ Keeps(j, DOMAIN unwritten)
        /\ \A f \in DOMAIN unwritten: jobs'[j][f] = unwritten[f]
    BY <1>1, <1>4, <1>6, ChangeKeeps
  <2>. QED
    BY <1>1, <1>4, <1>6, <2>1 DEF PboNotWritten, Moves
<1>. QED
  BY <1>2, <1>5, <1>6 DEF PackEffect

\* The steps of a job have these effects.
LEMMA StepHasEffect ==
  ASSUME KeepInv, GivenInv, FolderInv, TodoInv, NEW j \in DOMAIN jobs, JobStep(j)
  PROVE  Effect(j)
<1>1. JobsInv
  BY DEF KeepInv
<1>2. OpenEntry(j) => jobs[j].todo # <<>>
  BY DEF OpenEntry, Reaches, TodoInv, TodoOK
<1>. QED
  BY <1>1, <1>2, PickJobEffect, PrepareUnpackEffect, ResolveEntryEffect,
     OpenEntryEffect, WriteEntryEffect, ResolveConfigEffect, SaveConfigEffect,
     ResolvePboEffect, CollectEffect, OpenPboEffect, WritePboEffect
  DEF JobStep, UnpackStep, PackStep, Effect

-----------------------------------------------------------------------------
(* What the effects keep. *)

\* A job goes from one stage of the subcommand to another.
LEMMA StagesStay ==
  ASSUME CommandInv, StageInv, NEW j \in DOMAIN jobs, Effect(j)
  PROVE  StageInv'
<1>1. /\ DOMAIN jobs' = DOMAIN jobs
      /\ \A i \in DOMAIN jobs: i # j => jobs'[i] = jobs[i]
      /\ UNCHANGED command
  BY DEF Effect, UnpackEffect, PackEffect, Failed, Passed, Named, Prepared,
         EntriesThrough, EntrySkipped, EntryNamed, EntryLeft, EntryOpened,
         EntryGrown, EntryEnded, ConfigNamed, ConfigSaved, PackGivenUp,
         Collected, PboWritten, PboNotWritten, Keeps
<1>2. jobs[j].stage \in IF command.verb = "unpack" THEN UnpackStages ELSE PackStages
  BY DEF StageInv
<1>3. jobs'[j].stage \in IF command.verb = "unpack" THEN UnpackStages ELSE PackStages
  BY <1>2
  DEF Effect, UnpackEffect, PackEffect, Failed, Passed, Named, Prepared,
      EntriesThrough, EntrySkipped, EntryNamed, EntryLeft, EntryOpened,
      EntryGrown, EntryEnded, ConfigNamed, ConfigSaved, PackGivenUp,
      Collected, PboWritten, PboNotWritten, Moves, UnpackStages, PackStages,
      CommandInv
<1>. QED
  BY <1>1, <1>2, <1>3 DEF StageInv

\* What every effect has in common.
LEMMA EffectKeeps ==
  ASSUME NEW j \in DOMAIN jobs, Effect(j)
  PROVE  /\ DOMAIN jobs' = DOMAIN jobs
         /\ \A i \in DOMAIN jobs: i # j => jobs'[i] = jobs[i]
         /\ UNCHANGED <<mode, command, answer, stopped>>
BY DEF Effect, UnpackEffect, PackEffect, Failed, Passed, Named, Prepared,
       EntriesThrough, EntrySkipped, EntryNamed, EntryLeft, EntryOpened,
       EntryGrown, EntryEnded, ConfigNamed, ConfigSaved, PackGivenUp,
       Collected, PboWritten, PboNotWritten, Keeps

\* The job changes the disk at the file it has in hand.
LEMMA DiskChanges ==
  ASSUME NEW j \in DOMAIN jobs, Effect(j), jobs[j].stage = "write" => jobs[j].path \in DOMAIN disk
  PROVE  \/ disk' = disk
         \/ /\ Holds(jobs[j])
            /\ \E content: disk' = Put(disk, jobs[j].path, content)
<1>1. Opened(disk, jobs[j].path) = disk
        \/ Opened(disk, jobs[j].path) = Put(disk, jobs[j].path, Bytes(<<>>))
  BY DEF Opened
<1>2. CASE EntryGrown(j)
  <2>. DEFINE content == Overlay(disk[jobs[j].path], EntryInHand(j), jobs[j].at + 1)
  <2>1. /\ disk' = [disk EXCEPT ![jobs[j].path] = content]
        /\ jobs[j].stage = "write"
    BY <1>2 DEF EntryGrown, Moves
  <2>. HIDE DEF content
  <2>2. disk' = Put(disk, jobs[j].path, content)
    BY <2>1 DEF Put
  <2>. QED
    BY <2>1, <2>2 DEF Holds
<1>3. CASE Failed(j) \/ EntryOpened(j) \/ ConfigSaved(j) \/ PboWritten(j)
  BY <1>1, <1>3 DEF Failed, EntryOpened, ConfigSaved, PboWritten, Moves, Holds
<1>. QED
  BY <1>2, <1>3
  DEF Effect, UnpackEffect, PackEffect, Passed, Named, Prepared,
      EntriesThrough, EntrySkipped, EntryNamed, EntryLeft, EntryEnded,
      ConfigNamed, PackGivenUp, Collected, PboNotWritten

\* A file that is being written is there.
LEMMA FileInHandIsThere ==
  ASSUME PlacedInv, TodoInv, NEW j \in DOMAIN jobs, jobs[j].stage = "write"
  PROVE  jobs[j].path \in DOMAIN disk
<1>1. /\ Head(jobs[j].todo) \in DOMAIN jobs[j].placed
      /\ jobs[j].placed[Head(jobs[j].todo)] = jobs[j].path
  BY DEF TodoInv, TodoOK
<1>. QED
  BY <1>1 DEF PlacedInv

\* There are finitely many files, and the ones in hand are paths.
LEMMA FilesStay ==
  ASSUME CommandInv, PlacedInv, TodoInv, FilesInv, NEW j \in DOMAIN jobs, Effect(j)
  PROVE  FilesInv' /\ DOMAIN disk \subseteq DOMAIN disk'
<1>1. /\ DOMAIN jobs' = DOMAIN jobs
      /\ \A i \in DOMAIN jobs: i # j => jobs'[i] = jobs[i]
  BY EffectKeeps
<1>2. \/ DOMAIN disk' = DOMAIN disk
      \/ Holds(jobs[j]) /\ DOMAIN disk' = DOMAIN disk \union {jobs[j].path}
  BY DiskChanges, FileInHandIsThere DEF Put
<1>3. IsFiniteSet(DOMAIN disk')
  BY <1>2, FS_AddElement DEF FilesInv
<1>4. \A p \in DOMAIN disk': IsFilePath(p)
  BY <1>2 DEF FilesInv
<1>5. Holds(jobs'[j]) =>
        IsFilePath(jobs'[j].path) \/ (Holds(jobs[j]) /\ jobs'[j].path = jobs[j].path)
  BY AllFields
  DEF Effect, UnpackEffect, PackEffect, Failed, Passed, Named, Prepared,
      EntriesThrough, EntrySkipped, EntryNamed, EntryLeft, EntryOpened,
      EntryGrown, EntryEnded, ConfigNamed, ConfigSaved, PackGivenUp,
      Collected, PboWritten, PboNotWritten, Keeps, Moves, Holds, CommandInv
<1>6. ASSUME NEW i \in DOMAIN jobs', Holds(jobs'[i])
      PROVE  IsFilePath(jobs'[i].path)
  BY <1>1, <1>5, <1>6 DEF FilesInv
<1>. QED
  BY <1>2, <1>3, <1>4, <1>6 DEF FilesInv, Holds

\* What is to be unpacked stays there.
LEMMA InputsStay ==
  ASSUME InputsInv, NEW j \in DOMAIN jobs, Effect(j),
         DOMAIN disk \subseteq DOMAIN disk'
  PROVE  InputsInv'
BY EffectKeeps DEF InputsInv

\* A path is that of its folder, and the name.
LEMMA FileInFolder ==
  ASSUME NEW p, IsFilePath(p)
  PROVE  p = Append(Front(p), Last(p))
<1>. DEFINE S == ToSet(p)
<1>1. p \in Seq(S) /\ p # <<>>
  BY DEF IsFilePath, IsSequence
<1>2. PICK s \in Seq(S), x \in S: p = Append(s, x)
  BY <1>1, SequenceEmptyOrAppend
<1>3. Front(p) = s
  BY <1>2, SequenceOver, FrontOfAppend
<1>4. Last(p) = x
  <2>1. Len(p) = Len(s) + 1 /\ p[Len(s) + 1] = x
    BY <1>2, AppendProperties
  <2>. QED
    BY <2>1 DEF Last
<1>. QED
  BY <1>2, <1>3, <1>4

\* One more content, if its entries are contents.
LEMMA OneMoreContent ==
  ASSUME NEW U, AreContents(U), NEW c, IsContent(U, c)
  PROVE  AreContents(U \union {c})
<1>1. \A doc: IsDocumentOf(U, doc) => IsDocumentOf(U \union {c}, doc)
  BY DEF IsDocumentOf
<1>2. \A x: IsContent(U, x) => IsContent(U \union {c}, x)
  BY <1>1 DEF IsContent
<1>. QED
  BY <1>2 DEF AreContents

\* A job that comes to a document, or puts a content on the disk.
LEMMA OneJobHasContents ==
  ASSUME NEW U, AllIn(U), NEW j \in DOMAIN jobs,
         DOMAIN jobs' = DOMAIN jobs,
         \A i \in DOMAIN jobs: i # j => jobs'[i] = jobs[i],
         IsDocumentOf(U, jobs'[j].document),
         \/ disk' = disk
         \/ \E c: disk' = Put(disk, jobs[j].path, c) /\ IsContent(U, c)
  PROVE  ContentsInv'
<1>1. CASE disk' = disk
  BY <1>1 DEF AllIn, ContentsInv
<1>2. ASSUME NEW c, disk' = Put(disk, jobs[j].path, c), IsContent(U, c)
      PROVE  ContentsInv'
  <2>. DEFINE V == U \union {c}
  <2>1. AreContents(V)
    BY <1>2, OneMoreContent DEF AllIn
  <2>2. \A p \in DOMAIN disk': disk'[p] \in V
    BY <1>2 DEF AllIn, Put
  <2>3. \A i \in DOMAIN jobs': IsDocumentOf(V, jobs'[i].document)
    BY DEF AllIn, IsDocumentOf
  <2>. QED
    BY <2>1, <2>2, <2>3 DEF AllIn, ContentsInv
<1>. QED
  BY <1>1, <1>2

\* A sequence of one.
LEMMA SequenceOfOne ==
  ASSUME NEW x
  PROVE  IsSequence(<<x>>) /\ ToSet(<<x>>) = {x}
<1>1. <<x>> \in Seq({x}) /\ DOMAIN <<x>> = {1} /\ <<x>>[1] = x
  OBVIOUS
<1>. QED
  BY <1>1, SequenceOver DEF ToSet

\* What is written by hand: bytes, pbo.json, and a PBO of contents.
LEMMA WrittenContents ==
  ASSUME NEW U
  PROVE  /\ IsContent(U, Bytes(<<>>))
         /\ IsContent(U, Bytes(<<"mixed">>))
         /\ \A json: IsContent(U, JsonFile(json))
         /\ \A doc: IsDocumentOf(U, doc) => IsContent(U, PboFile(doc))
<1>1. IsSequence(<<>>) /\ ToSet(<<>>) = {}
  BY NoPathIsSequence DEF NoPath, ToSet
<1>2. ASSUME NEW x \in {"mixed", "{}", "pbo"}
      PROVE  IsSequence(<<x>>) /\ NoValue \notin ToSet(<<x>>) /\ <<x>> # <<>>
  <2>1. x # NoValue
    BY DEF NoValue
  <2>2. <<x>> # <<>>
    OBVIOUS
  <2>3. IsSequence(<<x>>) /\ ToSet(<<x>>) = {x}
    BY SequenceOfOne
  <2>. QED
    BY <2>1, <2>2, <2>3
<1>3. IsContent(U, Bytes(<<>>)) /\ IsContent(U, Bytes(<<"mixed">>))
  BY <1>1, <1>2 DEF Bytes, IsContent
<1>4. \A json: IsContent(U, JsonFile(json))
  BY <1>2 DEF JsonFile, IsContent
<1>5. \A doc: IsDocumentOf(U, doc) => IsContent(U, PboFile(doc))
  BY <1>2 DEF PboFile, IsContent, Value
<1>. QED
  BY <1>3, <1>4, <1>5

\* An entry written over a file.
LEMMA OverlayIsContent ==
  ASSUME NEW U, NEW old, NEW new, IsContent(U, old), IsContent(U, new),
         NEW n \in Nat, n <= Len(new.cells)
  PROVE  IsContent(U, Overlay(old, new, n))
<1>. DEFINE o == Overlay(old, new, n)
<1>1. IsSequence(old.cells) /\ IsSequence(new.cells)
  BY DEF IsContent
<1>2. /\ IsSequence(o.cells)
      /\ o = new \/ o = Bytes(o.cells)
      /\ ToSet(o.cells) \subseteq ToSet(new.cells) \union ToSet(old.cells)
  BY <1>1, OverlayStarts
<1>. HIDE DEF o
<1>3. NoValue \notin ToSet(o.cells)
  BY <1>2 DEF IsContent
<1>4. CASE o = new
  BY <1>4 DEF o
<1>5. CASE o = Bytes(o.cells)
  <2>1. o.as # "pbo" /\ (o.cells = <<>> => o = Bytes(<<>>))
    BY <1>5 DEF Bytes
  <2>2. IsContent(U, o)
    BY <1>2, <1>3, <2>1 DEF IsContent
  <2>. QED
    BY <2>2 DEF o
<1>. QED
  BY <1>2, <1>4, <1>5

\* What is in two sequences is in one after the other, and nothing else.
LEMMA ConcatOf ==
  ASSUME NEW s, NEW t, IsSequence(s), IsSequence(t)
  PROVE  IsSequence(s \o t) /\ ToSet(s \o t) \subseteq ToSet(s) \union ToSet(t)
<1>. DEFINE S == ToSet(s) \union ToSet(t)
<1>1. s \in Seq(S) /\ t \in Seq(S)
  BY SeqMonotonic DEF IsSequence
<1>2. s \o t \in Seq(S)
  BY <1>1, ConcatProperties
<1>3. \A i \in DOMAIN (s \o t): (s \o t)[i] \in S
  BY <1>2
<1>. QED
  BY <1>2, <1>3, SequenceOver DEF ToSet

\* What is in a sequence is at some place.
LEMMA PlacesOf ==
  ASSUME NEW s, NEW i \in DOMAIN s
  PROVE  s[i] \in ToSet(s)
BY DEF ToSet

\* applyNodeContentAsHeader: the header of a prefix file has a name and a value.
LEMMA PrefixHeaderIsWellFormed ==
  ASSUME NEW files, NEW p, p.header # "",
         \A f \in DOMAIN files: NoValue \notin ToSet(files[f].cells)
  PROVE  /\ IsSequence(PrefixHeader(files, p))
         /\ \A h \in ToSet(PrefixHeader(files, p)): HeaderWellFormed(h)
<1>. DEFINE S == {Header(p.header, files[f].cells): f \in PrefixFile(files, p)}
<1>1. PrefixFile(files, p) \subseteq {p.alt, p.file} \intersect DOMAIN files
  BY DEF PrefixFile
<1>2. IsFiniteSet(S)
  <2>. DEFINE x == Header(p.header, files[p.alt].cells)
              y == Header(p.header, files[p.file].cells)
  <2>1. S \subseteq ({} \union {x}) \union {y}
    BY <1>1
  <2>. HIDE DEF x, y, S
  <2>2. IsFiniteSet({} \union {x})
    BY FS_EmptySet, FS_AddElement
  <2>3. IsFiniteSet(({} \union {x}) \union {y})
    BY <2>2, FS_AddElement
  <2>. QED
    BY <2>1, <2>3, FS_Subset
<1>3. \A h \in S: HeaderWellFormed(h)
  <2>1. NoValue \in ToSet(Absent)
    BY SequenceOfOne DEF Absent
  <2>2. \A f \in DOMAIN files: files[f].cells # Absent
    BY <2>1
  <2>3. \A f \in PrefixFile(files, p):
          HeaderWellFormed(Header(p.header, files[f].cells))
    BY <1>1, <2>2 DEF HeaderWellFormed, Header
  <2>. QED
    BY <2>3
<1>4. PrefixHeader(files, p) = SetToSeq(S)
  BY DEF PrefixHeader
<1>. HIDE DEF S
<1>. QED
  BY <1>2, <1>3, <1>4, SetInSequence

\* And so have all three.
LEMMA PrefixHeadersAreWellFormed ==
  ASSUME NEW files,
         \A f \in DOMAIN files: NoValue \notin ToSet(files[f].cells)
  PROVE  \A i \in DOMAIN PrefixHeaders(files):
           HeaderWellFormed(PrefixHeaders(files)[i])
<1>. DEFINE a == PrefixHeader(files, PrefixFiles[1])
            b == PrefixHeader(files, PrefixFiles[2])
            c == PrefixHeader(files, PrefixFiles[3])
<1>1. /\ PrefixFiles[1].header # ""
      /\ PrefixFiles[2].header # ""
      /\ PrefixFiles[3].header # ""
  BY DEF PrefixFiles
<1>2. /\ IsSequence(a) /\ \A h \in ToSet(a): HeaderWellFormed(h)
      /\ IsSequence(b) /\ \A h \in ToSet(b): HeaderWellFormed(h)
      /\ IsSequence(c) /\ \A h \in ToSet(c): HeaderWellFormed(h)
  BY <1>1, PrefixHeaderIsWellFormed
<1>3. PrefixHeaders(files) = (a \o b) \o c
  BY DEF PrefixHeaders
<1>. HIDE DEF a, b, c
<1>4. IsSequence(a \o b) /\ \A h \in ToSet(a \o b): HeaderWellFormed(h)
  BY <1>2, ConcatOf
<1>5. \A h \in ToSet((a \o b) \o c): HeaderWellFormed(h)
  BY <1>2, <1>4, ConcatOf
<1>. QED
  BY <1>3, <1>5, PlacesOf

\* collectDir and the configuration: what is packed was found in the folder.
LEMMA PackedAreContents ==
  ASSUME FilesInv, NEW U, AllIn(U), NEW j \in DOMAIN jobs
  PROVE  IsDocumentOf(U, Apply(FilesFound(j)).doc)
<1>. DEFINE paths == FilesIn(disk, command.inputs[j].path)
            names == {Last(p): p \in paths}
            files == FilesFound(j)
<1>1. IsFiniteSet(names)
  <2>1. paths \subseteq DOMAIN disk
    BY DEF FilesIn
  <2>2. IsFiniteSet(paths)
    BY <2>1, FS_Subset DEF FilesInv
  <2>. HIDE DEF paths
  <2>3. [p \in paths |-> Last(p)] \in Surjection(paths, names)
    BY DEF Surjection
  <2>. QED
    BY <2>2, <2>3, FS_Surjection
<1>2. DOMAIN files = names
  BY DEF FilesFound
<1>3. \A f \in names: files[f] \in U
  <2>1. ASSUME NEW p \in paths
        PROVE  disk[Append(command.inputs[j].path, Last(p))] \in U
    <3>1. p \in DOMAIN disk /\ Front(p) = command.inputs[j].path
      BY DEF FilesIn
    <3>2. p = Append(Front(p), Last(p))
      BY <3>1, FileInFolder DEF FilesInv
    <3>. QED
      BY <3>1, <3>2 DEF AllIn
  <2>. QED
    BY <2>1 DEF FilesFound
<1>. HIDE DEF files, names, paths
<1>4. ASSUME NEW headers, \A i \in DOMAIN headers: HeaderWellFormed(headers[i]),
             NEW compressed
      PROVE  IsDocumentOf(U, Packed(files, headers, compressed).doc)
  <2>1. IsFiniteSet(DOMAIN files \ ConfigNames)
    BY <1>1, <1>2, FS_Subset
  <2>2. /\ Packed(files, headers, compressed).doc.files
              = [f \in DOMAIN files \ ConfigNames |-> files[f]]
        /\ Packed(files, headers, compressed).doc.headers = headers
    BY DEF Packed
  <2>. QED
    BY <1>2, <1>3, <1>4, <2>1, <2>2 DEF IsDocumentOf
<1>5. \A outcome: IsDocumentOf(U, NotPacked(outcome).doc)
  <2>1. DOMAIN <<>> = {}
    OBVIOUS
  <2>. QED
    BY <2>1, FS_EmptySet DEF NotPacked, IsDocumentOf
<1>6. \/ \E headers, compressed:
           /\ Apply(files) = Packed(files, headers, compressed)
           /\ \A i \in DOMAIN headers: HeaderWellFormed(headers[i])
      \/ \E outcome: Apply(files) = NotPacked(outcome)
  <2>1. \A i \in DOMAIN PrefixHeaders(files): HeaderWellFormed(PrefixHeaders(files)[i])
    <3>1. \A f \in DOMAIN files: NoValue \notin ToSet(files[f].cells)
      BY <1>2, <1>3 DEF AllIn, AreContents, IsContent
    <3>. QED
      BY <3>1, PrefixHeadersAreWellFormed
  <2>2. \A json: WellFormed(json) =>
                  \A i \in DOMAIN json.headers: HeaderWellFormed(json.headers[i])
    BY DEF WellFormed
  <2>. QED
    BY <2>1, <2>2, Zenon DEF Apply
<1>7. IsDocumentOf(U, Apply(files).doc)
  BY <1>4, <1>5, <1>6
<1>. QED
  BY <1>7 DEF files

\* What is on the disk, and in the documents, stay contents.
LEMMA ContentsStay ==
  ASSUME StageInv, InputsInv, FilesInv, TodoInv, ContentsInv, PlacedInv,
         NEW j \in DOMAIN jobs, Effect(j)
  PROVE  ContentsInv'
<1>1. /\ DOMAIN jobs' = DOMAIN jobs
      /\ \A i \in DOMAIN jobs: i # j => jobs'[i] = jobs[i]
  BY EffectKeeps
<1>2. PICK U: AllIn(U)
  BY DEF ContentsInv
<1>3. CASE Prepared(j)
  <2>1. command.inputs[j].path \in DOMAIN disk
    <3>1. command.verb = "unpack"
      BY <1>3 DEF Prepared, Moves, StageInv, PackStages
    <3>. QED
      BY <3>1 DEF InputsInv
  <2>2. IsDocumentOf(U, jobs'[j].document)
    BY <1>2, <1>3, <2>1 DEF Prepared, AllIn, AreContents, IsContent
  <2>. QED
    BY <1>1, <1>2, <1>3, <2>2, OneJobHasContents DEF Prepared
<1>4. CASE Collected(j)
  <2>1. IsDocumentOf(U, jobs'[j].document)
    BY <1>2, <1>4, PackedAreContents DEF Collected
  <2>. QED
    BY <1>1, <1>2, <1>4, <2>1, OneJobHasContents DEF Collected
<1>5. ASSUME jobs'[j].document = jobs[j].document,
             \/ disk' = disk
             \/ \E c: disk' = Put(disk, jobs[j].path, c) /\ IsContent(U, c)
      PROVE  ContentsInv'
  <2>1. IsDocumentOf(U, jobs'[j].document)
    BY <1>2, <1>5 DEF AllIn
  <2>. QED
    BY <1>1, <1>2, <1>5, <2>1, OneJobHasContents
<1>6. CASE Failed(j) \/ EntryOpened(j)
  <2>1. jobs'[j].document = jobs[j].document
    BY <1>6, AllFields DEF Failed, EntryOpened, Keeps
  <2>2. disk' = disk \/ disk' = Put(disk, jobs[j].path, Bytes(<<>>))
    BY <1>6 DEF Failed, EntryOpened, Opened
  <2>3. IsContent(U, Bytes(<<>>))
    BY WrittenContents
  <2>. QED
    BY <1>5, <2>1, <2>2, <2>3
<1>7. CASE EntryGrown(j)
  <2>. DEFINE old == disk[jobs[j].path]
              n == jobs[j].at + 1
              c == Overlay(old, EntryInHand(j), n)
  <2>1. /\ jobs[j].stage = "write"
        /\ jobs'[j].document = jobs[j].document
        /\ disk' = [disk EXCEPT ![jobs[j].path] = c]
        /\ jobs[j].at # Len(EntryInHand(j).cells)
    BY <1>7, AllFields DEF EntryGrown, Moves, Keeps
  <2>2. jobs[j].path \in DOMAIN disk
    BY <2>1, FileInHandIsThere
  <2>3. /\ Head(jobs[j].todo) \in DOMAIN jobs[j].document.files
        /\ jobs[j].at \in Nat
        /\ jobs[j].at <= Len(EntryInHand(j).cells)
    BY <2>1 DEF TodoInv, TodoOK, EntryInHand
  <2>4. EntryInHand(j) \in U
    BY <1>2, <2>3 DEF AllIn, IsDocumentOf, EntryInHand
  <2>5. old \in U
    BY <1>2, <2>2 DEF AllIn
  <2>. HIDE DEF old
  <2>6. IsContent(U, old) /\ IsContent(U, EntryInHand(j))
    BY <1>2, <2>4, <2>5 DEF AllIn, AreContents
  <2>7. n \in Nat /\ n <= Len(EntryInHand(j).cells)
    <3>1. Len(EntryInHand(j).cells) \in Nat
      BY <2>6, LenProperties DEF IsContent, IsSequence
    <3>. QED
      BY <2>1, <2>3, <3>1
  <2>. HIDE DEF n
  <2>8. IsContent(U, c)
    BY <2>6, <2>7, OverlayIsContent
  <2>. HIDE DEF c
  <2>9. disk' = Put(disk, jobs[j].path, c)
    BY <2>1, <2>2 DEF Put
  <2>. QED
    BY <1>5, <2>1, <2>8, <2>9
<1>8. CASE ConfigSaved(j)
  <2>. DEFINE c == JsonFile(ExtractFrom(jobs[j].document))
  <2>1. jobs'[j].document = jobs[j].document /\ disk' = Put(disk, jobs[j].path, c)
    BY <1>8, AllFields DEF ConfigSaved, Keeps
  <2>2. IsContent(U, c)
    BY WrittenContents
  <2>. HIDE DEF c
  <2>. QED
    BY <1>5, <2>1, <2>2
<1>9. CASE PboWritten(j)
  <2>1. jobs'[j].document = jobs[j].document
    BY <1>9, AllFields DEF PboWritten, Keeps
  <2>2. PICK c: /\ disk' = Put(disk, jobs[j].path, c)
                /\ c = PboFile(jobs[j].document) \/ c = Bytes(<<"mixed">>)
    BY <1>9 DEF PboWritten
  <2>3. IsDocumentOf(U, jobs[j].document)
    BY <1>2 DEF AllIn
  <2>4. IsContent(U, c)
    BY <2>2, <2>3, WrittenContents
  <2>. QED
    BY <1>5, <2>1, <2>2, <2>4
<1>10. ASSUME jobs'[j].document = jobs[j].document, disk' = disk
       PROVE  ContentsInv'
  BY <1>5, <1>10
<1>. QED
  BY <1>3, <1>4, <1>6, <1>7, <1>8, <1>9, <1>10, AllFields
  DEF Effect, UnpackEffect, PackEffect, Passed, Named,
      EntriesThrough, EntrySkipped, EntryNamed, EntryLeft, EntryEnded,
      ConfigNamed, PackGivenUp, PboNotWritten, Keeps

\* An entry is dealt with: the next one is in hand.
LEMMA EntryDealtWith ==
  ASSUME NEW s, IsSequence(s), Distinct(s), s # <<>>, NEW n \in Int, NEW size,
         n + Len(s) = size
  PROVE  n + 1 \in Int /\ n + 1 + Len(Tail(s)) = size
BY TailInSequence

\* The entries that are not dealt with, and those that have a file.
LEMMA TodoStays ==
  ASSUME CommandInv, StageInv, FolderInv, InputsInv, ContentsInv, TodoInv,
         NEW j \in DOMAIN jobs, Effect(j)
  PROVE  TodoInv'
<1>1. /\ DOMAIN jobs' = DOMAIN jobs
      /\ \A i \in DOMAIN jobs: i # j => jobs'[i] = jobs[i]
      /\ UNCHANGED <<command, stopped>>
  BY EffectKeeps
<1>2. SUFFICES /\ jobs'[j].stage \in {"waiting", "unpack"} => jobs'[j].progress = 0
               /\ jobs'[j].stage \in {"entry", "open", "write"}
                    => TodoOK(jobs'[j], stopped)
  BY <1>1 DEF TodoInv
<1>3. CASE Passed(j, "waiting", command.verb) /\ command # NoCommand
  BY <1>3, AllFields DEF Passed, Moves, Keeps, TodoInv, CommandInv
<1>4. CASE Prepared(j)
  <2>. DEFINE files == jobs'[j].document.files
  <2>1. /\ jobs'[j].stage = "entry"
        /\ jobs'[j].todo = SetToSeq(DOMAIN files)
        /\ jobs'[j].size = Cardinality(DOMAIN files)
        /\ jobs'[j].progress = jobs[j].progress
        /\ jobs'[j].placed = jobs[j].placed
        /\ jobs[j].stage = "unpack"
    BY <1>4, AllFields DEF Prepared, Moves, Keeps
  <2>2. DOMAIN jobs[j].placed = {} /\ jobs[j].progress = 0
    BY <2>1 DEF FolderInv, TodoInv
  <2>3. IsFiniteSet(DOMAIN files)
    <3>1. PICK U: AllIn(U)
      BY DEF ContentsInv
    <3>2. command.inputs[j].path \in DOMAIN disk
      <4>1. command.verb = "unpack"
        BY <2>1 DEF StageInv, PackStages
      <4>. QED
        BY <4>1 DEF InputsInv
    <3>3. IsDocumentOf(U, jobs'[j].document)
      BY <1>4, <3>1, <3>2 DEF Prepared, AllIn, AreContents, IsContent
    <3>. QED
      BY <3>3 DEF IsDocumentOf
  <2>. DEFINE todo == SetToSeq(DOMAIN files)
  <2>4. /\ IsSequence(todo) /\ Distinct(todo)
        /\ ToSet(todo) = DOMAIN files
        /\ Len(todo) = Cardinality(DOMAIN files)
        /\ Len(todo) \in Nat
    BY <2>3, SetInSequence
  <2>. HIDE DEF todo
  <2>. QED
    BY <2>1, <2>2, <2>4 DEF TodoOK, todo
<1>5. CASE EntrySkipped(j) \/ EntryLeft(j) \/ EntryEnded(j)
  <2>. DEFINE todo == jobs[j].todo
  <2>1. /\ jobs[j].stage \in {"entry", "open", "write"}
        /\ jobs'[j].stage = "entry"
        /\ jobs'[j].todo = Tail(todo)
        /\ jobs'[j].document = jobs[j].document
        /\ jobs'[j].size = jobs[j].size
        /\ jobs'[j].placed = jobs[j].placed
        /\ \/ jobs'[j].progress = jobs[j].progress + 1
           \/ stopped /\ jobs'[j].progress = jobs[j].progress
        /\ jobs'[j].quiet => jobs[j].quiet /\ (stopped \/ jobs[j].stage = "write")
        /\ jobs[j].stage = "entry" => todo # <<>>
    BY <1>5, AllFields DEF EntrySkipped, EntryLeft, EntryEnded, Moves, Keeps
  <2>2. TodoOK(jobs[j], stopped) /\ todo # <<>>
    BY <2>1 DEF TodoInv, TodoOK
  <2>3. IsSequence(todo) /\ Distinct(todo)
    BY <2>2 DEF TodoOK
  <2>4. /\ IsSequence(Tail(todo)) /\ Distinct(Tail(todo))
        /\ Len(Tail(todo)) = Len(todo) - 1 /\ Len(todo) \in Nat
        /\ ToSet(Tail(todo)) = ToSet(todo) \ {Head(todo)}
        /\ Head(todo) \in ToSet(todo)
    BY <2>2, <2>3, TailInSequence
  <2>5. jobs'[j].progress \in Int
    BY <2>1, <2>2 DEF TodoOK
  <2>6. ~stopped => jobs'[j].progress + Len(Tail(todo)) = jobs'[j].size
    BY <2>1, <2>2, <2>4 DEF TodoOK
  <2>7. ToSet(Tail(todo)) \intersect DOMAIN jobs[j].placed = {}
    BY <2>1, <2>2, <2>4 DEF TodoOK
  <2>8. ~stopped /\ jobs'[j].quiet =>
          DOMAIN jobs[j].document.files \subseteq
            DOMAIN jobs[j].placed \union ToSet(Tail(todo))
    BY <2>1, <2>2, <2>4 DEF TodoOK
  <2>9. /\ DOMAIN jobs[j].placed \subseteq DOMAIN jobs[j].document.files
        /\ ToSet(Tail(todo)) \subseteq DOMAIN jobs[j].document.files
    BY <2>2, <2>4 DEF TodoOK
  <2>. QED
    BY <2>1, <2>4, <2>5, <2>6, <2>7, <2>8, <2>9 DEF TodoOK
<1>6. CASE EntryNamed(j)
  <2>1. /\ jobs[j].stage = "entry" /\ jobs'[j].stage = "open"
        /\ jobs[j].todo # <<>>
        /\ \A f \in {"todo", "document", "size", "placed", "progress", "quiet"}:
             jobs'[j][f] = jobs[j][f]
    BY <1>6, AllFields DEF EntryNamed, Named, Moves, Keeps
  <2>2. TodoOK(jobs[j], stopped)
    BY <2>1 DEF TodoInv
  <2>. QED
    BY <2>1, <2>2 DEF TodoOK
<1>7. CASE EntryOpened(j)
  <2>. DEFINE head == Head(jobs[j].todo)
              todo == jobs[j].todo
  <2>1. /\ jobs[j].stage = "open" /\ jobs'[j].stage = "write"
        /\ jobs'[j].at = 0
        /\ jobs'[j].placed = Put(jobs[j].placed, head, jobs[j].path)
        /\ jobs'[j].todo = todo
        /\ jobs'[j].document = jobs[j].document
        /\ jobs'[j].size = jobs[j].size
        /\ jobs'[j].progress = jobs[j].progress
        /\ jobs'[j].quiet = jobs[j].quiet
        /\ jobs'[j].path = jobs[j].path
    BY <1>7, AllFields DEF EntryOpened, Moves, Keeps
  <2>2. TodoOK(jobs[j], stopped) /\ todo # <<>>
    BY <2>1 DEF TodoInv, TodoOK
  <2>3. head \in ToSet(todo)
    BY <2>2, TailInSequence DEF TodoOK
  <2>4. /\ DOMAIN jobs'[j].placed = DOMAIN jobs[j].placed \union {head}
        /\ jobs'[j].placed[head] = jobs[j].path
    BY <2>1 DEF Put
  <2>5. 0 <= Len(jobs[j].document.files[head].cells)
    <3>1. PICK U: AllIn(U)
      BY DEF ContentsInv
    <3>2. head \in DOMAIN jobs[j].document.files
      BY <2>2, <2>3 DEF TodoOK
    <3>3. IsSequence(jobs[j].document.files[head].cells)
      BY <3>1, <3>2 DEF AllIn, IsDocumentOf, AreContents, IsContent
    <3>. QED
      BY <3>3, LenProperties DEF IsSequence
  <2>. HIDE DEF head, todo
  <2>6. /\ IsSequence(todo) /\ Distinct(todo)
        /\ jobs[j].progress \in Int
        /\ DOMAIN jobs[j].placed \subseteq DOMAIN jobs[j].document.files
        /\ ToSet(todo) \subseteq DOMAIN jobs[j].document.files
        /\ ~stopped => jobs[j].progress + Len(todo) = jobs[j].size
        /\ ~stopped /\ jobs[j].quiet =>
             DOMAIN jobs[j].document.files \subseteq DOMAIN jobs[j].placed \union ToSet(todo)
        /\ ToSet(todo) \intersect DOMAIN jobs[j].placed = {}
    BY <2>1, <2>2 DEF TodoOK, todo
  <2>7. ToSet(todo) \intersect DOMAIN jobs'[j].placed = {head}
    BY <2>3, <2>4, <2>6
  <2>. QED
    BY <2>1, <2>2, <2>3, <2>4, <2>5, <2>6, <2>7 DEF TodoOK, head, todo
<1>8. CASE EntryGrown(j)
  <2>1. /\ jobs[j].stage = "write" /\ jobs'[j].stage = "write"
        /\ jobs[j].at # Len(EntryInHand(j).cells)
        /\ jobs'[j].at = jobs[j].at + 1
        /\ \A f \in {"todo", "document", "size", "placed", "progress", "quiet", "path"}:
             jobs'[j][f] = jobs[j][f]
    BY <1>8, AllFields DEF EntryGrown, Moves, Keeps
  <2>2. TodoOK(jobs[j], stopped)
    BY <2>1 DEF TodoInv
  <2>3. Len(EntryInHand(j).cells) \in Nat
    <3>1. PICK U: AllIn(U)
      BY DEF ContentsInv
    <3>2. Head(jobs[j].todo) \in DOMAIN jobs[j].document.files
      BY <2>1, <2>2 DEF TodoOK
    <3>3. IsSequence(EntryInHand(j).cells)
      BY <3>1, <3>2 DEF AllIn, IsDocumentOf, AreContents, IsContent, EntryInHand
    <3>. QED
      BY <3>3, LenProperties DEF IsSequence
  <2>4. jobs'[j].at \in Nat /\ jobs'[j].at <= Len(EntryInHand(j).cells)
    BY <2>1, <2>2, <2>3 DEF TodoOK, EntryInHand
  <2>. QED
    BY <2>1, <2>2, <2>4 DEF TodoOK, EntryInHand
<1>. QED
  BY <1>3, <1>4, <1>5, <1>6, <1>7, <1>8
  DEF Effect, UnpackEffect, PackEffect, Failed, Passed, Named, EntriesThrough,
      ConfigNamed, ConfigSaved, PackGivenUp, Collected, PboWritten, PboNotWritten,
      Moves

\* When all entries are dealt with, the progress is full.
LEMMA DoneStays ==
  ASSUME CommandInv, StageInv, PlacedInv, TodoInv, DoneInv,
         NEW j \in DOMAIN jobs, Effect(j)
  PROVE  DoneInv'
<1>1. /\ DOMAIN jobs' = DOMAIN jobs
      /\ \A i \in DOMAIN jobs: i # j => jobs'[i] = jobs[i]
      /\ UNCHANGED <<command, stopped>>
  BY EffectKeeps
<1>2. SUFFICES ASSUME command.verb = "unpack",
                      \/ jobs'[j].stage \in {"config", "save config"}
                      \/ jobs'[j].stage = "ended" /\ jobs'[j].quiet
               PROVE  DoneOK(jobs'[j], stopped)
  BY <1>1 DEF DoneInv
<1>3. CASE EntriesThrough(j)
  <2>1. /\ jobs[j].stage = "entry" /\ jobs'[j].stage = "config"
        /\ stopped \/ jobs[j].todo = <<>>
        /\ \A f \in {"document", "size", "placed", "progress", "quiet"}:
             jobs'[j][f] = jobs[j][f]
    BY <1>3, AllFields DEF EntriesThrough, Passed, Moves, Keeps
  <2>2. TodoOK(jobs[j], stopped)
    BY <2>1 DEF TodoInv
  <2>3. jobs[j].todo = <<>> => Len(jobs[j].todo) = 0 /\ ToSet(jobs[j].todo) = {}
    BY EmptySeq DEF ToSet
  <2>4. ~stopped => jobs[j].progress = jobs[j].size
    BY <2>1, <2>2, <2>3 DEF TodoOK
  <2>5. ~stopped /\ jobs[j].quiet =>
          DOMAIN jobs[j].placed = DOMAIN jobs[j].document.files
    BY <2>1, <2>2, <2>3 DEF TodoOK
  <2>6. DOMAIN jobs[j].placed \subseteq DOMAIN jobs[j].document.files
    BY <2>2 DEF TodoOK
  <2>. QED
    BY <2>1, <2>4, <2>5, <2>6 DEF DoneOK
<1>4. CASE ConfigNamed(j)
  <2>1. /\ jobs[j].stage = "config" /\ jobs'[j].stage = "save config"
        /\ \A f \in {"document", "folder", "size", "placed", "progress", "quiet"}:
             jobs'[j][f] = jobs[j][f]
        /\ jobs'[j].path \in DOMAIN disk =>
             jobs'[j].path = Append(jobs[j].folder, PboJsonName)
    BY <1>4, AllFields DEF ConfigNamed, Named, Moves, Keeps
  <2>2. DoneOK(jobs[j], stopped)
    BY <1>2, <2>1 DEF DoneInv
  <2>3. \A f \in DOMAIN jobs[j].placed: jobs[j].placed[f] \in DOMAIN disk
    BY DEF PlacedInv
  <2>. QED
    BY <2>1, <2>2, <2>3 DEF DoneOK
<1>5. CASE ConfigSaved(j)
  <2>1. /\ jobs[j].stage = "save config" /\ jobs'[j].stage = "ended"
        /\ \A f \in {"document", "folder", "path", "size", "placed", "progress", "quiet"}:
             jobs'[j][f] = jobs[j][f]
    BY <1>5, AllFields DEF ConfigSaved, Moves, Keeps
  <2>2. DoneOK(jobs[j], stopped)
    BY <1>2, <2>1 DEF DoneInv
  <2>. QED
    BY <2>1, <2>2 DEF DoneOK
<1>6. jobs[j].stage \in UnpackStages
  BY <1>2 DEF StageInv
<1>. QED
  BY <1>2, <1>3, <1>4, <1>5, <1>6
  DEF Effect, UnpackEffect, PackEffect, Failed, Passed, Named, Prepared,
      EntrySkipped, EntryNamed, EntryLeft, EntryOpened, EntryGrown, EntryEnded,
      PackGivenUp, Collected, PboWritten, PboNotWritten, Moves, UnpackStages,
      CommandInv

\* The file that one entry alone was given is given to it alone, before and after.
LEMMA SoleWasSole ==
  ASSUME TodoInv, NEW j \in DOMAIN jobs, Effect(j),
         NEW i \in DOMAIN jobs, NEW f \in DOMAIN jobs[i].placed,
         NEW p, p = jobs[i].placed[f],
         Sole(i, f)', jobs'[i].placed[f] = p
  PROVE  Sole(i, f)
<1>1. /\ DOMAIN jobs' = DOMAIN jobs
      /\ \A k \in DOMAIN jobs: k # j => jobs'[k] = jobs[k]
  BY EffectKeeps
<1>2. ASSUME NEW g \in DOMAIN jobs[j].placed
      PROVE  g \in DOMAIN jobs'[j].placed /\ jobs'[j].placed[g] = jobs[j].placed[g]
  <2>1. CASE EntryOpened(j)
    <3>. DEFINE head == Head(jobs[j].todo)
    <3>1. /\ jobs[j].stage = "open"
          /\ jobs'[j].placed = Put(jobs[j].placed, head, jobs[j].path)
      BY <2>1 DEF EntryOpened, Moves
    <3>2. TodoOK(jobs[j], stopped) /\ jobs[j].todo # <<>>
      BY <3>1 DEF TodoInv, TodoOK
    <3>3. head \in ToSet(jobs[j].todo)
      BY <3>2, TailInSequence DEF TodoOK
    <3>4. head \notin DOMAIN jobs[j].placed
      BY <3>1, <3>2, <3>3 DEF TodoOK
    <3>. QED
      BY <3>1, <3>4 DEF Put
  <2>2. CASE jobs'[j].placed = jobs[j].placed
    BY <2>2
  <2>. QED
    BY <2>1, <2>2, AllFields
    DEF Effect, UnpackEffect, PackEffect, Failed, Passed, Named, Prepared,
        EntriesThrough, EntrySkipped, EntryNamed, EntryLeft, EntryGrown, EntryEnded,
        ConfigNamed, ConfigSaved, PackGivenUp, Collected, PboWritten, PboNotWritten,
        Keeps
<1>3. jobs[j].stage \in {"save config", "ended"} =>
        /\ jobs'[j].stage \in {"save config", "ended"}
        /\ jobs'[j].path = jobs[j].path
  BY AllFields
  DEF Effect, UnpackEffect, PackEffect, Failed, Passed, Named, Prepared,
      EntriesThrough, EntrySkipped, EntryNamed, EntryLeft, EntryOpened, EntryGrown,
      EntryEnded, ConfigNamed, ConfigSaved, PackGivenUp, Collected, PboWritten,
      PboNotWritten, Keeps, Moves
<1>4. ASSUME NEW k \in DOMAIN jobs
      PROVE  /\ \A g \in DOMAIN jobs[k].placed:
                  jobs[k].placed[g] = p => k = i /\ g = f
             /\ jobs[k].stage \in {"save config", "ended"} => jobs[k].path # p
  <2>1. /\ \A g \in DOMAIN jobs'[k].placed:
             jobs'[k].placed[g] = p => k = i /\ g = f
        /\ jobs'[k].stage \in {"save config", "ended"} => jobs'[k].path # p
    BY <1>1 DEF Sole
  <2>. QED
    BY <1>1, <1>2, <1>3, <2>1
<1>. QED
  BY <1>4 DEF Sole

\* Nothing else is written to a file that one entry alone was given.
LEMMA SoleIsLeftAlone ==
  ASSUME StageInv, TodoInv, command.verb = "unpack", NEW j \in DOMAIN jobs, Effect(j),
         NEW i \in DOMAIN jobs, NEW f \in DOMAIN jobs[i].placed, Sole(i, f),
         NEW p \in DOMAIN disk, p = jobs[i].placed[f],
         EntryGrown(j) => i # j \/ f # Head(jobs[j].todo)
  PROVE  disk'[p] = disk[p]
<1>1. CASE EntryGrown(j)
  <2>1. /\ jobs[j].stage = "write"
        /\ \A q \in DOMAIN disk: q # jobs[j].path => disk'[q] = disk[q]
    BY <1>1 DEF EntryGrown, Moves
  <2>2. TodoOK(jobs[j], stopped)
    BY <2>1 DEF TodoInv
  <2>3. /\ Head(jobs[j].todo) \in DOMAIN jobs[j].placed
        /\ jobs[j].placed[Head(jobs[j].todo)] = jobs[j].path
    BY <2>1, <2>2 DEF TodoOK
  <2>4. jobs[j].path # p
    BY <1>1, <2>3 DEF Sole
  <2>. QED
    BY <2>1, <2>4
<1>2. CASE ConfigSaved(j)
  <2>1. /\ jobs[j].stage = "save config"
        /\ \A q \in DOMAIN disk: q # jobs[j].path => disk'[q] = disk[q]
    BY <1>2 DEF ConfigSaved, Moves, Put
  <2>2. jobs[j].path # p
    BY <2>1 DEF Sole
  <2>. QED
    BY <2>1, <2>2
<1>3. CASE disk' = disk \/ disk' = Opened(disk, jobs[j].path)
  BY <1>3 DEF Opened, Put
<1>4. ~PboWritten(j)
  BY DEF PboWritten, Moves, StageInv, UnpackStages
<1>. QED
  BY <1>1, <1>2, <1>3, <1>4
  DEF Effect, UnpackEffect, PackEffect, Failed, Passed, Named, Prepared,
      EntriesThrough, EntrySkipped, EntryNamed, EntryLeft, EntryOpened,
      EntryEnded, ConfigNamed, PackGivenUp, Collected, PboNotWritten

\* How much of an entry is written when its job goes on, but does not write it.
LEMMA WrittenStaysWritten ==
  ASSUME StageInv, FolderInv, command.verb = "unpack", ~stopped,
         NEW j \in DOMAIN jobs, Effect(j),
         NEW f \in DOMAIN jobs[j].placed,
         EntryGrown(j) => f # Head(jobs[j].todo),
         EntryOpened(j) => f # Head(jobs[j].todo)
  PROVE  /\ jobs'[j].document = jobs[j].document
         /\ Written(jobs'[j], f) = Written(jobs[j], f)
<1>1. jobs'[j].document = jobs[j].document
  <2>1. ~Prepared(j)
    BY DEF Prepared, Moves, FolderInv
  <2>2. ~Collected(j)
    BY DEF Collected, Moves, StageInv, UnpackStages
  <2>. QED
    BY <2>1, <2>2, AllFields
    DEF Effect, UnpackEffect, PackEffect, Failed, Passed, Named,
        EntriesThrough, EntrySkipped, EntryNamed, EntryLeft, EntryOpened, EntryGrown,
        EntryEnded, ConfigNamed, ConfigSaved, PackGivenUp, PboWritten, PboNotWritten,
        Keeps
<1>2. CASE EntryGrown(j) \/ EntryOpened(j)
  <2>1. jobs'[j].todo = jobs[j].todo /\ f # Head(jobs[j].todo)
    BY <1>2, AllFields DEF EntryGrown, EntryOpened, Keeps
  <2>. QED
    BY <1>1, <2>1 DEF Written
<1>3. CASE EntryEnded(j)
  <2>1. /\ jobs'[j].stage # "write"
        /\ jobs[j].at = Len(EntryInHand(j).cells)
    BY <1>3 DEF EntryEnded, Moves
  <2>. QED
    BY <1>1, <2>1 DEF Written, EntryInHand
<1>4. CASE jobs[j].stage # "write" /\ jobs'[j].stage # "write"
  BY <1>1, <1>4 DEF Written
<1>5. jobs[j].stage \in UnpackStages
  BY DEF StageInv
<1>. QED
  BY <1>2, <1>3, <1>4, <1>5
  DEF Effect, UnpackEffect, PackEffect, Failed, Passed, Named, Prepared,
      EntriesThrough, EntrySkipped, EntryNamed, EntryLeft,
      ConfigNamed, ConfigSaved, PackGivenUp, Collected, PboWritten, PboNotWritten,
      Moves, UnpackStages

\* The entries in the files, contents all of them.
LEMMA EntryIsContent ==
  ASSUME ContentsInv, NEW j \in DOMAIN jobs,
         NEW f \in DOMAIN jobs[j].document.files
  PROVE  IsSequence(jobs[j].document.files[f].cells)
BY DEF ContentsInv, AllIn, IsDocumentOf, AreContents, IsContent

\* As is what is on the disk.
LEMMA FileIsContent ==
  ASSUME ContentsInv, NEW p \in DOMAIN disk
  PROVE  IsSequence(disk[p].cells)
BY DEF ContentsInv, AllIn, AreContents, IsContent

\* What the entries have in their files.
LEMMA WrittenStays ==
  ASSUME StageInv, FolderInv, PlacedInv, TodoInv, ContentsInv, WrittenInv,
         NEW j \in DOMAIN jobs, Effect(j),
         ContentsInv', PlacedInv'
  PROVE  WrittenInv'
<1>1. /\ DOMAIN jobs' = DOMAIN jobs
      /\ \A i \in DOMAIN jobs: i # j => jobs'[i] = jobs[i]
      /\ UNCHANGED <<command, stopped>>
  BY EffectKeeps
<1>2. SUFFICES ASSUME command.verb = "unpack", ~stopped,
                      NEW i \in DOMAIN jobs, NEW f \in DOMAIN jobs'[i].placed,
                      Sole(i, f)'
               PROVE  Starts(disk'[jobs'[i].placed[f]].cells,
                             jobs'[i].document.files[f].cells,
                             Written(jobs'[i], f))
  BY <1>1 DEF WrittenInv, Written
<1>. DEFINE p == jobs'[i].placed[f]
            h == Head(jobs[j].todo)
<1>3. ASSUME f \in DOMAIN jobs[i].placed, jobs[i].placed[f] = p,
             jobs'[i].document = jobs[i].document,
             Written(jobs'[i], f) = Written(jobs[i], f),
             EntryGrown(j) => i # j \/ f # h
      PROVE  Starts(disk'[p].cells, jobs'[i].document.files[f].cells,
                    Written(jobs'[i], f))
  <2>. HIDE DEF p
  <2>1. Sole(i, f)
    BY <1>2, <1>3, SoleWasSole DEF p
  <2>2. p \in DOMAIN disk
    BY <1>3 DEF PlacedInv
  <2>3. disk'[p] = disk[p]
    BY <1>2, <1>3, <2>1, <2>2, SoleIsLeftAlone
  <2>4. Starts(disk[p].cells, jobs[i].document.files[f].cells, Written(jobs[i], f))
    BY <1>2, <1>3, <2>1 DEF WrittenInv
  <2>. QED
    BY <1>3, <2>3, <2>4
<1>4. CASE i # j
  BY <1>1, <1>3, <1>4
<1>5. CASE i = j /\ EntryOpened(j) /\ f = h
  <2>1. /\ jobs'[j].stage = "write" /\ jobs'[j].at = 0
        /\ jobs'[j].todo = jobs[j].todo
    BY <1>5, AllFields DEF EntryOpened, Moves, Keeps
  <2>2. Written(jobs'[i], f) = 0
    BY <1>5, <2>1 DEF Written
  <2>3. p \in DOMAIN disk'
    BY <1>1, <1>2 DEF PlacedInv
  <2>. HIDE DEF p
  <2>4. IsSequence(disk'[p].cells)
    BY <2>3 DEF ContentsInv, AllIn, AreContents, IsContent
  <2>5. Len(disk'[p].cells) \in Nat
    BY <2>4, LenProperties DEF IsSequence
  <2>. QED
    BY <2>2, <2>5 DEF Starts, p
<1>6. CASE i = j /\ EntryGrown(j) /\ f = h
  <2>. DEFINE n == jobs[j].at + 1
              entry == EntryInHand(j)
  <2>1. /\ jobs[j].stage = "write" /\ jobs'[j].stage = "write"
        /\ jobs'[j].at = n
        /\ jobs'[j].todo = jobs[j].todo
        /\ jobs'[j].placed = jobs[j].placed
        /\ jobs'[j].document = jobs[j].document
        /\ jobs[j].at # Len(entry.cells)
        /\ disk' = [disk EXCEPT ![jobs[j].path] = Overlay(@, entry, n)]
    BY <1>6, AllFields DEF EntryGrown, Moves, Keeps
  <2>2. TodoOK(jobs[j], stopped)
    BY <2>1 DEF TodoInv
  <2>3. /\ h \in DOMAIN jobs[j].document.files
        /\ p = jobs[j].path
        /\ jobs[j].at \in Nat
        /\ jobs[j].at <= Len(entry.cells)
    BY <1>6, <2>1, <2>2 DEF TodoOK, EntryInHand
  <2>4. jobs[j].path \in DOMAIN disk
    BY <2>1, FileInHandIsThere
  <2>5. IsSequence(entry.cells) /\ IsSequence(disk[jobs[j].path].cells)
    BY <2>3, <2>4, EntryIsContent, FileIsContent DEF EntryInHand
  <2>6. n \in Nat /\ n <= Len(entry.cells)
    <3>1. Len(entry.cells) \in Nat
      BY <2>5, LenProperties DEF IsSequence
    <3>. QED
      BY <2>1, <2>3, <3>1
  <2>7. disk'[p] = Overlay(disk[jobs[j].path], entry, n)
    BY <2>1, <2>3, <2>4
  <2>8. Written(jobs'[j], f) = n
    BY <1>6, <2>1 DEF Written
  <2>9. jobs'[i].document.files[f] = entry
    BY <1>6, <2>1 DEF EntryInHand
  <2>. HIDE DEF p, n, entry
  <2>10. Starts(disk'[p].cells, entry.cells, n)
    BY <2>5, <2>6, <2>7, OverlayStarts
  <2>. QED
    BY <1>6, <2>8, <2>9, <2>10 DEF p
<1>7. CASE i = j /\ (EntryOpened(j) \/ EntryGrown(j) => f # h)
  <2>1. f \in DOMAIN jobs[j].placed /\ jobs[j].placed[f] = p
    <3>1. CASE EntryOpened(j)
      BY <1>2, <1>7, <3>1 DEF EntryOpened, Put
    <3>2. CASE jobs'[j].placed = jobs[j].placed
      BY <1>2, <1>7, <3>2
    <3>. QED
      BY <3>1, <3>2, AllFields
      DEF Effect, UnpackEffect, PackEffect, Failed, Passed, Named, Prepared,
          EntriesThrough, EntrySkipped, EntryNamed, EntryLeft, EntryGrown,
          EntryEnded, ConfigNamed, ConfigSaved, PackGivenUp, Collected, PboWritten,
          PboNotWritten, Keeps
  <2>2. /\ jobs'[j].document = jobs[j].document
        /\ Written(jobs'[j], f) = Written(jobs[j], f)
    BY <1>2, <1>7, <2>1, WrittenStaysWritten
  <2>. QED
    BY <1>3, <1>7, <2>1, <2>2
<1>. QED
  BY <1>4, <1>5, <1>6, <1>7

\* A PBO that is packed stays there, if no other job writes to it.
LEMMA PackedStays ==
  ASSUME CommandInv, StageInv, PackedInv, NEW j \in DOMAIN jobs, Effect(j),
         DOMAIN disk \subseteq DOMAIN disk'
  PROVE  PackedInv'
<1>1. /\ DOMAIN jobs' = DOMAIN jobs
      /\ \A i \in DOMAIN jobs: i # j => jobs'[i] = jobs[i]
      /\ UNCHANGED <<command, stopped>>
  BY EffectKeeps
<1>2. SUFFICES ASSUME command.verb = "pack", ~stopped,
                      NEW i \in DOMAIN jobs,
                      jobs'[i].stage = "ended", jobs'[i].quiet
               PROVE  /\ jobs'[i].progress = jobs'[i].size
                      /\ jobs'[i].path \in DOMAIN disk'
                      /\ ~Shared(i)' => disk'[jobs'[i].path] = PboFile(jobs'[i].document)
  BY <1>1 DEF PackedInv
<1>3. jobs[j].stage \in {"write pbo", "ended"} =>
        jobs'[j].stage \in {"write pbo", "ended"} /\ jobs'[j].path = jobs[j].path
  BY AllFields
  DEF Effect, UnpackEffect, PackEffect, Failed, Passed, Named, Prepared,
      EntriesThrough, EntrySkipped, EntryNamed, EntryLeft, EntryOpened, EntryGrown,
      EntryEnded, ConfigNamed, ConfigSaved, PackGivenUp, Collected, PboWritten,
      PboNotWritten, Keeps, Moves
<1>4. ASSUME jobs'[i].path = jobs[i].path, Shared(i)
      PROVE  Shared(i)'
  BY <1>1, <1>3, <1>4 DEF Shared
<1>5. jobs[j].stage \in PackStages
  BY <1>2 DEF StageInv
<1>6. disk' = disk \/ PboWritten(j)
  BY <1>5
  DEF Effect, UnpackEffect, PackEffect, Failed, Passed, Named, Prepared,
      EntriesThrough, EntrySkipped, EntryNamed, EntryLeft, EntryOpened, EntryGrown,
      EntryEnded, ConfigNamed, ConfigSaved, PackGivenUp, Collected,
      PboNotWritten, Moves, PackStages
<1>7. CASE i # j
  <2>1. /\ jobs[i].progress = jobs[i].size
        /\ jobs[i].path \in DOMAIN disk
        /\ ~Shared(i) => disk[jobs[i].path] = PboFile(jobs[i].document)
    BY <1>1, <1>2, <1>7 DEF PackedInv
  <2>2. ASSUME ~Shared(i)'
        PROVE  disk'[jobs[i].path] = disk[jobs[i].path]
    <3>1. CASE disk' = disk
      BY <3>1
    <3>2. CASE PboWritten(j)
      <4>1. jobs'[j].stage = "ended" /\ jobs'[j].path = jobs[j].path
        BY <3>2, AllFields DEF PboWritten, Moves, Keeps
      <4>2. jobs[j].path # jobs[i].path
        BY <1>1, <1>7, <2>2, <4>1 DEF Shared
      <4>3. PICK content: disk' = Put(disk, jobs[j].path, content)
        BY <3>2 DEF PboWritten
      <4>. QED
        BY <2>1, <4>2, <4>3 DEF Put
    <3>. QED
      BY <1>6, <3>1, <3>2
  <2>. QED
    BY <1>1, <1>4, <1>7, <2>1, <2>2
<1>8. CASE i = j /\ PboWritten(j)
  <2>1. /\ jobs'[j].progress = jobs'[j].size
        /\ jobs'[j].path = jobs[j].path
        /\ jobs'[j].document = jobs[j].document
    BY <1>8, AllFields DEF PboWritten, Keeps
  <2>2. PICK content: /\ disk' = Put(disk, jobs[j].path, content)
                      /\ Shared(j) \/ content = PboFile(jobs[j].document)
    BY <1>8 DEF PboWritten
  <2>. QED
    BY <1>4, <1>8, <2>1, <2>2 DEF Put
<1>9. CASE i = j /\ ~PboWritten(j)
  BY <1>2, <1>5, <1>9
  DEF Effect, UnpackEffect, PackEffect, Failed, Passed, Named, Prepared,
      EntriesThrough, EntrySkipped, EntryNamed, EntryLeft, EntryOpened, EntryGrown,
      EntryEnded, ConfigNamed, ConfigSaved, PackGivenUp, Collected,
      PboNotWritten, Moves, PackStages, CommandInv
<1>. QED
  BY <1>7, <1>8, <1>9

-----------------------------------------------------------------------------
(* The steps of a command. *)

\* At first, and whenever there is no command, there is no job.
LEMMA NoJobsDone ==
  ASSUME DOMAIN jobs = {}, IsFiniteSet(DOMAIN disk),
         \A p \in DOMAIN disk: IsFilePath(p),
         NEW U, AreContents(U), \A p \in DOMAIN disk: disk[p] \in U
  PROVE  DoneParts
BY DEF DoneParts, StageInv, InputsInv, FilesInv, ContentsInv, AllIn, TodoInv,
       DoneInv, WrittenInv, PackedInv

\* The files of the user hold contents.
LEMMA InitiallyDone == Init => DoneParts
<1>. SUFFICES ASSUME Init
              PROVE  DoneParts
  OBVIOUS
<1>1. disk \in Disks /\ DOMAIN jobs = {}
  BY DEF Init
<1>2. /\ IsFiniteSet(DOMAIN disk)
      /\ \A p \in DOMAIN disk: IsFilePath(p)
      /\ AreContents(Contents)
      /\ \A p \in DOMAIN disk: disk[p] \in Contents
  BY <1>1, ContentsAssumption DEF IsFilePath
<1>. QED
  BY <1>1, <1>2, NoJobsDone

\* The jobs of a new command have all before them.
LEMMA GiveCommandStaysDone ==
  ASSUME KeepInv, ApartInv, DoneParts, NEW c \in Commands,
         NEW asked \in Answers \union {NoPath}, GiveCommand(c, asked)
  PROVE  DoneParts'
<1>1. /\ UNCHANGED disk /\ InputsExist(c) /\ command = NoCommand
      /\ \/ UNCHANGED <<command, mode, answer, before, jobs>>
         \/ command' = c /\ jobs' = [i \in DOMAIN c.inputs |-> NewJob]
  BY DEF GiveCommand
<1>2. FilesInv /\ ContentsInv
  BY DEF DoneParts
<1>3. PICK U: AllIn(U)
  BY <1>2 DEF ContentsInv
<1>4. CASE UNCHANGED <<command, mode, answer, before, jobs>>
  <2>1. DOMAIN jobs' = {}
    BY <1>1, <1>4 DEF ApartInv, GivenInv
  <2>2. /\ IsFiniteSet(DOMAIN disk')
        /\ \A p \in DOMAIN disk': IsFilePath(p)
        /\ \A p \in DOMAIN disk': disk'[p] \in U
        /\ AreContents(U)
    BY <1>1, <1>2, <1>3 DEF FilesInv, AllIn
  <2>. QED
    BY <2>1, <2>2 DEF DoneParts, StageInv, InputsInv, FilesInv, ContentsInv, AllIn,
                      TodoInv, DoneInv, WrittenInv, PackedInv
<1>5. CASE command' = c /\ jobs' = [i \in DOMAIN c.inputs |-> NewJob]
  <2>1. \A j \in DOMAIN jobs': /\ jobs'[j].stage = "waiting"
                               /\ jobs'[j].progress = 0
                               /\ DOMAIN jobs'[j].placed = {}
                               /\ jobs'[j].document = NotPacked("none").doc
    BY <1>5 DEF NewJob
  <2>2. StageInv'
    BY <2>1 DEF StageInv, UnpackStages, PackStages
  <2>3. InputsInv'
    BY <1>1, <1>5 DEF InputsInv, InputsExist
  <2>4. FilesInv'
    BY <1>1, <1>2, <2>1 DEF FilesInv, Holds
  <2>5. IsDocumentOf(U, NotPacked("none").doc)
    <3>1. /\ DOMAIN NotPacked("none").doc.files = {}
          /\ DOMAIN NotPacked("none").doc.headers = {}
      BY DEF NotPacked
    <3>. QED
      BY <3>1, FS_EmptySet DEF IsDocumentOf
  <2>6. ContentsInv'
    <3>1. \A j \in DOMAIN jobs': IsDocumentOf(U, jobs'[j].document)
      BY <2>1, <2>5
    <3>. QED
      BY <1>1, <1>3, <3>1 DEF ContentsInv, AllIn
  <2>7. TodoInv' /\ DoneInv' /\ WrittenInv' /\ PackedInv'
    BY <2>1 DEF TodoInv, DoneInv, WrittenInv, PackedInv
  <2>. QED
    BY <2>2, <2>3, <2>4, <2>6, <2>7 DEF DoneParts
<1>. QED
  BY <1>1, <1>4, <1>5

\* A cancel leaves the jobs where they are, and nothing is promised of them any
\* more.
LEMMA CancelStaysDone ==
  ASSUME DoneParts, Cancel
  PROVE  DoneParts'
<1>1. /\ UNCHANGED disk /\ UNCHANGED jobs /\ UNCHANGED command
      /\ stopped' = TRUE
  BY DEF Cancel, commandVars
<1>2. \A job: TodoOK(job, stopped) => TodoOK(job, TRUE)
  BY DEF TodoOK
<1>3. \A job: DoneOK(job, stopped) => DoneOK(job, TRUE)
  BY DEF DoneOK
<1>4. StageInv' /\ InputsInv' /\ FilesInv' /\ ContentsInv'
  BY <1>1 DEF DoneParts, StageInv, InputsInv, FilesInv, ContentsInv, AllIn
<1>5. TodoInv' /\ DoneInv'
  BY <1>1, <1>2, <1>3 DEF DoneParts, TodoInv, DoneInv
<1>6. WrittenInv' /\ PackedInv'
  BY <1>1 DEF WrittenInv, PackedInv
<1>. QED
  BY <1>4, <1>5, <1>6 DEF DoneParts

\* Whatever the jobs do, and in whatever order.
LEMMA StepStaysDone ==
  KeepInv /\ ApartInv /\ DoneParts /\ [Next]_vars => DoneParts'
<1>. SUFFICES ASSUME KeepInv, ApartInv, DoneParts, [Next]_vars
              PROVE  DoneParts'
  OBVIOUS
<1>1. ASSUME NEW c \in Commands, NEW asked \in Answers \union {NoPath},
             GiveCommand(c, asked)
      PROVE  DoneParts'
  BY <1>1, GiveCommandStaysDone
<1>2. ASSUME NEW j \in DOMAIN jobs, JobStep(j)
      PROVE  DoneParts'
  <2>1. /\ CommandInv
        /\ GivenInv /\ FolderInv /\ PlacedInv
        /\ StageInv /\ InputsInv /\ FilesInv /\ ContentsInv /\ TodoInv
        /\ DoneInv /\ WrittenInv /\ PackedInv
    BY DEF KeepInv, ApartInv, DoneParts
  <2>2. Effect(j)
    BY <1>2, <2>1, StepHasEffect
  <2>3. PlacedInv'
    BY StepStaysApart DEF ApartInv
  <2>4. FilesInv' /\ DOMAIN disk \subseteq DOMAIN disk'
    BY <2>1, <2>2, FilesStay
  <2>5. ContentsInv'
    BY <2>1, <2>2, ContentsStay
  <2>6. StageInv' /\ InputsInv' /\ TodoInv' /\ DoneInv'
    BY <2>1, <2>2, <2>4, StagesStay, InputsStay, TodoStays, DoneStays
  <2>7. WrittenInv' /\ PackedInv'
    BY <2>1, <2>2, <2>3, <2>4, <2>5, WrittenStays, PackedStays
  <2>. QED
    BY <2>4, <2>5, <2>6, <2>7 DEF DoneParts
<1>3. CASE Cancel
  BY <1>3, CancelStaysDone
<1>4. CASE EndCommand
  <2>1. UNCHANGED disk /\ DOMAIN jobs' = {}
    BY <1>4 DEF EndCommand
  <2>2. FilesInv /\ ContentsInv
    BY DEF DoneParts
  <2>. QED
    BY <2>1, <2>2 DEF DoneParts, StageInv, InputsInv, FilesInv, ContentsInv, AllIn,
                      TodoInv, DoneInv, WrittenInv, PackedInv
<1>5. CASE UNCHANGED vars
  <2>1. UNCHANGED disk /\ UNCHANGED jobs /\ UNCHANGED command /\ UNCHANGED stopped
    BY <1>5 DEF vars, commandVars
  <2>2. StageInv' /\ InputsInv' /\ FilesInv'
    BY <2>1 DEF DoneParts, StageInv, InputsInv, FilesInv
  <2>3. ContentsInv'
    BY <2>1 DEF DoneParts, ContentsInv, AllIn
  <2>4. TodoInv' /\ DoneInv'
    BY <2>1 DEF DoneParts, TodoInv, DoneInv
  <2>5. WrittenInv'
    <3>1. \A i \in DOMAIN jobs: \A f \in DOMAIN jobs[i].placed: Sole(i, f)' => Sole(i, f)
      BY <2>1 DEF Sole
    <3>. QED
      BY <2>1, <3>1 DEF DoneParts, WrittenInv
  <2>6. PackedInv'
    BY <2>1 DEF DoneParts, PackedInv, Shared
  <2>. QED
    BY <2>2, <2>3, <2>4, <2>5, <2>6 DEF DoneParts
<1>. QED
  BY <1>1, <1>2, <1>3, <1>4, <1>5 DEF Next

\* What was given once is given to one entry alone.
LEMMA GivenOnceIsSole ==
  ASSUME DoneParts, NEW j \in DOMAIN jobs, Ended(j), jobs[j].quiet,
         command.verb = "unpack", NEW f \in DOMAIN jobs[j].placed, ~GivenTwice(j, f)
  PROVE  Sole(j, f)
<1>1. DoneOK(jobs[j], stopped) /\ jobs[j].stage = "ended"
  BY DEF DoneParts, DoneInv, Ended
<1>2. jobs[j].path # jobs[j].placed[f]
  BY <1>1 DEF DoneOK, GivenTwice
<1>3. ASSUME NEW i \in DOMAIN jobs
      PROVE  /\ \A g \in DOMAIN jobs[i].placed:
                  jobs[i].placed[g] = jobs[j].placed[f] => i = j /\ g = f
             /\ jobs[i].path # jobs[j].placed[f]
  BY <1>2 DEF GivenTwice
<1>. QED
  BY <1>3 DEF Sole

\* The invariant says of the jobs that have ended what is promised.
LEMMA DonePartsMeanDone ==
  ASSUME KeepInv, ApartInv, DoneParts
  PROVE  QuietMeansDone
<1>. SUFFICES ASSUME NEW j \in DOMAIN jobs, Ended(j), jobs[j].quiet
              PROVE  /\ jobs[j].progress = jobs[j].size
                     /\ command.verb = "unpack" =>
                          /\ DOMAIN jobs[j].placed = DOMAIN jobs[j].document.files
                          /\ \A f \in DOMAIN jobs[j].placed:
                               ~GivenTwice(j, f) =>
                                 IsPrefix(jobs[j].document.files[f].cells,
                                          disk[jobs[j].placed[f]].cells)
                     /\ command.verb = "pack" /\ ~Shared(j) =>
                          disk[jobs[j].path] = PboFile(jobs[j].document)
  BY DEF QuietMeansDone
<1>1. jobs[j].stage = "ended" /\ ~stopped
  BY DEF Ended
<1>2. CASE command.verb = "unpack"
  <2>1. DoneOK(jobs[j], stopped)
    BY <1>1, <1>2 DEF DoneParts, DoneInv
  <2>2. /\ jobs[j].progress = jobs[j].size
        /\ DOMAIN jobs[j].placed = DOMAIN jobs[j].document.files
    BY <1>1, <2>1 DEF DoneOK
  <2>3. ASSUME NEW f \in DOMAIN jobs[j].placed, ~GivenTwice(j, f)
        PROVE  IsPrefix(jobs[j].document.files[f].cells,
                        disk[jobs[j].placed[f]].cells)
    <3>1. Sole(j, f)
      BY <1>2, <2>3, GivenOnceIsSole
    <3>2. Starts(disk[jobs[j].placed[f]].cells, jobs[j].document.files[f].cells,
                 Len(jobs[j].document.files[f].cells))
      BY <1>1, <1>2, <2>3, <3>1 DEF DoneParts, WrittenInv, Written
    <3>3. jobs[j].placed[f] \in DOMAIN disk
      BY <2>3 DEF ApartInv, PlacedInv
    <3>4. /\ IsSequence(disk[jobs[j].placed[f]].cells)
          /\ IsSequence(jobs[j].document.files[f].cells)
      BY <2>2, <2>3, <3>3, EntryIsContent, FileIsContent DEF DoneParts
    <3>. QED
      BY <3>2, <3>4, StartsWithAll
  <2>. QED
    BY <1>2, <2>2, <2>3
<1>3. CASE command.verb = "pack"
  BY <1>1, <1>3 DEF DoneParts, PackedInv
<1>4. command.verb \in {"pack", "unpack"}
  BY DEF KeepInv, CommandInv, ApartInv, GivenInv
<1>. QED
  BY <1>2, <1>3, <1>4

(***************************************************************************)
(* A task that ends without a message, and was not cancelled, has done all *)
(* of it: every entry has a file that begins with what it holds, or the    *)
(* PBO is there, and the progress bar is full - whatever the other tasks   *)
(* of the command do meanwhile, as long as none was given the same file.   *)
(***************************************************************************)
THEOREM QuietTasksAreDone == Spec => []QuietMeansDone
<1>1. Init => KeepInv /\ ApartInv /\ DoneParts
  BY Initially, InitiallyApart, InitiallyDone
<1>2. KeepInv /\ ApartInv /\ DoneParts /\ [Next]_vars
        => (KeepInv /\ ApartInv /\ DoneParts)'
  BY StepKeeps, StepStaysApart, StepStaysDone
<1>3. KeepInv /\ ApartInv /\ DoneParts => QuietMeansDone
  BY DonePartsMeanDone
<1>. QED
  BY <1>1, <1>2, <1>3, PTL DEF Spec

(***************************************************************************)
(* What was unpacked can be packed again.                                  *)
(***************************************************************************)

\* The job has come to the folder of its entries, if it came so far.
HasFolder(job) == job.stage \notin {"waiting", "unpack"}

\* The file in hand is in the folder of the job.
FrontInv ==
  command.verb = "unpack" =>
    \A j \in DOMAIN jobs:
      jobs[j].stage \in {"open", "write", "save config"} =>
        Front(jobs[j].path) = jobs[j].folder

\* A file that came with the command is in the folder of a job.
MadeInv ==
  command.verb = "unpack" =>
    \A p \in DOMAIN disk \ DOMAIN before:
      \E i \in DOMAIN jobs: HasFolder(jobs[i]) /\ Front(p) = jobs[i].folder

\* A job with a folder of its own, in which there was nothing, whose entries are
\* named as files may be; nothing went wrong so far.
Alone(j) ==
  LET job == jobs[j]
  IN  /\ HasFolder(job) /\ job.quiet
      /\ FilesIn(before, job.folder) = {}
      /\ \A i \in DOMAIN jobs \ {j}: HasFolder(jobs[i]) => jobs[i].folder # job.folder
      /\ PboJsonName \notin DOMAIN job.document.files
      /\ \A f \in DOMAIN job.document.files: Sanitized(f) = {f}

\* writeToFs over what is not longer: the beginning of the entry, and the entry
\* when it is all of it.
UpTo(entry, n) ==
  IF SubSeq(entry.cells, 1, n) = entry.cells THEN entry
  ELSE Bytes(SubSeq(entry.cells, 1, n))

\* The entries that have a file, and pbo.json at the end.
Made(job) ==
  DOMAIN job.placed \union (IF job.stage = "ended" THEN {PboJsonName} ELSE {})

\* Its folder has these, as far as they are written, under their own names, and
\* no other.
Restored(job) ==
  /\ FilesIn(disk, job.folder) = {Append(job.folder, f): f \in Made(job)}
  /\ \A f \in DOMAIN job.placed:
       /\ job.placed[f] = Append(job.folder, f)
       /\ disk[Append(job.folder, f)] = UpTo(job.document.files[f], Written(job, f))
  /\ job.stage = "open" => job.path = Append(job.folder, Head(job.todo))
  /\ job.stage = "save config" => job.path = Append(job.folder, PboJsonName)
  /\ job.stage = "ended" =>
       disk[Append(job.folder, PboJsonName)] = JsonFile(ExtractFrom(job.document))

RestoredInv ==
  command.verb = "unpack" /\ ~stopped =>
    \A j \in DOMAIN jobs: Alone(j) => Restored(jobs[j])

RepackParts ==
  /\ FrontInv
  /\ MadeInv
  /\ RestoredInv

-----------------------------------------------------------------------------
(* Paths in a folder, and entries over nothing. *)

\* The name in a folder is what was appended to it.
LEMMA LastOfAppend ==
  ASSUME NEW s, IsSequence(s), NEW x
  PROVE  Last(Append(s, x)) = x
<1>1. s \in Seq(ToSet(s) \union {x})
  BY SeqMonotonic DEF IsSequence
<1>2. Len(Append(s, x)) = Len(s) + 1 /\ Append(s, x)[Len(s) + 1] = x
  BY <1>1, AppendProperties
<1>. QED
  BY <1>2 DEF Last

\* Two names make two files.
LEMMA NamesApart ==
  ASSUME NEW s, IsSequence(s), NEW x, NEW y, Append(s, x) = Append(s, y)
  PROVE  x = y
BY LastOfAppend

\* An entry over what is not longer.
LEMMA OverlayIsUpTo ==
  ASSUME NEW old, NEW new, IsSequence(old.cells), IsSequence(new.cells),
         NEW n \in Nat, n <= Len(new.cells), Len(old.cells) <= n
  PROVE  Overlay(old, new, n) = UpTo(new, n)
<1>. DEFINE s == new.cells
            t == old.cells
<1>1. s \in Seq(ToSet(s)) /\ t \in Seq(ToSet(t)) /\ Len(t) \in Nat /\ Len(t) <= n
  BY LenProperties DEF IsSequence
<1>. HIDE DEF s, t
<1>2. SubSeq(t, n + 1, Len(t)) = <<>>
  <2>1. ~(n + 1 <= Len(t))
    BY <1>1
  <2>2. /\ SubSeq(t, n + 1, Len(t)) \in Seq(ToSet(t))
        /\ Len(SubSeq(t, n + 1, Len(t))) = 0
    BY <1>1, <2>1, SubSeqProperties
  <2>. QED
    BY <2>2, EmptySeq
<1>3. SubSeq(s, 1, n) \in Seq(ToSet(s))
  <2>1. CASE n = 0
    BY <1>1, <2>1, SubSeqProperties
  <2>2. CASE n # 0
    <3>1. Len(s) \in Nat /\ n <= Len(s)
      BY <1>1, LenProperties DEF s
    <3>. QED
      BY <1>1, <2>2, <3>1, SubSeqProperties, ElementOfSeq
  <2>. QED
    BY <2>1, <2>2
<1>4. SubSeq(s, 1, n) \o <<>> = SubSeq(s, 1, n)
  BY <1>3, ConcatEmptySeq
<1>. QED
  BY <1>2, <1>4 DEF Overlay, UpTo, s, t

\* A file that is opened is empty, and one that is written has the cells so far.
LEMMA UpToNothing ==
  ASSUME NEW U, NEW entry, IsContent(U, entry)
  PROVE  UpTo(entry, 0) = Bytes(<<>>)
<1>1. entry.cells \in Seq(ToSet(entry.cells))
  BY DEF IsContent, IsSequence
<1>2. SubSeq(entry.cells, 1, 0) = <<>>
  <2>1. /\ SubSeq(entry.cells, 1, 0) \in Seq(ToSet(entry.cells))
        /\ Len(SubSeq(entry.cells, 1, 0)) = 0
    BY <1>1, SubSeqProperties
  <2>. QED
    BY <2>1, EmptySeq
<1>. QED
  BY <1>2 DEF UpTo, IsContent

\* One cell more.
LEMMA UpToGrows ==
  ASSUME NEW entry, IsSequence(entry.cells), NEW n \in Nat, n < Len(entry.cells)
  PROVE  Overlay(UpTo(entry, n), entry, n + 1) = UpTo(entry, n + 1)
<1>. DEFINE s == entry.cells
            t == SubSeq(s, 1, n)
<1>1. s \in Seq(ToSet(s)) /\ Len(s) \in Nat /\ n <= Len(s)
  BY LenProperties DEF IsSequence
<1>2. t \in Seq(ToSet(s)) /\ Len(t) = n
  <2>. HIDE DEF s
  <2>1. CASE n = 0
    BY <1>1, <2>1, SubSeqProperties
  <2>2. CASE n # 0
    BY <1>1, <2>2, SubSeqProperties, ElementOfSeq
  <2>. QED
    BY <2>1, <2>2
<1>3. UpTo(entry, n).cells = t
  BY DEF UpTo, Bytes
<1>. HIDE DEF t
<1>4. IsSequence(UpTo(entry, n).cells) /\ Len(UpTo(entry, n).cells) <= n + 1
  BY <1>2, <1>3, SequenceOver
<1>. QED
  BY <1>1, <1>4, OverlayIsUpTo

\* All of them.
LEMMA UpToAll ==
  ASSUME NEW entry, IsSequence(entry.cells)
  PROVE  UpTo(entry, Len(entry.cells)) = entry
<1>. DEFINE s == entry.cells
<1>1. s \in Seq(ToSet(s)) /\ Len(s) \in Nat
  BY LenProperties DEF IsSequence
<1>. HIDE DEF s
<1>2. SubSeq(s, 1, Len(s)) = s
  <2>1. SubSeq(s, 1, Len(s)) = [i \in 1 .. Len(s) |-> s[i]]
    BY <1>1, SMT
  <2>. QED
    BY <1>1, <2>1
<1>. QED
  BY <1>2 DEF UpTo, s

-----------------------------------------------------------------------------
(* The folders of the jobs. *)

\* The file a job of an unpack may change is in its folder.
LEMMA HeldInFolder ==
  ASSUME StageInv, FrontInv, command.verb = "unpack", NEW j \in DOMAIN jobs,
         Holds(jobs[j])
  PROVE  HasFolder(jobs[j]) /\ Front(jobs[j].path) = jobs[j].folder
<1>1. jobs[j].stage \in UnpackStages
  BY DEF StageInv
<1>2. jobs[j].stage \in {"open", "write", "save config"}
  BY <1>1 DEF Holds, UnpackStages
<1>. QED
  BY <1>2 DEF FrontInv, HasFolder

\* In an unpack nothing is packed.
LEMMA EffectsOfUnpack ==
  ASSUME StageInv, command.verb = "unpack", NEW j \in DOMAIN jobs, Effect(j)
  PROVE  \/ Passed(j, "waiting", "unpack")
         \/ UnpackEffect(j)
<1>1. jobs[j].stage \in UnpackStages
  BY DEF StageInv
<1>. QED
  BY <1>1 DEF Effect, PackEffect, UnpackEffect, Named, PackGivenUp, Collected, Passed,
              PboWritten, PboNotWritten, Moves, UnpackStages

\* A job that has come to its folder keeps it, with the document; what went
\* wrong stays so.
LEMMA FolderIsKept ==
  ASSUME StageInv, command.verb = "unpack", NEW j \in DOMAIN jobs, Effect(j),
         NEW i \in DOMAIN jobs, HasFolder(jobs[i])
  PROVE  /\ HasFolder(jobs'[i])
         /\ jobs'[i].folder = jobs[i].folder
         /\ jobs'[i].document = jobs[i].document
         /\ jobs'[i].quiet => jobs[i].quiet
<1>1. CASE i # j
  <2>1. jobs'[i] = jobs[i]
    BY <1>1, EffectKeeps
  <2>. QED
    BY <2>1 DEF HasFolder
<1>2. CASE i = j
  <2>1. UnpackEffect(j) /\ ~Prepared(j)
    BY <1>2, EffectsOfUnpack DEF Passed, Prepared, Moves, HasFolder
  <2>2. HasFolder(jobs'[j])
    BY <1>2, <2>1
    DEF UnpackEffect, Failed, Passed, Named, EntriesThrough, EntrySkipped, EntryNamed,
        EntryLeft, EntryOpened, EntryGrown, EntryEnded, ConfigNamed, ConfigSaved,
        Moves, HasFolder
  <2>3. jobs'[j].folder = jobs[j].folder /\ jobs'[j].document = jobs[j].document
    BY <2>1, AllFields
    DEF UnpackEffect, Failed, Passed, Named, EntriesThrough, EntrySkipped, EntryNamed,
        EntryLeft, EntryOpened, EntryGrown, EntryEnded, ConfigNamed, ConfigSaved,
        Keeps
  <2>4. jobs'[j].quiet = jobs[j].quiet \/ jobs'[j].quiet = FALSE
    BY <2>1, AllFields
    DEF UnpackEffect, Failed, Passed, Named, EntriesThrough, EntrySkipped, EntryNamed,
        EntryLeft, EntryOpened, EntryGrown, EntryEnded, ConfigNamed, ConfigSaved,
        Keeps
  <2>. QED
    BY <1>2, <2>2, <2>3, <2>4
<1>. QED
  BY <1>1, <1>2

\* The file in hand is chosen in the folder.
LEMMA FrontStays ==
  ASSUME StageInv, FolderInv, FrontInv, command.verb = "unpack",
         NEW j \in DOMAIN jobs, Effect(j)
  PROVE  FrontInv'
<1>1. /\ DOMAIN jobs' = DOMAIN jobs
      /\ \A i \in DOMAIN jobs: i # j => jobs'[i] = jobs[i]
  BY EffectKeeps
<1>2. ASSUME jobs'[j].stage \in {"open", "write", "save config"}
      PROVE  Front(jobs'[j].path) = jobs'[j].folder
  <2>1. IsSequence(jobs[j].folder)
    BY DEF FolderInv
  <2>2. CASE EntryNamed(j) \/ ConfigNamed(j)
    <3>1. PICK name: jobs'[j].path = Resolve(disk, Append(jobs[j].folder, name))
      BY <2>2 DEF EntryNamed, ConfigNamed
    <3>2. jobs'[j].path # NoPath /\ jobs'[j].folder = jobs[j].folder
      BY <2>2, AllFields
      DEF EntryNamed, ConfigNamed, Named, Keeps, IsFilePath, NoPath
    <3>. QED
      BY <2>1, <3>1, <3>2, ResolvedIsBeside
  <2>3. CASE EntryOpened(j) \/ EntryGrown(j)
    <3>1. jobs[j].stage \in {"open", "write"}
      BY <2>3 DEF EntryOpened, EntryGrown, Moves
    <3>2. jobs'[j].path = jobs[j].path /\ jobs'[j].folder = jobs[j].folder
      BY <2>3, AllFields DEF EntryOpened, EntryGrown, Keeps
    <3>. QED
      BY <3>1, <3>2 DEF FrontInv
  <2>. QED
    BY <1>2, <2>2, <2>3, EffectsOfUnpack
    DEF UnpackEffect, Failed, Passed, Prepared, EntriesThrough, EntrySkipped,
        EntryLeft, EntryEnded, ConfigSaved, Moves
<1>3. ASSUME NEW i \in DOMAIN jobs, i # j,
             jobs'[i].stage \in {"open", "write", "save config"}
      PROVE  Front(jobs'[i].path) = jobs'[i].folder
  BY <1>1, <1>3 DEF FrontInv
<1>. QED
  BY <1>1, <1>2, <1>3 DEF FrontInv

\* What an unpack puts on the disk is in the folder of the job.
LEMMA ChangeIsInFolder ==
  ASSUME StageInv, FrontInv, TodoInv, PlacedInv, command.verb = "unpack",
         NEW j \in DOMAIN jobs, Effect(j)
  PROVE  /\ DOMAIN disk \subseteq DOMAIN disk'
         /\ \A p \in DOMAIN disk':
              (p \in DOMAIN disk => disk'[p] # disk[p])
                => HasFolder(jobs[j]) /\ Front(p) = jobs[j].folder
<1>1. \/ disk' = disk
      \/ /\ Holds(jobs[j])
         /\ \E content: disk' = Put(disk, jobs[j].path, content)
  BY DiskChanges, FileInHandIsThere
<1>2. CASE disk' = disk
  BY <1>2
<1>3. ASSUME Holds(jobs[j]), NEW content, disk' = Put(disk, jobs[j].path, content)
      PROVE  /\ DOMAIN disk \subseteq DOMAIN disk'
             /\ \A p \in DOMAIN disk':
                  (p \in DOMAIN disk => disk'[p] # disk[p]) => p = jobs[j].path
  BY <1>3 DEF Put
<1>. QED
  BY <1>1, <1>2, <1>3, HeldInFolder

\* So every file that came with the command is in one of the folders.
LEMMA MadeStays ==
  ASSUME StageInv, FrontInv, TodoInv, PlacedInv, MadeInv, command.verb = "unpack",
         NEW j \in DOMAIN jobs, Effect(j), UNCHANGED before
  PROVE  MadeInv'
<1>1. DOMAIN jobs' = DOMAIN jobs
  BY EffectKeeps
<1>2. ASSUME NEW p \in DOMAIN disk' \ DOMAIN before
      PROVE  \E i \in DOMAIN jobs: HasFolder(jobs[i]) /\ Front(p) = jobs[i].folder
  <2>1. CASE p \in DOMAIN disk
    BY <2>1 DEF MadeInv
  <2>2. CASE p \notin DOMAIN disk
    BY <2>2, ChangeIsInFolder
  <2>. QED
    BY <2>1, <2>2
<1>3. \A i \in DOMAIN jobs:
        HasFolder(jobs[i]) =>
          HasFolder(jobs'[i]) /\ jobs'[i].folder = jobs[i].folder
  BY FolderIsKept
<1>4. \A p \in DOMAIN disk' \ DOMAIN before:
        \E i \in DOMAIN jobs': HasFolder(jobs'[i]) /\ Front(p) = jobs'[i].folder
  BY <1>1, <1>2, <1>3
<1>. QED
  BY <1>4 DEF MadeInv, HasFolder

\* A job that has its folder to itself had it to itself.
LEMMA AloneWasAlone ==
  ASSUME StageInv, command.verb = "unpack", NEW j \in DOMAIN jobs, Effect(j),
         UNCHANGED before, NEW k \in DOMAIN jobs, HasFolder(jobs[k]), Alone(k)'
  PROVE  Alone(k)
<1>1. DOMAIN jobs' = DOMAIN jobs
  BY EffectKeeps
<1>2. \A i \in DOMAIN jobs:
        HasFolder(jobs[i]) =>
          /\ HasFolder(jobs'[i])
          /\ jobs'[i].folder = jobs[i].folder
          /\ jobs'[i].document = jobs[i].document
          /\ jobs'[i].quiet => jobs[i].quiet
  BY FolderIsKept
<1>3. /\ jobs'[k].quiet
      /\ FilesIn(before, jobs'[k].folder) = {}
      /\ \A i \in DOMAIN jobs \ {k}:
           HasFolder(jobs'[i]) => jobs'[i].folder # jobs'[k].folder
      /\ PboJsonName \notin DOMAIN jobs'[k].document.files
      /\ \A f \in DOMAIN jobs'[k].document.files: Sanitized(f) = {f}
  BY <1>1 DEF Alone, HasFolder
<1>. QED
  BY <1>2, <1>3 DEF Alone

\* What is in its folder is left to it.
LEMMA FolderIsLeftAlone ==
  ASSUME StageInv, FrontInv, TodoInv, PlacedInv, command.verb = "unpack",
         NEW j \in DOMAIN jobs, Effect(j), NEW k \in DOMAIN jobs, k # j, Alone(k)
  PROVE  /\ FilesIn(disk', jobs[k].folder) = FilesIn(disk, jobs[k].folder)
         /\ \A p \in FilesIn(disk, jobs[k].folder): disk'[p] = disk[p]
<1>1. HasFolder(jobs[j]) => jobs[j].folder # jobs[k].folder
  BY DEF Alone
<1>2. /\ DOMAIN disk \subseteq DOMAIN disk'
      /\ \A p \in DOMAIN disk':
           (p \in DOMAIN disk => disk'[p] # disk[p])
             => HasFolder(jobs[j]) /\ Front(p) = jobs[j].folder
  BY ChangeIsInFolder
<1>. QED
  BY <1>1, <1>2 DEF FilesIn

-----------------------------------------------------------------------------
(* What the job puts into its folder. *)

\* An entry that is in hand has no file until it is opened.
LEMMA NewFileIsNew ==
  ASSUME NEW job, IsSequence(job.folder), Restored(job), job.stage # "ended",
         NEW name, name \notin DOMAIN job.placed
  PROVE  Append(job.folder, name) \notin DOMAIN disk
<1>1. SUFFICES ASSUME Append(job.folder, name) \in DOMAIN disk
               PROVE  FALSE
  OBVIOUS
<1>2. Append(job.folder, name) \in FilesIn(disk, job.folder)
  BY <1>1, FrontOfAppend DEF FilesIn
<1>3. FilesIn(disk, job.folder) = {Append(job.folder, f): f \in DOMAIN job.placed}
  BY DEF Restored, Made
<1>4. PICK f \in DOMAIN job.placed: Append(job.folder, f) = Append(job.folder, name)
  BY <1>2, <1>3
<1>. QED
  BY <1>4, NamesApart

\* So it gets its own name.
LEMMA NewFileIsNamed ==
  ASSUME NEW job, IsSequence(job.folder), Restored(job), job.stage # "ended",
         NEW name, name \notin DOMAIN job.placed
  PROVE  Resolve(disk, Append(job.folder, name)) = Append(job.folder, name)
BY NewFileIsNew DEF Resolve

\* A file more in the folder.
LEMMA OneMoreFile ==
  ASSUME NEW folder, IsSequence(folder), NEW S, NEW name, NEW content,
         FilesIn(disk, folder) = {Append(folder, f): f \in S}
  PROVE  FilesIn(Put(disk, Append(folder, name), content), folder)
           = {Append(folder, f): f \in S \union {name}}
<1>. DEFINE path == Append(folder, name)
<1>1. Front(path) = folder
  BY FrontOfAppend
<1>2. DOMAIN Put(disk, path, content) = DOMAIN disk \union {path}
  BY DEF Put
<1>3. FilesIn(Put(disk, path, content), folder) = FilesIn(disk, folder) \union {path}
  <2>. HIDE DEF path
  <2>. QED
    BY <1>1, <1>2 DEF FilesIn
<1>. QED
  BY <1>3

\* The others stay as they are.
LEMMA OtherFilesStay ==
  ASSUME NEW folder, IsSequence(folder), NEW name, NEW content, NEW f, f # name,
         Append(folder, f) \in DOMAIN disk
  PROVE  Put(disk, Append(folder, name), content)[Append(folder, f)]
           = disk[Append(folder, f)]
<1>1. Append(folder, f) # Append(folder, name)
  BY NamesApart
<1>. QED
  BY <1>1 DEF Put

\* What is restored is there.
LEMMA RestoredIsThere ==
  ASSUME NEW job, Restored(job), NEW f \in Made(job)
  PROVE  Append(job.folder, f) \in DOMAIN disk
<1>1. Append(job.folder, f) \in FilesIn(disk, job.folder)
  BY DEF Restored
<1>. QED
  BY <1>1 DEF FilesIn

\* A step that writes nothing.
LEMMA RestoredStaysSo ==
  ASSUME NEW j \in DOMAIN jobs, Restored(jobs[j]), disk' = disk,
         jobs'[j].folder = jobs[j].folder,
         jobs'[j].placed = jobs[j].placed,
         jobs'[j].document = jobs[j].document,
         jobs[j].stage # "ended", jobs'[j].stage # "ended",
         \A f \in DOMAIN jobs[j].placed: Written(jobs'[j], f) = Written(jobs[j], f),
         jobs'[j].stage = "open" =>
           jobs'[j].path = Append(jobs[j].folder, Head(jobs'[j].todo)),
         jobs'[j].stage = "save config" =>
           jobs'[j].path = Append(jobs[j].folder, PboJsonName)
  PROVE  Restored(jobs[j])'
<1>1. Made(jobs'[j]) = Made(jobs[j])
  BY DEF Made
<1>2. FilesIn(disk', jobs'[j].folder) = {Append(jobs'[j].folder, f): f \in Made(jobs'[j])}
  BY <1>1 DEF Restored
<1>3. ASSUME NEW f \in DOMAIN jobs'[j].placed
      PROVE  /\ jobs'[j].placed[f] = Append(jobs'[j].folder, f)
             /\ disk'[Append(jobs'[j].folder, f)]
                  = UpTo(jobs'[j].document.files[f], Written(jobs'[j], f))
  BY DEF Restored
<1>. QED
  BY <1>2, <1>3 DEF Restored

\* The folder is found empty.
LEMMA RestoredAtFirst ==
  ASSUME FolderInv, MadeInv, StageInv, command.verb = "unpack", NEW j \in DOMAIN jobs,
         Effect(j), Prepared(j), UNCHANGED before, Alone(j)'
  PROVE  Restored(jobs[j])'
<1>1. /\ jobs[j].stage = "unpack" /\ jobs'[j].stage = "entry"
      /\ disk' = disk
      /\ jobs'[j].placed = jobs[j].placed
      /\ DOMAIN jobs' = DOMAIN jobs
      /\ \A i \in DOMAIN jobs: i # j => jobs'[i] = jobs[i]
  BY AllFields DEF Prepared, Moves, Keeps
<1>2. DOMAIN jobs'[j].placed = {}
  BY <1>1 DEF FolderInv
<1>3. /\ FilesIn(before, jobs'[j].folder) = {}
      /\ \A i \in DOMAIN jobs \ {j}:
           HasFolder(jobs[i]) => jobs[i].folder # jobs'[j].folder
  BY <1>1 DEF Alone, HasFolder
<1>4. ~HasFolder(jobs[j])
  BY <1>1 DEF HasFolder
<1>5. ASSUME NEW p \in DOMAIN disk, Front(p) = jobs'[j].folder
      PROVE  FALSE
  <2>1. CASE p \in DOMAIN before
    BY <1>3, <1>5, <2>1 DEF FilesIn
  <2>2. CASE p \notin DOMAIN before
    BY <1>3, <1>4, <1>5, <2>2 DEF MadeInv
  <2>. QED
    BY <2>1, <2>2
<1>6. FilesIn(disk', jobs'[j].folder) = {} /\ Made(jobs'[j]) = {}
  BY <1>1, <1>2, <1>5 DEF FilesIn, Made
<1>. QED
  BY <1>1, <1>2, <1>6 DEF Restored

\* An entry gets the file of its name.
LEMMA RestoredAtNaming ==
  ASSUME FolderInv, TodoInv, ~stopped, NEW j \in DOMAIN jobs, EntryNamed(j),
         Alone(j), Restored(jobs[j])
  PROVE  Restored(jobs[j])'
<1>1. /\ jobs[j].stage = "entry" /\ jobs'[j].stage = "open" /\ disk' = disk
      /\ jobs[j].todo # <<>> /\ jobs'[j].todo = jobs[j].todo
      /\ jobs'[j].folder = jobs[j].folder
      /\ jobs'[j].placed = jobs[j].placed
      /\ jobs'[j].document = jobs[j].document
  BY AllFields DEF EntryNamed, Named, Moves, Keeps
<1>. DEFINE f == Head(jobs[j].todo)
<1>2. TodoOK(jobs[j], stopped) /\ IsSequence(jobs[j].folder)
  BY <1>1 DEF TodoInv, FolderInv
<1>3. /\ f \in DOMAIN jobs[j].document.files
      /\ f \notin DOMAIN jobs[j].placed
  <2>1. f \in ToSet(jobs[j].todo)
    BY <1>1, <1>2, TailInSequence DEF TodoOK
  <2>. QED
    BY <1>1, <1>2, <2>1 DEF TodoOK
<1>4. Sanitized(f) = {f}
  BY <1>3 DEF Alone
<1>. HIDE DEF f
<1>5. jobs'[j].path = Resolve(disk, Append(jobs[j].folder, f))
  BY <1>4 DEF EntryNamed, f
<1>6. jobs'[j].path = Append(jobs[j].folder, f)
  BY <1>1, <1>2, <1>3, <1>5, NewFileIsNamed
<1>7. \A g \in DOMAIN jobs[j].placed: Written(jobs'[j], g) = Written(jobs[j], g)
  BY <1>1 DEF Written
<1>. QED
  BY <1>1, <1>6, <1>7, RestoredStaysSo DEF f

\* The file that is opened is a new one.
LEMMA RestoredAtOpening ==
  ASSUME FolderInv, TodoInv, ContentsInv, ~stopped, NEW j \in DOMAIN jobs,
         EntryOpened(j), Restored(jobs[j])
  PROVE  Restored(jobs[j])'
<1>. DEFINE name == Head(jobs[j].todo)
            folder == jobs[j].folder
            files == jobs[j].document.files
            path == Append(folder, name)
            new == Put(disk, path, Bytes(<<>>))
<1>1. /\ jobs[j].stage = "open" /\ jobs'[j].stage = "write"
      /\ jobs'[j].at = 0
      /\ jobs'[j].todo = jobs[j].todo
      /\ jobs'[j].placed = Put(jobs[j].placed, name, jobs[j].path)
      /\ jobs'[j].folder = folder
      /\ jobs'[j].document = jobs[j].document
      /\ disk' = Opened(disk, jobs[j].path)
  BY AllFields DEF EntryOpened, Moves, Keeps
<1>2. TodoOK(jobs[j], stopped) /\ IsSequence(folder)
  BY <1>1 DEF TodoInv, FolderInv
<1>3. name \in DOMAIN files /\ name \notin DOMAIN jobs[j].placed
  <2>1. name \in ToSet(jobs[j].todo)
    BY <1>1, <1>2, TailInSequence DEF TodoOK
  <2>. QED
    BY <1>1, <1>2, <2>1 DEF TodoOK
<1>4. jobs[j].path = path
  BY <1>1 DEF Restored
<1>5. path \notin DOMAIN disk
  BY <1>1, <1>2, <1>3, NewFileIsNew
<1>6. disk' = new
  BY <1>1, <1>4, <1>5 DEF Opened
<1>7. UpTo(files[name], 0) = Bytes(<<>>)
  <2>1. PICK U: IsContent(U, files[name])
    BY <1>3 DEF ContentsInv, AllIn, IsDocumentOf, AreContents
  <2>. QED
    BY <2>1, UpToNothing
<1>8. /\ Made(jobs[j]) = DOMAIN jobs[j].placed
      /\ Made(jobs'[j]) = DOMAIN jobs[j].placed \union {name}
  BY <1>1 DEF Made, Put
<1>9. FilesIn(disk', folder) = {Append(folder, f): f \in Made(jobs'[j])}
  <2>1. FilesIn(disk, folder) = {Append(folder, f): f \in DOMAIN jobs[j].placed}
    BY <1>8 DEF Restored
  <2>. HIDE DEF name, folder
  <2>2. FilesIn(new, folder)
          = {Append(folder, f): f \in DOMAIN jobs[j].placed \union {name}}
    BY <1>2, <2>1, OneMoreFile
  <2>. HIDE DEF new
  <2>. QED
    BY <1>6, <1>8, <2>2
<1>10. disk'[path] = Bytes(<<>>)
  BY <1>6 DEF Put
<1>11. ASSUME NEW f \in DOMAIN jobs[j].placed
       PROVE  /\ f # name
              /\ jobs[j].placed[f] = Append(folder, f)
              /\ disk'[Append(folder, f)] = UpTo(files[f], Len(files[f].cells))
  <2>1. f # name
    BY <1>3
  <2>2. /\ jobs[j].placed[f] = Append(folder, f)
        /\ disk[Append(folder, f)] = UpTo(files[f], Written(jobs[j], f))
    BY DEF Restored
  <2>3. Written(jobs[j], f) = Len(files[f].cells)
    BY <1>1 DEF Written
  <2>4. Append(folder, f) \in DOMAIN disk
    BY <1>8, RestoredIsThere
  <2>. HIDE DEF name, folder
  <2>5. new[Append(folder, f)] = disk[Append(folder, f)]
    BY <1>2, <2>1, <2>4, OtherFilesStay
  <2>. HIDE DEF new
  <2>. QED
    BY <1>6, <2>1, <2>2, <2>3, <2>5
<1>12. DOMAIN jobs'[j].placed = DOMAIN jobs[j].placed \union {name}
  BY <1>1 DEF Put
<1>. HIDE DEF path, new
<1>13. ASSUME NEW f \in DOMAIN jobs'[j].placed
       PROVE  /\ jobs'[j].placed[f] = Append(folder, f)
              /\ disk'[Append(folder, f)] = UpTo(files[f], Written(jobs'[j], f))
  <2>1. CASE f = name
    <3>1. jobs'[j].placed[f] = path
      BY <1>1, <1>4, <2>1 DEF Put
    <3>2. Written(jobs'[j], f) = 0
      BY <1>1, <2>1 DEF Written
    <3>. QED
      BY <1>7, <1>10, <2>1, <3>1, <3>2 DEF path
  <2>2. CASE f # name
    <3>1. f \in DOMAIN jobs[j].placed
      BY <1>12, <2>2
    <3>2. jobs'[j].placed[f] = jobs[j].placed[f]
      BY <1>1, <2>2, <3>1 DEF Put
    <3>3. Written(jobs'[j], f) = Len(files[f].cells)
      BY <1>1, <2>2 DEF Written
    <3>. QED
      BY <1>11, <3>1, <3>2, <3>3
  <2>. QED
    BY <2>1, <2>2
<1>. QED
  BY <1>1, <1>9, <1>13 DEF Restored

\* And is written a cell at a time.
LEMMA RestoredAtWriting ==
  ASSUME FolderInv, TodoInv, PlacedInv, ContentsInv, ~stopped, NEW j \in DOMAIN jobs,
         EntryGrown(j), Restored(jobs[j])
  PROVE  Restored(jobs[j])'
<1>. DEFINE name == Head(jobs[j].todo)
            folder == jobs[j].folder
            files == jobs[j].document.files
            path == Append(folder, name)
            n == jobs[j].at
<1>1. /\ jobs[j].stage = "write" /\ jobs'[j].stage = "write"
      /\ n # Len(files[name].cells)
      /\ jobs'[j].at = n + 1
      /\ jobs'[j].todo = jobs[j].todo
      /\ jobs'[j].placed = jobs[j].placed
      /\ jobs'[j].folder = folder
      /\ jobs'[j].document = jobs[j].document
      /\ disk' = [disk EXCEPT ![jobs[j].path]
                    = Overlay(disk[jobs[j].path], files[name], n + 1)]
  BY AllFields DEF EntryGrown, EntryInHand, Moves, Keeps
<1>2. TodoOK(jobs[j], stopped) /\ IsSequence(folder)
  BY <1>1 DEF TodoInv, FolderInv
<1>3. /\ name \in DOMAIN jobs[j].placed
      /\ name \in DOMAIN files
      /\ jobs[j].placed[name] = jobs[j].path
      /\ n \in Nat /\ n <= Len(files[name].cells)
  BY <1>1, <1>2 DEF TodoOK
<1>4. jobs[j].path = path /\ disk[path] = UpTo(files[name], n)
  <2>1. Written(jobs[j], name) = n
    BY <1>1 DEF Written
  <2>. QED
    BY <1>3, <2>1 DEF Restored
<1>5. path \in DOMAIN disk
  BY <1>3, <1>4 DEF PlacedInv
<1>6. Overlay(UpTo(files[name], n), files[name], n + 1) = UpTo(files[name], n + 1)
  <2>1. IsSequence(files[name].cells)
    BY <1>3, EntryIsContent
  <2>2. n < Len(files[name].cells)
    <3>1. Len(files[name].cells) \in Nat
      BY <2>1, LenProperties DEF IsSequence
    <3>. HIDE DEF n
    <3>. QED
      BY <1>1, <1>3, <3>1
  <2>. QED
    BY <1>3, <2>1, <2>2, UpToGrows
<1>. HIDE DEF path
<1>7. disk' = [disk EXCEPT ![path] = UpTo(files[name], n + 1)]
  BY <1>1, <1>4, <1>6
<1>8. Made(jobs'[j]) = Made(jobs[j])
  BY <1>1 DEF Made
<1>9. FilesIn(disk', folder) = {Append(folder, f): f \in Made(jobs'[j])}
  <2>1. FilesIn(disk', folder) = FilesIn(disk, folder)
    BY <1>7 DEF FilesIn
  <2>. QED
    BY <1>8, <2>1 DEF Restored
<1>10. ASSUME NEW f \in DOMAIN jobs[j].placed
       PROVE  /\ jobs[j].placed[f] = Append(folder, f)
              /\ disk'[Append(folder, f)] = UpTo(files[f], Written(jobs'[j], f))
  <2>1. /\ jobs[j].placed[f] = Append(folder, f)
        /\ disk[Append(folder, f)] = UpTo(files[f], Written(jobs[j], f))
    BY DEF Restored
  <2>2. CASE f = name
    <3>1. Written(jobs'[j], f) = n + 1
      BY <1>1, <2>2 DEF Written
    <3>2. disk'[path] = UpTo(files[name], n + 1)
      BY <1>5, <1>7
    <3>. QED
      BY <2>1, <2>2, <3>1, <3>2 DEF path
  <2>3. CASE f # name
    <3>1. Written(jobs'[j], f) = Written(jobs[j], f)
      BY <1>1, <2>3 DEF Written
    <3>2. Append(folder, f) # path
      <4>. HIDE DEF name, folder
      <4>. QED
        BY <1>2, <2>3, NamesApart DEF path
    <3>3. disk'[Append(folder, f)] = disk[Append(folder, f)]
      <4>1. Append(folder, f) \in DOMAIN disk
        BY <2>1 DEF PlacedInv
      <4>. QED
        BY <1>7, <3>2, <4>1
    <3>. QED
      BY <2>1, <3>1, <3>3
  <2>. QED
    BY <2>2, <2>3
<1>11. \A f \in DOMAIN jobs'[j].placed:
         /\ jobs'[j].placed[f] = Append(folder, f)
         /\ disk'[Append(folder, f)] = UpTo(files[f], Written(jobs'[j], f))
  BY <1>1, <1>10
<1>12. jobs'[j].stage = "write" /\ jobs'[j].folder = folder
         /\ jobs'[j].document.files = files
  BY <1>1
<1>. HIDE DEF folder, files, name
<1>. QED
  BY <1>9, <1>11, <1>12 DEF Restored

\* pbo.json gets its own name, as no entry has it.
LEMMA RestoredAtConfig ==
  ASSUME FolderInv, DoneInv, command.verb = "unpack", NEW j \in DOMAIN jobs,
         ConfigNamed(j), Alone(j), Restored(jobs[j])
  PROVE  Restored(jobs[j])'
<1>1. /\ jobs[j].stage = "config" /\ jobs'[j].stage = "save config" /\ disk' = disk
      /\ jobs'[j].folder = jobs[j].folder
      /\ jobs'[j].placed = jobs[j].placed
      /\ jobs'[j].document = jobs[j].document
      /\ jobs'[j].path = Resolve(disk, Append(jobs[j].folder, PboJsonName))
  BY AllFields DEF ConfigNamed, Named, Moves, Keeps
<1>2. IsSequence(jobs[j].folder)
  BY DEF FolderInv
<1>3. PboJsonName \notin DOMAIN jobs[j].placed
  <2>1. DOMAIN jobs[j].placed \subseteq DOMAIN jobs[j].document.files
    BY <1>1 DEF DoneInv, DoneOK
  <2>. QED
    BY <2>1 DEF Alone
<1>4. jobs'[j].path = Append(jobs[j].folder, PboJsonName)
  BY <1>1, <1>2, <1>3, NewFileIsNamed
<1>5. \A g \in DOMAIN jobs[j].placed: Written(jobs'[j], g) = Written(jobs[j], g)
  BY <1>1 DEF Written
<1>. QED
  BY <1>1, <1>4, <1>5, RestoredStaysSo

\* And comes to the others.
LEMMA RestoredAtSaving ==
  ASSUME FolderInv, DoneInv, command.verb = "unpack", NEW j \in DOMAIN jobs,
         ConfigSaved(j), Alone(j), Restored(jobs[j])
  PROVE  Restored(jobs[j])'
<1>. DEFINE folder == jobs[j].folder
            files == jobs[j].document.files
            path == Append(folder, PboJsonName)
            json == JsonFile(ExtractFrom(jobs[j].document))
            new == Put(disk, path, json)
<1>1. /\ jobs[j].stage = "save config" /\ jobs'[j].stage = "ended"
      /\ jobs'[j].folder = folder
      /\ jobs'[j].placed = jobs[j].placed
      /\ jobs'[j].document = jobs[j].document
      /\ disk' = Put(disk, jobs[j].path, json)
  BY AllFields DEF ConfigSaved, Moves, Keeps
<1>2. IsSequence(folder)
  BY DEF FolderInv
<1>3. PboJsonName \notin DOMAIN jobs[j].placed
  <2>1. DOMAIN jobs[j].placed \subseteq DOMAIN files
    BY <1>1 DEF DoneInv, DoneOK
  <2>. QED
    BY <2>1 DEF Alone
<1>4. disk' = new
  BY <1>1 DEF Restored
<1>5. /\ Made(jobs[j]) = DOMAIN jobs[j].placed
      /\ Made(jobs'[j]) = DOMAIN jobs[j].placed \union {PboJsonName}
  BY <1>1 DEF Made
<1>6. FilesIn(disk, folder) = {Append(folder, f): f \in DOMAIN jobs[j].placed}
  BY <1>5 DEF Restored
<1>7. ASSUME NEW f \in DOMAIN jobs[j].placed
      PROVE  /\ f # PboJsonName
             /\ jobs[j].placed[f] = Append(folder, f)
             /\ disk[Append(folder, f)] = UpTo(files[f], Written(jobs'[j], f))
             /\ Append(folder, f) \in DOMAIN disk
  <2>1. Written(jobs'[j], f) = Written(jobs[j], f)
    BY <1>1 DEF Written
  <2>. QED
    BY <1>3, <1>5, <2>1, RestoredIsThere DEF Restored
<1>8. new[path] = json
  BY DEF Put
<1>. HIDE DEF folder, json
<1>9. FilesIn(new, folder)
        = {Append(folder, f): f \in DOMAIN jobs[j].placed \union {PboJsonName}}
  BY <1>2, <1>6, OneMoreFile
<1>10. \A f \in DOMAIN jobs[j].placed:
         new[Append(folder, f)] = disk[Append(folder, f)]
  BY <1>2, <1>7, OtherFilesStay
<1>. HIDE DEF new, path, files
<1>11. FilesIn(disk', folder) = {Append(folder, f): f \in Made(jobs'[j])}
  BY <1>4, <1>5, <1>9
<1>12. \A f \in DOMAIN jobs[j].placed:
         /\ jobs[j].placed[f] = Append(folder, f)
         /\ disk'[Append(folder, f)] = UpTo(files[f], Written(jobs'[j], f))
  BY <1>4, <1>7, <1>10
<1>13. disk'[Append(folder, PboJsonName)] = json
  BY <1>4, <1>8 DEF path
<1>. QED
  BY <1>1, <1>11, <1>12, <1>13 DEF Restored, json, files

\* What a job that has its folder to itself puts there is what it is to put
\* there.
LEMMA RestoredGoesOn ==
  ASSUME StageInv, FolderInv, PlacedInv, TodoInv, DoneInv, ContentsInv, MadeInv,
         command.verb = "unpack", ~stopped, NEW j \in DOMAIN jobs, Effect(j),
         UNCHANGED before, Alone(j)',
         HasFolder(jobs[j]) => Alone(j) /\ Restored(jobs[j])
  PROVE  Restored(jobs[j])'
<1>1. HasFolder(jobs'[j]) /\ jobs'[j].quiet
  BY DEF Alone
<1>2. UnpackEffect(j)
  <2>1. ~Passed(j, "waiting", "unpack")
    BY <1>1 DEF Passed, Moves, HasFolder
  <2>. QED
    BY <2>1, EffectsOfUnpack
<1>3. ~Failed(j) /\ ~EntrySkipped(j) /\ ~EntryLeft(j)
  BY <1>1 DEF Failed, EntrySkipped, EntryLeft
<1>4. CASE Prepared(j)
  BY <1>4, RestoredAtFirst
<1>5. ~Prepared(j) => Alone(j) /\ Restored(jobs[j])
  BY <1>2, <1>3
  DEF UnpackEffect, Prepared, Passed, Named, EntriesThrough, EntryNamed, EntryOpened,
      EntryGrown, EntryEnded, ConfigNamed, ConfigSaved, Moves, HasFolder
<1>6. CASE EntriesThrough(j)
  <2>1. /\ jobs[j].stage = "entry" /\ jobs'[j].stage = "config" /\ disk' = disk
        /\ jobs'[j].folder = jobs[j].folder
        /\ jobs'[j].placed = jobs[j].placed
        /\ jobs'[j].document = jobs[j].document
    BY <1>6, AllFields DEF EntriesThrough, Passed, Moves, Keeps
  <2>2. \A f \in DOMAIN jobs[j].placed: Written(jobs'[j], f) = Written(jobs[j], f)
    BY <2>1 DEF Written
  <2>3. Restored(jobs[j])
    BY <1>5, <2>1 DEF Prepared, Moves
  <2>. QED
    BY <2>1, <2>2, <2>3, RestoredStaysSo
<1>7. CASE EntryEnded(j)
  <2>1. /\ jobs[j].stage = "write" /\ jobs'[j].stage = "entry" /\ disk' = disk
        /\ jobs'[j].folder = jobs[j].folder
        /\ jobs'[j].placed = jobs[j].placed
        /\ jobs'[j].document = jobs[j].document
        /\ jobs[j].at = Len(EntryInHand(j).cells)
    BY <1>7, AllFields DEF EntryEnded, Moves, Keeps
  <2>2. \A f \in DOMAIN jobs[j].placed: Written(jobs'[j], f) = Written(jobs[j], f)
    BY <2>1 DEF Written, EntryInHand
  <2>3. Restored(jobs[j])
    BY <1>5, <2>1 DEF Prepared, Moves
  <2>. QED
    BY <2>1, <2>2, <2>3, RestoredStaysSo
<1>8. ASSUME EntryNamed(j) \/ EntryOpened(j) \/ EntryGrown(j) \/ ConfigNamed(j)
               \/ ConfigSaved(j)
      PROVE  Alone(j) /\ Restored(jobs[j])
  BY <1>5, <1>8 DEF EntryNamed, EntryOpened, EntryGrown, ConfigNamed, ConfigSaved,
                    Named, Prepared, Moves
<1>. QED
  BY <1>2, <1>3, <1>4, <1>6, <1>7, <1>8, RestoredAtNaming, RestoredAtOpening,
     RestoredAtWriting, RestoredAtConfig, RestoredAtSaving
  DEF UnpackEffect

\* And no other job changes it.
LEMMA RestoredStays ==
  ASSUME StageInv, FolderInv, PlacedInv, TodoInv, DoneInv, ContentsInv,
         FrontInv, MadeInv, RestoredInv, command.verb = "unpack",
         NEW j \in DOMAIN jobs, Effect(j), UNCHANGED before
  PROVE  RestoredInv'
<1>1. /\ DOMAIN jobs' = DOMAIN jobs
      /\ \A i \in DOMAIN jobs: i # j => jobs'[i] = jobs[i]
      /\ UNCHANGED <<command, stopped>>
  BY EffectKeeps
<1>2. SUFFICES ASSUME ~stopped, NEW k \in DOMAIN jobs, Alone(k)'
               PROVE  Restored(jobs[k])'
  BY <1>1 DEF RestoredInv
<1>3. HasFolder(jobs[k]) => Alone(k) /\ Restored(jobs[k])
  <2>1. HasFolder(jobs[k]) => Alone(k)
    BY <1>2, AloneWasAlone
  <2>. QED
    BY <1>2, <2>1 DEF RestoredInv
<1>4. CASE k = j
  BY <1>2, <1>3, <1>4, RestoredGoesOn
<1>5. CASE k # j
  <2>1. jobs'[k] = jobs[k]
    BY <1>1, <1>5
  <2>2. HasFolder(jobs[k])
    BY <1>2, <2>1 DEF Alone
  <2>3. Alone(k) /\ Restored(jobs[k])
    BY <1>3, <2>2
  <2>4. /\ FilesIn(disk', jobs[k].folder) = FilesIn(disk, jobs[k].folder)
        /\ \A p \in FilesIn(disk, jobs[k].folder): disk'[p] = disk[p]
    BY <1>5, <2>3, FolderIsLeftAlone
  <2>5. \A f \in Made(jobs[k]):
          disk'[Append(jobs[k].folder, f)] = disk[Append(jobs[k].folder, f)]
    BY <2>3, <2>4 DEF Restored
  <2>6. /\ DOMAIN jobs[k].placed \subseteq Made(jobs[k])
        /\ jobs[k].stage = "ended" => PboJsonName \in Made(jobs[k])
    BY DEF Made
  <2>7. /\ Made(jobs'[k]) = Made(jobs[k])
        /\ \A f: Written(jobs'[k], f) = Written(jobs[k], f)
    BY <2>1
  <2>8. FilesIn(disk', jobs[k].folder) = {Append(jobs[k].folder, f): f \in Made(jobs[k])}
    BY <2>3, <2>4 DEF Restored
  <2>9. ASSUME NEW f \in DOMAIN jobs[k].placed
        PROVE  /\ jobs[k].placed[f] = Append(jobs[k].folder, f)
               /\ disk'[Append(jobs[k].folder, f)]
                    = UpTo(jobs[k].document.files[f], Written(jobs[k], f))
    BY <2>3, <2>5, <2>6 DEF Restored
  <2>10. /\ jobs[k].stage = "open" =>
               jobs[k].path = Append(jobs[k].folder, Head(jobs[k].todo))
         /\ jobs[k].stage = "save config" =>
               jobs[k].path = Append(jobs[k].folder, PboJsonName)
         /\ jobs[k].stage = "ended" =>
               disk'[Append(jobs[k].folder, PboJsonName)]
                 = JsonFile(ExtractFrom(jobs[k].document))
    BY <2>3, <2>5, <2>6 DEF Restored
  <2>. QED
    BY <2>1, <2>7, <2>8, <2>9, <2>10 DEF Restored
<1>. QED
  BY <1>4, <1>5

-----------------------------------------------------------------------------
(* What is packed again. *)

\* extractCompressionRules makes expressions that are valid.
LEMMA ExtractedRulesAreWellFormed ==
  ASSUME NEW doc
  PROVE  RulesWellFormed(ExtractRules(doc))
<1>. DEFINE Valid(s) == IsSequence(s) /\ \A r \in ToSet(s): r.kind # "invalid"
            a == ExtensionRule(doc, "txt")
            b == ExtensionRule(doc, "xml")
            c == ExtensionRule(doc, "csv")
            d == FileRule(doc, Name("mission", "sqm", 0))
            e == FileRule(doc, Name("description", "ext", 0))
<1>1. Valid(<<>>)
  BY NoPathIsSequence DEF NoPath, ToSet
<1>2. ASSUME NEW r, r.kind # "invalid"
      PROVE  Valid(<<r>>)
  <2>1. IsSequence(<<r>>) /\ ToSet(<<r>>) = {r}
    BY SequenceOfOne
  <2>. QED
    BY <1>2, <2>1
<1>3. \A base, ext: /\ Rule("extension", base, ext).kind # "invalid"
                    /\ Rule("name", base, ext).kind # "invalid"
  BY DEF Rule
<1>4. \A s, t: Valid(s) /\ Valid(t) => Valid(s \o t)
  BY ConcatOf
<1>5. \A s: Valid(s) => RulesWellFormed(s)
  BY PlacesOf DEF RulesWellFormed
<1>. HIDE DEF Valid
<1>6. Valid(a) /\ Valid(b) /\ Valid(c) /\ Valid(d) /\ Valid(e)
  BY <1>1, <1>2, <1>3 DEF ExtensionRule, FileRule
<1>7. ExtractRules(doc) = (((a \o b) \o c) \o d) \o e
  BY DEF ExtractRules
<1>. HIDE DEF a, b, c, d, e
<1>8. Valid((((a \o b) \o c) \o d) \o e)
  BY <1>4, <1>6
<1>. QED
  BY <1>5, <1>7, <1>8

\* The configuration of an unpack is read by a pack as it was meant.
LEMMA ExtractedIsApplied ==
  ASSUME NEW doc, \A i \in DOMAIN doc.headers: HeaderWellFormed(doc.headers[i]),
         NEW files, PboJsonName \in DOMAIN files,
         files[PboJsonName] = JsonFile(ExtractFrom(doc))
  PROVE  /\ Apply(files).outcome = "done"
         /\ Apply(files).doc.headers = doc.headers
         /\ Apply(files).doc.files = [f \in DOMAIN files \ ConfigNames |-> files[f]]
<1>. DEFINE json == ExtractFrom(doc)
<1>1. /\ json.headers = doc.headers
      /\ json.include = ExtractRules(doc)
      /\ json.exclude = <<>>
  BY DEF ExtractFrom
<1>2. JsonFile(json).as = "json" /\ Value(JsonFile(json)) = json
  BY DEF JsonFile, Value
<1>3. RulesWellFormed(json.include) /\ RulesWellFormed(json.exclude)
  BY <1>1, ExtractedRulesAreWellFormed DEF RulesWellFormed
<1>. HIDE DEF json
<1>4. WellFormed(json)
  BY <1>1, <1>3 DEF WellFormed
<1>5. Apply(files)
        = Packed(files, json.headers, {f \in DOMAIN files: ShouldCompress(json, f)})
  BY <1>2, <1>4 DEF Apply, json
<1>. QED
  BY <1>1, <1>5 DEF Packed

\* A folder that has the entries under their names, and pbo.json, packs to the
\* document it came from.
LEMMA RestoredIsRepacked ==
  FolderInv /\ ContentsInv /\ StageInv /\ DoneInv /\ RestoredInv => RepackRestores
<1>. SUFFICES ASSUME FolderInv, ContentsInv, StageInv, DoneInv, RestoredInv,
                     NEW j \in DOMAIN jobs,
                     command.verb = "unpack", Ended(j), jobs[j].quiet,
                     FilesIn(before, jobs[j].folder) = {},
                     \A i \in DOMAIN jobs \ {j}: jobs[i].folder # jobs[j].folder,
                     PboJsonName \notin DOMAIN jobs[j].document.files,
                     \A f \in DOMAIN jobs[j].document.files: Sanitized(f) = {f}
              PROVE  LET doc == jobs[j].document
                         folder == jobs[j].folder
                         files == [f \in {Last(p): p \in FilesIn(disk, folder)} |->
                                     disk[Append(folder, f)]]
                     IN  /\ Apply(files).outcome = "done"
                         /\ Apply(files).doc.headers = doc.headers
                         /\ Apply(files).doc.files
                              = [f \in DOMAIN doc.files \ ConfigNames |-> doc.files[f]]
  BY DEF RepackRestores
<1>. DEFINE doc == jobs[j].document
            folder == jobs[j].folder
            names == {Last(p): p \in FilesIn(disk, folder)}
            files == [f \in names |-> disk[Append(folder, f)]]
<1>1. jobs[j].stage = "ended" /\ ~stopped /\ IsSequence(folder)
  BY DEF Ended, FolderInv
<1>2. Alone(j)
  BY <1>1 DEF Alone, HasFolder
<1>3. Restored(jobs[j])
  BY <1>1, <1>2 DEF RestoredInv
<1>4. DOMAIN jobs[j].placed = DOMAIN doc.files
  BY <1>1 DEF DoneInv, DoneOK
<1>5. FilesIn(disk, folder) = {Append(folder, f): f \in DOMAIN doc.files \union {PboJsonName}}
  BY <1>1, <1>3, <1>4 DEF Restored, Made
<1>6. \A f \in DOMAIN doc.files: disk[Append(folder, f)] = doc.files[f]
  <2>1. ASSUME NEW f \in DOMAIN doc.files
        PROVE  disk[Append(folder, f)] = doc.files[f]
    <3>1. disk[Append(folder, f)] = UpTo(doc.files[f], Written(jobs[j], f))
      BY <1>3, <1>4 DEF Restored
    <3>2. Written(jobs[j], f) = Len(doc.files[f].cells)
      BY <1>1 DEF Written
    <3>3. IsSequence(doc.files[f].cells)
      BY EntryIsContent
    <3>. QED
      BY <3>1, <3>2, <3>3, UpToAll
  <2>. QED
    BY <2>1
<1>7. disk[Append(folder, PboJsonName)] = JsonFile(ExtractFrom(doc))
  BY <1>1, <1>3 DEF Restored
<1>8. \A i \in DOMAIN doc.headers: HeaderWellFormed(doc.headers[i])
  BY DEF ContentsInv, AllIn, IsDocumentOf
<1>9. names = DOMAIN doc.files \union {PboJsonName}
  <2>1. \A f: Last(Append(folder, f)) = f
    BY <1>1, LastOfAppend
  <2>. DEFINE all == DOMAIN doc.files \union {PboJsonName}
  <2>2. ASSUME NEW f \in all
        PROVE  f \in names
    <3>1. Append(folder, f) \in FilesIn(disk, folder)
      BY <1>5
    <3>2. Last(Append(folder, f)) = f
      BY <2>1
    <3>. HIDE DEF folder, all
    <3>. QED
      BY <3>1, <3>2
  <2>3. ASSUME NEW p \in FilesIn(disk, folder)
        PROVE  Last(p) \in all
    <3>1. PICK f \in all: p = Append(folder, f)
      BY <1>5
    <3>. HIDE DEF folder, all
    <3>. QED
      BY <2>1, <3>1
  <2>. HIDE DEF folder, all
  <2>4. names = all
    BY <2>2, <2>3
  <2>. QED
    BY <2>4 DEF all
<1>10. DOMAIN files = DOMAIN doc.files \union {PboJsonName}
  BY <1>9
<1>11. files[PboJsonName] = JsonFile(ExtractFrom(doc))
  BY <1>7, <1>9
<1>12. \A f \in DOMAIN doc.files: files[f] = doc.files[f]
  BY <1>6, <1>9
<1>. HIDE DEF files, names, folder
<1>13. /\ Apply(files).outcome = "done"
       /\ Apply(files).doc.headers = doc.headers
       /\ Apply(files).doc.files = [f \in DOMAIN files \ ConfigNames |-> files[f]]
  <2>1. PboJsonName \in DOMAIN files
    BY <1>10
  <2>. HIDE DEF doc
  <2>. QED
    BY <1>8, <1>11, <2>1, ExtractedIsApplied
<1>14. [f \in DOMAIN files \ ConfigNames |-> files[f]]
         = [f \in DOMAIN doc.files \ ConfigNames |-> doc.files[f]]
  <2>1. DOMAIN files \ ConfigNames = DOMAIN doc.files \ ConfigNames
    BY <1>10 DEF ConfigNames
  <2>. HIDE DEF doc
  <2>. QED
    BY <1>12, <2>1
<1>15. /\ Apply(files).outcome = "done"
       /\ Apply(files).doc.headers = doc.headers
       /\ Apply(files).doc.files
            = [f \in DOMAIN doc.files \ ConfigNames |-> doc.files[f]]
  BY <1>13, <1>14
<1>. QED
  BY <1>15 DEF files, names, folder

-----------------------------------------------------------------------------

\* A command finds its folders as they are, and begins with none of them.
LEMMA NoJobsRestored ==
  ASSUME command.verb = "unpack" => DOMAIN disk \subseteq DOMAIN before,
         \A j \in DOMAIN jobs: jobs[j].stage = "waiting"
  PROVE  RepackParts
<1>1. FrontInv /\ MadeInv
  BY DEF FrontInv, MadeInv
<1>2. RestoredInv
  BY DEF RestoredInv, Alone, HasFolder
<1>. QED
  BY <1>1, <1>2 DEF RepackParts

\* Whatever the jobs do.
LEMMA StepStaysRestored ==
  KeepInv /\ ApartInv /\ DoneParts /\ RepackParts /\ [Next]_vars => RepackParts'
<1>. SUFFICES ASSUME KeepInv, ApartInv, DoneParts, RepackParts, [Next]_vars
              PROVE  RepackParts'
  OBVIOUS
<1>1. ASSUME NEW c \in Commands, NEW asked \in Answers \union {NoPath},
             GiveCommand(c, asked)
      PROVE  RepackParts'
  <2>1. /\ UNCHANGED disk /\ command = NoCommand
        /\ \/ UNCHANGED <<command, jobs>>
           \/ before' = disk /\ jobs' = [i \in DOMAIN c.inputs |-> NewJob]
    BY <1>1 DEF GiveCommand
  <2>2. CASE UNCHANGED <<command, jobs>>
    <3>1. command'.verb # "unpack" /\ DOMAIN jobs' = {}
      BY <2>1, <2>2 DEF NoCommand, Command, ApartInv, GivenInv
    <3>. QED
      BY <3>1 DEF RepackParts, FrontInv, MadeInv, RestoredInv
  <2>3. CASE before' = disk /\ jobs' = [i \in DOMAIN c.inputs |-> NewJob]
    <3>1. DOMAIN disk' \subseteq DOMAIN before'
      BY <2>1, <2>3
    <3>2. \A j \in DOMAIN jobs': jobs'[j].stage = "waiting"
      BY <2>3 DEF NewJob
    <3>3. FrontInv' /\ MadeInv'
      BY <3>1, <3>2 DEF FrontInv, MadeInv
    <3>4. RestoredInv'
      BY <3>2 DEF RestoredInv, Alone, HasFolder
    <3>. QED
      BY <3>3, <3>4 DEF RepackParts
  <2>. QED
    BY <2>1, <2>2, <2>3
<1>2. ASSUME NEW j \in DOMAIN jobs, JobStep(j)
      PROVE  RepackParts'
  <2>1. /\ StageInv /\ FolderInv /\ PlacedInv /\ TodoInv /\ DoneInv /\ ContentsInv
        /\ FrontInv /\ MadeInv /\ RestoredInv /\ GivenInv
    BY DEF ApartInv, DoneParts, RepackParts
  <2>2. Effect(j)
    BY <1>2, <2>1, StepHasEffect
  <2>3. UNCHANGED before
    BY <1>2 DEF JobStep, UnpackStep, PackStep, PickJob, PrepareUnpack, ResolveEntry,
                OpenEntry, WriteEntry, ResolveConfig, SaveConfig, ResolvePbo, Collect,
                OpenPbo, WritePbo, Stay, Raise, commandVars
  <2>4. UNCHANGED command
    BY <2>2, EffectKeeps
  <2>5. CASE command.verb = "unpack"
    BY <2>1, <2>2, <2>3, <2>5, FrontStays, MadeStays, RestoredStays DEF RepackParts
  <2>6. CASE command.verb # "unpack"
    BY <2>4, <2>6 DEF RepackParts, FrontInv, MadeInv, RestoredInv
  <2>. QED
    BY <2>5, <2>6
<1>3. CASE Cancel
  <2>1. /\ UNCHANGED <<disk, jobs, command, before>>
        /\ stopped' = TRUE
    BY <1>3 DEF Cancel, commandVars
  <2>2. FrontInv' /\ MadeInv'
    BY <2>1 DEF RepackParts, FrontInv, MadeInv
  <2>3. RestoredInv'
    BY <2>1 DEF RestoredInv
  <2>. QED
    BY <2>2, <2>3 DEF RepackParts
<1>4. CASE EndCommand
  <2>1. command'.verb # "unpack"
    BY <1>4 DEF EndCommand, NoCommand, Command
  <2>. QED
    BY <2>1 DEF RepackParts, FrontInv, MadeInv, RestoredInv
<1>5. CASE UNCHANGED vars
  <2>1. UNCHANGED <<disk, jobs, command, before, stopped>>
    BY <1>5 DEF vars, commandVars
  <2>2. FrontInv' /\ MadeInv'
    BY <2>1 DEF RepackParts, FrontInv, MadeInv
  <2>3. RestoredInv'
    <3>1. \A k \in DOMAIN jobs: Alone(k)' => Alone(k)
      BY <2>1 DEF Alone
    <3>2. \A k \in DOMAIN jobs: Restored(jobs[k]) => Restored(jobs[k])'
      BY <2>1 DEF Restored
    <3>. QED
      BY <2>1, <3>1, <3>2 DEF RepackParts, RestoredInv
  <2>. QED
    BY <2>2, <2>3 DEF RepackParts
<1>. QED
  BY <1>1, <1>2, <1>3, <1>4, <1>5 DEF Next

(***************************************************************************)
(* What an unpack leaves in a folder of its own, when no title had to be   *)
(* changed and nothing went wrong, packs to the document it was: the       *)
(* headers come back from pbo.json, in their order, and the entries as     *)
(* they were - whatever the other tasks do in their folders meanwhile.     *)
(***************************************************************************)
THEOREM UnpackedIsRepacked == Spec => []RepackRestores
<1>1. Init => KeepInv /\ ApartInv /\ DoneParts /\ RepackParts
  <2>1. ASSUME Init
        PROVE  RepackParts
    <3>1. command.verb # "unpack" /\ DOMAIN jobs = {}
      BY <2>1 DEF Init, NoCommand, Command
    <3>. QED
      BY <3>1, NoJobsRestored
  <2>. QED
    BY <2>1, Initially, InitiallyApart, InitiallyDone
<1>2. KeepInv /\ ApartInv /\ DoneParts /\ RepackParts /\ [Next]_vars
        => (KeepInv /\ ApartInv /\ DoneParts /\ RepackParts)'
  BY StepKeeps, StepStaysApart, StepStaysDone, StepStaysRestored
<1>3. KeepInv /\ ApartInv /\ DoneParts /\ RepackParts => RepackRestores
  BY RestoredIsRepacked DEF ApartInv, DoneParts, RepackParts
<1>. QED
  BY <1>1, <1>2, <1>3, PTL DEF Spec
=============================================================================
