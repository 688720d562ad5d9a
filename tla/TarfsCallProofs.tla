---------------------------- MODULE TarfsCallProofs ----------------------------
(* The calls of TarfsLayers: what each of their steps does to their records, to     *)
(* the files and to the snapshots, and the part of the inductive invariant that is  *)
(* about them. TarfsLayersProofs rests on it.                                       *)
EXTENDS TarfsLayers, TLAPS

--------------------------------------------------------------------------------
(* The inductive invariant.                                                      *)

Preparing == {"hint", "limit", "new_limiter", "acquire", "prepare", "stream"}
Tool == {"run", "running", "rename", "exit"}

\* Where a call may be in each of its jobs.
JobOK(t) ==
  /\ task[t].pc = "idle" <=> task[t].layer = None
  /\ task[t].pc \in Preparing \cup {"idle"} <=> task[t].job = "none"
  /\ task[t].pc = "stat" => task[t].job = "merge"
  /\ task[t].pc \in {"begin", "attach", "mount"} => task[t].job = "mount"
  /\ task[t].pc \in Tool => task[t].job # "mount"
  /\ task[t].pc \in {"get", "wait", "attach", "mount"} /\ task[t].job \in {"merge", "mount"} =>
       task[t].idx \in 1..Len(Stack[task[t].layer])
JobInv == \A t \in Task : JobOK(t)

Preparer(t) == task[t].layer # None /\ task[t].job \in {"none", "layer_disk"}
Runner(t) == task[t].job \in {"merge", "image_disk", "mount"}

\* A layer is prepared by one call; a snapshot in use keeps the snapshots below it.
SnapInv ==
  /\ \A t \in Task : Preparer(t) => snap[task[t].layer] = "active"
  /\ \A t \in Task : Runner(t) => snap[task[t].layer] = "committed"
  /\ \A t, u \in Task :
       Preparer(t) /\ Preparer(u) /\ task[t].layer = task[u].layer => t = u
  /\ \A l \in Layer : snap[l] \notin {"new", "removed"} =>
       \A x \in Below(l) \ {l} : snap[x] = "committed"

\* A layer is converted once, and its status is converting until then.
ConvInv ==
  /\ \A t \in Task : task[t].layer # None /\ task[t].job = "none" => conv[task[t].layer] = "none"
  /\ \A t \in Task : task[t].pc = "stream" =>
       task[t].layer \in present /\ st[task[t].layer].status = "converting"
  /\ \A l \in present : conv[l] # "none" => st[l].status = "converting"
  /\ \A l \in Layer : snap[l] = "new" => conv[l] = "none"

Attached(x) == Ready(x) /\ (x \in Filled => <<x, "data">> \in loops)

\* The devices of the layers from the lowest up to the one a mount is at are attached,
\* and stay attached under a mounted image.
RemovingOK(l) ==
  l \in present /\ snap[l] = "removed" /\ ~st[l].data /\ ~st[l].meta /\ ~st[l].mnt
ProgressOK(t) ==
  task[t].job = "mount" /\ task[t].pc # "begin" =>
    \A i \in DOMAIN Stack[task[t].layer] :
      task[t].pc = "mount" \/ i > task[t].idx => Attached(Stack[task[t].layer][i])
MountedOK(l) ==
  st[l].mnt /\ snap[l] # "removed" =>
    snap[l] = "committed" /\ \A x \in Below(l) : Attached(x)
MountInv ==
  /\ \A l \in removing : RemovingOK(l)
  /\ \A t \in Task : ProgressOK(t)
  /\ \A l \in present : MountedOK(l)

\* A conversion has its tar file open, a run of the image tool its output; a writer
\* that is not at work has none.
OpenInv ==
  /\ \A l \in Layer : IF conv[l] \in {"run", "rename", "exit"}
                       THEN fd[l].path = Tar(l) ELSE fd[l] = Closed
  /\ \A t \in Task : IF task[t].pc \in {"running", "rename", "exit"}
                      THEN fd[t].path = Target(t) ELSE fd[t] = Closed

StateInv == TypeOK /\ JobInv /\ OpenInv /\ SnapInv /\ ConvInv /\ MountInv /\ DevicesOwned

--------------------------------------------------------------------------------
(* What the operators that move a call do to its record.                         *)

SameRest(t) ==
  /\ task' \in [Task -> TaskType]
  /\ \A u \in Task \ {t} : task'[u] = task[u]

\* A call that has returned.
LEMMA IdleType == Idle \in TaskType
  BY ConstAssumption DEF Idle, TaskType, PC, JobName

\* Its fields.
LEMMA IdleFields == Idle.pc = "idle" /\ Idle.job = "none" /\ Idle.layer = None
  BY DEF Idle

\* The record of a call is replaced by another one.
LEMMA TaskUpdate ==
  ASSUME TypeOK, NEW t \in Task, NEW r \in TaskType, task' = [task EXCEPT ![t] = r]
  PROVE  SameRest(t) /\ task'[t] = r
  BY DEF TypeOK, SameRest

\* A call moves to another step of its job.
LEMMA GotoEffect ==
  ASSUME TypeOK, NEW t \in Task, NEW pc \in PC, Goto(t, pc)
  PROVE  /\ SameRest(t)
         /\ task'[t].pc = pc /\ task'[t].job = task[t].job
         /\ task'[t].layer = task[t].layer /\ task'[t].idx = task[t].idx
<1> DEFINE r == [task[t] EXCEPT !.pc = pc]
<1>1. task[t] \in TaskType
  BY DEF TypeOK
<1>2. r \in TaskType /\ r.pc = pc /\ r.job = task[t].job /\ r.layer = task[t].layer /\ r.idx = task[t].idx
  BY <1>1 DEF TaskType
<1>3. task' = [task EXCEPT ![t] = r]
  BY DEF Goto
<1> QED  BY <1>2, <1>3, TaskUpdate, Zenon

\* A call returns.
LEMMA IdleEffect ==
  ASSUME TypeOK, NEW t \in Task, ToIdle(t)
  PROVE  SameRest(t) /\ task'[t] = Idle
  BY IdleType, TaskUpdate, Zenon DEF ToIdle

\* A call starts its next job.
LEMMA JobEffect ==
  ASSUME TypeOK, NEW t \in Task, NEW pc \in PC, NEW job \in JobName, NEW i \in Nat,
         Job(t, job, pc, i)
  PROVE  /\ SameRest(t)
         /\ task'[t].pc = pc /\ task'[t].job = job
         /\ task'[t].layer = task[t].layer /\ task'[t].idx = i
<1> DEFINE r == [task[t] EXCEPT !.job = job, !.pc = pc, !.idx = i]
<1>1. task[t] \in TaskType
  BY DEF TypeOK
<1>2. r \in TaskType /\ r.pc = pc /\ r.job = job /\ r.layer = task[t].layer /\ r.idx = i
  BY <1>1, Zenon DEF TaskType
<1>3. task' = [task EXCEPT ![t] = r]
  BY <1>1, Zenon DEF Job, TaskType, TypeOK
<1> QED  BY <1>2, <1>3, TaskUpdate, Zenon

\* A call goes on with the layer above, or leaves the loop.
LEMMA NextLayerEffect ==
  ASSUME TypeOK, NEW t \in Task, NEW last \in PC, NextLayer(t, last)
  PROVE  /\ SameRest(t)
         /\ task'[t].job = task[t].job /\ task'[t].layer = task[t].layer
         /\ task'[t].pc = IF task[t].idx > 1 THEN "get" ELSE last
         /\ task'[t].idx = IF task[t].idx > 1 THEN task[t].idx - 1 ELSE task[t].idx
<1> DEFINE i == IF task[t].idx > 1 THEN task[t].idx - 1 ELSE task[t].idx
           pc == IF task[t].idx > 1 THEN "get" ELSE last
           r == [task[t] EXCEPT !.idx = i, !.pc = pc]
<1>1. task[t] \in TaskType /\ i \in Nat /\ pc \in PC
  BY DEF TypeOK, TaskType, PC
<1>2. r \in TaskType /\ r.pc = pc /\ r.job = task[t].job /\ r.layer = task[t].layer /\ r.idx = i
  BY <1>1, Zenon DEF TaskType
<1>3. task' = [task EXCEPT ![t] = r]
  BY <1>1, Zenon DEF NextLayer, TaskType, TypeOK
<1> QED  BY <1>2, <1>3, TaskUpdate, Zenon

\* A call gets a limiter.
LEMMA LimitEffect ==
  ASSUME TypeOK, NEW t \in Task, NEW lim \in Task \cup {None}, NEW pc \in PC,
         task' = [task EXCEPT ![t].lim = lim, ![t].pc = pc]
  PROVE  /\ SameRest(t)
         /\ task'[t].pc = pc /\ task'[t].job = task[t].job
         /\ task'[t].layer = task[t].layer /\ task'[t].idx = task[t].idx
<1> DEFINE r == [task[t] EXCEPT !.lim = lim, !.pc = pc]
<1>1. task[t] \in TaskType
  BY DEF TypeOK
<1>2. r \in TaskType /\ r.pc = pc /\ r.job = task[t].job /\ r.layer = task[t].layer /\ r.idx = task[t].idx
  BY <1>1, Zenon DEF TaskType
<1>3. task' = [task EXCEPT ![t] = r]
  BY <1>1, Zenon DEF TaskType, TypeOK
<1> QED  BY <1>2, <1>3, TaskUpdate, Zenon

\* After PrepareLayer a call exports the layer, or returns.
LEMMA AfterPrepareEffect ==
  ASSUME TypeOK, NEW t \in Task, NEW l \in Layer, AfterPrepare(t, l)
  PROVE  /\ SameRest(t)
         /\ \/ /\ task'[t].pc = "get" /\ task'[t].job = "layer_disk"
               /\ task'[t].layer = task[t].layer
               /\ UNCHANGED snap
            \/ task'[t] = Idle /\ snap' = [snap EXCEPT ![l] = "committed"]
<1> DEFINE r == [task[t] EXCEPT !.pc = "get", !.job = "layer_disk", !.lim = None]
<1>1. task[t] \in TaskType
  BY DEF TypeOK
<1>2. r \in TaskType /\ r.pc = "get" /\ r.job = "layer_disk" /\ r.layer = task[t].layer
  BY <1>1, Zenon DEF TaskType, PC, JobName
<1>3. CASE Exports(TRUE)
  <2>1. task' = [task EXCEPT ![t] = r]
    BY <1>1, <1>3, Zenon DEF AfterPrepare, TaskType, TypeOK
  <2> QED  BY <1>2, <1>3, <2>1, TaskUpdate, Zenon DEF AfterPrepare
<1>4. CASE ~Exports(TRUE)
  BY <1>4, IdleEffect DEF AfterPrepare
<1> QED  BY <1>3, <1>4, Zenon

\* After the merge a call exports the image, or mounts it.
LEMMA AfterMergeEffect ==
  ASSUME TypeOK, NEW t \in Task, AfterMerge(t)
  PROVE  /\ SameRest(t) /\ task'[t].layer = task[t].layer
         /\ \/ task'[t].pc = "get" /\ task'[t].job = "image_disk"
            \/ task'[t].pc = "begin" /\ task'[t].job = "mount"
<1>1. /\ "get" \in PC /\ "begin" \in PC /\ 0 \in Nat
      /\ "image_disk" \in JobName /\ "mount" \in JobName
  BY DEF PC, JobName
<1>2. Job(t, "image_disk", "get", 0) \/ Job(t, "mount", "begin", 0)
  BY Zenon DEF AfterMerge
<1>3. CASE Job(t, "image_disk", "get", 0)
  BY <1>1, <1>3, JobEffect, Zenon
<1>4. CASE Job(t, "mount", "begin", 0)
  BY <1>1, <1>4, JobEffect, Zenon
<1> QED  BY <1>2, <1>3, <1>4

\* After a run of the image tool a call goes on with its next job, or returns.
LEMMA AfterRunEffect ==
  ASSUME TypeOK, NEW t \in Task, AfterRun(t)
  PROVE  /\ SameRest(t)
         /\ \/ /\ task[t].job \in {"merge", "image_disk"}
               /\ task'[t].layer = task[t].layer /\ UNCHANGED snap
               /\ \/ task'[t].pc = "get" /\ task'[t].job = "image_disk"
                  \/ task'[t].pc = "begin" /\ task'[t].job = "mount"
            \/ /\ task[t].job \notin {"merge", "image_disk"} /\ task'[t] = Idle
               /\ task[t].job = "layer_disk" => snap' = [snap EXCEPT ![task[t].layer] = "committed"]
               /\ task[t].job # "layer_disk" => UNCHANGED snap
  BY AfterMergeEffect, JobEffect, IdleEffect DEF AfterRun, Top, PC, JobName

\* The stack of a layer is not empty and starts with it.
LEMMA StackFacts ==
  ASSUME NEW l \in Layer
  PROVE  /\ Len(Stack[l]) \in Nat \ {0}
         /\ DOMAIN Stack[l] = 1..Len(Stack[l])
         /\ \A i \in DOMAIN Stack[l] : Stack[l][i] \in Layer
         /\ l \in Below(l) /\ Below(l) \subseteq Layer
<1>1. Stack[l] \in Seq(Layer) /\ Stack[l] # <<>> /\ Stack[l][1] = l
  BY ConstAssumption
<1>2. Len(Stack[l]) \in Nat \ {0} /\ DOMAIN Stack[l] = 1..Len(Stack[l])
  BY <1>1
<1>3. \A i \in DOMAIN Stack[l] : Stack[l][i] \in Layer
  BY <1>1
<1> QED  BY <1>1, <1>2, <1>3 DEF Below

--------------------------------------------------------------------------------
(* What the operators on files do.                                               *)

\* The paths that the writers use.
LEMMA Paths ==
  /\ \A l \in Layer : Tar(l) \in Path /\ Disk(l) \in Path /\ Boot(l) \in Path
  /\ \A l, m \in Layer : Tar(l) # Disk(m) /\ Tar(l) # Boot(m) /\ Disk(l) # Boot(m)
  /\ \A l, m \in Layer : Boot(l) = Boot(m) => l = m
  /\ \A l, m \in Layer : Tar(l) = Tar(m) => BlobOf[l] = BlobOf[m]
  BY ConstAssumption DEF Tar, Disk, Boot, Path

OnlyTmp(p) ==
  /\ tmp' \in [Path -> FileType] /\ UNCHANGED <<file, boots>>
  /\ \A q \in Path \ {p} : tmp'[q] = tmp[q]

\* A writer creates its temporary file.
LEMMA CreateEffect ==
  ASSUME TypeOK, NEW w \in Writer, NEW p \in Path, Create(w, p)
  PROVE  /\ OnlyTmp(p) /\ tmp'[p].last = w
         /\ fd' \in [Writer -> FdType]
         /\ fd'[w].at = "tmp" /\ fd'[w].path = p
         /\ \A x \in Writer \ {w} : fd'[x] = fd[x]
<1> DEFINE f == [last |-> w, whole |-> FALSE]
           d == [at |-> "tmp", path |-> p]
<1>1. f \in FileType /\ d \in FdType /\ f.last = w /\ d.at = "tmp" /\ d.path = p
  BY DEF FileType, FdType
<1>2. tmp' = [tmp EXCEPT ![p] = f] /\ fd' = [fd EXCEPT ![w] = d] /\ UNCHANGED <<file, boots>>
  BY DEF Create
<1> HIDE DEF f, d
<1> QED  BY <1>1, <1>2 DEF TypeOK, OnlyTmp

\* A writer completes its file, wherever that is by now.
LEMMA WriteEffect ==
  ASSUME TypeOK, NEW w \in Writer, fd[w].path \in Path, Write(w)
  PROVE  /\ tmp' \in [Path -> FileType] /\ file' \in [Path -> FileType]
         /\ UNCHANGED <<fd, boots>>
         /\ \A q \in Path : /\ tmp'[q].last = tmp[q].last /\ (tmp[q].whole => tmp'[q].whole)
                            /\ file'[q].last = file[q].last /\ (file[q].whole => file'[q].whole)
         /\ \A q \in Path \ {fd[w].path} : tmp'[q] = tmp[q] /\ file'[q] = file[q]
         /\ fd[w].at = "tmp" => /\ UNCHANGED file
                                /\ tmp[fd[w].path].last = w => tmp'[fd[w].path].whole
<1> DEFINE p == fd[w].path
<1>1. ASSUME NEW f \in FileType
      PROVE  /\ Whole(w, f) \in FileType /\ Whole(w, f).last = f.last
             /\ f.whole => Whole(w, f).whole
             /\ f.last = w => Whole(w, f).whole
  BY Zenon DEF Whole, FileType
<1>2. tmp[p] \in FileType /\ file[p] \in FileType
  BY DEF TypeOK
<1>3. /\ tmp' = tmp \/ tmp' = [tmp EXCEPT ![p] = Whole(w, tmp[p])]
      /\ file' = file \/ file' = [file EXCEPT ![p] = Whole(w, file[p])]
      /\ UNCHANGED <<fd, boots>>
      /\ fd[w].at = "tmp" => tmp' = [tmp EXCEPT ![p] = Whole(w, tmp[p])] /\ UNCHANGED file
  BY DEF Write
<1> HIDE DEF p
<1>4. ASSUME NEW q \in Path
      PROVE  /\ tmp'[q] = tmp[q] \/ (q = p /\ tmp'[q] = Whole(w, tmp[p]))
             /\ file'[q] = file[q] \/ (q = p /\ file'[q] = Whole(w, file[p]))
  BY <1>3 DEF TypeOK
<1>5. tmp' \in [Path -> FileType] /\ file' \in [Path -> FileType]
  BY <1>1, <1>2, <1>3 DEF TypeOK
<1>6. fd[w].at = "tmp" /\ tmp[p].last = w => tmp'[p].whole
  BY <1>1, <1>2, <1>3 DEF TypeOK, p
<1> QED  BY <1>1, <1>2, <1>3, <1>4, <1>5, <1>6 DEF p

SamePaths == \A x \in Writer : fd'[x].path = fd[x].path /\ (fd[x] = Closed => fd'[x] = Closed)

\* A writer renames the temporary file at its path.
LEMMA RenameEffect ==
  ASSUME TypeOK, NEW w \in Writer, fd[w].path \in Path, Rename(w)
  PROVE  /\ tmp' \in [Path -> FileType] /\ file' \in [Path -> FileType]
         /\ fd' \in [Writer -> FdType]
         /\ tmp[fd[w].path] # NoFile /\ file'[fd[w].path] = tmp[fd[w].path]
         /\ \A q \in Path \ {fd[w].path} : tmp'[q] = tmp[q] /\ file'[q] = file[q]
         /\ SamePaths
         /\ \A x \in Writer : fd[x].path # fd[w].path => fd'[x] = fd[x]
<1> DEFINE p == fd[w].path
<1>1. NoFile \in FileType
  BY DEF NoFile, FileType
<1>2. ASSUME NEW x \in Writer
      PROVE  \/ fd'[x] = fd[x]
             \/ /\ fd[x].path = p /\ fd[x] # Closed
                /\ fd'[x] \in {[at |-> "file", path |-> p], [at |-> "gone", path |-> p]}
  BY DEF Rename, Closed
<1>3. \A x \in Writer : fd'[x] \in FdType
  BY <1>2 DEF TypeOK, FdType
<1>4. fd' \in [Writer -> FdType]
  BY <1>3 DEF Rename
<1>5. SamePaths /\ \A x \in Writer : fd[x].path # p => fd'[x] = fd[x]
  BY <1>2 DEF SamePaths
<1> QED  BY <1>1, <1>4, <1>5 DEF TypeOK, Rename

\* The deferred removal of the temporary file at a writer's path.
LEMMA RemoveTmpEffect ==
  ASSUME TypeOK, NEW w \in Writer, fd[w].path \in Path, RemoveTmp(w)
  PROVE  /\ OnlyTmp(fd[w].path) /\ tmp'[fd[w].path] = NoFile
         /\ fd' \in [Writer -> FdType] /\ fd'[w] = Closed
         /\ \A x \in Writer \ {w} : /\ fd'[x].path = fd[x].path
                                    /\ fd[x] = Closed => fd'[x] = Closed
                                    /\ fd[x].path # fd[w].path => fd'[x] = fd[x]
<1> DEFINE p == fd[w].path
<1>1. NoFile \in FileType /\ Closed \in FdType
  BY DEF NoFile, FileType, Closed, FdType
<1>2. fd' = [x \in Writer |-> IF x = w THEN Closed ELSE Moved(p, "tmp", "gone")[x]]
  BY Zenon DEF RemoveTmp, Moved
<1>3. ASSUME NEW x \in Writer, x # w
      PROVE  \/ fd'[x] = fd[x]
             \/ fd[x].path = p /\ fd[x] # Closed /\ fd'[x] = [at |-> "gone", path |-> p]
  BY <1>2, <1>3 DEF Moved, Closed
<1>4. fd'[w] = Closed
  BY <1>2
<1>5. \A x \in Writer : fd'[x] \in FdType
  BY <1>1, <1>3, <1>4 DEF TypeOK, FdType
<1>6. fd' \in [Writer -> FdType]
  BY <1>2, <1>5
<1> QED  BY <1>1, <1>3, <1>4, <1>6 DEF TypeOK, RemoveTmp, OnlyTmp

--------------------------------------------------------------------------------
(* Types.                                                                        *)

\* A call that has not returned works on a layer.
LEMMA LayerOfCall ==
  ASSUME TypeOK, JobInv
  PROVE  \A t \in Task : task[t].pc # "idle" => task[t].layer \in Layer
  BY DEF TypeOK, TaskType, JobInv, JobOK

\* How a call moves from step to step.
Kept(t) == task'[t].layer = task[t].layer /\ task'[t].job = task[t].job
Starts(t, job, pc) ==
  task'[t].layer = task[t].layer /\ task'[t].job = job /\ task'[t].pc = pc
Up(t, last) ==
  /\ Kept(t)
  /\ task'[t].pc = IF task[t].idx > 1 THEN "get" ELSE last
  /\ task'[t].idx = IF task[t].idx > 1 THEN task[t].idx - 1 ELSE task[t].idx
Merged(t) == Starts(t, "image_disk", "get") \/ Starts(t, "mount", "begin")
PrepareMoves(t) ==
  \/ task[t].pc \in Preparing /\ task'[t].pc \in Preparing /\ Kept(t)
  \/ task[t].pc = "stream" /\ Starts(t, "layer_disk", "get")
WaitMoves(t) ==
  \/ task[t].pc = "get" /\ task'[t].pc = "wait" /\ Kept(t) /\ task'[t].idx = task[t].idx
  \/ /\ task[t].pc = "wait" /\ task[t].job = "mount" /\ task'[t].pc = "attach" /\ Kept(t)
     /\ task'[t].idx = task[t].idx
  \/ task[t].pc = "wait" /\ task[t].job # "mount" /\ Up(t, "run")
ToolMoves(t) ==
  \/ /\ <<task[t].pc, task'[t].pc>> \in {<<"run", "running">>, <<"running", "rename">>,
                                         <<"rename", "exit">>}
     /\ Kept(t)
  \/ task[t].pc \in {"run", "exit"} /\ task[t].job = "merge" /\ Merged(t)
  \/ task[t].pc \in {"run", "exit"} /\ task[t].job = "image_disk" /\ Starts(t, "mount", "begin")
RunMoves(t) ==
  \/ task[t].pc = "stat" /\ Merged(t)
  \/ /\ task[t].pc = "stat" /\ Starts(t, "merge", "get")
     /\ task'[t].idx = Len(Stack[task[t].layer])
  \/ /\ task[t].pc = "begin" /\ Starts(t, "mount", "get")
     /\ task'[t].idx = Len(Stack[task[t].layer])
  \/ task[t].pc = "attach" /\ Up(t, "mount")

\* Every step of a call is one of these moves, or returns.
LEMMA CallMoves ==
  ASSUME TypeOK, JobInv, NEW t \in Task, TaskStep(t)
  PROVE  /\ SameRest(t)
         /\ \/ task'[t] = Idle \/ PrepareMoves(t) \/ WaitMoves(t) \/ ToolMoves(t) \/ RunMoves(t)
<1>0. task[t].pc # "idle" => task[t].layer \in Layer /\ Len(Stack[task[t].layer]) \in Nat
  BY LayerOfCall, StackFacts, Zenon
<1>1. ASSUME NEW pc \in PC, Goto(t, pc)
      PROVE  SameRest(t) /\ task'[t].pc = pc /\ Kept(t) /\ task'[t].idx = task[t].idx
  BY <1>1, GotoEffect, Zenon DEF Kept
<1>2. ASSUME ToIdle(t) PROVE SameRest(t) /\ task'[t] = Idle
  BY <1>2, IdleEffect, Zenon
<1>3. ASSUME AfterMerge(t) PROVE SameRest(t) /\ Merged(t)
  BY <1>3, AfterMergeEffect, Zenon DEF Merged, Starts
<1>4. ASSUME NEW last \in PC, NextLayer(t, last) PROVE SameRest(t) /\ Up(t, last)
  BY <1>4, NextLayerEffect, Zenon DEF Up, Kept
<1>5. ASSUME task[t].pc # "idle", NEW job \in {"merge", "mount"}, Job(t, job, "get", Len(Stack[Top(t)]))
      PROVE  SameRest(t) /\ Starts(t, job, "get") /\ task'[t].idx = Len(Stack[task[t].layer])
  <2>1. "get" \in PC /\ job \in JobName
    BY DEF PC, JobName
  <2>2. PICK i \in Nat : i = Len(Stack[task[t].layer])
    BY <1>0, <1>5
  <2>3. Job(t, job, "get", i)
    BY <1>5, <2>2, Zenon DEF Top
  <2> QED  BY <2>1, <2>2, <2>3, JobEffect DEF Starts
<1>6. ASSUME AfterRun(t)
      PROVE  SameRest(t) /\ \/ task'[t] = Idle
                            \/ task[t].job = "merge" /\ Merged(t)
                            \/ task[t].job = "image_disk" /\ Starts(t, "mount", "begin")
  <2>1. CASE task[t].job = "merge"
    BY <1>3, <1>6, <2>1, Zenon DEF AfterRun
  <2>2. CASE task[t].job = "image_disk"
    <3>1. "begin" \in PC /\ "mount" \in JobName /\ 0 \in Nat
      BY DEF PC, JobName
    <3>2. Job(t, "mount", "begin", 0)
      BY <1>6, <2>2 DEF AfterRun
    <3>3. SameRest(t) /\ task'[t].pc = "begin" /\ task'[t].job = "mount" /\ task'[t].layer = task[t].layer
      BY <3>1, <3>2, JobEffect, Zenon
    <3> QED  BY <2>2, <3>3, Zenon DEF Starts
  <2>3. CASE task[t].job \notin {"merge", "image_disk"}
    BY <1>2, <1>6, <2>3, Zenon DEF AfterRun
  <2> QED  BY <2>1, <2>2, <2>3
<1>7. CASE CheckTarfsHintAnnotation(t)
  <2>1. task[t].pc \in Preparing /\ "limit" \in Preparing /\ "limit" \in PC
    BY <1>7 DEF CheckTarfsHintAnnotation, Preparing, PC
  <2> QED  BY <1>1, <1>2, <1>7, <2>1, Zenon DEF CheckTarfsHintAnnotation, PrepareMoves
<1>8. CASE GetConcurrentLimiter(t)
  <2> DEFINE lim == IF Limit > 0 THEN cached ELSE None
             pc == IF Limit <= 0 THEN "prepare"
                   ELSE IF cached = None THEN "new_limiter" ELSE "acquire"
  <2>1. lim \in Task \cup {None} /\ pc \in PC /\ pc \in Preparing /\ task[t].pc \in Preparing
    BY <1>8 DEF TypeOK, GetConcurrentLimiter, PC, Preparing
  <2>2. task' = [task EXCEPT ![t].lim = lim, ![t].pc = pc]
    BY <1>8, Zenon DEF GetConcurrentLimiter
  <2> HIDE DEF lim, pc
  <2> QED  BY <2>1, <2>2, LimitEffect, Zenon DEF PrepareMoves, Kept
<1>9. CASE NewLimiter(t)
  <2>1. task[t].pc \in Preparing /\ "acquire" \in Preparing /\ "acquire" \in PC
    BY <1>9 DEF NewLimiter, Preparing, PC
  <2>2. task' = [task EXCEPT ![t].lim = t, ![t].pc = "acquire"] /\ t \in Task \cup {None}
    BY <1>9, Zenon DEF NewLimiter
  <2> QED  BY <2>1, <2>2, LimitEffect, Zenon DEF PrepareMoves, Kept
<1>10. CASE Acquire(t) \/ PrepareLayer(t)
  <2>1. task[t].pc \in Preparing /\ {"prepare", "stream"} \subseteq Preparing \cap PC
    BY <1>10 DEF Acquire, PrepareLayer, Preparing, PC
  <2>2. PICK pc \in {"prepare", "stream"} : Goto(t, pc)
    BY <1>10, Zenon DEF Acquire, PrepareLayer
  <2> QED  BY <1>1, <2>1, <2>2, Zenon DEF PrepareMoves
<1>11. CASE BlobStream(t)
  <2>1. task[t].pc = "stream" /\ task[t].layer \in Layer /\ AfterPrepare(t, task[t].layer)
    BY <1>0, <1>11, Zenon DEF BlobStream
  <2> QED  BY <2>1, AfterPrepareEffect, Zenon DEF PrepareMoves, Starts
<1>12. CASE MergeStat(t)
  <2>1. task[t].pc = "stat" /\ (AfterMerge(t) \/ Job(t, "merge", "get", Len(Stack[Top(t)])))
    BY <1>12, Zenon DEF MergeStat
  <2>2. task[t].pc # "idle"
    BY <2>1
  <2> QED  BY <1>3, <1>5, <2>1, <2>2, Zenon DEF RunMoves
<1>13. CASE GetStatus(t)
  <2>1. "wait" \in PC
    BY DEF PC
  <2> QED  BY <1>1, <1>2, <1>13, <2>1, Zenon DEF GetStatus, WaitMoves
<1>14. CASE WaitLayerReady(t)
  <2>1. "attach" \in PC /\ "run" \in PC
    BY DEF PC
  <2> QED  BY <1>1, <1>2, <1>4, <1>14, <2>1, Zenon DEF WaitLayerReady, WaitMoves
<1>15. CASE RunImageTool(t)
  <2>1. "running" \in PC
    BY DEF PC
  <2>2. task[t].pc = "run" /\ (AfterRun(t) \/ Goto(t, "running"))
    BY <1>15, Zenon DEF RunImageTool
  <2>3. task[t].pc \in {"run", "exit"}
    BY <2>2
  <2> QED  BY <1>1, <1>6, <2>1, <2>2, <2>3, Zenon DEF ToolMoves
<1>16. CASE ImageToolEnds(t) \/ ToolRename(t)
  <2>1. "rename" \in PC /\ "exit" \in PC
    BY DEF PC
  <2> QED  BY <1>1, <1>2, <1>16, <2>1, Zenon DEF ImageToolEnds, ToolRename, ToolMoves
<1>17. CASE ToolExit(t)
  <2>1. task[t].pc \in {"run", "exit"} /\ AfterRun(t)
    BY <1>17 DEF ToolExit
  <2> QED  BY <1>6, <2>1, Zenon DEF ToolMoves
<1>18. CASE MountBegin(t)
  <2>1. task[t].pc = "begin" /\ (ToIdle(t) \/ Job(t, "mount", "get", Len(Stack[Top(t)])))
    BY <1>18, Zenon DEF MountBegin
  <2>2. task[t].pc # "idle"
    BY <2>1
  <2> QED  BY <1>2, <1>5, <2>1, <2>2, Zenon DEF RunMoves
<1>19. CASE AttachLayer(t)
  <2>1. "mount" \in PC
    BY DEF PC
  <2>2. task[t].pc = "attach" /\ (ToIdle(t) \/ NextLayer(t, "mount"))
    BY <1>19, Zenon DEF AttachLayer
  <2> QED  BY <1>2, <1>4, <2>1, <2>2, Zenon DEF RunMoves
<1>20. CASE MountErofs(t)
  BY <1>2, <1>20, Zenon DEF MountErofs
<1> QED  BY <1>7, <1>8, <1>9, <1>10, <1>11, <1>12, <1>13, <1>14, <1>15, <1>16, <1>17, <1>18,
            <1>19, <1>20, Zenon DEF TaskStep

\* The position of a call stays a position.
LEMMA CallStep ==
  ASSUME TypeOK, JobInv, NEW t \in Task, TaskStep(t)
  PROVE  SameRest(t) /\ (task'[t] = Idle \/ task'[t].layer = task[t].layer)
  BY CallMoves, Zenon DEF PrepareMoves, WaitMoves, ToolMoves, RunMoves, Kept, Starts, Up, Merged

\* A call that has left the preparation of its layer does not come back to it.
LEMMA RunsOn ==
  ASSUME TypeOK, JobInv, NEW t \in Task, task[t].pc \notin Preparing, TaskStep(t)
  PROVE  task'[t].pc \notin Preparing
<1> USE DEF Preparing
<1>1. CASE task'[t] = Idle
  BY <1>1 DEF Idle
<1>2. CASE PrepareMoves(t)
  BY <1>2 DEF PrepareMoves
<1>3. CASE WaitMoves(t)
  BY <1>3 DEF WaitMoves, Up
<1>4. CASE ToolMoves(t)
  BY <1>4 DEF ToolMoves, Merged, Starts
<1>5. CASE RunMoves(t)
  BY <1>5 DEF RunMoves, Merged, Starts, Up
<1> QED  BY CallMoves, <1>1, <1>2, <1>3, <1>4, <1>5, Zenon

\* A call starts only when it is idle.
LEMMA BeginEffect ==
  ASSUME TypeOK, NEW t \in Task, NEW l \in Layer, PrepareBegin(t, l) \/ StartContainer(t, l)
  PROVE  /\ SameRest(t) /\ task[t] = Idle
         /\ task'[t].layer = l /\ task'[t].idx = 0
         /\ PrepareBegin(t, l) => task'[t].pc = "hint" /\ task'[t].job = "none"
         /\ StartContainer(t, l) => task'[t].pc = "stat" /\ task'[t].job = "merge"
<1>1. CASE PrepareBegin(t, l)
  <2> DEFINE r == [Idle EXCEPT !.pc = "hint", !.layer = l]
  <2>1. r \in TaskType /\ r.pc = "hint" /\ r.job = "none" /\ r.layer = l /\ r.idx = 0
    BY IdleType, Zenon DEF TaskType, PC, JobName, Idle
  <2>2. task[t] = Idle /\ task' = [task EXCEPT ![t] = r] /\ snap[l] = "new"
    BY <1>1, Zenon DEF PrepareBegin
  <2>3. ~StartContainer(t, l)
    BY <2>2 DEF StartContainer
  <2>4. SameRest(t) /\ task'[t] = r
    BY <2>1, <2>2, TaskUpdate, Zenon
  <2> QED  BY <2>1, <2>2, <2>3, <2>4, Zenon
<1>2. CASE StartContainer(t, l)
  <2> DEFINE r == [Idle EXCEPT !.pc = "stat", !.job = "merge", !.layer = l]
  <2>1. r \in TaskType /\ r.pc = "stat" /\ r.job = "merge" /\ r.layer = l /\ r.idx = 0
    BY IdleType, Zenon DEF TaskType, PC, JobName, Idle
  <2>2. task[t] = Idle /\ task' = [task EXCEPT ![t] = r] /\ snap[l] = "committed"
    BY <1>2, Zenon DEF StartContainer
  <2>3. ~PrepareBegin(t, l)
    BY <2>2 DEF PrepareBegin
  <2>4. SameRest(t) /\ task'[t] = r
    BY <2>1, <2>2, TaskUpdate, Zenon
  <2> QED  BY <2>1, <2>2, <2>3, <2>4, Zenon
<1> QED  BY <1>1, <1>2

\* The paths of the files that are open.
LEMMA OpenPaths ==
  ASSUME TypeOK, JobInv, OpenInv
  PROVE  /\ \A l \in Layer : conv[l] \in {"run", "rename", "exit"} => fd[l].path \in Path
         /\ \A t \in Task : task[t].pc \in {"running", "rename", "exit"} => fd[t].path \in Path
         /\ \A t \in Task : task[t].pc # "idle" => Target(t) \in Path
  BY Paths, LayerOfCall DEF OpenInv, Target, Top

\* The failures stay within their bound.
LEMMA FaultType ==
  ASSUME TypeOK, NEW c, Fail(c) \/ Works
  PROVE  faults' \in 0..MaxFault
  BY ConstAssumption DEF TypeOK, Fail, Works

\* The status of a layer stays a status.
LEMMA StatusUpdate ==
  ASSUME TypeOK, NEW l \in Layer, NEW r \in StatusType
  PROVE  [st EXCEPT ![l] = r] \in [Layer -> StatusType]
  BY DEF TypeOK

\* Every step keeps the types.
LEMMA TypeStep == TypeOK /\ JobInv /\ OpenInv /\ [Next]_vars => TypeOK'
<1> SUFFICES ASSUME TypeOK, JobInv, OpenInv, [Next]_vars PROVE TypeOK'
  BY Zenon
<1> USE FaultType DEF TypeOK, NoImageInfo, files, objects, kernel
<1>1. ASSUME NEW t \in Task, NEW l \in Layer, PrepareBegin(t, l) \/ StartContainer(t, l)
      PROVE  TypeOK'
  <2>1. task' \in [Task -> TaskType]
    BY <1>1, BeginEffect, Zenon DEF SameRest
  <2>2. CASE PrepareBegin(t, l)
    BY <2>1, <2>2 DEF PrepareBegin
  <2>3. CASE StartContainer(t, l)
    BY <2>1, <2>3, Zenon DEF StartContainer
  <2> QED  BY <1>1, <2>2, <2>3
<1>2. ASSUME NEW t \in Task, TaskStep(t) PROVE TypeOK'
  <2>0. task' \in [Task -> TaskType] /\ t \in Writer /\ (task[t].pc # "idle" => task[t].layer \in Layer)
    BY <1>2, CallStep, LayerOfCall DEF SameRest, Writer
  <2>1. CASE CheckTarfsHintAnnotation(t)
    BY <2>0, <2>1 DEF CheckTarfsHintAnnotation
  <2>2. CASE GetConcurrentLimiter(t) \/ NewLimiter(t) \/ Acquire(t)
    BY <2>0, <2>2 DEF GetConcurrentLimiter, NewLimiter, Acquire
  <2>3. CASE PrepareLayer(t)
    BY <2>0, <2>3 DEF PrepareLayer, NewStatus, StatusType
  <2>4. CASE BlobStream(t)
    <3>1. snap' \in [Layer -> {"new", "active", "native", "committed", "removed"}]
      BY <2>0, <2>4, AfterPrepareEffect DEF BlobStream
    <3>2. st' \in [Layer -> StatusType]
      BY <2>0, <2>4 DEF BlobStream, Epilog, StatusType
    <3>3. conv' \in [Layer -> {"none", "open", "run", "rename", "exit"}] /\ early' \subseteq Layer
      BY <2>0, <2>4 DEF BlobStream
    <3>4. faults' \in 0..MaxFault
      BY <2>4 DEF BlobStream
    <3> QED  BY <2>0, <2>4, <3>1, <3>2, <3>3, <3>4 DEF BlobStream
  <2>5. CASE MergeStat(t) \/ GetStatus(t) \/ WaitLayerReady(t)
    BY <2>0, <2>5 DEF MergeStat, GetStatus, WaitLayerReady
  <2>6. CASE RunImageTool(t)
    <3>1. snap' \in [Layer -> {"new", "active", "native", "committed", "removed"}]
      BY <2>0, <2>6 DEF RunImageTool, AfterRun, Top
    <3>2. tmp' \in [Path -> FileType] /\ file' = file /\ boots' = boots /\ fd' \in [Writer -> FdType]
      BY <2>0, <2>6, OpenPaths, CreateEffect DEF RunImageTool, OnlyTmp
    <3> QED  BY <2>0, <2>6, <3>1, <3>2 DEF RunImageTool
  <2>7. CASE ImageToolEnds(t)
    <3>1. tmp' \in [Path -> FileType] /\ file' \in [Path -> FileType] /\ boots' = boots
          /\ fd' \in [Writer -> FdType]
      BY <2>0, <2>7, OpenPaths, WriteEffect, RemoveTmpEffect DEF ImageToolEnds, OnlyTmp
    <3> QED  BY <2>0, <2>7, <3>1, Zenon DEF ImageToolEnds
  <2>8. CASE ToolRename(t)
    <3>1. tmp' \in [Path -> FileType] /\ file' \in [Path -> FileType] /\ boots' = boots
          /\ fd' \in [Writer -> FdType]
      BY <2>0, <2>8, OpenPaths, RenameEffect, RemoveTmpEffect DEF ToolRename, OnlyTmp
    <3> QED  BY <2>0, <2>8, <3>1, Zenon DEF ToolRename
  <2>9. CASE ToolExit(t)
    <3>1. snap' \in [Layer -> {"new", "active", "native", "committed", "removed"}]
      BY <2>0, <2>9 DEF ToolExit, AfterRun, Top
    <3>2. tmp' \in [Path -> FileType] /\ file' = file /\ boots' = boots /\ fd' \in [Writer -> FdType]
      BY <2>0, <2>9, OpenPaths, RemoveTmpEffect DEF ToolExit, OnlyTmp
    <3> QED  BY <2>0, <2>9, <3>1, <3>2 DEF ToolExit
  <2>10. CASE MountBegin(t)
    <3>1. faults' \in 0..MaxFault /\ rafs' \subseteq Layer
      BY <2>0, <2>10, LayerOfCall DEF MountBegin, Top
    <3> QED  BY <2>0, <2>10, <3>1, Zenon DEF MountBegin
  <2>11. CASE AttachLayer(t)
    <3> DEFINE x == Waited(t)
    <3>1. st' \in [Layer -> StatusType] /\ loops' \subseteq Layer \X {"data", "meta"}
      <4>1. CASE Ready(x) /\ Named(x)
        <5>1. x \in Layer
          BY <4>1 DEF Ready
        <5>2. [st[x] EXCEPT !.data = TRUE] \in StatusType
          <6>1. st[x] \in StatusType
            BY <5>1, Zenon
          <6> QED  BY <6>1, Zenon DEF StatusType
        <5>3. st' = [st EXCEPT ![x] = [st[x] EXCEPT !.data = TRUE]] \/ st' = st
          BY <2>11, <4>1 DEF AttachLayer
        <5>4. loops' \subseteq Layer \X {"data", "meta"}
          BY <2>11, <5>1 DEF AttachLayer
        <5> QED  BY <5>1, <5>2, <5>3, <5>4, Zenon
      <4>2. CASE ~(Ready(x) /\ Named(x))
        BY <2>11, <4>2, Zenon DEF AttachLayer
      <4> QED  BY <4>1, <4>2
    <3>2. faults' \in 0..MaxFault
      BY <2>11 DEF AttachLayer
    <3> QED  BY <2>0, <2>11, <3>1, <3>2 DEF AttachLayer
  <2>12. CASE MountErofs(t)
    <3> DEFINE l == Top(t)
    <3>1. l \in Layer
      BY <2>12 DEF MountErofs
    <3>2. /\ [st[l] EXCEPT !.meta = TRUE] \in StatusType
          /\ [st[l] EXCEPT !.meta = TRUE, !.mnt = TRUE] \in StatusType
      <4>1. st[l] \in StatusType
        BY <3>1, Zenon
      <4>2. [st[l] EXCEPT !.meta = TRUE] \in StatusType
        BY <4>1, Zenon DEF StatusType
      <4>3. [st[l] EXCEPT !.meta = TRUE, !.mnt = TRUE] \in StatusType
        BY <4>1, Zenon DEF StatusType
      <4> QED  BY <4>2, <4>3
    <3>3. st' \in [Layer -> StatusType]
      <4>1. \/ st' = [st EXCEPT ![l] = [st[l] EXCEPT !.meta = TRUE, !.mnt = TRUE]]
            \/ st' = [st EXCEPT ![l] = [st[l] EXCEPT !.meta = TRUE]]
            \/ st' = st
        BY <2>12, <3>1 DEF MountErofs, StatusType
      <4> QED  BY <3>1, <3>2, <4>1, Zenon
    <3>4. loops' \subseteq Layer \X {"data", "meta"}
      BY <2>12, <3>1 DEF MountErofs
    <3>5. faults' \in 0..MaxFault
      BY <2>12 DEF MountErofs
    <3> QED  BY <2>0, <2>12, <3>3, <3>4, <3>5 DEF MountErofs
  <2> QED  BY <1>2, <2>1, <2>2, <2>3, <2>4, <2>5, <2>6, <2>7, <2>8, <2>9, <2>10, <2>11, <2>12, Zenon
           DEF TaskStep
<1>3. ASSUME NEW l \in Layer, ConvStep(l) PROVE TypeOK'
  <2>0. l \in Writer /\ Tar(l) \in Path
    BY Paths DEF Writer
  <2>1. ASSUME NEW s \in {"ready", "failed"}, ConvDone(l, s)
        PROVE  /\ st' \in [Layer -> StatusType]
               /\ wg' \in [Layer -> 0..1] /\ UNCHANGED <<present, early>>
               /\ conv' \in [Layer -> {"none", "open", "run", "rename", "exit"}]
    BY <2>1 DEF ConvDone, Epilog, StatusType
  <2>2. CASE ConvOpen(l)
    <3>1. tmp' \in [Path -> FileType] /\ file' = file /\ boots' = boots /\ fd' \in [Writer -> FdType]
      BY <2>0, <2>2, CreateEffect DEF ConvOpen, OnlyTmp
    <3> QED  BY <2>1, <2>2, <3>1 DEF ConvOpen
  <2>3. CASE ConvRun(l)
    <3>1. tmp' \in [Path -> FileType] /\ file' \in [Path -> FileType] /\ boots' = boots
          /\ fd' \in [Writer -> FdType]
      BY <2>0, <2>3, OpenPaths, WriteEffect, RemoveTmpEffect DEF ConvRun, OnlyTmp
    <3>2. st' \in [Layer -> StatusType] /\ wg' \in [Layer -> 0..1] /\ UNCHANGED <<present, early>>
          /\ conv' \in [Layer -> {"none", "open", "run", "rename", "exit"}]
      BY <2>1, <2>3 DEF ConvRun
    <3>3. faults' \in 0..MaxFault /\ bad' \subseteq Layer
      BY <2>3, Zenon DEF ConvRun
    <3> QED  BY <2>3, <3>1, <3>2, <3>3, Zenon DEF ConvRun
  <2>4. CASE ConvRename(l)
    <3>1. tmp' \in [Path -> FileType] /\ file' \in [Path -> FileType] /\ boots' \subseteq Layer
          /\ fd' \in [Writer -> FdType]
      BY <2>0, <2>4, OpenPaths, RenameEffect, RemoveTmpEffect DEF ConvRename, OnlyTmp
    <3> QED  BY <2>1, <2>4, <3>1, Zenon DEF ConvRename
  <2>5. CASE ConvExit(l)
    <3>1. tmp' \in [Path -> FileType] /\ file' = file /\ boots' = boots /\ fd' \in [Writer -> FdType]
      BY <2>0, <2>5, OpenPaths, RemoveTmpEffect DEF ConvExit, OnlyTmp
    <3> QED  BY <2>1, <2>5, <3>1 DEF ConvExit
  <2> QED  BY <1>3, <2>2, <2>3, <2>4, <2>5 DEF ConvStep
<1>4. ASSUME NEW l \in Layer, DetachDevices(l) PROVE TypeOK'
  <2>1. ASSUME NEW n \in 0..3, Released(l, n)
        PROVE  st' \in [Layer -> StatusType] /\ loops' \subseteq Layer \X {"data", "meta"}
    <3> DEFINE r == [st[l] EXCEPT !.mnt = @ /\ n < 1, !.meta = @ /\ n < 2, !.data = @ /\ n < 3]
    <3>1. st[l] \in StatusType
      OBVIOUS
    <3>2. r \in StatusType
      BY <3>1, Zenon DEF StatusType
    <3>3. st' = [st EXCEPT ![l] = r]
      BY <2>1, <3>1, Zenon DEF Released, StatusType
    <3>4. loops' \subseteq loops
      BY <2>1 DEF Released
    <3> QED  BY <3>2, <3>3, <3>4
  <2>2. RemoveDir(l) => /\ boots' \subseteq Layer /\ UNCHANGED <<tmp, fd>>
                        /\ file' \in [Path -> FileType]
    BY Paths, SMTT(30) DEF RemoveDir, NoFile, FileType
  <2>3. st' \in [Layer -> StatusType] /\ loops' \subseteq Layer \X {"data", "meta"}
    <3>1. \/ \E n \in 0..3 : Released(l, n)
          \/ UNCHANGED <<st, loops>>
      <4>1. Released(l, 3) \/ (\E n \in 0..2 : Released(l, n)) \/ UNCHANGED <<st, loops>>
        BY <1>4, Zenon DEF DetachDevices, kernel
      <4>2. 3 \in 0..3 /\ 0..2 \subseteq 0..3
        OBVIOUS
      <4> QED  BY <4>1, <4>2, Zenon
    <3> QED  BY <2>1, <3>1 DEF TypeOK
  <2>4. faults' \in 0..MaxFault
    BY <1>4, Zenon DEF DetachDevices
  <2>5. snap' \in [Layer -> {"new", "active", "native", "committed", "removed"}]
        /\ removing' \subseteq Layer /\ stuck' \subseteq Layer
    BY <1>4 DEF DetachDevices
  <2> QED  BY <1>4, <2>2, <2>3, <2>4, <2>5, Zenon DEF DetachDevices
<1>5. ASSUME NEW l \in Layer, DetachForget(l) PROVE TypeOK'
  BY <1>5, Paths DEF DetachForget, RemoveDir, NoFile, FileType
<1>6. CASE Crash
  BY <1>6, IdleType DEF Crash, Closed, FdType
<1>7. CASE UNCHANGED vars
  BY <1>7 DEF vars
<1> QED  BY <1>1, <1>2, <1>3, <1>4, <1>5, <1>6, <1>7 DEF Next

--------------------------------------------------------------------------------
(* Jobs.                                                                         *)

\* A step of a call keeps to the order of its jobs.
LEMMA CallJob ==
  ASSUME TypeOK, JobInv, NEW t \in Task, TaskStep(t)
  PROVE  JobOK(t)'
<1>0. JobOK(t) /\ (task[t].pc # "idle" => task[t].layer \in Layer /\ task[t].layer # None)
  BY LayerOfCall, ConstAssumption, Zenon DEF JobInv
<1>1. CASE task'[t] = Idle
  <2>1. task'[t].pc = "idle" /\ task'[t].job = "none" /\ task'[t].layer = None
    BY <1>1, IdleFields, Zenon
  <2> QED  BY <2>1 DEF JobOK, Preparing, Tool
<1>2. CASE PrepareMoves(t)
  BY <1>0, <1>2 DEF PrepareMoves, Kept, Starts, JobOK, Preparing, Tool
<1>3. CASE WaitMoves(t)
  <2>0. task[t].pc \in {"get", "wait"} /\ task[t].layer # None /\ task[t].job # "none"
    BY <1>0, <1>3 DEF WaitMoves, JobOK, Preparing
  <2>1. CASE task'[t].pc \in {"wait", "attach"}
    <3>1. Kept(t) /\ task'[t].idx = task[t].idx /\ (task'[t].pc = "attach" => task[t].job = "mount")
      BY <1>3, <2>1 DEF WaitMoves, Up
    <3> QED  BY <1>0, <2>0, <2>1, <3>1 DEF Kept, JobOK, Preparing, Tool
  <2>2. CASE task[t].job # "mount" /\ Up(t, "run")
    <3>1. task[t].idx \in Nat /\ Len(Stack[task[t].layer]) \in Nat
      BY <1>0, <2>0, StackFacts, Zenon DEF TypeOK, TaskType
    <3> QED  BY <1>0, <2>0, <2>2, <3>1 DEF Up, Kept, JobOK, Preparing, Tool
  <2> QED  BY <1>3, <2>1, <2>2 DEF WaitMoves
<1>4. CASE ToolMoves(t)
  <2>0. task[t].pc \in Tool /\ task[t].layer # None /\ task[t].job # "none" /\ task[t].job # "mount"
    BY <1>0, <1>4 DEF ToolMoves, JobOK, Preparing, Tool
  <2>1. CASE Kept(t) /\ task'[t].pc \in Tool
    BY <2>0, <2>1 DEF Kept, JobOK, Preparing, Tool
  <2>2. CASE Merged(t)
    BY <2>0, <2>2 DEF Merged, Starts, JobOK, Preparing, Tool
  <2>3. CASE Starts(t, "mount", "begin")
    BY <2>0, <2>3 DEF Starts, JobOK, Preparing, Tool
  <2> QED  BY <1>4, <2>1, <2>2, <2>3, Zenon DEF ToolMoves, Tool
<1>5. CASE RunMoves(t)
  <2>0. /\ task[t].pc \in {"stat", "begin", "attach"} /\ task[t].layer # None
        /\ task[t].idx \in Nat /\ Len(Stack[task[t].layer]) \in Nat \ {0}
    BY <1>0, <1>5, StackFacts DEF RunMoves, TypeOK, TaskType
  <2>1. CASE Merged(t)
    BY <2>0, <2>1 DEF Merged, Starts, JobOK, Preparing, Tool
  <2>2. CASE \E job \in {"merge", "mount"} :
               Starts(t, job, "get") /\ task'[t].idx = Len(Stack[task[t].layer])
    BY <2>0, <2>2, SMTT(30) DEF Starts, JobOK, Preparing, Tool
  <2>3. CASE task[t].pc = "attach" /\ Up(t, "mount")
    <3>1. /\ task[t].job = "mount" /\ task'[t].job = "mount" /\ task'[t].layer = task[t].layer
          /\ task[t].idx \in 1..Len(Stack[task[t].layer])
      BY <1>0, <2>3 DEF Up, Kept, JobOK
    <3>2. task'[t].pc \in {"get", "mount"} /\ task'[t].idx \in 1..Len(Stack[task[t].layer])
      BY <2>0, <2>3, <3>1 DEF Up
    <3> QED  BY <2>0, <3>1, <3>2 DEF JobOK, Preparing, Tool
  <2> QED  BY <1>5, <2>1, <2>2, <2>3, Zenon DEF RunMoves
<1> QED  BY CallMoves, <1>1, <1>2, <1>3, <1>4, <1>5, Zenon

\* The steps that leave the calls where they are.
LEMMA NoCall ==
  ASSUME NEW l \in Layer, ConvStep(l) \/ DetachDevices(l) \/ DetachForget(l)
  PROVE  UNCHANGED task
  BY Zenon DEF ConvStep, ConvOpen, ConvRun, ConvRename, ConvExit, DetachDevices, DetachForget

\* Every call keeps to the order of its jobs.
LEMMA JobStep == TypeOK /\ JobInv /\ [Next]_vars => JobInv'
<1> SUFFICES ASSUME TypeOK, JobInv, [Next]_vars, NEW u \in Task PROVE JobOK(u)'
  BY DEF JobInv
<1>0. JobOK(u)
  BY DEF JobInv
<1>1. ASSUME NEW t \in Task, NEW l \in Layer, PrepareBegin(t, l) \/ StartContainer(t, l)
      PROVE  JobOK(u)'
  <2>1. /\ SameRest(t) /\ task'[t].layer = l
        /\ \/ task'[t].pc = "hint" /\ task'[t].job = "none"
           \/ task'[t].pc = "stat" /\ task'[t].job = "merge"
    BY <1>1, BeginEffect
  <2>2. CASE u = t
    BY <2>1, <2>2, ConstAssumption DEF JobOK, Preparing, Tool
  <2>3. CASE u # t
    BY <1>0, <2>1, <2>3 DEF JobOK, SameRest
  <2> QED  BY <2>2, <2>3
<1>2. ASSUME NEW t \in Task, TaskStep(t) PROVE JobOK(u)'
  <2>1. CASE u = t
    BY <1>2, <2>1, CallJob
  <2>2. CASE u # t
    BY <1>0, <1>2, <2>2, CallStep DEF SameRest, JobOK
  <2> QED  BY <2>1, <2>2
<1>3. ASSUME NEW l \in Layer, ConvStep(l) \/ DetachDevices(l) \/ DetachForget(l) PROVE JobOK(u)'
  BY <1>0, <1>3, NoCall DEF JobOK
<1>4. CASE Crash
  BY <1>4 DEF Crash, JobOK, Idle, Preparing, Tool
<1>5. CASE UNCHANGED vars
  BY <1>0, <1>5 DEF vars, JobOK
<1> QED  BY <1>1, <1>2, <1>3, <1>4, <1>5 DEF Next

--------------------------------------------------------------------------------
(* Open files.                                                                   *)

Writing == {"running", "rename", "exit"}
Converting == {"run", "rename", "exit"}

\* The steps of a call that open no file and close none.
LEMMA QuietCall ==
  ASSUME TypeOK, JobInv, NEW t \in Task, TaskStep(t)
  PROVE  \/ RunImageTool(t) /\ Create(t, Target(t)) /\ Goto(t, "running")
         \/ ImageToolEnds(t) \/ ToolRename(t) \/ ToolExit(t)
         \/ UNCHANGED files /\ task[t].pc \notin Writing /\ task'[t].pc \notin Writing
<1>1. CASE RunImageTool(t)
  <2>1. CASE AfterRun(t) /\ UNCHANGED files
    <3>1. task[t].pc = "run"
      BY <1>1, Zenon DEF RunImageTool
    <3>2. task'[t].pc \in {"get", "begin", "idle"}
      BY <2>1, AfterRunEffect, IdleFields, Zenon
    <3> QED  BY <2>1, <3>1, <3>2 DEF Writing
  <2> QED  BY <1>1, <2>1, Zenon DEF RunImageTool
<1>2. ASSUME ~RunImageTool(t), ~ImageToolEnds(t), ~ToolRename(t), ~ToolExit(t)
      PROVE  UNCHANGED files /\ task[t].pc \notin Writing /\ task'[t].pc \notin Writing
  <2>1. UNCHANGED files
    BY <1>2, Zenon DEF TaskStep, CheckTarfsHintAnnotation, GetConcurrentLimiter, NewLimiter, Acquire,
         PrepareLayer, BlobStream, MergeStat, GetStatus, WaitLayerReady, MountBegin, AttachLayer,
         MountErofs
  <2>2. task[t].pc \in {"hint", "limit", "new_limiter", "acquire", "prepare", "stream", "stat", "get",
                        "wait", "begin", "attach", "mount"}
    BY <1>2 DEF TaskStep, CheckTarfsHintAnnotation, GetConcurrentLimiter, NewLimiter, Acquire,
         PrepareLayer, BlobStream, MergeStat, GetStatus, WaitLayerReady, MountBegin, AttachLayer,
         MountErofs
  <2>3. task[t].pc \notin Writing \cup {"run"}
    BY <2>2, Zenon DEF Writing
  <2>4. CASE task'[t] = Idle
    <3>1. task'[t].pc = "idle"
      BY <2>4, IdleFields, Zenon
    <3> QED  BY <2>1, <2>3, <3>1, Zenon DEF Writing
  <2>5. CASE PrepareMoves(t) \/ WaitMoves(t)
    BY <2>1, <2>3, <2>5, Zenon DEF PrepareMoves, WaitMoves, Starts, Up, Preparing, Writing
  <2>6. CASE ToolMoves(t)
    BY <2>3, <2>6, Zenon DEF ToolMoves, Writing
  <2>7. CASE RunMoves(t)
    BY <2>1, <2>3, <2>7, Zenon DEF RunMoves, Merged, Starts, Up, Writing
  <2> QED  BY CallMoves, <2>4, <2>5, <2>6, <2>7, Zenon
<1> QED  BY <1>1, <1>2, Zenon

\* The conversions that a call starts have no file open yet.
LEMMA CallConv ==
  ASSUME TypeOK, JobInv, ConvInv, NEW t \in Task, TaskStep(t)
  PROVE  /\ conv' = conv \/ (BlobStream(t) /\ conv' = [conv EXCEPT ![task[t].layer] = "open"])
         /\ \A l \in Layer : conv'[l] # conv[l] =>
              /\ task[t].pc = "stream" /\ l = task[t].layer
              /\ conv[l] = "none" /\ conv'[l] = "open"
<1>1. CASE BlobStream(t)
  <2>1. /\ task[t].pc = "stream"
        /\ conv' = conv \/ conv' = [conv EXCEPT ![task[t].layer] = "open"]
    BY <1>1, Zenon DEF BlobStream
  <2>2. task[t].layer \in Layer /\ task[t].layer # None /\ task[t].job = "none"
    BY <2>1, LayerOfCall DEF JobInv, JobOK, Preparing
  <2>3. conv[task[t].layer] = "none"
    BY <2>2, Zenon DEF ConvInv
  <2>4. conv \in [Layer -> {"none", "open", "run", "rename", "exit"}]
    BY Zenon DEF TypeOK
  <2> QED  BY <1>1, <2>1, <2>2, <2>3, <2>4
<1>2. CASE ~BlobStream(t)
  BY <1>2 DEF TaskStep, CheckTarfsHintAnnotation, GetConcurrentLimiter, NewLimiter, Acquire,
       PrepareLayer, MergeStat, GetStatus, WaitLayerReady, RunImageTool, ImageToolEnds,
       ToolRename, ToolExit, MountBegin, AttachLayer, MountErofs
<1> QED  BY <1>1, <1>2, Zenon

\* A writer at work keeps its file open; the others have none.
LEMMA OpenStep == TypeOK /\ JobInv /\ OpenInv /\ ConvInv /\ [Next]_vars => OpenInv'
<1> SUFFICES ASSUME TypeOK, JobInv, OpenInv, ConvInv, [Next]_vars PROVE OpenInv'
  OBVIOUS
<1> DEFINE Others(w) ==
      \A x \in Writer \ {w} : fd'[x].path = fd[x].path /\ (fd[x] = Closed => fd'[x] = Closed)
<1>0. /\ \A l \in Layer : l \in Writer /\ l \notin Task /\ Tar(l) \in Path
      /\ \A t \in Task : t \in Writer
  BY ConstAssumption, Paths, Zenon DEF Writer
<1>a. ASSUME NEW u \in Task, task'[u] = task[u], fd'[u].path = fd[u].path,
             fd[u] = Closed => fd'[u] = Closed
      PROVE  IF task'[u].pc \in {"running", "rename", "exit"}
             THEN fd'[u].path = Target(u)' ELSE fd'[u] = Closed
  <2>1. Target(u)' = Target(u)
    BY <1>a, Zenon DEF Target, Top, Boot, Disk
  <2> QED  BY <1>a, <2>1, Zenon DEF OpenInv
<1>b. ASSUME NEW l \in Layer, conv'[l] = conv[l], fd'[l].path = fd[l].path,
             fd[l] = Closed => fd'[l] = Closed
      PROVE  IF conv'[l] \in {"run", "rename", "exit"}
             THEN fd'[l].path = Tar(l) ELSE fd'[l] = Closed
  BY <1>b, Zenon DEF OpenInv
<1>c. ASSUME NEW t \in Task, SameRest(t), Others(t),
             \A l \in Layer : conv[l] # conv'[l] => conv[l] = "none" /\ conv'[l] = "open",
             IF task'[t].pc \in Writing THEN fd'[t].path = Target(t)' ELSE fd'[t] = Closed
      PROVE  OpenInv'
  <2>1. ASSUME NEW u \in Task
        PROVE  IF task'[u].pc \in {"running", "rename", "exit"}
               THEN fd'[u].path = Target(u)' ELSE fd'[u] = Closed
    BY <1>0, <1>a, <1>c, Zenon DEF SameRest, Writing
  <2>2. ASSUME NEW l \in Layer
        PROVE  IF conv'[l] \in {"run", "rename", "exit"}
               THEN fd'[l].path = Tar(l) ELSE fd'[l] = Closed
    <3>0. l \in Writer \ {t} /\ fd'[l].path = fd[l].path /\ (fd[l] = Closed => fd'[l] = Closed)
      BY <1>0, <1>c, Zenon
    <3>1. CASE conv'[l] = conv[l]
      BY <1>b, <3>0, <3>1, Zenon
    <3>2. CASE conv'[l] # conv[l]
      <4>1. conv[l] = "none" /\ conv'[l] = "open"
        BY <1>c, <3>2, Zenon
      <4>2. conv[l] \notin {"run", "rename", "exit"} /\ conv'[l] \notin {"run", "rename", "exit"}
        BY <4>1
      <4> QED  BY <3>0, <4>2, Zenon DEF OpenInv
    <3> QED  BY <3>1, <3>2
  <2>3. \A l \in Layer : Tar(l)' = Tar(l)
    BY DEF Tar
  <2> QED  BY <2>1, <2>2, <2>3, Zenon DEF OpenInv
<1>d. ASSUME NEW l \in Layer, UNCHANGED task, Others(l), \A m \in Layer \ {l} : conv'[m] = conv[m],
             IF conv'[l] \in Converting THEN fd'[l].path = Tar(l) ELSE fd'[l] = Closed
      PROVE  OpenInv'
  <2>1. ASSUME NEW u \in Task
        PROVE  IF task'[u].pc \in {"running", "rename", "exit"}
               THEN fd'[u].path = Target(u)' ELSE fd'[u] = Closed
    <3>1. u \in Writer \ {l}
      BY <1>0, Zenon
    <3> QED  BY <1>a, <1>d, <3>1, Zenon
  <2>2. ASSUME NEW m \in Layer
        PROVE  IF conv'[m] \in {"run", "rename", "exit"}
               THEN fd'[m].path = Tar(m) ELSE fd'[m] = Closed
    <3>1. CASE m = l
      BY <1>d, <3>1, Zenon DEF Converting
    <3>2. CASE m # l
      <4>1. m \in Writer \ {l} /\ conv'[m] = conv[m]
        BY <1>0, <1>d, <3>2, Zenon
      <4> QED  BY <1>b, <1>d, <4>1, Zenon
    <3> QED  BY <3>1, <3>2
  <2>3. \A m \in Layer : Tar(m)' = Tar(m)
    BY DEF Tar
  <2> QED  BY <2>1, <2>2, <2>3, Zenon DEF OpenInv
<1> HIDE DEF Others
<1>1. ASSUME NEW t \in Task, NEW l \in Layer, PrepareBegin(t, l) \/ StartContainer(t, l)
      PROVE  OpenInv'
  <2>1. SameRest(t) /\ task[t] = Idle /\ task'[t].pc \in {"hint", "stat"}
    BY <1>1, BeginEffect
  <2>2. UNCHANGED <<conv, fd>>
    BY <1>1, Zenon DEF PrepareBegin, StartContainer, files
  <2>3. task'[t].pc \notin Writing /\ task[t].pc \notin Writing
    BY <2>1 DEF Writing, Idle
  <2>4. fd'[t] = Closed /\ Others(t)
    BY <2>2, <2>3, Zenon DEF OpenInv, Writing, Others
  <2> QED  BY <1>c, <2>1, <2>2, <2>3, <2>4, Zenon
<1>2. ASSUME NEW t \in Task, TaskStep(t) PROVE OpenInv'
  <2>0. SameRest(t) /\ t \in Writer
    BY <1>0, <1>2, CallStep, Zenon
  <2>1. \A l \in Layer : conv[l] # conv'[l] => conv[l] = "none" /\ conv'[l] = "open"
    BY <1>2, CallConv, Zenon
  <2>2. CASE UNCHANGED files /\ task[t].pc \notin Writing /\ task'[t].pc \notin Writing
    <3>1. fd'[t] = Closed /\ Others(t)
      BY <2>2, Zenon DEF OpenInv, Writing, Others, files
    <3> QED  BY <1>c, <2>0, <2>1, <2>2, <3>1, Zenon
  <2>3. CASE RunImageTool(t) /\ Create(t, Target(t)) /\ Goto(t, "running")
    <3>1. Target(t) \in Path
      BY <2>3, OpenPaths, Zenon DEF RunImageTool
    <3>2. fd'[t].path = Target(t) /\ Others(t)
      BY <2>0, <2>3, <3>1, CreateEffect, Zenon DEF Others
    <3>3. task'[t].pc \in Writing /\ Target(t)' = Target(t)
      BY <2>3, GotoEffect DEF PC, Target, Top, Writing
    <3> QED  BY <1>c, <2>0, <2>1, <3>2, <3>3, Zenon
  <2>4. ASSUME fd[t].path \in Path, RemoveTmp(t), task'[t].pc \notin Writing PROVE OpenInv'
    <3>1. fd'[t] = Closed /\ Others(t)
      BY <2>0, <2>4, RemoveTmpEffect, Zenon DEF Others
    <3> QED  BY <1>c, <2>0, <2>1, <2>4, <3>1, Zenon
  <2>5. CASE ImageToolEnds(t)
    <3>1. fd[t].path = Target(t) /\ fd[t].path \in Path
      BY <2>5, OpenPaths, Zenon DEF ImageToolEnds, OpenInv
    <3>2. CASE Write(t) /\ Goto(t, "rename")
      <4>1. fd' = fd
        BY <3>2, Zenon DEF Write
      <4>2. task'[t].pc \in Writing /\ Target(t)' = Target(t)
        BY <3>2, GotoEffect DEF PC, Target, Top, Writing
      <4> QED  BY <1>c, <2>0, <2>1, <3>1, <4>1, <4>2, Zenon DEF Others
    <3>3. CASE RemoveTmp(t) /\ ToIdle(t)
      <4>1. task'[t].pc \notin Writing
        BY <3>3, IdleEffect DEF Idle, Writing
      <4> QED  BY <2>4, <3>1, <3>3, <4>1, Zenon
    <3> QED  BY <2>5, <3>2, <3>3, Zenon DEF ImageToolEnds
  <2>6. CASE ToolRename(t)
    <3>1. fd[t].path = Target(t) /\ fd[t].path \in Path
      BY <2>6, OpenPaths, Zenon DEF ToolRename, OpenInv
    <3>2. CASE Rename(t) /\ Goto(t, "exit")
      <4>1. SamePaths
        BY <2>0, <3>1, <3>2, RenameEffect, Zenon
      <4>2. task'[t].pc \in Writing /\ Target(t)' = Target(t)
        BY <3>2, GotoEffect DEF PC, Target, Top, Writing
      <4> QED  BY <1>c, <2>0, <2>1, <3>1, <4>1, <4>2, Zenon DEF Others, SamePaths
    <3>3. CASE RemoveTmp(t) /\ ToIdle(t)
      <4>1. task'[t].pc \notin Writing
        BY <3>3, IdleEffect DEF Idle, Writing
      <4> QED  BY <2>4, <3>1, <3>3, <4>1, Zenon
    <3> QED  BY <2>6, <3>2, <3>3, Zenon DEF ToolRename
  <2>7. CASE ToolExit(t)
    <3>1. fd[t].path \in Path /\ AfterRun(t) /\ RemoveTmp(t)
      BY <2>7, OpenPaths, Zenon DEF ToolExit
    <3>2. task'[t].pc \notin Writing
      BY <3>1, AfterRunEffect DEF Writing, Idle
    <3> QED  BY <2>4, <3>1, <3>2, Zenon
  <2> QED  BY <1>2, <2>2, <2>3, <2>5, <2>6, <2>7, QuietCall, Zenon
<1>3. ASSUME NEW l \in Layer, ConvStep(l) PROVE OpenInv'
  <2>0. UNCHANGED task /\ l \in Writer /\ Tar(l) \in Path
    BY <1>0, <1>3, NoCall, Zenon
  <2>1. ASSUME NEW s \in {"none", "run", "rename", "exit"}, conv' = [conv EXCEPT ![l] = s]
        PROVE  /\ conv'[l] = s /\ \A m \in Layer \ {l} : conv'[m] = conv[m]
               /\ conv'[l] \in Converting <=> s # "none"
    <3>1. conv \in [Layer -> {"none", "open", "run", "rename", "exit"}]
      BY Zenon DEF TypeOK
    <3>2. conv'[l] = s /\ \A m \in Layer \ {l} : conv'[m] = conv[m]
      BY <2>1, <3>1
    <3>3. s \in Converting <=> s # "none"
      BY <2>1 DEF Converting
    <3> QED  BY <3>2, <3>3
  <2>2. ASSUME fd[l].path \in Path, RemoveTmp(l), NEW s, ConvDone(l, s) PROVE OpenInv'
    <3>1. fd'[l] = Closed /\ Others(l)
      BY <2>0, <2>2, RemoveTmpEffect, Zenon DEF Others
    <3>2. conv'[l] \notin Converting /\ \A m \in Layer \ {l} : conv'[m] = conv[m]
      BY <2>1, <2>2, Zenon DEF ConvDone
    <3> QED  BY <1>d, <2>0, <3>1, <3>2, Zenon
  <2>3. CASE ConvOpen(l)
    <3>1. CASE Create(l, Tar(l)) /\ conv' = [conv EXCEPT ![l] = "run"]
      <4>1. fd'[l].path = Tar(l) /\ Others(l)
        BY <2>0, <3>1, CreateEffect, Zenon DEF Others
      <4>2. conv'[l] \in Converting /\ \A m \in Layer \ {l} : conv'[m] = conv[m]
        BY <2>1, <3>1, Zenon
      <4> QED  BY <1>d, <2>0, <4>1, <4>2, Zenon
    <3>2. CASE ConvDone(l, "failed") /\ UNCHANGED files
      <4>1. conv'[l] \notin Converting /\ \A m \in Layer \ {l} : conv'[m] = conv[m]
        BY <2>1, <3>2, Zenon DEF ConvDone
      <4>2. conv[l] \notin {"run", "rename", "exit"}
        BY <2>3 DEF ConvOpen
      <4>3. fd'[l] = Closed /\ Others(l)
        BY <3>2, <4>2, Zenon DEF OpenInv, Others, files
      <4> QED  BY <1>d, <2>0, <4>1, <4>3, Zenon
    <3> QED  BY <2>3, <3>1, <3>2, Zenon DEF ConvOpen
  <2>4. CASE ConvRun(l)
    <3>1. fd[l].path = Tar(l)
      BY <2>4, Zenon DEF ConvRun, OpenInv
    <3>2. CASE (Write(l) \/ UNCHANGED files) /\ conv' = [conv EXCEPT ![l] = "rename"]
      <4>1. fd' = fd
        BY <3>2, Zenon DEF Write, files
      <4>2. conv'[l] \in Converting /\ \A m \in Layer \ {l} : conv'[m] = conv[m]
        BY <2>1, <3>2, Zenon
      <4> QED  BY <1>d, <2>0, <3>1, <4>1, <4>2, Zenon DEF Others
    <3> QED  BY <2>0, <2>2, <2>4, <3>1, <3>2, Zenon DEF ConvRun
  <2>5. CASE ConvRename(l)
    <3>1. fd[l].path = Tar(l)
      BY <2>5, Zenon DEF ConvRename, OpenInv
    <3>2. CASE Rename(l) /\ conv' = [conv EXCEPT ![l] = "exit"]
      <4>1. SamePaths
        BY <2>0, <3>1, <3>2, RenameEffect, Zenon
      <4>2. conv'[l] \in Converting /\ \A m \in Layer \ {l} : conv'[m] = conv[m]
        BY <2>1, <3>2, Zenon
      <4> QED  BY <1>d, <2>0, <3>1, <4>1, <4>2, Zenon DEF Others, SamePaths
    <3> QED  BY <2>0, <2>2, <2>5, <3>1, <3>2, Zenon DEF ConvRename
  <2>6. CASE ConvExit(l)
    BY <2>0, <2>2, <2>6, OpenPaths, Zenon DEF ConvExit
  <2> QED  BY <1>3, <2>3, <2>4, <2>5, <2>6, Zenon DEF ConvStep
<1>4. ASSUME NEW l \in Layer, DetachDevices(l) \/ DetachForget(l) PROVE OpenInv'
  BY <1>4, Zenon DEF DetachDevices, DetachForget, RemoveDir, OpenInv, files, Target, Top
<1>5. CASE Crash
  BY <1>5, Zenon DEF Crash, OpenInv, Idle, Writer
<1>6. CASE UNCHANGED vars
  BY <1>6, Zenon DEF vars, files, OpenInv, Target, Top
<1> QED  BY <1>1, <1>2, <1>3, <1>4, <1>5, <1>6 DEF Next

--------------------------------------------------------------------------------
(* Snapshots.                                                                    *)

\* How a step of a call changes snapshots: a layer that has been prepared is given to
\* containerd, as a committed snapshot or to be unpacked.
LEMMA CallSnap ==
  ASSUME TypeOK, JobInv, NEW t \in Task, TaskStep(t)
  PROVE  /\ SameRest(t)
         /\ Preparer(t)' => Preparer(t) /\ task'[t].layer = task[t].layer
         /\ Runner(t)' => Runner(t) /\ task'[t].layer = task[t].layer
         /\ \/ UNCHANGED snap
            \/ /\ Preparer(t) /\ task'[t] = Idle
               /\ \E s \in {"native", "committed"} : snap' = [snap EXCEPT ![task[t].layer] = s]
<1>0. SameRest(t) /\ JobOK(t)
      /\ (task[t].pc # "idle" => task[t].layer \in Layer /\ task[t].layer # None)
  BY CallStep, LayerOfCall, ConstAssumption, Zenon DEF JobInv
<1>1. /\ Preparer(t)' => Preparer(t) /\ task'[t].layer = task[t].layer
      /\ Runner(t)' => Runner(t) /\ task'[t].layer = task[t].layer
  <2>1. CASE task'[t] = Idle
    BY <2>1, SMTT(30) DEF Idle, Preparer, Runner
  <2>2. CASE PrepareMoves(t)
    BY <1>0, <2>2 DEF PrepareMoves, Kept, Starts, JobOK, Preparing, Preparer, Runner
  <2>3. CASE Kept(t)
    BY <2>3 DEF Kept, Preparer, Runner
  <2>4. CASE task[t].job \in {"merge", "image_disk", "mount"} /\ task'[t].layer = task[t].layer
             /\ task'[t].job \in {"merge", "image_disk", "mount"}
    BY <2>4, Zenon DEF Preparer, Runner
  <2>5. CASE WaitMoves(t) \/ ToolMoves(t)
    BY <2>3, <2>4, <2>5, Zenon DEF WaitMoves, ToolMoves, Up, Merged, Starts
  <2>6. CASE RunMoves(t)
    BY <1>0, <2>3, <2>4, <2>6, Zenon DEF RunMoves, Up, Merged, Starts, JobOK
  <2> QED  BY CallMoves, <2>1, <2>2, <2>5, <2>6, Zenon
<1>2. CASE CheckTarfsHintAnnotation(t)
  <2>1. Preparer(t)
    BY <1>0, <1>2, Zenon DEF CheckTarfsHintAnnotation, JobOK, Preparing, Preparer
  <2> QED  BY <1>0, <1>1, <1>2, <2>1, IdleEffect, Zenon DEF CheckTarfsHintAnnotation
<1>3. CASE BlobStream(t)
  <2>1. Preparer(t) /\ task[t].layer \in Layer
    BY <1>0, <1>3, Zenon DEF BlobStream, JobOK, Preparing, Preparer
  <2>2. AfterPrepare(t, task[t].layer)
    BY <1>3, Zenon DEF BlobStream
  <2> QED  BY <1>0, <1>1, <2>1, <2>2, AfterPrepareEffect, Zenon
<1>4. CASE AfterRun(t) /\ task[t].pc \in {"run", "exit"}
  <2>1. task[t].job = "layer_disk" => Preparer(t)
    BY <1>0, <1>4, Zenon DEF Preparer
  <2> QED  BY <1>0, <1>1, <1>4, <2>1, AfterRunEffect, Zenon
<1>5. CASE UNCHANGED snap
  BY <1>0, <1>1, <1>5, Zenon
<1>6. \/ CheckTarfsHintAnnotation(t) \/ BlobStream(t) \/ UNCHANGED snap
      \/ AfterRun(t) /\ task[t].pc \in {"run", "exit"}
  BY DEF TaskStep, GetConcurrentLimiter, NewLimiter, Acquire, PrepareLayer, MergeStat, GetStatus,
       WaitLayerReady, RunImageTool, ImageToolEnds, ToolRename, ToolExit, MountBegin, AttachLayer,
       MountErofs
<1> QED  BY <1>2, <1>3, <1>4, <1>5, <1>6, Zenon

\* A layer is prepared by one call, and what lies below a snapshot in use stays committed.
LEMMA SnapStep == TypeOK /\ JobInv /\ SnapInv /\ [Next]_vars => SnapInv'
<1> SUFFICES ASSUME TypeOK, JobInv, SnapInv, [Next]_vars PROVE SnapInv'
  OBVIOUS
<1>0. \A t \in Task : (Preparer(t) \/ Runner(t)) => task[t].layer \in Layer
  BY DEF TypeOK, TaskType, Preparer, Runner, JobInv, JobOK, Preparing
<1>1. ASSUME NEW t \in Task, NEW l \in Layer, PrepareBegin(t, l) PROVE SnapInv'
  <2>1. SameRest(t) /\ task'[t].layer = l /\ task'[t].job = "none" /\ task[t] = Idle
    BY <1>1, BeginEffect, Zenon
  <2>2. snap[l] = "new" /\ snap' = [snap EXCEPT ![l] = "active"]
        /\ \A x \in Below(l) \ {l} : snap[x] = "committed"
    BY <1>1, Zenon DEF PrepareBegin
  <2>3. \A u \in Task : Preparer(u) \/ Runner(u) => task[u].layer # l
    BY <2>2 DEF SnapInv
  <2>4. \A u \in Task \ {t} : (Preparer(u)' <=> Preparer(u)) /\ (Runner(u)' <=> Runner(u))
    BY <2>1 DEF SameRest, Preparer, Runner
  <2>5. ~Runner(t)'
    BY <2>1 DEF Runner
  <2>6. \A x \in Layer : snap'[x] = IF x = l THEN "active" ELSE snap[x]
    BY <2>2, Zenon DEF TypeOK
  <2>7. \A m \in Layer : snap'[m] \notin {"new", "removed"} =>
          \A x \in Below(m) \ {m} : snap'[x] = "committed"
    BY <2>2, <2>6, StackFacts, SMTT(30) DEF SnapInv
  <2>8. \A u \in Task \ {t} : Preparer(u)' => task'[u].layer # l
    BY <2>1, <2>3, <2>4, Zenon DEF SameRest
  <2>9. \A u \in Task : Preparer(u)' => snap'[task'[u].layer] = "active"
    <3>1. ASSUME NEW u \in Task \ {t}, Preparer(u)' PROVE snap'[task'[u].layer] = "active"
      <4>1. task'[u] = task[u] /\ Preparer(u)
        BY <2>1, <2>4, <3>1, Zenon DEF SameRest
      <4>2. task[u].layer \in Layer /\ snap[task[u].layer] = "active"
        BY <1>0, <3>1, <4>1, Zenon DEF SnapInv
      <4> QED  BY <2>6, <4>1, <4>2
    <3>2. snap'[task'[t].layer] = "active"
      BY <2>1, <2>6
    <3> QED  BY <3>1, <3>2, Zenon
  <2>10. \A u \in Task : Runner(u)' => snap'[task'[u].layer] = "committed"
    <3>1. ASSUME NEW u \in Task, Runner(u)' PROVE snap'[task'[u].layer] = "committed"
      <4>1. u # t
        BY <2>5, <3>1, Zenon
      <4>2. task'[u] = task[u] /\ Runner(u)
        BY <2>1, <2>4, <3>1, <4>1, Zenon DEF SameRest
      <4>3. task[u].layer \in Layer /\ snap[task[u].layer] = "committed" /\ task[u].layer # l
        BY <1>0, <2>3, <3>1, <4>2, Zenon DEF SnapInv
      <4> QED  BY <2>6, <4>2, <4>3
    <3> QED  BY <3>1, Zenon
  <2>11. \A u, v \in Task :
           Preparer(u)' /\ Preparer(v)' /\ task'[u].layer = task'[v].layer => u = v
    <3>1. ASSUME NEW u \in Task, NEW v \in Task, Preparer(u)', Preparer(v)', task'[u].layer = task'[v].layer
          PROVE  u = v
      <4>1. CASE u # t /\ v # t
        <5>1. /\ task'[u] = task[u] /\ Preparer(u)
              /\ task'[v] = task[v] /\ Preparer(v)
          BY <2>1, <2>4, <3>1, <4>1, Zenon DEF SameRest
        <5> QED  BY <3>1, <5>1, Zenon DEF SnapInv
      <4>2. CASE u = t \/ v = t
        BY <2>1, <2>8, <3>1, <4>2, Zenon
      <4> QED  BY <4>1, <4>2
    <3> QED  BY <3>1, Zenon
  <2> QED  BY <2>7, <2>9, <2>10, <2>11, Zenon DEF SnapInv
<1>2. ASSUME NEW t \in Task, NEW l \in Layer, StartContainer(t, l) PROVE SnapInv'
  <2>1. SameRest(t) /\ task'[t].layer = l /\ task'[t].job = "merge"
    BY <1>2, BeginEffect
  <2>2. snap[l] = "committed" /\ UNCHANGED snap
    BY <1>2 DEF StartContainer
  <2>3. \A u \in Task \ {t} : (Preparer(u)' <=> Preparer(u)) /\ (Runner(u)' <=> Runner(u))
    BY <2>1 DEF SameRest, Preparer, Runner
  <2>4. ~Preparer(t)'
    BY <2>1 DEF Preparer
  <2>5. ASSUME NEW u \in Task, u # t
        PROVE  /\ task'[u] = task[u]
               /\ Preparer(u)' => snap'[task'[u].layer] = "active"
               /\ Runner(u)' => snap'[task'[u].layer] = "committed"
    <3>1. task'[u] = task[u]
      BY <2>1, <2>5, Zenon DEF SameRest
    <3> QED  BY <2>2, <2>3, <2>5, <3>1, Zenon DEF SnapInv
  <2>6. ASSUME NEW u \in Task, NEW v \in Task, Preparer(u)', Preparer(v)', task'[u].layer = task'[v].layer
        PROVE  u = v
    <3>1. u # t /\ v # t
      BY <2>4, <2>6, Zenon
    <3>2. task[u].layer = task[v].layer /\ Preparer(u) /\ Preparer(v)
      BY <2>3, <2>5, <2>6, <3>1, Zenon
    <3> QED  BY <3>2, Zenon DEF SnapInv
  <2>7. snap'[task'[t].layer] = "committed"
    BY <2>1, <2>2, Zenon
  <2>8. \A m \in Layer : snap'[m] \notin {"new", "removed"} =>
          \A x \in Below(m) \ {m} : snap'[x] = "committed"
    BY <2>2, Zenon DEF SnapInv
  <2> QED  BY <2>4, <2>5, <2>6, <2>7, <2>8, Zenon DEF SnapInv
<1>3. ASSUME NEW t \in Task, TaskStep(t) PROVE SnapInv'
  <2>1. /\ SameRest(t)
        /\ Preparer(t)' => Preparer(t) /\ task'[t].layer = task[t].layer
        /\ Runner(t)' => Runner(t) /\ task'[t].layer = task[t].layer
    BY <1>3, CallSnap, Zenon
  <2>2. \A u \in Task \ {t} : (Preparer(u)' <=> Preparer(u)) /\ (Runner(u)' <=> Runner(u))
    BY <2>1, Zenon DEF SameRest, Preparer, Runner
  <2>a. \A u \in Task : /\ Preparer(u)' => Preparer(u) /\ task'[u].layer = task[u].layer
                        /\ Runner(u)' => Runner(u) /\ task'[u].layer = task[u].layer
    BY <2>1, <2>2, Zenon DEF SameRest
  <2>3. CASE UNCHANGED snap
    BY <2>a, <2>3, Zenon DEF SnapInv
  <2>4. CASE /\ Preparer(t) /\ task'[t] = Idle
             /\ \E s \in {"native", "committed"} : snap' = [snap EXCEPT ![task[t].layer] = s]
    <3>1. PICK s \in {"native", "committed"} : snap' = [snap EXCEPT ![task[t].layer] = s]
      BY <2>4, Zenon
    <3>2. task[t].layer \in Layer /\ snap[task[t].layer] = "active"
      BY <1>0, <2>4 DEF SnapInv
    <3>3. \A x \in Layer : snap'[x] = IF x = task[t].layer THEN s ELSE snap[x]
      BY <3>1, <3>2 DEF TypeOK
    <3>4. ~Preparer(t)' /\ ~Runner(t)'
      BY <2>4, SMTT(30) DEF Preparer, Runner, Idle
    <3>5. \A u \in Task \ {t} : Preparer(u) \/ Runner(u) => task[u].layer # task[t].layer
      BY <2>4, <3>2, Zenon DEF SnapInv
    <3>6. \A m \in Layer : snap'[m] \notin {"new", "removed"} =>
            \A x \in Below(m) \ {m} : snap'[x] = "committed"
      BY <3>2, <3>3, StackFacts, Zenon DEF SnapInv
    <3>7. \A u \in Task : Preparer(u)' \/ Runner(u)' => snap'[task'[u].layer] = snap[task[u].layer]
      BY <1>0, <2>a, <3>3, <3>4, <3>5
    <3>8. ASSUME NEW u \in Task
          PROVE  /\ Preparer(u)' => snap'[task'[u].layer] = "active"
                 /\ Runner(u)' => snap'[task'[u].layer] = "committed"
      BY <2>a, <3>7, <3>8, Zenon DEF SnapInv
    <3>9. ASSUME NEW u \in Task, NEW v \in Task, Preparer(u)', Preparer(v)', task'[u].layer = task'[v].layer
          PROVE  u = v
      BY <2>a, <3>9, Zenon DEF SnapInv
    <3> QED  BY <3>6, <3>8, <3>9, Zenon DEF SnapInv
  <2> QED  BY <1>3, <2>3, <2>4, CallSnap, Zenon
<1>4. ASSUME NEW l \in Layer, ConvStep(l) \/ DetachForget(l) PROVE SnapInv'
  <2>1. UNCHANGED <<task, snap>>
    BY <1>4, Zenon DEF ConvStep, ConvOpen, ConvRun, ConvRename, ConvExit, DetachForget
  <2> QED  BY <2>1 DEF SnapInv, Preparer, Runner
<1>5. ASSUME NEW l \in Layer, DetachDevices(l) PROVE SnapInv'
  <2>1. UNCHANGED task /\ Removable(l) /\ snap' = [snap EXCEPT ![l] = "removed"]
    BY <1>5, Zenon DEF DetachDevices
  <2>2. \A x \in Layer : snap'[x] = IF x = l THEN "removed" ELSE snap[x]
    BY <2>1 DEF TypeOK
  <2>3. \A t \in Task : Preparer(t) \/ Runner(t) => task[t].layer \in Layer \ {l}
    BY <1>0, <2>1, StackFacts, ConstAssumption, Zenon DEF Removable
  <2>4. \A m \in Layer : snap'[m] \notin {"new", "removed"} =>
          \A x \in Below(m) \ {m} : snap'[x] = "committed"
    <3> SUFFICES ASSUME NEW m \in Layer, snap'[m] \notin {"new", "removed"},
                        NEW x \in Below(m) \ {m}
                 PROVE  snap'[x] = "committed"
      OBVIOUS
    <3>1. m # l /\ snap'[m] = snap[m] /\ x \in Layer
      BY <2>2, StackFacts
    <3>2. x # l
      BY <2>1, <3>1, Zenon DEF Removable
    <3>3. snap[x] = "committed"
      BY <3>1, Zenon DEF SnapInv
    <3> QED  BY <2>2, <3>1, <3>2, <3>3
  <2>5. \A t \in Task : task'[t] = task[t] /\ (Preparer(t)' <=> Preparer(t)) /\ (Runner(t)' <=> Runner(t))
    BY <2>1, Zenon DEF Preparer, Runner
  <2>6. \A t \in Task : Preparer(t) \/ Runner(t) => snap'[task[t].layer] = snap[task[t].layer]
    BY <2>2, <2>3
  <2>7. ASSUME NEW t \in Task
        PROVE  /\ Preparer(t)' => snap'[task'[t].layer] = "active"
               /\ Runner(t)' => snap'[task'[t].layer] = "committed"
    BY <2>5, <2>6, Zenon DEF SnapInv
  <2>8. ASSUME NEW t \in Task, NEW u \in Task, Preparer(t)', Preparer(u)', task'[t].layer = task'[u].layer
        PROVE  t = u
    BY <2>5, <2>8, Zenon DEF SnapInv
  <2> QED  BY <2>4, <2>7, <2>8, Zenon DEF SnapInv
<1>6. CASE Crash
  BY <1>6, Zenon DEF Crash, SnapInv, Preparer, Runner, Idle
<1>7. CASE UNCHANGED vars
  BY <1>7, Zenon DEF vars, SnapInv, Preparer, Runner
<1> QED  BY <1>1, <1>2, <1>3, <1>4, <1>5, <1>6, <1>7 DEF Next

--------------------------------------------------------------------------------
(* The status of layers.                                                         *)

\* The epilog of a conversion changes only the status of a layer that is present.
LEMMA EpilogEffect ==
  ASSUME TypeOK, NEW l \in Layer, NEW s \in {"ready", "failed"}, Epilog(l, s)
  PROVE  /\ \A x \in Layer : /\ st'[x].data = st[x].data /\ st'[x].meta = st[x].meta
                             /\ st'[x].mnt = st[x].mnt
         /\ \A x \in Layer : x # l \/ x \notin present => st'[x].status = st[x].status
         /\ l \in present => st'[l].status = s
<1>1. CASE l \notin present
  BY <1>1 DEF Epilog
<1>2. CASE l \in present
  <2> DEFINE r == [st[l] EXCEPT !.status = s]
  <2>1. r.status = s /\ r.data = st[l].data /\ r.meta = st[l].meta /\ r.mnt = st[l].mnt
    BY DEF TypeOK, StatusType
  <2>2. st' = [st EXCEPT ![l] = r]
    BY <1>2 DEF Epilog
  <2> HIDE DEF r
  <2>3. st'[l] = r /\ \A x \in Layer \ {l} : st'[x] = st[x]
    BY <2>2, Zenon DEF TypeOK
  <2> QED  BY <1>2, <2>1, <2>3
<1> QED  BY <1>1, <1>2

\* The devices of a layer are released in order.
LEMMA ReleasedEffect ==
  ASSUME TypeOK, NEW l \in Layer, NEW n \in 0..3, Released(l, n)
  PROVE  /\ \A x \in Layer \ {l} : st'[x] = st[x]
         /\ st'[l].status = st[l].status
         /\ st'[l].mnt <=> st[l].mnt /\ n < 1
         /\ st'[l].meta <=> st[l].meta /\ n < 2
         /\ st'[l].data <=> st[l].data /\ n < 3
         /\ loops' \subseteq loops
         /\ \A x \in Layer \ {l}, d \in {"data", "meta"} : <<x, d>> \in loops => <<x, d>> \in loops'
         /\ <<l, "meta">> \in loops' => n < 2
         /\ <<l, "data">> \in loops' => n < 3
<1> DEFINE r == [st[l] EXCEPT !.mnt = @ /\ n < 1, !.meta = @ /\ n < 2, !.data = @ /\ n < 3]
<1>1. st[l] \in StatusType
  BY DEF TypeOK
<1>2. /\ r.status = st[l].status
      /\ r.mnt <=> st[l].mnt /\ n < 1
      /\ r.meta <=> st[l].meta /\ n < 2
      /\ r.data <=> st[l].data /\ n < 3
  BY <1>1, Zenon DEF StatusType
<1>3. st' = [st EXCEPT ![l] = r]
  BY <1>1, Zenon DEF Released, StatusType, TypeOK
<1> HIDE DEF r
<1>4. st'[l] = r /\ \A x \in Layer \ {l} : st'[x] = st[x]
  BY <1>3 DEF TypeOK
<1>5. loops' = loops \ {<<l, Devices[i]>> : i \in 1..n}
  BY Zenon DEF Released
<1>6. /\ loops' \subseteq loops
      /\ \A x \in Layer \ {l}, d \in {"data", "meta"} : <<x, d>> \in loops => <<x, d>> \in loops'
  BY <1>5, Zenon
<1>7. <<l, "meta">> \in loops' => n < 2
  <2>1. Devices[2] = "meta"
    BY Zenon DEF Devices
  <2>2. n < 2 \/ 2 \in 1..n
    OBVIOUS
  <2>3. CASE 2 \in 1..n
    BY <1>5, <2>1, <2>3, Zenon
  <2> QED  BY <2>2, <2>3, Zenon
<1>8. <<l, "data">> \in loops' => n < 3
  <2>1. Devices[3] = "data"
    BY DEF Devices
  <2>2. n < 3 \/ 3 \in 1..n
    OBVIOUS
  <2>3. CASE 3 \in 1..n
    BY <1>5, <2>1, <2>3, Zenon
  <2> QED  BY <2>2, <2>3, Zenon
<1> QED  BY <1>2, <1>4, <1>6, <1>7, <1>8

SameObjects == UNCHANGED <<present, st, loops, removing, crashed>>

\* The steps of a call that change the manager's objects or the devices.
LEMMA CallObjects ==
  ASSUME NEW t \in Task, TaskStep(t)
  PROVE  PrepareLayer(t) \/ BlobStream(t) \/ AttachLayer(t) \/ MountErofs(t) \/ SameObjects
  BY DEF TaskStep, CheckTarfsHintAnnotation, GetConcurrentLimiter, NewLimiter, Acquire,
       MergeStat, GetStatus, WaitLayerReady, RunImageTool, ImageToolEnds, ToolRename, ToolExit,
       MountBegin, SameObjects, objects, kernel

\* A layer is attached by a mount.
LEMMA AttachEffect ==
  ASSUME TypeOK, JobInv, NEW t \in Task, AttachLayer(t)
  PROVE  /\ UNCHANGED <<present, removing, crashed>>
         /\ \A x \in Layer : /\ st'[x].status = st[x].status /\ st'[x].mnt = st[x].mnt
                             /\ st'[x].meta = st[x].meta
         /\ \/ UNCHANGED <<st, loops>> /\ task'[t] = Idle
            \/ /\ Ready(Waited(t)) /\ NextLayer(t, "mount")
               /\ \/ UNCHANGED <<st, loops>> /\ Waited(t) \notin Filled
                  \/ /\ loops' = loops \cup {<<Waited(t), "data">>}
                     /\ st'[Waited(t)].data
                     /\ \A x \in Layer : x # Waited(t) => st'[x] = st[x]
<1> DEFINE x == Waited(t)
<1>1. UNCHANGED <<present, removing, crashed>>
  BY DEF AttachLayer
<1>2. CASE UNCHANGED <<st, loops>> /\ ToIdle(t)
  BY <1>1, <1>2, IdleEffect
<1>3. CASE /\ Ready(x) /\ st' = [st EXCEPT ![x].data = TRUE]
           /\ loops' = loops \cup {<<x, "data">>} /\ NextLayer(t, "mount")
  <2> DEFINE r == [st[x] EXCEPT !.data = TRUE]
  <2>1. x \in Layer
    BY <1>3 DEF Ready, TypeOK
  <2>2. r.data = TRUE /\ r.status = st[x].status /\ r.meta = st[x].meta /\ r.mnt = st[x].mnt
    BY <2>1 DEF TypeOK, StatusType
  <2>3. st' = [st EXCEPT ![x] = r]
    BY <1>3
  <2> HIDE DEF r, x
  <2>4. st'[x] = r /\ \A y \in Layer \ {x} : st'[y] = st[y]
    BY <2>1, <2>3, Zenon DEF TypeOK
  <2>5. \A y \in Layer : /\ st'[y].status = st[y].status /\ st'[y].mnt = st[y].mnt
                         /\ st'[y].meta = st[y].meta
    BY <2>2, <2>4
  <2> QED  BY <1>1, <1>3, <2>2, <2>4, <2>5 DEF x
<1>4. CASE UNCHANGED <<st, loops>> /\ Ready(x) /\ x \notin Filled /\ NextLayer(t, "mount")
  BY <1>1, <1>4, Zenon
<1>5. \/ UNCHANGED <<st, loops>> /\ ToIdle(t)
      \/ UNCHANGED <<st, loops>> /\ Ready(x) /\ x \notin Filled /\ NextLayer(t, "mount")
      \/ /\ Ready(x) /\ st' = [st EXCEPT ![x].data = TRUE]
         /\ loops' = loops \cup {<<x, "data">>} /\ NextLayer(t, "mount")
  BY Zenon DEF AttachLayer, Named
<1> QED  BY <1>2, <1>3, <1>4, <1>5

\* The bootstrap of an image is attached and mounted, with its devices below.
LEMMA MountEffect ==
  ASSUME TypeOK, JobInv, NEW t \in Task, MountErofs(t)
  PROVE  /\ UNCHANGED <<present, removing, crashed>> /\ Top(t) \in present
         /\ \A x \in Layer : /\ st'[x].status = st[x].status /\ st'[x].data = st[x].data
                             /\ x # Top(t) => st'[x] = st[x]
         /\ \/ UNCHANGED <<st, loops>>
            \/ /\ loops' = loops \cup {<<Top(t), "meta">>} /\ st'[Top(t)].meta
               /\ st'[Top(t)].mnt \in {st[Top(t)].mnt, TRUE}
<1> DEFINE l == Top(t)
           q == [st[l] EXCEPT !.meta = TRUE]
           r == [st[l] EXCEPT !.meta = TRUE, !.mnt = TRUE]
<1>1. l \in present /\ l \in Layer /\ UNCHANGED <<present, removing, crashed>>
  BY DEF MountErofs, TypeOK
<1>2. /\ q.meta = TRUE /\ q.status = st[l].status /\ q.data = st[l].data /\ q.mnt = st[l].mnt
      /\ r.meta = TRUE /\ r.status = st[l].status /\ r.data = st[l].data /\ r.mnt = TRUE
  BY <1>1 DEF TypeOK, StatusType
<1>3. \/ UNCHANGED <<st, loops>>
      \/ /\ loops' = loops \cup {<<l, "meta">>}
         /\ st' = [st EXCEPT ![l] = q] \/ st' = [st EXCEPT ![l] = r]
  BY <1>1 DEF MountErofs, TypeOK, StatusType
<1> HIDE DEF q, r, l
<1>4. \/ UNCHANGED <<st, loops>>
      \/ /\ loops' = loops \cup {<<l, "meta">>}
         /\ st'[l] = q \/ st'[l] = r
         /\ \A y \in Layer \ {l} : st'[y] = st[y]
  BY <1>1, <1>3, Zenon DEF TypeOK
<1> QED  BY <1>1, <1>2, <1>4, Zenon DEF l

\* A conversion that ends settles the status of its layer.
LEMMA ConvObjects ==
  ASSUME TypeOK, NEW l \in Layer, ConvStep(l)
  PROVE  /\ conv[l] # "none"
         /\ UNCHANGED <<present, loops, removing, crashed, snap, task>>
         /\ \A x \in Layer \ {l} : conv'[x] = conv[x]
         /\ \A x \in Layer : /\ st'[x].data = st[x].data /\ st'[x].meta = st[x].meta
                             /\ st'[x].mnt = st[x].mnt
         /\ \A x \in Layer : x # l \/ x \notin present => st'[x].status = st[x].status
         /\ \/ UNCHANGED st /\ conv'[l] # "none"
            \/ /\ conv'[l] = "none"
               /\ l \in present => st'[l].status = IF conv[l] = "exit" THEN "ready" ELSE "failed"
<1>1. UNCHANGED <<loops, removing, crashed, snap, task>>
  BY Zenon DEF ConvStep, ConvOpen, ConvRun, ConvRename, ConvExit, kernel
<1>2. \/ UNCHANGED <<present, st>> /\ \E s \in {"run", "rename", "exit"} : conv' = [conv EXCEPT ![l] = s]
      \/ ConvDone(l, IF conv[l] = "exit" THEN "ready" ELSE "failed")
  BY Zenon DEF ConvStep, ConvOpen, ConvRun, ConvRename, ConvExit, objects
<1>3. conv[l] # "none"
  BY Zenon DEF ConvStep, ConvOpen, ConvRun, ConvRename, ConvExit
<1>4. CASE UNCHANGED <<present, st>> /\ \E s \in {"run", "rename", "exit"} : conv' = [conv EXCEPT ![l] = s]
  BY <1>1, <1>3, <1>4, Zenon DEF TypeOK
<1>5. CASE ConvDone(l, IF conv[l] = "exit" THEN "ready" ELSE "failed")
  <2> DEFINE s == IF conv[l] = "exit" THEN "ready" ELSE "failed"
  <2>1. Epilog(l, s) /\ UNCHANGED present /\ conv' = [conv EXCEPT ![l] = "none"] /\ s \in {"ready", "failed"}
    BY <1>5 DEF ConvDone
  <2>2. conv'[l] = "none" /\ \A x \in Layer \ {l} : conv'[x] = conv[x]
    BY <2>1 DEF TypeOK
  <2> HIDE DEF s
  <2>3. /\ \A x \in Layer : /\ st'[x].data = st[x].data /\ st'[x].meta = st[x].meta
                            /\ st'[x].mnt = st[x].mnt
        /\ \A x \in Layer : x # l \/ x \notin present => st'[x].status = st[x].status
        /\ l \in present => st'[l].status = s
    BY <2>1, EpilogEffect
  <2> QED  BY <1>1, <1>3, <2>1, <2>2, <2>3 DEF s
<1> QED  BY <1>2, <1>4, <1>5, Zenon

\* A layer is converted once, by the call that prepares it.
LEMMA ConvInvStep == TypeOK /\ JobInv /\ SnapInv /\ ConvInv /\ MountInv /\ [Next]_vars => ConvInv'
<1> SUFFICES ASSUME TypeOK, JobInv, SnapInv, ConvInv, MountInv, [Next]_vars PROVE ConvInv'
  BY Zenon
<1>0. /\ \A t \in Task : task[t].pc # "idle" => task[t].layer \in Layer
      /\ \A t \in Task : task[t].pc \in Preparing => Preparer(t) /\ task[t].job = "none"
      /\ \A t \in Task : task[t].layer # None /\ task[t].job = "none" =>
           task[t].layer \in Layer /\ Preparer(t) /\ task[t].pc \in Preparing
      /\ "stream" \in Preparing
  BY LayerOfCall, ConstAssumption, Zenon DEF JobInv, JobOK, Preparer, Preparing
<1>1. ASSUME NEW t \in Task, NEW l \in Layer, PrepareBegin(t, l) \/ StartContainer(t, l)
      PROVE  ConvInv'
  <2>1. /\ SameRest(t) /\ task'[t].layer = l
        /\ \/ PrepareBegin(t, l) /\ task'[t].pc = "hint" /\ task'[t].job = "none"
           \/ StartContainer(t, l) /\ task'[t].pc = "stat" /\ task'[t].job = "merge"
    BY <1>1, BeginEffect
  <2>2. UNCHANGED <<conv, present, st>> /\ \A x \in Layer : snap'[x] = "new" => snap[x] = "new"
    BY <1>1 DEF PrepareBegin, StartContainer, objects, TypeOK
  <2>3. task'[t].job = "none" => conv[l] = "none"
    BY <2>1 DEF PrepareBegin, ConvInv
  <2>4. task'[t].pc # "stream"
    BY <2>1
  <2>5. \A u \in Task : task'[u].layer # None /\ task'[u].job = "none" => conv'[task'[u].layer] = "none"
    <3>1. ASSUME NEW u \in Task \ {t}, task'[u].layer # None, task'[u].job = "none"
          PROVE  conv'[task'[u].layer] = "none"
      <4>1. task'[u] = task[u]
        BY <2>1, <3>1, Zenon DEF SameRest
      <4> QED  BY <2>2, <3>1, <4>1, Zenon DEF ConvInv
    <3> QED  BY <2>1, <2>2, <2>3, <3>1, Zenon
  <2>6. \A u \in Task : task'[u].pc = "stream" =>
          task'[u].layer \in present' /\ st'[task'[u].layer].status = "converting"
    <3>1. \A u \in Task : task'[u].pc = "stream" => task'[u] = task[u]
      BY <2>1, <2>4, Zenon DEF SameRest
    <3>2. present' = present /\ st' = st
      BY <2>2, Zenon
    <3> QED  BY <3>1, <3>2, Zenon DEF ConvInv
  <2> QED  BY <2>2, <2>5, <2>6, Zenon DEF ConvInv
<1>2. ASSUME NEW t \in Task, TaskStep(t) PROVE ConvInv'
  <2>0. SameRest(t) /\ (task'[t] = Idle \/ task'[t].layer = task[t].layer) /\ JobOK(t)'
    BY <1>2, CallStep, CallJob
  <2>1. \A x \in Layer : snap'[x] = "new" => snap[x] = "new"
    BY <1>0, <1>2, CallSnap, Zenon DEF TypeOK, Preparer
  <2>2. Preparer(t)' => Preparer(t) /\ task'[t].layer = task[t].layer
    BY <1>2, CallSnap, Zenon
  <2>3. task'[t].job = "none" /\ task'[t].layer # None =>
          task[t].job = "none" /\ task[t].layer = task'[t].layer
    <3>1. CASE task[t].job = "none"
      BY <2>2, <3>1, Zenon DEF Preparer
    <3>2. CASE task[t].job # "none"
      <4>1. task[t].pc \notin Preparing
        BY <1>0, <3>2
      <4>2. task'[t].pc \notin Preparing
        BY <1>2, <4>1, RunsOn, Zenon
      <4> QED  BY <2>0, <4>2, ConstAssumption DEF JobOK, Preparing, Idle
    <3> QED  BY <3>1, <3>2
  <2>a. ASSUME conv' = conv
        PROVE  /\ \A u \in Task : task'[u].layer # None /\ task'[u].job = "none" =>
                    conv'[task'[u].layer] = "none"
               /\ \A m \in Layer : snap'[m] = "new" => conv'[m] = "none"
    <3>1. ASSUME NEW u \in Task, task'[u].layer # None, task'[u].job = "none"
          PROVE  task[u].job = "none" /\ task[u].layer = task'[u].layer
      BY <2>0, <2>3, <3>1, Zenon DEF SameRest
    <3> QED  BY <2>1, <2>a, <3>1, Zenon DEF ConvInv
  <2>4. CASE BlobStream(t)
    <3> DEFINE l == task[t].layer
    <3>1. l \in Layer /\ Preparer(t) /\ l \in present /\ st[l].status = "converting" /\ conv[l] = "none"
          /\ snap[l] = "active"
      BY <1>0, <2>4, Zenon DEF BlobStream, ConvInv, SnapInv, Preparer
    <3>2. task'[t].job # "none" \/ task'[t] = Idle
      BY <2>4, <3>1, AfterPrepareEffect, Zenon DEF BlobStream
    <3>3. \A u \in Task \ {t} : Preparer(u) => task[u].layer # l
      BY <3>1, Zenon DEF SnapInv
    <3>4. UNCHANGED present
      BY <2>4, Zenon DEF BlobStream
    <3>5. \/ UNCHANGED st /\ conv' = [conv EXCEPT ![l] = "open"]
          \/ Epilog(l, "failed") /\ UNCHANGED conv
      BY <2>4, Zenon DEF BlobStream
    <3>6. \A x \in Layer \ {l} : conv'[x] = conv[x] /\ st'[x].status = st[x].status
      <4>1. CASE UNCHANGED st /\ conv' = [conv EXCEPT ![l] = "open"]
        BY <4>1, Zenon DEF TypeOK
      <4>2. CASE Epilog(l, "failed") /\ UNCHANGED conv
        BY <3>1, <4>2, EpilogEffect, Zenon
      <4> QED  BY <3>5, <4>1, <4>2, Zenon
    <3>7. conv'[l] = "none" \/ (conv'[l] = "open" /\ st'[l].status = "converting")
      BY <3>1, <3>5, Zenon DEF TypeOK
    <3> HIDE DEF l
    <3>8. task'[t].pc # "stream"
      <4>1. CASE task'[t] = Idle
        BY <4>1, IdleFields, Zenon
      <4>2. CASE task'[t].job # "none"
        BY <2>0, <4>2 DEF JobOK, Preparing
      <4> QED  BY <3>2, <4>1, <4>2
    <3>9. \A u \in Task : task'[u].layer # None /\ task'[u].job = "none" => conv'[task'[u].layer] = "none"
      <4>1. ASSUME NEW u \in Task, task'[u].layer # None /\ task'[u].job = "none"
            PROVE  conv'[task'[u].layer] = "none"
        <5>1. u # t
          BY <3>2, <4>1, IdleFields
        <5>2. task'[u] = task[u]
          BY <2>0, <5>1, Zenon DEF SameRest
        <5>3. task[u].layer \in Layer \ {l} /\ conv[task[u].layer] = "none"
          BY <1>0, <3>3, <4>1, <5>1, <5>2, Zenon DEF ConvInv
        <5> QED  BY <3>6, <5>2, <5>3, Zenon
      <4> QED  BY <4>1, Zenon
    <3>10. \A u \in Task : task'[u].pc = "stream" =>
             task'[u].layer \in present' /\ st'[task'[u].layer].status = "converting"
      <4>1. ASSUME NEW u \in Task, task'[u].pc = "stream"
            PROVE  task'[u].layer \in present' /\ st'[task'[u].layer].status = "converting"
        <5>1. u # t /\ task'[u] = task[u] /\ task[u].pc = "stream"
          BY <2>0, <3>8, <4>1, Zenon DEF SameRest
        <5>2. task[u].layer \in Layer \ {l}
          BY <1>0, <3>3, <5>1, Zenon DEF Preparer
        <5>3. task[u].layer \in present /\ st[task[u].layer].status = "converting"
          BY <1>0, <5>1, Zenon DEF ConvInv
        <5> QED  BY <3>4, <3>6, <5>1, <5>2, <5>3, Zenon
      <4> QED  BY <4>1, Zenon
    <3>11. \A m \in present' : conv'[m] # "none" => st'[m].status = "converting"
      BY <3>1, <3>4, <3>6, <3>7, Zenon DEF ConvInv, TypeOK
    <3>12. \A m \in Layer : snap'[m] = "new" => conv'[m] = "none"
      BY <2>1, <3>1, <3>6, Zenon DEF ConvInv
    <3> QED  BY <3>9, <3>10, <3>11, <3>12, Zenon DEF ConvInv
  <2>5. CASE PrepareLayer(t)
    <3> DEFINE l == task[t].layer
    <3>1. l \in Layer /\ Preparer(t) /\ l \notin present /\ present' = present \cup {l}
          /\ UNCHANGED conv /\ st' = [st EXCEPT ![l] = NewStatus]
      BY <1>0, <2>5, Zenon DEF PrepareLayer, Preparing
    <3>2. st'[l].status = "converting" /\ \A x \in Layer \ {l} : st'[x] = st[x]
      BY <3>1 DEF TypeOK, NewStatus
    <3>3. \A u \in Task \ {t} : Preparer(u) => task[u].layer # l
      BY <3>1, Zenon DEF SnapInv
    <3>4. task'[t].layer = l /\ task'[t].job = task[t].job
      BY <2>5, GotoEffect, Zenon DEF PrepareLayer, PC
    <3> HIDE DEF l
    <3>5. \A u \in Task : task'[u].pc = "stream" =>
            task'[u].layer \in present' /\ st'[task'[u].layer].status = "converting"
      <4>1. task'[t].layer \in present' /\ st'[task'[t].layer].status = "converting"
        BY <3>1, <3>2, <3>4, Zenon
      <4>2. ASSUME NEW u \in Task \ {t}, task'[u].pc = "stream"
            PROVE  task'[u].layer \in present' /\ st'[task'[u].layer].status = "converting"
        <5>1. task'[u] = task[u] /\ task[u].pc = "stream" /\ Preparer(u) /\ task[u].layer \in Layer
          BY <1>0, <2>0, <4>2, Zenon DEF SameRest, Preparer
        <5>2. task[u].layer # l /\ task[u].layer \in present /\ st[task[u].layer].status = "converting"
          BY <3>3, <5>1, Zenon DEF ConvInv
        <5> QED  BY <3>1, <3>2, <5>1, <5>2, Zenon
      <4> QED  BY <4>1, <4>2, Zenon
    <3>6. \A m \in present' : conv'[m] # "none" => st'[m].status = "converting"
      BY <3>1, <3>2, Zenon DEF ConvInv, TypeOK
    <3> QED  BY <2>a, <3>1, <3>5, <3>6, Zenon DEF ConvInv
  <2>6. CASE ~BlobStream(t) /\ ~PrepareLayer(t)
    <3>1. UNCHANGED conv
      BY <1>2, <2>6, CallConv
    <3>2. UNCHANGED present /\ \A x \in Layer : st'[x].status = st[x].status
      BY <1>2, <2>6, CallObjects, AttachEffect, MountEffect, Zenon DEF SameObjects
    <3>3. task'[t].pc # "stream"
      <4>1. CASE task[t].pc \notin Preparing
        BY <1>0, <1>2, <4>1, RunsOn, Zenon
      <4>2. CASE CheckTarfsHintAnnotation(t) \/ Acquire(t)
        <5>1. Goto(t, "limit") \/ Goto(t, "prepare") \/ ToIdle(t)
          BY <4>2, Zenon DEF CheckTarfsHintAnnotation, Acquire
        <5>2. "limit" \in PC /\ "prepare" \in PC
          BY Zenon DEF PC
        <5>3. CASE Goto(t, "limit") \/ Goto(t, "prepare")
          <6>1. task'[t].pc = "limit" \/ task'[t].pc = "prepare"
            BY <5>2, <5>3, GotoEffect, Zenon
          <6> QED  BY <6>1
        <5>4. CASE ToIdle(t)
          BY <5>4, IdleEffect, IdleFields, Zenon
        <5> QED  BY <5>1, <5>3, <5>4
      <4>3. CASE GetConcurrentLimiter(t)
        BY <4>3 DEF GetConcurrentLimiter, TypeOK, TaskType
      <4>4. CASE NewLimiter(t)
        BY <4>4, LimitEffect, Zenon DEF NewLimiter, PC
      <4>5. CASE task[t].pc \in Preparing /\ task[t].pc \notin {"hint", "limit", "new_limiter", "acquire"}
        <5>1. task[t].pc \in {"prepare", "stream"}
          BY <4>5 DEF Preparing
        <5> QED  BY <1>2, <2>6, <5>1 DEF TaskStep, CheckTarfsHintAnnotation, GetConcurrentLimiter,
                 NewLimiter, Acquire, MergeStat, GetStatus, WaitLayerReady, RunImageTool, ImageToolEnds,
                 ToolRename, ToolExit, MountBegin, AttachLayer, MountErofs
      <4>6. CASE task[t].pc \in {"hint", "limit", "new_limiter", "acquire"}
        BY <1>2, <2>6, <4>2, <4>3, <4>4, <4>6 DEF TaskStep,
           MergeStat, GetStatus, WaitLayerReady, RunImageTool, ImageToolEnds,
           ToolRename, ToolExit, MountBegin, AttachLayer, MountErofs
      <4> QED  BY <4>1, <4>5, <4>6, Zenon
    <3>4. \A u \in Task : task'[u].pc = "stream" =>
            task'[u].layer \in present' /\ st'[task'[u].layer].status = "converting"
      <4>1. ASSUME NEW u \in Task, task'[u].pc = "stream"
            PROVE  task'[u].layer \in present' /\ st'[task'[u].layer].status = "converting"
        <5>1. task'[u] = task[u]
          BY <2>0, <3>3, <4>1, Zenon DEF SameRest
        <5>2. task[u].layer \in Layer /\ task[u].layer \in present /\ st[task[u].layer].status = "converting"
          BY <1>0, <4>1, <5>1, Zenon DEF ConvInv
        <5> QED  BY <3>2, <5>1, <5>2, Zenon
      <4> QED  BY <4>1, Zenon
    <3>5. \A m \in present' : conv'[m] # "none" => st'[m].status = "converting"
      BY <3>1, <3>2 DEF ConvInv, TypeOK
    <3> QED  BY <2>a, <3>1, <3>4, <3>5, Zenon DEF ConvInv
  <2> QED  BY <2>4, <2>5, <2>6
<1>3. ASSUME NEW l \in Layer, ConvStep(l) PROVE ConvInv'
  <2>1. /\ conv[l] # "none" /\ UNCHANGED <<present, snap, task>>
        /\ \A x \in Layer \ {l} : conv'[x] = conv[x]
        /\ \A x \in Layer : x # l => st'[x].status = st[x].status
        /\ conv'[l] = "none" \/ UNCHANGED st
    BY <1>3, ConvObjects, Zenon
  <2>2. \A t \in Task : Preparer(t) /\ task[t].job = "none" => task[t].layer # l
    <3>1. ASSUME NEW t \in Task, Preparer(t), task[t].job = "none" PROVE task[t].layer # l
      <4>1. conv[task[t].layer] = "none"
        BY <3>1, Zenon DEF ConvInv, Preparer
      <4> QED  BY <2>1, <4>1
    <3> QED  BY <3>1, Zenon
  <2>3. \A u \in Task : task'[u].pc = "stream" =>
          task'[u].layer \in present' /\ st'[task'[u].layer].status = "converting"
    BY <1>0, <2>1, <2>2 DEF ConvInv
  <2>4. \A m \in present' : conv'[m] # "none" => st'[m].status = "converting"
    BY <2>1, Zenon DEF ConvInv, TypeOK
  <2> QED  BY <1>0, <2>1, <2>2, <2>3, <2>4, Zenon DEF ConvInv
<1>4. ASSUME NEW l \in Layer, DetachDevices(l) PROVE ConvInv'
  <2>1. UNCHANGED <<task, conv, present>> /\ snap' = [snap EXCEPT ![l] = "removed"]
    BY <1>4, Zenon DEF DetachDevices
  <2>2. \A x \in Layer : st'[x].status = st[x].status
    <3>1. CASE UNCHANGED st
      BY <3>1
    <3>2. CASE \E n \in 0..3 : Released(l, n)
      <4>1. PICK n \in 0..3 : Released(l, n)
        BY <3>2, Zenon
      <4> QED  BY <4>1, ReleasedEffect, Zenon
    <3>3. 3 \in 0..3 /\ 0..2 \subseteq 0..3
      OBVIOUS
    <3> QED  BY <1>4, <3>1, <3>2, <3>3, Zenon DEF DetachDevices
  <2> QED  BY <1>0, <2>1, <2>2, Zenon DEF ConvInv, TypeOK
<1>5. ASSUME NEW l \in Layer, DetachForget(l) PROVE ConvInv'
  <2>1. UNCHANGED <<task, conv, st, snap>> /\ present' = present \ {l} /\ snap[l] = "removed"
    BY <1>5 DEF DetachForget, MountInv, RemovingOK
  <2>2. \A t \in Task : Preparer(t) => task[t].layer # l
    BY <2>1, Zenon DEF SnapInv
  <2> QED  BY <1>0, <2>1, <2>2, Zenon DEF ConvInv
<1>6. CASE Crash
  BY <1>6, Zenon DEF Crash, ConvInv, Idle
<1>7. CASE UNCHANGED vars
  BY <1>7, Zenon DEF vars, objects, ConvInv
<1> QED  BY <1>1, <1>2, <1>3, <1>4, <1>5, <1>6, <1>7 DEF Next
================================================================================
