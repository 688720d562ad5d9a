------------------------------ MODULE TarfsLayers -------------------------------
(* OCI layers turned into tarfs block images: the status of each layer, the      *)
(* conversion goroutines, the merge, export and mount of an image by concurrent  *)
(* Prepare calls, and the removal of layers.                                     *)
EXTENDS Integers, Sequences, FiniteSets

CONSTANTS
  Layer,      \* snapshots of read-only layers
  Blob,       \* layer blobs
  BlobOf,     \* the blob of a layer
  Filled,     \* layers with file data: a merged bootstrap names the blobs of these only
  Stack,      \* the parent IDs of a container of a layer, topmost first
  Task,       \* Prepare calls in progress
  Limit,      \* max_concurrent_proc
  ExportMode, \* experimental.tarfs.export_mode
  OnHost,     \* mount_tarfs_on_host
  Races,      \* "merge": two containers of one image are prepared at once
  Faults, MaxFault, None

\* A container's parents start with the layer it is made from.
ASSUME ConstAssumption ==
  /\ BlobOf \in [Layer -> Blob] /\ Filled \subseteq Layer
  /\ Stack \in [Layer -> Seq(Layer)]
  /\ \A l \in Layer : Stack[l] # <<>> /\ Stack[l][1] = l
  /\ Layer \cap Task = {} /\ None \notin Layer \cup Task
  /\ Limit \in Int /\ MaxFault \in Nat

VARIABLES
  snap,       \* the snapshot of each layer in containerd's eyes
  present,    \* Manager.snapshotMap
  st,         \* snapshotStatus: status, dataLoopdev, metaLoopdev, erofsMountPoint
  wg,         \* the wait group's counter
  early,      \* layers whose blob stream could not be opened
  conv,       \* the conversion goroutine of a layer
  bad,        \* layers whose content does not have the expected diffID
  boots,      \* layers with a layer.boot file
  tmp, file,  \* temporary and final files
  fd,         \* where the file that a writer has open is now
  task,       \* the position of each Prepare call
  cached,     \* processLimiterCache
  rafs,       \* RafsGlobalCache
  loops,      \* attached loop devices
  stuck,      \* layers whose DetachLayer failed
  removing,   \* layers whose cleanup is between DetachLayer's two halves
  faults, crashed

files == <<boots, tmp, file, fd>>
objects == <<present, st, wg, early>>
kernel == <<loops, stuck>>
vars == <<snap, objects, conv, bad, files, task, cached, rafs, kernel, removing,
          faults, crashed>>

Writer == Layer \cup Task
Path == [kind : {"tar", "disk"}, of : Blob] \cup [kind : {"boot"}, of : Layer]
Tar(l) == [kind |-> "tar", of |-> BlobOf[l]]
Disk(l) == [kind |-> "disk", of |-> BlobOf[l]]
Boot(l) == [kind |-> "boot", of |-> l]
Below(l) == {Stack[l][i] : i \in DOMAIN Stack[l]}
Idle == [pc |-> "idle", job |-> "none", layer |-> None, idx |-> 0, lim |-> None]
NewStatus == [status |-> "converting", data |-> FALSE, meta |-> FALSE, mnt |-> FALSE]
NoFile == [last |-> None, whole |-> FALSE]
Closed == [at |-> "none", path |-> None]

Fail(c) == c \in Faults /\ faults < MaxFault /\ faults' = faults + 1
Works == UNCHANGED faults

\* The hint and the diffIDs come from LRU caches: an evicted entry is fetched again
\* with the image's manifest and configuration, and the fetch may fail.
NoImageInfo(c) == Fail(c)

--------------------------------------------------------------------------------
(* Files. A writer truncates the temporary file if it exists; another writer of  *)
(* the same path may have it open, and a rename moves it under both.             *)

Create(w, p) ==
  /\ tmp' = [tmp EXCEPT ![p] = [last |-> w, whole |-> FALSE]]
  /\ fd' = [fd EXCEPT ![w] = [at |-> "tmp", path |-> p]]
  /\ UNCHANGED <<file, boots>>

\* A writer completes the file that it was the last to truncate.
Whole(w, f) == [f EXCEPT !.whole = @ \/ f.last = w]
Write(w) ==
  LET p == fd[w].path IN
  /\ tmp' = IF fd[w].at = "tmp" THEN [tmp EXCEPT ![p] = Whole(w, @)] ELSE tmp
  /\ file' = IF fd[w].at = "file" THEN [file EXCEPT ![p] = Whole(w, @)] ELSE file
  /\ UNCHANGED <<fd, boots>>

Moved(p, from, to) ==
  [x \in Writer |-> IF fd[x] = [at |-> from, path |-> p]
                    THEN [at |-> to, path |-> p] ELSE fd[x]]
Rename(w) ==
  LET p == fd[w].path
      old == [x \in Writer |-> IF fd[x] = [at |-> "file", path |-> p]
                               THEN [at |-> "gone", path |-> p] ELSE fd[x]]
  IN
  /\ tmp[p] # NoFile
  /\ file' = [file EXCEPT ![p] = tmp[p]]
  /\ tmp' = [tmp EXCEPT ![p] = NoFile]
  /\ fd' = [x \in Writer |-> IF fd[x] = [at |-> "tmp", path |-> p]
                             THEN [at |-> "file", path |-> p] ELSE old[x]]

\* The deferred os.Remove of the temporary file, whoever it belongs to by now.
RemoveTmp(w) ==
  /\ tmp' = [tmp EXCEPT ![fd[w].path] = NoFile]
  /\ fd' = [Moved(fd[w].path, "tmp", "gone") EXCEPT ![w] = Closed]
  /\ UNCHANGED <<file, boots>>

--------------------------------------------------------------------------------
(* A read-only layer: PrepareTarfsLayer, PrepareLayer, blobProcess.              *)

ToIdle(t) == task' = [task EXCEPT ![t] = Idle]
Goto(t, pc) == task' = [task EXCEPT ![t].pc = pc]

PrepareBegin(t, l) ==
  /\ task[t] = Idle
  /\ snap[l] = "new"
  /\ \A x \in Below(l) \ {l} : snap[x] = "committed"
  /\ snap' = [snap EXCEPT ![l] = "active"]
  /\ task' = [task EXCEPT ![t] = [Idle EXCEPT !.pc = "hint", !.layer = l]]
  /\ UNCHANGED <<objects, conv, bad, files, cached, rafs, kernel, removing, faults, crashed>>

\* Without the hint, or without the image's information, containerd unpacks.
CheckTarfsHintAnnotation(t) ==
  /\ task[t].pc = "hint"
  /\ \/ /\ Works
        /\ Goto(t, "limit")
        /\ UNCHANGED snap
     \/ /\ NoImageInfo("hint")
        /\ ToIdle(t)
        /\ snap' = [snap EXCEPT ![task[t].layer] = "native"]
  /\ UNCHANGED <<objects, conv, bad, files, cached, rafs, kernel, removing, crashed>>

\* Looked up, and added in a later step.
GetConcurrentLimiter(t) ==
  /\ task[t].pc = "limit"
  /\ task' = [task EXCEPT ![t].lim = IF Limit > 0 THEN cached ELSE None,
                          ![t].pc = IF Limit <= 0 THEN "prepare"
                                    ELSE IF cached = None THEN "new_limiter" ELSE "acquire"]
  /\ UNCHANGED <<snap, objects, conv, bad, files, cached, rafs, kernel, removing, faults, crashed>>

NewLimiter(t) ==
  /\ task[t].pc = "new_limiter"
  /\ cached' = t
  /\ task' = [task EXCEPT ![t].lim = t, ![t].pc = "acquire"]
  /\ UNCHANGED <<snap, objects, conv, bad, files, rafs, kernel, removing, faults, crashed>>

Holders(lim) == {u \in Task : task[u].lim = lim /\ task[u].pc \in {"prepare", "stream"}}
Acquire(t) ==
  /\ task[t].pc = "acquire"
  /\ Cardinality(Holders(task[t].lim)) < Limit
  /\ Goto(t, "prepare")
  /\ UNCHANGED <<snap, objects, conv, bad, files, cached, rafs, kernel, removing, faults, crashed>>

PrepareLayer(t) ==
  LET l == task[t].layer IN
  /\ task[t].pc = "prepare"
  /\ l \notin present
  /\ present' = present \cup {l}
  /\ st' = [st EXCEPT ![l] = NewStatus]
  /\ wg' = [wg EXCEPT ![l] = 1]
  /\ Goto(t, "stream")
  /\ UNCHANGED <<snap, early, conv, bad, files, cached, rafs, kernel, removing, faults, crashed>>

\* The status is written only if the layer has not been detached meanwhile.
Epilog(l, s) == st' = IF l \in present THEN [st EXCEPT ![l].status = s] ELSE st

GetTarfsExportFlags ==
  [wholeImage |-> ExportMode \in {"image_verity_only", "image_block", "image_block_with_verity"},
   disk |-> ExportMode \in {"layer_block", "image_block",
                            "layer_block_with_verity", "image_block_with_verity"},
   verity |-> ExportMode \in {"layer_verity_only", "image_verity_only",
                              "layer_block_with_verity", "image_block_with_verity"}]
Exports(perLayer) ==
  LET f == GetTarfsExportFlags IN (f.disk \/ f.verity) /\ (~f.wholeImage = perLayer)

\* The end of PrepareTarfsLayer and of Prepare: an error of PrepareLayer is only
\* logged, the layer is labelled and committed before it is converted.
AfterPrepare(t, l) ==
  IF Exports(TRUE)
  THEN task' = [task EXCEPT ![t].pc = "get", ![t].job = "layer_disk", ![t].lim = None] /\ UNCHANGED snap
  ELSE ToIdle(t) /\ snap' = [snap EXCEPT ![l] = "committed"]

BlobStream(t) ==
  LET l == task[t].layer IN
  /\ task[t].pc = "stream"
  /\ \/ /\ Works
        /\ conv' = [conv EXCEPT ![l] = "open"]
        /\ UNCHANGED <<st, early>>
     \/ /\ Fail("stream")
        /\ Epilog(l, "failed")
        /\ early' = early \cup {l}
        /\ UNCHANGED conv
  /\ AfterPrepare(t, l)
  /\ UNCHANGED <<present, wg, bad, files, cached, rafs, kernel, removing, crashed>>

--------------------------------------------------------------------------------
(* The conversion goroutine of a layer: generateBootstrap and the epilog.        *)

\* Mutant: the wait group is not counted down after a failure.
ConvDone_OnlyReady(l, s) ==
  /\ Epilog(l, s)
  /\ wg' = IF s = "ready" THEN [wg EXCEPT ![l] = 0] ELSE wg
  /\ conv' = [conv EXCEPT ![l] = "none"]
  /\ UNCHANGED <<present, early>>

\* The goroutine ends; waiters are released whatever the outcome.
ConvDone(l, s) ==
  /\ Epilog(l, s)
  /\ wg' = [wg EXCEPT ![l] = 0]
  /\ conv' = [conv EXCEPT ![l] = "none"]
  /\ UNCHANGED <<present, early>>

\* (The layer's bootstrap never exists already: the directory of a snapshot is new.)
ConvOpen(l) ==
  /\ conv[l] = "open"
  /\ \/ /\ Works
        /\ Create(l, Tar(l))
        /\ conv' = [conv EXCEPT ![l] = "run"]
        /\ UNCHANGED objects
     \/ /\ NoImageInfo("diffid")
        /\ ConvDone(l, "failed")
        /\ UNCHANGED files
  /\ UNCHANGED <<snap, bad, task, cached, rafs, kernel, removing, crashed>>

\* nydus-image reads the stream to its end, or fails.  When the copy of the stream ends early,
\* as it does once cancelled, this is only logged, and nydus-image may take what it got.
ConvRun(l) ==
  LET cut == Fail("copy") \/ (l \notin present /\ Works) IN
  /\ conv[l] = "run"
  /\ \/ /\ \/ Works /\ Write(l) /\ UNCHANGED bad
           \/ Fail("mismatch") /\ Write(l) /\ bad' = bad \cup {l}
           \/ cut /\ bad' = bad \cup {l} /\ UNCHANGED files
        /\ conv' = [conv EXCEPT ![l] = "rename"]
        /\ UNCHANGED objects
     \/ /\ Fail("convert") \/ cut
        /\ RemoveTmp(l)
        /\ ConvDone(l, "failed")
        /\ UNCHANGED bad
  /\ UNCHANGED <<snap, task, cached, rafs, kernel, removing, crashed>>

\* Mutant: the status is published before the files are renamed.
ConvRename_StatusFirst(l) ==
  /\ conv[l] = "rename"
  /\ Epilog(l, "ready")
  /\ conv' = [conv EXCEPT ![l] = "exit"]
  /\ UNCHANGED <<present, wg, early, files>>
  /\ UNCHANGED <<snap, bad, task, cached, rafs, kernel, removing, faults, crashed>>

ConvRename(l) ==
  /\ conv[l] = "rename"
  /\ \/ /\ Rename(l)
        /\ boots' = IF snap[l] = "removed" THEN boots ELSE boots \cup {l}
        /\ conv' = [conv EXCEPT ![l] = "exit"]
        /\ UNCHANGED objects
     \/ /\ tmp[Tar(l)] = NoFile
        /\ RemoveTmp(l)
        /\ ConvDone(l, "failed")
  /\ UNCHANGED <<snap, bad, task, cached, rafs, kernel, removing, faults, crashed>>

\* A digest that does not match is reported with the nil error of generateBootstrap.
ConvExit(l) ==
  /\ conv[l] = "exit"
  /\ RemoveTmp(l)
  /\ ConvDone(l, "ready")
  /\ UNCHANGED <<snap, bad, task, cached, rafs, kernel, removing, faults, crashed>>

--------------------------------------------------------------------------------
(* A container of the image: MergeLayers, ExportBlockData, MountTarErofs. The    *)
(* jobs of a task are "merge", "layer_disk", "image_disk" and "mount".           *)

Job(t, job, pc, i) == task' = [task EXCEPT ![t].job = job, ![t].pc = pc, ![t].idx = i]
Top(t) == task[t].layer
Target(t) == IF task[t].job = "merge" THEN Boot(Top(t)) ELSE Disk(Top(t))
Waited(t) == IF task[t].job \in {"merge", "mount"}
             THEN Stack[Top(t)][task[t].idx] ELSE Top(t)

AfterMerge(t) ==
  IF Exports(FALSE) THEN Job(t, "image_disk", "get", 0) ELSE Job(t, "mount", "begin", 0)

StartContainer(t, l) ==
  /\ task[t] = Idle
  /\ snap[l] = "committed"
  /\ "merge" \in Races \/ \A u \in Task : task[u].layer # l
  /\ task' = [task EXCEPT ![t] = [Idle EXCEPT !.pc = "stat", !.job = "merge", !.layer = l]]
  /\ UNCHANGED <<snap, objects, conv, bad, files, cached, rafs, kernel, removing, faults, crashed>>

MergeStat(t) ==
  /\ task[t].pc = "stat"
  /\ IF file[Boot(Top(t))] # NoFile THEN AfterMerge(t)
     ELSE Job(t, "merge", "get", Len(Stack[Top(t)]))
  /\ UNCHANGED <<snap, objects, conv, bad, files, cached, rafs, kernel, removing, faults, crashed>>

\* waitLayerReady: the status object is looked up, then waited for.
GetStatus(t) ==
  /\ task[t].pc = "get"
  /\ IF Waited(t) \in present THEN Goto(t, "wait") ELSE ToIdle(t)
  /\ UNCHANGED <<snap, objects, conv, bad, files, cached, rafs, kernel, removing, faults, crashed>>

NextLayer(t, last) ==
  task' = [task EXCEPT ![t].idx = IF @ > 1 THEN @ - 1 ELSE @,
                       ![t].pc = IF task[t].idx > 1 THEN "get" ELSE last]
\* Mutant: any layer of the map is taken for a ready one.
Ready_Present(l) == l \in present

Ready(l) == l \in present /\ st[l].status = "ready"

WaitLayerReady(t) ==
  /\ task[t].pc = "wait"
  /\ wg[Waited(t)] = 0
  /\ IF ~Ready(Waited(t)) THEN ToIdle(t)
     ELSE IF task[t].job = "mount" THEN Goto(t, "attach") ELSE NextLayer(t, "run")
  /\ UNCHANGED <<snap, objects, conv, bad, files, cached, rafs, kernel, removing, faults, crashed>>

\* After the export a layer is committed; after the image's, it is mounted.
AfterRun(t) ==
  /\ IF task[t].job = "merge" THEN AfterMerge(t)
     ELSE IF task[t].job = "image_disk" THEN Job(t, "mount", "begin", 0) ELSE ToIdle(t)
  /\ snap' = IF task[t].job = "layer_disk" THEN [snap EXCEPT ![Top(t)] = "committed"] ELSE snap

RunImageTool(t) ==
  /\ task[t].pc = "run"
  /\ IF task[t].job # "merge" /\ file[Target(t)] # NoFile
     THEN AfterRun(t) /\ UNCHANGED files
     ELSE Create(t, Target(t)) /\ Goto(t, "running") /\ UNCHANGED snap
  /\ UNCHANGED <<objects, conv, bad, cached, rafs, kernel, removing, faults, crashed>>

ImageToolEnds(t) ==
  /\ task[t].pc = "running"
  /\ \/ Works /\ Write(t) /\ Goto(t, "rename")
     \/ Fail("tool") /\ RemoveTmp(t) /\ ToIdle(t)
  /\ UNCHANGED <<snap, objects, conv, bad, cached, rafs, kernel, removing, crashed>>

ToolRename(t) ==
  /\ task[t].pc = "rename"
  /\ \/ Rename(t) /\ Goto(t, "exit") /\ UNCHANGED boots
     \/ tmp[Target(t)] = NoFile /\ RemoveTmp(t) /\ ToIdle(t)
  /\ UNCHANGED <<snap, objects, conv, bad, cached, rafs, kernel, removing, faults, crashed>>

ToolExit(t) ==
  /\ task[t].pc = "exit"
  /\ RemoveTmp(t)
  /\ AfterRun(t)
  /\ UNCHANGED <<objects, conv, bad, cached, rafs, kernel, removing, faults, crashed>>

\* Mutant: only the topmost layer is attached.
MountBegin_TopOnly(t) ==
  /\ task[t].pc = "begin"
  /\ rafs' = rafs \cup {Top(t)}
  /\ IF Top(t) \in rafs \/ ~OnHost THEN ToIdle(t) ELSE Job(t, "mount", "get", 1)
  /\ UNCHANGED <<snap, objects, conv, bad, files, cached, kernel, removing, faults, crashed>>

\* Filesystem.Mount holds the snapshot's mutex, and does nothing a second time. On the
\* host the blobs of the image are read from its bootstrap, which may fail.
MountBegin(t) ==
  /\ task[t].pc = "begin"
  /\ \A u \in Task \ {t} : task[u].job = "mount" => task[u].layer # Top(t) \/ task[u].pc = "begin"
  /\ rafs' = rafs \cup {Top(t)}
  /\ \/ /\ Works
        /\ IF Top(t) \in rafs \/ ~OnHost THEN ToIdle(t)
           ELSE Job(t, "mount", "get", Len(Stack[Top(t)]))
     \/ /\ Top(t) \notin rafs /\ OnHost
        /\ Fail("inspect") \/ (~file[Boot(Top(t))].whole /\ Works)
        /\ ToIdle(t)
  /\ UNCHANGED <<snap, objects, conv, bad, files, cached, kernel, removing, crashed>>

\* Mutant: the layers without data are attached, those with data are not.
Named_Inverted(x) == x \notin Filled

\* The bootstrap of an image names the blob of a layer only if it has data.
Named(x) == x \in Filled

\* A device for each layer whose blob the bootstrap names. An error ends MountTarErofs and is
\* dropped by Mount.
AttachLayer(t) ==
  LET x == Waited(t) IN
  /\ task[t].pc = "attach"
  /\ \/ /\ Works
        /\ st' = IF Ready(x) /\ Named(x) THEN [st EXCEPT ![x].data = TRUE] ELSE st
        /\ loops' = IF Ready(x) /\ Named(x) THEN loops \cup {<<x, "data">>} ELSE loops
        /\ IF Ready(x) THEN NextLayer(t, "mount") ELSE ToIdle(t)
     \/ /\ Ready(x) /\ Named(x) /\ ~st[x].data /\ Fail("attach")
        /\ ToIdle(t)
        /\ UNCHANGED <<st, loops>>
  /\ UNCHANGED <<snap, present, wg, early, conv, bad, files, cached, rafs, stuck, removing, crashed>>

MountErofs(t) ==
  LET l == Top(t) IN
  /\ task[t].pc = "mount"
  /\ l \in present
  /\ \/ /\ Works
        /\ st' = [st EXCEPT ![l].meta = TRUE, ![l].mnt = TRUE]
        /\ loops' = loops \cup {<<l, "meta">>}
     \/ /\ Fail("mount")
        /\ st' = [st EXCEPT ![l].meta = TRUE]
        /\ loops' = loops \cup {<<l, "meta">>}
     \/ /\ Fail("attach")
        /\ UNCHANGED <<st, loops>>
  /\ ToIdle(t)
  /\ UNCHANGED <<snap, present, wg, early, conv, bad, files, cached, rafs, stuck, removing, crashed>>

--------------------------------------------------------------------------------
(* Removal: cleanupSnapshotDirectory with Umount and DetachLayer.                *)

\* containerd removes children first, and not what a call is working on.
Removable(l) ==
  /\ snap[l] \in {"active", "native", "committed"}
  /\ \A x \in Layer \ {l} : l \in Below(x) => snap[x] \in {"new", "removed"}
  /\ \A t \in Task : task[t].layer # None => l \notin Below(task[t].layer)

\* os.RemoveAll of the snapshot's directory.
RemoveDir(l) ==
  /\ boots' = boots \ {l}
  /\ file' = [file EXCEPT ![Boot(l)] = NoFile]
  /\ UNCHANGED <<tmp, fd>>

\* The devices are released under the status mutex. An error ends DetachLayer there and is
\* logged; the directory is removed all the same, and DetachLayer is not called again.
Devices == <<"mnt", "meta", "data">>
\* Mutant: the bootstrap's device is forgotten, not detached.
Released_MetaLeaks(l, n) ==
  /\ st' = [st EXCEPT ![l].mnt = @ /\ n < 1, ![l].meta = @ /\ n < 2, ![l].data = @ /\ n < 3]
  /\ loops' = loops \ {<<l, Devices[i]>> : i \in (1..n) \ {2}}

Released(l, n) ==
  /\ st' = [st EXCEPT ![l].mnt = @ /\ n < 1, ![l].meta = @ /\ n < 2, ![l].data = @ /\ n < 3]
  /\ loops' = loops \ {<<l, Devices[i]>> : i \in 1..n}

DetachDevices(l) ==
  /\ Removable(l)
  /\ snap' = [snap EXCEPT ![l] = "removed"]
  /\ \/ /\ l \in present
        /\ Works
        /\ Released(l, 3)
        /\ removing' = removing \cup {l}
        /\ UNCHANGED <<files, stuck>>
     \/ /\ l \in present
        /\ \E n \in 0..2 : st[l][Devices[n + 1]] /\ Released(l, n)
        /\ Fail("detach")
        /\ stuck' = stuck \cup {l}
        /\ RemoveDir(l)
        /\ UNCHANGED removing
     \/ /\ l \notin present
        /\ Works
        /\ RemoveDir(l)
        /\ UNCHANGED <<st, kernel, removing>>
  /\ UNCHANGED <<present, wg, early, conv, bad, task, cached, rafs, crashed>>

DetachForget(l) ==
  /\ l \in removing
  /\ removing' = removing \ {l}
  /\ present' = present \ {l}
  /\ RemoveDir(l)
  /\ UNCHANGED <<snap, st, wg, early, conv, bad, task, cached, rafs, kernel, faults, crashed>>

\* The snapshotter dies and is started again. The map of layers is not rebuilt; files, loop
\* devices and mounts stay, and the instances on record, those whose Mount has ended without
\* an error, are read back.
Crash ==
  /\ Fail("crash")
  /\ crashed' = TRUE
  /\ present' = {} /\ removing' = {} /\ cached' = None
  /\ rafs' = {l \in rafs : IF OnHost THEN st[l].mnt ELSE snap[l] # "removed"}
  /\ wg' = [l \in Layer |-> 0]
  /\ conv' = [l \in Layer |-> "none"]
  /\ task' = [t \in Task |-> Idle]
  /\ fd' = [w \in Writer |-> Closed]
  /\ UNCHANGED <<snap, st, early, bad, boots, tmp, file, kernel>>

--------------------------------------------------------------------------------
Init ==
  /\ snap = [l \in Layer |-> "new"]
  /\ present = {} /\ early = {} /\ bad = {} /\ boots = {} /\ rafs = {}
  /\ loops = {} /\ stuck = {} /\ removing = {} /\ cached = None
  /\ st = [l \in Layer |-> NewStatus]
  /\ wg = [l \in Layer |-> 0]
  /\ conv = [l \in Layer |-> "none"]
  /\ tmp = [p \in Path |-> NoFile]
  /\ file = [p \in Path |-> NoFile]
  /\ fd = [w \in Writer |-> Closed]
  /\ task = [t \in Task |-> Idle]
  /\ faults = 0 /\ crashed = FALSE

TaskStep(t) ==
  \/ CheckTarfsHintAnnotation(t) \/ GetConcurrentLimiter(t) \/ NewLimiter(t)
  \/ Acquire(t) \/ PrepareLayer(t) \/ BlobStream(t)
  \/ MergeStat(t) \/ GetStatus(t) \/ WaitLayerReady(t)
  \/ RunImageTool(t) \/ ImageToolEnds(t) \/ ToolRename(t) \/ ToolExit(t)
  \/ MountBegin(t) \/ AttachLayer(t) \/ MountErofs(t)
ConvStep(l) == ConvOpen(l) \/ ConvRun(l) \/ ConvRename(l) \/ ConvExit(l)

Next ==
  \/ \E t \in Task, l \in Layer : PrepareBegin(t, l) \/ StartContainer(t, l)
  \/ \E t \in Task : TaskStep(t)
  \/ \E l \in Layer : ConvStep(l) \/ DetachDevices(l) \/ DetachForget(l)
  \/ Crash

Spec == Init /\ [][Next]_vars

\* Goroutines run; nothing obliges containerd to call.
Fairness ==
  /\ \A t \in Task : WF_vars(TaskStep(t))
  /\ \A l \in Layer : WF_vars(ConvStep(l)) /\ WF_vars(DetachForget(l))
FairSpec == Spec /\ Fairness

--------------------------------------------------------------------------------
PC == {"idle", "hint", "limit", "new_limiter", "acquire", "prepare", "stream", "stat", "get",
       "wait", "run", "running", "rename", "exit", "begin", "attach", "mount"}
JobName == {"none", "merge", "layer_disk", "image_disk", "mount"}
TaskType == [pc : PC, job : JobName, layer : Layer \cup {None}, idx : Nat, lim : Task \cup {None}]
StatusType == [status : {"converting", "ready", "failed"},
               data : BOOLEAN, meta : BOOLEAN, mnt : BOOLEAN]
FileType == [last : Writer \cup {None}, whole : BOOLEAN]
FdType == [at : {"none", "tmp", "file", "gone"}, path : Path \cup {None}]

\* Every variable has its type.
TypeOK ==
  /\ snap \in [Layer -> {"new", "active", "native", "committed", "removed"}]
  /\ present \subseteq Layer /\ early \subseteq Layer /\ bad \subseteq Layer
  /\ boots \subseteq Layer /\ rafs \subseteq Layer /\ removing \subseteq Layer /\ stuck \subseteq Layer
  /\ st \in [Layer -> StatusType]
  /\ wg \in [Layer -> 0..1]
  /\ conv \in [Layer -> {"none", "open", "run", "rename", "exit"}]
  /\ tmp \in [Path -> FileType] /\ file \in [Path -> FileType]
  /\ fd \in [Writer -> FdType]
  /\ task \in [Task -> TaskType]
  /\ loops \subseteq Layer \X {"data", "meta"}
  /\ cached \in Task \cup {None}
  /\ faults \in 0..MaxFault /\ crashed \in BOOLEAN

\* A layer whose status is ready has a layer bootstrap and a tar file, complete unless its content
\* did not match the diffID: the renames of generateBootstrap come before its epilog, and no other
\* conversion takes the file away.  (A stream that is cut short shows as a mismatch, which is dropped.)
ReadyHasFiles ==
  \A l \in present : st[l].status = "ready" /\ snap[l] # "removed" =>
    l \in boots /\ file[Tar(l)] # NoFile /\ (l \notin bad => file[Tar(l)].whole)

\* An image that is mounted has a complete merged bootstrap, each of its layers is ready, and
\* each with data is attached, though MountTarErofs drops each status mutex on the way. (A
\* snapshot whose DetachLayer failed is removed under its mount.)
MountedComplete ==
  \A l \in present : st[l].mnt /\ snap[l] # "removed" =>
    /\ file[Boot(l)].whole
    /\ \A x \in Below(l) : Ready(x) /\ (x \in Filled => <<x, "data">> \in loops)

\* A loop device belongs to a snapshot that is not removed, and DetachLayer will find it: none
\* is leaked by an attach or a mount that failed, nor by a removal, except by a DetachLayer that
\* failed itself and by a snapshotter that died.
DevicesOwned ==
  ~crashed => \A d \in loops :
    d[1] \in present /\ st[d[1]][d[2]] /\ (snap[d[1]] # "removed" \/ d[1] \in stuck)

\* cleanupSnapshotDirectory: a removed snapshot has no devices.  Not kept: the error of DetachLayer
\* is logged, the directory goes, and nothing detaches the device later.
DevicesDetached == ~crashed => \A d \in loops : snap[d[1]] # "removed"

\* A call that waits for a layer is released, except for a layer whose blob stream
\* could not be opened: blobProcess then returns without wg.Done.
WaitEnds ==
  \A t \in Task : task[t].pc = "wait" ~> task[t].pc # "wait" \/ Waited(t) \in early

\* The state of a layer and the mounted images, as TarfsPromise sees them.
Promise == INSTANCE TarfsPromise WITH
  state <- [l \in Layer |-> IF l \in present THEN st[l].status ELSE "none"],
  mounted <- {l \in present : st[l].mnt /\ snap[l] # "removed"}
\* The manager implements its promise: a layer settles once, and an image is mounted
\* only from layers that are ready and are not forgotten before it is unmounted.
KeepsPromise == Promise!PSpec

\* config.toml: "Maximum of concurrence to converting OCIv1 images to tarfs".  Not kept:
\* the limiter is released when PrepareLayer returns, while its goroutine still converts.
ConversionsBounded ==
  Limit > 0 => Cardinality({l \in Layer : conv[l] # "none"}) <= Limit

\* Manager.validateDiffID: "whether to validate digest for uncompressed content".  Not
\* kept: on a mismatch epilog gets the nil error of generateBootstrap, and sets ready.
DiffIDValidated == \A l \in present : st[l].status = "ready" => l \notin bad
================================================================================
