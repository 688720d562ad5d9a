--------------------------- MODULE TarfsLayersProofs ---------------------------
(* Proofs about TarfsLayers, for any layers, images, calls and failures: the        *)
(* devices that are attached are owned, the manager implements TarfsPromise, and    *)
(* while no two writers share a path the files that are published are complete.     *)
EXTENDS TarfsCallProofs

--------------------------------------------------------------------------------
(* Devices and mounts.                                                           *)

\* A call works on layers that are not removed.
LEMMA HeldLayers ==
  ASSUME TypeOK, JobInv, SnapInv, NEW t \in Task, Runner(t)
  PROVE  /\ task[t].layer \in Layer
         /\ \A x \in Below(task[t].layer) : x \in Layer /\ snap[x] = "committed"
         /\ \A i \in DOMAIN Stack[task[t].layer] : Stack[task[t].layer][i] \in Below(task[t].layer)
<1>1. task[t].layer \in Layer /\ snap[task[t].layer] = "committed"
  BY DEF TypeOK, TaskType, JobInv, JobOK, Runner, Preparing, SnapInv
<1> QED  BY <1>1, StackFacts DEF SnapInv, Below

\* A layer that is attached stays so until it is removed or the snapshotter dies.
LEMMA AttachedKept ==
  ASSUME TypeOK, JobInv, SnapInv, ConvInv, MountInv, [Next]_vars, ~Crash,
         NEW x \in Layer, Attached(x), snap'[x] # "removed"
  PROVE  Attached(x)'
<1>0. x \in present /\ st[x].status = "ready" /\ conv[x] = "none"
  BY DEF Attached, Ready, ConvInv, TypeOK
<1> SUFFICES x \in present' /\ st'[x].status = "ready" /\ (<<x, "data">> \in loops => <<x, "data">> \in loops')
  BY DEF Attached, Ready
<1>1. ASSUME NEW t \in Task, NEW l \in Layer, PrepareBegin(t, l) \/ StartContainer(t, l)
      PROVE  UNCHANGED <<present, st, loops>>
  BY <1>1 DEF PrepareBegin, StartContainer, objects, kernel
<1>2. ASSUME NEW t \in Task, TaskStep(t)
      PROVE  /\ x \in present' /\ st'[x].status = "ready"
             /\ <<x, "data">> \in loops => <<x, "data">> \in loops'
  <2>1. CASE PrepareLayer(t)
    BY <1>0, <2>1 DEF PrepareLayer, TypeOK, kernel
  <2>2. CASE BlobStream(t)
    <3>1. task[t].layer # x /\ task[t].layer \in Layer
      BY <1>0, <2>2, LayerOfCall DEF BlobStream, ConvInv
    <3> QED  BY <1>0, <2>2, <3>1, EpilogEffect DEF BlobStream, kernel
  <2>3. CASE AttachLayer(t)
    BY <1>0, <2>3, AttachEffect
  <2>4. CASE MountErofs(t)
    BY <1>0, <2>4, MountEffect, Zenon
  <2> QED  BY <1>0, <1>2, <2>1, <2>2, <2>3, <2>4, CallObjects DEF SameObjects
<1>3. ASSUME NEW l \in Layer, ConvStep(l)
      PROVE  /\ x \in present' /\ st'[x].status = "ready"
             /\ <<x, "data">> \in loops => <<x, "data">> \in loops'
  BY <1>0, <1>3, ConvObjects
<1>4. ASSUME NEW l \in Layer, DetachDevices(l)
      PROVE  /\ x \in present' /\ st'[x].status = "ready"
             /\ <<x, "data">> \in loops => <<x, "data">> \in loops'
  <2>1. x # l /\ UNCHANGED present
    BY <1>4 DEF DetachDevices, TypeOK
  <2>2. CASE UNCHANGED <<st, loops>>
    BY <1>0, <2>1, <2>2
  <2>3. CASE \E n \in 0..3 : Released(l, n)
    <3>1. PICK n \in 0..3 : Released(l, n)
      BY <2>3
    <3> QED  BY <1>0, <2>1, <3>1, ReleasedEffect, Zenon
  <2>4. 3 \in 0..3 /\ 0..2 \subseteq 0..3
    OBVIOUS
  <2> QED  BY <1>4, <2>2, <2>3, <2>4, Zenon DEF DetachDevices, kernel
<1>5. ASSUME NEW l \in Layer, DetachForget(l)
      PROVE  /\ x \in present' /\ st'[x].status = "ready"
             /\ <<x, "data">> \in loops => <<x, "data">> \in loops'
  <2>1. UNCHANGED <<st, loops, snap>> /\ present' = present \ {l} /\ snap[l] = "removed"
    BY <1>5 DEF DetachForget, MountInv, RemovingOK, kernel
  <2> QED  BY <1>0, <2>1, Zenon
<1>6. CASE UNCHANGED vars
  BY <1>0, <1>6 DEF vars, objects, kernel
<1> QED  BY <1>0, <1>1, <1>2, <1>3, <1>4, <1>5, <1>6 DEF Next

\* A committed snapshot stays so until it is removed, and a removed one is not used again.
LEMMA SnapMoves ==
  ASSUME TypeOK, JobInv, SnapInv, [Next]_vars, NEW x \in Layer
  PROVE  /\ snap[x] = "committed" => snap'[x] = "committed" \/ DetachDevices(x)
         /\ snap[x] = "removed" => snap'[x] = "removed"
<1>1. ASSUME NEW t \in Task, NEW l \in Layer, PrepareBegin(t, l) \/ StartContainer(t, l)
      PROVE  snap[x] \in {"committed", "removed"} => snap'[x] = snap[x]
  BY <1>1 DEF PrepareBegin, StartContainer, TypeOK
<1>2. ASSUME NEW t \in Task, TaskStep(t)
      PROVE  snap[x] \in {"committed", "removed"} => snap'[x] = snap[x]
  <2>1. Preparer(t) => snap[task[t].layer] = "active"
    BY DEF SnapInv
  <2> QED  BY <1>2, <2>1, CallSnap DEF TypeOK
<1>3. ASSUME NEW l \in Layer, ConvStep(l) \/ DetachForget(l) PROVE UNCHANGED snap
  BY <1>3 DEF ConvStep, ConvOpen, ConvRun, ConvRename, ConvExit, DetachForget
<1>4. ASSUME NEW l \in Layer, DetachDevices(l)
      PROVE  snap'[x] = IF x = l THEN "removed" ELSE snap[x]
  BY <1>4 DEF DetachDevices, TypeOK
<1>5. CASE Crash \/ UNCHANGED vars
  BY <1>5, Zenon DEF Crash, vars
<1> QED  BY <1>1, <1>2, <1>3, <1>4, <1>5 DEF Next

\* A snapshot is removed by its removal alone, and a failed one is not forgotten.
LEMMA RemovedMoves ==
  ASSUME TypeOK, JobInv, SnapInv, [Next]_vars, NEW x \in Layer
  PROVE  /\ snap'[x] = "removed" => snap[x] = "removed" \/ DetachDevices(x)
         /\ stuck \subseteq stuck'
<1>1. ASSUME NEW t \in Task, NEW l \in Layer, PrepareBegin(t, l) \/ StartContainer(t, l)
      PROVE  (snap'[x] = "removed" => snap[x] = "removed") /\ UNCHANGED stuck
  BY <1>1 DEF PrepareBegin, StartContainer, TypeOK, kernel
<1>2. ASSUME NEW t \in Task, TaskStep(t)
      PROVE  (snap'[x] = "removed" => snap[x] = "removed") /\ UNCHANGED stuck
  <2>1. UNCHANGED snap \/ \E s \in {"native", "committed"} : snap' = [snap EXCEPT ![task[t].layer] = s]
    BY <1>2, CallSnap, Zenon
  <2>2. snap'[x] = "removed" => snap[x] = "removed"
    BY <2>1 DEF TypeOK
  <2>3. UNCHANGED stuck
    BY <1>2, Zenon DEF TaskStep, CheckTarfsHintAnnotation, GetConcurrentLimiter, NewLimiter, Acquire,
       PrepareLayer, BlobStream, MergeStat, GetStatus, WaitLayerReady, RunImageTool, ImageToolEnds,
       ToolRename, ToolExit, MountBegin, AttachLayer, MountErofs, kernel
  <2> QED  BY <2>2, <2>3
<1>3. ASSUME NEW l \in Layer, ConvStep(l) \/ DetachForget(l) PROVE UNCHANGED <<snap, stuck>>
  BY <1>3, Zenon DEF ConvStep, ConvOpen, ConvRun, ConvRename, ConvExit, DetachForget, kernel
<1>4. ASSUME NEW l \in Layer, DetachDevices(l)
      PROVE  (x # l => snap'[x] = snap[x]) /\ stuck \subseteq stuck'
  <2>1. stuck \subseteq stuck'
    BY <1>4, Zenon DEF DetachDevices, kernel
  <2> QED  BY <1>4, <2>1 DEF DetachDevices, TypeOK
<1>5. CASE Crash \/ UNCHANGED vars
  BY <1>5, Zenon DEF Crash, vars, kernel
<1> QED  BY <1>1, <1>2, <1>3, <1>4, <1>5, Zenon DEF Next

\* The layers below a running call stay committed.
LEMMA HeldKept ==
  ASSUME TypeOK, JobInv, SnapInv, [Next]_vars, NEW t \in Task, Runner(t)
  PROVE  \A x \in Below(task[t].layer) : x \in Layer /\ snap'[x] = "committed"
<1>1. task[t].layer \in Layer /\ \A x \in Below(task[t].layer) : x \in Layer /\ snap[x] = "committed"
  BY HeldLayers
<1>2. \A x \in Below(task[t].layer) : ~DetachDevices(x)
  BY <1>1, ConstAssumption DEF DetachDevices, Removable
<1> QED  BY <1>1, <1>2, SnapMoves

\* The layer that a mount attaches lies below the image.
LEMMA WaitedBelow ==
  ASSUME TypeOK, JobInv, SnapInv, NEW t \in Task, AttachLayer(t) \/ MountErofs(t)
  PROVE  /\ Runner(t) /\ task[t].layer \in Layer /\ snap[task[t].layer] = "committed"
         /\ task[t].idx \in 1..Len(Stack[task[t].layer])
         /\ Waited(t) = Stack[task[t].layer][task[t].idx]
         /\ Waited(t) \in Below(task[t].layer) /\ Waited(t) \in Layer /\ snap[Waited(t)] = "committed"
<1>1. task[t].job = "mount" /\ task[t].pc \in {"attach", "mount"} /\ JobOK(t)
  BY Zenon DEF AttachLayer, MountErofs, JobInv, JobOK
<1>2. Runner(t) /\ task[t].layer \in Layer /\ snap[task[t].layer] = "committed"
  BY <1>1, HeldLayers DEF Runner, SnapInv
<1>3. task[t].idx \in 1..Len(Stack[task[t].layer]) /\ Waited(t) = Stack[task[t].layer][task[t].idx]
  BY <1>1, Zenon DEF JobOK, Waited, Top
<1>4. task[t].idx \in DOMAIN Stack[task[t].layer]
  BY <1>2, <1>3, StackFacts
<1> QED  BY <1>2, <1>3, <1>4, HeldLayers

\* A layer under removal has released its devices.
LEMMA RemovingStep ==
  ASSUME TypeOK, JobInv, SnapInv, ConvInv, MountInv, [Next]_vars, NEW l \in removing'
  PROVE  RemovingOK(l)'
<1>0. l \in removing => RemovingOK(l) /\ l \in Layer
  BY DEF MountInv, TypeOK
<1>1. ASSUME l \in removing, l \in present', st'[l].data = st[l].data, st'[l].meta = st[l].meta,
             st'[l].mnt = st[l].mnt
      PROVE  RemovingOK(l)'
  BY <1>0, <1>1, SnapMoves DEF RemovingOK
<1>2. ASSUME NEW t \in Task, NEW m \in Layer, PrepareBegin(t, m) \/ StartContainer(t, m)
      PROVE  RemovingOK(l)'
  <2>1. UNCHANGED <<present, st, removing>>
    BY <1>2 DEF PrepareBegin, StartContainer, objects
  <2> QED  BY <1>0, <1>1, <2>1 DEF RemovingOK
<1>3. ASSUME NEW t \in Task, TaskStep(t) PROVE RemovingOK(l)'
  <2>1. CASE PrepareLayer(t)
    BY <1>0, <1>1, <2>1, Zenon DEF PrepareLayer, TypeOK, RemovingOK
  <2>2. CASE BlobStream(t)
    <3>1. task[t].layer \in Layer
      BY <2>2, LayerOfCall DEF BlobStream
    <3>2. UNCHANGED <<present, removing>> /\ (UNCHANGED st \/ Epilog(task[t].layer, "failed"))
      BY <2>2 DEF BlobStream
    <3> QED  BY <1>0, <1>1, <3>1, <3>2, EpilogEffect DEF RemovingOK
  <2>3. CASE AttachLayer(t)
    <3>1. snap[Waited(t)] = "committed"
      BY <2>3, WaitedBelow
    <3>2. l \in removing /\ l \in present' /\ l # Waited(t)
      BY <1>0, <2>3, <3>1, AttachEffect DEF RemovingOK
    <3>3. st'[l].data = st[l].data /\ st'[l].meta = st[l].meta /\ st'[l].mnt = st[l].mnt
      BY <1>0, <2>3, <3>2, AttachEffect DEF RemovingOK
    <3> QED  BY <1>1, <3>2, <3>3
  <2>4. CASE MountErofs(t)
    <3>1. snap[Top(t)] = "committed"
      BY <2>4, WaitedBelow DEF Top
    <3>2. l \in removing /\ l \in present' /\ l # Top(t)
      BY <1>0, <2>4, <3>1, MountEffect, Zenon DEF RemovingOK
    <3>3. st'[l] = st[l]
      BY <1>0, <2>4, <3>2, MountEffect, Zenon
    <3> QED  BY <1>1, <3>2, <3>3
  <2> QED  BY <1>0, <1>1, <1>3, <2>1, <2>2, <2>3, <2>4, CallObjects DEF SameObjects, RemovingOK
<1>4. ASSUME NEW m \in Layer, ConvStep(m) PROVE RemovingOK(l)'
  <2>1. l \in removing /\ l \in present'
    BY <1>0, <1>4, ConvObjects DEF RemovingOK
  <2>2. st'[l].data = st[l].data /\ st'[l].meta = st[l].meta /\ st'[l].mnt = st[l].mnt
    BY <1>0, <1>4, <2>1, ConvObjects
  <2> QED  BY <1>1, <2>1, <2>2
<1>5. ASSUME NEW m \in Layer, DetachDevices(m) PROVE RemovingOK(l)'
  <2>1. UNCHANGED present /\ Removable(m) /\ snap'[m] = "removed"
    BY <1>5 DEF DetachDevices, TypeOK
  <2>2. CASE m \in present /\ Released(m, 3) /\ removing' = removing \cup {m}
    <3>1. /\ \A x \in Layer \ {m} : st'[x] = st[x]
          /\ ~st'[m].mnt /\ ~st'[m].meta /\ ~st'[m].data
      <4>1. 3 \in 0..3 /\ ~(3 < 1) /\ ~(3 < 2) /\ ~(3 < 3)
        OBVIOUS
      <4> QED  BY <2>2, <4>1, ReleasedEffect, Zenon
    <3>2. CASE l = m
      BY <2>1, <2>2, <3>1, <3>2 DEF RemovingOK
    <3>3. CASE l # m
      BY <1>0, <1>1, <2>1, <2>2, <3>1, <3>3 DEF RemovingOK
    <3> QED  BY <3>2, <3>3
  <2>3. CASE UNCHANGED removing
    <3>1. l # m
      BY <1>0, <2>1, <2>3 DEF RemovingOK, Removable
    <3>2. \A n \in 0..3 : Released(m, n) => st'[l] = st[l]
      BY <1>0, <2>3, <3>1, ReleasedEffect, Zenon
    <3>3. st'[l] = st[l]
      BY <1>5, <3>2 DEF DetachDevices
    <3> QED  BY <1>0, <1>1, <2>1, <2>3, <3>3 DEF RemovingOK
  <2> QED  BY <1>5, <2>2, <2>3 DEF DetachDevices
<1>6. ASSUME NEW m \in Layer, DetachForget(m) PROVE RemovingOK(l)'
  BY <1>0, <1>1, <1>6 DEF DetachForget, RemovingOK
<1>7. CASE Crash
  BY <1>7 DEF Crash
<1>8. CASE UNCHANGED vars
  BY <1>0, <1>1, <1>8 DEF vars, objects, RemovingOK
<1> QED  BY <1>2, <1>3, <1>4, <1>5, <1>6, <1>7, <1>8 DEF Next

\* A call about to mount or to attach does that.
LEMMA ElsewhereThanMount ==
  ASSUME NEW t \in Task, TaskStep(t), ~AttachLayer(t), ~MountBegin(t)
  PROVE  task[t].pc \notin {"begin", "attach"}
  BY DEF TaskStep, CheckTarfsHintAnnotation, GetConcurrentLimiter, NewLimiter, Acquire, PrepareLayer,
       BlobStream, MergeStat, GetStatus, WaitLayerReady, RunImageTool, ImageToolEnds, ToolRename,
       ToolExit, MountErofs

\* A mount has attached the layers that it has passed.
LEMMA ProgressStep ==
  ASSUME TypeOK, JobInv, SnapInv, ConvInv, MountInv, [Next]_vars, NEW u \in Task
  PROVE  ProgressOK(u)'
<1>0. ProgressOK(u)
  BY DEF MountInv
<1>1. CASE Crash
  BY <1>1, Zenon DEF Crash, ProgressOK, Idle
<1>2. ASSUME ~Crash, task[u].job = "mount", task[u].pc # "begin",
             task'[u].job = "mount" => /\ task'[u].layer = task[u].layer
                                       /\ task'[u].idx = task[u].idx
                                       /\ task'[u].pc = "mount" => task[u].pc = "mount"
      PROVE  ProgressOK(u)'
  <2>1. Runner(u)
    BY <1>2 DEF Runner
  <2>2. \A x \in Below(task[u].layer) : x \in Layer /\ snap'[x] = "committed"
    BY <2>1, HeldKept
  <2>3. \A i \in DOMAIN Stack[task[u].layer] : Stack[task[u].layer][i] \in Below(task[u].layer)
    BY <2>1, HeldLayers
  <2>4. \A x \in Below(task[u].layer) : Attached(x) => Attached(x)'
    BY <1>2, <2>2, AttachedKept
  <2> SUFFICES ASSUME task'[u].job = "mount", task'[u].pc # "begin",
                      NEW i \in DOMAIN Stack[task[u].layer],
                      task[u].pc = "mount" \/ i > task[u].idx,
                      NEW x, x = Stack[task[u].layer][i]
               PROVE  Attached(x)'
    BY <1>2 DEF ProgressOK, Attached, Ready
  <2>5. Attached(x)
    BY <1>0, <1>2 DEF ProgressOK
  <2> QED  BY <2>3, <2>4, <2>5
<1>3. ASSUME ~Crash, task'[u] = task[u] PROVE ProgressOK(u)'
  <2>1. CASE task[u].job = "mount" /\ task[u].pc # "begin"
    BY <1>2, <1>3, <2>1
  <2>2. CASE ~(task[u].job = "mount" /\ task[u].pc # "begin")
    BY <1>3, <2>2 DEF ProgressOK
  <2> QED  BY <2>1, <2>2
<1>4. ASSUME task'[u].job # "mount" \/ task'[u].pc = "begin" PROVE ProgressOK(u)'
  BY <1>4 DEF ProgressOK
<1>5. ASSUME ~Crash, NEW t \in Task, NEW l \in Layer, PrepareBegin(t, l) \/ StartContainer(t, l)
      PROVE  ProgressOK(u)'
  <2>1. SameRest(t) /\ task'[t].job \in {"none", "merge"}
    BY <1>5, BeginEffect
  <2> QED  BY <1>3, <1>4, <1>5, <2>1 DEF SameRest
<1>6. ASSUME ~Crash, NEW t \in Task, TaskStep(t) PROVE ProgressOK(u)'
  <2>0. SameRest(t)
    BY <1>6, CallStep
  <2>1. CASE u # t
    BY <1>3, <1>6, <2>0, <2>1 DEF SameRest
  <2>2. CASE u = t /\ ~AttachLayer(t) /\ ~MountBegin(t)
    <3>0. JobOK(t) /\ task[t].pc \notin {"begin", "attach"}
      BY <1>6, <2>2, ElsewhereThanMount DEF JobInv
    <3>1. CASE task'[t] = Idle
      BY <1>4, <2>2, <3>1 DEF Idle
    <3>2. CASE PrepareMoves(t) \/ ToolMoves(t)
      <4>1. task'[t].job # "mount" \/ task'[t].pc = "begin"
        BY <3>0, <3>2, Zenon DEF PrepareMoves, ToolMoves, Kept, Starts, Merged, JobOK, Preparing, Tool
      <4> QED  BY <1>4, <2>2, <4>1, Zenon
    <3>3. CASE RunMoves(t)
      <4>1. task'[t].job # "mount" \/ task'[t].pc = "begin"
        BY <3>0, <3>3 DEF RunMoves, Starts, Merged
      <4> QED  BY <1>4, <2>2, <4>1, Zenon
    <3>4. CASE WaitMoves(t)
      <4>1. CASE task[t].job = "mount"
        <5>1. /\ task[t].pc # "begin" /\ task'[t].layer = task[t].layer
              /\ task'[t].idx = task[t].idx /\ task'[t].pc # "mount"
          BY <3>4, <4>1 DEF WaitMoves, Kept
        <5> QED  BY <1>2, <1>6, <2>2, <4>1, <5>1, Zenon
      <4>2. CASE task[t].job # "mount"
        <5>1. task'[t].job # "mount"
          BY <3>4, <4>2 DEF WaitMoves, Kept, Up
        <5> QED  BY <1>4, <2>2, <5>1, Zenon
      <4> QED  BY <4>1, <4>2
    <3> QED  BY <1>6, CallMoves, <3>1, <3>2, <3>3, <3>4, Zenon
  <2>3. CASE u = t /\ MountBegin(t)
    <3>1. task[t].layer \in Layer
      BY <2>3, LayerOfCall DEF MountBegin
    <3>2. Len(Stack[Top(t)]) \in Nat /\ DOMAIN Stack[task[t].layer] = 1..Len(Stack[Top(t)])
      BY <3>1, StackFacts DEF Top
    <3>3. CASE ToIdle(t)
      BY <1>4, <2>3, <3>3, IdleEffect DEF Idle
    <3>4. CASE Job(t, "mount", "get", Len(Stack[Top(t)]))
      <4>1. task'[t].pc = "get" /\ task'[t].layer = task[t].layer /\ task'[t].idx = Len(Stack[Top(t)])
        <5>1. "get" \in PC /\ "mount" \in JobName
          BY DEF PC, JobName
        <5> QED  BY <3>2, <3>4, <5>1, JobEffect, Zenon
      <4> QED  BY <2>3, <3>2, <4>1 DEF ProgressOK
    <3> QED  BY <2>3, <3>3, <3>4, Zenon DEF MountBegin
  <2>4. CASE u = t /\ AttachLayer(t)
    <3>0. PICK S, x : S = Stack[task[t].layer] /\ x = Waited(t)
      OBVIOUS
    <3>1. CASE task'[t] = Idle
      BY <1>4, <2>4, <3>1 DEF Idle
    <3>2. CASE /\ Ready(x) /\ NextLayer(t, "mount")
               /\ x \notin Filled \/ loops' = loops \cup {<<x, "data">>}
      <4>1. /\ task'[t].layer = task[t].layer /\ task'[t].job = "mount"
            /\ task'[t].pc = IF task[t].idx > 1 THEN "get" ELSE "mount"
            /\ task'[t].idx = IF task[t].idx > 1 THEN task[t].idx - 1 ELSE task[t].idx
        BY <2>4, <3>2, NextLayerEffect, Zenon DEF PC, AttachLayer, JobInv, JobOK
      <4>2. Runner(t) /\ x \in Layer /\ task[t].idx \in 1..Len(S) /\ x = S[task[t].idx]
            /\ task[t].layer \in Layer
        BY <2>4, <3>0, WaitedBelow
      <4>3. Attached(x)'
        BY <2>4, <3>2, <4>2, AttachEffect, Zenon DEF Attached, Ready
      <4>4. \A i \in DOMAIN S : i > task[t].idx => Attached(S[i])'
        <5> SUFFICES ASSUME NEW i \in DOMAIN S, i > task[t].idx PROVE Attached(S[i])'
          OBVIOUS
        <5>1. Attached(S[i])
          BY <1>0, <2>4, <3>0, Zenon DEF ProgressOK, AttachLayer, JobInv, JobOK
        <5>2. S[i] \in Below(task[t].layer)
          BY <3>0, <4>2, HeldLayers
        <5>3. S[i] \in Layer /\ snap'[S[i]] = "committed"
          BY <4>2, <5>2, HeldKept
        <5> QED  BY <1>6, <5>1, <5>3, AttachedKept, Zenon
      <4>5. DOMAIN S = 1..Len(S) /\ Len(S) \in Nat
        BY <3>0, <4>2, StackFacts
      <4>6. \A i \in DOMAIN S : i >= task[t].idx => Attached(S[i])'
        BY <4>2, <4>3, <4>4, <4>5
      <4>7. \A i \in DOMAIN S : task'[t].pc = "mount" \/ i > task'[t].idx => i >= task[t].idx
        BY <4>1, <4>2, <4>5
      <4> QED  BY <2>4, <3>0, <4>1, <4>6, <4>7 DEF ProgressOK, Attached, Ready
    <3> QED  BY <2>4, <3>0, <3>1, <3>2, AttachEffect
  <2> QED  BY <2>1, <2>2, <2>3, <2>4
<1>7. ASSUME ~Crash, NEW l \in Layer, ConvStep(l) \/ DetachDevices(l) \/ DetachForget(l)
      PROVE  ProgressOK(u)'
  BY <1>3, <1>7, NoCall
<1>8. ASSUME ~Crash, UNCHANGED vars PROVE ProgressOK(u)'
  BY <1>3, <1>8 DEF vars
<1> QED  BY <1>1, <1>5, <1>6, <1>7, <1>8 DEF Next

\* An image is mounted by the last step of a mount, and not otherwise.
LEMMA MountMoves ==
  ASSUME TypeOK, JobInv, SnapInv, [Next]_vars, NEW l \in present', st'[l].mnt
  PROVE  \/ l \in present /\ st[l].mnt
         \/ \E t \in Task : MountErofs(t) /\ l = Top(t)
<1>1. l \in present \/ (\E t \in Task : PrepareLayer(t) /\ l = task[t].layer)
  <2>1. ASSUME NEW t \in Task, NEW m \in Layer, PrepareBegin(t, m) \/ StartContainer(t, m)
        PROVE  UNCHANGED present
    BY <2>1 DEF PrepareBegin, StartContainer, objects
  <2>2. ASSUME NEW t \in Task, TaskStep(t)
        PROVE  UNCHANGED present \/ (PrepareLayer(t) /\ present' = present \cup {task[t].layer})
    BY <2>2, CallObjects, Zenon DEF PrepareLayer, BlobStream, AttachLayer, MountErofs, SameObjects
  <2>3. ASSUME NEW m \in Layer, ConvStep(m) \/ DetachDevices(m) PROVE UNCHANGED present
    BY <2>3, ConvObjects DEF DetachDevices
  <2>4. ASSUME NEW m \in Layer, DetachForget(m) PROVE present' \subseteq present
    BY <2>4 DEF DetachForget
  <2>5. CASE Crash \/ UNCHANGED vars
    BY <2>5 DEF Crash, vars, objects
  <2> QED  BY <2>1, <2>2, <2>3, <2>4, <2>5 DEF Next
<1>2. ASSUME NEW t \in Task, PrepareLayer(t), l = task[t].layer PROVE ~st'[l].mnt
  <2>1. l \in Layer
    BY <1>2, LayerOfCall DEF PrepareLayer
  <2>2. st'[l] = NewStatus
    BY <1>2, <2>1 DEF PrepareLayer, TypeOK
  <2> QED  BY <2>2 DEF NewStatus
<1>3. ASSUME l \in present, ~st[l].mnt, st'[l].mnt
      PROVE  \E t \in Task : MountErofs(t) /\ l = Top(t)
  <2>0. l \in Layer
    BY <1>3 DEF TypeOK
  <2>1. ASSUME NEW t \in Task, NEW m \in Layer, PrepareBegin(t, m) \/ StartContainer(t, m)
        PROVE  UNCHANGED st
    BY <2>1 DEF PrepareBegin, StartContainer, objects
  <2>2. ASSUME NEW t \in Task, TaskStep(t) PROVE MountErofs(t) /\ l = Top(t)
    <3>1. CASE PrepareLayer(t)
      BY <1>3, <2>0, <3>1, Zenon DEF PrepareLayer, TypeOK
    <3>2. CASE BlobStream(t)
      BY <1>3, <2>0, <3>2, LayerOfCall, EpilogEffect DEF BlobStream
    <3>3. CASE AttachLayer(t)
      BY <1>3, <2>0, <3>3, AttachEffect
    <3>4. CASE MountErofs(t)
      BY <1>3, <2>0, <3>4, MountEffect, Zenon
    <3> QED  BY <1>3, <2>2, <3>1, <3>2, <3>3, <3>4, CallObjects DEF SameObjects
  <2>3. ASSUME NEW m \in Layer, ConvStep(m) PROVE FALSE
    BY <1>3, <2>0, <2>3, ConvObjects
  <2>4. ASSUME NEW m \in Layer, DetachDevices(m) PROVE FALSE
    <3>1. CASE UNCHANGED st
      BY <1>3, <3>1
    <3>2. CASE \E n \in 0..3 : Released(m, n)
      <4>1. PICK n \in 0..3 : Released(m, n)
        BY <3>2
      <4>2. (st'[m].mnt => st[m].mnt) /\ \A x \in Layer \ {m} : st'[x] = st[x]
        BY <4>1, ReleasedEffect, Zenon
      <4> QED  BY <1>3, <2>0, <4>2
    <3> QED  BY <2>4, <3>1, <3>2 DEF DetachDevices
  <2>5. ASSUME NEW m \in Layer, DetachForget(m) PROVE UNCHANGED st
    BY <2>5 DEF DetachForget
  <2>6. CASE Crash \/ UNCHANGED vars
    BY <1>3, <2>6 DEF Crash, vars, objects
  <2> QED  BY <1>3, <2>1, <2>2, <2>3, <2>4, <2>5, <2>6 DEF Next
<1> QED  BY <1>1, <1>2, <1>3, Zenon

\* An image that is mounted stays on layers that are attached.
LEMMA MountedStep ==
  ASSUME TypeOK, JobInv, SnapInv, ConvInv, MountInv, [Next]_vars, NEW l \in present'
  PROVE  MountedOK(l)'
<1>1. CASE Crash
  BY <1>1 DEF Crash
<1>2. ASSUME ~Crash, l \in present, st[l].mnt, snap[l] # "removed" PROVE MountedOK(l)'
  <2>1. l \in Layer /\ snap[l] = "committed" /\ \A x \in Below(l) : Attached(x)
    BY <1>2 DEF MountInv, MountedOK, TypeOK
  <2>2. CASE snap'[l] = "removed"
    BY <2>2 DEF MountedOK
  <2>3. CASE snap'[l] # "removed"
    <3>1. snap'[l] = "committed"
      BY <2>1, <2>3, SnapMoves DEF DetachDevices, TypeOK
    <3>2. \A x \in Below(l) : x \in Layer /\ snap'[x] = "committed"
      <4> SUFFICES ASSUME NEW x \in Below(l), x # l PROVE x \in Layer /\ snap'[x] = "committed"
        BY <2>1, <3>1
      <4>1. x \in Layer /\ snap[x] = "committed" /\ ~DetachDevices(x)
        BY <2>1, StackFacts, Zenon DEF SnapInv, DetachDevices, Removable
      <4> QED  BY <4>1, SnapMoves
    <3>3. \A x \in Below(l) : Attached(x)'
      BY <1>2, <2>1, <3>2, AttachedKept
    <3> QED  BY <3>1, <3>3, Zenon DEF MountedOK
  <2> QED  BY <2>2, <2>3
<1>3. ASSUME l \in present, snap[l] = "removed" PROVE MountedOK(l)'
  BY <1>3, SnapMoves DEF MountedOK, TypeOK
<1>4. ASSUME ~Crash, NEW t \in Task, MountErofs(t), l = Top(t) PROVE MountedOK(l)'
  <2>1. Runner(t) /\ l \in Layer
    BY <1>4, WaitedBelow, Zenon DEF Top
  <2>2. \A x \in Below(l) : x \in Layer /\ snap'[x] = "committed"
    BY <1>4, <2>1, HeldKept DEF Top
  <2>3. \A x \in Below(l) : Attached(x)
    BY <1>4, <2>1, Zenon DEF MountInv, ProgressOK, MountErofs, JobInv, JobOK, Below, Top
  <2>4. \A x \in Below(l) : Attached(x)'
    BY <1>4, <2>2, <2>3, AttachedKept
  <2>5. l \in Below(l)
    BY <2>1, StackFacts
  <2> QED  BY <2>2, <2>4, <2>5, Zenon DEF MountedOK
<1>5. CASE st'[l].mnt
  BY <1>1, <1>2, <1>3, <1>4, <1>5, MountMoves, Zenon
<1>6. CASE ~st'[l].mnt
  BY <1>6, Zenon DEF MountedOK
<1> QED  BY <1>5, <1>6

Found(x) == x \in present /\ (snap[x] # "removed" \/ x \in stuck)
Owned(x) ==
  /\ <<x, "data">> \in loops => Found(x) /\ st[x].data
  /\ <<x, "meta">> \in loops => Found(x) /\ st[x].meta

\* A device that is attached is in the status of a layer in the map: it is recorded in
\* the step that attaches it, while a call holds the snapshot, and a layer is forgotten
\* once its devices are released.
LEMMA DevicesStep == StateInv /\ [Next]_vars => DevicesOwned'
<1> SUFFICES ASSUME StateInv, [Next]_vars, ~crashed' PROVE DevicesOwned'
  BY Zenon DEF DevicesOwned
<1>1. TypeOK /\ JobInv /\ SnapInv /\ ConvInv /\ MountInv /\ TypeOK'
  BY TypeStep DEF StateInv
<1>2. SUFFICES ASSUME NEW x \in Layer PROVE Owned(x)'
  <2>1. \A d \in loops' : \E x \in Layer, k \in {"data", "meta"} : d = <<x, k>>
    BY <1>1 DEF TypeOK
  <2>2. ASSUME NEW d \in loops' PROVE Found(d[1])' /\ st'[d[1]][d[2]]
    <3>1. PICK x \in Layer, k \in {"data", "meta"} : d = <<x, k>>
      BY <2>1
    <3>2. d[1] = x /\ d[2] = k
      BY <3>1
    <3>3. Owned(x)'
      BY <1>2
    <3>4. CASE k = "data"
      BY <3>1, <3>2, <3>3, <3>4, Zenon DEF Owned
    <3>5. CASE k = "meta"
      BY <3>1, <3>2, <3>3, <3>5, Zenon DEF Owned
    <3> QED  BY <3>4, <3>5
  <2> QED  BY <2>2, Zenon DEF DevicesOwned, Found
<1>3. ~crashed => Owned(x)
  <2>1. \A k \in {"data", "meta"} : <<x, k>>[1] = x /\ <<x, k>>[2] = k
    OBVIOUS
  <2> QED  BY <2>1, Zenon DEF StateInv, DevicesOwned, Owned, Found
<1>a. ~DetachDevices(x) => (Found(x) /\ x \in present' => Found(x)')
  BY <1>1, RemovedMoves, Zenon DEF Found
<1>4. CASE Crash
  BY <1>4 DEF Crash
<1>5. ASSUME ~DetachDevices(x), UNCHANGED crashed, present \subseteq present', loops' \subseteq loops,
             st'[x].data = st[x].data, st'[x].meta = st[x].meta
      PROVE  Owned(x)'
  BY <1>3, <1>a, <1>5, Zenon DEF Owned, Found
<1>6. ASSUME NEW t \in Task, TaskStep(t), ~DetachDevices(x) PROVE Owned(x)'
  <2>1. CASE PrepareLayer(t)
    <3>1. task[t].layer \in Layer /\ task[t].layer \notin present /\ UNCHANGED <<loops, crashed>>
          /\ present' = present \cup {task[t].layer} /\ st' = [st EXCEPT ![task[t].layer] = NewStatus]
      BY <1>1, <2>1, LayerOfCall, Zenon DEF PrepareLayer, kernel
    <3>2. CASE x = task[t].layer
      BY <1>3, <3>1, <3>2, Zenon DEF Owned, Found
    <3>3. CASE x # task[t].layer
      <4>1. st'[x] = st[x]
        BY <1>1, <3>1, <3>3, Zenon DEF TypeOK
      <4> QED  BY <1>5, <1>6, <3>1, <4>1, Zenon
    <3> QED  BY <3>2, <3>3
  <2>2. CASE BlobStream(t)
    <3>1. UNCHANGED <<present, loops, crashed>> /\ st'[x].data = st[x].data /\ st'[x].meta = st[x].meta
      BY <1>1, <2>2, LayerOfCall, EpilogEffect DEF BlobStream, kernel
    <3> QED  BY <1>5, <1>6, <3>1, Zenon
  <2>3. CASE AttachLayer(t)
    <3>0. PICK y : y = Waited(t)
      OBVIOUS
    <3>1. UNCHANGED <<present, crashed>> /\ st'[x].meta = st[x].meta
      BY <1>1, <2>3, AttachEffect, Zenon
    <3>2. CASE UNCHANGED <<st, loops>>
      BY <1>5, <1>6, <3>1, <3>2, Zenon
    <3>3. CASE /\ y \in present /\ loops' = loops \cup {<<y, "data">>} /\ st'[y].data
               /\ x # y => st'[x] = st[x]
      <4>1. <<x, "meta">> \in loops' => <<x, "meta">> \in loops
        BY <3>3
      <4>2. <<x, "data">> \in loops' => <<x, "data">> \in loops \/ x = y
        BY <3>3
      <4>3. x = y => Found(x)
        BY <1>1, <2>3, <3>0, <3>3, WaitedBelow DEF Found
      <4> QED  BY <1>3, <1>6, <1>a, <3>1, <3>3, <4>1, <4>2, <4>3, Zenon DEF Owned, Found
    <3>4. \/ UNCHANGED <<st, loops>>
          \/ /\ y \in present /\ loops' = loops \cup {<<y, "data">>} /\ st'[y].data
             /\ x # y => st'[x] = st[x]
      BY <1>1, <2>3, <3>0, AttachEffect, Zenon DEF Ready
    <3> QED  BY <3>2, <3>3, <3>4
  <2>4. CASE MountErofs(t)
    <3>1. UNCHANGED <<present, crashed>> /\ Top(t) \in present
      BY <1>1, <2>4, MountEffect, Zenon
    <3>2. CASE UNCHANGED <<st, loops>>
      BY <1>5, <1>6, <3>1, <3>2, Zenon
    <3>3. CASE loops' = loops \cup {<<Top(t), "meta">>} /\ st'[Top(t)].meta
      <4>1. st'[x].data = st[x].data /\ (x # Top(t) => st'[x] = st[x])
        BY <1>1, <2>4, MountEffect, Zenon
      <4>2. <<x, "data">> \in loops' => <<x, "data">> \in loops
        BY <3>3
      <4>3. <<x, "meta">> \in loops' => <<x, "meta">> \in loops \/ x = Top(t)
        BY <3>3
      <4>4. x = Top(t) => Found(x)
        BY <1>1, <2>4, <3>1, WaitedBelow DEF Found, Top
      <4> QED  BY <1>3, <1>6, <1>a, <3>1, <3>3, <4>1, <4>2, <4>3, <4>4, Zenon DEF Owned, Found
    <3> QED  BY <1>1, <2>4, <3>2, <3>3, MountEffect, Zenon
  <2>5. CASE SameObjects
    BY <1>5, <1>6, <2>5, Zenon DEF SameObjects
  <2> QED  BY <1>6, <2>1, <2>2, <2>3, <2>4, <2>5, CallObjects
<1>7. ASSUME NEW l \in Layer, ConvStep(l), ~DetachDevices(x) PROVE Owned(x)'
  BY <1>1, <1>5, <1>7, ConvObjects, Zenon
<1>8. ASSUME NEW l \in Layer, DetachDevices(l), l # x, ~DetachDevices(x) PROVE Owned(x)'
  <2>1. UNCHANGED <<present, crashed>>
    BY <1>8 DEF DetachDevices
  <2>2. ASSUME NEW n \in 0..3, Released(l, n) PROVE Owned(x)'
    BY <1>1, <1>5, <1>8, <2>1, <2>2, ReleasedEffect, Zenon
  <2>3. CASE UNCHANGED <<st, loops>>
    BY <1>5, <1>8, <2>1, <2>3, Zenon
  <2>4. 3 \in 0..3 /\ 0..2 \subseteq 0..3
    OBVIOUS
  <2> QED  BY <1>8, <2>2, <2>3, <2>4, Zenon DEF DetachDevices, kernel
<1>9. ASSUME DetachDevices(x) PROVE Owned(x)'
  <2>1. UNCHANGED <<present, crashed>>
    BY <1>9, Zenon DEF DetachDevices
  <2>2. CASE Released(x, 3)
    <3>1. 3 \in 0..3 /\ ~(3 < 2) /\ ~(3 < 3)
      OBVIOUS
    <3> QED  BY <1>1, <2>2, <3>1, ReleasedEffect, Zenon DEF Owned
  <2>3. ASSUME NEW n \in 0..2, Released(x, n), x \in stuck', x \in present PROVE Owned(x)'
    <3>1. n \in 0..3
      BY <2>3
    <3>2. <<x, "data">> \in loops' => st'[x].data
      BY <1>1, <1>3, <2>1, <2>3, <3>1, ReleasedEffect, Zenon DEF Owned
    <3>3. <<x, "meta">> \in loops' => st'[x].meta
      BY <1>1, <1>3, <2>1, <2>3, <3>1, ReleasedEffect, Zenon DEF Owned
    <3> QED  BY <2>1, <2>3, <3>2, <3>3, Zenon DEF Owned, Found
  <2>4. CASE UNCHANGED loops /\ x \notin present
    BY <1>3, <2>1, <2>4, Zenon DEF Owned, Found
  <2>5. ASSUME stuck' = stuck \cup {x} PROVE x \in stuck'
    BY <2>5
  <2> QED  BY <1>9, <2>2, <2>3, <2>4, <2>5, Zenon DEF DetachDevices, kernel
<1>10. ASSUME NEW l \in Layer, DetachForget(l), ~DetachDevices(x) PROVE Owned(x)'
  <2>1. UNCHANGED <<st, loops, crashed>> /\ l \in removing /\ present' = present \ {l}
    BY <1>10 DEF DetachForget, kernel
  <2>2. ~st[l].data /\ ~st[l].meta
    BY <1>1, <2>1 DEF MountInv, RemovingOK
  <2>3. CASE x = l
    BY <1>3, <2>1, <2>2, <2>3, Zenon DEF Owned
  <2>4. CASE x # l
    BY <1>3, <1>10, <1>a, <2>1, <2>4, Zenon DEF Owned, Found
  <2> QED  BY <2>3, <2>4
<1>11. ASSUME NEW t \in Task, NEW l \in Layer, PrepareBegin(t, l) \/ StartContainer(t, l), ~DetachDevices(x)
       PROVE  Owned(x)'
  BY <1>5, <1>11 DEF PrepareBegin, StartContainer, objects, kernel
<1>12. CASE UNCHANGED vars /\ ~DetachDevices(x)
  BY <1>5, <1>12 DEF vars, objects, kernel
<1> QED  BY <1>4, <1>6, <1>7, <1>8, <1>9, <1>10, <1>11, <1>12, Zenon DEF Next

--------------------------------------------------------------------------------
(* The theorems that need no assumption on the calls.                            *)

\* Nothing has happened yet.
LEMMA StateInit == Init => StateInv
<1> SUFFICES ASSUME Init PROVE StateInv
  OBVIOUS
<1>1. TypeOK
  <2>1. NewStatus \in StatusType /\ NoFile \in FileType /\ Closed \in FdType /\ 0 \in 0..MaxFault
    BY ConstAssumption DEF NewStatus, StatusType, NoFile, FileType, Closed, FdType
  <2>2. wg \in [Layer -> 0..1] /\ faults \in 0..MaxFault /\ cached \in Task \cup {None}
    BY <2>1 DEF Init
  <2>3. st \in [Layer -> StatusType] /\ task \in [Task -> TaskType] /\ fd \in [Writer -> FdType]
    BY <2>1, IdleType DEF Init
  <2>4. tmp \in [Path -> FileType] /\ file \in [Path -> FileType]
    BY <2>1 DEF Init
  <2> QED  BY <2>2, <2>3, <2>4, Zenon DEF Init, TypeOK
<1>2. JobInv /\ SnapInv /\ ConvInv /\ MountInv /\ DevicesOwned
  BY ConstAssumption, Zenon DEF Init, JobInv, JobOK, SnapInv, ConvInv, MountInv, RemovingOK, ProgressOK,
     MountedOK, DevicesOwned, Idle, Preparing, Tool, Preparer, Runner
<1>3. OpenInv
  BY DEF Init, OpenInv, Idle, Writer
<1> QED  BY <1>1, <1>2, <1>3 DEF StateInv

\* The invariant is inductive.
LEMMA StateStep == StateInv /\ [Next]_vars => StateInv'
<1> SUFFICES ASSUME StateInv, [Next]_vars PROVE StateInv'
  OBVIOUS
<1>1. TypeOK /\ JobInv /\ OpenInv /\ SnapInv /\ ConvInv /\ MountInv
  BY DEF StateInv
<1>2. TypeOK' /\ JobInv' /\ OpenInv' /\ SnapInv' /\ ConvInv'
  BY <1>1, TypeStep, JobStep, OpenStep, SnapStep, ConvInvStep
<1>3. MountInv'
  BY <1>1, RemovingStep, ProgressStep, MountedStep DEF MountInv
<1> QED  BY <1>2, <1>3, DevicesStep DEF StateInv

\* The invariant holds in every behaviour of the manager.
THEOREM StateInvariant == Spec => []StateInv
  BY StateInit, StateStep, PTL DEF Spec

\* Every variable keeps its type, whatever the layers, the calls and the failures are.
THEOREM TypeCorrect == Spec => []TypeOK
<1>1. StateInv => TypeOK
  BY DEF StateInv
<1> QED  BY <1>1, StateInvariant, PTL

\* No loop device is leaked by an attach, a mount or a removal: one that is attached belongs
\* to a snapshot that is not removed and that DetachLayer will find, or to one whose
\* DetachLayer failed, or to a snapshotter that died. It needs neither distinct blobs nor
\* that an image is started once, and holds with every failure of the tool and the kernel.
THEOREM NoDeviceLeaks == Spec => []DevicesOwned
<1>1. StateInv => DevicesOwned
  BY DEF StateInv
<1> QED  BY <1>1, StateInvariant, PTL

--------------------------------------------------------------------------------
(* The manager implements TarfsPromise.                                          *)

State == [l \in Layer |-> IF l \in present THEN st[l].status ELSE "none"]
Mounted == {l \in present : st[l].mnt /\ snap[l] # "removed"}

\* What the manager's state says of one layer.
LEMMA StateOf ==
  ASSUME NEW x \in Layer
  PROVE  /\ State[x] = IF x \in present THEN st[x].status ELSE "none"
         /\ State'[x] = IF x \in present' THEN st'[x].status ELSE "none"
         /\ x \in Mounted <=> x \in present /\ st[x].mnt /\ snap[x] # "removed"
         /\ x \in Mounted' <=> x \in present' /\ st'[x].mnt /\ snap'[x] # "removed"
  BY DEF State, Mounted

\* A step that changes the state of one layer.
LEMMA StateUpdate ==
  ASSUME NEW l \in Layer, NEW s, State'[l] = s, \A x \in Layer \ {l} : State'[x] = State[x]
  PROVE  State' = [State EXCEPT ![l] = s]
  BY Zenon DEF State

\* A step that changes the state of no layer.
LEMMA StateSame ==
  ASSUME \A x \in Layer : State'[x] = State[x]
  PROVE  State' = State
  BY DEF State

\* A step that mounts and unmounts nothing.
LEMMA MountedSame ==
  ASSUME TypeOK, TypeOK', \A x \in Layer : x \in Mounted' <=> x \in Mounted
  PROVE  Mounted' = Mounted
<1>1. Mounted \subseteq Layer /\ Mounted' \subseteq Layer
  BY DEF TypeOK, Mounted
<1> QED  BY <1>1

\* The steps of the promise, in terms of the manager's state.
LEMMA PromiseSteps ==
  /\ \A l \in Layer :
       /\ State[l] = "none" /\ State' = [State EXCEPT ![l] = "converting"] /\ Mounted' = Mounted
            => Promise!Start(l)
       /\ \A r \in {"ready", "failed"} :
            State[l] = "converting" /\ State' = [State EXCEPT ![l] = r] /\ Mounted' = Mounted
              => Promise!Settle(l)
       /\ (\A x \in Below(l) : State[x] = "ready") /\ Mounted' = Mounted \cup {l} /\ State' = State
            => Promise!Mount(l)
       /\ Mounted' = Mounted \ {l} /\ State' = State => Promise!Unmount(l)
  /\ \A S \in SUBSET Layer :
       /\ State' = [l \in Layer |-> IF l \in S THEN "none" ELSE State[l]]
       /\ Mounted' = Mounted \ S
       /\ \A m \in Mounted' : Below(m) \cap S = {}
       => Promise!Forget(S)
  /\ Mounted' = Mounted /\ State' = State => UNCHANGED Promise!pvars
<1>1. ASSUME NEW l \in Layer
      PROVE  State[l] = "none" /\ State' = [State EXCEPT ![l] = "converting"] /\ Mounted' = Mounted
               => Promise!Start(l)
  BY DEF State, Mounted, Promise!Start
<1>2. ASSUME NEW l \in Layer, NEW r \in {"ready", "failed"}
      PROVE  State[l] = "converting" /\ State' = [State EXCEPT ![l] = r] /\ Mounted' = Mounted
               => Promise!Settle(l)
  BY Zenon DEF State, Mounted, Promise!Settle
<1>3. ASSUME NEW l \in Layer
      PROVE  (\A x \in Below(l) : State[x] = "ready") /\ Mounted' = Mounted \cup {l} /\ State' = State
               => Promise!Mount(l)
  BY Zenon DEF State, Mounted, Promise!Mount, Promise!Below, Below
<1>4. ASSUME NEW l \in Layer
      PROVE  Mounted' = Mounted \ {l} /\ State' = State => Promise!Unmount(l)
  BY DEF State, Mounted, Promise!Unmount
<1>5. ASSUME NEW S \in SUBSET Layer
      PROVE  /\ State' = [l \in Layer |-> IF l \in S THEN "none" ELSE State[l]]
             /\ Mounted' = Mounted \ S
             /\ \A m \in Mounted' : Below(m) \cap S = {}
             => Promise!Forget(S)
  BY DEF State, Mounted, Promise!Forget, Promise!Below, Below
<1>6. Mounted' = Mounted /\ State' = State => UNCHANGED Promise!pvars
  BY DEF State, Mounted, Promise!pvars
<1> QED  BY <1>1, <1>2, <1>3, <1>4, <1>5, <1>6, Zenon

\* Only a removal, and nothing else, removes a snapshot.
LEMMA SnapRemoved ==
  ASSUME TypeOK, JobInv, SnapInv, [Next]_vars, NEW x \in Layer, ~DetachDevices(x)
  PROVE  snap'[x] = "removed" <=> snap[x] = "removed"
<1>1. ASSUME NEW t \in Task, NEW l \in Layer, PrepareBegin(t, l) \/ StartContainer(t, l)
      PROVE  snap'[x] = "removed" <=> snap[x] = "removed"
  BY <1>1 DEF PrepareBegin, StartContainer, TypeOK
<1>2. ASSUME NEW t \in Task, TaskStep(t) PROVE snap'[x] = "removed" <=> snap[x] = "removed"
  <2>1. CASE UNCHANGED snap
    BY <2>1
  <2>2. CASE /\ Preparer(t)
             /\ \E s \in {"native", "committed"} : snap' = [snap EXCEPT ![task[t].layer] = s]
    <3>1. snap[task[t].layer] = "active"
      BY <2>2, Zenon DEF SnapInv
    <3>2. PICK s \in {"native", "committed"} : snap' = [snap EXCEPT ![task[t].layer] = s]
      BY <2>2, Zenon
    <3>3. snap'[x] = IF x = task[t].layer THEN s ELSE snap[x]
      BY <3>2 DEF TypeOK
    <3> QED  BY <3>1, <3>2, <3>3
  <2> QED  BY <1>2, <2>1, <2>2, CallSnap, Zenon
<1>3. ASSUME NEW l \in Layer, ConvStep(l) \/ DetachForget(l) PROVE UNCHANGED snap
  BY <1>3, ConvObjects, Zenon DEF DetachForget
<1>4. ASSUME NEW l \in Layer, DetachDevices(l) PROVE snap'[x] = snap[x]
  BY <1>4, Zenon DEF DetachDevices, TypeOK
<1>5. CASE Crash \/ UNCHANGED vars
  BY <1>5, Zenon DEF Crash, vars
<1> QED  BY <1>1, <1>2, <1>3, <1>4, <1>5 DEF Next

\* Every step of the manager is a step of its promise, or changes nothing that it
\* speaks of.
LEMMA PromiseStep == StateInv /\ [Next]_vars => [Promise!PNext]_(Promise!pvars)
<1> SUFFICES ASSUME StateInv, [Next]_vars PROVE [Promise!PNext]_(Promise!pvars)
  OBVIOUS
<1>1. TypeOK /\ JobInv /\ SnapInv /\ ConvInv /\ MountInv /\ TypeOK'
  BY TypeStep DEF StateInv
<1>2. ASSUME NEW l \in Layer,
             Promise!Start(l) \/ Promise!Settle(l) \/ Promise!Mount(l) \/ Promise!Unmount(l)
      PROVE  Promise!PNext
  BY <1>2 DEF Promise!PNext
<1>3. ASSUME NEW S \in SUBSET Layer, Promise!Forget(S) PROVE Promise!PNext
  BY <1>3 DEF Promise!PNext
<1>4. ASSUME \A x \in Layer : ~DetachDevices(x), UNCHANGED present,
             \A x \in Layer : st'[x].mnt <=> st[x].mnt
      PROVE  Mounted' = Mounted
  BY <1>1, <1>4, SnapRemoved, StateOf, MountedSame, Zenon
<1>5. ASSUME \A x \in Layer : ~DetachDevices(x), UNCHANGED present,
             \A x \in Layer : st'[x].mnt <=> st[x].mnt,
             \A x \in Layer : x \in present => st'[x].status = st[x].status
      PROVE  UNCHANGED Promise!pvars
  BY <1>4, <1>5, StateOf, StateSame, PromiseSteps, Zenon
<1>6. ASSUME \A x \in Layer : ~DetachDevices(x), UNCHANGED <<present, st>>
      PROVE  UNCHANGED Promise!pvars
  BY <1>5, <1>6
<1>7. ASSUME \A x \in Layer : ~DetachDevices(x), UNCHANGED present,
             \A x \in Layer : st'[x].mnt <=> st[x].mnt,
             NEW l \in present, st[l].status = "converting", st'[l].status \in {"ready", "failed"},
             \A x \in Layer : x # l => st'[x].status = st[x].status
      PROVE  Promise!PNext
  <2>1. l \in Layer /\ State[l] = "converting" /\ State'[l] = st'[l].status
    BY <1>1, <1>7, StateOf DEF TypeOK
  <2>2. State' = [State EXCEPT ![l] = st'[l].status]
    <3>1. ASSUME NEW x \in Layer \ {l} PROVE State'[x] = State[x]
      <4>1. present' = present /\ st'[x].status = st[x].status
        BY <1>7, <3>1, Zenon
      <4> QED  BY <4>1, StateOf, Zenon
    <3> QED  BY <2>1, <3>1, StateUpdate, Zenon
  <2> QED  BY <1>2, <1>4, <1>7, <2>1, <2>2, PromiseSteps, Zenon
<1>8. CASE \A x \in Layer : ~DetachDevices(x)
  <2>1. ASSUME NEW t \in Task, NEW l \in Layer, PrepareBegin(t, l) \/ StartContainer(t, l)
        PROVE  UNCHANGED Promise!pvars
    BY <1>6, <1>8, <2>1 DEF PrepareBegin, StartContainer, objects
  <2>2. ASSUME NEW t \in Task, PrepareLayer(t) PROVE Promise!PNext
    <3>1. PICK l : l = task[t].layer
      OBVIOUS
    <3>2. /\ l \in Layer /\ l \notin present /\ present' = present \cup {l}
          /\ st' = [st EXCEPT ![l] = NewStatus] /\ UNCHANGED snap
      BY <1>1, <2>2, <3>1, LayerOfCall DEF PrepareLayer
    <3>3. st'[l].status = "converting" /\ ~st'[l].mnt /\ \A x \in Layer \ {l} : st'[x] = st[x]
      BY <1>1, <3>2, Zenon DEF TypeOK, NewStatus
    <3>4. State[l] = "none" /\ State' = [State EXCEPT ![l] = "converting"]
      <4>1. State[l] = "none" /\ State'[l] = "converting"
        BY <3>2, <3>3, StateOf
      <4>2. ASSUME NEW x \in Layer \ {l} PROVE State'[x] = State[x]
        <5>1. (x \in present' <=> x \in present) /\ st'[x] = st[x]
          BY <3>2, <3>3, Zenon
        <5> QED  BY <5>1, StateOf, Zenon
      <4> QED  BY <3>2, <4>1, <4>2, StateUpdate, Zenon
    <3>5. Mounted' = Mounted
      BY <1>1, <3>2, <3>3, StateOf, MountedSame, Zenon
    <3> QED  BY <1>2, <3>2, <3>4, <3>5, PromiseSteps, Zenon
  <2>3. ASSUME NEW t \in Task, BlobStream(t) PROVE [Promise!PNext]_(Promise!pvars)
    <3>1. PICK l : l = task[t].layer
      OBVIOUS
    <3>2. l \in Layer /\ UNCHANGED present /\ l \in present /\ st[l].status = "converting"
      BY <1>1, <2>3, <3>1, LayerOfCall, Zenon DEF BlobStream, ConvInv
    <3>3. CASE UNCHANGED st
      BY <1>6, <1>8, <3>2, <3>3, Zenon
    <3>4. CASE Epilog(l, "failed")
      <4>1. /\ st'[l].status = "failed"
            /\ \A x \in Layer : st'[x].mnt = st[x].mnt /\ (x # l => st'[x].status = st[x].status)
        BY <1>1, <3>2, <3>4, EpilogEffect
      <4> QED  BY <1>7, <1>8, <3>2, <4>1
    <3> QED  BY <2>3, <3>1, <3>3, <3>4, Zenon DEF BlobStream
  <2>4. ASSUME NEW t \in Task, AttachLayer(t) PROVE UNCHANGED Promise!pvars
    BY <1>1, <1>5, <1>8, <2>4, AttachEffect
  <2>5. ASSUME NEW t \in Task, MountErofs(t) PROVE [Promise!PNext]_(Promise!pvars)
    <3>1. PICK l : l = Top(t)
      OBVIOUS
    <3>2. /\ UNCHANGED present /\ l \in present /\ l \in Layer
          /\ \A x \in Layer : st'[x].status = st[x].status /\ (x # l => st'[x] = st[x])
          /\ UNCHANGED snap /\ snap[l] = "committed"
      BY <1>1, <2>5, <3>1, MountEffect, WaitedBelow, Zenon DEF MountErofs, Top
    <3>3. \A x \in Below(l) : Ready(x) /\ x \in Layer
      BY <1>1, <2>5, <3>1, <3>2, StackFacts, Zenon DEF MountInv, ProgressOK, MountErofs, JobInv, JobOK, Below,
         Top, Attached
    <3>4. State' = State
      BY <3>2, StateOf, StateSame
    <3>5. CASE st'[l].mnt
      <4>1. \A x \in Layer : x \in Mounted' <=> x \in Mounted \/ x = l
        BY <3>2, <3>5, StateOf
      <4>2. Mounted' = Mounted \cup {l}
        BY <1>1, <3>2, <4>1, Zenon DEF Mounted, TypeOK
      <4>3. \A x \in Below(l) : State[x] = "ready"
        BY <3>3, StateOf DEF Ready
      <4> QED  BY <1>2, <3>2, <3>4, <4>2, <4>3, PromiseSteps, Zenon
    <3>6. CASE ~st'[l].mnt
      <4>1. ~st[l].mnt
        BY <1>1, <2>5, <3>1, <3>2, <3>6, MountEffect, Zenon
      <4> QED  BY <1>5, <1>8, <3>2, <3>6, <4>1
    <3> QED  BY <3>5, <3>6
  <2>6. ASSUME NEW l \in Layer, ConvStep(l) PROVE [Promise!PNext]_(Promise!pvars)
    <3>1. /\ UNCHANGED present
          /\ \A x \in Layer : st'[x].mnt = st[x].mnt
          /\ \A x \in Layer : x # l \/ x \notin present => st'[x].status = st[x].status
      BY <1>1, <2>6, ConvObjects
    <3>2. CASE UNCHANGED st \/ l \notin present
      BY <1>5, <1>8, <3>1, <3>2
    <3>3. CASE l \in present /\ st'[l].status \in {"ready", "failed"}
      <4>1. st[l].status = "converting"
        BY <1>1, <2>6, <3>3, ConvObjects DEF ConvInv
      <4> QED  BY <1>7, <1>8, <3>1, <3>3, <4>1, Zenon
    <3> QED  BY <1>1, <2>6, <3>2, <3>3, ConvObjects, Zenon
  <2>7. ASSUME NEW l \in Layer, DetachForget(l) PROVE Promise!PNext
    <3>1. present' = present \ {l} /\ UNCHANGED <<st, snap>> /\ l \in removing
      BY <2>7 DEF DetachForget
    <3>2. snap[l] = "removed"
      BY <1>1, <3>1 DEF MountInv, RemovingOK
    <3>3. State' = [x \in Layer |-> IF x \in {l} THEN "none" ELSE State[x]]
      BY <3>1 DEF State
    <3>4. Mounted' = Mounted \ {l}
      BY <3>1 DEF Mounted
    <3>5. ASSUME NEW m \in Mounted' PROVE Below(m) \cap {l} = {}
      <4>1. m \in Layer /\ m # l /\ snap[m] = "committed"
        BY <1>1, <3>1, <3>2, <3>5 DEF Mounted, MountInv, MountedOK, TypeOK
      <4>2. l \notin Below(m)
        BY <1>1, <3>2, <4>1 DEF SnapInv
      <4> QED  BY <4>2, Zenon
    <3> QED  BY <1>3, <3>3, <3>4, <3>5, PromiseSteps, Zenon
  <2>8. CASE Crash
    <3>1. State' = [x \in Layer |-> IF x \in Layer THEN "none" ELSE State[x]]
      BY <2>8, Zenon DEF Crash, State
    <3>2. Mounted' = {} /\ Mounted \subseteq Layer
      BY <1>1, <2>8 DEF Crash, Mounted, TypeOK
    <3> QED  BY <1>3, <3>1, <3>2, PromiseSteps
  <2>9. CASE UNCHANGED vars
    BY <1>6, <1>8, <2>9 DEF vars, objects
  <2>10. ASSUME NEW t \in Task, TaskStep(t) PROVE [Promise!PNext]_(Promise!pvars)
    BY <1>6, <1>8, <2>2, <2>3, <2>4, <2>5, <2>10, CallObjects, Zenon DEF SameObjects
  <2> QED  BY <1>8, <2>1, <2>6, <2>7, <2>8, <2>9, <2>10 DEF Next
<1>9. ASSUME NEW l \in Layer, DetachDevices(l) PROVE Promise!PNext
  <2>1. UNCHANGED present /\ snap' = [snap EXCEPT ![l] = "removed"]
    BY <1>9, Zenon DEF DetachDevices
  <2>2. ASSUME NEW n \in 0..3, Released(l, n)
        PROVE  \A x \in Layer : st'[x].status = st[x].status /\ (x # l => st'[x] = st[x])
    BY <1>1, <2>2, ReleasedEffect, Zenon
  <2>3. 3 \in 0..3 /\ 0..2 \subseteq 0..3
    OBVIOUS
  <2>4. \A x \in Layer : st'[x].status = st[x].status /\ (x # l => st'[x] = st[x])
    BY <1>9, <2>2, <2>3, Zenon DEF DetachDevices
  <2>5. State' = State
    BY <2>1, <2>4, StateOf, StateSame, Zenon
  <2>6. snap'[l] = "removed" /\ \A x \in Layer \ {l} : snap'[x] = snap[x]
    BY <1>1, <2>1 DEF TypeOK
  <2>7. \A x \in Layer : x \in Mounted' <=> x \in Mounted /\ x # l
    BY <2>1, <2>4, <2>6, StateOf, Zenon
  <2>8. Mounted' = Mounted \ {l}
    BY <1>1, <2>7 DEF Mounted, TypeOK
  <2> QED  BY <1>2, <2>5, <2>8, PromiseSteps, Zenon
<1> QED  BY <1>8, <1>9

\* The manager implements its promise, whatever the layers, the calls and the failures
\* are: a layer settles once, and an image is mounted only from layers that are ready and
\* that are not forgotten before it is unmounted.
THEOREM ImplementsPromise == Spec => KeepsPromise
<1>1. Init => Promise!PInit
  BY Zenon DEF Init, Promise!PInit
<1> QED  BY <1>1, StateInvariant, PromiseStep, PTL DEF Spec, KeepsPromise, Promise!PSpec

--------------------------------------------------------------------------------
(* The files: while no two writers share a path, what is published is complete.  *)

\* No two layers have the same content, so no two conversions write the same tar file.
OwnBlobs == \A l, m \in Layer : BlobOf[l] = BlobOf[m] => l = m

\* A conversion is the only writer of its tar file, which appears when it is complete.
TarOK(l) ==
  /\ conv[l] \in {"run", "rename"} => fd[l].at = "tmp" /\ tmp[Tar(l)].last = l
  /\ conv[l] = "rename" => l \in bad \/ tmp[Tar(l)].whole
  /\ conv[l] = "exit" \/ Ready(l) =>
       /\ file[Tar(l)].last # None
       /\ l \in bad \/ file[Tar(l)].whole
       /\ snap[l] # "removed" => l \in boots
TarInv == \A l \in Layer : TarOK(l)

\* A merge is the only writer of the image's bootstrap, which appears when it is complete.
BootCall(t) ==
  /\ task[t].job = "merge" =>
       /\ task[t].pc \in {"running", "rename"} => fd[t].at = "tmp" /\ tmp[Boot(Top(t))].last = t
       /\ task[t].pc = "rename" => tmp[Boot(Top(t))].whole
       /\ task[t].pc = "exit" => file[Boot(Top(t))] # NoFile
  /\ task[t].job \in {"image_disk", "mount"} => file[Boot(Top(t))] # NoFile
BootFile(l) ==
  /\ file[Boot(l)] # NoFile => file[Boot(l)].whole
  /\ l \in present /\ st[l].mnt /\ snap[l] # "removed" => file[Boot(l)] # NoFile
BootInv ==
  /\ \A t, u \in Task : task[t].layer # None /\ task[t].layer = task[u].layer => t = u
  /\ \A t \in Task : BootCall(t)
  /\ \A l \in Layer : BootFile(l)

--------------------------------------------------------------------------------
(* The files of a layer and of an image.                                         *)

\* What a writer at path p leaves alone.
Elsewhere(w, p) ==
  /\ \A q \in Path \ {p} : tmp'[q] = tmp[q] /\ file'[q] = file[q]
  /\ \A x \in Writer \ {w} : fd[x].path # p => fd'[x] = fd[x]

\* A call writes only the target of its job.
LEMMA CallFiles ==
  ASSUME TypeOK, JobInv, OpenInv, NEW t \in Task, TaskStep(t)
  PROVE  Elsewhere(t, Target(t)) /\ UNCHANGED boots
<1>0. t \in Writer
  BY DEF Writer
<1>1. CASE UNCHANGED files
  BY <1>1, Zenon DEF files, Elsewhere
<1>2. CASE RunImageTool(t) /\ Create(t, Target(t))
  <2>1. Target(t) \in Path
    BY <1>2, OpenPaths, Zenon DEF RunImageTool
  <2>2. OnlyTmp(Target(t)) /\ \A x \in Writer \ {t} : fd'[x] = fd[x]
    BY <1>0, <1>2, <2>1, CreateEffect, Zenon
  <2> QED  BY <2>2, Zenon DEF Elsewhere, OnlyTmp
<1>3. CASE ImageToolEnds(t) \/ ToolRename(t) \/ ToolExit(t)
  <2>1. fd[t].path \in Path /\ fd[t].path = Target(t)
    BY <1>3, OpenPaths, Zenon DEF ImageToolEnds, ToolRename, ToolExit, OpenInv
  <2>2. CASE Write(t)
    BY <1>0, <2>1, <2>2, WriteEffect, Zenon DEF Elsewhere
  <2>3. CASE RemoveTmp(t)
    BY <1>0, <2>1, <2>3, RemoveTmpEffect, Zenon DEF Elsewhere, OnlyTmp
  <2>4. CASE Rename(t) /\ UNCHANGED boots
    BY <1>0, <2>1, <2>4, RenameEffect, Zenon DEF Elsewhere
  <2> QED  BY <1>3, <2>2, <2>3, <2>4, Zenon DEF ImageToolEnds, ToolRename, ToolExit
<1> QED  BY <1>1, <1>2, <1>3, QuietCall, Zenon

\* A conversion writes only the tar file of its blob.
LEMMA ConvFiles ==
  ASSUME TypeOK, JobInv, OpenInv, NEW l \in Layer, ConvStep(l)
  PROVE  Elsewhere(l, Tar(l)) /\ \A m \in Layer \ {l} : m \in boots => m \in boots'
<1>0. l \in Writer /\ Tar(l) \in Path
  BY Paths DEF Writer
<1>1. CASE UNCHANGED files
  BY <1>1, Zenon DEF files, Elsewhere
<1>2. CASE Create(l, Tar(l))
  <2>1. OnlyTmp(Tar(l)) /\ \A x \in Writer \ {l} : fd'[x] = fd[x]
    BY <1>0, <1>2, CreateEffect, Zenon
  <2> QED  BY <2>1, Zenon DEF Elsewhere, OnlyTmp
<1>3. CASE conv[l] \in {"run", "rename", "exit"}
  <2>1. fd[l].path = Tar(l)
    BY <1>3, Zenon DEF OpenInv
  <2>2. CASE Write(l)
    BY <1>0, <2>1, <2>2, WriteEffect, Zenon DEF Elsewhere
  <2>3. CASE RemoveTmp(l)
    BY <1>0, <2>1, <2>3, RemoveTmpEffect, Zenon DEF Elsewhere, OnlyTmp
  <2>4. CASE Rename(l) /\ boots' \in {boots, boots \cup {l}}
    BY <1>0, <2>1, <2>4, RenameEffect DEF Elsewhere
  <2> QED  BY <1>1, <1>3, <2>2, <2>3, <2>4, Zenon DEF ConvStep, ConvOpen, ConvRun, ConvRename, ConvExit
<1> QED  BY <1>1, <1>2, <1>3, Zenon DEF ConvStep, ConvOpen, ConvRun, ConvRename, ConvExit

\* A layer becomes ready at the end of its conversion, and not otherwise.
LEMMA ReadyMoves ==
  ASSUME StateInv, [Next]_vars, NEW l \in Layer, Ready(l)'
  PROVE  Ready(l) \/ (ConvStep(l) /\ conv[l] = "exit")
<1>1. TypeOK /\ JobInv /\ SnapInv /\ ConvInv /\ MountInv
  BY DEF StateInv
<1>2. l \in present' /\ st'[l].status = "ready"
  BY DEF Ready
<1>3. ASSUME NEW t \in Task, NEW m \in Layer, PrepareBegin(t, m) \/ StartContainer(t, m)
      PROVE  Ready(l)
  BY <1>2, <1>3 DEF PrepareBegin, StartContainer, objects, Ready
<1>4. ASSUME NEW t \in Task, TaskStep(t) PROVE Ready(l)
  <2>1. CASE PrepareLayer(t)
    <3>1. /\ task[t].layer \in Layer /\ present' = present \cup {task[t].layer}
          /\ st' = [st EXCEPT ![task[t].layer] = NewStatus]
      BY <1>1, <2>1, LayerOfCall, Zenon DEF PrepareLayer
    <3> QED  BY <1>1, <1>2, <3>1, Zenon DEF Ready, TypeOK, NewStatus
  <2>2. CASE BlobStream(t)
    <3>1. task[t].layer \in Layer /\ UNCHANGED present
      BY <1>1, <2>2, LayerOfCall, Zenon DEF BlobStream
    <3>2. UNCHANGED st \/ Epilog(task[t].layer, "failed")
      BY <2>2, Zenon DEF BlobStream
    <3> QED  BY <1>1, <1>2, <3>1, <3>2, EpilogEffect, Zenon DEF Ready
  <2>3. CASE AttachLayer(t)
    BY <1>1, <1>2, <2>3, AttachEffect DEF Ready
  <2>4. CASE MountErofs(t)
    BY <1>1, <1>2, <2>4, MountEffect, Zenon DEF Ready
  <2> QED  BY <1>2, <1>4, <2>1, <2>2, <2>3, <2>4, CallObjects, Zenon DEF SameObjects, Ready
<1>5. ASSUME NEW m \in Layer, ConvStep(m) PROVE Ready(l) \/ (ConvStep(l) /\ conv[l] = "exit")
  BY <1>1, <1>2, <1>5, ConvObjects, Zenon DEF Ready
<1>6. ASSUME NEW m \in Layer, DetachDevices(m) PROVE Ready(l)
  <2>1. ASSUME NEW n \in 0..3, Released(m, n) PROVE st'[l].status = st[l].status
    BY <1>1, <2>1, ReleasedEffect, Zenon
  <2>2. 3 \in 0..3 /\ 0..2 \subseteq 0..3
    OBVIOUS
  <2>3. st'[l].status = st[l].status /\ UNCHANGED present
    BY <1>6, <2>1, <2>2, Zenon DEF DetachDevices
  <2> QED  BY <1>2, <2>3 DEF Ready
<1>7. ASSUME NEW m \in Layer, DetachForget(m) PROVE Ready(l)
  BY <1>2, <1>7, Zenon DEF DetachForget, Ready
<1>8. CASE Crash \/ UNCHANGED vars
  BY <1>2, <1>8, Zenon DEF Crash, vars, objects, Ready
<1> QED  BY <1>3, <1>4, <1>5, <1>6, <1>7, <1>8 DEF Next

\* The snapshot directory of a layer that is not removed keeps its bootstraps.
LEMMA DirKept ==
  ASSUME StateInv, [Next]_vars, NEW m \in Layer, DetachDevices(m) \/ DetachForget(m)
  PROVE  /\ UNCHANGED <<fd, tmp, conv, task>>
         /\ \A q \in Path : q # Boot(m) => file'[q] = file[q]
         /\ \A l \in Layer : snap'[l] # "removed" =>
              (l \in boots => l \in boots') /\ file'[Boot(l)] = file[Boot(l)]
<1>1. UNCHANGED <<conv, task>>
  BY Zenon DEF DetachDevices, DetachForget
<1>2. UNCHANGED files \/ RemoveDir(m)
  BY Zenon DEF DetachDevices, DetachForget
<1>3. UNCHANGED <<fd, tmp>>
  BY <1>2 DEF RemoveDir, files
<1>4. \A q \in Path : q # Boot(m) => file'[q] = file[q]
  BY <1>2 DEF RemoveDir, files, StateInv, TypeOK
<1>5. boots' = boots \/ boots' = boots \ {m}
  BY <1>2, Zenon DEF RemoveDir, files
<1>6. snap'[m] = "removed"
  BY Zenon DEF DetachDevices, DetachForget, StateInv, MountInv, RemovingOK, TypeOK
<1> QED  BY <1>1, <1>3, <1>4, <1>5, <1>6, Paths, Zenon

\* What is known of a layer's content is not forgotten.
LEMMA BadKept ==
  ASSUME [Next]_vars
  PROVE  bad \subseteq bad'
<1>1. ASSUME NEW t \in Task, TaskStep(t) PROVE UNCHANGED bad
  BY <1>1, Zenon DEF TaskStep, CheckTarfsHintAnnotation, GetConcurrentLimiter, NewLimiter, Acquire,
     PrepareLayer, BlobStream, MergeStat, GetStatus, WaitLayerReady, RunImageTool, ImageToolEnds,
     ToolRename, ToolExit, MountBegin, AttachLayer, MountErofs
<1>2. ASSUME NEW t \in Task, NEW l \in Layer, PrepareBegin(t, l) \/ StartContainer(t, l) PROVE UNCHANGED bad
  BY <1>2, Zenon DEF PrepareBegin, StartContainer
<1>3. ASSUME NEW l \in Layer, ConvStep(l) PROVE bad \subseteq bad'
  BY <1>3, Zenon DEF ConvStep, ConvOpen, ConvRun, ConvRename, ConvExit
<1>4. ASSUME NEW l \in Layer, DetachDevices(l) \/ DetachForget(l) PROVE UNCHANGED bad
  BY <1>4, Zenon DEF DetachDevices, DetachForget
<1>5. CASE Crash \/ UNCHANGED vars
  BY <1>5, Zenon DEF Crash, vars
<1> QED  BY <1>1, <1>2, <1>3, <1>4, <1>5, Zenon DEF Next

\* The tar file of a layer is written by its own conversion alone.
LEMMA TarStep ==
  ASSUME OwnBlobs, StateInv, [Next]_vars, NEW l \in Layer, TarOK(l)
  PROVE  TarOK(l)'
<1>1. TypeOK /\ JobInv /\ OpenInv /\ SnapInv /\ ConvInv /\ MountInv
  BY DEF StateInv
<1>2. l \in Writer /\ l \notin Task /\ Tar(l) \in Path
  BY ConstAssumption, Paths, Zenon DEF Writer
<1>3. ASSUME file'[Tar(l)] = file[Tar(l)], snap'[l] # "removed" /\ l \in boots => l \in boots',
             snap[l] = "removed" => snap'[l] = "removed", bad \subseteq bad',
             conv'[l] \in {"run", "rename", "exit"} =>
               conv'[l] = conv[l] /\ fd'[l] = fd[l] /\ tmp'[Tar(l)] = tmp[Tar(l)],
             ~ConvStep(l)
      PROVE  TarOK(l)'
  BY <1>3, ReadyMoves, Zenon DEF TarOK
<1>4. (snap[l] = "removed" => snap'[l] = "removed") /\ bad \subseteq bad'
  BY <1>1, SnapMoves, BadKept
<1>5. ASSUME NEW t \in Task, NEW m \in Layer, PrepareBegin(t, m) \/ StartContainer(t, m), ~ConvStep(l)
      PROVE  TarOK(l)'
  BY <1>3, <1>4, <1>5, Zenon DEF PrepareBegin, StartContainer, files
<1>6. ASSUME NEW t \in Task, TaskStep(t), ~ConvStep(l) PROVE TarOK(l)'
  <2>1. conv'[l] \in {"run", "rename", "exit"} => conv'[l] = conv[l]
    BY <1>1, <1>6, CallConv, Zenon
  <2>2. Tar(l) # Target(t)
    BY <1>1, <1>6, OpenPaths, Paths, LayerOfCall, CallStep, Zenon DEF Target, Top, Tar, Disk, Boot
  <2>3. conv[l] \in {"run", "rename", "exit"} => fd[l].path = Tar(l)
    BY <1>1 DEF OpenInv
  <2>4. Elsewhere(t, Target(t)) /\ UNCHANGED boots /\ l # t
    BY <1>1, <1>2, <1>6, CallFiles, Zenon
  <2> QED  BY <1>2, <1>3, <1>4, <1>6, <2>1, <2>2, <2>3, <2>4, Zenon DEF Elsewhere
<1>7. ASSUME NEW m \in Layer, ConvStep(m), m # l, ~ConvStep(l) PROVE TarOK(l)'
  <2>1. conv'[l] = conv[l]
    BY <1>1, <1>7, ConvObjects
  <2>2. Tar(l) # Tar(m)
    BY <1>7, Paths, Zenon DEF OwnBlobs
  <2>3. conv[l] \in {"run", "rename", "exit"} => fd[l].path = Tar(l)
    BY <1>1 DEF OpenInv
  <2>4. Elsewhere(m, Tar(m)) /\ (l \in boots => l \in boots')
    BY <1>1, <1>7, ConvFiles, Zenon
  <2>5. /\ file'[Tar(l)] = file[Tar(l)] /\ tmp'[Tar(l)] = tmp[Tar(l)]
        /\ conv[l] \in {"run", "rename", "exit"} => fd'[l] = fd[l]
    BY <1>2, <1>7, <2>2, <2>3, <2>4, Zenon DEF Elsewhere
  <2> QED  BY <1>3, <1>4, <1>7, <2>1, <2>4, <2>5, Zenon
<1>8. ASSUME NEW m \in Layer, DetachDevices(m) \/ DetachForget(m), ~ConvStep(l) PROVE TarOK(l)'
  <2>1. Tar(l) # Boot(m)
    BY Paths, Zenon
  <2> QED  BY <1>2, <1>3, <1>4, <1>8, <2>1, DirKept, Zenon
<1>9. CASE Crash /\ ~ConvStep(l)
  BY <1>3, <1>4, <1>9, Zenon DEF Crash
<1>10. CASE UNCHANGED vars /\ ~ConvStep(l)
  BY <1>3, <1>4, <1>10, Zenon DEF vars, files
<1>11. ASSUME ConvStep(l), RemoveTmp(l), NEW s, ConvDone(l, s), fd[l].path = Tar(l),
              s = "ready" => conv[l] = "exit", s \in {"ready", "failed"}
       PROVE  TarOK(l)'
  <2>1. UNCHANGED <<file, boots>>
    BY <1>1, <1>2, <1>11, RemoveTmpEffect, Zenon DEF OnlyTmp
  <2>2. UNCHANGED snap
    BY <1>1, <1>11, ConvObjects, Zenon
  <2>3. conv'[l] = "none"
    BY <1>1, <1>11, Zenon DEF ConvDone, TypeOK
  <2> QED  BY <1>4, <2>1, <2>2, <2>3, ReadyMoves, Zenon DEF TarOK
<1>12. CASE ConvOpen(l)
  <2>0. ConvStep(l) /\ conv[l] = "open" /\ UNCHANGED snap
    BY <1>12 DEF ConvStep, ConvOpen
  <2>1. CASE Create(l, Tar(l)) /\ conv' = [conv EXCEPT ![l] = "run"] /\ UNCHANGED objects
    <3>1. conv'[l] = "run" /\ (Ready(l)' => Ready(l)) /\ UNCHANGED <<file, boots>>
      BY <1>1, <2>1, Zenon DEF TypeOK, objects, Ready, Create
    <3>2. fd'[l].at = "tmp" /\ tmp'[Tar(l)].last = l
      BY <1>1, <1>2, <2>1, CreateEffect, Zenon
    <3> QED  BY <1>4, <2>0, <3>1, <3>2, Zenon DEF TarOK
  <2>2. CASE ConvDone(l, "failed") /\ UNCHANGED files
    <3>1. conv'[l] = "none" /\ UNCHANGED <<file, boots>>
      BY <1>1, <2>2, Zenon DEF ConvDone, TypeOK, files
    <3> QED  BY <1>4, <2>0, <3>1, ReadyMoves DEF TarOK
  <2> QED  BY <1>12, <2>1, <2>2 DEF ConvOpen
<1>13. CASE ConvRun(l)
  <2>0. ConvStep(l) /\ conv[l] = "run" /\ UNCHANGED snap /\ fd[l].path = Tar(l)
    BY <1>1, <1>13, Zenon DEF ConvStep, ConvRun, OpenInv
  <2>1. CASE Write(l) /\ conv' = [conv EXCEPT ![l] = "rename"]
    <3>1. conv'[l] = "rename"
      BY <1>1, <2>1 DEF TypeOK
    <3>2. UNCHANGED <<fd, boots, file>> /\ tmp'[Tar(l)].last = l /\ tmp'[Tar(l)].whole /\ fd[l].at = "tmp"
      BY <1>1, <1>2, <2>0, <2>1, WriteEffect, Zenon DEF TarOK
    <3> QED  BY <1>4, <2>0, <3>1, <3>2, ReadyMoves, Zenon DEF TarOK
  <2>2. CASE UNCHANGED files /\ conv' = [conv EXCEPT ![l] = "rename"] /\ bad' = bad \cup {l}
    <3>1. conv'[l] = "rename" /\ l \in bad' /\ UNCHANGED <<fd, boots, tmp, file>>
      BY <1>1, <2>2 DEF TypeOK, files
    <3> QED  BY <1>4, <2>0, <3>1, ReadyMoves, Zenon DEF TarOK
  <2> QED  BY <1>11, <1>13, <2>0, <2>1, <2>2, Zenon DEF ConvRun
<1>14. CASE ConvRename(l)
  <2>0. ConvStep(l) /\ conv[l] = "rename" /\ UNCHANGED snap /\ fd[l].path = Tar(l)
    BY <1>1, <1>14, Zenon DEF ConvStep, ConvRename, OpenInv
  <2>1. CASE /\ Rename(l) /\ conv' = [conv EXCEPT ![l] = "exit"]
             /\ boots' = IF snap[l] = "removed" THEN boots ELSE boots \cup {l}
    <3>1. conv'[l] = "exit"
      BY <1>1, <2>1, Zenon DEF TypeOK
    <3>2. file'[Tar(l)] = tmp[Tar(l)]
      BY <1>1, <1>2, <2>0, <2>1, RenameEffect, Zenon
    <3>3. file'[Tar(l)].last = l /\ (l \in bad \/ file'[Tar(l)].whole) /\ l # None
      BY <2>0, <3>2, ConstAssumption, Zenon DEF TarOK
    <3>4. (l \in bad' \/ file'[Tar(l)].whole) /\ file'[Tar(l)].last # None
      BY <1>4, <3>3, Zenon
    <3> QED  BY <2>0, <2>1, <3>1, <3>4, Zenon DEF TarOK
  <2> QED  BY <1>11, <1>14, <2>0, <2>1, Zenon DEF ConvRename
<1>15. CASE ConvExit(l)
  BY <1>1, <1>11, <1>15, Zenon DEF ConvStep, ConvExit, OpenInv
<1> QED  BY <1>5, <1>6, <1>7, <1>8, <1>9, <1>10, <1>12, <1>13, <1>14, <1>15, Zenon DEF Next, ConvStep

\* While no two layers have the same blob, a layer whose status is ready has a tar file, which
\* is complete unless its digest did not match, and a layer bootstrap: its conversion is the only writer of the temporary
\* file, which is renamed before the epilog sets the status.
THEOREM ReadyLayersHaveFiles == ASSUME OwnBlobs PROVE Spec => []ReadyHasFiles
<1>1. Init => TarInv
  BY DEF Init, TarInv, TarOK, Ready
<1>2. StateInv /\ TarInv /\ [Next]_vars => TarInv'
  BY TarStep, Zenon DEF TarInv
<1>3. TarInv /\ StateInv => ReadyHasFiles
  <2>1. NoFile.last = None
    BY DEF NoFile
  <2> QED  BY <2>1, Zenon DEF TarInv, TarOK, ReadyHasFiles, Ready, StateInv, TypeOK
<1> QED  BY <1>1, <1>2, <1>3, StateInvariant, PTL DEF Spec

\* Calls that are at work are at work on different images.
LEMMA OwnImageStep ==
  ASSUME "merge" \notin Races, StateInv, BootInv, [Next]_vars, NEW t \in Task, NEW u \in Task,
         task'[t].layer # None, task'[t].layer = task'[u].layer
  PROVE  t = u
<1>1. TypeOK /\ JobInv /\ SnapInv
  BY DEF StateInv
<1>2. \A v, w \in Task : task[v].layer # None /\ task[v].layer = task[w].layer => v = w
  BY DEF BootInv
<1>3. ASSUME NEW v \in Task, NEW l \in Layer, PrepareBegin(v, l) \/ StartContainer(v, l)
      PROVE  t = u
  <2>1. SameRest(v) /\ task'[v].layer = l
    BY <1>1, <1>3, BeginEffect, Zenon
  <2>2. \A w \in Task : task[w].layer # l
    <3>1. CASE StartContainer(v, l)
      BY <3>1 DEF StartContainer
    <3>2. CASE PrepareBegin(v, l)
      <4>1. snap[l] = "new"
        BY <3>2 DEF PrepareBegin
      <4>2. \A w \in Task : task[w].layer # None => Preparer(w) \/ Runner(w)
        BY <1>1, Zenon DEF TypeOK, TaskType, JobName, Preparer, Runner
      <4>3. l # None
        BY ConstAssumption
      <4>4. /\ \A w \in Task : Preparer(w) => snap[task[w].layer] = "active"
            /\ \A w \in Task : Runner(w) => snap[task[w].layer] = "committed"
        BY <1>1, Zenon DEF SnapInv
      <4> QED  BY <4>1, <4>2, <4>3, <4>4, Zenon
    <3> QED  BY <1>3, <3>1, <3>2
  <2> QED  BY <1>2, <2>1, <2>2, Zenon DEF SameRest
<1>4. ASSUME NEW v \in Task, TaskStep(v) PROVE t = u
  <2>1. SameRest(v) /\ task'[v].layer \in {task[v].layer, None}
    BY <1>1, <1>4, CallStep DEF Idle
  <2> QED  BY <1>2, <2>1 DEF SameRest
<1>5. ASSUME NEW l \in Layer, ConvStep(l) \/ DetachDevices(l) \/ DetachForget(l) PROVE t = u
  BY <1>2, <1>5, NoCall
<1>6. CASE Crash
  BY <1>6 DEF Crash, Idle
<1>7. CASE UNCHANGED vars
  BY <1>2, <1>7 DEF vars
<1> QED  BY <1>3, <1>4, <1>5, <1>6, <1>7 DEF Next

\* A call merges an image before the other jobs on it, and once.
LEMMA CallMerge ==
  ASSUME TypeOK, JobInv, NEW t \in Task, TaskStep(t), Runner(t), task[t].job # "merge"
  PROVE  task'[t].job # "merge"
<1>0. JobOK(t) /\ task[t].job \in {"image_disk", "mount"}
  BY Zenon DEF JobInv, Runner
<1>1. CASE task'[t] = Idle
  BY <1>1 DEF Idle
<1>2. CASE PrepareMoves(t) \/ RunMoves(t)
  BY <1>0, <1>2, Zenon DEF PrepareMoves, RunMoves, Kept, Starts, Merged, Up, JobOK, Preparing
<1>3. CASE WaitMoves(t) \/ ToolMoves(t)
  BY <1>0, <1>3, Zenon DEF WaitMoves, ToolMoves, Kept, Starts, Merged, Up
<1> QED  BY CallMoves, <1>1, <1>2, <1>3, Zenon

\* A call that merges an image, or works on a merged one, keeps its bootstrap: only this
\* call writes it, and the snapshot is not removed.
LEMMA BootCallStep ==
  ASSUME StateInv, BootInv, [Next]_vars, NEW t \in Task
  PROVE  BootCall(t)'
<1>1. TypeOK /\ JobInv /\ OpenInv /\ SnapInv
  BY DEF StateInv
<1>2. BootCall(t) /\ t \in Writer
  BY Zenon DEF BootInv, Writer
<1>3. Runner(t) => /\ task[t].layer \in Layer /\ Boot(Top(t)) \in Path
                   /\ snap'[task[t].layer] = "committed"
  BY <1>1, HeldLayers, HeldKept, StackFacts, Paths, Zenon DEF Top
<1>4. ASSUME task'[t].layer = task[t].layer, task'[t].job = task[t].job,
             task'[t].pc \in {"running", "rename", "exit"} => task'[t].pc = task[t].pc,
             Runner(t) => file'[Boot(Top(t))] = file[Boot(Top(t))],
             Runner(t) /\ task[t].job = "merge" /\ task[t].pc \in {"running", "rename", "exit"} =>
               tmp'[Boot(Top(t))] = tmp[Boot(Top(t))] /\ fd'[t] = fd[t]
      PROVE  BootCall(t)'
  <2>1. Boot(Top(t))' = Boot(Top(t))
    BY <1>4 DEF Boot, Top
  <2> QED  BY <1>2, <1>4, <2>1, Zenon DEF BootCall, Runner
<1>5. ASSUME ~Runner(t)' PROVE BootCall(t)'
  BY <1>5, Zenon DEF BootCall, Runner
<1>6. ASSUME task'[t].layer = task[t].layer, task'[t].job \in {"image_disk", "mount"}, Runner(t),
             file'[Boot(Top(t))] # NoFile
      PROVE  BootCall(t)'
  <2>1. Boot(Top(t))' = Boot(Top(t))
    BY <1>6 DEF Boot, Top
  <2> QED  BY <1>6, <2>1 DEF BootCall
<1>7. ASSUME NEW v \in Task, NEW l \in Layer, PrepareBegin(v, l) \/ StartContainer(v, l)
      PROVE  BootCall(t)'
  <2>1. SameRest(v) /\ task'[v].pc \in {"hint", "stat"} /\ task'[v].job \in {"none", "merge"}
    BY <1>1, <1>7, BeginEffect
  <2>2. UNCHANGED files
    BY <1>7, Zenon DEF PrepareBegin, StartContainer
  <2>3. CASE v = t
    BY <2>1, <2>3, Zenon DEF BootCall
  <2>4. CASE v # t
    BY <1>4, <2>1, <2>2, <2>4, Zenon DEF SameRest, files
  <2> QED  BY <2>3, <2>4, Zenon
<1>8. ASSUME NEW v \in Task, TaskStep(v), v # t PROVE BootCall(t)'
  <2>1. task'[t] = task[t]
    BY <1>1, <1>8, CallStep DEF SameRest
  <2>2. Elsewhere(v, Target(v))
    BY <1>1, <1>8, CallFiles, Zenon
  <2>3. CASE Runner(t)
    <3>1. task[v].pc # "idle" /\ task[v].layer \in Layer
      BY <1>1, <1>8, LayerOfCall, Zenon
         DEF TaskStep, CheckTarfsHintAnnotation, GetConcurrentLimiter, NewLimiter, Acquire, PrepareLayer,
             BlobStream, MergeStat, GetStatus, WaitLayerReady, RunImageTool, ImageToolEnds,
             ToolRename, ToolExit, MountBegin, AttachLayer, MountErofs
    <3>2. task[v].layer # task[t].layer
      BY <1>3, <1>8, <2>3, <3>1, ConstAssumption, Zenon DEF BootInv
    <3>3. Target(v) # Boot(Top(t))
      BY <1>3, <2>3, <3>1, <3>2, Paths, Zenon DEF Target, Top
    <3>4. task[t].job = "merge" /\ task[t].pc \in {"running", "rename", "exit"} =>
            fd[t].path = Boot(Top(t))
      BY <1>1 DEF OpenInv, Target
    <3> QED  BY <1>2, <1>3, <1>4, <1>8, <2>1, <2>2, <2>3, <3>3, <3>4, Zenon DEF Elsewhere
  <2>4. CASE ~Runner(t)
    BY <1>5, <2>1, <2>4, Zenon DEF Runner
  <2> QED  BY <2>3, <2>4
<1>9. ASSUME NEW l \in Layer, ConvStep(l) PROVE BootCall(t)'
  <2>1. UNCHANGED task
    BY <1>9, NoCall
  <2>2. Elsewhere(l, Tar(l)) /\ t # l
    BY <1>1, <1>9, ConvFiles, ConstAssumption
  <2>3. Runner(t) => Tar(l) # Boot(Top(t))
    BY <1>3, Paths, Zenon DEF Top
  <2>4. task[t].job = "merge" /\ task[t].pc \in {"running", "rename", "exit"} =>
          fd[t].path = Boot(Top(t))
    BY <1>1, Zenon DEF OpenInv, Target
  <2> QED  BY <1>2, <1>3, <1>4, <2>1, <2>2, <2>3, <2>4, Zenon DEF Elsewhere
<1>10. ASSUME NEW l \in Layer, DetachDevices(l) \/ DetachForget(l) PROVE BootCall(t)'
  <2>1. UNCHANGED <<task, tmp, fd>>
    BY <1>10, DirKept, Zenon
  <2>2. Runner(t) => file'[Boot(Top(t))] = file[Boot(Top(t))]
    BY <1>3, <1>10, DirKept DEF Top
  <2> QED  BY <1>4, <2>1, <2>2, Zenon
<1>11. CASE Crash
  BY <1>5, <1>11, Zenon DEF Crash, Idle, Runner
<1>12. CASE UNCHANGED vars
  BY <1>4, <1>12, Zenon DEF vars, files
<1>13. ASSUME TaskStep(t), ~Runner(t) PROVE BootCall(t)'
  BY <1>1, <1>5, <1>13, CallSnap, Zenon
<1>14. ASSUME TaskStep(t), Runner(t) PROVE BootCall(t)'
  <2>1. ASSUME task[t].job # "merge", Runner(t)'
        PROVE  BootCall(t)'
    <3>1. file'[Boot(Top(t))] = file[Boot(Top(t))]
      BY <1>1, <1>3, <1>14, <2>1, CallFiles, Paths, Zenon DEF Elsewhere, Target, Top
    <3>2. file[Boot(Top(t))] # NoFile
      BY <1>2, <1>14, <2>1, Zenon DEF BootCall, Runner
    <3>3. task'[t].layer = task[t].layer /\ task'[t].job \in {"image_disk", "mount"}
      BY <1>1, <1>14, <2>1, CallSnap, CallMerge, Zenon DEF Runner
    <3> QED  BY <1>6, <1>14, <3>1, <3>2, <3>3, Zenon
  <2>2. ASSUME task[t].job = "merge" PROVE BootCall(t)'
    <3>0. Target(t) = Boot(Top(t)) /\ JobOK(t) /\ TypeOK
      BY <1>1, <2>2, Zenon DEF Target, JobInv
    <3>a. ASSUME NEW pc \in {"running", "rename", "exit"}, Goto(t, pc)
          PROVE  task'[t].pc = pc /\ task'[t].job = "merge" /\ Boot(Top(t))' = Boot(Top(t))
      <4>1. pc \in PC
        BY DEF PC
      <4>2. task'[t].pc = pc /\ task'[t].job = task[t].job /\ task'[t].layer = task[t].layer
        BY <3>0, <3>a, <4>1, GotoEffect, Zenon
      <4> QED  BY <2>2, <4>2, Zenon DEF Boot, Top
    <3>b. ASSUME task'[t] = Idle PROVE BootCall(t)'
      <4>1. Idle.job \notin {"merge", "image_disk", "mount"}
        BY DEF Idle
      <4> QED  BY <3>b, <4>1, Zenon DEF BootCall
    <3>c. Top(t) \in Layer /\ Boot(Top(t)) \in Path
      BY <1>3, <1>14, Zenon DEF Top
    <3>1. CASE MergeStat(t)
      <4>1. UNCHANGED files
        BY <3>1, Zenon DEF MergeStat
      <4>2. CASE file[Boot(Top(t))] # NoFile /\ AfterMerge(t)
        BY <1>1, <1>6, <1>14, <4>1, <4>2, AfterMergeEffect, Zenon DEF files
      <4>3. CASE Job(t, "merge", "get", Len(Stack[Top(t)]))
        <5>0. Len(Stack[Top(t)]) \in Nat /\ "get" \in PC /\ "merge" \in JobName
          BY <3>c, StackFacts DEF PC, JobName
        <5>1. task'[t].pc = "get" /\ task'[t].job = "merge"
          BY <3>0, <4>3, <5>0, JobEffect, Zenon
        <5> QED  BY <5>1, Zenon DEF BootCall
      <4> QED  BY <3>1, <4>2, <4>3, Zenon DEF MergeStat
    <3>2. CASE GetStatus(t) \/ WaitLayerReady(t)
      <4>1. task'[t] = Idle \/ (task'[t].job = "merge" /\ task'[t].pc \in {"wait", "get", "run"})
        BY <1>1, <2>2, <3>2, NextLayerEffect, GotoEffect, IdleEffect, Zenon
           DEF GetStatus, WaitLayerReady, PC
      <4> QED  BY <3>b, <4>1, Zenon DEF BootCall
    <3>3. CASE RunImageTool(t)
      <4>1. Create(t, Boot(Top(t))) /\ Goto(t, "running")
        BY <2>2, <3>0, <3>3, Zenon DEF RunImageTool
      <4>2. task'[t].pc = "running" /\ task'[t].job = "merge" /\ Boot(Top(t))' = Boot(Top(t))
        BY <3>a, <4>1
      <4>3. fd'[t].at = "tmp" /\ tmp'[Boot(Top(t))].last = t
        BY <1>2, <3>0, <3>c, <4>1, CreateEffect, Zenon
      <4> QED  BY <4>2, <4>3 DEF BootCall
    <3>4. CASE ImageToolEnds(t)
      <4>1. CASE Write(t) /\ Goto(t, "rename")
        <5>1. task'[t].pc = "rename" /\ task'[t].job = "merge" /\ Boot(Top(t))' = Boot(Top(t))
          BY <3>a, <4>1
        <5>2. fd[t].path = Boot(Top(t)) /\ fd[t].at = "tmp" /\ tmp[Boot(Top(t))].last = t
          BY <1>1, <1>2, <2>2, <3>0, <3>4, Zenon DEF ImageToolEnds, OpenInv, BootCall
        <5>3. UNCHANGED fd /\ tmp'[Boot(Top(t))].last = t /\ tmp'[Boot(Top(t))].whole
          BY <1>2, <3>0, <3>c, <4>1, <5>2, WriteEffect, Zenon
        <5> QED  BY <5>1, <5>2, <5>3, Zenon DEF BootCall
      <4>2. CASE ToIdle(t)
        BY <3>0, <3>b, <4>2, IdleEffect, Zenon
      <4> QED  BY <3>4, <4>1, <4>2, Zenon DEF ImageToolEnds
    <3>5. CASE ToolRename(t)
      <4>1. CASE Rename(t) /\ Goto(t, "exit")
        <5>1. task'[t].pc = "exit" /\ task'[t].job = "merge" /\ Boot(Top(t))' = Boot(Top(t))
          BY <3>a, <4>1
        <5>2. fd[t].path = Boot(Top(t))
          BY <1>1, <3>0, <3>5, Zenon DEF ToolRename, OpenInv
        <5>3. file'[Boot(Top(t))] # NoFile
          <6>1. t \in Writer /\ fd[t].path \in Path /\ Rename(t)
            BY <1>2, <3>c, <4>1, <5>2, Zenon
          <6>2. tmp[fd[t].path] # NoFile /\ file'[fd[t].path] = tmp[fd[t].path]
            BY <3>0, <6>1, RenameEffect, Zenon
          <6> QED  BY <5>2, <6>2, Zenon
        <5> QED  BY <5>1, <5>3, Zenon DEF BootCall
      <4>2. CASE ToIdle(t)
        BY <3>0, <3>b, <4>2, IdleEffect
      <4> QED  BY <3>5, <4>1, <4>2, Zenon DEF ToolRename
    <3>6. CASE ToolExit(t)
      <4>1. UNCHANGED file /\ file[Boot(Top(t))] # NoFile
        BY <1>2, <2>2, <3>6, Zenon DEF ToolExit, RemoveTmp, BootCall
      <4> QED  BY <1>1, <1>6, <1>14, <2>2, <3>6, <4>1, AfterRunEffect, Zenon DEF ToolExit
    <3> QED  BY <1>14, <2>2, <3>0, <3>1, <3>2, <3>3, <3>4, <3>5, <3>6, Zenon DEF TaskStep, JobOK, Preparing,
             CheckTarfsHintAnnotation, GetConcurrentLimiter, NewLimiter, Acquire, PrepareLayer,
             BlobStream, MountBegin, AttachLayer, MountErofs
  <2> QED  BY <1>5, <2>1, <2>2
<1> QED  BY <1>7, <1>8, <1>9, <1>10, <1>11, <1>12, <1>13, <1>14 DEF Next

\* The bootstrap of an image appears complete, and is there while the image is mounted.
LEMMA BootFileStep ==
  ASSUME StateInv, BootInv, [Next]_vars, NEW l \in Layer
  PROVE  BootFile(l)'
<1>1. TypeOK /\ JobInv /\ OpenInv /\ SnapInv /\ ConvInv /\ MountInv /\ TypeOK'
  BY TypeStep DEF StateInv
<1>2. BootFile(l) /\ Boot(l) \in Path /\ ~NoFile.whole
  BY Paths, Zenon DEF BootInv, NoFile
<1>3. \/ file'[Boot(l)] = file[Boot(l)] \/ file'[Boot(l)].whole
      \/ file'[Boot(l)] = NoFile /\ snap'[l] = "removed"
  <2>1. ASSUME NEW t \in Task, NEW m \in Layer, PrepareBegin(t, m) \/ StartContainer(t, m)
        PROVE  UNCHANGED file
    BY <2>1 DEF PrepareBegin, StartContainer, files
  <2>2. ASSUME NEW t \in Task, TaskStep(t)
        PROVE  file'[Boot(l)] = file[Boot(l)] \/ file'[Boot(l)].whole
    <3>1. CASE Target(t) # Boot(l)
      BY <1>1, <1>2, <2>2, <3>1, CallFiles, Zenon DEF Elsewhere
    <3>2. CASE Target(t) = Boot(l) /\ UNCHANGED file
      BY <3>2
    <3>3. CASE Target(t) = Boot(l) /\ (ImageToolEnds(t) \/ ToolRename(t))
      <4>1. task[t].pc \in {"running", "rename"} /\ task[t].layer \in Layer /\ t \in Writer
        BY <1>1, <3>3, LayerOfCall, Zenon DEF ImageToolEnds, ToolRename, Writer
      <4>2. task[t].job = "merge" /\ Top(t) = l
        BY <3>3, <4>1, Paths, Zenon DEF Target, Top
      <4>3. BootCall(t) /\ fd[t].path = Boot(l)
        BY <1>1, <3>3, <4>1, Zenon DEF BootInv, OpenInv
      <4>4. CASE Write(t)
        BY <1>1, <1>2, <4>1, <4>2, <4>3, <4>4, WriteEffect, Zenon DEF BootCall
      <4>5. CASE Rename(t) /\ task[t].pc = "rename"
        BY <1>1, <1>2, <4>1, <4>2, <4>3, <4>5, RenameEffect, Zenon DEF BootCall
      <4> QED  BY <3>3, <4>4, <4>5, Zenon DEF ImageToolEnds, ToolRename, RemoveTmp
    <3> QED  BY <1>1, <2>2, <3>1, <3>2, <3>3, QuietCall, Zenon DEF files, Create, ToolExit, RemoveTmp
  <2>3. ASSUME NEW m \in Layer, ConvStep(m) PROVE file'[Boot(l)] = file[Boot(l)]
    BY <1>1, <1>2, <2>3, ConvFiles, Paths, Zenon DEF Elsewhere
  <2>4. ASSUME NEW m \in Layer, DetachDevices(m) \/ DetachForget(m)
        PROVE  \/ file'[Boot(l)] = file[Boot(l)]
               \/ file'[Boot(l)] = NoFile /\ snap'[l] = "removed"
    <3>1. CASE snap'[l] # "removed"
      BY <2>4, <3>1, DirKept
    <3>2. file' = file \/ file' = [file EXCEPT ![Boot(m)] = NoFile]
      BY <2>4, Zenon DEF DetachDevices, DetachForget, RemoveDir, files
    <3> QED  BY <1>1, <1>2, <3>1, <3>2, Zenon DEF TypeOK
  <2>5. CASE Crash \/ UNCHANGED vars
    BY <2>5, Zenon DEF Crash, vars, files
  <2> QED  BY <2>1, <2>2, <2>3, <2>4, <2>5 DEF Next
<1>4. file'[Boot(l)] # NoFile => file'[Boot(l)].whole
  BY <1>2, <1>3, Zenon DEF BootFile
<1>5. ASSUME l \in present', st'[l].mnt, snap'[l] # "removed" PROVE file'[Boot(l)] # NoFile
  <2>1. snap[l] # "removed"
    BY <1>1, <1>5, SnapMoves
  <2>2. ASSUME NEW t \in Task, MountErofs(t), l = Top(t) PROVE file[Boot(l)] # NoFile
    BY <1>1, <2>2, Zenon DEF BootInv, BootCall, JobInv, JobOK, MountErofs
  <2>3. file[Boot(l)] # NoFile
    BY <1>1, <1>2, <1>5, <2>1, <2>2, MountMoves, Zenon DEF BootFile
  <2> QED  BY <1>2, <1>3, <1>5, <2>3, Zenon
<1> QED  BY <1>4, <1>5 DEF BootFile

\* While an image is not started twice at a time, one that is mounted has a complete
\* merged bootstrap, each of its layers is ready, and each with data is attached.
THEOREM MountedImagesComplete == ASSUME "merge" \notin Races PROVE Spec => []MountedComplete
<1>1. Init => BootInv
  <2> SUFFICES ASSUME Init PROVE BootInv
    OBVIOUS
  <2>1. \A t \in Task : task[t].layer = None /\ task[t].job = "none"
    BY DEF Init, Idle
  <2>2. \A l \in Layer : file[Boot(l)] = NoFile /\ l \notin present
    BY Paths, Zenon DEF Init
  <2> QED  BY <2>1, <2>2 DEF BootInv, BootCall, BootFile
<1>2. StateInv /\ BootInv /\ [Next]_vars => BootInv'
  BY OwnImageStep, BootCallStep, BootFileStep, Zenon DEF BootInv
<1>3. StateInv /\ BootInv => MountedComplete
  BY DEF StateInv, TypeOK, MountInv, MountedOK, Attached, BootInv, BootFile, MountedComplete
<1> QED  BY <1>1, <1>2, <1>3, StateInvariant, PTL DEF Spec
================================================================================
