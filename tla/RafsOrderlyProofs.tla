------------------------- MODULE RafsOrderlyProofs -------------------------
(***************************************************************************)
(* Proofs about RafsLifecycle, second part: the inductive invariant of the *)
(* reference counts and the records, and the steps inside a call.          *)
(***************************************************************************)
EXTENDS RafsCallProofs

Alive == {"up", "closing", "closed"}
Unmounting == {"undb", "unmount", "unref", "delete", "drop", "kill"}
Destroying == {"delete", "drop", "kill"}

\* No two calls are at work on one snapshot.
OneCall == \A t, u \in Actor : thread[t].s # None /\ thread[t].s = thread[u].s => t = u

\* Where the instance of a call is: in the cache of its daemon from AddRafsInstance to
\* RemoveRafsInstance, and in no cache after that.
HoldsOK(t) ==
  /\ thread[t].pc = "lookup" /\ rafs[thread[t].s] \in daemons =>
       thread[t].s \in insts[rafs[thread[t].s]]
  /\ thread[t].pc \in {"mount", "persist", "umount", "ready"} => thread[t].s \in insts[thread[t].d]
  /\ thread[t].pc \in Unmounting /\ thread[t].s # None => \A x \in Daemon : thread[t].s \notin insts[x]

\* A Mount, and its rollback, has no record yet; an Umount was asked for.
NewOK(t) ==
  /\ thread[t].pc \in {"daemon", "config"} => rafs[thread[t].s] = "new"
  /\ thread[t].pc \in {"mount", "persist"} \/ thread[t].rollback => dbInst[thread[t].s] = None
  /\ t \in Thread /\ ~MountSide(t) /\ thread[t].pc # "idle" => asked[thread[t].s] > 0

\* The daemon of a Mount is there; a daemon being destroyed has no instance, and is the
\* shared one only when Close stops it.
TargetOK(t) ==
  /\ thread[t].pc = "config" => thread[t].d \in daemons /\ (mode.shared => thread[t].d = shared)
  /\ thread[t].pc \in Destroying =>
       insts[thread[t].d] = {} /\ (thread[t].s = None <=> thread[t].d = shared)
  /\ thread[t].pc \in {"drop", "kill"} => thread[t].d \notin daemons

CallOK(t) == HoldsOK(t) /\ NewOK(t) /\ TargetOK(t)

\* Where the instance of a snapshot is, in the caches and on record.
CacheOK(s) ==
  /\ \A d \in Daemon : s \in insts[d] => rafs[s] = d /\ d \in daemons
  /\ phase = "up" /\ ~Busy(s) /\ asked[s] = 0 /\ rafs[s] \in daemons => s \in insts[rafs[s]]
  /\ s \in todo /\ rafs[s] \in daemons => s \in insts[rafs[s]]
  /\ asked[s] > 0 => s \in gone
  /\ phase # "down" /\ rafs[s] \in {"new", None} => dbInst[s] = None

\* A record names the daemon that holds the instance, unless it is about to be deleted
\* or names a daemon that no longer exists and that nobody is at work on.
RecordOK(s) ==
  dbInst[s] # None /\ phase \in Alive =>
    \/ s \in insts[dbInst[s]]
    \/ \E u \in Actor : thread[u].s = s /\ thread[u].pc = "undb"
    \/ dbInst[s] \notin daemons /\ \A u \in Actor : thread[u].d # dbInst[s]

\* The shared daemon is in the cache until Close destroys it.
SharedOK ==
  /\ ~mode.shared => shared = None
  /\ phase = "down" => shared = None
  /\ shared # None => \/ shared \in daemons
                      \/ /\ thread[Closer].pc \in {"drop", "kill"}
                         /\ thread[Closer].d = shared /\ thread[Closer].s = None

\* The cache of daemons is the database, and the references are counted.
RefOK ==
  /\ phase \in Booting \cup {"down"} => ref = [d \in Daemon |-> 0] /\ insts = [d \in Daemon |-> {}]
  /\ phase = "down" => daemons = {}
  /\ phase \in Booting => daemons = {shared}
  /\ phase # "down" => daemons = dbDaemons
  /\ phase \in Alive => \A d \in daemons : ref[d] = Cardinality(insts[d]) + IF shared = d THEN 1 ELSE 0

OrderlyOK ==
  /\ OneCall /\ SharedOK /\ RefOK
  /\ \A t \in Actor : CallOK(t)
  /\ \A s \in Snap : CacheOK(s) /\ RecordOK(s)
  /\ NoDanglingInstance
OrderlyInv == Orderly => OrderlyOK

-----------------------------------------------------------------------------
(* The steps inside a call.                                                *)

\* What a step inside a call does to the daemons and their caches.
NewInsts(t) ==
  \/ UNCHANGED <<insts, ref>>
  \/ /\ thread[t].pc = "config" /\ rafs'[thread[t].s] = thread[t].d
     /\ insts' = [insts EXCEPT ![thread[t].d] = @ \cup {thread[t].s}]
     /\ ref' = [ref EXCEPT ![thread[t].d] = @ + 1]
  \/ /\ thread[t].pc = "umount"
     /\ insts' = [insts EXCEPT ![thread[t].d] = @ \ {thread[t].s}]
     /\ ref' = [ref EXCEPT ![thread[t].d] = @ - 1]
NewDaemons(t) ==
  \/ UNCHANGED <<daemons, dbDaemons>>
  \/ /\ thread[t].pc = "daemon" /\ ~mode.shared /\ thread'[t].d \in Daemon /\ Fresh(thread'[t].d)
     /\ daemons' = daemons \cup {thread'[t].d} /\ dbDaemons' = dbDaemons \cup {thread'[t].d}
  \/ /\ thread[t].pc = "delete"
     /\ daemons' = daemons \ {thread[t].d} /\ dbDaemons' = dbDaemons \ {thread[t].d}
NewShared(t) ==
  \/ shared' = shared
  \/ thread[t].pc = "kill" /\ thread[t].s = None /\ shared' = None

\* The step of a call changes the memory of the manager in these ways only.
LEMMA CallMemory ==
  ASSUME Counting, TypeOK, NEW t \in Actor, ShapeOK(t), TargetOK(t),
         (t \in Thread /\ (Mount(t) \/ ReadyUpdate(t))) \/ Umount(t)
  PROVE  NewInsts(t) /\ NewDaemons(t) /\ NewShared(t)
<1>a. UNCHANGED <<insts, ref>> => NewInsts(t)
  BY Zenon DEF NewInsts
<1>b. UNCHANGED <<daemons, dbDaemons>> => NewDaemons(t)
  BY Zenon DEF NewDaemons
<1>c. shared' = shared => NewShared(t)
  BY Zenon DEF NewShared
<1>1. CASE Mount(t) \/ ReadyUpdate(t)
  <2>1. \/ MountDaemonDoes(t) \/ MountConfigDoes(t) \/ MountRemoteDoes(t) \/ MountPersistDoes(t)
        \/ ReadyUpdateDoes(t)
    BY <1>1, MountEffect, Zenon DEF Mount
  <2>2. CASE MountDaemonDoes(t)
    <3>1. NewDaemons(t)
      BY <1>b, <2>2 DEF MountDaemonDoes, Takes, Holds, NewDaemons
    <3> QED  BY <1>a, <1>c, <2>2, <3>1 DEF MountDaemonDoes
  <2>3. CASE MountConfigDoes(t)
    <3>1. thread[t].s \in Snap
      BY <2>3, InCall DEF MountConfigDoes
    <3>2. NewInsts(t)
      BY <1>a, <2>3, <3>1 DEF MountConfigDoes, NewInsts, TypeOK
    <3> QED  BY <1>b, <1>c, <2>3, <3>2, Zenon DEF MountConfigDoes
  <2>4. CASE MountRemoteDoes(t) \/ MountPersistDoes(t) \/ ReadyUpdateDoes(t)
    BY <1>a, <1>b, <1>c, <2>4, Zenon DEF MountRemoteDoes, MountPersistDoes, ReadyUpdateDoes
  <2> QED  BY <2>1, <2>2, <2>3, <2>4
<1>2. CASE Umount(t)
  <2>1. \/ UmountLookupDoes(t) \/ UmountInstanceDoes(t) \/ UmountRecordDoes(t) \/ UmountRemoteDoes(t)
        \/ UmountRefDoes(t) \/ DestroyDeleteDoes(t) \/ DestroyInstancesDoes(t) \/ DestroyProcessDoes(t)
    BY <1>2, UmountEffect, Zenon DEF Umount
  <2>2. CASE UmountLookupDoes(t) \/ UmountRecordDoes(t) \/ UmountRemoteDoes(t) \/ UmountRefDoes(t)
    BY <1>a, <1>b, <1>c, <2>2, Zenon
       DEF UmountLookupDoes, UmountRecordDoes, UmountRemoteDoes, UmountRefDoes
  <2>3. CASE UmountInstanceDoes(t)
    BY <1>b, <1>c, <2>3, Zenon DEF UmountInstanceDoes, NewInsts
  <2>4. CASE DestroyDeleteDoes(t)
    BY <1>a, <1>b, <1>c, <2>4, Zenon DEF DestroyDeleteDoes, NewDaemons
  <2>5. CASE DestroyInstancesDoes(t)
    <3>1. thread[t].d \in Daemon /\ insts[thread[t].d] = {}
      BY <2>5, InCall DEF DestroyInstancesDoes, OnDaemon, TargetOK, Destroying
    <3>2. UNCHANGED <<insts, ref>>
      BY <2>5, <3>1 DEF DestroyInstancesDoes, TypeOK, Counting
    <3> QED  BY <1>a, <1>b, <1>c, <2>5, <3>2, Zenon DEF DestroyInstancesDoes
  <2>6. CASE DestroyProcessDoes(t)
    BY <1>a, <1>b, <2>6, Zenon DEF DestroyProcessDoes, NewShared
  <2> QED  BY <2>1, <2>2, <2>3, <2>4, <2>5, <2>6
<1> QED  BY <1>1, <1>2

CallStep(t) == (t \in Thread /\ (Mount(t) \/ ReadyUpdate(t))) \/ Umount(t)
OrderlyState == BaseInv /\ CalmInv /\ Orderly /\ OrderlyOK

\* All of it.
StepData(t) ==
  /\ SameRest(t) /\ thread[t].pc \notin {"idle", "teardown"}
  /\ thread'[t].s \in {thread[t].s, None}
  /\ phase' = phase \/ (t = Closer /\ phase' = "closed" /\ thread'[t] = Idle)
  /\ todo' = todo /\ gone' = gone /\ asked' = asked /\ mode' = mode
  /\ NewDaemon(t) /\ NewCache(t) /\ NewRecord(t)
  /\ NewInsts(t) /\ NewDaemons(t) /\ NewShared(t)

\* The hypothesis of this part includes that of the first.
LEMMA OrderlyIsCalm ==
  ASSUME CalmInv, Orderly
  PROVE  /\ Calm /\ ClosedOK
         /\ \A t \in Actor : ExclusiveOK(t) /\ OwnDaemonOK(t)
         /\ "delete" \notin mode.faults /\ "starting" \notin mode.faults
         /\ "umount_twice" \notin mode.races
<1>1. Calm /\ "delete" \notin mode.faults /\ "starting" \notin mode.faults
      /\ "umount_twice" \notin mode.races
  BY DEF Orderly, Calm
<1> QED  BY <1>1 DEF CalmInv

\* Every step of a call changes only what StepData says.
LEMMA CallStepData ==
  ASSUME OrderlyState, [Next]_vars, NEW t \in Actor, CallStep(t)
  PROVE  StepData(t)
<1>1. Counting /\ TypeOK /\ ShapeOK(t) /\ TargetOK(t)
  BY DEF OrderlyState, OrderlyOK, CallOK, BaseInv
<1>2. Mount(t) \/ ReadyUpdate(t) \/ Umount(t)
  BY DEF CallStep
<1>3. NewInsts(t) /\ NewDaemons(t) /\ NewShared(t)
  BY <1>1, CallMemory DEF CallStep
<1> QED  BY <1>1, <1>2, <1>3, CallForm, CallData, ModeKept DEF StepData

\* Calls that are under way together are calls of containerd, not of Close.
LEMMA Together ==
  ASSUME OrderlyState, NEW t \in Actor, NEW u \in Actor, t # u,
         thread[t].pc # "idle", thread[u].pc # "idle"
  PROVE  /\ t \in Thread /\ u \in Thread /\ phase = "up" /\ thread[Closer] = Idle
         /\ thread[t].s \in Snap /\ thread[u].s \in Snap /\ thread[t].s # thread[u].s
<1>1. BaseInv /\ ClosedOK /\ Actor = Thread \cup {Closer}
  BY OrderlyIsCalm DEF OrderlyState, Actor
<1>2. t \in Thread /\ u \in Thread
  BY <1>1, CallPhase, IdleFields
<1>3. thread[t].s \in Snap /\ thread[u].s \in Snap
  BY <1>1, <1>2, InCall, ConstAssumption DEF BaseInv, ShapeOK
<1> QED  BY <1>1, <1>2, <1>3, CallPhase, ConstAssumption DEF OrderlyState, OrderlyOK, OneCall

\* The shared daemon that a Mount finds is in the cache.
LEMMA SharedThere ==
  ASSUME OrderlyState, NEW t \in Thread, thread[t].pc # "idle", shared \in Daemon
  PROVE  shared \in daemons
<1>1. thread[Closer] = Idle
  BY OrderlyIsCalm, CallPhase DEF OrderlyState, Actor
<1> QED  BY <1>1, IdleFields, ConstAssumption DEF OrderlyState, OrderlyOK, SharedOK

\* A step of one call does not disturb another.
LEMMA OtherCalls ==
  ASSUME OrderlyState, NEW t \in Actor, StepData(t), NEW u \in Actor, u # t
  PROVE  CallOK(u)'
<1>a. /\ thread'[u] = thread[u] /\ CallOK(u) /\ CallOK(t) /\ TypeOK /\ ShapeOK(u) /\ ShapeOK(t)
      /\ thread[t].pc # "idle"
  BY DEF OrderlyState, OrderlyOK, StepData, SameRest, BaseInv
<1>1. CASE thread[u].pc = "idle"
  <2>1. thread[u] = Idle
    BY <1>a, <1>1 DEF ShapeOK
  <2> QED  BY <1>a, <2>1, IdleFields DEF CallOK, HoldsOK, NewOK, TargetOK, Unmounting, Destroying
<1>2. CASE thread[u].pc # "idle"
  <2>1. /\ t \in Thread /\ u \in Thread /\ phase = "up" /\ thread[Closer] = Idle
        /\ thread[t].s \in Snap /\ thread[u].s \in Snap /\ thread[t].s # thread[u].s
    BY <1>a, <1>2, Together
  <2>2. /\ rafs'[thread[u].s] = rafs[thread[u].s] /\ dbInst'[thread[u].s] = dbInst[thread[u].s]
        /\ asked' = asked /\ mode' = mode
    BY <2>1 DEF StepData, NewCache, NewRecord
  <2>3. shared' = shared
    <3>1. thread[t].s # None
      BY <2>1, ConstAssumption
    <3> QED  BY <3>1 DEF StepData, NewShared
  <2>4. \A x \in Daemon : thread[u].s \in insts'[x] <=> thread[u].s \in insts[x]
    BY <1>a, <2>1 DEF StepData, NewInsts, TypeOK
  <2>5. NewOK(u)'
    BY <1>a, <2>2 DEF CallOK, NewOK, MountSide
  <2>6. HoldsOK(u)'
    <3>1. rafs[thread[u].s] \in daemons' => rafs[thread[u].s] \in daemons
      BY <2>1 DEF StepData, NewDaemons, Fresh
    <3>2. thread[u].pc \in {"mount", "persist", "umount", "ready"} => thread[u].d \in Daemon
      BY <1>a DEF ShapeOK, OnDaemon
    <3>3. daemons \subseteq Daemon
      BY <1>a DEF TypeOK
    <3> QED  BY <1>a, <2>2, <2>4, <3>1, <3>2, <3>3 DEF CallOK, HoldsOK
  <2>7. TargetOK(u)'
    <3>1. thread[u].pc \in {"config", "delete", "drop", "kill"} => thread[u].d \in Daemon
      BY <1>a DEF ShapeOK, OnDaemon
    <3>2. ASSUME thread[u].pc = "config" PROVE thread[u].d \in daemons'
      <4>1. ASSUME thread[t].pc = "delete" PROVE thread[t].d # thread[u].d
        <5>1. CASE mode.shared
          BY <1>a, <2>1, <3>2, <4>1, <5>1, ConstAssumption DEF CallOK, TargetOK, Destroying
        <5>2. CASE ~mode.shared
          BY <3>2, <5>2, OrderlyIsCalm DEF OrderlyState, OwnDaemonOK
        <5> QED  BY <5>1, <5>2
      <4>2. thread[u].d \in daemons
        BY <1>a, <3>2 DEF CallOK, TargetOK
      <4> QED  BY <4>1, <4>2 DEF StepData, NewDaemons
    <3>3. ASSUME thread[u].pc \in Destroying PROVE insts'[thread[u].d] = {}
      <4>1. ASSUME thread[t].pc = "config" PROVE thread[t].d # thread[u].d
        <5>1. CASE mode.shared
          BY <1>a, <2>1, <3>3, <4>1, <5>1, ConstAssumption DEF CallOK, TargetOK, Destroying
        <5>2. CASE ~mode.shared
          BY <4>1, <5>2, OrderlyIsCalm DEF OrderlyState, OwnDaemonOK
        <5> QED  BY <5>1, <5>2
      <4>2. insts[thread[u].d] = {} /\ thread[u].d \in Daemon
        BY <1>a, <3>1, <3>3 DEF CallOK, TargetOK, Destroying
      <4> QED  BY <1>a, <4>1, <4>2 DEF StepData, NewInsts, TypeOK
    <3>4. ASSUME thread[u].pc \in {"drop", "kill"} PROVE thread[u].d \notin daemons'
      <4>1. thread[u].d \notin daemons
        BY <1>a, <3>4 DEF CallOK, TargetOK
      <4> QED  BY <4>1 DEF StepData, NewDaemons, Fresh
    <3> QED  BY <1>a, <2>2, <2>3, <3>2, <3>3, <3>4 DEF CallOK, TargetOK
  <2> QED  BY <2>5, <2>6, <2>7 DEF CallOK
<1> QED  BY <1>1, <1>2

\* A step of a call does not disturb another snapshot.
LEMMA OtherSnapshots ==
  ASSUME OrderlyState, NEW t \in Actor, StepData(t), NEW x \in Snap, x # thread[t].s
  PROVE  CacheOK(x)' /\ RecordOK(x)'
<1>a. /\ CacheOK(x) /\ RecordOK(x) /\ CallOK(t) /\ TypeOK /\ ShapeOK(t) /\ BaseInv
      /\ thread[t].pc # "idle" /\ Actor = Thread \cup {Closer}
  BY DEF OrderlyState, OrderlyOK, StepData, SameRest, BaseInv, Actor
<1>b. /\ rafs'[x] = rafs[x] /\ dbInst'[x] = dbInst[x] /\ asked' = asked /\ gone' = gone
      /\ todo' = todo
  BY DEF StepData, NewCache, NewRecord
<1>c. phase \in {"up", "closing"} /\ phase' \in {phase, "closed"}
  BY <1>a, CallPhase, OrderlyIsCalm DEF OrderlyState, StepData
<1>d. \A d \in Daemon : x \in insts'[d] <=> x \in insts[d]
  <2>1. \/ insts' = insts
        \/ insts' = [insts EXCEPT ![thread[t].d] = @ \cup {thread[t].s}]
        \/ insts' = [insts EXCEPT ![thread[t].d] = @ \ {thread[t].s}]
    BY Zenon DEF StepData, NewInsts
  <2>2. insts \in [Daemon -> SUBSET Snap]
    BY <1>a, Zenon DEF TypeOK
  <2> QED  BY <2>1, <2>2
<1>e. \A d \in Daemon : d \in {rafs[x], dbInst[x]} /\ d \in daemons' => d \in daemons
  BY DEF StepData, NewDaemons, Fresh
<1>f. \A d \in Daemon : x \in insts[d] /\ d \in daemons => d \in daemons'
  BY <1>a DEF StepData, NewDaemons, CallOK, TargetOK, Destroying
<1>g. Busy(x)' <=> Busy(x)
  <2>1. thread'[t].s # x /\ \A u \in Actor \ {t} : thread'[u] = thread[u]
    BY ConstAssumption DEF StepData, SameRest
  <2> QED  BY <2>1 DEF Busy
<1>1. CacheOK(x)'
  <2>1. rafs[x] \in daemons' => rafs[x] \in Daemon /\ rafs[x] \in daemons
    BY <1>a, <1>e DEF StepData, NewDaemons, TypeOK
  <2> QED  BY <1>a, <1>b, <1>c, <1>d, <1>f, <1>g, <2>1, Zenon DEF CacheOK
<1>2. RecordOK(x)'
  <2>1. SUFFICES ASSUME dbInst[x] # None PROVE RecordOK(x)'
    BY <1>b DEF RecordOK
  <2>2. dbInst[x] \in Daemon /\ phase \in Alive
    BY <1>a, <1>c, <2>1 DEF TypeOK, Alive
  <2>3. CASE x \in insts[dbInst[x]]
    BY <1>b, <1>d, <2>2, <2>3 DEF RecordOK
  <2>4. CASE \E u \in Actor : thread[u].s = x /\ thread[u].pc = "undb"
    BY <1>b, <2>4 DEF RecordOK, StepData, SameRest
  <2>5. CASE dbInst[x] \notin daemons /\ \A u \in Actor : thread[u].d # dbInst[x]
    <3>1. thread'[t].d # dbInst[x]
      <4>1. CASE thread'[t].d \in {None, thread[t].d}
        BY <2>1, <2>5, <4>1
      <4>2. CASE thread[t].pc = "daemon" /\ shared \in Daemon /\ thread'[t].d = shared
        <5>1. t \in Thread
          BY <1>a, <4>2 DEF ShapeOK, MountPC
        <5> QED  BY <1>a, <2>5, <4>2, <5>1, SharedThere
      <4>3. CASE Fresh(thread'[t].d)
        BY <4>3 DEF Fresh
      <4>4. CASE rafs[thread[t].s] \in daemons /\ thread'[t].d = rafs[thread[t].s]
        BY <2>5, <4>4
      <4> QED  BY <4>1, <4>2, <4>3, <4>4 DEF StepData, NewDaemon
    <3>2. dbInst[x] \notin daemons'
      BY <1>e, <2>2, <2>5
    <3>3. \A u \in Actor : thread'[u].d # dbInst[x]
      BY <2>5, <3>1 DEF StepData, SameRest
    <3> QED  BY <1>b, <3>2, <3>3 DEF RecordOK
  <2> QED  BY <1>a, <2>1, <2>2, <2>3, <2>4, <2>5, Zenon DEF RecordOK
<1> QED  BY <1>1, <1>2

\* What a call knows of its own snapshot.
LEMMA OwnCall ==
  ASSUME OrderlyState, NEW t \in Actor, thread[t].pc \notin {"idle", "teardown"}
  PROVE  /\ CallOK(t) /\ TypeOK /\ ShapeOK(t)
         /\ t \in Thread => phase = "up" /\ thread[Closer] = Idle /\ t # Closer
         /\ t = Closer => phase = "closing"
         /\ t \in Thread \/ t = Closer
         /\ phase \in Alive /\ thread[t].s \notin todo
         /\ thread[t].s \in Snap => CacheOK(thread[t].s) /\ RecordOK(thread[t].s)
<1>a. /\ CallOK(t) /\ TypeOK /\ ShapeOK(t) /\ BaseInv /\ PhaseOK /\ ClosedOK
      /\ Actor = Thread \cup {Closer}
      /\ thread[t].s \in Snap => CacheOK(thread[t].s) /\ RecordOK(thread[t].s)
  BY OrderlyIsCalm DEF OrderlyState, OrderlyOK, BaseInv, Actor
<1>b. thread[t].pc # "idle"
  OBVIOUS
<1>1. CASE t \in Thread
  <2>1. phase = "up" /\ thread[Closer] = Idle /\ t # Closer
    BY <1>a, <1>b, <1>1, CallPhase, ConstAssumption
  <2>2. todo = {}
    BY <1>a, <2>1 DEF PhaseOK
  <2> QED  BY <1>a, <1>1, <2>1, <2>2 DEF Alive
<1>2. CASE t = Closer
  BY <1>a, <1>b, <1>2, CallPhase, ConstAssumption DEF PhaseOK, Alive
<1> QED  BY <1>a, <1>1, <1>2

\* A call that is over has nothing to promise.
LEMMA EndedOK ==
  ASSUME NEW t \in Actor, Ends(t) \/ UmountEnds(t)
  PROVE  CallOK(t)' /\ thread'[t].s = None /\ thread'[t].d = None
<1>1. thread'[t].pc \in {"idle", "teardown"} /\ thread'[t].s = None /\ thread'[t].d = None
      /\ ~thread'[t].rollback
  BY IdleFields DEF Ends, UmountEnds
<1>2. t = Closer \/ thread'[t].pc = "idle"
  BY IdleFields DEF Ends, UmountEnds
<1> QED  BY <1>1, <1>2, ConstAssumption
         DEF CallOK, HoldsOK, NewOK, TargetOK, Unmounting, Destroying, MountSide

\* The snapshot of an Umount that has left the caches.
LEMMA OwnUmount ==
  ASSUME OrderlyState, NEW t \in Actor, StepData(t), NEW s \in Snap, thread[t].s = s,
         thread[t].pc \in {"unmount", "unref", "delete", "drop", "kill"},
         UmountEnds(t) \/ thread'[t].s = s
  PROVE  CacheOK(s)' /\ RecordOK(s)'
<1>a. /\ CallOK(t) /\ TypeOK /\ ShapeOK(t) /\ CacheOK(s) /\ RecordOK(s)
      /\ phase = "up" => t \in Thread
      /\ phase \in Alive /\ s \notin todo
  BY OwnCall, ConstAssumption DEF StepData
<1>b. \A x \in Daemon : s \notin insts[x]
  BY <1>a, ConstAssumption DEF CallOK, HoldsOK, Unmounting
<1>c. insts' = insts /\ dbInst'[s] = dbInst[s] /\ gone' = gone /\ asked' = asked /\ todo' = todo
  BY DEF StepData, NewInsts, NewRecord
<1>d. rafs'[s] = rafs[s] \/ (thread[t].rollback /\ rafs'[s] = None)
  BY DEF StepData, NewCache
<1>e. daemons' \subseteq daemons /\ thread'[t].d \in {None, thread[t].d}
  BY DEF StepData, NewDaemons, NewDaemon
<1>f. phase' \in {phase, "closed"}
  BY DEF StepData
<1>g. phase' = "up" => phase = "up"
  BY <1>f
<1>h. None \notin daemons /\ thread[t].pc \notin MountPC
  BY <1>a, ConstAssumption DEF TypeOK, MountPC
<1>1. CacheOK(s)'
  <2>1. \A x \in Daemon : s \in insts'[x] => rafs'[s] = x /\ x \in daemons'
    BY <1>b, <1>c
  <2>2. phase' = "up" /\ ~Busy(s)' /\ asked'[s] = 0 => rafs'[s] \notin daemons'
    <3>1. SUFFICES ASSUME phase' = "up", ~Busy(s)', asked'[s] = 0 PROVE rafs'[s] \notin daemons'
      OBVIOUS
    <3>2. UmountEnds(t) /\ t \in Thread
      BY <1>a, <1>g, <3>1 DEF Busy
    <3>3. thread[t].rollback
      BY <1>a, <1>c, <1>h, <3>1, <3>2 DEF CallOK, NewOK, MountSide
    <3>4. rafs'[s] = None
      BY <3>2, <3>3 DEF UmountEnds
    <3> QED  BY <1>e, <1>h, <3>4
  <2>3. s \notin todo' /\ (asked'[s] > 0 => s \in gone')
    BY <1>a, <1>c DEF CacheOK
  <2>4. rafs'[s] \in {"new", None} => dbInst'[s] = None
    <3>1. CASE rafs'[s] = rafs[s]
      BY <1>a, <1>c, <3>1 DEF CacheOK, Alive
    <3>2. CASE thread[t].rollback
      BY <1>a, <1>c, <3>2, Zenon DEF CallOK, NewOK
    <3> QED  BY <1>d, <3>1, <3>2
  <2> QED  BY <2>1, <2>2, <2>3, <2>4 DEF CacheOK
<1>2. RecordOK(s)'
  <2>1. SUFFICES ASSUME dbInst[s] # None PROVE RecordOK(s)'
    BY <1>c DEF RecordOK
  <2>2. dbInst[s] \in Daemon
    BY <1>a, <2>1, Zenon DEF TypeOK
  <2>3. CASE \E u \in Actor : thread[u].s = s /\ thread[u].pc = "undb"
    BY <1>c, <2>3 DEF RecordOK, StepData, SameRest
  <2>4. CASE dbInst[s] \notin daemons /\ \A u \in Actor : thread[u].d # dbInst[s]
    <3>1. \A u \in Actor : thread'[u].d # dbInst[s]
      BY <1>e, <2>1, <2>4 DEF StepData, SameRest
    <3> QED  BY <1>c, <1>e, <2>4, <3>1 DEF RecordOK
  <2> QED  BY <1>a, <1>b, <2>1, <2>2, <2>3, <2>4, Zenon DEF RecordOK
<1> QED  BY <1>1, <1>2

\* While a call is at work on a snapshot.
LEMMA WorkedOn ==
  ASSUME OrderlyState, NEW t \in Actor, StepData(t), NEW s \in Snap, thread[t].s = s,
         thread'[t].s = s,
         \A x \in Daemon : s \in insts'[x] => rafs'[s] = x /\ x \in daemons',
         rafs'[s] \in {"new", None} => dbInst'[s] = None
  PROVE  CacheOK(s)'
<1>1. CacheOK(s) /\ s \notin todo
  BY OwnCall DEF StepData
<1>2. todo' = todo /\ gone' = gone /\ asked' = asked
  BY DEF StepData
<1>3. Busy(s)'
  BY DEF Busy
<1> QED  BY <1>1, <1>2, <1>3 DEF CacheOK

\* A Mount and a WaitUntilReady, and their snapshot.
LEMMA OwnMount ==
  ASSUME OrderlyState, NEW t \in Thread, StepData(t), Mount(t) \/ ReadyUpdate(t),
         NEW s \in Snap, thread[t].s = s
  PROVE  CallOK(t)' /\ CacheOK(s)' /\ RecordOK(s)'
<1> DEFINE d == thread[t].d
<1>a. /\ CallOK(t) /\ TypeOK /\ ShapeOK(t) /\ CacheOK(s) /\ RecordOK(s) /\ t \in Actor
      /\ phase = "up" /\ s \notin todo /\ todo' = todo
      /\ "new" \notin Daemon /\ None \notin Daemon /\ t # Closer /\ mode' = mode
  BY OwnCall, ConstAssumption, Zenon DEF StepData, Actor
<1>b. ASSUME Ends(t), NEW x \in Daemon, s \in insts'[x], UNCHANGED <<rafs, insts, daemons>>,
             dbInst'[s] \in {None, x}
      PROVE  CallOK(t)' /\ CacheOK(s)' /\ RecordOK(s)'
  <2>1. CallOK(t)'
    BY <1>a, <1>b, EndedOK, Zenon
  <2>2. rafs'[s] = x /\ \A y \in Daemon : s \in insts'[y] => rafs'[s] = y /\ y \in daemons'
    BY <1>a, <1>b, Zenon DEF CacheOK
  <2>3. CacheOK(s)'
    BY <1>a, <1>b, <2>2, Zenon DEF CacheOK, StepData
  <2>4. RecordOK(s)'
    BY <1>a, <1>b DEF RecordOK
  <2> QED  BY <2>1, <2>3, <2>4, Zenon
<1>c. ASSUME RollsBack(t), rafs'[s] \in daemons' => s \in insts'[rafs'[s]],
             \A x \in Daemon : s \in insts'[x] => rafs'[s] = x /\ x \in daemons',
             dbInst'[s] = None
      PROVE  CallOK(t)' /\ CacheOK(s)' /\ RecordOK(s)'
  <2>1. thread'[t].pc = "lookup" /\ thread'[t].s = s /\ thread'[t].rollback
    BY <1>c DEF RollsBack, Holds
  <2>2. CallOK(t)'
    BY <1>c, <2>1, Zenon DEF CallOK, HoldsOK, NewOK, TargetOK, MountSide, Unmounting, Destroying
  <2>3. CacheOK(s)'
    BY <1>a, <1>c, <2>1, WorkedOn
  <2> QED  BY <1>c, <2>2, <2>3, Zenon DEF RecordOK
<1>1. \/ MountDaemonDoes(t) \/ MountConfigDoes(t) \/ MountRemoteDoes(t) \/ MountPersistDoes(t)
      \/ ReadyUpdateDoes(t)
  BY <1>a, MountEffect, Zenon DEF Mount
<1>2. ASSUME rafs[s] = "new"
      PROVE  dbInst[s] = None /\ \A x \in Daemon : s \notin insts[x]
  BY <1>a, <1>2, Zenon DEF CacheOK
<1>3. CASE MountDaemonDoes(t)
  <2>1. rafs[s] = "new" /\ UNCHANGED <<rafs, insts, dbInst>>
    BY <1>a, <1>3 DEF MountDaemonDoes, CallOK, NewOK
  <2>2. CASE RollsBack(t)
    BY <1>a, <1>c, <1>2, <2>1, <2>2, Zenon DEF StepData, NewDaemons, TypeOK
  <2>3. CASE thread'[t].pc = "config" /\ thread'[t].s = s /\ thread'[t].d \in daemons'
             /\ (mode.shared => thread'[t].d = shared') /\ thread'[t].rollback = thread[t].rollback
    <3>1. MountSide(t)'
      BY <2>3 DEF MountSide, MountPC
    <3>2. CallOK(t)'
      BY <1>a, <1>2, <2>1, <2>3, <3>1, Zenon DEF CallOK, HoldsOK, NewOK, TargetOK, Unmounting, Destroying
    <3>3. CacheOK(s)'
      BY <1>a, <1>2, <2>1, <2>3, WorkedOn, Zenon
    <3> QED  BY <1>2, <2>1, <3>2, <3>3 DEF RecordOK
  <2>4. shared \in Daemon => shared \in daemons
    BY <1>3, SharedThere, Zenon DEF MountDaemonDoes
  <2> QED  BY <1>3, <2>2, <2>3, <2>4, Zenon DEF MountDaemonDoes, Takes, Holds
<1>4. CASE MountConfigDoes(t)
  <2>1. /\ rafs[s] = "new" /\ UNCHANGED <<daemons, dbInst>> /\ d \in daemons /\ d \in Daemon
    BY <1>a, <1>4, Zenon DEF MountConfigDoes, CallOK, NewOK, TargetOK, ShapeOK, OnDaemon
  <2>2. CASE RollsBack(t) /\ UNCHANGED <<insts, ref, rafs>>
    BY <1>a, <1>c, <1>2, <2>1, <2>2 DEF TypeOK
  <2>3. CASE /\ Moves(t, "mount") \/ RollsBack(t)
             /\ insts' = [insts EXCEPT ![d] = @ \cup {s}]
             /\ rafs' = [rafs EXCEPT ![s] = d]
    <3>1. /\ rafs'[s] = d /\ s \in insts'[d] /\ dbInst'[s] = None /\ d \in daemons'
          /\ \A x \in Daemon : s \in insts'[x] => x = d
      BY <1>a, <1>2, <2>1, <2>3, Zenon DEF TypeOK
    <3>2. CASE RollsBack(t)
      BY <1>c, <3>1, <3>2, Zenon
    <3>3. CASE Moves(t, "mount")
      <4>1. thread'[t].pc = "mount" /\ thread'[t].s = s /\ thread'[t].d = d
        BY <3>3 DEF Moves, Holds
      <4>2. MountSide(t)'
        BY <4>1 DEF MountSide, MountPC
      <4>3. CallOK(t)'
        BY <3>1, <4>1, <4>2, Zenon DEF CallOK, HoldsOK, NewOK, TargetOK, Unmounting, Destroying
      <4>4. CacheOK(s)'
        BY <1>a, <3>1, <4>1, WorkedOn, Zenon
      <4> QED  BY <3>1, <4>3, <4>4 DEF RecordOK
    <3> QED  BY <2>3, <3>2, <3>3
  <2> QED  BY <1>4, <2>2, <2>3, Zenon DEF MountConfigDoes
<1>5. ASSUME thread[t].pc \in {"mount", "persist", "ready"}
      PROVE  /\ d \in Daemon /\ s \in insts[d] /\ rafs[s] = d
             /\ thread[t].pc # "ready" => dbInst[s] = None
             /\ \A y \in Daemon : s \in insts[y] => rafs[s] = y /\ y \in daemons
  BY <1>a, <1>5 DEF CallOK, HoldsOK, NewOK, ShapeOK, OnDaemon, CacheOK
<1>6. CASE MountRemoteDoes(t)
  <2>1. UNCHANGED <<rafs, insts, daemons, dbInst>> /\ thread[t].pc = "mount"
    BY <1>6, Zenon DEF MountRemoteDoes
  <2>2. CASE Ends(t)
    BY <1>b, <1>5, <2>1, <2>2, Zenon
  <2>3. CASE Moves(t, "persist")
    <3>1. thread'[t].pc = "persist" /\ thread'[t].s = s /\ thread'[t].d = d
      BY <2>3 DEF Moves, Holds
    <3>2. MountSide(t)'
      BY <3>1 DEF MountSide, MountPC
    <3>3. CallOK(t)'
      BY <1>5, <2>1, <3>1, <3>2, Zenon DEF CallOK, HoldsOK, NewOK, TargetOK, Unmounting, Destroying
    <3>4. CacheOK(s)'
      BY <1>a, <1>5, <2>1, <3>1, WorkedOn
    <3> QED  BY <1>5, <2>1, <3>3, <3>4, Zenon DEF RecordOK
  <2> QED  BY <1>6, <2>2, <2>3, Zenon DEF MountRemoteDoes
<1>7. CASE MountPersistDoes(t) \/ ReadyUpdateDoes(t)
  <2>1. UNCHANGED <<rafs, insts, daemons>> /\ thread[t].pc \in {"persist", "ready"}
    BY <1>7, Zenon DEF MountPersistDoes, ReadyUpdateDoes
  <2>2. CASE Ends(t) /\ dbInst' = [dbInst EXCEPT ![s] = d]
    BY <1>a, <1>b, <1>5, <2>1, <2>2 DEF TypeOK
  <2>3. CASE RollsBack(t) /\ UNCHANGED dbInst /\ thread[t].pc = "persist"
    BY <1>c, <1>5, <2>1, <2>3, Zenon
  <2> QED  BY <1>7, <2>2, <2>3, Zenon DEF MountPersistDoes, ReadyUpdateDoes
<1> QED  BY <1>1, <1>3, <1>4, <1>6, <1>7, Zenon

\* A daemon without references has no instance and is not the shared one.
LEMMA Unreferenced ==
  ASSUME OrderlyState, NEW t \in Actor, thread[t].pc = "unref", ref[thread[t].d] = 0
  PROVE  insts[thread[t].d] = {} /\ shared # thread[t].d
<1> DEFINE d == thread[t].d
<1>a. Counting /\ TypeOK /\ ShapeOK(t) /\ RefOK /\ SharedOK /\ phase \in Alive
      /\ (t = Closer \/ thread[Closer] = Idle)
      /\ \A s \in Snap : CacheOK(s)
  BY OwnCall DEF OrderlyState, OrderlyOK, BaseInv
<1>b. d \in Daemon /\ insts[d] \subseteq Snap
  BY <1>a DEF TypeOK, ShapeOK, OnDaemon
<1>1. CASE d \in daemons
  <2>1. 0 = Cardinality(insts[d]) + IF shared = d THEN 1 ELSE 0
    BY <1>a, <1>1 DEF RefOK
  <2> QED  BY <1>a, <1>b, <2>1 DEF Counting
<1>2. CASE d \notin daemons
  <2>1. insts[d] = {}
    BY <1>a, <1>b, <1>2 DEF CacheOK
  <2>2. shared # d
    BY <1>a, <1>b, <1>2, IdleFields, ConstAssumption DEF SharedOK
  <2> QED  BY <2>1, <2>2, Zenon
<1> QED  BY <1>1, <1>2

\* An Umount and its snapshot, up to the end of the record.
LEMMA OwnUmountFirst ==
  ASSUME OrderlyState, NEW t \in Actor, StepData(t), NEW s \in Snap, thread[t].s = s,
         UmountLookupDoes(t) \/ UmountInstanceDoes(t) \/ UmountRecordDoes(t)
  PROVE  CallOK(t)' /\ CacheOK(s)' /\ RecordOK(s)'
<1> DEFINE d == thread[t].d
<1>a. /\ CallOK(t) /\ TypeOK /\ ShapeOK(t) /\ CacheOK(s) /\ RecordOK(s)
      /\ s \notin todo /\ todo' = todo /\ phase \in Alive
      /\ "new" \notin Daemon /\ None \notin Daemon /\ mode' = mode /\ asked' = asked
      /\ gone' = gone
  BY OwnCall, ConstAssumption, Zenon DEF StepData
<1>b. thread[t].pc \in {"lookup", "umount", "undb"}
  BY Zenon DEF UmountLookupDoes, UmountInstanceDoes, UmountRecordDoes
<1>c. ASSUME NEW pc \in {"umount", "undb", "unmount"}, thread'[t].pc = pc, thread'[t].s = s,
             thread'[t].rollback = thread[t].rollback, dbInst'[s] \in {dbInst[s], None}
      PROVE  NewOK(t)' /\ TargetOK(t)'
  <2>1. MountSide(t)' <=> MountSide(t)
    BY <1>b, <1>c, Zenon DEF MountSide, MountPC
  <2> QED  BY <1>a, <1>b, <1>c, <2>1, Zenon DEF CallOK, NewOK, TargetOK, Destroying
<1>1. CASE UmountLookupDoes(t)
  <2>1. UNCHANGED <<insts, daemons, dbInst>> /\ thread[t].pc = "lookup"
    BY <1>1 DEF UmountLookupDoes
  <2>2. CASE rafs[s] \in daemons /\ Takes(t, "umount", rafs[s]) /\ UNCHANGED <<phase, rafs>>
    <3>1. /\ thread'[t].pc = "umount" /\ thread'[t].s = s /\ thread'[t].d = rafs[s]
          /\ thread'[t].rollback = thread[t].rollback
      BY <2>2 DEF Takes, Holds
    <3>2. CallOK(t)'
      <4>1. HoldsOK(t)'
        BY <1>a, <2>1, <2>2, <3>1, Zenon DEF CallOK, HoldsOK, Unmounting
      <4> QED  BY <1>c, <2>1, <3>1, <4>1 DEF CallOK
    <3>3. CacheOK(s)'
      <4>1. rafs[s] \in {"new", None} => dbInst[s] = None
        BY <1>a DEF CacheOK, Alive
      <4>2. \A x \in Daemon : s \in insts[x] => rafs[s] = x /\ x \in daemons
        BY <1>a DEF CacheOK
      <4> QED  BY <2>1, <2>2, <3>1, <4>1, <4>2, WorkedOn, Zenon
    <3>4. RecordOK(s)'
      BY <1>a, <2>1, <2>2, <3>1, Zenon DEF RecordOK, StepData, SameRest
    <3> QED  BY <3>2, <3>3, <3>4
  <2>3. CASE rafs[s] \notin daemons /\ UmountEnds(t)
    <3>1. CallOK(t)' /\ thread'[t].d = None /\ thread'[t].s = None
      BY <2>3, EndedOK
    <3>2. rafs'[s] = rafs[s] \/ (thread[t].rollback /\ rafs'[s] = None)
      BY <2>3 DEF UmountEnds
    <3>3. CacheOK(s)'
      <4>1. \A x \in Daemon : s \notin insts'[x]
        BY <1>a, <2>1, <2>3, Zenon DEF CacheOK
      <4>2. rafs'[s] \notin daemons'
        BY <1>a, <2>1, <2>3, <3>2, Zenon DEF TypeOK
      <4>3. rafs'[s] \in {"new", None} => dbInst'[s] = None
        <5>1. CASE rafs'[s] = rafs[s]
          BY <1>a, <2>1, <5>1, Zenon DEF CacheOK, Alive
        <5>2. CASE thread[t].rollback
          BY <1>a, <2>1, <5>2, Zenon DEF CallOK, NewOK
        <5> QED  BY <3>2, <5>1, <5>2
      <4> QED  BY <1>a, <4>1, <4>2, <4>3, Zenon DEF CacheOK
    <3>4. RecordOK(s)'
      BY <1>a, <2>1, <3>1, Zenon DEF RecordOK, StepData, SameRest
    <3> QED  BY <3>1, <3>3, <3>4, Zenon
  <2> QED  BY <1>1, <2>2, <2>3 DEF UmountLookupDoes
<1>2. CASE UmountInstanceDoes(t)
  <2>1. /\ thread[t].pc = "umount" /\ UNCHANGED <<rafs, daemons, dbInst, phase>>
        /\ thread'[t].pc = "undb" /\ thread'[t].s = s /\ thread'[t].rollback = thread[t].rollback
        /\ insts' = [insts EXCEPT ![d] = @ \ {s}]
    BY <1>2, Zenon DEF UmountInstanceDoes, Moves, Holds
  <2>2. d \in Daemon /\ s \in insts[d]
    BY <1>a, <2>1, Zenon DEF CallOK, HoldsOK, ShapeOK, OnDaemon
  <2>3. \A x \in Daemon : s \notin insts'[x]
    <3>1. \A x \in Daemon : s \in insts[x] => x = d
      BY <1>a, <2>2, Zenon DEF CacheOK
    <3> QED  BY <1>a, <2>1, <2>2, <3>1, Zenon DEF TypeOK
  <2>4. CallOK(t)'
    <3>1. HoldsOK(t)'
      BY <2>1, <2>3 DEF HoldsOK
    <3> QED  BY <1>c, <2>1, <3>1, Zenon DEF CallOK
  <2>5. CacheOK(s)'
    <3>1. rafs[s] \in {"new", None} => dbInst[s] = None
      BY <1>a DEF CacheOK, Alive
    <3> QED  BY <2>1, <2>3, <3>1, WorkedOn
  <2>6. RecordOK(s)'
    BY <2>1 DEF RecordOK
  <2> QED  BY <2>4, <2>5, <2>6
<1>3. CASE UmountRecordDoes(t)
  <2>1. "delete" \notin mode.faults
    BY OrderlyIsCalm DEF OrderlyState
  <2>2. /\ thread[t].pc = "undb" /\ UNCHANGED <<rafs, insts, daemons, phase>>
        /\ thread'[t].pc = "unmount" /\ thread'[t].s = s /\ thread'[t].rollback = thread[t].rollback
        /\ dbInst' = [dbInst EXCEPT ![s] = None]
    BY <1>3, <2>1 DEF UmountRecordDoes, Moves, Holds
  <2>3. dbInst'[s] = None /\ \A x \in Daemon : s \notin insts'[x]
    <3>1. dbInst'[s] = None
      BY <1>a, <2>2 DEF TypeOK
    <3>2. \A x \in Daemon : s \notin insts[x]
      BY <1>a, <2>2, ConstAssumption, Zenon DEF CallOK, HoldsOK, Unmounting
    <3> QED  BY <2>2, <3>1, <3>2, Zenon
  <2>4. CallOK(t)'
    <3>1. HoldsOK(t)'
      BY <2>2, <2>3, Zenon DEF HoldsOK
    <3> QED  BY <1>c, <2>2, <2>3, <3>1, Zenon DEF CallOK
  <2>5. CacheOK(s)'
    BY <2>2, <2>3, WorkedOn
  <2> QED  BY <2>3, <2>4, <2>5 DEF RecordOK
<1> QED  BY <1>1, <1>2, <1>3

\* The rest of an Umount, and DestroyDaemon.
LEMMA OwnUmountLast ==
  ASSUME OrderlyState, NEW t \in Actor, StepData(t),
         \/ UmountRemoteDoes(t) \/ UmountRefDoes(t)
         \/ DestroyDeleteDoes(t) \/ DestroyInstancesDoes(t) \/ DestroyProcessDoes(t)
  PROVE  /\ CallOK(t)'
         /\ \A s \in Snap : thread[t].s = s => CacheOK(s)' /\ RecordOK(s)'
<1> DEFINE d == thread[t].d
<1>a. /\ CallOK(t) /\ TypeOK /\ ShapeOK(t) /\ mode' = mode /\ asked' = asked
      /\ "delete" \notin mode.faults
  BY OwnCall, OrderlyIsCalm, Zenon DEF StepData, OrderlyState
<1>b. thread[t].pc \in {"unmount", "unref", "delete", "drop", "kill"} /\ d \in Daemon
  BY <1>a, Zenon DEF UmountRemoteDoes, UmountRefDoes, DestroyDeleteDoes, DestroyInstancesDoes,
              DestroyProcessDoes, ShapeOK, OnDaemon
<1>c. insts' = insts /\ dbInst' = dbInst
  <2>1. insts' = insts
    BY <1>b, Zenon DEF StepData, NewInsts
  <2> QED  BY <2>1, Zenon DEF UmountRemoteDoes, UmountRefDoes, DestroyDeleteDoes, DestroyInstancesDoes,
                       DestroyProcessDoes
<1>d. ASSUME NEW pc \in {"unref", "delete", "drop", "kill"}, Moves(t, pc)
      PROVE  HoldsOK(t)' /\ NewOK(t)' /\ thread'[t].s = thread[t].s
  <2>1. /\ thread'[t].pc = pc /\ thread'[t].s = thread[t].s
        /\ thread'[t].rollback = thread[t].rollback
    BY <1>d, Zenon DEF Moves, Holds
  <2>2. MountSide(t)' <=> MountSide(t)
    BY <1>b, <1>d, <2>1 DEF MountSide, MountPC
  <2>3. HoldsOK(t)'
    BY <1>a, <1>b, <1>c, <1>d, <2>1, Zenon DEF CallOK, HoldsOK, Unmounting
  <2>4. NewOK(t)'
    BY <1>a, <1>b, <1>c, <1>d, <2>1, <2>2, Zenon DEF CallOK, NewOK
  <2> QED  BY <2>1, <2>3, <2>4, Zenon
<1>1. CASE UmountEnds(t)
  <2>1. CallOK(t)'
    BY <1>1, EndedOK, Zenon
  <2>2. \A s \in Snap : thread[t].s = s => CacheOK(s)' /\ RecordOK(s)'
    BY <1>b, <1>1, OwnUmount, Zenon
  <2> QED  BY <2>1, <2>2
<1>2. ASSUME NEW pc \in {"unref", "delete", "drop", "kill"}, Moves(t, pc), TargetOK(t)'
      PROVE  /\ CallOK(t)'
             /\ \A s \in Snap : thread[t].s = s => CacheOK(s)' /\ RecordOK(s)'
  <2>1. CallOK(t)'
    BY <1>d, <1>2 DEF CallOK
  <2>2. \A s \in Snap : thread[t].s = s => CacheOK(s)' /\ RecordOK(s)'
    BY <1>b, <1>d, <1>2, OwnUmount
  <2> QED  BY <2>1, <2>2
<1>3. CASE UmountRemoteDoes(t)
  <2>1. Moves(t, "unref") => TargetOK(t)'
    BY DEF Moves, Holds, TargetOK, Destroying
  <2> QED  BY <1>1, <1>2, <1>3, <2>1, Zenon DEF UmountRemoteDoes
<1>4. CASE UmountRefDoes(t)
  <2>1. CASE ref[d] = 0 /\ Moves(t, "delete")
    <3>1. insts[d] = {} /\ shared # d /\ shared' = shared /\ thread[t].s # None
      BY <1>a, <1>4, <2>1, Unreferenced, Zenon DEF UmountRefDoes, ShapeOK
    <3>2. TargetOK(t)'
      BY <1>c, <2>1, <3>1, Zenon DEF Moves, Holds, TargetOK, Destroying
    <3> QED  BY <1>2, <2>1, <3>2, Zenon
  <2> QED  BY <1>1, <1>4, <2>1, Zenon DEF UmountRefDoes
<1>5. ASSUME thread[t].pc \in Destroying
      PROVE  insts[d] = {} /\ (thread[t].s = None <=> d = shared)
  BY <1>a, <1>5, Zenon DEF CallOK, TargetOK
<1>6. CASE DestroyDeleteDoes(t)
  <2>1. Moves(t, "drop") /\ shared' = shared /\ daemons' = daemons \ {d} /\ thread[t].pc = "delete"
    BY <1>a, <1>6, Zenon DEF DestroyDeleteDoes
  <2>2. TargetOK(t)'
    BY <1>c, <1>5, <2>1, Zenon DEF Moves, Holds, TargetOK, Destroying
  <2> QED  BY <1>2, <2>1, <2>2, Zenon
<1>7. CASE DestroyInstancesDoes(t)
  <2>1. Moves(t, "kill") /\ UNCHANGED <<shared, daemons>> /\ thread[t].pc = "drop"
    BY <1>7, Zenon DEF DestroyInstancesDoes
  <2>2. d \notin daemons
    BY <1>a, <2>1, Zenon DEF CallOK, TargetOK
  <2>3. TargetOK(t)'
    BY <1>c, <1>5, <2>1, <2>2 DEF Moves, Holds, TargetOK, Destroying
  <2> QED  BY <1>2, <2>1, <2>3, Zenon
<1>8. CASE DestroyProcessDoes(t)
  BY <1>1, <1>8, Zenon DEF DestroyProcessDoes
<1> QED  BY <1>3, <1>4, <1>6, <1>7, <1>8, Zenon

\* The calls and the snapshots after a step of a call.
LEMMA CallsAfterCall ==
  ASSUME OrderlyState, [Next]_vars, NEW t \in Actor, CallStep(t)
  PROVE  /\ StepData(t) /\ OneCall'
         /\ \A u \in Actor : CallOK(u)'
         /\ \A s \in Snap : CacheOK(s)' /\ RecordOK(s)'
<1>a. StepData(t)
  BY CallStepData
<1>b. TypeOK /\ ShapeOK(t) /\ OneCall
  BY DEF OrderlyState, OrderlyOK, BaseInv
<1>1. OneCall'
  BY <1>a, <1>b DEF OneCall, StepData, SameRest
<1>2. CallOK(t)' /\ \A s \in Snap : thread[t].s = s => CacheOK(s)' /\ RecordOK(s)'
  <2>1. CASE t \in Thread /\ (Mount(t) \/ ReadyUpdate(t))
    <3>1. thread[t].s \in Snap
      <4>1. thread[t].pc \in MountPC
        BY <2>1 DEF Mount, MountDaemon, MountConfig, MountRemote, MountPersist, ReadyUpdate, MountPC
      <4> QED  BY <1>b, <4>1, InCall DEF MountPC
    <3> QED  BY <1>a, <2>1, <3>1, OwnMount
  <2>2. CASE Umount(t)
    <3>1. \/ UmountLookupDoes(t) \/ UmountInstanceDoes(t) \/ UmountRecordDoes(t) \/ UmountRemoteDoes(t)
          \/ UmountRefDoes(t) \/ DestroyDeleteDoes(t) \/ DestroyInstancesDoes(t) \/ DestroyProcessDoes(t)
      BY <1>b, <2>2, UmountEffect, Zenon DEF Umount
    <3>2. CASE UmountLookupDoes(t) \/ UmountInstanceDoes(t) \/ UmountRecordDoes(t)
      <4>1. thread[t].s \in Snap
        BY <1>b, <3>2, InCall, Zenon DEF UmountLookupDoes, UmountInstanceDoes, UmountRecordDoes
      <4> QED  BY <1>a, <3>2, <4>1, OwnUmountFirst
    <3> QED  BY <1>a, <3>1, <3>2, OwnUmountLast
  <2> QED  BY <2>1, <2>2 DEF CallStep
<1>3. \A u \in Actor \ {t} : CallOK(u)'
  BY <1>a, OtherCalls
<1>4. \A s \in Snap : thread[t].s # s => CacheOK(s)' /\ RecordOK(s)'
  BY <1>a, OtherSnapshots
<1> QED  BY <1>a, <1>1, <1>2, <1>3, <1>4

\* The shared daemon after a step of a call.
LEMMA SharedAfterCall ==
  ASSUME OrderlyState, NEW t \in Actor, StepData(t), CallStep(t)
  PROVE  SharedOK'
<1>a. /\ CallOK(t) /\ TypeOK /\ ShapeOK(t) /\ mode' = mode /\ SharedOK /\ phase' # "down"
      /\ thread[t].pc \notin {"idle", "teardown"}
      /\ "delete" \notin mode.faults
      /\ t # Closer => t \in Thread /\ thread[Closer] = Idle /\ thread'[Closer] = thread[Closer]
  BY OwnCall, OrderlyIsCalm, Zenon DEF StepData, OrderlyState, OrderlyOK, SameRest, Actor, Alive
<1>b. shared' \in {shared, None}
  BY Zenon DEF StepData, NewShared
<1>1. CASE thread[t].s # None
  <2>1. thread[t].pc = "delete" => thread[t].d # shared
    BY <1>a, <1>1 DEF CallOK, TargetOK, Destroying
  <2>2. shared' = shared
    BY <1>1, Zenon DEF StepData, NewShared
  <2>3. shared \in daemons => shared \in daemons'
    BY <2>1 DEF StepData, NewDaemons
  <2>4. shared \in daemons \/ shared = None
    BY <1>a, <1>1, IdleFields DEF SharedOK
  <2> QED  BY <1>a, <2>2, <2>3, <2>4, Zenon DEF SharedOK
<1>2. CASE thread[t].s = None
  <2>1. t = Closer /\ thread[t].pc \in {"delete", "drop", "kill"}
    BY <1>a, <1>2 DEF ShapeOK
  <2>2. \/ UmountLookupDoes(t) \/ UmountInstanceDoes(t) \/ UmountRecordDoes(t) \/ UmountRemoteDoes(t)
        \/ UmountRefDoes(t) \/ DestroyDeleteDoes(t) \/ DestroyInstancesDoes(t) \/ DestroyProcessDoes(t)
    BY <1>a, <2>1, UmountEffect, ConstAssumption, Zenon DEF Umount, CallStep
  <2>3. thread[t].d = shared
    BY <1>a, <1>2, <2>1, Zenon DEF CallOK, TargetOK, Destroying
  <2>4. CASE DestroyDeleteDoes(t)
    BY <1>a, <1>b, <1>2, <2>1, <2>3, <2>4 DEF DestroyDeleteDoes, Moves, Holds, SharedOK
  <2>5. CASE DestroyInstancesDoes(t)
    BY <1>a, <1>b, <1>2, <2>1, <2>3, <2>5, Zenon DEF DestroyInstancesDoes, Moves, Holds, SharedOK
  <2>6. CASE DestroyProcessDoes(t)
    BY <1>a, <1>2, <2>6, Zenon DEF DestroyProcessDoes, SharedOK
  <2>7. DestroyDeleteDoes(t) \/ DestroyInstancesDoes(t) \/ DestroyProcessDoes(t)
    BY <2>1, <2>2, Zenon DEF UmountLookupDoes, UmountInstanceDoes, UmountRecordDoes, UmountRemoteDoes,
                      UmountRefDoes
  <2> QED  BY <2>4, <2>5, <2>6, <2>7, Zenon
<1> QED  BY <1>1, <1>2

\* One instance more, or one less, moves the count of references by one, with or without the
\* reference of the shared daemon.
LEMMA Recount ==
  ASSUME NEW c \in Nat, NEW x, NEW y
  PROVE  /\ (c + IF x = y THEN 1 ELSE 0) + 1 = (c + 1) + IF x = y THEN 1 ELSE 0
         /\ (c + IF x = y THEN 1 ELSE 0) - 1 = (c - 1) + IF x = y THEN 1 ELSE 0
  OBVIOUS

\* The references after a step of a call.
LEMMA RefsAfterCall ==
  ASSUME OrderlyState, NEW t \in Actor, StepData(t)
  PROVE  RefOK'
<1> DEFINE d == thread[t].d
<1> DEFINE s == thread[t].s
<1>a. /\ CallOK(t) /\ TypeOK /\ ShapeOK(t) /\ mode' = mode /\ SharedOK /\ RefOK
      /\ thread[t].pc \notin {"idle", "teardown"} /\ phase \in Alive /\ phase' \in Alive
      /\ \A x \in Snap : CacheOK(x)
  BY OwnCall, Zenon DEF StepData, OrderlyState, OrderlyOK, Alive
<1>b. daemons = dbDaemons
  BY <1>a, Zenon DEF RefOK, Alive
<1>c. daemons' = dbDaemons'
  BY <1>b, Zenon DEF StepData, NewDaemons
<1>d. \A x \in daemons : ref[x] = Cardinality(insts[x]) + IF shared = x THEN 1 ELSE 0
  BY <1>a DEF RefOK
<1>c1. Counting
  BY DEF OrderlyState, BaseInv
<1>e. \A x \in Daemon : insts[x] \in SUBSET Snap /\ Cardinality(insts[x]) \in Nat
  BY <1>a, <1>c1 DEF Counting, TypeOK
<1>1. ASSUME NEW x \in daemons'
      PROVE  ref'[x] = Cardinality(insts'[x]) + IF shared' = x THEN 1 ELSE 0
  <2>1. CASE UNCHANGED <<insts, ref>>
    <3>1. CASE x \in daemons
      <4>1. shared' = x <=> shared = x
        <5>1. CASE shared' = shared
          BY <5>1
        <5>2. CASE thread[t].pc = "kill" /\ thread[t].s = None /\ shared' = None
          <6>1. shared \notin daemons
            BY <1>a, <5>2 DEF CallOK, TargetOK, Destroying
          <6> QED  BY <1>a, <3>1, <5>2, <6>1, ConstAssumption, Zenon DEF TypeOK
        <5> QED  BY <5>1, <5>2 DEF StepData, NewShared
      <4> QED  BY <1>d, <2>1, <3>1, <4>1, Zenon
    <3>2. CASE x \notin daemons
      <4>1. x \in Daemon /\ Fresh(x) /\ ~mode.shared
        BY <1>1, <3>2, Zenon DEF StepData, NewDaemons
      <4>2. shared' = None
        BY <1>a, <4>1 DEF StepData, NewShared, SharedOK
      <4>3. Cardinality({}) = 0
        BY <1>c1 DEF Counting
      <4>4. ref'[x] = 0 /\ insts'[x] = {} /\ shared' # x
        BY <2>1, <4>1, <4>2, ConstAssumption, Zenon DEF Fresh
      <4> QED  BY <4>3, <4>4
    <3> QED  BY <3>1, <3>2
  <2>2. CASE /\ thread[t].pc = "config"
             /\ insts' = [insts EXCEPT ![d] = @ \cup {s}]
             /\ ref' = [ref EXCEPT ![d] = @ + 1]
    <3>1. d \in Daemon /\ s \in Snap /\ s \notin insts[d]
      <4>1. d \in Daemon /\ s \in Snap
        BY <1>a, <2>2, InCall DEF OnDaemon
      <4>2. rafs[s] = "new"
        BY <1>a, <2>2, Zenon DEF CallOK, NewOK
      <4>3. s \in insts[d] => rafs[s] = d
        BY <1>a, <4>1, Zenon DEF CacheOK
      <4>4. "new" \notin Daemon
        BY ConstAssumption, Zenon
      <4> QED  BY <4>1, <4>2, <4>3, <4>4, Zenon
    <3>2. x \in daemons /\ shared' = shared
      BY <1>1, <2>2, Zenon DEF StepData, NewDaemons, NewShared
    <3>3. Cardinality(insts[d] \cup {s}) = Cardinality(insts[d]) + 1
      BY <1>c1, <1>e, <3>1 DEF Counting
    <3>4. x \in Daemon
      BY <1>a, <3>2, Zenon DEF TypeOK
    <3>5. CASE x = d
      <4>1. ref'[x] = ref[x] + 1 /\ insts'[x] = insts[d] \cup {s}
        BY <1>a, <2>2, <3>1, <3>5, Zenon DEF TypeOK
      <4>2. ref[x] = Cardinality(insts[d]) + (IF shared' = x THEN 1 ELSE 0) /\ Cardinality(insts[d]) \in Nat
        BY <1>d, <1>e, <3>2, <3>4, <3>5, Zenon
      <4>3. Cardinality(insts'[x]) = Cardinality(insts[d]) + 1
        BY <3>3, <4>1, Zenon
      <4> HIDE DEF d, s
      <4> QED  BY <4>1, <4>2, <4>3, Recount, Zenon
    <3>6. CASE x # d
      <4>1. ref'[x] = ref[x] /\ insts'[x] = insts[x]
        BY <1>a, <2>2, <3>4, <3>6 DEF TypeOK
      <4> QED  BY <1>d, <3>2, <4>1
    <3> QED  BY <3>5, <3>6
  <2>3. CASE /\ thread[t].pc = "umount"
             /\ insts' = [insts EXCEPT ![d] = @ \ {s}]
             /\ ref' = [ref EXCEPT ![d] = @ - 1]
    <3>1. d \in Daemon /\ s \in insts[d]
      BY <1>a, <2>3, InCall, Zenon DEF OnDaemon, CallOK, HoldsOK
    <3>2. x \in daemons /\ shared' = shared
      BY <1>1, <2>3, Zenon DEF StepData, NewDaemons, NewShared
    <3>3. Cardinality(insts[d] \ {s}) = Cardinality(insts[d]) - 1
      <4>1. insts[d] \ {s} \in SUBSET Snap /\ s \in Snap \ (insts[d] \ {s}) /\ (insts[d] \ {s}) \cup {s} = insts[d]
        BY <1>e, <3>1
      <4>2. Cardinality(insts[d] \ {s}) \in Nat /\ Cardinality(insts[d]) = Cardinality(insts[d] \ {s}) + 1
        BY <1>c1, <4>1, Zenon DEF Counting
      <4> QED  BY <4>2
    <3>4. x \in Daemon
      BY <1>a, <3>2 DEF TypeOK
    <3>5. CASE x = d
      <4>1. ref'[x] = ref[x] - 1 /\ insts'[x] = insts[d] \ {s}
        BY <1>a, <2>3, <3>1, <3>5 DEF TypeOK
      <4>2. ref[x] = Cardinality(insts[d]) + (IF shared' = x THEN 1 ELSE 0) /\ Cardinality(insts[d]) \in Nat
        BY <1>d, <1>e, <3>2, <3>4, <3>5, Zenon
      <4>3. Cardinality(insts'[x]) = Cardinality(insts[d]) - 1
        BY <3>3, <4>1, Zenon
      <4> HIDE DEF d, s
      <4> QED  BY <4>1, <4>2, <4>3, Recount, Zenon
    <3>6. CASE x # d
      <4>1. ref'[x] = ref[x] /\ insts'[x] = insts[x]
        BY <1>a, <2>3, <3>4, <3>6 DEF TypeOK
      <4> QED  BY <1>d, <3>2, <4>1
    <3> QED  BY <3>5, <3>6
  <2> QED  BY <2>1, <2>2, <2>3, Zenon DEF StepData, NewInsts
<1>2. phase' \notin Booting \cup {"down"}
  BY <1>a DEF Alive, Booting
<1> QED  BY <1>c, <1>1, <1>2 DEF RefOK

\* The records after a step of a call.
LEMMA RecordsAfterCall ==
  ASSUME OrderlyState, NEW t \in Actor, StepData(t)
  PROVE  NoDanglingInstance'
<1> DEFINE d == thread[t].d
<1>a. /\ CallOK(t) /\ TypeOK /\ ShapeOK(t) /\ RefOK /\ NoDanglingInstance /\ Orderly
      /\ thread[t].pc \notin {"idle", "teardown"} /\ phase \in Alive /\ gone' = gone
      /\ \A x \in Snap : CacheOK(x) /\ RecordOK(x)
  BY OwnCall, Zenon DEF StepData, OrderlyState, OrderlyOK
<1>b. daemons = dbDaemons
  BY <1>a DEF RefOK, Alive
<1>1. SUFFICES ASSUME NEW s \in Snap, s \notin gone, dbInst'[s] # None
               PROVE  dbInst'[s] \in dbDaemons'
  BY <1>a, Zenon DEF NoDanglingInstance
<1>2. CASE dbInst'[s] = dbInst[s]
  <2>1. dbInst[s] \in dbDaemons /\ dbInst[s] \in Daemon
    BY <1>a, <1>1, <1>2 DEF NoDanglingInstance, TypeOK
  <2>2. CASE thread[t].pc = "delete" /\ dbInst[s] = d
    <3>1. insts[d] = {}
      BY <1>a, <2>2, Zenon DEF CallOK, TargetOK, Destroying
    <3>2. PICK u \in Actor : thread[u].s = s /\ thread[u].pc = "undb"
      BY <1>a, <1>1, <1>2, <2>2, <3>1 DEF RecordOK
    <3>3. u \in Thread /\ CallOK(u) /\ ExclusiveOK(u)
      <4>1. u # t /\ thread[u].pc # "idle" /\ thread[t].pc # "idle"
        BY <2>2, <3>2
      <4>2. u \in Thread
        BY <4>1, Together
      <4> QED  BY <4>2, OrderlyIsCalm DEF OrderlyState, OrderlyOK
    <3>4. ~thread[u].rollback
      BY <1>1, <1>2, <3>2, <3>3, Zenon DEF CallOK, NewOK
    <3> QED  BY <1>1, <3>2, <3>3, <3>4 DEF ExclusiveOK, MountSide, MountPC
  <2>3. CASE ~(thread[t].pc = "delete" /\ dbInst[s] = d)
    <3>1. \/ dbDaemons' = dbDaemons
          \/ dbDaemons' = dbDaemons \cup {thread'[t].d}
          \/ thread[t].pc = "delete" /\ dbDaemons' = dbDaemons \ {d}
      BY Zenon DEF StepData, NewDaemons
    <3> HIDE DEF d
    <3> QED  BY <1>2, <2>1, <2>3, <3>1
  <2> QED  BY <2>2, <2>3
<1>3. CASE s = thread[t].s /\ thread[t].pc \in {"persist", "ready"} /\ dbInst'[s] = d
  <2>1. s \in insts[d] /\ d \in Daemon
    BY <1>a, <1>3 DEF CallOK, HoldsOK, ShapeOK, OnDaemon
  <2>2. d \in dbDaemons
    BY <1>a, <1>b, <2>1, Zenon DEF CacheOK
  <2> QED  BY <1>3, <2>2, Zenon DEF StepData, NewDaemons
<1> QED  BY <1>1, <1>2, <1>3, Zenon DEF StepData, NewRecord
=============================================================================
