------------------------ MODULE RafsLifecycleProofs ------------------------
(***************************************************************************)
(* Proofs about RafsLifecycle, third part: the begin of a call, Close, the *)
(* process; the reference counts, what is destroyed, the records that a    *)
(* recovery finds, and the daemons that nobody uses.                       *)
(***************************************************************************)
EXTENDS RafsOrderlyProofs, FiniteSetTheorems

-----------------------------------------------------------------------------
(* The begin of a call.                                                    *)

\* The begin of a call keeps the invariant.
LEMMA AfterBegin ==
  ASSUME OrderlyState, [Next]_vars, NEW t \in Thread, NEW s \in Snap,
         MountBegin(t, s) \/ UmountBegin(t, s) \/ ReadyBegin(t, s)
  PROVE  OrderlyOK'
<1>a. /\ TypeOK /\ PhaseOK /\ \A u \in Actor : ShapeOK(u) /\ CallOK(u)
      /\ \A x \in Snap : CacheOK(x) /\ RecordOK(x)
      /\ OneCall /\ SharedOK /\ RefOK /\ NoDanglingInstance /\ Calm /\ Orderly
      /\ mode' = mode /\ t \in Actor /\ t # Closer /\ Closer \in Actor
      /\ None \notin Daemon /\ None \notin Snap /\ "new" \notin Daemon
  BY OrderlyIsCalm, ModeKept, ConstAssumption, Zenon DEF OrderlyState, OrderlyOK, BaseInv, Actor
<1>b. MountBeginDoes(t, s) \/ UmountBeginDoes(t, s) \/ ReadyBeginDoes(t, s)
  BY <1>a, BeginEffect
<1>c. /\ UNCHANGED <<insts, ref, daemons, dbDaemons, dbInst, shared, phase, todo>>
      /\ SameRest(t) /\ thread'[t].s = s /\ Serving /\ thread[t].pc = "idle"
      /\ \A x \in Snap \ {s} : rafs'[x] = rafs[x] /\ asked'[x] = asked[x]
      /\ ~thread'[t].rollback
  <2>1. CASE MountBeginDoes(t, s)
    BY <1>a, <2>1 DEF MountBeginDoes, Inside, Holds, TypeOK
  <2>2. CASE UmountBeginDoes(t, s)
    BY <1>a, <2>2, Zenon DEF UmountBeginDoes, Holds, TypeOK
  <2>3. CASE ReadyBeginDoes(t, s)
    BY <1>a, <2>3, Zenon DEF ReadyBeginDoes, Inside, Holds, TypeOK
  <2> QED  BY <1>b, <2>1, <2>2, <2>3
<1>d. phase = "up" /\ todo = {}
  BY <1>a, <1>c, Zenon DEF Serving, Calm, PhaseOK
<1>e. \A u \in Actor : thread[u].s # s
  BY <1>a, <1>b, Zenon DEF MountBeginDoes, UmountBeginDoes, ReadyBeginDoes, Busy, MayUmount, Orderly
<1>f. /\ gone \subseteq gone' /\ asked'[s] \in {asked[s], asked[s] + 1}
      /\ asked'[s] > 0 => s \in gone'
  <2>1. asked[s] > 0 => s \in gone
    BY <1>a DEF CacheOK
  <2>2. CASE UmountBeginDoes(t, s)
    BY <1>a, <2>2 DEF UmountBeginDoes, TypeOK
  <2>3. CASE MountBeginDoes(t, s) \/ ReadyBeginDoes(t, s)
    BY <2>1, <2>3, Zenon DEF MountBeginDoes, ReadyBeginDoes, Inside
  <2> QED  BY <1>b, <2>2, <2>3
<1>g. thread'[Closer] = thread[Closer]
  BY <1>a, <1>c, Zenon DEF SameRest
<1>1. OneCall'
  BY <1>a, <1>c, <1>e DEF OneCall, SameRest
<1>2. SharedOK' /\ RefOK'
  <2>1. SharedOK'
    BY <1>a, <1>c, <1>g DEF SharedOK
  <2>2. RefOK'
    BY <1>a, <1>c, Zenon DEF RefOK
  <2> QED  BY <2>1, <2>2
<1>3. NoDanglingInstance'
  BY <1>a, <1>c, <1>f, Zenon DEF NoDanglingInstance
<1>4. ASSUME NEW u \in Actor, u # t PROVE CallOK(u)'
  <2>1. thread'[u] = thread[u] /\ CallOK(u) /\ ShapeOK(u) /\ thread[u].s # s
    BY <1>a, <1>c, <1>e, <1>4 DEF SameRest
  <2>2. thread[u].s \in Snap \/ thread[u].s = None
    BY <1>a, InCall, Zenon
  <2>3. CASE thread[u].s \in Snap
    <3>1. rafs'[thread[u].s] = rafs[thread[u].s] /\ asked'[thread[u].s] = asked[thread[u].s]
      BY <1>c, <2>1, <2>3
    <3>2. HoldsOK(u)' /\ TargetOK(u)'
      BY <1>a, <1>c, <2>1, <3>1, Zenon DEF CallOK, HoldsOK, TargetOK
    <3>3. NewOK(u)'
      BY <1>a, <1>c, <2>1, <3>1, Zenon DEF CallOK, NewOK, MountSide
    <3> QED  BY <3>2, <3>3 DEF CallOK
  <2>4. CASE thread[u].s = None
    <3>1. thread[u].pc \in {"idle", "teardown", "delete", "drop", "kill"} /\ ~thread[u].rollback
          /\ (u # Closer => thread[u].pc = "idle")
      BY <1>a, <2>1, <2>4, InCall, Zenon DEF ShapeOK
    <3>2. HoldsOK(u)' /\ TargetOK(u)'
      BY <1>a, <1>c, <2>1, <2>4, <3>1, Zenon DEF CallOK, HoldsOK, TargetOK
    <3>3. NewOK(u)'
      BY <2>1, <3>1, ConstAssumption, Zenon DEF NewOK
    <3> QED  BY <3>2, <3>3 DEF CallOK
  <2> QED  BY <2>2, <2>3, <2>4
<1>5. ASSUME asked[s] = 0, rafs[s] \in daemons PROVE s \in insts[rafs[s]]
  BY <1>a, <1>d, <1>e, <1>5, Zenon DEF CacheOK, Busy
<1>6. CallOK(t)'
  <2>1. CASE MountBeginDoes(t, s)
    <3>1. thread'[t].pc = "daemon" /\ rafs'[s] = "new"
      BY <1>a, <2>1, Zenon DEF MountBeginDoes, Holds, TypeOK
    <3> QED  BY <1>c, <3>1, Zenon
             DEF CallOK, HoldsOK, NewOK, TargetOK, Unmounting, Destroying, MountSide, MountPC
  <2>2. CASE UmountBeginDoes(t, s)
    <3>1. thread'[t].pc = "lookup" /\ asked[s] = 0 /\ asked'[s] = 1 /\ rafs' = rafs
      BY <1>a, <2>2 DEF UmountBeginDoes, Holds, TypeOK, MayUmount, Orderly
    <3> QED  BY <1>c, <1>5, <3>1
             DEF CallOK, HoldsOK, NewOK, TargetOK, Unmounting, Destroying, MountSide
  <2>3. CASE ReadyBeginDoes(t, s)
    <3>1. thread'[t].pc = "ready" /\ thread'[t].d = rafs[s] /\ rafs[s] \in daemons
      BY <2>3 DEF ReadyBeginDoes, Holds
    <3>2. asked[s] = 0
      BY <1>a, <2>3 DEF ReadyBeginDoes, CacheOK, TypeOK
    <3> QED  BY <1>c, <1>5, <3>1, <3>2, Zenon
             DEF CallOK, HoldsOK, NewOK, TargetOK, Unmounting, Destroying, MountSide, MountPC
  <2> QED  BY <1>b, <2>1, <2>2, <2>3
<1>7. ASSUME NEW x \in Snap PROVE CacheOK(x)'
  <2>1. CASE x # s
    <3>1. Busy(x)' <=> Busy(x)
      <4>1. thread[t].s = None
        BY <1>a, <1>c, Zenon DEF ShapeOK
      <4> QED  BY <1>a, <1>c, <2>1, <4>1, Zenon DEF Busy, SameRest
    <3>2. rafs'[x] = rafs[x] /\ asked'[x] = asked[x]
      BY <1>c, <2>1, Zenon
    <3> QED  BY <1>a, <1>c, <1>f, <3>1, <3>2, Zenon DEF CacheOK
  <2>2. CASE x = s
    <3>1. Busy(s)'
      BY <1>a, <1>c DEF Busy
    <3>2. rafs'[s] = rafs[s] \/ (rafs[s] = None /\ rafs'[s] = "new")
      BY <1>a, <1>b, Zenon DEF MountBeginDoes, UmountBeginDoes, ReadyBeginDoes, TypeOK
    <3>3. \A d \in Daemon : s \in insts[d] => rafs'[s] = d /\ d \in daemons
      BY <1>a, <3>2, Zenon DEF CacheOK
    <3>4. rafs'[s] \in {"new", None} => dbInst[s] = None
      BY <1>a, <1>d, <3>2 DEF CacheOK
    <3> QED  BY <1>c, <1>d, <1>f, <2>2, <3>1, <3>3, <3>4, Zenon DEF CacheOK
  <2> QED  BY <2>1, <2>2
<1>8. ASSUME NEW x \in Snap PROVE RecordOK(x)'
  <2>1. thread'[t].d = None \/ thread'[t].d \in daemons
    BY <1>b, Zenon DEF MountBeginDoes, UmountBeginDoes, ReadyBeginDoes, Holds
  <2>2. \A u \in Actor : u # t => thread'[u] = thread[u]
    BY <1>c, Zenon DEF SameRest
  <2>3. /\ dbInst' = dbInst /\ phase' = phase /\ insts' = insts /\ daemons' = daemons
        /\ RecordOK(x) /\ thread[t].pc = "idle"
    BY <1>a, <1>c, <1>8, Zenon
  <2>4. SUFFICES ASSUME dbInst[x] # None, phase \in Alive, x \notin insts[dbInst[x]]
                 PROVE  \/ \E u \in Actor : thread'[u].s = x /\ thread'[u].pc = "undb"
                        \/ dbInst[x] \notin daemons /\ \A u \in Actor : thread'[u].d # dbInst[x]
    BY <2>3, Zenon DEF RecordOK
  <2>5. CASE \E u \in Actor : thread[u].s = x /\ thread[u].pc = "undb"
    <3>1. PICK u \in Actor : thread[u].s = x /\ thread[u].pc = "undb"
      BY <2>5, Zenon
    <3>2. u # t
      BY <2>3, <3>1
    <3> QED  BY <2>2, <3>1, <3>2, Zenon
  <2>6. CASE dbInst[x] \notin daemons /\ \A u \in Actor : thread[u].d # dbInst[x]
    <3>1. ASSUME NEW u \in Actor PROVE thread'[u].d # dbInst[x]
      BY <2>1, <2>2, <2>4, <2>6, <3>1, Zenon
    <3> QED  BY <2>6, <3>1, Zenon
  <2> QED  BY <2>3, <2>4, <2>5, <2>6, Zenon DEF RecordOK
<1> QED  BY <1>1, <1>2, <1>3, <1>4, <1>6, <1>7, <1>8 DEF OrderlyOK

-----------------------------------------------------------------------------
(* Close.                                                                  *)

\* Close keeps it.
LEMMA AfterClose ==
  ASSUME OrderlyState, [Next]_vars, Close
  PROVE  OrderlyOK'
<1>a. /\ TypeOK /\ PhaseOK /\ ClosedOK /\ BaseInv /\ CalmInv /\ \A u \in Actor : ShapeOK(u) /\ CallOK(u)
      /\ \A x \in Snap : CacheOK(x) /\ RecordOK(x)
      /\ OneCall /\ SharedOK /\ RefOK /\ NoDanglingInstance /\ Calm /\ Orderly
      /\ mode' = mode /\ Closer \in Actor /\ Actor = Thread \cup {Closer} /\ Closer \notin Thread
      /\ None \notin Daemon /\ None \notin Snap /\ "new" \notin Daemon
  BY OrderlyIsCalm, ModeKept, ConstAssumption, Zenon DEF OrderlyState, OrderlyOK, BaseInv, Actor
<1>b. CloseBeginDoes \/ TryStopDoes \/ \E s \in Snap : TeardownNextDoes(s)
  BY <1>a, CloseEffect DEF Close
<1>c. UNCHANGED <<shared, rafs, daemons, insts, ref, dbDaemons, dbInst, gone, asked>>
  BY <1>b, Zenon DEF CloseBeginDoes, TryStopDoes, TeardownNextDoes, Inside
<1>d. \A u \in Thread : thread[u] = Idle /\ thread'[u] = Idle
  BY <1>a, CloseIdle
<1>e. /\ phase \in {"up", "closing"} /\ phase' \in {"closing", "closed"}
      /\ thread[Closer].pc \in {"idle", "teardown"}
  <2>1. CASE CloseBeginDoes
    BY <1>a, <2>1, IdleFields, Zenon DEF CloseBeginDoes, PhaseOK
  <2>2. ASSUME thread[Closer].pc = "teardown"
        PROVE  phase = "closing"
    BY <1>a, <2>2, CallPhase, Zenon
  <2> QED  BY <1>b, <2>1, <2>2, Zenon DEF TryStopDoes, TeardownNextDoes
<1>f. shared # None => shared \in daemons
  BY <1>a, <1>e DEF SharedOK
<1>1. CallOK(Closer)' /\ (thread'[Closer].d = None \/ thread'[Closer].d \in daemons)
  <2>1. CASE CloseBeginDoes
    BY <1>a, <2>1, Zenon DEF CloseBeginDoes, Holds, CallOK, HoldsOK, NewOK, TargetOK, Unmounting, Destroying
  <2>2. CASE \E s \in Snap : TeardownNextDoes(s)
    <3>1. PICK s \in Snap : TeardownNextDoes(s)
      BY <2>2
    <3>2. s \in todo /\ (rafs[s] \in daemons => s \in insts[rafs[s]])
      BY <1>a, <3>1, Zenon DEF TeardownNextDoes, CacheOK
    <3> QED  BY <1>a, <1>c, <3>1, <3>2, Zenon
             DEF TeardownNextDoes, Holds, CallOK, HoldsOK, NewOK, TargetOK, Unmounting, Destroying
  <2>3. CASE TryStopDoes /\ Ends(Closer)
    BY <1>a, <2>3, EndedOK, Zenon
  <2>4. CASE shared \in Daemon /\ ref[shared] = 1 /\ Holds(Closer, "delete", None, shared, FALSE)
    <3>1. shared \in daemons /\ insts[shared] \in SUBSET Snap
      BY <1>a, <1>f, <2>4 DEF TypeOK
    <3>2. 1 = Cardinality(insts[shared]) + 1
      BY <1>a, <1>e, <2>4, <3>1 DEF RefOK, Alive
    <3>3. insts[shared] = {}
      BY <1>a, <3>1, <3>2 DEF BaseInv, Counting
    <3> QED  BY <1>a, <1>c, <2>4, <3>1, <3>3, Zenon
             DEF Holds, CallOK, HoldsOK, NewOK, TargetOK, Unmounting, Destroying
  <2> QED  BY <1>b, <2>1, <2>2, <2>3, <2>4, Zenon DEF TryStopDoes
<1>2. ASSUME NEW u \in Thread PROVE CallOK(u)'
  BY <1>d, IdleFields DEF CallOK, HoldsOK, NewOK, TargetOK, Unmounting, Destroying
<1>3. OneCall'
  BY <1>a, <1>d, IdleFields DEF OneCall
<1>4. SharedOK'
  BY <1>a, <1>c, <1>e, <1>f DEF SharedOK
<1>5. RefOK'
  <2>1. phase \in Alive /\ phase' \in Alive /\ phase' \notin Booting \cup {"down"} /\ phase # "down"
    BY <1>e DEF Alive, Booting
  <2> QED  BY <1>a, <1>c, <2>1 DEF RefOK
<1>6. NoDanglingInstance'
  BY <1>a, <1>c DEF NoDanglingInstance
<1>7. ASSUME NEW x \in Snap PROVE CacheOK(x)'
  <2>1. x \in todo' /\ rafs[x] \in daemons => x \in insts[rafs[x]]
    <3>1. CASE CloseBeginDoes
      <4>1. ASSUME x \in todo' PROVE \E d \in daemons : x \in insts[d]
        BY <3>1, <4>1, Zenon DEF CloseBeginDoes
      <4> QED  BY <1>a, <4>1 DEF CacheOK, TypeOK
    <3>2. CASE TryStopDoes \/ \E s \in Snap : TeardownNextDoes(s)
      <4>1. todo' \subseteq todo
        BY <3>2, Zenon DEF TryStopDoes, TeardownNextDoes, Inside
      <4> QED  BY <1>a, <4>1 DEF CacheOK
    <3> QED  BY <1>b, <3>1, <3>2
  <2>2. CacheOK(x) /\ phase' # "up" /\ phase # "down"
    BY <1>a, <1>e, Zenon
  <2> QED  BY <1>c, <2>1, <2>2, Zenon DEF CacheOK
<1>8. ASSUME NEW x \in Snap PROVE RecordOK(x)'
  <2>1. phase \in Alive /\ \A u \in Actor : thread[u].pc # "undb"
    BY <1>a, <1>d, <1>e, IdleFields DEF Alive
  <2>2. \A u \in Actor : thread'[u].d = None \/ thread'[u].d \in daemons
    BY <1>a, <1>d, <1>1, IdleFields
  <2> QED  BY <1>a, <1>c, <2>1, <2>2 DEF RecordOK
<1>9. \A u \in Actor : CallOK(u)'
  BY <1>a, <1>1, <1>2
<1> QED  BY <1>3, <1>4, <1>5, <1>6, <1>7, <1>8, <1>9 DEF OrderlyOK

-----------------------------------------------------------------------------
(* The process: start, recovery, and its end.                              *)

\* A step that leaves the memory and the records alone.
LEMMA AfterNothing ==
  ASSUME OrderlyOK, UNCHANGED <<phase, shared, rafs, daemons, insts, ref, dbDaemons, dbInst, thread,
                                todo, gone, asked, mode>>
  PROVE  OrderlyOK'
<1>1. OneCall' /\ SharedOK' /\ RefOK'
  BY DEF OrderlyOK, OneCall, SharedOK, RefOK
<1>2. \A t \in Actor : CallOK(t)'
  BY Zenon DEF OrderlyOK, CallOK, HoldsOK, NewOK, TargetOK, MountSide
<1>3. \A s \in Snap : CacheOK(s)'
  BY Zenon DEF OrderlyOK, CacheOK, Busy
<1>4. \A s \in Snap : RecordOK(s)'
  BY DEF OrderlyOK, RecordOK
<1>5. NoDanglingInstance'
  BY DEF OrderlyOK, NoDanglingInstance, Orderly
<1> QED  BY <1>1, <1>2, <1>3, <1>4, <1>5 DEF OrderlyOK

\* Goroutines that do nothing.
LEMMA IdleCalls ==
  ASSUME \A u \in Actor : thread'[u] = Idle
  PROVE  OneCall' /\ \A u \in Actor : CallOK(u)'
<1>1. OneCall'
  BY IdleFields DEF OneCall
<1>2. \A u \in Actor : CallOK(u)'
  BY IdleFields DEF CallOK, HoldsOK, NewOK, TargetOK, Unmounting, Destroying
<1> QED  BY <1>1, <1>2

\* The end of the process.
LEMMA AfterLoss ==
  ASSUME OrderlyState, LoseMemory, phase' = "down", dbInst' = dbInst, gone' = gone, mode' = mode,
         \A s \in Snap : asked'[s] \in {asked[s], 0},
         \A s \in Snap : dbInst[s] \in dbDaemons => dbInst[s] \in dbDaemons'
  PROVE  OrderlyOK'
<1>a. /\ TypeOK /\ NoDanglingInstance /\ Orderly /\ None \notin Daemon
      /\ \A s \in Snap : CacheOK(s)
  BY ConstAssumption DEF OrderlyState, OrderlyOK, BaseInv
<1>b. /\ shared' = None /\ daemons' = {} /\ todo' = {} /\ insts' = [d \in Daemon |-> {}]
      /\ ref' = [d \in Daemon |-> 0] /\ \A u \in Actor : thread'[u] = Idle
  BY DEF LoseMemory
<1>1. SharedOK'
  BY <1>b DEF SharedOK
<1>2. RefOK'
  BY <1>b DEF RefOK, Alive, Booting
<1>3. NoDanglingInstance'
  BY <1>a DEF NoDanglingInstance
<1>4. ASSUME NEW x \in Snap PROVE CacheOK(x)' /\ RecordOK(x)'
  <2>1. CacheOK(x)'
    BY <1>a, <1>b DEF CacheOK
  <2>2. RecordOK(x)'
    BY DEF RecordOK, Alive
  <2> QED  BY <2>1, <2>2
<1> QED  BY <1>b, <1>1, <1>2, <1>3, <1>4, IdleCalls, Zenon DEF OrderlyOK

\* A recovery.
LEMMA AfterRecover ==
  ASSUME OrderlyState, Recover
  PROVE  OrderlyOK'
<1>a. /\ Counting /\ TypeOK /\ PhaseOK /\ NoDanglingInstance /\ Orderly /\ None \notin Daemon
      /\ "new" \notin Daemon /\ \A s \in Snap : CacheOK(s)
      /\ "starting" \notin mode.faults /\ "new" # None
  BY OrderlyIsCalm, ConstAssumption DEF OrderlyState, OrderlyOK, BaseInv
<1>b. RecoverDoes
  BY <1>a, RecoverEffect
<1>c. /\ phase = "down" /\ phase' = "up" /\ rafs' = dbInst /\ daemons' = dbDaemons
      /\ dbDaemons' = dbDaemons /\ dbInst' = dbInst /\ gone' = gone /\ asked' = asked /\ mode' = mode
      /\ thread' = thread /\ todo' = todo
      /\ insts' = [d \in Daemon |-> IF d \in dbDaemons THEN Instances(d) ELSE {}]
      /\ shared' \in dbDaemons \cup {None} /\ (~mode.shared => shared' = None)
  BY <1>a, <1>b DEF RecoverDoes, disk, callers
<1>d. todo = {} /\ \A u \in Actor : thread'[u] = Idle
  BY <1>a, <1>c DEF PhaseOK
<1>e. \A d \in Daemon : ref'[d] = Cardinality(insts'[d]) + IF shared' = d THEN 1 ELSE 0
  BY <1>b, Zenon DEF RecoverDoes
<1>1. SharedOK'
  BY <1>c DEF SharedOK
<1>2. RefOK'
  BY <1>a, <1>c, <1>e, Zenon DEF RefOK, Booting, TypeOK
<1>3. NoDanglingInstance'
  BY <1>a, <1>c, Zenon DEF NoDanglingInstance
<1>4. ASSUME NEW x \in Snap PROVE CacheOK(x)' /\ RecordOK(x)'
  <2>1. \A d \in Daemon : x \in insts'[d] <=> d \in dbDaemons /\ dbInst[x] = d
    BY <1>c DEF Instances
  <2>2. dbInst[x] \in Daemon \cup {None}
    BY <1>a DEF TypeOK
  <2>3. CacheOK(x)'
    <3>1. CacheOK(x)
      BY <1>a
    <3> QED  BY <1>a, <1>c, <1>d, <2>1, <2>2, <3>1 DEF CacheOK, TypeOK
  <2>4. RecordOK(x)'
    BY <1>a, <1>c, <1>d, <2>1, <2>2, IdleFields, Zenon DEF RecordOK, TypeOK
  <2> QED  BY <2>3, <2>4
<1> QED  BY <1>d, <1>1, <1>2, <1>3, <1>4, IdleCalls DEF OrderlyOK

\* The start of the shared daemon.
LEMMA AfterBootDaemon ==
  ASSUME OrderlyState, BootDaemon
  PROVE  OrderlyOK'
<1>a. /\ TypeOK /\ PhaseOK /\ NoDanglingInstance /\ RefOK /\ Orderly /\ None \notin Daemon
      /\ "new" \notin Daemon /\ "new" # None /\ \A s \in Snap : CacheOK(s)
      /\ "starting" \notin mode.faults
  BY OrderlyIsCalm, ConstAssumption DEF OrderlyState, OrderlyOK, BaseInv
<1>b. /\ phase = "down" /\ phase' = "boot_config" /\ mode.shared /\ mode' = mode /\ dbDaemons = {}
      /\ rafs' = dbInst /\ dbInst' = dbInst /\ ref' = ref /\ gone' = gone /\ asked' = asked
      /\ thread' = thread /\ todo' = todo
  BY <1>a DEF BootDaemon, Load, Fail, callers
<1>c. insts' = [d \in Daemon |-> {}]
  BY <1>b DEF BootDaemon, Load
<1>d. shared' \in Daemon /\ daemons' = {shared'} /\ dbDaemons' = {shared'}
  BY <1>b DEF BootDaemon
<1>e. todo = {} /\ (\A u \in Actor : thread'[u] = Idle) /\ ref = [d \in Daemon |-> 0]
  BY <1>a, <1>b DEF PhaseOK, RefOK
<1>1. SharedOK'
  BY <1>b, <1>d DEF SharedOK
<1>2. RefOK'
  BY <1>b, <1>c, <1>d, <1>e DEF RefOK, Alive
<1>3. NoDanglingInstance'
  BY <1>a, <1>b DEF NoDanglingInstance
<1>4. ASSUME NEW x \in Snap PROVE CacheOK(x)' /\ RecordOK(x)'
  <2>1. CacheOK(x) /\ dbInst[x] \in Daemon \cup {None}
    BY <1>a DEF TypeOK
  <2>2. CacheOK(x)'
    BY <1>a, <1>b, <1>c, <1>e, <2>1 DEF CacheOK
  <2>3. RecordOK(x)'
    BY <1>b DEF RecordOK, Alive
  <2> QED  BY <2>2, <2>3
<1> QED  BY <1>e, <1>1, <1>2, <1>3, <1>4, IdleCalls DEF OrderlyOK

\* The steps in which NewFileSystem starts the shared daemon keep it.
LEMMA AfterBoot ==
  ASSUME OrderlyState, BootConfig \/ BootStart
  PROVE  OrderlyOK'
<1>a. /\ TypeOK /\ PhaseOK /\ NoDanglingInstance /\ RefOK /\ SharedOK /\ Orderly /\ None \notin Daemon
      /\ "new" \notin Daemon /\ "new" # None /\ \A s \in Snap : CacheOK(s)
  BY ConstAssumption DEF OrderlyState, OrderlyOK, BaseInv
<1>b. phase \in Booting /\ phase \notin Alive /\ phase # "up" /\ phase # "down"
  BY DEF BootConfig, BootStart, Booting, Alive
<1>c. /\ shared \in Daemon /\ rafs = dbInst /\ \A s \in Snap : dbInst[s] # shared
      /\ todo = {} /\ \A u \in Actor : thread[u] = Idle
  BY <1>a, <1>b DEF PhaseOK, Booting
<1>d. /\ daemons = {shared} /\ daemons = dbDaemons
      /\ ref = [d \in Daemon |-> 0] /\ insts = [d \in Daemon |-> {}]
  BY <1>a, <1>b DEF RefOK
<1>e. dbInst' = dbInst /\ gone' = gone /\ asked' = asked /\ mode' = mode
  BY DEF BootConfig, BootStart, callers
<1>1. CASE LoseMemory /\ phase' = "down" /\ dbDaemons' = dbDaemons \ {shared}
  BY <1>c, <1>e, <1>1, AfterLoss
<1>2. CASE /\ phase' \in {"boot_start", "up"}
           /\ UNCHANGED <<shared, rafs, daemons, insts, thread, todo, dbDaemons>>
           /\ ref' = IF phase' = "up" THEN [ref EXCEPT ![shared] = @ + 1] ELSE ref
  <2>1. SharedOK'
    BY <1>a, <1>b, <1>c, <1>d, <1>e, <1>2 DEF SharedOK
  <2>2. RefOK'
    <3>1. CASE phase' = "boot_start"
      BY <1>d, <1>2, <3>1 DEF RefOK, Alive
    <3>2. CASE phase' = "up"
      <4>1. ref'[shared] = 1 /\ Cardinality(insts'[shared]) = 0
        BY <1>c, <1>d, <1>2, <3>2 DEF OrderlyState, BaseInv, Counting
      <4> QED  BY <1>d, <1>2, <3>2, <4>1 DEF RefOK, Booting
    <3> QED  BY <1>2, <3>1, <3>2
  <2>3. NoDanglingInstance'
    BY <1>a, <1>e, <1>2 DEF NoDanglingInstance
  <2>4. ASSUME NEW x \in Snap PROVE CacheOK(x)' /\ RecordOK(x)'
    <3>1. CacheOK(x) /\ dbInst[x] \in Daemon \cup {None} /\ dbInst[x] # shared
      BY <1>a, <1>c DEF TypeOK
    <3>2. CacheOK(x)'
      BY <1>a, <1>c, <1>d, <1>e, <1>2, <3>1, Zenon DEF CacheOK
    <3>3. RecordOK(x)'
      BY <1>c, <1>d, <1>e, <1>2, <3>1, IdleFields, Zenon DEF RecordOK
    <3> QED  BY <3>2, <3>3
  <2>5. \A u \in Actor : thread'[u] = Idle
    BY <1>c, <1>2
  <2> QED  BY <2>1, <2>2, <2>3, <2>4, <2>5, IdleCalls DEF OrderlyOK
<1>3. CASE BootConfig
  BY <1>1, <1>2, <1>3 DEF BootConfig, BootFails, memory
<1>4. CASE BootStart
  BY <1>1, <1>2, <1>4 DEF BootStart, BootFails
<1> QED  BY <1>3, <1>4

\* The orderly invariant holds after every step.
LEMMA OrderlyStep ==
  ASSUME BaseInv, CalmInv, OrderlyInv, [Next]_vars
  PROVE  OrderlyInv'
<1>1. mode' = mode
  BY ModeKept DEF BaseInv
<1>2. SUFFICES ASSUME Orderly PROVE OrderlyOK'
  BY <1>1 DEF OrderlyInv, Orderly
<1>3. OrderlyState
  BY <1>2 DEF OrderlyState, OrderlyInv
<1>4. CASE UNCHANGED vars \/ LoadRefused \/ NydusdDies
  <2>1. UNCHANGED <<phase, shared, rafs, daemons, insts, ref, dbDaemons, dbInst, thread,
                    todo, gone, asked, mode>>
    BY <1>1, <1>4 DEF LoadRefused, NydusdDies, vars, memory, disk, callers, bounds
  <2> QED  BY <1>3, <2>1, AfterNothing DEF OrderlyState
<1>5. CASE Recover \/ BootDaemon \/ BootConfig \/ BootStart
  BY <1>3, <1>5, AfterRecover, AfterBootDaemon, AfterBoot
<1>6. CASE Exit
  <2>1. /\ LoseMemory /\ phase' = "down" /\ dbInst' = dbInst /\ gone' = gone
        /\ dbDaemons' = dbDaemons /\ \A s \in Snap : asked'[s] \in {asked[s], 0}
    BY <1>6 DEF Exit, disk
  <2> QED  BY <1>1, <1>3, <2>1, AfterLoss
<1>7. CASE Close
  BY <1>3, <1>7, AfterClose
<1>8. CASE \E t \in Thread, s \in Snap : MountBegin(t, s) \/ UmountBegin(t, s) \/ ReadyBegin(t, s)
  BY <1>3, <1>8, AfterBegin
<1>9. ASSUME NEW t \in Actor, CallStep(t) PROVE OrderlyOK'
  BY <1>3, <1>9, CallsAfterCall, SharedAfterCall, RefsAfterCall, RecordsAfterCall DEF OrderlyOK
<1> QED  BY <1>4, <1>5, <1>6, <1>7, <1>8, <1>9 DEF Next, Boot, CallStep, Actor

\* The invariant holds initially.
LEMMA OrderlyInit == Init => OrderlyInv
<1>1. SUFFICES ASSUME Init PROVE OrderlyOK
  BY DEF OrderlyInv
<1>2. /\ phase = "down" /\ shared = None /\ daemons = {} /\ todo = {}
      /\ insts = [d \in Daemon |-> {}] /\ ref = [d \in Daemon |-> 0]
      /\ dbInst = [s \in Snap |-> None] /\ asked = [s \in Snap |-> 0]
      /\ \A t \in Actor : thread[t] = Idle
  BY <1>1 DEF Init
<1>3. OneCall /\ \A t \in Actor : CallOK(t)
  BY <1>2, IdleFields, Zenon DEF OneCall, CallOK, HoldsOK, NewOK, TargetOK, Unmounting, Destroying
<1>4. SharedOK /\ RefOK
  BY <1>2, Zenon DEF SharedOK, RefOK, Alive, Booting
<1>5. \A s \in Snap : CacheOK(s) /\ RecordOK(s)
  BY <1>2 DEF CacheOK, RecordOK
<1> QED  BY <1>2, <1>3, <1>4, <1>5 DEF OrderlyOK, NoDanglingInstance

-----------------------------------------------------------------------------
(* The reachable states.                                                   *)

\* The sets of instances are finite, so they can be counted.
LEMMA InstancesCount == Counting
<1>1. SUFFICES ASSUME NEW S \in SUBSET Snap
               PROVE  /\ Cardinality(S) \in Nat /\ (Cardinality(S) = 0 <=> S = {})
                      /\ \A s \in Snap \ S : Cardinality(S \cup {s}) = Cardinality(S) + 1
  BY DEF Counting
<1>2. IsFiniteSet(S)
  BY ConstAssumption, FS_Subset
<1> QED  BY <1>2, FS_CardinalityType, FS_EmptySet, FS_AddElement

\* In every reachable state a goroutine of RafsLifecycle holds what its step in the
\* code needs, and the state is well typed.
THEOREM TypeCorrect == Spec => []TypeOK
<1>1. Init => BaseInv
  BY BaseInit, InstancesCount
<1>2. BaseInv /\ [Next]_vars => BaseInv'
  BY BaseStep
<1>3. BaseInv => TypeOK
  BY DEF BaseInv
<1> QED  BY <1>1, <1>2, <1>3, PTL DEF Spec

\* Every reachable state of the file system satisfies the invariant.
THEOREM CallInvariant == Spec => []CallInv
<1>1. Init => CallInv
  BY CallInvInit, InstancesCount
<1>2. CallInv /\ [Next]_vars => CallInv'
  BY CallInvStep
<1> QED  BY <1>1, <1>2, PTL DEF Spec

\* As long as no request is served beside Close, an instance on record is mounted by
\* its nydusd while that nydusd lives: Mount writes the record after the mount call,
\* Umount deletes it before the umount call, also when a Remove and a Cleanup unmount
\* the same instance, when calls fail at any step, and across restarts.
THEOREM RecordsAreServed ==
  ASSUME \A m \in Modes : "close" \notin m.races
  PROVE  Spec => []PersistedIsServed
<1>1. CallInv => PersistedIsServed
  <2>1. CallInv => Calm
    BY DEF CallInv, BaseInv, TypeOK, Calm
  <2> QED  BY <2>1, Zenon DEF CallInv, ServedInv, PersistedIsServed
<1> QED  BY <1>1, CallInvariant, PTL

\* In an orderly run the references to a daemon are its instances, a record names the
\* daemon that holds the instance, and each call finds what the code expects.
THEOREM OrderlyInvariant == Spec => [](BaseInv /\ CalmInv /\ OrderlyInv)
<1>1. Init => OrderlyInv
  BY OrderlyInit
<1>2. CallInv /\ OrderlyInv /\ [Next]_vars => OrderlyInv'
  BY OrderlyStep DEF CallInv
<1>3. CallInv /\ OrderlyInv => BaseInv /\ CalmInv /\ OrderlyInv
  BY DEF CallInv
<1> QED  BY <1>1, <1>2, <1>3, CallInvariant, PTL DEF Spec

-----------------------------------------------------------------------------
(* What the runs check.                                                    *)

\* While the snapshotter serves, the count of references to a daemon is the number of
\* its instances, and one more for the shared daemon.
THEOREM ReferencesCounted == Spec => []RefCountExact
<1>1. BaseInv /\ CalmInv /\ OrderlyInv => RefCountExact
  BY DEF OrderlyInv, OrderlyOK, RefOK, Alive, RefCountExact
<1> QED  BY <1>1, OrderlyInvariant, PTL

\* DestroyDaemon is at work only on a daemon that nobody uses.
THEOREM UnusedWhenDestroyed == Spec => []DestroyedUnused
<1>1. ASSUME BaseInv, CalmInv, OrderlyInv, Orderly, NEW t \in Actor,
             thread[t].pc \in {"delete", "drop", "kill"}
      PROVE  /\ insts[thread[t].d] = {}
             /\ \A s \in Instances(thread[t].d) :
                  \E u \in Actor : thread[u].s = s /\ thread[u].pc = "undb"
  <2>1. OrderlyState
    BY <1>1 DEF OrderlyState, OrderlyInv
  <2>2. TargetOK(t) /\ ShapeOK(t) /\ phase \in Alive /\ \A s \in Snap : RecordOK(s)
    BY <1>1, <2>1, OwnCall, Zenon DEF CallOK, OrderlyState, OrderlyOK
  <2>3. insts[thread[t].d] = {} /\ thread[t].d \in Daemon
    BY <1>1, <2>2 DEF TargetOK, Destroying, ShapeOK, OnDaemon
  <2>4. ASSUME NEW s \in Instances(thread[t].d)
        PROVE  \E u \in Actor : thread[u].s = s /\ thread[u].pc = "undb"
    <3>1. s \in Snap /\ dbInst[s] = thread[t].d /\ dbInst[s] # None
      BY <2>3, <2>4, ConstAssumption, Zenon DEF Instances
    <3> QED  BY <1>1, <2>2, <2>3, <3>1, Zenon DEF RecordOK
  <2> QED  BY <2>3, <2>4
<1>2. BaseInv /\ CalmInv /\ OrderlyInv => DestroyedUnused
  BY <1>1, Zenon DEF DestroyedUnused
<1> QED  BY <1>2, OrderlyInvariant, PTL

\* At every moment at which the snapshotter can crash, the instance record of a
\* snapshot that exists names a daemon that is on record.
THEOREM RecoveryFindsDaemons == Spec => []NoDanglingInstance
<1>1. BaseInv /\ CalmInv /\ OrderlyInv => NoDanglingInstance
  BY DEF OrderlyInv, OrderlyOK, NoDanglingInstance
<1> QED  BY <1>1, OrderlyInvariant, PTL

-----------------------------------------------------------------------------
(* The daemons that nobody uses.                                           *)

\* The hypothesis of DaemonsInUse.
Tidy ==
  /\ ~mode.shared /\ Orderly /\ crashes = 0
  /\ "config" \notin mode.faults /\ "mount" \notin mode.faults

\* A dedicated daemon without instances is being set up or taken down, a process without
\* a record is about to be killed, and an instance that no call is at work on is on record.
Watched == {"config", "undb", "unmount", "unref", "delete"}
UseOK ==
  /\ \A d \in procs : \/ d \in dbDaemons
                      \/ \E t \in Actor : thread[t].d = d /\ thread[t].pc \in {"drop", "kill"}
  /\ phase = "down" => \A d \in dbDaemons : Instances(d) # {}
  /\ phase # "down" => \A d \in daemons :
       insts[d] # {} \/ \E t \in Actor : thread[t].d = d /\ thread[t].pc \in Watched
  /\ \A s \in Snap, d \in Daemon : s \in insts[d] /\ ~Busy(s) => dbInst[s] = d
UseInv == Tidy => UseOK

\* What a step of a call does about it.
UseMove(t) ==
  /\ \A d \in procs' : /\ d \in procs \/ (thread[t].pc = "mount" /\ d = thread[t].d)
                       /\ thread[t].pc = "kill" => d # thread[t].d
  /\ thread[t].pc \in {"delete", "drop"} =>
       thread'[t].pc \in {"drop", "kill"} /\ thread'[t].d = thread[t].d
  /\ thread[t].pc \in Watched /\ thread[t].d \in daemons' =>
       insts'[thread[t].d] # {} \/ (thread'[t].d = thread[t].d /\ thread'[t].pc \in Watched)
  /\ thread[t].pc = "umount" => thread'[t].pc = "undb" /\ thread'[t].d = thread[t].d
  /\ \A d \in daemons' \ daemons : thread'[t].pc = "config" /\ thread'[t].d = d
  /\ thread[t].s \in Snap /\ thread'[t].s # thread[t].s =>
       \A d \in Daemon : thread[t].s \in insts'[d] => dbInst'[thread[t].s] = d

\* The steps of Mount and of WaitUntilReady do no more than that.
LEMMA MountUse ==
  ASSUME OrderlyState, Tidy, NEW t \in Thread, StepData(t), Mount(t) \/ ReadyUpdate(t)
  PROVE  UseMove(t)
<1> DEFINE d == thread[t].d
<1> DEFINE s == thread[t].s
<1>a. /\ CallOK(t) /\ TypeOK /\ ShapeOK(t) /\ t \in Actor /\ None \notin Snap
      /\ s \in Snap => CacheOK(s)
  BY OwnCall, ConstAssumption, Zenon DEF StepData, Actor
<1>b. ~mode.shared /\ "config" \notin mode.faults /\ "mount" \notin mode.faults
  BY DEF Tidy
<1>1. \/ MountDaemonDoes(t) \/ MountConfigDoes(t) \/ MountRemoteDoes(t) \/ MountPersistDoes(t)
      \/ ReadyUpdateDoes(t)
  BY <1>a, MountEffect, Zenon DEF Mount
<1>2. CASE MountDaemonDoes(t)
  <2>1. thread[t].pc = "daemon" /\ procs' = procs /\ thread'[t].s = thread[t].s
    BY <1>2, Zenon DEF MountDaemonDoes, Takes, RollsBack, Holds
  <2>2. \A x \in daemons' \ daemons : thread'[t].pc = "config" /\ thread'[t].d = x
    BY <1>2, Zenon DEF MountDaemonDoes, Takes, Holds
  <2> QED  BY <2>1, <2>2, Zenon DEF UseMove, Watched
<1>3. CASE MountConfigDoes(t)
  <2>1. /\ thread[t].pc = "config" /\ procs' = procs /\ daemons' = daemons
        /\ thread'[t].s = thread[t].s /\ insts' = [insts EXCEPT ![d] = @ \cup {s}]
    BY <1>b, <1>3, Zenon DEF MountConfigDoes, Moves, RollsBack, Holds
  <2>2. d \in Daemon
    BY <1>a, <2>1 DEF ShapeOK, OnDaemon
  <2>3. insts'[d] # {}
    BY <1>a, <2>1, <2>2, Zenon DEF TypeOK
  <2> QED  BY <2>1, <2>3, Zenon DEF UseMove
<1>4. ASSUME thread[t].pc \in {"mount", "persist", "ready"}
      PROVE  /\ s \in Snap /\ d \in Daemon /\ s \in insts[d]
             /\ \A x \in Daemon : s \in insts[x] => x = d
  <2>1. s \in Snap /\ d \in Daemon /\ s \in insts[d]
    BY <1>a, <1>4, InCall, Zenon DEF OnDaemon, CallOK, HoldsOK
  <2> QED  BY <1>a, <2>1, Zenon DEF CacheOK
<1>5. CASE MountRemoteDoes(t)
  <2>1. thread[t].pc = "mount" /\ insts[d] # {}
    BY <1>4, <1>5, Zenon DEF MountRemoteDoes
  <2>2. /\ procs' = procs \cup {d} /\ daemons' = daemons /\ thread'[t].s = thread[t].s
    BY <1>b, <1>5, <2>1, Zenon DEF MountRemoteDoes, Moves, Holds
  <2> QED  BY <2>1, <2>2, Zenon DEF UseMove, Watched
<1>6. CASE MountPersistDoes(t) \/ ReadyUpdateDoes(t)
  <2>1. /\ thread[t].pc \in {"persist", "ready"} /\ UNCHANGED <<procs, daemons, insts>>
        /\ \/ thread'[t].s = thread[t].s
           \/ dbInst' = [dbInst EXCEPT ![s] = d]
    BY <1>6, Zenon DEF MountPersistDoes, ReadyUpdateDoes, RollsBack, Holds
  <2>2. dbInst' = [dbInst EXCEPT ![s] = d] => dbInst'[s] = d
    BY <1>a, <1>4, <2>1 DEF TypeOK
  <2> QED  BY <1>4, <2>1, <2>2, Zenon DEF UseMove, Watched
<1> QED  BY <1>1, <1>2, <1>3, <1>5, <1>6

\* Neither do the steps of Umount and of the destruction of a daemon.
LEMMA UmountUse ==
  ASSUME OrderlyState, Tidy, NEW t \in Actor, StepData(t), Umount(t)
  PROVE  UseMove(t)
<1> DEFINE d == thread[t].d
<1> DEFINE s == thread[t].s
<1>a. /\ CallOK(t) /\ TypeOK /\ ShapeOK(t) /\ None \notin Snap /\ RefOK /\ SharedOK
      /\ (s \in Snap => CacheOK(s)) /\ phase \in Alive
  BY OwnCall, ConstAssumption, Zenon DEF StepData, OrderlyState, OrderlyOK
<1>b. ~mode.shared /\ "delete" \notin mode.faults /\ shared = None
  BY <1>a, OrderlyIsCalm, Zenon DEF Tidy, OrderlyState, SharedOK
<1>c. \A x \in daemons' \ daemons : thread[t].pc = "daemon"
  BY Zenon DEF StepData, NewDaemons
<1>1. \/ UmountLookupDoes(t) \/ UmountInstanceDoes(t) \/ UmountRecordDoes(t) \/ UmountRemoteDoes(t)
      \/ UmountRefDoes(t) \/ DestroyDeleteDoes(t) \/ DestroyInstancesDoes(t) \/ DestroyProcessDoes(t)
  BY <1>a, UmountEffect, Zenon DEF Umount
<1>2. CASE UmountLookupDoes(t)
  <2>1. thread[t].pc = "lookup" /\ UNCHANGED <<procs, daemons, insts>>
    BY <1>2, Zenon DEF UmountLookupDoes
  <2>2. thread'[t].s = thread[t].s \/ rafs[s] \notin daemons
    BY <1>2, Zenon DEF UmountLookupDoes, Takes, Holds
  <2>3. s \in Snap /\ rafs[s] \notin daemons => \A x \in Daemon : s \notin insts[x]
    BY <1>a, Zenon DEF CacheOK
  <2> QED  BY <2>1, <2>2, <2>3 DEF UseMove, Watched
<1>3. CASE UmountInstanceDoes(t)
  <2>1. /\ thread[t].pc = "umount" /\ UNCHANGED <<procs, daemons>> /\ thread'[t].s = thread[t].s
        /\ thread'[t].pc = "undb" /\ thread'[t].d = d
    BY <1>3 DEF UmountInstanceDoes, Moves, Holds
  <2> QED  BY <2>1, Zenon DEF UseMove, Watched
<1>4. CASE UmountRecordDoes(t) \/ UmountRemoteDoes(t)
  <2>1. /\ thread[t].pc \in {"undb", "unmount"} /\ UNCHANGED <<procs, daemons>>
        /\ thread'[t].s = thread[t].s /\ thread'[t].pc \in {"unmount", "unref"} /\ thread'[t].d = d
    BY <1>b, <1>4, Zenon DEF UmountRecordDoes, UmountRemoteDoes, Moves, Holds
  <2> QED  BY <2>1, Zenon DEF UseMove, Watched
<1>5. s \in Snap /\ thread[t].pc \in Unmounting => \A x \in Daemon : s \notin insts[x]
  BY <1>a, Zenon DEF CallOK, HoldsOK
<1>6. CASE UmountRefDoes(t)
  <2>1. thread[t].pc = "unref" /\ UNCHANGED <<procs, daemons, insts>> /\ d \in Daemon
    BY <1>a, <1>6, Zenon DEF UmountRefDoes, ShapeOK, OnDaemon
  <2>2. \/ thread'[t].pc = "delete" /\ thread'[t].d = d
        \/ ref[d] # 0
    BY <1>6 DEF UmountRefDoes, Moves, Holds
  <2>3. d \in daemons /\ ref[d] # 0 => insts[d] # {}
    <3>1. d \in daemons => ref[d] = Cardinality(insts[d]) + IF shared = d THEN 1 ELSE 0
      BY <1>a DEF RefOK
    <3>2. shared # d /\ Cardinality({}) = 0
      BY <1>b, <2>1, ConstAssumption DEF OrderlyState, BaseInv, Counting
    <3>3. ASSUME insts[d] = {}, d \in daemons PROVE ref[d] = 0
      BY <3>1, <3>2, <3>3
    <3> QED  BY <3>3
  <2> QED  BY <1>5, <2>1, <2>2, <2>3, Zenon DEF UseMove, Watched, Unmounting
<1>7. CASE DestroyDeleteDoes(t)
  <2>1. /\ thread[t].pc = "delete" /\ procs' = procs /\ daemons' = daemons \ {d}
        /\ thread'[t].s = thread[t].s /\ thread'[t].pc = "drop" /\ thread'[t].d = d
    BY <1>b, <1>7, Zenon DEF DestroyDeleteDoes, Moves, Holds
  <2> QED  BY <2>1, Zenon DEF UseMove
<1>8. CASE DestroyInstancesDoes(t)
  <2>1. /\ thread[t].pc = "drop" /\ procs' = procs /\ daemons' = daemons
        /\ thread'[t].s = thread[t].s /\ thread'[t].pc = "kill" /\ thread'[t].d = d
    BY <1>8, Zenon DEF DestroyInstancesDoes, Moves, Holds
  <2> QED  BY <2>1, Zenon DEF UseMove, Watched
<1>9. CASE DestroyProcessDoes(t)
  <2>1. thread[t].pc = "kill" /\ procs' = procs \ {d} /\ daemons' = daemons /\ insts' = insts
    BY <1>9 DEF DestroyProcessDoes
  <2> QED  BY <1>5, <2>1, Zenon DEF UseMove, Watched, Unmounting
<1> QED  BY <1>1, <1>2, <1>3, <1>4, <1>6, <1>7, <1>8, <1>9, Zenon

\* A step of a call keeps UseOK.
LEMMA UseAfterCall ==
  ASSUME OrderlyState, Tidy, UseOK, NEW t \in Actor, StepData(t), UseMove(t)
  PROVE  UseOK'
<1> DEFINE d == thread[t].d
<1> DEFINE s == thread[t].s
<1>a. /\ CallOK(t) /\ TypeOK /\ ShapeOK(t) /\ RefOK /\ phase \in Alive /\ phase' \in Alive
      /\ \A x \in Snap : CacheOK(x)
  BY OwnCall, Zenon DEF StepData, OrderlyState, OrderlyOK, Alive
<1>b. /\ \A u \in Actor \ {t} : thread'[u] = thread[u]
      /\ NewInsts(t) /\ NewRecord(t)
  BY Zenon DEF StepData, SameRest
<1>d. insts \in [Daemon -> SUBSET Snap]
  BY <1>a DEF TypeOK
<1>c. phase # "down" /\ phase' # "down" /\ daemons = dbDaemons /\ daemons' = dbDaemons'
  <2>1. phase # "down" /\ phase' # "down" /\ daemons = dbDaemons
    BY <1>a DEF Alive, RefOK
  <2> QED  BY <2>1, Zenon DEF StepData, NewDaemons
<1>1. ASSUME NEW x \in procs'
      PROVE  \/ x \in dbDaemons'
             \/ \E u \in Actor : thread'[u].d = x /\ thread'[u].pc \in {"drop", "kill"}
  <2>1. CASE thread[t].pc = "mount" /\ x = d
    <3>1. d \in Daemon /\ s \in Snap /\ s \in insts[d]
      BY <1>a, <2>1, InCall, Zenon DEF OnDaemon, CallOK, HoldsOK
    <3>2. d \in daemons
      BY <1>a, <3>1, Zenon DEF CacheOK
    <3> QED  BY <1>c, <2>1, <3>2, Zenon DEF StepData, NewDaemons
  <2>2. CASE x \in procs
    <3>1. CASE x \in dbDaemons
      <4>1. x \in dbDaemons' \/ (thread[t].pc = "delete" /\ x = d)
        BY <3>1, Zenon DEF StepData, NewDaemons
      <4> QED  BY <4>1, Zenon DEF UseMove
    <3>2. CASE \E u \in Actor : thread[u].d = x /\ thread[u].pc \in {"drop", "kill"}
      <4>1. PICK u \in Actor : thread[u].d = x /\ thread[u].pc \in {"drop", "kill"}
        BY <3>2
      <4>2. CASE u # t
        BY <1>b, <4>1, <4>2
      <4>3. CASE u = t
        BY <1>1, <4>1, <4>3, Zenon DEF UseMove
      <4> QED  BY <4>2, <4>3
    <3> QED  BY <2>2, <3>1, <3>2, Zenon DEF UseOK
  <2> QED  BY <1>1, <2>1, <2>2, Zenon DEF UseMove
<1>2. ASSUME NEW x \in daemons'
      PROVE  insts'[x] # {} \/ \E u \in Actor : thread'[u].d = x /\ thread'[u].pc \in Watched
  <2>1. CASE x \notin daemons
    BY <1>2, <2>1 DEF UseMove, Watched
  <2>2. CASE x \in daemons
    <3>1. x \in Daemon
      BY <1>a, <2>2 DEF TypeOK
    <3>2. CASE insts[x] # {}
      <4>1. insts'[x] # {} \/ (thread[t].pc = "umount" /\ x = d)
        BY <1>b, <1>d, <3>1, <3>2 DEF NewInsts
      <4> QED  BY <4>1, Zenon DEF UseMove, Watched
    <3>3. CASE \E u \in Actor : thread[u].d = x /\ thread[u].pc \in Watched
      <4>1. PICK u \in Actor : thread[u].d = x /\ thread[u].pc \in Watched
        BY <3>3
      <4>2. CASE u # t
        BY <1>b, <4>1, <4>2, Zenon
      <4>3. CASE u = t
        BY <1>2, <4>1, <4>3 DEF UseMove
      <4> QED  BY <4>2, <4>3
    <3> QED  BY <1>c, <2>2, <3>2, <3>3, Zenon DEF UseOK
  <2> QED  BY <2>1, <2>2, Zenon
<1>3. ASSUME NEW x \in Snap, NEW y \in Daemon, x \in insts'[y], ~Busy(x)'
      PROVE  dbInst'[x] = y
  <2>1. \A u \in Actor : thread'[u].s # x
    BY <1>3 DEF Busy
  <2>2. CASE x = s
    BY <1>3, <2>1, <2>2, Zenon DEF UseMove
  <2>3. CASE x # s
    <3>1. x \in insts[y] /\ dbInst'[x] = dbInst[x]
      <4>1. dbInst'[x] = dbInst[x]
        BY <1>b, <1>3, <2>3, Zenon DEF NewRecord
      <4>2. x \in insts[y]
        <5>1. \/ insts' = insts
              \/ insts' = [insts EXCEPT ![d] = @ \cup {s}] \/ insts' = [insts EXCEPT ![d] = @ \ {s}]
          BY <1>b, Zenon DEF NewInsts
        <5> QED  BY <1>d, <1>3, <2>3, <5>1
      <4> QED  BY <4>1, <4>2
    <3>2. ~Busy(x)
      BY <1>b, <2>1, <2>3, Zenon DEF Busy
    <3> QED  BY <3>1, <3>2, Zenon DEF UseOK
  <2> QED  BY <2>2, <2>3
<1> QED  BY <1>c, <1>1, <1>2, <1>3, Zenon DEF UseOK

\* So does the begin of a call.
LEMMA UseAfterBegin ==
  ASSUME OrderlyState, UseOK, NEW t \in Thread, NEW s \in Snap,
         MountBegin(t, s) \/ UmountBegin(t, s) \/ ReadyBegin(t, s)
  PROVE  UseOK'
<1>a. TypeOK /\ t \in Actor /\ ShapeOK(t) /\ None \notin Snap
  BY ConstAssumption DEF OrderlyState, BaseInv, Actor
<1>1. MountBeginDoes(t, s) \/ UmountBeginDoes(t, s) \/ ReadyBeginDoes(t, s)
  BY <1>a, BeginEffect
<1>2. /\ UNCHANGED <<insts, daemons, dbDaemons, dbInst, phase, procs>>
      /\ SameRest(t) /\ thread[t].pc = "idle"
  BY <1>1, Zenon DEF MountBeginDoes, UmountBeginDoes, ReadyBeginDoes, Holds
<1>3. (\A u \in Actor \ {t} : thread'[u] = thread[u]) /\ thread[t].s = None
  BY <1>a, <1>2, Zenon DEF SameRest, ShapeOK
<1>4. \A x \in procs' : \/ x \in dbDaemons'
                        \/ \E u \in Actor : thread'[u].d = x /\ thread'[u].pc \in {"drop", "kill"}
  <2>1. ASSUME NEW u \in Actor, thread[u].pc \in {"drop", "kill"} PROVE thread'[u] = thread[u]
    <3>1. u # t
      BY <1>2, <2>1
    <3> QED  BY <1>3, <3>1, Zenon
  <2>2. ASSUME NEW x \in procs, x \notin dbDaemons
        PROVE  \E u \in Actor : thread'[u].d = x /\ thread'[u].pc \in {"drop", "kill"}
    <3>1. PICK u \in Actor : thread[u].d = x /\ thread[u].pc \in {"drop", "kill"}
      BY <2>2, Zenon DEF UseOK
    <3> QED  BY <2>1, <3>1
  <2> QED  BY <1>2, <2>2, Zenon
<1>5. phase' = "down" => \A d \in dbDaemons' : Instances(d)' # {}
  <2>1. \A d : Instances(d)' = Instances(d)
    BY <1>2 DEF Instances
  <2> QED  BY <1>2, <2>1, Zenon DEF UseOK
<1>6. phase' # "down" => \A d \in daemons' :
        insts'[d] # {} \/ \E u \in Actor : thread'[u].d = d /\ thread'[u].pc \in Watched
  <2>1. ASSUME NEW u \in Actor, thread[u].pc \in Watched PROVE thread'[u] = thread[u]
    <3>1. u # t
      BY <1>2, <2>1 DEF Watched
    <3> QED  BY <1>3, <3>1, Zenon
  <2>2. ASSUME phase # "down", NEW d \in daemons, insts[d] = {}
        PROVE  \E u \in Actor : thread'[u].d = d /\ thread'[u].pc \in Watched
    <3>1. PICK u \in Actor : thread[u].d = d /\ thread[u].pc \in Watched
      BY <2>2, Zenon DEF UseOK
    <3> QED  BY <2>1, <3>1
  <2> QED  BY <1>2, <2>2, Zenon
<1>7. \A x \in Snap : ~Busy(x)' => ~Busy(x)
  BY <1>a, <1>3 DEF Busy
<1> QED  BY <1>2, <1>4, <1>5, <1>6, <1>7, Zenon DEF UseOK

\* So does Close.
LEMMA UseAfterClose ==
  ASSUME OrderlyState, Tidy, UseOK, Close
  PROVE  UseOK'
<1>a. /\ TypeOK /\ BaseInv /\ PhaseOK /\ CalmInv /\ Calm /\ SharedOK /\ ShapeOK(Closer)
      /\ Actor = Thread \cup {Closer} /\ None \notin Snap /\ None \notin Daemon
  BY OrderlyIsCalm, ConstAssumption, Zenon DEF OrderlyState, OrderlyOK, BaseInv, Actor
<1>b. shared = None
  BY <1>a, Zenon DEF SharedOK, Tidy
<1>1. CloseBeginDoes \/ TryStopDoes \/ \E s \in Snap : TeardownNextDoes(s)
  BY <1>a, CloseEffect DEF Close
<1>2. /\ UNCHANGED <<insts, daemons, dbDaemons, dbInst, procs>> /\ phase' # "down" /\ phase # "down"
  <2>1. CASE CloseBeginDoes
    BY <2>1 DEF CloseBeginDoes
  <2>2. ASSUME thread[Closer].pc = "teardown" PROVE phase # "down"
    BY <1>a, <2>2, IdleFields DEF PhaseOK
  <2> QED  BY <1>1, <2>1, <2>2, Zenon DEF TryStopDoes, TeardownNextDoes
<1>3. \A u \in Thread : thread[u] = Idle /\ thread'[u] = Idle
  BY <1>a, CloseIdle
<1>4. thread[Closer].pc \in {"idle", "teardown"} /\ thread[Closer].s = None
  BY <1>a, <1>1, IdleFields, Zenon DEF CloseBeginDoes, TryStopDoes, TeardownNextDoes, PhaseOK, ShapeOK
<1>5. procs \subseteq dbDaemons /\ \A d \in daemons : insts[d] # {}
  BY <1>a, <1>2, <1>3, <1>4, IdleFields DEF UseOK, Watched
<1>6. \A x \in Snap : ~Busy(x)
  BY <1>a, <1>3, <1>4, IdleFields DEF Busy
<1> QED  BY <1>2, <1>5, <1>6, Zenon DEF UseOK

\* So do the start and the orderly end of the process.
LEMMA UseAfterProcess ==
  ASSUME OrderlyState, Tidy, UseOK, ProcessStep, crashes' = 0
  PROVE  UseOK'
<1>a. /\ Counting /\ TypeOK /\ BaseInv /\ PhaseOK /\ ClosedOK /\ SharedOK /\ RefOK
      /\ None \notin Snap /\ None \notin Daemon /\ ~mode.shared
      /\ "starting" \notin mode.faults
  BY OrderlyIsCalm, ConstAssumption, Zenon DEF OrderlyState, OrderlyOK, BaseInv, Tidy
<1>1. CASE UNCHANGED vars \/ LoadRefused \/ NydusdDies
  <2>1. UNCHANGED <<insts, daemons, dbDaemons, dbInst, phase, thread>> /\ procs' \subseteq procs
    BY <1>1, Zenon DEF LoadRefused, NydusdDies, vars, memory, disk, nydusd
  <2>2. phase' = "down" => \A d \in dbDaemons' : Instances(d)' # {}
    <3>1. ASSUME NEW d PROVE Instances(d)' = Instances(d)
      BY <2>1, Zenon DEF Instances
    <3>2. phase' = phase /\ dbDaemons' = dbDaemons
      BY <2>1, Zenon
    <3>3. phase = "down" => \A d \in dbDaemons : Instances(d) # {}
      BY Zenon DEF UseOK
    <3> QED  BY <3>1, <3>2, <3>3, Zenon
  <2>3. \A x \in Snap : Busy(x)' <=> Busy(x)
    BY <2>1 DEF Busy
  <2> QED  BY <2>1, <2>2, <2>3, Zenon DEF UseOK
<1>2. ASSUME \A u \in Actor : thread[u] = Idle
      PROVE  procs \subseteq dbDaemons /\ (\A x \in Snap : ~Busy(x))
             /\ (phase # "down" => \A d \in daemons : insts[d] # {})
  BY <1>a, <1>2, IdleFields, Zenon DEF UseOK, Busy, Watched
<1>3. CASE Recover
  <2>1. RecoverDoes
    BY <1>a, <1>3, RecoverEffect, Zenon
  <2>2. /\ phase = "down" /\ phase' = "up" /\ daemons' = dbDaemons
        /\ dbDaemons' = dbDaemons /\ dbInst' = dbInst /\ procs' \subseteq procs \cup dbDaemons
        /\ insts' = [d \in Daemon |-> IF d \in dbDaemons THEN Instances(d) ELSE {}]
    BY <1>a, <2>1, Zenon DEF RecoverDoes, disk
  <2>3. procs' \subseteq dbDaemons
    BY <1>a, <1>2, <2>2, Zenon DEF PhaseOK
  <2>4. \A d \in daemons' : insts'[d] # {}
    BY <1>a, <2>2, Zenon DEF UseOK, TypeOK
  <2>5. \A x \in Snap, d \in Daemon : x \in insts'[d] => dbInst'[x] = d
    BY <2>2, Zenon DEF Instances
  <2> QED  BY <2>2, <2>3, <2>4, <2>5, Zenon DEF UseOK
<1>4. CASE BootDaemon \/ BootConfig \/ BootStart
  <2>1. shared = None
    BY <1>a DEF SharedOK
  <2>2. phase \in Booting => shared \in Daemon
    BY <1>a DEF PhaseOK
  <2> QED  BY <1>a, <1>4, <2>1, <2>2 DEF BootDaemon, BootConfig, BootStart, Booting
<1>5. CASE Exit
  <2>1. /\ phase = "closed" /\ phase' = "down" /\ insts' = [d \in Daemon |-> {}]
        /\ dbDaemons' = dbDaemons /\ dbInst' = dbInst /\ procs' = procs
    <3>1. /\ phase' = "down" /\ insts' = [d \in Daemon |-> {}]
          /\ dbDaemons' = dbDaemons /\ dbInst' = dbInst /\ procs' = procs
      BY <1>5, Zenon DEF Exit, LoseMemory, disk, nydusd
    <3>2. phase = "closed" \/ crashes' = crashes + 1
      BY <1>5, Zenon DEF Exit
    <3>3. ~(crashes' = crashes + 1)
      BY DEF Tidy
    <3> QED  BY <3>1, <3>2, <3>3, Zenon
  <2>2. /\ procs \subseteq dbDaemons /\ (\A x \in Snap : ~Busy(x)) /\ daemons = dbDaemons
        /\ \A d \in daemons : insts[d] # {}
    BY <1>a, <1>2, <2>1 DEF ClosedOK, RefOK
  <2>3. \A d \in dbDaemons' : Instances(d)' # {}
    <3>1. ASSUME NEW d \in dbDaemons PROVE \E x \in Snap : dbInst'[x] = d
      <4>1. d \in Daemon /\ insts[d] \subseteq Snap
        BY <1>a, <3>1 DEF TypeOK
      <4>2. PICK x \in Snap : x \in insts[d]
        BY <2>2, <3>1, <4>1, Zenon
      <4> QED  BY <2>1, <2>2, <4>1, <4>2, Zenon DEF UseOK
    <3> QED  BY <2>1, <3>1, Zenon DEF Instances
  <2> QED  BY <2>1, <2>2, <2>3, Zenon DEF UseOK
<1> QED  BY <1>1, <1>3, <1>4, <1>5 DEF ProcessStep, Boot

\* Crashes are counted.
LEMMA CrashesGrow ==
  ASSUME BaseInv, [Next]_vars
  PROVE  crashes' \in {crashes, crashes + 1}
<1>a. Counting /\ TypeOK /\ Actor = Thread \cup {Closer} /\ \A t \in Actor : ShapeOK(t)
  BY DEF BaseInv, Actor
<1>1. CASE Boot \/ NydusdDies \/ Exit \/ UNCHANGED vars
  <2>1. Recover => crashes' = crashes
    BY <1>a, RecoverEffect DEF RecoverDoes
  <2>2. CASE LoadRefused \/ UNCHANGED vars
    BY <2>2 DEF LoadRefused, vars, bounds
  <2>3. CASE BootDaemon \/ BootConfig \/ BootStart \/ NydusdDies \/ Exit
    BY <2>3, Zenon DEF BootDaemon, BootConfig, BootStart, NydusdDies, Exit
  <2> QED  BY <1>1, <2>1, <2>2, <2>3, Zenon DEF Boot
<1>2. CASE Close
  BY <1>2, CloseEffect, Zenon DEF Close, CloseBeginDoes, TryStopDoes, TeardownNextDoes, Inside
<1>3. ASSUME NEW t \in Thread, NEW s \in Snap,
             MountBegin(t, s) \/ UmountBegin(t, s) \/ ReadyBegin(t, s)
      PROVE  crashes' = crashes
  BY <1>a, <1>3, BeginEffect, Zenon DEF MountBeginDoes, UmountBeginDoes, ReadyBeginDoes, Inside
<1>4. ASSUME NEW t \in Thread, Mount(t) \/ ReadyUpdate(t)
      PROVE  crashes' = crashes
  BY <1>4, Zenon DEF Mount, MountDaemon, MountConfig, MountRemote, MountPersist, ReadyUpdate, bounds
<1>5. ASSUME NEW t \in Actor, Umount(t) PROVE crashes' = crashes
  BY <1>5, Zenon DEF Umount, UmountLookup, UmountInstance, UmountRecord, UmountRemote, UmountRef,
                     DestroyDelete, DestroyInstances, DestroyProcess, bounds
<1> QED  BY <1>1, <1>2, <1>3, <1>4, <1>5, Zenon DEF Next

\* UseInv is inductive.
LEMMA UseStep ==
  ASSUME BaseInv, CalmInv, OrderlyInv, UseInv, [Next]_vars
  PROVE  UseInv'
<1>1. mode' = mode /\ crashes \in Nat /\ crashes' \in {crashes, crashes + 1}
  BY ModeKept, CrashesGrow DEF BaseInv, TypeOK
<1>2. SUFFICES ASSUME Tidy, crashes' = 0 PROVE UseOK'
  <2>1. crashes' = 0 => crashes = 0
    BY <1>1
  <2> QED  BY <1>1, <2>1 DEF UseInv, Tidy, Orderly
<1>3. OrderlyState /\ UseOK
  BY <1>2 DEF OrderlyState, OrderlyInv, UseInv, Tidy
<1>4. CASE ProcessStep
  BY <1>2, <1>3, <1>4, UseAfterProcess
<1>5. CASE Close
  BY <1>2, <1>3, <1>5, UseAfterClose, Zenon
<1>6. CASE \E t \in Thread, s \in Snap : MountBegin(t, s) \/ UmountBegin(t, s) \/ ReadyBegin(t, s)
  BY <1>3, <1>6, UseAfterBegin
<1>7. ASSUME NEW t \in Actor, CallStep(t) PROVE UseOK'
  <2>1. StepData(t)
    BY <1>3, <1>7, CallStepData
  <2>2. UseMove(t)
    BY <1>2, <1>3, <1>7, <2>1, MountUse, UmountUse, Zenon DEF CallStep
  <2> QED  BY <1>2, <1>3, <2>1, <2>2, UseAfterCall, Zenon
<1> QED  BY <1>4, <1>5, <1>6, <1>7, Zenon DEF Next, ProcessStep, CallStep, Actor

\* When nothing is under way, each dedicated daemon serves an instance and no nydusd
\* runs that the manager does not know.
THEOREM NoDaemonLeftBehind == Spec => []DaemonsInUse
<1>1. Init => UseInv
  <2>1. ASSUME Init PROVE UseOK
    BY <2>1 DEF Init, UseOK
  <2> QED  BY <2>1 DEF UseInv
<1>2. BaseInv /\ CalmInv /\ OrderlyInv /\ UseInv /\ [Next]_vars => UseInv'
  BY UseStep
<1>3. BaseInv /\ CalmInv /\ OrderlyInv /\ UseInv => DaemonsInUse
  <2>1. ASSUME BaseInv, CalmInv, OrderlyInv, UseInv, Tidy, phase = "up", \A t \in Actor : thread[t] = Idle
        PROVE  procs \subseteq daemons /\ \A d \in daemons : insts[d] # {}
    <3>1. UseOK /\ daemons = dbDaemons
      BY <2>1 DEF UseInv, OrderlyInv, OrderlyOK, RefOK, Tidy
    <3> QED  BY <2>1, <3>1, IdleFields, Zenon DEF UseOK, Watched
  <2> QED  BY <2>1 DEF DaemonsInUse, Tidy
<1> QED  BY <1>1, <1>2, <1>3, OrderlyInvariant, PTL DEF Spec
=============================================================================
