--------------------------- MODULE RafsCallProofs ---------------------------
(***************************************************************************)
(* Proofs about RafsLifecycle, first part: what each step does to the      *)
(* goroutine that takes it, which call is at work on which snapshot and on *)
(* which daemon, and that a record names an instance that is mounted.      *)
(***************************************************************************)
EXTENDS RafsLifecycle, TLAPS

\* The steps of Mount and of WaitUntilReady, and those that work on a daemon.
MountPC == {"daemon", "config", "mount", "persist", "ready"}
OnDaemon == {"config", "mount", "persist", "ready", "umount", "undb", "unmount", "unref",
             "delete", "drop", "kill"}

\* What a goroutine holds at each step; only Close has no snapshot, when it stops
\* the shared daemon.
ShapeOK(t) ==
  /\ thread[t].pc = "idle" => thread[t] = Idle
  /\ thread[t].pc \in OnDaemon => thread[t].d \in Daemon
  /\ thread[t].pc \in {"idle", "teardown"} => thread[t].s = None /\ thread[t].d = None
  /\ thread[t].s = None => thread[t].pc \in {"idle", "teardown", "delete", "drop", "kill"}
  /\ t = Closer => thread[t].pc \notin MountPC /\ ~thread[t].rollback
  /\ t # Closer => thread[t].pc # "teardown" /\ (thread[t].s = None => thread[t].pc = "idle")

\* No call is under way before NewFileSystem is done, and the shared daemon it
\* makes has no instance; only Teardown lists instances.
Booting == {"boot_config", "boot_start"}
PhaseOK ==
  /\ phase \in Booting \cup {"down"} => \A t \in Actor : thread[t] = Idle
  /\ phase = "up" => thread[Closer] = Idle
  /\ phase \in Booting => shared \in Daemon /\ rafs = dbInst /\ \A s \in Snap : dbInst[s] # shared
  /\ phase \notin {"closing", "closed"} => todo = {}
  /\ thread[Closer].s \notin todo

\* What the proofs need to know of the number of instances.  It is a fact about finite
\* sets, which the last part of the proofs takes from the library.
Counting ==
  \A S \in SUBSET Snap :
    /\ Cardinality(S) \in Nat /\ (Cardinality(S) = 0 <=> S = {})
    /\ \A s \in Snap \ S : Cardinality(S \cup {s}) = Cardinality(S) + 1

BaseInv == Counting /\ TypeOK /\ PhaseOK /\ \A t \in Actor : ShapeOK(t)

-----------------------------------------------------------------------------
(* What a step does to the record of the goroutine that takes it.          *)

SameRest(t) ==
  /\ thread' \in [Actor -> ThreadType]
  /\ \A u \in Actor \ {t} : thread'[u] = thread[u]
Holds(t, pc, s, d, rollback) ==
  /\ SameRest(t)
  /\ thread'[t].pc = pc /\ thread'[t].s = s /\ thread'[t].d = d /\ thread'[t].rollback = rollback
Moves(t, pc) == Holds(t, pc, thread[t].s, thread[t].d, thread[t].rollback)
Takes(t, pc, d) == Holds(t, pc, thread[t].s, d, thread[t].rollback)
RollsBack(t) == Holds(t, "lookup", thread[t].s, thread[t].d, TRUE)
Ends(t) == SameRest(t) /\ thread'[t] = Idle

\* The end of an Umount, for each of the three that call it.
UmountEnds(t) ==
  /\ SameRest(t)
  /\ thread'[t].s = None /\ thread'[t].d = None /\ ~thread'[t].rollback
  /\ \/ t # Closer /\ thread'[t] = Idle /\ phase' = phase
     \/ t = Closer /\ thread[t].s # None /\ thread'[t].pc = "teardown" /\ phase' = phase
     \/ t = Closer /\ thread[t].s = None /\ thread'[t] = Idle /\ phase' = "closed"
  /\ rafs' \in [Snap -> Daemon \cup {"new", None}]
  /\ thread[t].rollback => /\ rafs'[thread[t].s] = None
                           /\ \A x \in Snap \ {thread[t].s} : rafs'[x] = rafs[x]
  /\ ~thread[t].rollback => rafs' = rafs

\* The fields of an idle goroutine.
LEMMA IdleFields ==
  /\ Idle \in ThreadType
  /\ Idle.pc = "idle" /\ Idle.s = None /\ Idle.d = None /\ Idle.rollback = FALSE
BY DEF Idle, ThreadType

\* The step of a goroutine is one of the forms above.
LEMMA GotoEffect ==
  ASSUME TypeOK, NEW t \in Actor, NEW pc \in {"mount", "persist", "undb", "unmount", "unref",
                                            "delete", "drop", "kill"}, Goto(t, pc)
  PROVE  Moves(t, pc)
BY DEF TypeOK, Goto, Moves, Holds, SameRest, ThreadType

\* The deferred rollback of a failed Mount sends the goroutine to Umount.
LEMMA RollbackEffect ==
  ASSUME TypeOK, NEW t \in Actor, Rollback(t)
  PROVE  RollsBack(t)
BY Zenon DEF TypeOK, Rollback, RollsBack, Holds, SameRest, ThreadType

\* The end of a call.
LEMMA DoneEffect ==
  ASSUME TypeOK, NEW t \in Actor, Done(t)
  PROVE  Ends(t)
BY IdleFields DEF TypeOK, Done, Ends, SameRest

\* A goroutine takes the daemon it goes on to work on.
LEMMA TakeEffect ==
  ASSUME TypeOK, NEW t \in Actor, NEW pc \in {"config", "umount", "delete"}, NEW d \in Daemon,
         thread' = [thread EXCEPT ![t].pc = pc, ![t].d = d]
  PROVE  Takes(t, pc, d)
BY Zenon DEF TypeOK, Takes, Holds, SameRest, ThreadType

\* The begin of a Mount or of an Umount.
LEMMA StartEffect ==
  ASSUME TypeOK, NEW t \in Actor, NEW s \in Snap, NEW pc \in {"daemon", "lookup"},
         thread' = [thread EXCEPT ![t] = [Idle EXCEPT !.pc = pc, !.s = s]]
  PROVE  Holds(t, pc, s, None, FALSE)
<1> DEFINE r == [Idle EXCEPT !.pc = pc, !.s = s]
<1>1. r \in ThreadType /\ r.pc = pc /\ r.s = s /\ r.d = None /\ r.rollback = FALSE
  BY IdleFields, Zenon DEF ThreadType
<1> HIDE DEF r
<1>2. thread' = [thread EXCEPT ![t] = r]
  BY DEF r
<1> QED  BY <1>1, <1>2, Zenon DEF TypeOK, Holds, SameRest

\* The begin of a WaitUntilReady.
LEMMA ReadyEffect ==
  ASSUME TypeOK, NEW t \in Actor, NEW s \in Snap, NEW d \in Daemon,
         thread' = [thread EXCEPT ![t] = [Idle EXCEPT !.pc = "ready", !.s = s, !.d = d]]
  PROVE  Holds(t, "ready", s, d, FALSE)
<1> DEFINE r == [Idle EXCEPT !.pc = "ready", !.s = s, !.d = d]
<1>1. r \in ThreadType /\ r.pc = "ready" /\ r.s = s /\ r.d = d /\ r.rollback = FALSE
  BY IdleFields, Zenon DEF ThreadType
<1> HIDE DEF r
<1>2. thread' = [thread EXCEPT ![t] = r]
  BY DEF r
<1> QED  BY <1>1, <1>2, Zenon DEF TypeOK, Holds, SameRest

\* The end of an Umount, whoever called it.
LEMMA UmountEndEffect ==
  ASSUME TypeOK, NEW t \in Actor, UmountEnd(t), thread[t].rollback => thread[t].s \in Snap
  PROVE  UmountEnds(t)
<1>1. CASE t = Closer /\ thread[t].s # None
  <2> DEFINE r == [Idle EXCEPT !.pc = "teardown"]
  <2>1. r \in ThreadType /\ r.pc = "teardown" /\ r.s = None /\ r.d = None /\ r.rollback = FALSE
    BY IdleFields DEF ThreadType
  <2> HIDE DEF r
  <2>2. thread' = [thread EXCEPT ![t] = r]
    BY <1>1 DEF r, UmountEnd
  <2>3. SameRest(t) /\ thread'[t] = r
    BY <2>1, <2>2 DEF TypeOK, SameRest
  <2> QED  BY <1>1, <2>1, <2>3, Zenon DEF TypeOK, UmountEnd, UmountEnds
<1>2. CASE ~(t = Closer /\ thread[t].s # None)
  <2>1. SameRest(t) /\ thread'[t] = Idle
    BY <1>2, IdleFields DEF TypeOK, UmountEnd, SameRest
  <2> QED  BY <1>2, <2>1, IdleFields DEF TypeOK, UmountEnd, UmountEnds
<1> QED  BY <1>1, <1>2

-----------------------------------------------------------------------------
(* Every action, once.                                                     *)

\* The configuration never changes.
LEMMA ModeKept ==
  ASSUME [Next]_vars
  PROVE  mode' = mode
<1>1. CASE UNCHANGED vars
  BY <1>1 DEF vars, bounds
<1>2. ASSUME NEW t \in Thread, Mount(t) \/ ReadyUpdate(t)
      PROVE  mode' = mode
  BY <1>2, Zenon DEF Mount, MountDaemon, MountConfig, MountRemote, MountPersist, ReadyUpdate, bounds
<1>3. ASSUME NEW t \in Thread, NEW s \in Snap,
             MountBegin(t, s) \/ UmountBegin(t, s) \/ ReadyBegin(t, s)
      PROVE  mode' = mode
  BY <1>3, Zenon DEF MountBegin, UmountBegin, ReadyBegin, bounds
<1>4. ASSUME NEW t \in Actor, Umount(t)
      PROVE  mode' = mode
  BY <1>4, Zenon DEF Umount, UmountLookup, UmountInstance, UmountRecord, UmountRemote, UmountRef,
                     DestroyDelete, DestroyInstances, DestroyProcess, bounds
<1>5. LoadRefused \/ Recover \/ BootDaemon \/ BootConfig \/ BootStart => mode' = mode
  <2>1. LoadRefused => mode' = mode
    BY DEF LoadRefused, vars, bounds
  <2>2. Recover => mode' = mode
    BY DEF Recover, RecoverWith
  <2> QED  BY <2>1, <2>2, Zenon DEF BootDaemon, BootConfig, BootStart
<1>6. CloseBegin \/ TryStopSharedDaemon \/ Exit \/ NydusdDies => mode' = mode
  BY DEF CloseBegin, TryStopSharedDaemon, Exit, NydusdDies, bounds
<1>7. ASSUME NEW s \in Snap, TeardownNext(s)
      PROVE  mode' = mode
  BY <1>7, Zenon DEF TeardownNext, bounds
<1> QED  BY <1>1, <1>2, <1>3, <1>4, <1>5, <1>6, <1>7, Zenon DEF Next, Boot, Close

-----------------------------------------------------------------------------
(* What each step of a call does, without the failures and the files.      *)

Inside == UNCHANGED <<todo, gone, asked, crashes, mode>>

MountDaemonDoes(t) ==
  /\ thread[t].pc = "daemon"
  /\ \/ /\ mode.shared /\ shared \in Daemon /\ Takes(t, "config", shared)
        /\ UNCHANGED <<daemons, dbDaemons>>
     \/ /\ ~mode.shared
        /\ \E d \in Daemon : /\ Fresh(d) /\ Takes(t, "config", d)
                             /\ daemons' = daemons \cup {d} /\ dbDaemons' = dbDaemons \cup {d}
     \/ RollsBack(t) /\ UNCHANGED <<daemons, dbDaemons>>
  /\ Inside /\ UNCHANGED <<phase, shared, rafs, insts, ref, dbInst, procs, served>>

MountConfigDoes(t) ==
  /\ thread[t].pc = "config"
  /\ \/ /\ Moves(t, "mount") \/ RollsBack(t)
        /\ insts' = [insts EXCEPT ![thread[t].d] = @ \cup {thread[t].s}]
        /\ ref' = [ref EXCEPT ![thread[t].d] = @ + 1]
        /\ rafs' = [rafs EXCEPT ![thread[t].s] = thread[t].d]
     \/ "config" \in mode.faults /\ RollsBack(t) /\ UNCHANGED <<insts, ref, rafs>>
  /\ Inside /\ UNCHANGED <<phase, shared, daemons, dbDaemons, dbInst, procs, served>>

MountRemoteDoes(t) ==
  /\ thread[t].pc = "mount"
  /\ \/ /\ mode.shared => thread[t].d \in procs
        /\ procs' = procs \cup {thread[t].d}
        /\ served' = [served EXCEPT ![thread[t].d] = @ \cup {thread[t].s}]
        /\ Moves(t, "persist")
     \/ /\ mode.shared \/ insts[thread[t].d] = {} \/ "mount" \in mode.faults
        /\ Ends(t) /\ UNCHANGED <<procs, served>>
  /\ Inside /\ UNCHANGED <<phase, shared, rafs, daemons, insts, ref, dbDaemons, dbInst>>

MountPersistDoes(t) ==
  /\ thread[t].pc = "persist"
  /\ \/ /\ thread[t].d \in procs /\ dbInst[thread[t].s] = None
        /\ dbInst' = [dbInst EXCEPT ![thread[t].s] = thread[t].d]
        /\ Ends(t)
     \/ RollsBack(t) /\ UNCHANGED dbInst
  /\ Inside /\ UNCHANGED <<phase, shared, rafs, daemons, insts, ref, dbDaemons, procs, served>>

ReadyUpdateDoes(t) ==
  /\ thread[t].pc = "ready" /\ Ends(t)
  /\ dbInst' = [dbInst EXCEPT ![thread[t].s] = thread[t].d]
  /\ Inside /\ UNCHANGED <<phase, shared, rafs, daemons, insts, ref, dbDaemons, procs, served>>

UmountLookupDoes(t) ==
  /\ thread[t].pc = "lookup"
  /\ \/ /\ rafs[thread[t].s] \in daemons /\ Takes(t, "umount", rafs[thread[t].s])
        /\ UNCHANGED <<phase, rafs>>
     \/ rafs[thread[t].s] \notin daemons /\ UmountEnds(t)
  /\ Inside /\ UNCHANGED <<shared, daemons, insts, ref, dbDaemons, dbInst, procs, served>>

UmountInstanceDoes(t) ==
  /\ thread[t].pc = "umount" /\ Moves(t, "undb")
  /\ insts' = [insts EXCEPT ![thread[t].d] = @ \ {thread[t].s}]
  /\ ref' = [ref EXCEPT ![thread[t].d] = @ - 1]
  /\ Inside /\ UNCHANGED <<phase, shared, rafs, daemons, dbDaemons, dbInst, procs, served>>

UmountRecordDoes(t) ==
  /\ thread[t].pc = "undb"
  /\ \/ /\ dbInst' = [dbInst EXCEPT ![thread[t].s] = None]
        /\ Moves(t, "unmount") /\ UNCHANGED <<phase, rafs>>
     \/ "delete" \in mode.faults /\ UmountEnds(t) /\ UNCHANGED dbInst
  /\ Inside /\ UNCHANGED <<shared, daemons, insts, ref, dbDaemons, procs, served>>

UmountRemoteDoes(t) ==
  /\ thread[t].pc = "unmount"
  /\ \/ /\ served' = IF mode.shared THEN [served EXCEPT ![thread[t].d] = @ \ {thread[t].s}] ELSE served
        /\ Moves(t, "unref") /\ UNCHANGED <<phase, rafs>>
     \/ mode.shared /\ UmountEnds(t) /\ UNCHANGED served
  /\ Inside /\ UNCHANGED <<shared, daemons, insts, ref, dbDaemons, dbInst, procs>>

UmountRefDoes(t) ==
  /\ thread[t].pc = "unref"
  /\ \/ ref[thread[t].d] = 0 /\ Moves(t, "delete") /\ UNCHANGED <<phase, rafs>>
     \/ ref[thread[t].d] # 0 /\ UmountEnds(t)
  /\ Inside /\ UNCHANGED <<shared, daemons, insts, ref, dbDaemons, dbInst, procs, served>>

DestroyDeleteDoes(t) ==
  /\ thread[t].pc = "delete"
  /\ \/ /\ dbDaemons' = dbDaemons \ {thread[t].d} /\ daemons' = daemons \ {thread[t].d}
        /\ Moves(t, "drop") /\ UNCHANGED <<phase, rafs>>
     \/ "delete" \in mode.faults /\ UmountEnds(t) /\ UNCHANGED <<dbDaemons, daemons>>
  /\ Inside /\ UNCHANGED <<shared, insts, ref, dbInst, procs, served>>

DestroyInstancesDoes(t) ==
  /\ thread[t].pc = "drop" /\ Moves(t, "kill")
  /\ ref' = [ref EXCEPT ![thread[t].d] = @ - Cardinality(insts[thread[t].d])]
  /\ insts' = [insts EXCEPT ![thread[t].d] = {}]
  /\ Inside /\ UNCHANGED <<phase, shared, rafs, daemons, dbDaemons, dbInst, procs, served>>

DestroyProcessDoes(t) ==
  /\ thread[t].pc = "kill" /\ UmountEnds(t)
  /\ procs' = procs \ {thread[t].d} /\ served' = [served EXCEPT ![thread[t].d] = {}]
  /\ shared' = IF thread[t].s = None THEN None ELSE shared
  /\ Inside /\ UNCHANGED <<daemons, insts, ref, dbDaemons, dbInst>>

\* The steps of Mount and WaitUntilReady.
LEMMA MountEffect ==
  ASSUME TypeOK, NEW t \in Actor
  PROVE  /\ MountDaemon(t) => MountDaemonDoes(t)
         /\ MountConfig(t) => MountConfigDoes(t)
         /\ MountRemote(t) => MountRemoteDoes(t)
         /\ MountPersist(t) => MountPersistDoes(t)
         /\ ReadyUpdate(t) => ReadyUpdateDoes(t)
<1>1. ASSUME MountDaemon(t)
      PROVE  MountDaemonDoes(t)
  <2>1. Inside /\ UNCHANGED <<phase, shared, rafs, insts, ref, dbInst, procs, served>>
    BY <1>1, Zenon DEF MountDaemon, Inside, nydusd, callers
  <2>2. CASE Rollback(t) /\ UNCHANGED <<daemons, dbDaemons>>
    BY <1>1, <2>1, <2>2, RollbackEffect, Zenon DEF MountDaemon, MountDaemonDoes
  <2>3. CASE /\ mode.shared /\ shared # None
             /\ thread' = [thread EXCEPT ![t].pc = "config", ![t].d = shared]
             /\ UNCHANGED <<daemons, dbDaemons>>
    <3>1. shared \in Daemon
      BY <2>3 DEF TypeOK
    <3>2. Takes(t, "config", shared)
      BY <2>3, <3>1, TakeEffect, Zenon
    <3> QED  BY <1>1, <2>1, <2>3, <3>1, <3>2, Zenon DEF MountDaemon, MountDaemonDoes
  <2>4. ASSUME ~mode.shared, NEW d \in Daemon, Fresh(d),
               daemons' = daemons \cup {d} /\ dbDaemons' = dbDaemons \cup {d},
               thread' = [thread EXCEPT ![t].pc = "config", ![t].d = d]
        PROVE  MountDaemonDoes(t)
    <3>1. Takes(t, "config", d)
      BY <2>4, TakeEffect, Zenon
    <3> QED  BY <1>1, <2>1, <2>4, <3>1, Zenon DEF MountDaemon, MountDaemonDoes
  <2> QED  BY <1>1, <2>2, <2>3, <2>4, Zenon DEF MountDaemon
<1>2. ASSUME MountConfig(t)
      PROVE  MountConfigDoes(t)
  <2>1. Inside /\ UNCHANGED <<phase, shared, daemons, dbDaemons, dbInst, procs, served>>
    BY <1>2, Zenon DEF MountConfig, Inside, nydusd, callers
  <2>2. Goto(t, "mount") => Moves(t, "mount")
    BY GotoEffect
  <2> QED  BY <1>2, <2>1, <2>2, RollbackEffect, Zenon DEF MountConfig, MountConfigDoes, Fail
<1>3. ASSUME MountRemote(t)
      PROVE  MountRemoteDoes(t)
  <2>1. Inside /\ UNCHANGED <<phase, shared, rafs, daemons, insts, ref, dbDaemons, dbInst>>
    BY <1>3, Zenon DEF MountRemote, Inside, memory, disk, callers
  <2>2. Goto(t, "persist") => Moves(t, "persist")
    BY GotoEffect
  <2> QED  BY <1>3, <2>1, <2>2, DoneEffect, Zenon DEF MountRemote, MountRemoteDoes, Fail, nydusd
<1>4. ASSUME MountPersist(t)
      PROVE  MountPersistDoes(t)
  <2>1. Inside /\ UNCHANGED <<phase, shared, rafs, daemons, insts, ref, dbDaemons, procs, served>>
    BY <1>4, Zenon DEF MountPersist, Inside, memory, nydusd, callers
  <2> QED  BY <1>4, <2>1, DoneEffect, RollbackEffect, Zenon DEF MountPersist, MountPersistDoes
<1>5. ASSUME ReadyUpdate(t)
      PROVE  ReadyUpdateDoes(t)
  <2>1. Inside /\ UNCHANGED <<phase, shared, rafs, daemons, insts, ref, dbDaemons, procs, served>>
    BY <1>5, Zenon DEF ReadyUpdate, Inside, memory, nydusd, callers, bounds
  <2> QED  BY <1>5, <2>1, DoneEffect, Zenon DEF ReadyUpdate, ReadyUpdateDoes
<1> QED  BY <1>1, <1>2, <1>3, <1>4, <1>5

\* A goroutine inside a call has a snapshot, and a daemon where it needs one.
LEMMA InCall ==
  ASSUME TypeOK, NEW t \in Actor, ShapeOK(t)
  PROVE  /\ thread[t].s \in Snap \cup {None} /\ thread[t].d \in Daemon \cup {None}
         /\ thread[t].rollback \in BOOLEAN
         /\ thread[t].rollback => thread[t].s \in Snap
         /\ thread[t].pc \in OnDaemon => thread[t].d \in Daemon
         /\ thread[t].pc \notin {"idle", "teardown", "delete", "drop", "kill"} =>
              thread[t].s \in Snap
<1>1. thread[t] \in ThreadType
  BY DEF TypeOK
<1>2. thread[t].rollback => thread[t].s # None
  BY IdleFields DEF ShapeOK
<1> QED  BY <1>1, <1>2 DEF ShapeOK, ThreadType

\* The steps of Umount and DestroyDaemon.
LEMMA UmountEffect ==
  ASSUME TypeOK, NEW t \in Actor, ShapeOK(t)
  PROVE  /\ UmountLookup(t) => UmountLookupDoes(t)
         /\ UmountInstance(t) => UmountInstanceDoes(t)
         /\ UmountRecord(t) => UmountRecordDoes(t)
         /\ UmountRemote(t) => UmountRemoteDoes(t)
         /\ UmountRef(t) => UmountRefDoes(t)
         /\ DestroyDelete(t) => DestroyDeleteDoes(t)
         /\ DestroyInstances(t) => DestroyInstancesDoes(t)
         /\ DestroyProcess(t) => DestroyProcessDoes(t)
<1>a. UmountEnd(t) => UmountEnds(t)
  BY InCall, UmountEndEffect, Zenon
<1>b. \A pc \in {"undb", "unmount", "unref", "delete", "drop", "kill"} :
        Goto(t, pc) => Moves(t, pc)
  BY GotoEffect
<1>1. ASSUME UmountLookup(t)
      PROVE  UmountLookupDoes(t)
  <2>1. Inside /\ UNCHANGED <<shared, daemons, insts, ref, dbDaemons, dbInst, procs, served>>
    BY <1>1, Zenon DEF UmountLookup, Inside, disk, nydusd, callers, bounds
  <2>2. CASE rafs[thread[t].s] \in daemons
    <3>1. rafs[thread[t].s] \in Daemon
      BY <2>2 DEF TypeOK
    <3>2. Takes(t, "umount", rafs[thread[t].s]) /\ UNCHANGED <<phase, rafs>>
      BY <1>1, <2>2, <3>1, TakeEffect, Zenon DEF UmountLookup
    <3> QED  BY <1>1, <2>1, <2>2, <3>2, Zenon DEF UmountLookup, UmountLookupDoes
  <2>3. CASE rafs[thread[t].s] \notin daemons
    BY <1>a, <1>1, <2>1, <2>3, Zenon DEF UmountLookup, UmountLookupDoes
  <2> QED  BY <2>2, <2>3
<1>2. ASSUME UmountInstance(t)
      PROVE  UmountInstanceDoes(t)
  <2>1. Inside /\ UNCHANGED <<phase, shared, rafs, daemons, dbDaemons, dbInst, procs, served>>
    BY <1>2, Zenon DEF UmountInstance, Inside, disk, nydusd, callers, bounds
  <2> QED  BY <1>b, <1>2, <2>1, Zenon DEF UmountInstance, UmountInstanceDoes
<1>3. ASSUME UmountRecord(t)
      PROVE  UmountRecordDoes(t)
  <2>1. Inside /\ UNCHANGED <<shared, daemons, insts, ref, dbDaemons, procs, served>>
    BY <1>3, Zenon DEF UmountRecord, Inside, nydusd, callers
  <2> QED  BY <1>a, <1>b, <1>3, <2>1, Zenon DEF UmountRecord, UmountRecordDoes, Fail
<1>4. ASSUME UmountRemote(t)
      PROVE  UmountRemoteDoes(t)
  <2>1. Inside /\ UNCHANGED <<shared, daemons, insts, ref, dbDaemons, dbInst, procs>>
    BY <1>4, Zenon DEF UmountRemote, Inside, disk, callers
  <2> QED  BY <1>a, <1>b, <1>4, <2>1, Zenon DEF UmountRemote, UmountRemoteDoes
<1>5. ASSUME UmountRef(t)
      PROVE  UmountRefDoes(t)
  <2>1. Inside /\ UNCHANGED <<shared, daemons, insts, ref, dbDaemons, dbInst, procs, served>>
    BY <1>5, Zenon DEF UmountRef, Inside, disk, nydusd, callers, bounds
  <2> QED  BY <1>a, <1>b, <1>5, <2>1, Zenon DEF UmountRef, UmountRefDoes
<1>6. ASSUME DestroyDelete(t)
      PROVE  DestroyDeleteDoes(t)
  <2>1. Inside /\ UNCHANGED <<shared, insts, ref, dbInst, procs, served>>
    BY <1>6, Zenon DEF DestroyDelete, Inside, nydusd, callers
  <2> QED  BY <1>a, <1>b, <1>6, <2>1, Zenon DEF DestroyDelete, DestroyDeleteDoes, Fail
<1>7. ASSUME DestroyInstances(t)
      PROVE  DestroyInstancesDoes(t)
  <2>1. Inside /\ UNCHANGED <<phase, shared, rafs, daemons, dbDaemons, dbInst, procs, served>>
    BY <1>7, Zenon DEF DestroyInstances, Inside, disk, nydusd, callers, bounds
  <2> QED  BY <1>b, <1>7, <2>1, Zenon DEF DestroyInstances, DestroyInstancesDoes
<1>8. ASSUME DestroyProcess(t)
      PROVE  DestroyProcessDoes(t)
  <2>1. Inside /\ UNCHANGED <<daemons, insts, ref, dbDaemons, dbInst>>
    BY <1>8, Zenon DEF DestroyProcess, Inside, callers, bounds
  <2> QED  BY <1>a, <1>8, <2>1, Zenon DEF DestroyProcess, DestroyProcessDoes
<1> QED  BY <1>1, <1>2, <1>3, <1>4, <1>5, <1>6, <1>7, <1>8

-----------------------------------------------------------------------------
(* What the begin of a call and the steps of Close do.                     *)

MountBeginDoes(t, s) ==
  /\ Serving /\ thread[t].pc = "idle"
  /\ s \notin gone /\ ~Busy(s) /\ rafs[s] = None
  /\ rafs' = [rafs EXCEPT ![s] = "new"]
  /\ Holds(t, "daemon", s, None, FALSE)
  /\ Inside /\ UNCHANGED <<phase, shared, daemons, insts, ref, dbDaemons, dbInst, procs, served>>

UmountBeginDoes(t, s) ==
  /\ Serving /\ thread[t].pc = "idle"
  /\ MayUmount(s) /\ rafs[s] # None
  /\ gone' = gone \cup {s} /\ asked' = [asked EXCEPT ![s] = @ + 1]
  /\ Holds(t, "lookup", s, None, FALSE)
  /\ UNCHANGED <<phase, shared, rafs, daemons, insts, ref, dbDaemons, dbInst, procs, served,
                 todo, crashes, mode>>

ReadyBeginDoes(t, s) ==
  /\ Serving /\ thread[t].pc = "idle"
  /\ s \notin gone /\ ~Busy(s)
  /\ rafs[s] \in daemons /\ rafs[s] \in procs /\ s \in served[rafs[s]]
  /\ Holds(t, "ready", s, rafs[s], FALSE)
  /\ Inside
  /\ UNCHANGED <<phase, shared, rafs, daemons, insts, ref, dbDaemons, dbInst, procs, served>>

CloseBeginDoes ==
  /\ phase = "up" /\ phase' = "closing"
  /\ "close" \in mode.races \/ \A t \in Thread : thread[t] = Idle
  /\ todo' \subseteq UNION {insts[d] : d \in daemons}
  /\ Holds(Closer, "teardown", None, None, FALSE)
  /\ UNCHANGED <<shared, rafs, daemons, insts, ref, dbDaemons, dbInst, procs, served,
                 gone, asked, crashes, mode>>

TeardownNextDoes(s) ==
  /\ thread[Closer].pc = "teardown" /\ s \in todo /\ todo' = todo \ {s}
  /\ Holds(Closer, "lookup", s, None, FALSE)
  /\ UNCHANGED <<phase, shared, rafs, daemons, insts, ref, dbDaemons, dbInst, procs, served,
                 gone, asked, crashes, mode>>

TryStopDoes ==
  /\ thread[Closer].pc = "teardown" /\ todo = {}
  /\ \/ /\ shared \in Daemon /\ ref[shared] = 1
        /\ Holds(Closer, "delete", None, shared, FALSE) /\ phase' = phase
     \/ Ends(Closer) /\ phase' = "closed"
  /\ Inside /\ UNCHANGED <<shared, rafs, daemons, insts, ref, dbDaemons, dbInst, procs, served>>

\* What the begin of a call does.
LEMMA BeginEffect ==
  ASSUME TypeOK, NEW t \in Thread, NEW s \in Snap
  PROVE  /\ MountBegin(t, s) => MountBeginDoes(t, s)
         /\ UmountBegin(t, s) => UmountBeginDoes(t, s)
         /\ ReadyBegin(t, s) => ReadyBeginDoes(t, s)
<1>a. t \in Actor
  BY DEF Actor
<1>1. ASSUME MountBegin(t, s)
      PROVE  MountBeginDoes(t, s)
  <2>1. Inside /\ UNCHANGED <<phase, shared, daemons, insts, ref, dbDaemons, dbInst, procs, served>>
    BY <1>1, Zenon DEF MountBegin, Inside, disk, nydusd, callers, bounds
  <2>2. Holds(t, "daemon", s, None, FALSE)
    BY <1>a, <1>1, StartEffect, Zenon DEF MountBegin
  <2> QED  BY <1>1, <2>1, <2>2, Zenon DEF MountBegin, MountBeginDoes
<1>2. ASSUME UmountBegin(t, s)
      PROVE  UmountBeginDoes(t, s)
  <2>1. UNCHANGED <<phase, shared, rafs, daemons, insts, ref, dbDaemons, dbInst, procs, served,
                    todo, crashes, mode>>
    BY <1>2, Zenon DEF UmountBegin, memory, disk, nydusd, bounds
  <2>2. Holds(t, "lookup", s, None, FALSE)
    BY <1>a, <1>2, StartEffect, Zenon DEF UmountBegin
  <2> QED  BY <1>2, <2>1, <2>2, Zenon DEF UmountBegin, UmountBeginDoes
<1>3. ASSUME ReadyBegin(t, s)
      PROVE  ReadyBeginDoes(t, s)
  <2>1. Inside /\ UNCHANGED <<phase, shared, rafs, daemons, insts, ref, dbDaemons, dbInst, procs, served>>
    BY <1>3, Zenon DEF ReadyBegin, Inside, memory, disk, nydusd, callers, bounds
  <2>2. rafs[s] \in Daemon
    BY <1>3 DEF ReadyBegin, TypeOK
  <2>3. Holds(t, "ready", s, rafs[s], FALSE)
    BY <1>a, <1>3, <2>2, ReadyEffect, Zenon DEF ReadyBegin
  <2> QED  BY <1>3, <2>1, <2>3, Zenon DEF ReadyBegin, ReadyBeginDoes
<1> QED  BY <1>1, <1>2, <1>3

\* What the steps of Close do: its begin, the next instance, the shared daemon.
LEMMA CloseEffect ==
  ASSUME BaseInv
  PROVE  /\ CloseBegin => CloseBeginDoes
         /\ \A s \in Snap : TeardownNext(s) => TeardownNextDoes(s)
         /\ TryStopSharedDaemon => TryStopDoes
<1>a. TypeOK /\ PhaseOK /\ Closer \in Actor /\ ShapeOK(Closer)
  BY DEF BaseInv, Actor
<1>b. thread[Closer] \in ThreadType /\ thread[Closer].rollback = FALSE
  BY <1>a DEF TypeOK, ThreadType, ShapeOK
<1>1. ASSUME CloseBegin
      PROVE  CloseBeginDoes
  <2>1. UNCHANGED <<shared, rafs, daemons, insts, ref, dbDaemons, dbInst, procs, served,
                    gone, asked, crashes, mode>>
    BY <1>1, Zenon DEF CloseBegin, memory, disk, nydusd, callers, bounds
  <2>2. thread[Closer] = Idle
    BY <1>a, <1>1 DEF CloseBegin, PhaseOK
  <2>3. Holds(Closer, "teardown", None, None, FALSE)
    BY <1>a, <1>b, <1>1, <2>2, IdleFields DEF CloseBegin, TypeOK, Holds, SameRest, ThreadType
  <2>4. todo' \subseteq UNION {insts[d] : d \in daemons}
    BY <1>1, Zenon DEF CloseBegin
  <2> QED  BY <1>1, <2>1, <2>3, <2>4, Zenon DEF CloseBegin, CloseBeginDoes
<1>2. ASSUME NEW s \in Snap, TeardownNext(s)
      PROVE  TeardownNextDoes(s)
  <2>1. UNCHANGED <<phase, shared, rafs, daemons, insts, ref, dbDaemons, dbInst, procs, served,
                    gone, asked, crashes, mode>>
    BY <1>2, Zenon DEF TeardownNext, memory, disk, nydusd, callers, bounds
  <2>2. thread[Closer].d = None
    BY <1>a, <1>2 DEF TeardownNext, ShapeOK
  <2>3. Holds(Closer, "lookup", s, None, FALSE)
    BY <1>a, <1>b, <1>2, <2>2, Zenon DEF TeardownNext, TypeOK, Holds, SameRest, ThreadType
  <2> QED  BY <1>2, <2>1, <2>3, Zenon DEF TeardownNext, TeardownNextDoes
<1>3. ASSUME TryStopSharedDaemon
      PROVE  TryStopDoes
  <2>1. Inside /\ UNCHANGED <<shared, rafs, daemons, insts, ref, dbDaemons, dbInst, procs, served>>
    BY <1>3, Zenon DEF TryStopSharedDaemon, Inside, memory, disk, nydusd, callers, bounds
  <2>2. CASE shared # None /\ ref[shared] = 1
    <3>1. shared \in Daemon
      BY <1>a, <2>2 DEF TypeOK
    <3>2. Takes(Closer, "delete", shared) /\ phase' = phase
      BY <1>a, <1>3, <2>2, <3>1, TakeEffect, Zenon DEF TryStopSharedDaemon
    <3>3. thread[Closer].s = None
      BY <1>a, <1>3 DEF TryStopSharedDaemon, ShapeOK
    <3> QED  BY <1>b, <1>3, <2>1, <2>2, <3>1, <3>2, <3>3, Zenon DEF TryStopSharedDaemon, TryStopDoes, Takes
  <2>3. CASE ~(shared # None /\ ref[shared] = 1)
    <3>1. Ends(Closer) /\ phase' = "closed"
      BY <1>a, <1>3, <2>3, DoneEffect DEF TryStopSharedDaemon
    <3> QED  BY <1>3, <2>1, <3>1, Zenon DEF TryStopSharedDaemon, TryStopDoes
  <2> QED  BY <2>2, <2>3
<1> QED  BY <1>1, <1>2, <1>3

-----------------------------------------------------------------------------
(* What the start of the snapshotter does.                                 *)

\* A call that may fail keeps the number of failures below its bound.
LEMMA FaultBound ==
  ASSUME TypeOK, NoFail \/ (faults < mode.maxFault /\ faults' = faults + 1)
  PROVE  faults' \in 0 .. mode.maxFault
BY ConstAssumption DEF TypeOK, NoFail

\* A recovery takes what the database says, and adds to the running daemons only
\* those on record.  Without a failure it mounts every instance of a daemon that it
\* starts, and it loses none unless a daemon was still starting.
RecoverDoes ==
  /\ phase = "down" /\ phase' = "up"
  /\ rafs' = dbInst /\ daemons' = dbDaemons
  /\ UNCHANGED <<disk, thread, todo, callers, crashes, mode>>
  /\ faults' \in 0 .. mode.maxFault
  /\ procs \subseteq procs' /\ procs' \subseteq procs \cup dbDaemons
  /\ served' \in [Daemon -> SUBSET Snap]
  /\ insts' \in [Daemon -> SUBSET Snap]
  /\ ref' \in [Daemon -> Int]
  /\ \A d \in Daemon : ref'[d] = Cardinality(insts'[d]) + IF shared' = d THEN 1 ELSE 0
  /\ shared' \in dbDaemons \cup {None} /\ (~mode.shared => shared' = None)
  /\ "recover" \notin mode.faults =>
       \A d \in Daemon : /\ d \in procs => served'[d] = served[d]
                         /\ d \in procs' \ procs => served'[d] = Instances(d)
  /\ "starting" \notin mode.faults =>
       insts' = [d \in Daemon |-> IF d \in dbDaemons THEN Instances(d) ELSE {}]

\* What NewFileSystem restores from the records and from the processes it finds.
LEMMA RecoverEffect ==
  ASSUME Counting, TypeOK, Recover
  PROVE  RecoverDoes
<1>1. PICK starting \in SUBSET (dbDaemons \cap procs), skipped \in SUBSET (dbDaemons \cap procs),
           failed \in SUBSET (dbDaemons \ procs) : \E spawned \in SUBSET failed :
             RecoverWith(starting, skipped, failed, spawned)
  BY DEF Recover
<1>2. PICK spawned \in SUBSET failed : RecoverWith(starting, skipped, failed, spawned)
  BY <1>1
<1> DEFINE dead == {d \in dbDaemons \ procs : CanStart(d)}
           live == (dbDaemons \cap procs) \ starting
           kept == (dead \ failed) \cup (IF mode.failover THEN live \ skipped ELSE {})
<1>3. dead \subseteq dbDaemons \ procs /\ kept \subseteq dbDaemons
  OBVIOUS
<1>4. /\ Load(starting)
      /\ failed \subseteq dead /\ skipped \subseteq live
      /\ \/ starting = {} /\ failed = {} /\ skipped = {} /\ NoFail
         \/ starting # {} /\ failed = {} /\ skipped = {} /\ Fail("starting")
         \/ starting = {} /\ failed # {} /\ skipped = {} /\ Fail("recover")
         \/ starting = {} /\ failed = {} /\ skipped # {} /\ Fail("upgrade")
      /\ procs' = procs \cup (dead \ failed) \cup spawned
      /\ IF mode.shared /\ kept # {} THEN shared' \in kept ELSE shared' = None
  BY <1>2 DEF RecoverWith
<1>5. PICK some \in SUBSET Snap :
        served' = [d \in Daemon |->
                     IF d \in dead \ failed THEN Instances(d)
                     ELSE IF d \in spawned /\ mode.shared THEN Instances(d) \cap some
                     ELSE IF d \in spawned THEN Instances(d)
                     ELSE served[d]]
  BY <1>2, Zenon DEF RecoverWith
<1>6. /\ daemons' = dbDaemons
      /\ ref' = [d \in Daemon |-> Cardinality(insts'[d]) + IF shared' = d THEN 1 ELSE 0]
      /\ phase' = "up"
      /\ UNCHANGED <<disk, thread, todo, callers, crashes, mode>>
  BY <1>2 DEF RecoverWith
<1> HIDE DEF dead, live, kept
<1>7. \A d \in Daemon : Instances(d) \subseteq Snap
  BY DEF Instances
<1>8. served' \in [Daemon -> SUBSET Snap]
  BY <1>5, <1>7 DEF TypeOK
<1>9. /\ phase = "down" /\ rafs' = dbInst
      /\ insts' = [d \in Daemon |-> IF d \in dbDaemons \ starting THEN Instances(d) ELSE {}]
  BY <1>4 DEF Load
<1>10. insts' \in [Daemon -> SUBSET Snap]
  BY <1>7, <1>9
<1>11. /\ ref' \in [Daemon -> Int]
       /\ \A d \in Daemon : ref'[d] = Cardinality(insts'[d]) + IF shared' = d THEN 1 ELSE 0
  <2>1. \A d \in Daemon : Cardinality(insts'[d]) \in Nat
    BY <1>10 DEF Counting
  <2> QED  BY <1>6, <2>1
<1>12. faults' \in 0 .. mode.maxFault
  BY <1>4, FaultBound, Zenon DEF Fail
<1>13. procs \subseteq procs' /\ procs' \subseteq procs \cup dbDaemons
  BY <1>3, <1>4
<1>14. shared' \in dbDaemons \cup {None} /\ (~mode.shared => shared' = None)
  BY <1>3, <1>4
<1>15. ASSUME "recover" \notin mode.faults
       PROVE  \A d \in Daemon : /\ d \in procs => served'[d] = served[d]
                                /\ d \in procs' \ procs => served'[d] = Instances(d)
  <2>1. failed = {}
    BY <1>4, <1>15 DEF Fail
  <2> QED  BY <1>3, <1>4, <1>5, <2>1
<1>16. ASSUME "starting" \notin mode.faults
       PROVE  insts' = [d \in Daemon |-> IF d \in dbDaemons THEN Instances(d) ELSE {}]
  <2>1. starting = {}
    BY <1>4, <1>16 DEF Fail
  <2> QED  BY <1>9, <2>1
<1> QED  BY <1>6, <1>8, <1>9, <1>10, <1>11, <1>12, <1>13, <1>14, <1>15, <1>16, Zenon DEF RecoverDoes

-----------------------------------------------------------------------------
(* Types.                                                                  *)

\* The initial states have the types.
LEMMA TypeInit ==
  ASSUME Init
  PROVE  TypeOK
<1>1. mode.maxFault \in Nat /\ mode.maxCrash \in Nat
  BY ConstAssumption DEF Init
<1>2. thread \in [Actor -> ThreadType]
  BY IdleFields DEF Init
<1> QED  BY <1>1, <1>2 DEF Init, TypeOK

\* The start and the end of the process.
LEMMA TypeProcess ==
  ASSUME Counting, TypeOK, PhaseOK, Boot \/ Exit \/ NydusdDies
  PROVE  TypeOK'
<1>1. CASE LoadRefused
  BY <1>1 DEF LoadRefused, TypeOK, vars, memory, disk, nydusd, callers, bounds
<1>2. CASE Recover
  <2>1. RecoverDoes
    BY <1>2, RecoverEffect
  <2> QED  BY <2>1 DEF RecoverDoes, TypeOK, disk, callers
<1>3. CASE BootDaemon
  <2>1. faults' \in 0 .. mode.maxFault
    BY <1>3, FaultBound DEF BootDaemon, Fail
  <2>2. \A d \in Daemon : Instances(d) \subseteq Snap
    BY DEF Instances
  <2>3. rafs' \in [Snap -> Daemon \cup {"new", None}] /\ insts' \in [Daemon -> SUBSET Snap]
    BY <1>3, <2>2 DEF BootDaemon, Load, TypeOK
  <2>4. shared' \in Daemon /\ daemons' \subseteq Daemon /\ dbDaemons' \subseteq Daemon
    BY <1>3 DEF BootDaemon, TypeOK
  <2> QED  BY <1>3, <2>1, <2>3, <2>4 DEF BootDaemon, TypeOK, nydusd, callers
<1>4. ASSUME LoseMemory
      PROVE  /\ shared' \in Daemon \cup {None} /\ daemons' \subseteq Daemon /\ todo' \subseteq Snap
             /\ rafs' \in [Snap -> Daemon \cup {"new", None}]
             /\ insts' \in [Daemon -> SUBSET Snap]
             /\ ref' \in [Daemon -> Int]
             /\ thread' \in [Actor -> ThreadType]
  BY <1>4, IdleFields DEF LoseMemory
<1>5. CASE BootConfig \/ BootStart
  <2>1. faults' \in 0 .. mode.maxFault
    BY <1>5, FaultBound, Zenon DEF BootConfig, BootStart, Fail
  <2>a. shared \in Daemon
    BY <1>5 DEF BootConfig, BootStart, PhaseOK, Booting
  <2>2. CASE BootFails
    <3>1. config' \subseteq Daemon /\ procs' \subseteq Daemon
      BY <1>5, <2>a DEF BootConfig, BootStart, nydusd, TypeOK
    <3> QED  BY <1>4, <1>5, <2>1, <2>2, <3>1
             DEF BootConfig, BootStart, BootFails, TypeOK, nydusd, callers
  <2>3. CASE ~BootFails /\ BootConfig
    BY <2>1, <2>a, <2>3 DEF BootConfig, TypeOK, memory, nydusd, callers
  <2>4. CASE ~BootFails /\ BootStart
    BY <2>1, <2>a, <2>4 DEF BootStart, TypeOK, callers
  <2> QED  BY <1>5, <2>2, <2>3, <2>4
<1>6. CASE Exit
  <2>1. crashes' \in 0 .. mode.maxCrash
    BY <1>6, ConstAssumption DEF Exit, TypeOK
  <2>2. asked' \in [Snap -> 0 .. 2]
    BY <1>6 DEF Exit, TypeOK
  <2> QED  BY <1>4, <1>6, <2>1, <2>2 DEF Exit, TypeOK, disk, nydusd
<1>7. CASE NydusdDies
  <2>1. faults' \in 0 .. mode.maxFault
    BY <1>7, FaultBound DEF NydusdDies, Fail
  <2> QED  BY <1>7, <2>1 DEF NydusdDies, TypeOK, memory, disk, callers
<1> QED  BY <1>1, <1>2, <1>3, <1>5, <1>6, <1>7 DEF Boot

\* The configuration files and the failures of the calls.
LEMMA TypeFiles ==
  ASSUME TypeOK, NEW t \in Actor, ShapeOK(t), Mount(t) \/ ReadyUpdate(t) \/ Umount(t)
  PROVE  config' \subseteq Daemon /\ faults' \in 0 .. mode.maxFault
<1>1. config' \subseteq Daemon
  <2>1. CASE MountConfig(t)
    <3>1. thread[t].d \in Daemon
      BY <2>1 DEF MountConfig, ShapeOK, OnDaemon
    <3> QED  BY <2>1, <3>1 DEF MountConfig, TypeOK
  <2>2. CASE DestroyProcess(t)
    BY <2>2 DEF DestroyProcess, TypeOK
  <2>3. CASE Mount(t) /\ ~MountConfig(t)
    <3>1. UNCHANGED config
      BY <2>3, Zenon DEF Mount, MountDaemon, MountRemote, MountPersist, disk
    <3> QED  BY <3>1 DEF TypeOK
  <2>4. CASE (Umount(t) /\ ~DestroyProcess(t)) \/ ReadyUpdate(t)
    <3>1. UNCHANGED config
      BY <2>4, Zenon DEF Umount, UmountLookup, UmountInstance, UmountRecord, UmountRemote, UmountRef,
                  DestroyDelete, DestroyInstances, ReadyUpdate, disk
    <3> QED  BY <3>1 DEF TypeOK
  <2> QED  BY <2>1, <2>2, <2>3, <2>4
<1>2. NoFail \/ (faults < mode.maxFault /\ faults' = faults + 1)
  <2>1. CASE Mount(t) \/ ReadyUpdate(t)
    BY <2>1, Zenon DEF Mount, MountDaemon, MountConfig, MountRemote, MountPersist, ReadyUpdate,
                       NoFail, Fail, bounds
  <2>2. CASE Umount(t)
    BY <2>2, Zenon DEF Umount, UmountLookup, UmountInstance, UmountRecord, UmountRemote, UmountRef,
                DestroyDelete, DestroyInstances, DestroyProcess, NoFail, Fail, bounds
  <2> QED  BY <2>1, <2>2
<1> QED  BY <1>1, <1>2, FaultBound

\* The steps inside a call.
LEMMA TypeCall ==
  ASSUME Counting, TypeOK, NEW t \in Actor, ShapeOK(t), Mount(t) \/ ReadyUpdate(t) \/ Umount(t)
  PROVE  TypeOK'
<1>a. config' \subseteq Daemon /\ faults' \in 0 .. mode.maxFault
  BY TypeFiles
<1>b. thread[t].pc \in OnDaemon => thread[t].d \in Daemon
  BY DEF ShapeOK
<1>c. thread[t].pc \in {"config", "mount", "persist", "ready", "undb", "unmount"} =>
        thread[t].s \in Snap
  BY InCall
<1>1. CASE MountDaemon(t)
  <2>1. MountDaemonDoes(t)
    BY <1>1, MountEffect
  <2>2. thread' \in [Actor -> ThreadType] /\ daemons' \subseteq Daemon /\ dbDaemons' \subseteq Daemon
    BY <2>1 DEF MountDaemonDoes, Takes, RollsBack, Holds, SameRest, TypeOK
  <2> QED  BY <1>a, <2>1, <2>2 DEF MountDaemonDoes, Inside, TypeOK
<1>2. CASE MountConfig(t)
  <2>1. MountConfigDoes(t)
    BY <1>2, MountEffect
  <2>2. thread[t].d \in Daemon /\ thread[t].s \in Snap
    BY <1>b, <1>c, <2>1 DEF MountConfigDoes, OnDaemon
  <2>3. thread' \in [Actor -> ThreadType]
    BY <2>1 DEF MountConfigDoes, Moves, RollsBack, Holds, SameRest
  <2>4. /\ insts' \in [Daemon -> SUBSET Snap] /\ ref' \in [Daemon -> Int]
        /\ rafs' \in [Snap -> Daemon \cup {"new", None}]
    <3>1. \/ /\ insts' = [insts EXCEPT ![thread[t].d] = @ \cup {thread[t].s}]
             /\ ref' = [ref EXCEPT ![thread[t].d] = @ + 1]
             /\ rafs' = [rafs EXCEPT ![thread[t].s] = thread[t].d]
          \/ UNCHANGED <<insts, ref, rafs>>
      BY <2>1, Zenon DEF MountConfigDoes
    <3>2. /\ insts \in [Daemon -> SUBSET Snap] /\ ref \in [Daemon -> Int]
          /\ rafs \in [Snap -> Daemon \cup {"new", None}]
      BY Zenon DEF TypeOK
    <3> QED  BY <2>2, <3>1, <3>2
  <2> QED  BY <1>a, <2>1, <2>3, <2>4 DEF MountConfigDoes, Inside, TypeOK
<1>3. CASE MountRemote(t)
  <2>1. MountRemoteDoes(t)
    BY <1>3, MountEffect
  <2>2. thread[t].d \in Daemon /\ thread[t].s \in Snap
    BY <1>b, <1>c, <2>1 DEF MountRemoteDoes, OnDaemon
  <2>3. thread' \in [Actor -> ThreadType]
    BY <2>1 DEF MountRemoteDoes, Moves, Ends, Holds, SameRest
  <2>4. procs' \subseteq Daemon /\ served' \in [Daemon -> SUBSET Snap]
    BY <2>1, <2>2 DEF MountRemoteDoes, TypeOK
  <2> QED  BY <1>a, <2>1, <2>3, <2>4 DEF MountRemoteDoes, Inside, TypeOK
<1>4. CASE MountPersist(t) \/ ReadyUpdate(t)
  <2>1. MountPersistDoes(t) \/ ReadyUpdateDoes(t)
    BY <1>4, MountEffect
  <2>2. thread[t].d \in Daemon /\ thread[t].s \in Snap
    BY <1>b, <1>c, <2>1, Zenon DEF MountPersistDoes, ReadyUpdateDoes, OnDaemon
  <2>3. thread' \in [Actor -> ThreadType]
    BY <2>1 DEF MountPersistDoes, ReadyUpdateDoes, RollsBack, Ends, Holds, SameRest
  <2>4. dbInst' \in [Snap -> Daemon \cup {None}]
    BY <2>1, <2>2 DEF MountPersistDoes, ReadyUpdateDoes, TypeOK
  <2> QED  BY <1>a, <2>1, <2>3, <2>4 DEF MountPersistDoes, ReadyUpdateDoes, Inside, TypeOK
<1>5. ASSUME UmountEnds(t)
      PROVE  /\ thread' \in [Actor -> ThreadType]
             /\ phase' \in {phase, "closed"}
             /\ rafs' \in [Snap -> Daemon \cup {"new", None}]
  BY <1>5 DEF UmountEnds, SameRest
<1>6. CASE UmountLookup(t) \/ UmountRef(t)
  <2>1. UmountLookupDoes(t) \/ UmountRefDoes(t)
    BY <1>6, UmountEffect
  <2>2. /\ thread' \in [Actor -> ThreadType]
        /\ phase' \in {phase, "closed"}
        /\ rafs' \in [Snap -> Daemon \cup {"new", None}]
    BY <1>5, <2>1 DEF UmountLookupDoes, UmountRefDoes, Takes, Moves, Holds, SameRest, TypeOK
  <2> QED  BY <1>a, <2>1, <2>2 DEF UmountLookupDoes, UmountRefDoes, Inside, TypeOK
<1>7. CASE UmountInstance(t) \/ DestroyInstances(t)
  <2>1. UmountInstanceDoes(t) \/ DestroyInstancesDoes(t)
    BY <1>7, UmountEffect
  <2>2. thread[t].d \in Daemon
    BY <1>b, <2>1 DEF UmountInstanceDoes, DestroyInstancesDoes, OnDaemon
  <2>3. thread' \in [Actor -> ThreadType]
    BY <2>1 DEF UmountInstanceDoes, DestroyInstancesDoes, Moves, Holds, SameRest
  <2>4. Cardinality(insts[thread[t].d]) \in Nat
    BY <2>2 DEF Counting, TypeOK
  <2>5. insts' \in [Daemon -> SUBSET Snap] /\ ref' \in [Daemon -> Int]
    BY <2>1, <2>2, <2>4 DEF UmountInstanceDoes, DestroyInstancesDoes, TypeOK
  <2> QED  BY <1>a, <2>1, <2>3, <2>5 DEF UmountInstanceDoes, DestroyInstancesDoes, Inside, TypeOK
<1>8. CASE UmountRecord(t)
  <2>1. UmountRecordDoes(t)
    BY <1>8, UmountEffect
  <2>2. thread[t].s \in Snap
    BY <1>c, <2>1 DEF UmountRecordDoes
  <2>3. /\ thread' \in [Actor -> ThreadType]
        /\ phase' \in {phase, "closed"}
        /\ rafs' \in [Snap -> Daemon \cup {"new", None}]
    BY <1>5, <2>1 DEF UmountRecordDoes, Moves, Holds, SameRest, TypeOK
  <2>4. dbInst' \in [Snap -> Daemon \cup {None}]
    BY <2>1, <2>2 DEF UmountRecordDoes, TypeOK
  <2> QED  BY <1>a, <2>1, <2>3, <2>4 DEF UmountRecordDoes, Inside, TypeOK
<1>9. CASE UmountRemote(t)
  <2>1. UmountRemoteDoes(t)
    BY <1>9, UmountEffect
  <2>2. /\ thread' \in [Actor -> ThreadType]
        /\ phase' \in {phase, "closed"}
        /\ rafs' \in [Snap -> Daemon \cup {"new", None}]
    BY <1>5, <2>1 DEF UmountRemoteDoes, Moves, Holds, SameRest, TypeOK
  <2>3. served' \in [Daemon -> SUBSET Snap]
    BY <2>1 DEF UmountRemoteDoes, TypeOK
  <2> QED  BY <1>a, <2>1, <2>2, <2>3 DEF UmountRemoteDoes, Inside, TypeOK
<1>10. CASE DestroyDelete(t)
  <2>1. DestroyDeleteDoes(t)
    BY <1>10, UmountEffect
  <2>2. /\ thread' \in [Actor -> ThreadType]
        /\ phase' \in {phase, "closed"}
        /\ rafs' \in [Snap -> Daemon \cup {"new", None}]
    BY <1>5, <2>1 DEF DestroyDeleteDoes, Moves, Holds, SameRest, TypeOK
  <2>3. daemons' \subseteq Daemon /\ dbDaemons' \subseteq Daemon
    BY <2>1 DEF DestroyDeleteDoes, TypeOK
  <2> QED  BY <1>a, <2>1, <2>2, <2>3 DEF DestroyDeleteDoes, Inside, TypeOK
<1>11. CASE DestroyProcess(t)
  <2>1. DestroyProcessDoes(t)
    BY <1>11, UmountEffect
  <2>2. procs' \subseteq Daemon /\ served' \in [Daemon -> SUBSET Snap] /\ shared' \in Daemon \cup {None}
    BY <2>1, Zenon DEF DestroyProcessDoes, TypeOK
  <2> QED  BY <1>a, <1>5, <2>1, <2>2 DEF DestroyProcessDoes, Inside, TypeOK
<1> QED  BY <1>1, <1>2, <1>3, <1>4, <1>6, <1>7, <1>8, <1>9, <1>10, <1>11, Zenon DEF Mount, Umount

\* The begin of a call and the steps of Close.
LEMMA TypeBegin ==
  ASSUME TypeOK, NEW t \in Thread, NEW s \in Snap,
         MountBegin(t, s) \/ UmountBegin(t, s) \/ ReadyBegin(t, s)
  PROVE  TypeOK'
<1>1. UNCHANGED <<config, faults>>
  BY Zenon DEF MountBegin, UmountBegin, ReadyBegin, disk, bounds
<1>2. CASE MountBegin(t, s)
  <2>1. MountBeginDoes(t, s)
    BY <1>2, BeginEffect
  <2>2. rafs' \in [Snap -> Daemon \cup {"new", None}]
    BY <2>1 DEF MountBeginDoes, TypeOK
  <2> QED  BY <1>1, <2>1, <2>2 DEF MountBeginDoes, Holds, SameRest, Inside, TypeOK
<1>3. CASE UmountBegin(t, s)
  <2>1. UmountBeginDoes(t, s)
    BY <1>3, BeginEffect
  <2>2. asked[s] < 2
    BY <2>1 DEF UmountBeginDoes, MayUmount, TypeOK
  <2>3. asked' \in [Snap -> 0 .. 2]
    BY <2>1, <2>2 DEF UmountBeginDoes, TypeOK
  <2> QED  BY <1>1, <2>1, <2>3 DEF UmountBeginDoes, Holds, SameRest, TypeOK
<1>4. CASE ReadyBegin(t, s)
  <2>1. ReadyBeginDoes(t, s)
    BY <1>4, BeginEffect
  <2> QED  BY <1>1, <2>1 DEF ReadyBeginDoes, Holds, SameRest, Inside, TypeOK
<1> QED  BY <1>2, <1>3, <1>4

\* The steps of Close keep the types.
LEMMA TypeClose ==
  ASSUME BaseInv, Close
  PROVE  TypeOK'
<1>a. TypeOK
  BY DEF BaseInv
<1>1. UNCHANGED <<config, faults>>
  <2>1. CloseBegin \/ TryStopSharedDaemon => UNCHANGED <<config, faults>>
    BY DEF CloseBegin, TryStopSharedDaemon, disk, bounds
  <2>2. \A s \in Snap : TeardownNext(s) => UNCHANGED <<config, faults>>
    BY Zenon DEF TeardownNext, disk, bounds
  <2> QED  BY <2>1, <2>2 DEF Close
<1>2. CASE CloseBegin
  <2>1. CloseBeginDoes
    BY <1>2, CloseEffect
  <2>2. UNION {insts[d] : d \in daemons} \subseteq Snap
    BY <1>a DEF TypeOK
  <2> QED  BY <1>a, <1>1, <2>1, <2>2 DEF CloseBeginDoes, Holds, SameRest, TypeOK
<1>3. ASSUME NEW s \in Snap, TeardownNext(s)
      PROVE  TypeOK'
  <2>1. TeardownNextDoes(s)
    BY <1>3, CloseEffect
  <2> QED  BY <1>a, <1>1, <2>1 DEF TeardownNextDoes, Holds, SameRest, TypeOK
<1>4. CASE TryStopSharedDaemon
  <2>1. TryStopDoes
    BY <1>4, CloseEffect
  <2> QED  BY <1>a, <1>1, <2>1 DEF TryStopDoes, Ends, Holds, SameRest, Inside, TypeOK
<1> QED  BY <1>2, <1>3, <1>4 DEF Close

-----------------------------------------------------------------------------
(* What a goroutine holds, and when.                                       *)

\* A step inside a call changes nothing of the other goroutines and of Teardown's
\* list, and keeps or drops its snapshot.
LEMMA CallForm ==
  ASSUME TypeOK, NEW t \in Actor, ShapeOK(t), Mount(t) \/ ReadyUpdate(t) \/ Umount(t)
  PROVE  /\ SameRest(t) /\ todo' = todo
         /\ thread[t].pc \notin {"idle", "teardown"}
         /\ thread'[t].s \in {thread[t].s, None}
         /\ phase' = phase \/ (t = Closer /\ phase' = "closed" /\ thread'[t] = Idle)
<1>a. UmountEnds(t) => /\ SameRest(t)
                       /\ thread'[t].s \in {thread[t].s, None}
                       /\ phase' = phase \/ (t = Closer /\ phase' = "closed" /\ thread'[t] = Idle)
  BY Zenon DEF UmountEnds
<1>b. \A pc : Moves(t, pc) => SameRest(t) /\ thread'[t].s = thread[t].s
  BY Zenon DEF Moves, Holds
<1>c. \A pc, d : Takes(t, pc, d) => SameRest(t) /\ thread'[t].s = thread[t].s
  BY Zenon DEF Takes, Holds
<1>d. RollsBack(t) => SameRest(t) /\ thread'[t].s = thread[t].s
  BY Zenon DEF RollsBack, Holds
<1>e. Ends(t) => SameRest(t) /\ thread'[t].s = None
  BY IdleFields DEF Ends
<1>f. Inside => todo' = todo
  BY DEF Inside
<1>1. CASE Mount(t) \/ ReadyUpdate(t)
  <2>1. \/ MountDaemonDoes(t) \/ MountConfigDoes(t) \/ MountRemoteDoes(t) \/ MountPersistDoes(t)
        \/ ReadyUpdateDoes(t)
    BY <1>1, MountEffect, Zenon DEF Mount
  <2>2. thread[t].pc \in {"daemon", "config", "mount", "persist", "ready"}
    BY <2>1, Zenon DEF MountDaemonDoes, MountConfigDoes, MountRemoteDoes, MountPersistDoes, ReadyUpdateDoes
  <2>3. todo' = todo /\ phase' = phase
    BY <1>f, <2>1, Zenon DEF MountDaemonDoes, MountConfigDoes, MountRemoteDoes, MountPersistDoes,
                             ReadyUpdateDoes
  <2>4. SameRest(t) /\ thread'[t].s \in {thread[t].s, None}
    BY <1>b, <1>c, <1>d, <1>e, <2>1, Zenon
       DEF MountDaemonDoes, MountConfigDoes, MountRemoteDoes, MountPersistDoes, ReadyUpdateDoes
  <2> QED  BY <2>2, <2>3, <2>4
<1>2. CASE Umount(t)
  <2>1. \/ UmountLookupDoes(t) \/ UmountInstanceDoes(t) \/ UmountRecordDoes(t) \/ UmountRemoteDoes(t)
        \/ UmountRefDoes(t) \/ DestroyDeleteDoes(t) \/ DestroyInstancesDoes(t) \/ DestroyProcessDoes(t)
    BY <1>2, UmountEffect, Zenon DEF Umount
  <2>2. thread[t].pc \in {"lookup", "umount", "undb", "unmount", "unref", "delete", "drop", "kill"}
    BY <2>1, Zenon DEF UmountLookupDoes, UmountInstanceDoes, UmountRecordDoes, UmountRemoteDoes,
                UmountRefDoes, DestroyDeleteDoes, DestroyInstancesDoes, DestroyProcessDoes
  <2>3. /\ todo' = todo /\ SameRest(t) /\ thread'[t].s \in {thread[t].s, None}
        /\ phase' = phase \/ (t = Closer /\ phase' = "closed" /\ thread'[t] = Idle)
    BY <1>a, <1>b, <1>c, <1>f, <2>1, Zenon
       DEF UmountLookupDoes, UmountInstanceDoes, UmountRecordDoes, UmountRemoteDoes,
           UmountRefDoes, DestroyDeleteDoes, DestroyInstancesDoes, DestroyProcessDoes
  <2> QED  BY <2>2, <2>3
<1> QED  BY <1>1, <1>2

\* The shape of the goroutine that takes a step inside a call.
LEMMA CallShape ==
  ASSUME TypeOK, NEW t \in Actor, ShapeOK(t), (t \in Thread /\ (Mount(t) \/ ReadyUpdate(t))) \/ Umount(t)
  PROVE  ShapeOK(t)'
<1>a. ASSUME Ends(t) PROVE ShapeOK(t)'
  BY <1>a, IdleFields DEF Ends, ShapeOK, OnDaemon, MountPC
<1>b. ASSUME UmountEnds(t) PROVE ShapeOK(t)'
  BY <1>b, IdleFields DEF UmountEnds, ShapeOK, OnDaemon, MountPC
<1>c. ASSUME RollsBack(t), t # Closer, thread[t].pc \in MountPC PROVE ShapeOK(t)'
  BY <1>c DEF RollsBack, Holds, ShapeOK, OnDaemon, MountPC
<1>d. ASSUME NEW d \in Daemon, NEW pc \in {"config", "umount"}, Takes(t, pc, d),
             thread[t].pc \in {"daemon", "lookup"}, t = Closer => pc = "umount"
      PROVE  ShapeOK(t)'
  BY <1>d DEF Takes, Holds, ShapeOK, OnDaemon, MountPC
<1>e. ASSUME NEW pc \in {"mount", "persist"}, Moves(t, pc), thread[t].pc \in OnDaemon \ {"delete", "drop", "kill"},
             t # Closer
      PROVE  ShapeOK(t)'
  BY <1>e DEF Moves, Holds, ShapeOK, OnDaemon, MountPC
<1>f. ASSUME NEW pc \in {"undb", "unmount", "unref", "delete", "drop", "kill"}, Moves(t, pc),
             thread[t].pc \in OnDaemon,
             thread[t].pc \in {"delete", "drop", "kill"} => pc \in {"delete", "drop", "kill"}
      PROVE  ShapeOK(t)'
  BY <1>f DEF Moves, Holds, ShapeOK, OnDaemon, MountPC
<1>1. CASE t \in Thread /\ (Mount(t) \/ ReadyUpdate(t))
  <2>0. t # Closer
    BY <1>1, ConstAssumption
  <2>1. \/ MountDaemonDoes(t) \/ MountConfigDoes(t) \/ MountRemoteDoes(t) \/ MountPersistDoes(t)
        \/ ReadyUpdateDoes(t)
    BY <1>1, MountEffect, Zenon DEF Mount
  <2>2. CASE MountDaemonDoes(t)
    BY <1>c, <1>d, <2>0, <2>2 DEF MountDaemonDoes, MountPC
  <2>3. CASE MountConfigDoes(t)
    BY <1>c, <1>e, <2>0, <2>3, Zenon DEF MountConfigDoes, MountPC, OnDaemon
  <2>4. CASE MountRemoteDoes(t)
    BY <1>a, <1>e, <2>0, <2>4 DEF MountRemoteDoes, OnDaemon
  <2>5. CASE MountPersistDoes(t) \/ ReadyUpdateDoes(t)
    BY <1>a, <1>c, <2>0, <2>5 DEF MountPersistDoes, ReadyUpdateDoes, MountPC
  <2> QED  BY <2>1, <2>2, <2>3, <2>4, <2>5
<1>2. CASE Umount(t)
  <2>1. \/ UmountLookupDoes(t) \/ UmountInstanceDoes(t) \/ UmountRecordDoes(t) \/ UmountRemoteDoes(t)
        \/ UmountRefDoes(t) \/ DestroyDeleteDoes(t) \/ DestroyInstancesDoes(t) \/ DestroyProcessDoes(t)
    BY <1>2, UmountEffect, Zenon DEF Umount
  <2>2. CASE UmountLookupDoes(t)
    <3>1. daemons \subseteq Daemon
      BY DEF TypeOK
    <3> QED  BY <1>b, <1>d, <2>2, <3>1 DEF UmountLookupDoes
  <2>3. CASE UmountInstanceDoes(t) \/ UmountRecordDoes(t) \/ UmountRemoteDoes(t)
    BY <1>b, <1>f, <2>3 DEF UmountInstanceDoes, UmountRecordDoes, UmountRemoteDoes, OnDaemon
  <2>4. CASE UmountRefDoes(t) \/ DestroyDeleteDoes(t)
    BY <1>b, <1>f, <2>4 DEF UmountRefDoes, DestroyDeleteDoes, OnDaemon
  <2>5. CASE DestroyInstancesDoes(t) \/ DestroyProcessDoes(t)
    BY <1>b, <1>f, <2>5, Zenon DEF DestroyInstancesDoes, DestroyProcessDoes, OnDaemon
  <2> QED  BY <2>1, <2>2, <2>3, <2>4, <2>5
<1> QED  BY <1>1, <1>2

\* The steps that start, end or leave alone the process.
ProcessStep == Boot \/ Exit \/ NydusdDies \/ UNCHANGED vars

\* They touch no call, except that the end of the process ends every call.
LEMMA ProcessForm ==
  ASSUME BaseInv, ProcessStep
  PROVE  /\ \/ UNCHANGED <<thread, todo>>
            \/ thread' = [t \in Actor |-> Idle] /\ todo' = {} /\ phase' = "down"
         /\ PhaseOK' /\ phase' \in {phase, "up", "down"} \cup Booting
<1>a. Counting /\ TypeOK /\ PhaseOK /\ Closer \in Actor
  BY DEF BaseInv, Actor
<1>b. ASSUME LoseMemory, phase' = "down" PROVE PhaseOK'
  BY <1>a, <1>b, IdleFields DEF LoseMemory, PhaseOK, Booting
<1>1. CASE UNCHANGED vars \/ LoadRefused
  BY <1>a, <1>1 DEF LoadRefused, vars, memory, disk, PhaseOK
<1>2. CASE Recover
  <2>1. RecoverDoes
    BY <1>a, <1>2, RecoverEffect
  <2> QED  BY <1>a, <2>1 DEF RecoverDoes, PhaseOK, Booting
<1>3. CASE BootDaemon
  BY <1>a, <1>3 DEF BootDaemon, Load, Fresh, PhaseOK, Booting
<1>4. CASE BootConfig \/ BootStart
  <2>1. CASE BootFails
    BY <1>b, <2>1 DEF BootFails, LoseMemory
  <2>2. CASE ~BootFails
    <3>1. /\ UNCHANGED <<shared, rafs, thread, todo, dbInst>> /\ phase \in Booting
          /\ phase' \in {"boot_start", "up"}
      BY <1>4, <2>2 DEF BootConfig, BootStart, memory, Booting
    <3> QED  BY <1>a, <3>1 DEF PhaseOK, Booting
  <2> QED  BY <2>1, <2>2
<1>5. CASE Exit
  BY <1>b, <1>5 DEF Exit, LoseMemory
<1>6. CASE NydusdDies
  BY <1>a, <1>6 DEF NydusdDies, memory, disk, PhaseOK
<1> QED  BY <1>1, <1>2, <1>3, <1>4, <1>5, <1>6 DEF ProcessStep, Boot

\* Types and shapes are kept by every step.
LEMMA BaseStep ==
  ASSUME BaseInv, [Next]_vars
  PROVE  BaseInv'
<1>a. Counting /\ TypeOK /\ PhaseOK /\ (\A t \in Actor : ShapeOK(t)) /\ Closer \in Actor /\ Thread \subseteq Actor
  BY DEF BaseInv, Actor
<1>b. ASSUME NEW t \in Actor, SameRest(t), ShapeOK(t)'
      PROVE  \A u \in Actor : ShapeOK(u)'
  <2> TAKE u \in Actor
  <2>1. CASE u = t
    BY <1>b, <2>1
  <2>2. CASE u # t
    BY <1>a, <1>b, <2>2, Zenon DEF SameRest, ShapeOK
  <2> QED  BY <2>1, <2>2
<1>1. CASE ProcessStep
  <2>1. TypeOK'
    <3>1. CASE UNCHANGED vars
      BY <1>a, <3>1 DEF vars, memory, disk, nydusd, callers, bounds, TypeOK
    <3>2. CASE ~UNCHANGED vars
      BY <1>a, <1>1, <3>2, TypeProcess DEF ProcessStep
    <3> QED  BY <3>1, <3>2
  <2>2. PhaseOK'
    BY <1>1, ProcessForm
  <2>3. CASE UNCHANGED thread
    BY <1>a, <2>1, <2>2, <2>3 DEF BaseInv, ShapeOK
  <2>4. CASE thread' = [t \in Actor |-> Idle]
    BY <2>1, <2>2, <2>4, IdleFields DEF BaseInv, ShapeOK, OnDaemon, MountPC
  <2> QED  BY <1>1, <2>3, <2>4, ProcessForm
<1>2. ASSUME NEW t \in Actor, (t \in Thread /\ (Mount(t) \/ ReadyUpdate(t))) \/ Umount(t)
      PROVE  BaseInv'
  <2>1. TypeOK' /\ ShapeOK(t)'
    BY <1>a, <1>2, TypeCall, CallShape
  <2>2. /\ SameRest(t) /\ todo' = todo
        /\ thread[t].pc \notin {"idle", "teardown"}
        /\ thread'[t].s \in {thread[t].s, None}
        /\ phase' = phase \/ (t = Closer /\ phase' = "closed")
    BY <1>a, <1>2, CallForm
  <2>3. thread[t] # Idle /\ None \notin todo
    BY <1>a, <2>2, IdleFields, ConstAssumption DEF TypeOK
  <2>4. PhaseOK'
    <3>1. phase \notin Booting \cup {"down"} /\ (t = Closer => phase # "up")
      BY <1>a, <2>3 DEF PhaseOK
    <3>2. t # Closer => thread'[Closer] = thread[Closer]
      BY <1>a, <2>2 DEF SameRest
    <3> QED  BY <1>a, <2>2, <2>3, <3>1, <3>2 DEF PhaseOK, Booting
  <2> QED  BY <1>b, <2>1, <2>2, <2>4 DEF BaseInv
<1>3. ASSUME NEW t \in Thread, NEW s \in Snap,
             MountBegin(t, s) \/ UmountBegin(t, s) \/ ReadyBegin(t, s)
      PROVE  BaseInv'
  <2>1. TypeOK'
    BY <1>a, <1>3, TypeBegin
  <2>2. MountBeginDoes(t, s) \/ UmountBeginDoes(t, s) \/ ReadyBeginDoes(t, s)
    BY <1>a, <1>3, BeginEffect
  <2>3. /\ SameRest(t) /\ phase' = phase /\ todo' = todo /\ t # Closer
        /\ phase \in {"up", "closing"}
    BY <2>2, ConstAssumption
       DEF MountBeginDoes, UmountBeginDoes, ReadyBeginDoes, Serving, Inside, Holds
  <2>4. ShapeOK(t)'
    <3>1. thread'[t].s = s /\ thread'[t].pc \in {"daemon", "lookup", "ready"} /\ s # None
      BY <2>2, ConstAssumption, Zenon DEF MountBeginDoes, UmountBeginDoes, ReadyBeginDoes, Holds
    <3>2. thread'[t].pc = "ready" => thread'[t].d \in Daemon
      BY <1>a, <2>2, Zenon DEF MountBeginDoes, UmountBeginDoes, ReadyBeginDoes, Holds, TypeOK
    <3> QED  BY <2>3, <3>1, <3>2 DEF ShapeOK, OnDaemon
  <2>5. PhaseOK'
    BY <1>a, <2>3 DEF PhaseOK, Booting, SameRest
  <2> QED  BY <1>a, <1>b, <2>1, <2>3, <2>4, <2>5 DEF BaseInv
<1>4. CASE Close
  <2>1. TypeOK'
    BY <1>4, TypeClose
  <2>a. thread[Closer].pc = "teardown" => thread[Closer] # Idle
    BY IdleFields
  <2>2. CASE CloseBegin
    <3>1. CloseBeginDoes
      BY <2>2, CloseEffect
    <3>2. ShapeOK(Closer)'
      BY <3>1 DEF CloseBeginDoes, Holds, ShapeOK, OnDaemon, MountPC
    <3>3. PhaseOK'
      BY <2>1, <3>1, ConstAssumption DEF CloseBeginDoes, Holds, PhaseOK, Booting, TypeOK
    <3> QED  BY <1>a, <1>b, <2>1, <3>1, <3>2, <3>3 DEF BaseInv, CloseBeginDoes, Holds
  <2>3. ASSUME NEW s \in Snap, TeardownNext(s) PROVE BaseInv'
    <3>1. TeardownNextDoes(s)
      BY <2>3, CloseEffect, Zenon
    <3>2. ShapeOK(Closer)'
      BY <3>1, ConstAssumption DEF TeardownNextDoes, Holds, ShapeOK, OnDaemon, MountPC
    <3>3. PhaseOK'
      BY <1>a, <2>a, <3>1, Zenon DEF TeardownNextDoes, Holds, PhaseOK, Booting
    <3> QED  BY <1>a, <1>b, <2>1, <3>1, <3>2, <3>3, Zenon DEF BaseInv, TeardownNextDoes, Holds
  <2>4. CASE TryStopSharedDaemon
    <3>1. TryStopDoes
      BY <2>4, CloseEffect, Zenon
    <3>2. ShapeOK(Closer)'
      BY <3>1, IdleFields DEF TryStopDoes, Ends, Holds, ShapeOK, OnDaemon, MountPC
    <3>3. PhaseOK'
      BY <1>a, <2>a, <3>1, IdleFields DEF TryStopDoes, Ends, Holds, PhaseOK, Booting, Inside
    <3> QED  BY <1>a, <1>b, <2>1, <3>1, <3>2, <3>3, Zenon DEF BaseInv, TryStopDoes, Ends, Holds
  <2> QED  BY <1>4, <2>2, <2>3, <2>4 DEF Close
<1> QED  BY <1>a, <1>1, <1>2, <1>3, <1>4, Zenon DEF Next, ProcessStep

\* The first state has the types and shapes.
LEMMA BaseInit ==
  ASSUME Counting, Init
  PROVE  BaseInv
<1>1. TypeOK
  BY TypeInit
<1>2. PhaseOK
  BY IdleFields DEF Init, PhaseOK, Booting, Actor
<1>3. \A t \in Actor : ShapeOK(t)
  BY IdleFields DEF Init, ShapeOK, OnDaemon, MountPC
<1> QED  BY <1>1, <1>2, <1>3 DEF BaseInv

-----------------------------------------------------------------------------
(* Which call is at work on which snapshot and daemon, when requests are   *)
(* not served beside Close.                                                *)

Calm == "close" \notin mode.races

\* Close begins after the last call.
ClosedOK ==
  /\ phase = "closing" => \A t \in Thread : thread[t] = Idle
  /\ phase = "closed" => \A t \in Actor : thread[t] = Idle

\* A Mount, its rollback and a WaitUntilReady have their snapshot to themselves; an
\* Umount that is asked for is one of a removed snapshot.
MountSide(t) == thread[t].pc \in MountPC \/ thread[t].rollback
ExclusiveOK(t) ==
  /\ MountSide(t) => /\ thread[t].s \notin gone
                     /\ \A u \in Actor \ {t} : thread[u].s # thread[t].s
  /\ ~MountSide(t) /\ t \in Thread /\ thread[t].pc # "idle" => thread[t].s \in gone

\* The dedicated daemon that a Mount has made is not used by anyone else.
OwnDaemonOK(t) ==
  ~mode.shared /\ thread[t].pc \in {"config", "mount", "persist"} =>
    /\ \A u \in Actor \ {t} : thread[u].d # thread[t].d
    /\ \A s \in Snap : rafs[s] = thread[t].d => s = thread[t].s
    /\ \A s \in Snap : dbInst[s] # thread[t].d

CalmInv == Calm =>
  ClosedOK /\ \A t \in Actor : ExclusiveOK(t) /\ OwnDaemonOK(t)

\* While a call is under way the snapshotter serves, and while Close is at work no
\* call is.
LEMMA CallPhase ==
  ASSUME BaseInv, ClosedOK, NEW t \in Actor, thread[t].pc # "idle"
  PROVE  /\ t \in Thread => phase = "up" /\ thread[Closer] = Idle
         /\ t = Closer => phase = "closing" /\ \A u \in Thread : thread[u] = Idle
<1>1. thread[t] # Idle
  BY IdleFields
<1>2. phase \in Booting \cup {"up", "closing", "closed", "down"}
  BY DEF BaseInv, TypeOK, Booting
<1> QED  BY <1>1, <1>2 DEF BaseInv, PhaseOK, ClosedOK

\* A call stays on its side, Mount or Umount, until it ends.
LEMMA CallSide ==
  ASSUME TypeOK, NEW t \in Actor, ShapeOK(t), (t \in Thread /\ (Mount(t) \/ ReadyUpdate(t))) \/ Umount(t)
  PROVE  \/ thread'[t].pc \in {"idle", "teardown"} /\ thread'[t].s = None /\ ~thread'[t].rollback
         \/ (MountSide(t)' <=> MountSide(t)) /\ thread'[t].s = thread[t].s
<1>a. ASSUME Ends(t) \/ UmountEnds(t)
      PROVE  thread'[t].pc \in {"idle", "teardown"} /\ thread'[t].s = None /\ ~thread'[t].rollback
  BY <1>a, IdleFields DEF Ends, UmountEnds
<1>b. ASSUME RollsBack(t), thread[t].pc \in MountPC
      PROVE  (MountSide(t)' <=> MountSide(t)) /\ thread'[t].s = thread[t].s
  BY <1>b DEF RollsBack, Holds, MountSide
<1>c. ASSUME NEW pc, Moves(t, pc), pc \in MountPC <=> thread[t].pc \in MountPC
      PROVE  (MountSide(t)' <=> MountSide(t)) /\ thread'[t].s = thread[t].s
  BY <1>c, Zenon DEF Moves, Holds, MountSide
<1>d. ASSUME NEW pc, NEW d, Takes(t, pc, d), pc \in MountPC <=> thread[t].pc \in MountPC
      PROVE  (MountSide(t)' <=> MountSide(t)) /\ thread'[t].s = thread[t].s
  BY <1>d, Zenon DEF Takes, Holds, MountSide
<1>1. CASE Mount(t) \/ ReadyUpdate(t)
  <2>1. \/ MountDaemonDoes(t) \/ MountConfigDoes(t) \/ MountRemoteDoes(t) \/ MountPersistDoes(t)
        \/ ReadyUpdateDoes(t)
    BY <1>1, MountEffect, Zenon DEF Mount
  <2>2. CASE MountDaemonDoes(t)
    BY <1>b, <1>d, <2>2, Zenon DEF MountDaemonDoes, MountPC
  <2>3. CASE MountConfigDoes(t)
    BY <1>b, <1>c, <2>3, Zenon DEF MountConfigDoes, MountPC
  <2>4. CASE MountRemoteDoes(t)
    BY <1>a, <1>c, <2>4, Zenon DEF MountRemoteDoes, MountPC
  <2>5. CASE MountPersistDoes(t) \/ ReadyUpdateDoes(t)
    BY <1>a, <1>b, <2>5 DEF MountPersistDoes, ReadyUpdateDoes, MountPC
  <2> QED  BY <2>1, <2>2, <2>3, <2>4, <2>5, Zenon
<1>2. CASE Umount(t)
  <2>1. \/ UmountLookupDoes(t) \/ UmountInstanceDoes(t) \/ UmountRecordDoes(t) \/ UmountRemoteDoes(t)
        \/ UmountRefDoes(t) \/ DestroyDeleteDoes(t) \/ DestroyInstancesDoes(t) \/ DestroyProcessDoes(t)
    BY <1>2, UmountEffect, Zenon DEF Umount
  <2>2. CASE UmountLookupDoes(t)
    BY <1>a, <1>d, <2>2, Zenon DEF UmountLookupDoes, MountPC
  <2>3. CASE UmountInstanceDoes(t) \/ UmountRecordDoes(t) \/ UmountRemoteDoes(t)
    BY <1>a, <1>c, <2>3, Zenon DEF UmountInstanceDoes, UmountRecordDoes, UmountRemoteDoes, MountPC
  <2>4. CASE UmountRefDoes(t) \/ DestroyDeleteDoes(t)
    BY <1>a, <1>c, <2>4, Zenon DEF UmountRefDoes, DestroyDeleteDoes, MountPC
  <2>5. CASE DestroyInstancesDoes(t) \/ DestroyProcessDoes(t)
    BY <1>a, <1>c, <2>5 DEF DestroyInstancesDoes, DestroyProcessDoes, MountPC
  <2> QED  BY <2>1, <2>2, <2>3, <2>4, <2>5, Zenon
<1> QED  BY <1>1, <1>2

\* Where the daemon of a call comes from, and what a call writes to the global cache
\* and to the database.
NewDaemon(t) ==
  \/ thread'[t].d \in {None, thread[t].d}
  \/ thread[t].pc = "daemon" /\ mode.shared /\ shared \in Daemon /\ thread'[t].d = shared
  \/ thread[t].pc = "daemon" /\ thread'[t].d \in Daemon /\ Fresh(thread'[t].d)
  \/ thread[t].pc = "lookup" /\ rafs[thread[t].s] \in daemons /\ thread'[t].d = rafs[thread[t].s]
NewCache(t) ==
  \A x \in Snap :
    \/ rafs'[x] = rafs[x]
    \/ x = thread[t].s /\ thread[t].pc = "config" /\ rafs'[x] = thread[t].d
    \/ x = thread[t].s /\ thread[t].rollback /\ rafs'[x] = None
NewRecord(t) ==
  \A x \in Snap :
    \/ dbInst'[x] = dbInst[x]
    \/ x = thread[t].s /\ thread[t].pc \in {"persist", "ready"} /\ dbInst'[x] = thread[t].d
    \/ x = thread[t].s /\ thread[t].pc = "undb" /\ dbInst'[x] = None

\* The data a step of a call changes is its own: its snapshot, its daemon.
LEMMA CallData ==
  ASSUME TypeOK, NEW t \in Actor, ShapeOK(t), Mount(t) \/ ReadyUpdate(t) \/ Umount(t)
  PROVE  NewDaemon(t) /\ NewCache(t) /\ NewRecord(t) /\ gone' = gone /\ asked' = asked
<1>a. ASSUME UmountEnds(t)
      PROVE  NewDaemon(t) /\ NewCache(t)
  BY <1>a, Zenon DEF UmountEnds, NewDaemon, NewCache
<1>b. ASSUME NEW pc, Moves(t, pc) PROVE NewDaemon(t)
  BY <1>b, Zenon DEF Moves, Holds, NewDaemon
<1>c. ASSUME RollsBack(t) PROVE NewDaemon(t)
  BY <1>c, Zenon DEF RollsBack, Holds, NewDaemon
<1>d. ASSUME Ends(t) PROVE NewDaemon(t)
  BY <1>d, IdleFields, Zenon DEF Ends, NewDaemon
<1>e. ASSUME UNCHANGED rafs PROVE NewCache(t)
  BY <1>e, Zenon DEF NewCache
<1>f. ASSUME UNCHANGED dbInst PROVE NewRecord(t)
  BY <1>f, Zenon DEF NewRecord
<1>g. ASSUME thread[t].s \in Snap, thread[t].pc \in {"persist", "ready"},
             dbInst' = [dbInst EXCEPT ![thread[t].s] = thread[t].d]
      PROVE  NewRecord(t)
  BY <1>g DEF TypeOK, NewRecord
<1>1. CASE Mount(t) \/ ReadyUpdate(t)
  <2>1. \/ MountDaemonDoes(t) \/ MountConfigDoes(t) \/ MountRemoteDoes(t) \/ MountPersistDoes(t)
        \/ ReadyUpdateDoes(t)
    BY <1>1, MountEffect, Zenon DEF Mount
  <2>2. CASE MountDaemonDoes(t)
    <3>1. NewDaemon(t)
      BY <1>c, <2>2, Zenon DEF MountDaemonDoes, Takes, Holds, NewDaemon
    <3> QED  BY <1>e, <1>f, <2>2, <3>1, Zenon DEF MountDaemonDoes, Inside
  <2>3. CASE MountConfigDoes(t)
    <3>1. NewDaemon(t)
      BY <1>b, <1>c, <2>3, Zenon DEF MountConfigDoes
    <3>2. NewCache(t)
      BY <1>e, <2>3 DEF MountConfigDoes, NewCache, TypeOK
    <3> QED  BY <1>f, <2>3, <3>1, <3>2, Zenon DEF MountConfigDoes, Inside
  <2>4. CASE MountRemoteDoes(t)
    BY <1>b, <1>d, <1>e, <1>f, <2>4, Zenon DEF MountRemoteDoes, Inside
  <2>5. CASE MountPersistDoes(t) \/ ReadyUpdateDoes(t)
    <3>1. thread[t].pc \in {"persist", "ready"}
      BY <2>5, Zenon DEF MountPersistDoes, ReadyUpdateDoes
    <3>2. thread[t].s \in Snap
      BY <3>1, InCall
    <3> QED  BY <1>c, <1>d, <1>e, <1>f, <1>g, <2>5, <3>1, <3>2, Zenon
             DEF MountPersistDoes, ReadyUpdateDoes, Inside
  <2> QED  BY <2>1, <2>2, <2>3, <2>4, <2>5
<1>2. CASE Umount(t)
  <2>1. \/ UmountLookupDoes(t) \/ UmountInstanceDoes(t) \/ UmountRecordDoes(t) \/ UmountRemoteDoes(t)
        \/ UmountRefDoes(t) \/ DestroyDeleteDoes(t) \/ DestroyInstancesDoes(t) \/ DestroyProcessDoes(t)
    BY <1>2, UmountEffect, Zenon DEF Umount
  <2>2. CASE UmountLookupDoes(t)
    <3>1. NewDaemon(t)
      BY <1>a, <2>2, Zenon DEF UmountLookupDoes, Takes, Holds, NewDaemon
    <3> QED  BY <1>a, <1>e, <1>f, <2>2, <3>1, Zenon DEF UmountLookupDoes, Inside
  <2>3. CASE UmountRecordDoes(t)
    <3>1. thread[t].s \in Snap
      BY <2>3, InCall DEF UmountRecordDoes
    <3>2. NewRecord(t)
      BY <1>f, <2>3, <3>1, Zenon DEF UmountRecordDoes, NewRecord, TypeOK
    <3> QED  BY <1>a, <1>b, <1>e, <2>3, <3>2, Zenon DEF UmountRecordDoes, Inside
  <2>4. CASE UmountInstanceDoes(t) \/ UmountRemoteDoes(t) \/ UmountRefDoes(t)
    BY <1>a, <1>b, <1>e, <1>f, <2>4, Zenon DEF UmountInstanceDoes, UmountRemoteDoes, UmountRefDoes, Inside
  <2>5. CASE DestroyDeleteDoes(t) \/ DestroyInstancesDoes(t) \/ DestroyProcessDoes(t)
    BY <1>a, <1>b, <1>e, <1>f, <2>5, Zenon
       DEF DestroyDeleteDoes, DestroyInstancesDoes, DestroyProcessDoes, Inside
  <2> QED  BY <2>1, <2>2, <2>3, <2>4, <2>5
<1> QED  BY <1>1, <1>2

\* Every step keeps that a closed file system serves no call.
LEMMA ClosedStep ==
  ASSUME BaseInv, Calm, CalmInv, [Next]_vars
  PROVE  ClosedOK'
<1>a. TypeOK /\ ClosedOK /\ (\A t \in Actor : ShapeOK(t)) /\ Actor = Thread \cup {Closer}
  BY DEF BaseInv, CalmInv, Actor
<1>1. CASE ProcessStep
  BY <1>a, <1>1, ProcessForm DEF ClosedOK, Booting
<1>2. ASSUME NEW t \in Actor, Mount(t) \/ ReadyUpdate(t) \/ Umount(t)
      PROVE  ClosedOK'
  <2>1. /\ SameRest(t) /\ thread[t].pc \notin {"idle", "teardown"}
        /\ phase' = phase \/ (t = Closer /\ phase' = "closed" /\ thread'[t] = Idle)
    BY <1>a, <1>2, CallForm
  <2>2. CASE t \in Thread
    <3>1. phase' = "up"
      BY <2>1, <2>2, <1>a, CallPhase, ConstAssumption
    <3> QED  BY <3>1 DEF ClosedOK
  <2>3. CASE t = Closer
    <3>1. phase = "closing" /\ \A u \in Thread : thread'[u] = Idle
      BY <1>a, <2>1, <2>3, CallPhase, ConstAssumption DEF SameRest
    <3> QED  BY <1>a, <2>1, <2>3, <3>1 DEF ClosedOK
  <2> QED  BY <1>a, <2>2, <2>3
<1>3. ASSUME NEW t \in Thread, NEW s \in Snap,
             MountBegin(t, s) \/ UmountBegin(t, s) \/ ReadyBegin(t, s)
      PROVE  ClosedOK'
  <2>1. MountBeginDoes(t, s) \/ UmountBeginDoes(t, s) \/ ReadyBeginDoes(t, s)
    BY <1>a, <1>3, BeginEffect
  <2>2. phase' = "up"
    BY <2>1, Zenon DEF MountBeginDoes, UmountBeginDoes, ReadyBeginDoes, Serving, Calm
  <2> QED  BY <2>2 DEF ClosedOK
<1>4. CASE Close
  <2>1. CASE CloseBegin
    <3>1. CloseBeginDoes
      BY <2>1, CloseEffect
    <3> QED  BY <3>1, <1>a, ConstAssumption DEF CloseBeginDoes, Calm, ClosedOK, Holds, SameRest
  <2>a. thread[Closer].pc = "teardown" => phase = "closing" /\ \A u \in Thread : thread[u] = Idle
    BY <1>a, CallPhase, ConstAssumption
  <2>2. ASSUME NEW s \in Snap, TeardownNext(s) PROVE ClosedOK'
    <3>1. TeardownNextDoes(s)
      BY <2>2, CloseEffect
    <3> QED  BY <2>a, <3>1, <1>a, ConstAssumption, Zenon DEF TeardownNextDoes, ClosedOK, Holds, SameRest
  <2>3. CASE TryStopSharedDaemon
    <3>1. TryStopDoes
      BY <2>3, CloseEffect
    <3>2. /\ SameRest(Closer) /\ thread[Closer].pc = "teardown"
          /\ phase' = phase \/ (phase' = "closed" /\ thread'[Closer] = Idle)
      BY <3>1, Zenon DEF TryStopDoes, Ends, Holds
    <3>3. \A u \in Thread : thread'[u] = Idle
      BY <1>a, <2>a, <3>2, ConstAssumption, Zenon DEF SameRest
    <3>4. phase = "closing"
      BY <2>a, <3>2, Zenon
    <3> QED  BY <1>a, <3>2, <3>3, <3>4 DEF ClosedOK
  <2> QED  BY <1>4, <2>1, <2>2, <2>3, Zenon DEF Close
<1> QED  BY <1>a, <1>1, <1>2, <1>3, <1>4, Zenon DEF Next, ProcessStep

\* The process starts and ends without calls.
LEMMA ProcessIdle ==
  ASSUME BaseInv, ProcessStep
  PROVE  UNCHANGED vars \/ \A t \in Actor : thread'[t] = Idle
<1>1. CASE UNCHANGED vars \/ LoadRefused
  BY <1>1 DEF LoadRefused
<1>2. CASE Recover
  <2>1. phase = "down"
    BY <1>2, RecoverEffect DEF RecoverDoes, BaseInv
  <2> QED  BY <1>2, <2>1, RecoverEffect, Zenon DEF RecoverDoes, BaseInv, PhaseOK
<1>3. CASE BootDaemon \/ BootConfig \/ BootStart \/ Exit \/ NydusdDies
  <2>1. phase \in Booting \cup {"down"} \/ Exit
    BY <1>3 DEF BootDaemon, Load, BootConfig, BootStart, NydusdDies, Booting
  <2>2. UNCHANGED thread \/ thread' = [t \in Actor |-> Idle]
    BY <1>3, ProcessForm DEF ProcessStep, Boot
  <2>3. Exit => thread' = [t \in Actor |-> Idle]
    BY DEF Exit, LoseMemory
  <2> QED  BY <2>1, <2>2, <2>3 DEF BaseInv, PhaseOK
<1> QED  BY <1>1, <1>2, <1>3 DEF ProcessStep, Boot

\* So does Close.
LEMMA CloseIdle ==
  ASSUME BaseInv, Calm, CalmInv, Close, NEW u \in Thread
  PROVE  thread[u] = Idle /\ thread'[u] = Idle /\ SameRest(Closer)
<1>a. ClosedOK /\ Actor = Thread \cup {Closer} /\ u # Closer
  BY ConstAssumption DEF CalmInv, Actor
<1>1. SameRest(Closer) /\ (CloseBeginDoes \/ thread[Closer].pc = "teardown")
  BY CloseEffect, Zenon DEF Close, CloseBeginDoes, TeardownNextDoes, TryStopDoes, Ends, Holds
<1>2. thread[u] = Idle
  BY <1>a, <1>1, CallPhase, ConstAssumption, Zenon DEF CloseBeginDoes, Calm
<1> QED  BY <1>a, <1>1, <1>2 DEF SameRest

\* Every step keeps that the mount side of a snapshot has one goroutine.
LEMMA ExclusiveStep ==
  ASSUME BaseInv, Calm, CalmInv, [Next]_vars, NEW u \in Actor
  PROVE  ExclusiveOK(u)'
<1>a. /\ TypeOK /\ ClosedOK /\ ExclusiveOK(u) /\ Actor = Thread \cup {Closer}
      /\ \A t \in Actor : ShapeOK(t)
  BY DEF BaseInv, CalmInv, Actor
<1>b. MountSide(u) => thread[u].s \in Snap
  BY <1>a, InCall DEF MountSide, MountPC
<1>c. u = Closer => ~MountSide(u)
  BY <1>a DEF ShapeOK, MountSide
<1>d. ASSUME thread'[u] = Idle PROVE ExclusiveOK(u)'
  BY <1>d, IdleFields DEF ExclusiveOK, MountSide, MountPC
<1>1. CASE ProcessStep
  <2>1. CASE UNCHANGED vars
    BY <1>a, <2>1 DEF vars, callers, ExclusiveOK, MountSide
  <2> QED  BY <1>d, <1>1, <2>1, ProcessIdle
<1>2. ASSUME NEW t \in Actor, (t \in Thread /\ (Mount(t) \/ ReadyUpdate(t))) \/ Umount(t)
      PROVE  ExclusiveOK(u)'
  <2>1. /\ SameRest(t) /\ gone' = gone /\ thread[t].pc # "idle"
        /\ thread'[t].s \in {thread[t].s, None}
    BY <1>a, <1>2, CallForm, CallData, Zenon
  <2>2. \/ thread'[t].pc \in {"idle", "teardown"} /\ thread'[t].s = None /\ ~thread'[t].rollback
        \/ (MountSide(t)' <=> MountSide(t)) /\ thread'[t].s = thread[t].s
    BY <1>a, <1>2, CallSide, Zenon
  <2>3. CASE u = t
    <3>1. ShapeOK(t)' /\ thread'[t].pc = "teardown" => t = Closer
      BY DEF ShapeOK
    <3>2. ShapeOK(t)'
      BY <1>a, <1>2, CallShape
    <3>3. CASE thread'[t].pc \in {"idle", "teardown"} /\ thread'[t].s = None /\ ~thread'[t].rollback
      BY <2>3, <3>1, <3>2, <3>3, ConstAssumption DEF ExclusiveOK, MountSide, MountPC
    <3>4. CASE (MountSide(t)' <=> MountSide(t)) /\ thread'[t].s = thread[t].s
      BY <1>a, <2>1, <2>3, <3>4, Zenon DEF ExclusiveOK, SameRest
    <3> QED  BY <2>2, <3>3, <3>4
  <2>4. CASE u # t
    <3>1. thread'[u] = thread[u]
      BY <2>1, <2>4 DEF SameRest
    <3>2. MountSide(u)' <=> MountSide(u)
      BY <3>1 DEF MountSide
    <3>3. ASSUME MountSide(u), NEW v \in Actor \ {u} PROVE thread'[v].s # thread'[u].s
      BY <1>a, <1>b, <2>1, <3>1, <3>3, ConstAssumption DEF ExclusiveOK, SameRest
    <3> QED  BY <1>a, <2>1, <3>1, <3>2, <3>3 DEF ExclusiveOK
  <2> QED  BY <2>3, <2>4
<1>3. ASSUME NEW t \in Thread, NEW s \in Snap,
             MountBegin(t, s) \/ UmountBegin(t, s) \/ ReadyBegin(t, s)
      PROVE  ExclusiveOK(u)'
  <2>1. MountBeginDoes(t, s) \/ UmountBeginDoes(t, s) \/ ReadyBeginDoes(t, s)
    BY <1>a, <1>3, BeginEffect
  <2>2. SameRest(t) /\ thread'[t].s = s /\ thread'[t].rollback = FALSE
    BY <2>1 DEF MountBeginDoes, UmountBeginDoes, ReadyBeginDoes, Holds
  <2>3. CASE UmountBeginDoes(t, s)
    <3>1. gone' = gone \cup {s} /\ thread'[t].pc = "lookup"
      BY <2>3, Zenon DEF UmountBeginDoes, Holds
    <3>2. \A v \in Actor : MountSide(v) => thread[v].s # s
      BY <2>3, Zenon DEF UmountBeginDoes, MayUmount, CalmInv, ExclusiveOK
    <3>3. CASE u = t
      BY <2>2, <3>1, <3>3 DEF ExclusiveOK, MountSide, MountPC
    <3>4. CASE u # t
      <4>1. thread'[u] = thread[u]
        BY <2>2, <3>4 DEF SameRest
      <4>2. MountSide(u)' <=> MountSide(u)
        BY <4>1, Zenon DEF MountSide
      <4> QED  BY <1>a, <2>2, <3>1, <3>2, <3>4, <4>1, <4>2, Zenon DEF ExclusiveOK, SameRest
    <3> QED  BY <3>3, <3>4
  <2>4. CASE MountBeginDoes(t, s) \/ ReadyBeginDoes(t, s)
    <3>1. /\ gone' = gone /\ s \notin gone /\ thread'[t].pc \in {"daemon", "ready"}
          /\ \A v \in Actor : thread[v].s # s
      BY <2>4 DEF MountBeginDoes, ReadyBeginDoes, Holds, Busy, Inside
    <3>2. CASE u = t
      BY <2>2, <3>1, <3>2 DEF ExclusiveOK, MountSide, MountPC, SameRest
    <3>3. CASE u # t
      <4>1. thread'[u] = thread[u]
        BY <2>2, <3>3 DEF SameRest
      <4>2. MountSide(u)' <=> MountSide(u)
        BY <4>1 DEF MountSide
      <4> QED  BY <1>a, <2>2, <3>1, <3>3, <4>1, <4>2, Zenon DEF ExclusiveOK, SameRest
    <3> QED  BY <3>2, <3>3
  <2> QED  BY <2>1, <2>3, <2>4
<1>4. CASE Close
  <2>1. BaseInv' /\ ClosedOK'
    BY BaseStep, ClosedStep
  <2>2. CASE u \in Thread
    BY <1>d, <1>4, <2>2, CloseIdle
  <2>3. CASE u = Closer
    <3>1. ~MountSide(u)'
      BY <2>1, <2>3 DEF BaseInv, ShapeOK, MountSide
    <3> QED  BY <2>3, <3>1, ConstAssumption DEF ExclusiveOK
  <2> QED  BY <1>a, <2>2, <2>3
<1> QED  BY <1>a, <1>1, <1>2, <1>3, <1>4, Zenon DEF Next, ProcessStep

\* Every step keeps that a daemon being set up has one goroutine.
LEMMA OwnDaemonStep ==
  ASSUME BaseInv, Calm, CalmInv, [Next]_vars, NEW u \in Actor
  PROVE  OwnDaemonOK(u)'
<1>a. /\ TypeOK /\ ExclusiveOK(u) /\ OwnDaemonOK(u) /\ Actor = Thread \cup {Closer}
      /\ (\A t \in Actor : ShapeOK(t)) /\ mode' = mode
  BY ModeKept DEF BaseInv, CalmInv, Actor
<1>b. ASSUME thread'[u] = Idle PROVE OwnDaemonOK(u)'
  BY <1>b, IdleFields DEF OwnDaemonOK
<1>c. thread[u].pc \in {"config", "mount", "persist"} =>
        MountSide(u) /\ thread[u].s \in Snap /\ thread[u].d \in Daemon
  BY <1>a, InCall DEF MountSide, MountPC, OnDaemon
<1>1. CASE ProcessStep
  <2>1. CASE UNCHANGED vars
    BY <1>a, <2>1 DEF vars, memory, disk, bounds, OwnDaemonOK
  <2> QED  BY <1>b, <1>1, <2>1, ProcessIdle
<1>2. ASSUME NEW t \in Actor, t # u, Mount(t) \/ ReadyUpdate(t) \/ Umount(t)
      PROVE  OwnDaemonOK(u)'
  <2>1. thread'[u] = thread[u] /\ (\A v \in Actor \ {t} : thread'[v] = thread[v])
    BY <1>a, <1>2, CallForm, Zenon DEF SameRest
  <2>2. NewDaemon(t) /\ NewCache(t) /\ NewRecord(t)
    BY <1>a, <1>2, CallData, Zenon
  <2> SUFFICES ASSUME ~mode.shared, thread[u].pc \in {"config", "mount", "persist"}
               PROVE  OwnDaemonOK(u)'
    BY <1>a, <2>1 DEF OwnDaemonOK
  <2>3. /\ thread[u].s \in Snap /\ thread[u].d \in Daemon
        /\ \A v \in Actor \ {u} : thread[v].d # thread[u].d /\ thread[v].s # thread[u].s
        /\ \A s \in Snap : rafs[s] = thread[u].d => s = thread[u].s
        /\ \A s \in Snap : dbInst[s] # thread[u].d
    BY <1>a, <1>c, Zenon DEF OwnDaemonOK, ExclusiveOK
  <2>4. None \notin Daemon
    BY ConstAssumption
  <2>5. thread'[t].d # thread[u].d
    <3>1. thread[t].pc = "lookup" => thread[t].s \in Snap
      BY <1>a, InCall
    <3> QED  BY <1>2, <2>2, <2>3, <2>4, <3>1, Zenon DEF NewDaemon, Fresh
  <2>6. \A s \in Snap : rafs'[s] = thread[u].d => s = thread[u].s
    BY <1>2, <2>2, <2>3, <2>4, Zenon DEF NewCache
  <2>7. \A s \in Snap : dbInst'[s] # thread[u].d
    BY <1>2, <2>2, <2>3, <2>4, Zenon DEF NewRecord
  <2> QED  BY <2>1, <2>3, <2>5, <2>6, <2>7, Zenon DEF OwnDaemonOK
<1>3. CASE (u \in Thread /\ (Mount(u) \/ ReadyUpdate(u))) \/ Umount(u)
  <2>1. SameRest(u)
    BY <1>a, <1>3, CallForm
  <2>2. CASE MountDaemon(u)
    <3>1. MountDaemonDoes(u)
      BY <1>a, <2>2, MountEffect
    <3>2. CASE RollsBack(u) \/ mode.shared
      BY <1>a, <3>2, Zenon DEF RollsBack, Holds, OwnDaemonOK
    <3>3. CASE ~mode.shared /\ ~RollsBack(u)
      <4>1. PICK d \in Daemon : Fresh(d) /\ Takes(u, "config", d)
        BY <3>1, <3>3, Zenon DEF MountDaemonDoes
      <4>2. thread'[u].d = d /\ UNCHANGED <<rafs, dbInst>>
        BY <3>1, <4>1 DEF MountDaemonDoes, Takes, Holds
      <4> QED  BY <2>1, <4>1, <4>2, Zenon DEF OwnDaemonOK, Fresh, SameRest
    <3> QED  BY <3>2, <3>3
  <2>3. CASE MountConfig(u)
    <3>1. MountConfigDoes(u)
      BY <1>a, <2>3, MountEffect, Zenon
    <3>2. CASE RollsBack(u)
      BY <3>2, Zenon DEF RollsBack, Holds, OwnDaemonOK
    <3>3. CASE ~RollsBack(u)
      <4>1. /\ Moves(u, "mount") /\ rafs' = [rafs EXCEPT ![thread[u].s] = thread[u].d]
            /\ UNCHANGED dbInst /\ thread[u].pc = "config"
        BY <3>1, <3>3 DEF MountConfigDoes
      <4> QED  BY <1>a, <1>c, <2>1, <4>1, Zenon DEF Moves, Holds, OwnDaemonOK, SameRest, TypeOK
    <3> QED  BY <3>2, <3>3
  <2>4. CASE MountRemote(u)
    <3>1. MountRemoteDoes(u)
      BY <1>a, <2>4, MountEffect
    <3>2. CASE Ends(u)
      BY <1>b, <3>2, Zenon DEF Ends
    <3>3. CASE ~Ends(u)
      <4>1. Moves(u, "persist") /\ UNCHANGED <<rafs, dbInst>> /\ thread[u].pc = "mount"
        BY <3>1, <3>3, Zenon DEF MountRemoteDoes
      <4> QED  BY <1>a, <2>1, <4>1 DEF Moves, Holds, OwnDaemonOK, SameRest
    <3> QED  BY <3>2, <3>3
  <2>5. CASE MountPersist(u) \/ ReadyUpdate(u)
    <3>1. Ends(u) \/ RollsBack(u)
      BY <1>a, <2>5, MountEffect, Zenon DEF MountPersistDoes, ReadyUpdateDoes
    <3> QED  BY <1>b, <3>1, Zenon DEF Ends, RollsBack, Holds, OwnDaemonOK
  <2>6. CASE Umount(u)
    <3>1. thread'[u].pc \notin {"config", "mount", "persist"}
      <4>1. \/ UmountLookupDoes(u) \/ UmountInstanceDoes(u) \/ UmountRecordDoes(u) \/ UmountRemoteDoes(u)
            \/ UmountRefDoes(u) \/ DestroyDeleteDoes(u) \/ DestroyInstancesDoes(u) \/ DestroyProcessDoes(u)
        BY <1>a, <2>6, UmountEffect, Zenon DEF Umount
      <4>2. UmountEnds(u) => thread'[u].pc \in {"idle", "teardown"}
        BY IdleFields DEF UmountEnds
      <4>3. \/ UmountEnds(u) \/ Moves(u, "undb") \/ Moves(u, "unmount") \/ Moves(u, "unref")
            \/ Moves(u, "delete") \/ Moves(u, "drop") \/ Moves(u, "kill")
            \/ Takes(u, "umount", rafs[thread[u].s])
        BY <4>1, Zenon DEF UmountLookupDoes, UmountInstanceDoes, UmountRecordDoes, UmountRemoteDoes,
                    UmountRefDoes, DestroyDeleteDoes, DestroyInstancesDoes, DestroyProcessDoes
      <4> QED  BY <4>2, <4>3, Zenon DEF Moves, Takes, Holds
    <3> QED  BY <3>1 DEF OwnDaemonOK
  <2> QED  BY <1>3, <2>2, <2>3, <2>4, <2>5, <2>6, Zenon DEF Mount
<1>4. ASSUME NEW t \in Thread, NEW s \in Snap,
             MountBegin(t, s) \/ UmountBegin(t, s) \/ ReadyBegin(t, s)
      PROVE  OwnDaemonOK(u)'
  <2>1. MountBeginDoes(t, s) \/ UmountBeginDoes(t, s) \/ ReadyBeginDoes(t, s)
    BY <1>a, <1>4, BeginEffect, Zenon
  <2>2. SameRest(t) /\ thread'[t].pc \in {"daemon", "lookup", "ready"} /\ dbInst' = dbInst
    BY <2>1 DEF MountBeginDoes, UmountBeginDoes, ReadyBeginDoes, Holds
  <2>3. CASE u = t
    BY <2>2, <2>3 DEF OwnDaemonOK
  <2>4. CASE u # t
    <3>1. thread'[u] = thread[u]
      BY <2>2, <2>4 DEF SameRest
    <3>2. \A x \in Snap : rafs'[x] \in {rafs[x], "new"}
      BY <1>a, <2>1, Zenon DEF MountBeginDoes, UmountBeginDoes, ReadyBeginDoes, TypeOK
    <3>3. \/ thread'[t].d = None
          \/ thread'[t].d = rafs[s] /\ \A v \in Actor : thread[v].s # s
      BY <2>1, Zenon DEF MountBeginDoes, UmountBeginDoes, ReadyBeginDoes, Holds, Busy
    <3>4. SUFFICES ASSUME ~mode.shared, thread[u].pc \in {"config", "mount", "persist"}
                   PROVE  OwnDaemonOK(u)'
      BY <1>a, <3>1, Zenon DEF OwnDaemonOK
    <3>5. /\ thread[u].s \in Snap /\ thread[u].d \in Daemon
          /\ \A v \in Actor \ {u} : thread[v].d # thread[u].d
          /\ \A x \in Snap : rafs[x] = thread[u].d => x = thread[u].s
          /\ \A x \in Snap : dbInst[x] # thread[u].d
      BY <1>a, <1>c, <3>4 DEF OwnDaemonOK
    <3>6. thread'[t].d # thread[u].d
      BY <3>3, <3>5, ConstAssumption, Zenon
    <3>7. \A v \in Actor \ {u} : thread'[v].d # thread[u].d
      BY <2>2, <3>5, <3>6 DEF SameRest
    <3>8. \A x \in Snap : rafs'[x] = thread[u].d => x = thread[u].s
      BY <3>2, <3>5, ConstAssumption
    <3> QED  BY <2>2, <3>1, <3>5, <3>7, <3>8, Zenon DEF OwnDaemonOK
  <2> QED  BY <2>3, <2>4
<1>5. CASE Close
  <2>1. CASE u \in Thread
    BY <1>b, <1>5, <2>1, CloseIdle
  <2>2. CASE u = Closer
    <3>1. ShapeOK(u)'
      BY BaseStep DEF BaseInv
    <3> QED  BY <2>2, <3>1, Zenon DEF ShapeOK, MountPC, OwnDaemonOK
  <2> QED  BY <1>a, <2>1, <2>2
<1> QED  BY <1>a, <1>1, <1>2, <1>3, <1>4, <1>5, Zenon DEF Next, ProcessStep

\* Calls keep apart from each other.
LEMMA CalmStep ==
  ASSUME BaseInv, CalmInv, [Next]_vars
  PROVE  CalmInv'
<1>1. ASSUME Calm PROVE ClosedOK' /\ \A t \in Actor : ExclusiveOK(t)' /\ OwnDaemonOK(t)'
  BY <1>1, ClosedStep, ExclusiveStep, OwnDaemonStep
<1>2. Calm' <=> Calm
  BY ModeKept DEF Calm
<1> QED  BY <1>1, <1>2 DEF CalmInv

-----------------------------------------------------------------------------
(* A record names an instance that is mounted.                             *)

\* nydusd has the instance before the record is written, and the record is gone
\* before nydusd loses it.
ServedOK(t) ==
  /\ thread[t].pc \in {"persist", "ready"} /\ thread[t].d \in procs =>
       thread[t].s \in served[thread[t].d]
  /\ thread[t].pc = "unmount" => dbInst[thread[t].s] = None
ServedInv ==
  Calm /\ "recover" \notin mode.faults => PersistedIsServed /\ \A t \in Actor : ServedOK(t)

\* What a step inside a call does to the daemons: one may start, for a dedicated
\* Mount, and an instance that goes is the one that is unmounted.
KeepsServed(t) ==
  \A d \in Daemon : d \in procs' =>
    /\ d \in procs \/ (~mode.shared /\ thread[t].pc = "mount" /\ d = thread[t].d)
    /\ \A x \in served[d] : x \in served'[d] \/ (thread[t].pc = "unmount" /\ x = thread[t].s)

\* A call changes what is mounted in its mount and its unmount step only.
LEMMA CallServed ==
  ASSUME TypeOK, NEW t \in Actor, ShapeOK(t), (t \in Thread /\ (Mount(t) \/ ReadyUpdate(t))) \/ Umount(t)
  PROVE  /\ KeepsServed(t)
         /\ thread'[t].pc # "ready"
         /\ thread'[t].pc = "persist" =>
              thread'[t].s = thread[t].s /\ thread'[t].d = thread[t].d
              /\ thread[t].s \in served'[thread[t].d]
         /\ thread'[t].pc = "unmount" => thread'[t].s = thread[t].s /\ dbInst'[thread[t].s] = None
<1> DEFINE Other == thread'[t].pc \notin {"ready", "persist", "unmount"}
<1>a. ASSUME UNCHANGED <<procs, served>> PROVE KeepsServed(t)
  BY <1>a, Zenon DEF KeepsServed
<1>b. Ends(t) \/ UmountEnds(t) => Other
  BY IdleFields, Zenon DEF Ends, UmountEnds
<1>c. RollsBack(t) => Other
  BY DEF RollsBack, Holds
<1>d. \A pc \in {"mount", "undb", "unref", "delete", "drop", "kill"} : Moves(t, pc) => Other
  BY DEF Moves, Holds
<1>e. \A pc \in {"config", "umount"} : \A d : Takes(t, pc, d) => Other
  BY DEF Takes, Holds
<1>1. CASE Mount(t) \/ ReadyUpdate(t)
  <2>1. \/ MountDaemonDoes(t) \/ MountConfigDoes(t) \/ MountRemoteDoes(t) \/ MountPersistDoes(t)
        \/ ReadyUpdateDoes(t)
    BY <1>1, MountEffect, Zenon DEF Mount
  <2>2. CASE MountDaemonDoes(t) \/ MountConfigDoes(t)
    <3>1. Other
      BY <1>c, <1>d, <1>e, <2>2, Zenon DEF MountDaemonDoes, MountConfigDoes
    <3> QED  BY <1>a, <2>2, <3>1, Zenon DEF MountDaemonDoes, MountConfigDoes
  <2>3. CASE MountPersistDoes(t) \/ ReadyUpdateDoes(t)
    <3>1. Other
      BY <1>b, <1>c, <2>3, Zenon DEF MountPersistDoes, ReadyUpdateDoes
    <3> QED  BY <1>a, <2>3, <3>1, Zenon DEF MountPersistDoes, ReadyUpdateDoes
  <2>4. CASE MountRemoteDoes(t)
    <3>1. CASE Ends(t) /\ UNCHANGED <<procs, served>>
      BY <1>a, <1>b, <3>1, Zenon
    <3>2. CASE /\ mode.shared => thread[t].d \in procs
               /\ procs' = procs \cup {thread[t].d}
               /\ served' = [served EXCEPT ![thread[t].d] = @ \cup {thread[t].s}]
               /\ Moves(t, "persist")
      <4>1. thread[t].d \in Daemon /\ thread[t].pc = "mount"
        BY <2>4, InCall, Zenon DEF MountRemoteDoes, OnDaemon
      <4>2. KeepsServed(t) /\ thread[t].s \in served'[thread[t].d]
        BY <3>2, <4>1 DEF KeepsServed, TypeOK
      <4> QED  BY <3>2, <4>2, Zenon DEF Moves, Holds
    <3> QED  BY <2>4, <3>1, <3>2, Zenon DEF MountRemoteDoes
  <2> QED  BY <2>1, <2>2, <2>3, <2>4, Zenon
<1>2. CASE Umount(t)
  <2>1. \/ UmountLookupDoes(t) \/ UmountInstanceDoes(t) \/ UmountRecordDoes(t) \/ UmountRemoteDoes(t)
        \/ UmountRefDoes(t) \/ DestroyDeleteDoes(t) \/ DestroyInstancesDoes(t) \/ DestroyProcessDoes(t)
    BY <1>2, UmountEffect, Zenon DEF Umount
  <2>2. CASE UmountLookupDoes(t) \/ UmountInstanceDoes(t) \/ UmountRefDoes(t)
    <3>1. Other
      BY <1>b, <1>d, <1>e, <2>2, Zenon DEF UmountLookupDoes, UmountInstanceDoes, UmountRefDoes
    <3> QED  BY <1>a, <2>2, <3>1, Zenon DEF UmountLookupDoes, UmountInstanceDoes, UmountRefDoes
  <2>3. CASE DestroyDeleteDoes(t) \/ DestroyInstancesDoes(t)
    <3>1. Other
      BY <1>b, <1>d, <2>3 DEF DestroyDeleteDoes, DestroyInstancesDoes
    <3> QED  BY <1>a, <2>3, <3>1, Zenon DEF DestroyDeleteDoes, DestroyInstancesDoes
  <2>4. CASE UmountRecordDoes(t)
    <3>1. KeepsServed(t)
      BY <1>a, <2>4, Zenon DEF UmountRecordDoes
    <3>2. CASE UmountEnds(t)
      BY <1>b, <3>1, <3>2, Zenon
    <3>3. CASE Moves(t, "unmount") /\ dbInst' = [dbInst EXCEPT ![thread[t].s] = None]
      <4>1. thread[t].s \in Snap
        BY <2>4, InCall, Zenon DEF UmountRecordDoes
      <4> QED  BY <3>1, <3>3, <4>1, Zenon DEF Moves, Holds, TypeOK
    <3> QED  BY <2>4, <3>2, <3>3, Zenon DEF UmountRecordDoes
  <2>5. CASE UmountRemoteDoes(t)
    <3>1. Other
      BY <1>b, <1>d, <2>5, Zenon DEF UmountRemoteDoes
    <3>2. KeepsServed(t)
      <4>1. /\ thread[t].pc = "unmount" /\ procs' = procs
            /\ served' = served \/ served' = [served EXCEPT ![thread[t].d] = @ \ {thread[t].s}]
        BY <2>5, Zenon DEF UmountRemoteDoes
      <4>2. served \in [Daemon -> SUBSET Snap]
        BY Zenon DEF TypeOK
      <4> QED  BY <4>1, <4>2 DEF KeepsServed
    <3> QED  BY <3>1, <3>2, Zenon
  <2>6. CASE DestroyProcessDoes(t)
    <3>1. Other
      BY <1>b, <2>6, Zenon DEF DestroyProcessDoes
    <3>2. KeepsServed(t)
      BY <2>6 DEF DestroyProcessDoes, KeepsServed, TypeOK
    <3> QED  BY <3>1, <3>2, Zenon
  <2> QED  BY <2>1, <2>2, <2>3, <2>4, <2>5, <2>6, Zenon
<1> QED  BY <1>1, <1>2, Zenon

\* Every step keeps that what is on record is mounted.
LEMMA ServedStep ==
  ASSUME BaseInv, CalmInv, Calm, "recover" \notin mode.faults,
         PersistedIsServed, \A t \in Actor : ServedOK(t), [Next]_vars
  PROVE  PersistedIsServed' /\ \A u \in Actor : ServedOK(u)'
<1>a. /\ Counting /\ TypeOK /\ Actor = Thread \cup {Closer} /\ mode' = mode
      /\ \A t \in Actor : ShapeOK(t) /\ ExclusiveOK(t) /\ OwnDaemonOK(t)
  BY ModeKept DEF BaseInv, CalmInv, Actor
<1>b. ASSUME NEW u \in Actor, thread'[u].pc \notin {"persist", "ready", "unmount"}
      PROVE  ServedOK(u)'
  BY <1>b, Zenon DEF ServedOK
<1>c. ASSUME UNCHANGED <<dbInst, procs, served>> PROVE PersistedIsServed'
  BY <1>a, <1>c, Zenon DEF PersistedIsServed
<1>1. CASE ProcessStep
  <2>1. CASE UNCHANGED vars
    BY <1>c, <2>1 DEF vars, disk, nydusd, ServedOK
  <2>2. CASE ~UNCHANGED vars
    <3>1. \A u \in Actor : ServedOK(u)'
      BY <1>b, <1>1, <2>2, ProcessIdle, IdleFields
    <3>2. CASE Recover
      <4>1. RecoverDoes
        BY <1>a, <3>2, RecoverEffect
      <4>2. /\ dbInst' = dbInst /\ procs' \subseteq procs \cup dbDaemons
            /\ \A d \in Daemon : /\ d \in procs => served'[d] = served[d]
                                 /\ d \in procs' \ procs => served'[d] = Instances(d)
        BY <4>1, Zenon DEF RecoverDoes, disk
      <4>3. PersistedIsServed'
        <5>1. ASSUME NEW s \in Snap, "recover" \notin mode.faults, dbInst[s] \in procs'
              PROVE  s \in served'[dbInst[s]]
          <6>1. dbInst[s] \in Daemon
            BY <1>a, <4>2, <5>1 DEF TypeOK
          <6>2. CASE dbInst[s] \in procs
            BY <4>2, <5>1, <6>1, <6>2, Zenon DEF PersistedIsServed
          <6>3. CASE dbInst[s] \notin procs
            BY <4>2, <5>1, <6>1, <6>3, Zenon DEF Instances
          <6> QED  BY <6>2, <6>3
        <5> QED  BY <1>a, <4>2, <5>1, Zenon DEF PersistedIsServed
      <4> QED  BY <3>1, <4>3
    <3>3. CASE BootStart
      <4>1. phase \in Booting /\ dbInst' = dbInst /\ served' = served /\ procs' \subseteq procs \cup {shared}
        BY <3>3, Zenon DEF BootStart, Booting
      <4>2. PersistedIsServed'
        BY <1>a, <4>1, Zenon DEF PersistedIsServed, BaseInv, PhaseOK
      <4> QED  BY <3>1, <4>2
    <3>4. CASE NydusdDies
      <4>1. PersistedIsServed'
        BY <1>a, <3>4, Zenon DEF NydusdDies, disk, PersistedIsServed, TypeOK
      <4> QED  BY <3>1, <4>1
    <3>5. CASE BootDaemon \/ BootConfig \/ Exit \/ LoadRefused
      BY <1>c, <2>2, <3>1, <3>5, Zenon DEF BootDaemon, BootConfig, Exit, LoadRefused, disk, nydusd
    <3> QED  BY <1>1, <2>2, <3>2, <3>3, <3>4, <3>5 DEF ProcessStep, Boot
  <2> QED  BY <2>1, <2>2
<1>2. ASSUME NEW t \in Actor, (t \in Thread /\ (Mount(t) \/ ReadyUpdate(t))) \/ Umount(t)
      PROVE  PersistedIsServed' /\ \A u \in Actor : ServedOK(u)'
  <2>1. KeepsServed(t) /\ NewRecord(t) /\ SameRest(t)
    BY <1>a, <1>2, CallServed, CallData, CallForm, Zenon
  <2>2. ServedOK(t)'
    BY <1>a, <1>2, CallServed, Zenon DEF ServedOK
  <2>a. /\ thread[t].pc \in {"persist", "ready", "mount"} =>
             MountSide(t) /\ thread[t].s \in Snap /\ thread[t].d \in Daemon
        /\ ServedOK(t)
    BY <1>a, InCall, Zenon DEF MountSide, MountPC, OnDaemon
  <2>3. ASSUME NEW u \in Actor, u # t PROVE ServedOK(u)'
    <3>1. thread'[u] = thread[u] /\ ServedOK(u)
      BY <2>1, <2>3, Zenon DEF SameRest
    <3>2. thread[u].pc \in {"persist", "ready"} =>
            MountSide(u) /\ thread[u].s \in Snap /\ thread[u].d \in Daemon
      BY <1>a, InCall DEF MountSide, MountPC, OnDaemon
    <3>3. ASSUME thread[u].pc \in {"persist", "ready"}, thread[u].d \in procs'
          PROVE  thread[u].s \in served'[thread[u].d]
      <4>1. thread[t].s # thread[u].s
        BY <1>a, <2>3, <3>2, <3>3, Zenon DEF ExclusiveOK
      <4>2. thread[u].d \in procs
        BY <1>a, <2>1, <2>3, <3>2, <3>3, Zenon DEF KeepsServed, OwnDaemonOK
      <4> QED  BY <2>1, <3>1, <3>2, <3>3, <4>1, <4>2, Zenon DEF KeepsServed, ServedOK
    <3>4. ASSUME thread[u].pc = "unmount" PROVE dbInst'[thread[u].s] = None
      <4>1. thread[u].s \in Snap
        BY <1>a, <3>4, InCall, Zenon
      <4> QED  BY <1>a, <2>1, <2>3, <2>a, <3>1, <3>4, <4>1, Zenon DEF NewRecord, ServedOK, ExclusiveOK
    <3> QED  BY <3>1, <3>3, <3>4 DEF ServedOK
  <2>4. ASSUME NEW x \in Snap, dbInst'[x] \in procs' PROVE x \in served'[dbInst'[x]]
    <3>a. dbInst'[x] \in Daemon
      BY <2>4, BaseStep, Zenon DEF BaseInv, TypeOK
    <3>1. CASE dbInst'[x] = dbInst[x]
      <4>1. dbInst[x] \in procs
        BY <1>a, <2>1, <2>4, <3>a, <3>1, Zenon DEF KeepsServed, OwnDaemonOK
      <4>2. x \in served[dbInst[x]] /\ dbInst[x] # None
        BY <1>a, <3>a, <3>1, <4>1, ConstAssumption DEF PersistedIsServed
      <4> QED  BY <2>1, <2>4, <2>a, <3>a, <3>1, <4>2, Zenon DEF KeepsServed, ServedOK
    <3>2. CASE dbInst'[x] # dbInst[x]
      <4>1. x = thread[t].s /\ thread[t].pc \in {"persist", "ready"} /\ dbInst'[x] = thread[t].d
        BY <2>1, <3>a, <3>2, ConstAssumption, Zenon DEF NewRecord
      <4>2. thread[t].d \in procs
        BY <2>1, <2>4, <3>a, <4>1 DEF KeepsServed
      <4> QED  BY <2>1, <2>4, <2>a, <3>a, <4>1, <4>2, Zenon DEF KeepsServed, ServedOK
    <3> QED  BY <3>1, <3>2, Zenon
  <2> QED  BY <2>2, <2>3, <2>4, Zenon DEF PersistedIsServed
<1>3. ASSUME NEW t \in Thread, NEW s \in Snap,
             MountBegin(t, s) \/ UmountBegin(t, s) \/ ReadyBegin(t, s)
      PROVE  PersistedIsServed' /\ \A u \in Actor : ServedOK(u)'
  <2>1. MountBeginDoes(t, s) \/ UmountBeginDoes(t, s) \/ ReadyBeginDoes(t, s)
    BY <1>a, <1>3, BeginEffect, Zenon
  <2>2. SameRest(t) /\ UNCHANGED <<dbInst, procs, served>>
    BY <2>1, Zenon DEF MountBeginDoes, UmountBeginDoes, ReadyBeginDoes, Holds
  <2>3. ServedOK(t)'
    BY <2>1, <2>2, Zenon DEF MountBeginDoes, UmountBeginDoes, ReadyBeginDoes, Holds, ServedOK
  <2>4. ASSUME NEW u \in Actor, u # t PROVE ServedOK(u)'
    BY <2>2, <2>4, Zenon DEF SameRest, ServedOK
  <2> QED  BY <1>c, <2>2, <2>3, <2>4
<1>4. CASE Close
  <2>1. UNCHANGED <<dbInst, procs, served>>
    BY <1>4, CloseEffect, Zenon DEF Close, CloseBeginDoes, TeardownNextDoes, TryStopDoes
  <2>2. \A u \in Thread : ServedOK(u)'
    BY <1>a, <1>b, <1>4, CloseIdle, IdleFields, Zenon
  <2>3. thread'[Closer].pc \in {"teardown", "lookup", "delete", "idle"}
    BY <1>4, CloseEffect, IdleFields, Zenon DEF Close, CloseBeginDoes, TeardownNextDoes, TryStopDoes, Ends, Holds
  <2> QED  BY <1>a, <1>b, <1>c, <2>1, <2>2, <2>3, Zenon
<1> QED  BY <1>a, <1>1, <1>2, <1>3, <1>4, Zenon DEF Next, ProcessStep

\* Everything above, in one invariant.
CallInv == BaseInv /\ CalmInv /\ ServedInv

\* The invariant holds initially.
LEMMA CallInvInit ==
  ASSUME Counting, Init
  PROVE  CallInv
<1>1. BaseInv /\ \A t \in Actor : thread[t] = Idle
  BY BaseInit DEF Init
<1>2. CalmInv
  BY <1>1, IdleFields, Zenon DEF Init, CalmInv, ClosedOK, ExclusiveOK, OwnDaemonOK, MountSide, MountPC
<1>3. ServedInv
  BY <1>1, IdleFields DEF Init, ServedInv, ServedOK, PersistedIsServed
<1> QED  BY <1>1, <1>2, <1>3 DEF CallInv

\* The invariant is inductive.
LEMMA CallInvStep ==
  ASSUME CallInv, [Next]_vars
  PROVE  CallInv'
<1>1. BaseInv' /\ CalmInv'
  BY BaseStep, CalmStep DEF CallInv
<1>2. ServedInv'
  <2>1. mode' = mode
    BY ModeKept
  <2>2. ASSUME Calm, "recover" \notin mode.faults
        PROVE  PersistedIsServed' /\ \A u \in Actor : ServedOK(u)'
    <3>1. BaseInv /\ CalmInv /\ PersistedIsServed /\ \A t \in Actor : ServedOK(t)
      BY <2>2 DEF CallInv, ServedInv
    <3> QED  BY <2>2, <3>1, ServedStep
  <2> QED  BY <2>1, <2>2 DEF ServedInv, Calm
<1> QED  BY <1>1, <1>2 DEF CallInv
=============================================================================
