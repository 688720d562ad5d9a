---------------------------- MODULE RafsLifecycle ----------------------------
(***************************************************************************)
(* RAFS instances and the nydusd daemons that serve them, from Mount to    *)
(* Umount and across restarts of the snapshotter (fusedev driver, shared   *)
(* or dedicated daemons).  The same facts are kept in four places that     *)
(* change at different steps: the global cache of instances, each daemon's *)
(* own cache and reference count, the database, and nydusd itself.         *)
(* Code: pkg/filesystem/fs.go, pkg/manager/manager.go,                     *)
(* pkg/daemon/daemon.go, pkg/store/database.go.                            *)
(***************************************************************************)
EXTENDS Integers, FiniteSets

CONSTANTS
  Snap,         \* snapshots that get a RAFS instance
  Daemon,       \* daemon IDs
  Thread,       \* goroutines in Mount, Umount or WaitUntilReady
  Closer,       \* the goroutine that runs Close
  Modes,        \* configurations and what may go wrong in them, see ConstAssumption
  None          \* no daemon, no instance

\* shared: daemon_mode is "shared" (else "dedicated"); failover: recover_policy is
\* "failover", so daemons have a supervisor; races: what callers may do at a bad
\* moment (MayUmount, CloseBegin); faults: the calls that can fail; the bounds on
\* failures and on crashes of the snapshotter.
ASSUME ConstAssumption ==
  /\ \A m \in Modes :
       /\ m.shared \in BOOLEAN /\ m.failover \in BOOLEAN
       /\ m.races \subseteq {"umount_twice", "close"}
       /\ m.faults \subseteq {"bootstrap", "config", "verify", "mount", "wait", "persist", "delete",
                              "umount", "start", "recover", "upgrade", "starting", "death"}
       /\ m.maxFault \in Nat /\ m.maxCrash \in Nat
  /\ None \notin Daemon \cup Snap \cup {"new"} /\ "new" \notin Daemon
  /\ Closer \notin Thread /\ IsFiniteSet(Snap)

VARIABLES
  phase,      \* "down", the steps of initSharedDaemon, "up", "closing", "closed"
  shared,     \* fs.fusedevSharedDaemon
  rafs,       \* RafsGlobalCache: snapshot -> its DaemonID, "new" before it has one
  daemons,    \* the manager's daemonCache
  insts,      \* daemon -> its RafsCache
  ref,        \* daemon -> its reference count
  dbDaemons,  \* database: the daemon records
  dbInst,     \* database: snapshot -> the daemon of its instance record, or None
  config,     \* daemons with a configuration file on disk
  procs,      \* daemons whose nydusd process runs
  served,     \* nydusd: daemon -> instances mounted
  thread,     \* what each goroutine is doing
  todo,       \* instances Teardown has listed and not unmounted yet
  gone,       \* snapshots that containerd has removed
  asked,      \* snapshot -> Umounts asked for since the last start
  faults, crashes,
  mode        \* the configuration, one of Modes

disk == <<dbDaemons, dbInst, config>>
nydusd == <<procs, served>>
memory == <<shared, rafs, daemons, insts, ref>>
callers == <<gone, asked>>
bounds == <<faults, crashes, mode>>
vars == <<phase, memory, disk, nydusd, thread, todo, callers, bounds>>

Actor == Thread \cup {Closer}
Idle == [pc |-> "idle", s |-> None, d |-> None, rollback |-> FALSE]

ThreadType ==
  [pc : {"idle", "daemon", "config", "mount", "persist", "lookup", "umount", "undb",
         "unmount", "unref", "delete", "drop", "kill", "ready", "teardown"},
   s : Snap \cup {None}, d : Daemon \cup {None}, rollback : BOOLEAN]

TypeOK ==
  /\ phase \in {"down", "boot_config", "boot_start", "up", "closing", "closed"}
  /\ shared \in Daemon \cup {None}
  /\ rafs \in [Snap -> Daemon \cup {"new", None}]
  /\ daemons \subseteq Daemon
  /\ insts \in [Daemon -> SUBSET Snap]
  /\ ref \in [Daemon -> Int]
  /\ dbDaemons \subseteq Daemon
  /\ dbInst \in [Snap -> Daemon \cup {None}]
  /\ config \subseteq Daemon
  /\ procs \subseteq Daemon
  /\ served \in [Daemon -> SUBSET Snap]
  /\ thread \in [Actor -> ThreadType]
  /\ todo \subseteq Snap /\ gone \subseteq Snap
  /\ asked \in [Snap -> 0 .. 2]
  /\ mode \in Modes /\ faults \in 0 .. mode.maxFault /\ crashes \in 0 .. mode.maxCrash

Init ==
  /\ phase = "down" /\ shared = None /\ daemons = {} /\ todo = {}
  /\ rafs = [s \in Snap |-> None]
  /\ insts = [d \in Daemon |-> {}]
  /\ ref = [d \in Daemon |-> 0]
  /\ thread = [t \in Actor |-> Idle]
  /\ dbDaemons = {} /\ config = {} /\ procs = {} /\ gone = {}
  /\ dbInst = [s \in Snap |-> None]
  /\ served = [d \in Daemon |-> {}]
  /\ asked = [s \in Snap |-> 0]
  /\ faults = 0 /\ crashes = 0 /\ mode \in Modes

\* The end of the process.
LoseMemory ==
  /\ shared' = None /\ daemons' = {} /\ todo' = {}
  /\ rafs' = [s \in Snap |-> None]
  /\ insts' = [d \in Daemon |-> {}]
  /\ ref' = [d \in Daemon |-> 0]
  /\ thread' = [t \in Actor |-> Idle]

Fail(call) == call \in mode.faults /\ faults < mode.maxFault /\ faults' = faults + 1
NoFail == UNCHANGED faults

Goto(t, pc) == thread' = [thread EXCEPT ![t].pc = pc]
Done(t) == thread' = [thread EXCEPT ![t] = Idle]
Busy(s) == \E t \in Actor : thread[t].s = s

\* An ID made by newID is one that nothing refers to.
Fresh(d) ==
  /\ d \notin dbDaemons \cup config \cup procs \cup daemons
  /\ ref[d] = 0 /\ insts[d] = {}
  /\ \A s \in Snap : rafs[s] # d /\ dbInst[s] # d
  /\ \A t \in Actor : thread[t].d # d

-----------------------------------------------------------------------------
(* NewFileSystem.                                                          *)

Instances(d) == {s \in Snap : dbInst[s] = d}

\* recoverDaemons and recoverRafsInstances load the records and give up on a
\* daemon without a configuration file.  A daemon that answers but is not RUNNING
\* is left alone, its instances too.
Load(starting) ==
  /\ phase = "down" /\ dbDaemons \subseteq config
  /\ starting \subseteq dbDaemons \cap procs
  /\ rafs' = dbInst
  /\ insts' = [d \in Daemon |-> IF d \in dbDaemons \ starting THEN Instances(d) ELSE {}]

LoadRefused ==
  /\ phase = "down" /\ ~(dbDaemons \subseteq config)
  /\ UNCHANGED vars

\* StartDaemon needs an instance for a dedicated daemon.
CanStart(d) == mode.shared \/ Instances(d) # {}

\* Dead daemons are started and, when shared, their instances mounted again;
\* failures are logged and skipped, with the process up or not and some of the
\* instances mounted.  The shared daemon is retained if it was recovered or, when
\* live, if it has a supervisor and its upgrade, if any, went well.  The goroutines run
\* before any request is served, each on its own daemon, and NewFileSystem waits for all
\* of them: they are one step, and a crash among them is this step with the daemons not
\* reached yet among the failed ones, then Crash.
RecoverWith(starting, skipped, failed, spawned) ==
  LET dead == {d \in dbDaemons \ procs : CanStart(d)}
      live == (dbDaemons \cap procs) \ starting
      kept == (dead \ failed) \cup (IF mode.failover THEN live \ skipped ELSE {})
  IN
  /\ Load(starting)
  /\ mode.shared => dbDaemons # starting
  /\ failed \subseteq dead /\ skipped \subseteq live
  /\ \/ starting = {} /\ failed = {} /\ skipped = {} /\ NoFail
     \/ starting # {} /\ failed = {} /\ skipped = {} /\ Fail("starting")
     \/ starting = {} /\ failed # {} /\ skipped = {} /\ Fail("recover")
     \/ starting = {} /\ failed = {} /\ skipped # {} /\ Fail("upgrade")
  /\ procs' = procs \cup (dead \ failed) \cup spawned
  /\ \E some \in SUBSET Snap :
       served' = [d \in Daemon |->
                    IF d \in dead \ failed THEN Instances(d)
                    ELSE IF d \in spawned /\ mode.shared THEN Instances(d) \cap some
                    ELSE IF d \in spawned THEN Instances(d)
                    ELSE served[d]]
  /\ IF mode.shared /\ kept # {} THEN shared' \in kept ELSE shared' = None
  /\ daemons' = dbDaemons
  /\ ref' = [d \in Daemon |-> Cardinality(insts'[d]) + IF shared' = d THEN 1 ELSE 0]
  /\ phase' = "up"
  /\ UNCHANGED <<disk, thread, todo, callers, crashes, mode>>

Recover ==
  \E starting \in SUBSET (dbDaemons \cap procs), skipped \in SUBSET (dbDaemons \cap procs),
     failed \in SUBSET (dbDaemons \ procs) : \E spawned \in SUBSET failed :
    RecoverWith(starting, skipped, failed, spawned)

\* initSharedDaemon, when no shared daemon was found: the record, then the
\* configuration file, then the process.
BootDaemon ==
  /\ mode.shared /\ Load(dbDaemons)
  /\ IF dbDaemons = {} THEN NoFail ELSE Fail("starting")
  /\ \E d \in Daemon :
       /\ Fresh(d)
       /\ shared' = d
       /\ daemons' = dbDaemons \cup {d} /\ dbDaemons' = dbDaemons \cup {d}
  /\ phase' = "boot_config"
  /\ UNCHANGED <<ref, dbInst, config, nydusd, thread, todo, callers, crashes, mode>>

\* On an error the record is deleted, and the snapshotter does not come up.
BootFails ==
  /\ phase' = "down" /\ LoseMemory
  /\ dbDaemons' = dbDaemons \ {shared}

BootConfig ==
  /\ phase = "boot_config"
  /\ \/ /\ config' = config \cup {shared} /\ phase' = "boot_start" /\ NoFail
        /\ UNCHANGED <<memory, thread, todo, dbDaemons>>
     \/ Fail("config") /\ BootFails /\ UNCHANGED config
  /\ UNCHANGED <<dbInst, nydusd, callers, crashes, mode>>

BootStart ==
  /\ phase = "boot_start"
  /\ \/ /\ procs' = procs \cup {shared} /\ NoFail
        /\ ref' = [ref EXCEPT ![shared] = @ + 1]
        /\ phase' = "up"
        /\ UNCHANGED <<shared, rafs, daemons, insts, thread, todo, dbDaemons>>
     \/ Fail("start") /\ BootFails /\ UNCHANGED procs
  /\ UNCHANGED <<dbInst, config, served, callers, crashes, mode>>

-----------------------------------------------------------------------------
(* Mount, under the mutex of its snapshot.                                 *)

\* Requests are served until Close begins, or beside it: Serve calls Close before
\* it closes the listener.
Serving == phase = "up" \/ (phase = "closing" /\ "close" \in mode.races)

\* An instance in the global cache ends Mount at once; a new one is entered
\* there before it has a daemon.
MountBegin(t, s) ==
  /\ Serving /\ thread[t].pc = "idle"
  /\ s \notin gone /\ ~Busy(s) /\ rafs[s] = None
  /\ rafs' = [rafs EXCEPT ![s] = "new"]
  /\ thread' = [thread EXCEPT ![t] = [Idle EXCEPT !.pc = "daemon", !.s = s]]
  /\ UNCHANGED <<phase, shared, daemons, insts, ref, disk, nydusd, todo, callers, bounds>>

\* The deferred function: Umount, then out of the global cache.
Rollback(t) == thread' = [thread EXCEPT ![t].pc = "lookup", ![t].rollback = TRUE]

\* getSharedDaemon, or createDaemon, which records the daemon in the database.
MountDaemon(t) ==
  /\ thread[t].pc = "daemon"
  /\ \/ /\ mode.shared /\ shared # None /\ NoFail
        /\ thread' = [thread EXCEPT ![t].pc = "config", ![t].d = shared]
        /\ UNCHANGED <<daemons, dbDaemons>>
     \/ /\ ~mode.shared /\ NoFail
        /\ \E d \in Daemon :
             /\ Fresh(d)
             /\ daemons' = daemons \cup {d} /\ dbDaemons' = dbDaemons \cup {d}
             /\ thread' = [thread EXCEPT ![t].pc = "config", ![t].d = d]
     \/ /\ (mode.shared /\ shared = None /\ NoFail) \/ Fail("bootstrap")
        /\ Rollback(t)
        /\ UNCHANGED <<daemons, dbDaemons>>
  /\ UNCHANGED <<phase, shared, rafs, insts, ref, dbInst, config, nydusd, todo, callers, crashes, mode>>

\* DumpFile, AddRafsInstance, and the check of the bootstrap's signature.
MountConfig(t) ==
  LET d == thread[t].d
      s == thread[t].s
  IN
  /\ thread[t].pc = "config"
  /\ \/ /\ config' = IF mode.shared THEN config ELSE config \cup {d}
        /\ insts' = [insts EXCEPT ![d] = @ \cup {s}]
        /\ ref' = [ref EXCEPT ![d] = @ + 1]
        /\ rafs' = [rafs EXCEPT ![s] = d]
        /\ (Goto(t, "mount") /\ NoFail) \/ (Rollback(t) /\ Fail("verify"))
     \/ Fail("config") /\ Rollback(t) /\ UNCHANGED <<config, insts, ref, rafs>>
  /\ UNCHANGED <<phase, shared, daemons, dbDaemons, dbInst, nydusd, todo, callers, crashes, mode>>

\* mountRemote: the mount call of a running shared nydusd, which refuses an
\* instance it has, or the start of a dedicated one.  Its error is dropped by
\* Mount's last return, and nothing is rolled back.
MountRemote(t) ==
  LET d == thread[t].d
      s == thread[t].s
      able == IF mode.shared THEN d \in procs /\ s \notin served[d] ELSE insts[d] # {}
  IN
  /\ thread[t].pc = "mount"
  /\ \/ /\ able /\ NoFail
        /\ procs' = procs \cup {d}
        /\ served' = [served EXCEPT ![d] = @ \cup {s}]
        /\ Goto(t, "persist")
     \/ /\ (~able /\ NoFail) \/ Fail("mount")
        /\ Done(t)
        /\ UNCHANGED nydusd
  /\ UNCHANGED <<phase, memory, disk, todo, callers, crashes, mode>>

\* WaitUntilState(RUNNING), then AddRafsInstance, which refuses a key in use.
MountPersist(t) ==
  LET s == thread[t].s
      able == thread[t].d \in procs /\ dbInst[s] = None
  IN
  /\ thread[t].pc = "persist"
  /\ \/ /\ able /\ NoFail
        /\ dbInst' = [dbInst EXCEPT ![s] = thread[t].d]
        /\ Done(t)
     \/ /\ (~able /\ NoFail) \/ Fail("wait") \/ Fail("persist")
        /\ Rollback(t)
        /\ UNCHANGED dbInst
  /\ UNCHANGED <<phase, memory, dbDaemons, config, nydusd, todo, callers, crashes, mode>>

-----------------------------------------------------------------------------
(* Umount, without the mutex, and DestroyDaemon.                           *)

\* containerd removes a snapshot when no call uses it, and Umount is asked for
\* once.  "umount_twice": a Remove and a Cleanup list the same directory, or the
\* directory could not be deleted and is listed again.
MayUmount(s) ==
  IF "umount_twice" \in mode.races
  THEN asked[s] < 2 /\ \A t \in Actor : thread[t].s = s => s \in gone /\ thread[t].pc # "ready"
  ELSE asked[s] < 1 /\ \A t \in Actor : thread[t].s # s

UmountBegin(t, s) ==
  /\ Serving /\ thread[t].pc = "idle"
  /\ MayUmount(s) /\ rafs[s] # None
  /\ gone' = gone \cup {s}
  /\ asked' = [asked EXCEPT ![s] = @ + 1]
  /\ thread' = [thread EXCEPT ![t] = [Idle EXCEPT !.pc = "lookup", !.s = s]]
  /\ UNCHANGED <<phase, memory, disk, nydusd, todo, bounds>>

\* What follows Umount: for the rollback of a Mount, the removal from the global
\* cache (any other Umount leaves the instance there); for Teardown, the next
\* instance; for TryStopSharedDaemon, the end of Close.
UmountEnd(t) ==
  /\ rafs' = IF thread[t].rollback THEN [rafs EXCEPT ![thread[t].s] = None] ELSE rafs
  /\ thread' = [thread EXCEPT ![t] = IF t = Closer /\ thread[t].s # None
                                     THEN [Idle EXCEPT !.pc = "teardown"] ELSE Idle]
  /\ phase' = IF t = Closer /\ thread[t].s = None THEN "closed" ELSE phase

UmountLookup(t) ==
  LET d == rafs[thread[t].s]
  IN
  /\ thread[t].pc = "lookup"
  /\ \/ /\ d \in daemons
        /\ thread' = [thread EXCEPT ![t].pc = "umount", ![t].d = d]
        /\ UNCHANGED <<phase, rafs>>
     \/ d \notin daemons /\ UmountEnd(t)
  /\ UNCHANGED <<shared, daemons, insts, ref, disk, nydusd, todo, callers, bounds>>

\* Mutant: the reference is not given back.
UmountInstance_NoDecRef(t) ==
  /\ thread[t].pc = "umount"
  /\ insts' = [insts EXCEPT ![thread[t].d] = @ \ {thread[t].s}]
  /\ Goto(t, "undb")
  /\ UNCHANGED <<phase, shared, rafs, daemons, ref, disk, nydusd, todo, callers, bounds>>

\* RemoveRafsInstance of the daemon counts down whether or not it had the instance.
UmountInstance(t) ==
  LET d == thread[t].d
  IN
  /\ thread[t].pc = "umount"
  /\ insts' = [insts EXCEPT ![d] = @ \ {thread[t].s}]
  /\ ref' = [ref EXCEPT ![d] = @ - 1]
  /\ Goto(t, "undb")
  /\ UNCHANGED <<phase, shared, rafs, daemons, disk, nydusd, todo, callers, bounds>>

\* Mutant: the instance record is not deleted.
UmountRecord_Skipped(t) ==
  /\ thread[t].pc = "undb"
  /\ Goto(t, "unmount")
  /\ UNCHANGED <<phase, memory, disk, nydusd, todo, callers, bounds>>

UmountRecord(t) ==
  /\ thread[t].pc = "undb"
  /\ \/ /\ dbInst' = [dbInst EXCEPT ![thread[t].s] = None]
        /\ Goto(t, "unmount") /\ NoFail /\ UNCHANGED <<phase, rafs>>
     \/ Fail("delete") /\ UmountEnd(t) /\ UNCHANGED dbInst
  /\ UNCHANGED <<shared, daemons, insts, ref, dbDaemons, config, nydusd, todo, callers, crashes, mode>>

\* UmountRafsInstance calls a shared nydusd only; an error ends Umount there.
UmountRemote(t) ==
  LET d == thread[t].d
      s == thread[t].s
      able == ~mode.shared \/ (d \in procs /\ s \in served[d])
  IN
  /\ thread[t].pc = "unmount"
  /\ \/ /\ able /\ NoFail
        /\ served' = IF mode.shared THEN [served EXCEPT ![d] = @ \ {s}] ELSE served
        /\ Goto(t, "unref") /\ UNCHANGED <<phase, rafs>>
     \/ /\ (~able /\ NoFail) \/ (mode.shared /\ Fail("umount"))
        /\ UmountEnd(t) /\ UNCHANGED served
  /\ UNCHANGED <<shared, daemons, insts, ref, disk, procs, todo, callers, crashes, mode>>

\* Mutant: the daemon is destroyed at one reference, not at none.
UmountRef_OffByOne(t) ==
  /\ thread[t].pc = "unref"
  /\ \/ ref[thread[t].d] = 1 /\ Goto(t, "delete") /\ UNCHANGED <<phase, rafs>>
     \/ ref[thread[t].d] # 1 /\ UmountEnd(t)
  /\ UNCHANGED <<shared, daemons, insts, ref, disk, nydusd, todo, callers, bounds>>

UmountRef(t) ==
  /\ thread[t].pc = "unref"
  /\ \/ ref[thread[t].d] = 0 /\ Goto(t, "delete") /\ UNCHANGED <<phase, rafs>>
     \/ ref[thread[t].d] # 0 /\ UmountEnd(t)
  /\ UNCHANGED <<shared, daemons, insts, ref, disk, nydusd, todo, callers, bounds>>

\* DestroyDaemon: the record in the database and the cache; the instances still
\* there; the process and its files.
DestroyDelete(t) ==
  /\ thread[t].pc = "delete"
  /\ \/ /\ dbDaemons' = dbDaemons \ {thread[t].d}
        /\ daemons' = daemons \ {thread[t].d}
        /\ Goto(t, "drop") /\ NoFail /\ UNCHANGED <<phase, rafs>>
     \/ Fail("delete") /\ UmountEnd(t) /\ UNCHANGED <<dbDaemons, daemons>>
  /\ UNCHANGED <<shared, insts, ref, dbInst, config, nydusd, todo, callers, crashes, mode>>

DestroyInstances(t) ==
  LET d == thread[t].d
  IN
  /\ thread[t].pc = "drop"
  /\ ref' = [ref EXCEPT ![d] = @ - Cardinality(insts[d])]
  /\ insts' = [insts EXCEPT ![d] = {}]
  /\ Goto(t, "kill")
  /\ UNCHANGED <<phase, shared, rafs, daemons, disk, nydusd, todo, callers, bounds>>

DestroyProcess(t) ==
  LET d == thread[t].d
  IN
  /\ thread[t].pc = "kill"
  /\ procs' = procs \ {d}
  /\ served' = [served EXCEPT ![d] = {}]
  /\ config' = config \ {d}
  /\ shared' = IF thread[t].s = None THEN None ELSE shared
  /\ UmountEnd(t)
  /\ UNCHANGED <<daemons, insts, ref, dbDaemons, dbInst, todo, callers, bounds>>

-----------------------------------------------------------------------------
(* WaitUntilReady: the daemon answers, then the record is written, whether *)
(* or not it is still there.                                               *)

ReadyBegin(t, s) ==
  /\ Serving /\ thread[t].pc = "idle" /\ s \notin gone /\ ~Busy(s)
  /\ rafs[s] \in daemons /\ rafs[s] \in procs /\ s \in served[rafs[s]]
  /\ thread' = [thread EXCEPT ![t] = [Idle EXCEPT !.pc = "ready", !.s = s, !.d = rafs[s]]]
  /\ UNCHANGED <<phase, memory, disk, nydusd, todo, callers, bounds>>

ReadyUpdate(t) ==
  /\ thread[t].pc = "ready"
  /\ dbInst' = [dbInst EXCEPT ![thread[t].s] = thread[t].d]
  /\ Done(t)
  /\ UNCHANGED <<phase, memory, dbDaemons, config, nydusd, todo, callers, bounds>>

-----------------------------------------------------------------------------
(* Close and the end of the process.                                       *)

\* Teardown, if cleanup_on_close is set, lists the instances of every daemon.
CloseBegin ==
  /\ phase = "up"
  /\ "close" \in mode.races \/ \A t \in Thread : thread[t] = Idle
  /\ phase' = "closing"
  /\ todo' \in {{}, UNION {insts[d] : d \in daemons}}
  /\ thread' = [thread EXCEPT ![Closer].pc = "teardown"]
  /\ UNCHANGED <<memory, disk, nydusd, callers, bounds>>

TeardownNext(s) ==
  /\ thread[Closer].pc = "teardown" /\ s \in todo
  /\ todo' = todo \ {s}
  /\ thread' = [thread EXCEPT ![Closer].pc = "lookup", ![Closer].s = s]
  /\ UNCHANGED <<phase, memory, disk, nydusd, callers, bounds>>

\* Mutant: the references are not looked at.
TryStopSharedDaemon_Unchecked ==
  /\ thread[Closer].pc = "teardown" /\ todo = {}
  /\ IF shared # None
     THEN /\ thread' = [thread EXCEPT ![Closer].pc = "delete", ![Closer].d = shared]
          /\ UNCHANGED phase
     ELSE Done(Closer) /\ phase' = "closed"
  /\ UNCHANGED <<memory, disk, nydusd, todo, callers, bounds>>

\* TryStopSharedDaemon destroys the daemon when only its own reference is left.
TryStopSharedDaemon ==
  /\ thread[Closer].pc = "teardown" /\ todo = {}
  /\ IF shared # None /\ ref[shared] = 1
     THEN /\ thread' = [thread EXCEPT ![Closer].pc = "delete", ![Closer].d = shared]
          /\ UNCHANGED phase
     ELSE Done(Closer) /\ phase' = "closed"
  /\ UNCHANGED <<memory, disk, nydusd, todo, callers, bounds>>

\* The process ends, by a crash or after Close.  Cleanup asks again for the
\* instances that are still on record.
Exit ==
  /\ \/ phase = "closed" /\ UNCHANGED crashes
     \/ phase # "down" /\ crashes < mode.maxCrash /\ crashes' = crashes + 1
  /\ phase' = "down" /\ LoseMemory
  /\ asked' = [s \in Snap |-> IF dbInst[s] = None THEN asked[s] ELSE 0]
  /\ UNCHANGED <<disk, nydusd, gone, faults, mode>>

\* A nydusd dies while no snapshotter watches it.
NydusdDies ==
  /\ phase = "down" /\ Fail("death")
  /\ \E d \in procs : procs' = procs \ {d} /\ served' = [served EXCEPT ![d] = {}]
  /\ UNCHANGED <<phase, memory, disk, thread, todo, callers, crashes, mode>>

-----------------------------------------------------------------------------
Boot == LoadRefused \/ Recover \/ BootDaemon \/ BootConfig \/ BootStart
Mount(t) == MountDaemon(t) \/ MountConfig(t) \/ MountRemote(t) \/ MountPersist(t)
Umount(t) ==
  \/ UmountLookup(t) \/ UmountInstance(t) \/ UmountRecord(t) \/ UmountRemote(t) \/ UmountRef(t)
  \/ DestroyDelete(t) \/ DestroyInstances(t) \/ DestroyProcess(t)
Close == CloseBegin \/ TryStopSharedDaemon \/ \E s \in Snap : TeardownNext(s)

Next ==
  \/ Boot \/ Close \/ Exit \/ NydusdDies
  \/ \E t \in Thread : Mount(t) \/ ReadyUpdate(t)
  \/ \E t \in Thread, s \in Snap : MountBegin(t, s) \/ UmountBegin(t, s) \/ ReadyBegin(t, s)
  \/ \E t \in Actor : Umount(t)

Spec == Init /\ [][Next]_vars

-----------------------------------------------------------------------------
\* Each instance is unmounted once, Close comes after the last request, the database
\* can delete, and a restart finds no nydusd that is still starting (it would get its
\* record but not its instances): what the reference count relies on.
Orderly == mode.races = {} /\ {"delete", "starting"} \cap mode.faults = {}

\* The references to a daemon are the instances it holds and, for the shared one,
\* its own: the count tells Umount and Close when the daemon is unused.
RefCountExact ==
  \A d \in daemons : Orderly /\ phase = "up" =>
    ref[d] = Cardinality(insts[d]) + IF shared = d THEN 1 ELSE 0

\* A daemon that DestroyDaemon is at work on is used by nobody: no instance is in
\* its cache, and a record that still points to it is about to be deleted.
DestroyedUnused ==
  \A t \in Actor : Orderly /\ thread[t].pc \in {"delete", "drop", "kill"} =>
    /\ insts[thread[t].d] = {}
    /\ \A s \in Instances(thread[t].d) : \E u \in Actor : thread[u].s = s /\ thread[u].pc = "undb"

\* The instance record of a snapshot that exists names a daemon that has a record
\* too, at every moment the snapshotter can crash: recovery finds the daemon.
NoDanglingInstance ==
  Orderly => \A s \in Snap \ gone : dbInst[s] = None \/ dbInst[s] \in dbDaemons

\* An instance on record is mounted by its nydusd as long as that nydusd lives:
\* the record is written after the mount and deleted before the umount, also when
\* instances are unmounted twice. (A recovery may give up half-way: "recover".)
PersistedIsServed ==
  "recover" \notin mode.faults => \A s \in Snap : dbInst[s] \in procs => s \in served[dbInst[s]]

\* When nothing is under way, each dedicated daemon the manager keeps serves an
\* instance, and no nydusd runs without the manager knowing it: the rollback of a
\* failed Mount leaves no daemon behind.  Not kept when the configuration file or the
\* mount call fails (Mount does not roll these back), nor after a crash during Mount.
DaemonsInUse ==
  ~mode.shared /\ Orderly /\ {"config", "mount"} \cap mode.faults = {} /\ crashes = 0
  /\ phase = "up" /\ (\A t \in Actor : thread[t] = Idle) =>
    /\ procs \subseteq daemons
    /\ \A d \in daemons : insts[d] # {}

\* After a Mount, the instance is mounted or is out of the global cache again, so
\* that the next Mount of the snapshot does not take it for mounted.
MountedOrRevoked ==
  phase = "up" => \A s \in Snap \ gone :
    rafs[s] \in procs /\ ~Busy(s) => s \in served[rafs[s]]

\* Whenever the snapshotter is down it can start again: every daemon on record
\* has the configuration file that recovery reloads.  Not kept when DumpFile fails
\* or the snapshotter dies between createDaemon and DumpFile.
Recoverable == phase = "down" => dbDaemons \subseteq config

\* A running snapshotter in shared mode has the daemon that its mounts need.  Not
\* kept after a recovery that could not start or reach the only daemon.
SharedDaemonPresent == mode.shared /\ phase = "up" => shared # None
=============================================================================
