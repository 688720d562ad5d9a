--------------------------- MODULE DaemonRecovery ---------------------------
(***************************************************************************)
(* The life of nydusd daemons under the manager: StartDaemon and the       *)
(* goroutine it leaves behind, death events and the recovery they start    *)
(* (restart or failover), DestroyDaemon, live upgrade (asked for through   *)
(* the system controller, or done at startup), restarts of the snapshotter *)
(* and, beside them, the goroutines that mount and unmount instances.      *)
(* Composes LivenessMonitor and Supervisor.  nydusd itself is external.    *)
(* Code: pkg/manager, pkg/daemon/daemon.go, pkg/system/system.go,          *)
(* pkg/filesystem/fs.go.                                                   *)
(***************************************************************************)
EXTENDS Integers, Sequences, FiniteSets

CONSTANTS
  Id,         \* daemon IDs
  First,      \* the ID used unless there is a second daemon
  Inst,       \* RAFS instances
  InstOf,     \* daemon ID -> the instances mounted by it
  MaxPid,     \* bound: nydusd processes
  MaxFd,      \* bound: connections of the monitor
  QueueCap,   \* capacity of LivenessNotifier (32 in the code)
  Thread,     \* goroutines that mount and unmount instances
  Slot,       \* recovery goroutines
  Scenario,   \* the configurations that are checked: the recover_policy, the threads,
              \* the instances they mount, what is done beside deaths (Op), the
              \* calls that can fail (Fault) and what may overlap with a death (Race)
  MaxFault,   \* bound: calls that fail
  MaxDeath,   \* bound: nydusd processes that die
  None

\* Umount, a second daemon, DestroyDaemon, an upgrade by the system controller, a
\* restart of the snapshotter, and an upgrade then.
Op == {"umount", "second", "destroy", "upgrade", "crash", "boot_upgrade"}

Fault == {"spawn", "record", "dial", "epoll", "wait", "mount", "sendfd", "late", "start"}

\* A death during a destroy or an upgrade and these during a recovery, a restart of the
\* snapshotter during a recovery, a death before a mount's state is saved.
Race == {"destroy", "upgrade", "crash", "states"}

ASSUME ConstAssumption ==
  /\ InstOf \in [Id -> SUBSET Inst] /\ First \in Id /\ MaxPid \in Nat /\ MaxFd \in Nat \ {0}
  /\ QueueCap \in Nat \ {0}
  /\ Scenario \subseteq [policy : {"restart", "failover"}, ops : SUBSET Op, threads : SUBSET Thread, insts : SUBSET Inst,
                   faults : SUBSET Fault, races : SUBSET Race]
  /\ MaxFault \in Nat /\ MaxDeath \in Nat

Pid == 1 .. MaxPid
Fd == 1 .. MaxFd
Path == 0 .. 1
Gen == 1 .. 2
Obj == Id \X Gen   \* Daemon objects of an ID: the first, and the one an upgrade makes

Caller == {<<"starter", p>> : p \in Pid} \cup {<<"recovery", r>> : r \in Slot}
            \cup {<<"thread", t>> : t \in Thread} \cup {<<"upgrade", 0>>, <<"upgraded", 0>>}
Upgrader == <<"upgrade", 0>>    \* the upgrade, which also offers the state
Remounter == <<"upgraded", 0>>  \* its fetches once the new daemon runs

VARIABLES
  scene,    \* the scenario of this behaviour
  proc,     \* nydusd processes
  file,     \* API socket files: <<ID, path>>
  obj,      \* Daemon objects
  lock,     \* object -> the goroutine that keeps its mutex, or None
  mgr,      \* the goroutine that keeps the manager's mutex, or None
  cache,    \* daemonCache: ID -> generation of its object, or None
  db,       \* database: ID -> the daemon's record, or None
  fsd,      \* ID -> generation of the object the filesystem uses, or None
  starter,  \* process -> the goroutine that StartDaemon left for it
  rec,      \* recovery goroutines
  mnt,      \* goroutines in Mount and Umount
  done,     \* instances whose Mount has succeeded and whose state was fetched
  dtor,     \* the DestroyDaemon under way
  up,       \* the upgrade under way
  tried,    \* IDs that have had their upgrade
  lossy,    \* a call has failed that may cost instances or states
  faults, deaths, crashed,
  inSet, saved, sem, sock, lst, fetch,                          \* Supervisor
  subscribers, set, reported, events, sending, notifier         \* LivenessMonitor

Policy == scene.policy
Ops == scene.ops
Races == scene.races

INSTANCE LivenessMonitor
INSTANCE Supervisor

monitor == <<subscribers, set, reported, events, sending, notifier>>
supervisor == <<inSet, saved, sem, sock, lst, fetch>>
counters == <<lossy, faults, deaths, crashed>>
daemon == <<obj, lock, mgr, cache, db, fsd>>
routines == <<starter, rec, mnt, done, dtor, up, tried>>
vars == <<scene, proc, file, daemon, routines, counters, supervisor, monitor>>

NoProc == [id |-> None, path |-> 0, st |-> "none", takeover |-> FALSE, mounts |-> {}, child |-> TRUE]
NoObj == [pid |-> None, path |-> 0, state |-> "unknown", insts |-> {}]
Off == [pc |-> "off", o |-> None, val |-> "unknown"]
NoRec == [pc |-> "off", o |-> None, policy |-> "restart", todo |-> {}]
NoMnt == [pc |-> "off", o |-> None, i |-> None, ok |-> TRUE, op |-> "mount"]
NoDtor == [pc |-> "off", o |-> None]
NoUp == [pc |-> "off", id |-> None, api |-> TRUE, todo |-> {}]

DaemonState == {"unknown", "init", "ready", "running"}

TypeOK ==
  /\ MonitorTypeOK /\ SupervisorTypeOK /\ scene \in Scenario
  /\ proc \in [Pid -> [id : Id \cup {None}, path : Path, takeover : BOOLEAN, mounts : SUBSET Inst, child : BOOLEAN,
                       st : {"none", "boot", "init", "taking", "ready", "running", "dead"}]]
  /\ file \subseteq Id \X Path
  /\ obj \in [Obj -> [pid : Pid \cup {None}, path : Path, state : DaemonState, insts : SUBSET Inst]]
  /\ lock \in [Obj -> Caller \cup {None}] /\ mgr \in Caller \cup {None}
  /\ cache \in [Id -> Gen \cup {None}] /\ fsd \in [Id -> Gen \cup {None}]
  /\ db \in [Id -> [pid : Pid, path : Path] \cup {None}]
  /\ starter \in [Pid -> [pc : {"off", "sock", "sub", "wait", "apply", "send", "fetch"},
                          o : Obj \cup {None}, val : DaemonState]]
  /\ rec \in [Slot -> [pc : {"off", "wait", "waiting", "unsub", "clear", "send", "start", "update", "running",
                             "mount", "fetch", "init", "takeover", "taking", "service", "panic"},
                       o : Obj \cup {None}, policy : {"restart", "failover", "boot"}, todo : SUBSET Inst]]
  /\ mnt \in [Thread -> [pc : {"off", "api", "states", "fetch"}, o : Obj \cup {None}, i : Inst \cup {None},
                         ok : BOOLEAN, op : {"mount", "umount"}]]
  /\ done \subseteq Inst /\ tried \subseteq Id
  /\ dtor \in [pc : {"off", "unsub", "su", "term"}, o : Obj \cup {None}]
  /\ up \in [pc : {"off", "offer", "spawn", "init", "takeover", "taking", "unsub", "exit", "start", "sub", "mount",
                   "fetch"},
             id : Id \cup {None}, api : BOOLEAN, todo : SUBSET Inst]
  /\ lossy \in BOOLEAN /\ faults \in 0 .. MaxFault /\ deaths \in 0 .. MaxDeath /\ crashed \in BOOLEAN

Init ==
  /\ MonitorInit /\ SupervisorInit /\ scene \in Scenario
  /\ proc = [p \in Pid |-> NoProc] /\ file = {}
  /\ obj = [o \in Obj |-> NoObj] /\ lock = [o \in Obj |-> None] /\ mgr = None
  /\ cache = [i \in Id |-> None] /\ db = [i \in Id |-> None] /\ fsd = [i \in Id |-> None]
  /\ starter = [p \in Pid |-> Off] /\ rec = [r \in Slot |-> NoRec]
  /\ mnt = [t \in Thread |-> NoMnt] /\ done = {} /\ dtor = NoDtor /\ up = NoUp /\ tried = {}
  /\ lossy = FALSE /\ faults = 0 /\ deaths = 0 /\ crashed = FALSE

Fail(call) == call \in scene.faults /\ faults < MaxFault /\ faults' = faults + 1 /\ UNCHANGED <<deaths, crashed>>
Works == UNCHANGED counters

Listening(p) == proc[p].st \in {"init", "taking", "ready", "running"}
Alive(p) == proc[p].st \notin {"none", "dead"}
Dead == {p \in Pid : proc[p].st = "dead"}

\* The process that answers on an object's API socket, if any (GetClient).
Server(o) == {p \in Pid : Listening(p) /\ proc[p].id = o[1] /\ proc[p].path = obj[o].path}
Unanswered(o) == Server(o) = {}
HasFile(o) == <<o[1], obj[o].path>> \in file

Settled(id) ==
  /\ \A r \in Slot : IF rec[r].pc = "off" THEN TRUE ELSE rec[r].o[1] # id
  /\ \A i \in 1 .. Len(notifier) : notifier[i].id # id
  /\ IF sending = None THEN TRUE ELSE sending.id # id
  /\ \A p \in Pid : IF starter[p].pc = "off" THEN TRUE ELSE starter[p].o[1] # id

-----------------------------------------------------------------------------
(* nydusd.  One that finds a socket file nobody answers on, or is started  *)
(* with --upgrade, stays in INIT until it is told to take over.            *)

NextPid == {p \in Pid : proc[p].st = "none" /\ \A q \in 1 .. p - 1 : proc[q].st # "none"}

Spawn(p, o, upgrade) ==
  proc' = [proc EXCEPT ![p] = [id |-> o[1], path |-> obj[o].path, st |-> "boot",
                               takeover |-> upgrade \/ HasFile(o), mounts |-> {}, child |-> TRUE]]

NydusdListens(p) ==
  /\ proc[p].st = "boot"
  /\ proc' = [proc EXCEPT ![p].st = "init"]
  /\ file' = file \cup {<<proc[p].id, proc[p].path>>}
  /\ UNCHANGED <<daemon, routines, counters, supervisor, monitor>>

NydusdRuns(p) ==
  /\ proc[p].st = "init" /\ ~proc[p].takeover
  /\ proc' = [proc EXCEPT ![p].st = "running"]
  /\ UNCHANGED <<file, daemon, routines, counters, supervisor, monitor>>

\* What the dying process has mounted but the supervisor has not saved is lost.
Unsaved == \E t \in Thread : Policy = "failover" /\ mnt[t].pc \in {"states", "fetch"}

NydusdDies(p) ==
  /\ Alive(p) /\ deaths < MaxDeath
  /\ ~Unsaved \/ "states" \in Races
  /\ up.pc = "off" \/ "upgrade" \in Races
  /\ dtor.pc = "off" \/ "destroy" \in Races
  /\ proc' = [proc EXCEPT ![p].st = "dead", ![p].mounts = {}]
  /\ deaths' = deaths + 1
  /\ UNCHANGED <<lossy, faults, crashed, file, daemon, routines, supervisor, monitor>>

-----------------------------------------------------------------------------
(* StartDaemon.  The object's mutex is kept from the spawn to the record.  *)

\* UpdateDaemon: a daemon that is no longer cached is not put back.
Record(o) ==
  IF cache[o[1]] = None THEN UNCHANGED <<cache, db>>
  ELSE /\ cache' = [cache EXCEPT ![o[1]] = o[2]]
       /\ db' = [db EXCEPT ![o[1]] = [pid |-> obj[o].pid, path |-> obj[o].path]]

StarterOf(p, o) == starter' = [starter EXCEPT ![p] = [pc |-> "sock", o |-> o, val |-> "unknown"]]

\* createDaemon and StartDaemon of a daemon made for the first time.
Launch(id) ==
  LET o == <<id, 1>> IN
  /\ "second" \in Ops \/ id = First
  /\ obj[o].pid = None /\ mgr = None /\ cache[id] = None /\ db[id] = None /\ ~crashed
  /\ \E p \in NextPid :
       /\ Spawn(p, o, FALSE)
       /\ obj' = [obj EXCEPT ![o] = [NoObj EXCEPT !.pid = p]]
       /\ cache' = [cache EXCEPT ![id] = 1]
       /\ db' = [db EXCEPT ![id] = [pid |-> p, path |-> 0]]
       /\ StarterOf(p, o)
  /\ fsd' = [fsd EXCEPT ![id] = 1]
  /\ IF Policy = "failover" THEN NewSupervisor(id) ELSE UNCHANGED supervisor
  /\ UNCHANGED <<lock, mgr, file, rec, mnt, done, dtor, up, tried, counters, monitor>>

SGoto(p, pc) == starter' = [starter EXCEPT ![p].pc = pc]
SOnly == UNCHANGED <<proc, file, lock, mgr, cache, db, fsd, rec, mnt, done, dtor, up, tried>>

\* WaitUntilSocketExisted: a socket left by an earlier process will do.
StarterSocket(p) ==
  /\ starter[p].pc = "sock"
  /\ \/ HasFile(starter[p].o) /\ SGoto(p, "sub") /\ Works
     \/ ~HasFile(starter[p].o) /\ ~Alive(obj[starter[p].o].pid) /\ SGoto(p, "off") /\ Works
  /\ UNCHANGED <<obj, supervisor, monitor>> /\ SOnly

\* Subscribe: an existing subscription ends the goroutine, as does a socket that
\* nobody answers on for two seconds.  An error of SetNonblock or EpollCtl is lost: the
\* daemon is taken for subscribed.
StarterSubscribe(p) ==
  LET o == starter[p].o IN
  /\ starter[p].pc = "sub"
  /\ \/ Subscribed(o[1], obj[o].path) /\ SGoto(p, "off") /\ UNCHANGED monitor /\ Works
     \/ /\ ~Subscribed(o[1], obj[o].path)
        /\ \E q \in Server(o) : Subscribe(o[1], obj[o].path, q)
        /\ SGoto(p, "wait") /\ Works
     \/ /\ ~Subscribed(o[1], obj[o].path) /\ Server(o) # {}
        /\ SGoto(p, "wait") /\ Fail("epoll") /\ UNCHANGED <<monitor, lossy>>
     \/ /\ Unanswered(o) /\ SGoto(p, "off") /\ UNCHANGED <<monitor, lossy>>
        /\ IF Alive(obj[o].pid) THEN Fail("dial") ELSE Works
  /\ UNCHANGED <<obj, supervisor>> /\ SOnly

\* WaitUntilState(RUNNING): the cached state, or what nydusd answers ...
StarterWait(p) ==
  LET o == starter[p].o IN
  /\ starter[p].pc = "wait" /\ lock[o] = None
  /\ \/ obj[o].state = "running" /\ SGoto(p, "send") /\ Works
     \/ /\ obj[o].state # "running"
        /\ \E q \in Server(o) :
             /\ proc[q].st # "taking"
             /\ starter' = [starter EXCEPT ![p].pc = "apply", ![p].val = proc[q].st]
        /\ Works
     \/ /\ obj[o].state # "running" /\ Unanswered(o) /\ ~Alive(obj[o].pid)
        /\ SGoto(p, "off") /\ Works
     \/ /\ obj[o].state # "running" /\ \A q \in Server(o) : proc[q].st # "running"
        /\ SGoto(p, "off") /\ Fail("wait") /\ UNCHANGED lossy
  /\ UNCHANGED <<obj, supervisor, monitor>> /\ SOnly

\* ... which is cached when the answer has arrived, whoever has reset it since.
StarterApply(p) ==
  LET o == starter[p].o IN
  /\ starter[p].pc = "apply" /\ lock[o] = None
  /\ obj' = [obj EXCEPT ![o].state = starter[p].val]
  /\ SGoto(p, IF starter[p].val = "running" THEN "send" ELSE "wait")
  /\ Works /\ UNCHANGED <<supervisor, monitor>> /\ SOnly

\* SendStates, when the daemon has a supervisor.
StarterSend(p) ==
  /\ starter[p].pc = "send"
  /\ IF Policy = "failover"
     THEN FetchBegin(<<"starter", p>>, starter[p].o[1]) /\ SGoto(p, "fetch")
     ELSE UNCHANGED supervisor /\ SGoto(p, "off")
  /\ Works /\ UNCHANGED <<obj, monitor>> /\ SOnly

-----------------------------------------------------------------------------
(* The monitor's loop and handleDaemonDeathEvent.                          *)

MonitorStep ==
  /\ EpollWait(Dead) \/ (\E f \in Fd : LookUp(f)) \/ Notify
  /\ UNCHANGED <<proc, file, daemon, routines, counters, supervisor>>

\* The handler waits for the object's mutex, then leaves the work to a goroutine.
HandleDeath(r) ==
  LET id == Head(notifier).id
      o == <<id, cache[id]>>
  IN /\ Received /\ rec[r].pc = "off"
     /\ IF cache[id] = None THEN UNCHANGED <<obj, rec>>
        ELSE /\ lock[o] = None
             /\ obj' = [obj EXCEPT ![o].state = "unknown"]
             /\ rec' = [rec EXCEPT ![r] = [pc |-> "wait", o |-> o, policy |-> Policy, todo |-> {}]]
     /\ UNCHANGED <<proc, file, lock, mgr, cache, db, fsd, starter, mnt, done, dtor, up, tried,
                    counters, supervisor>>

RGoto(r, pc) == rec' = [rec EXCEPT ![r].pc = pc]
RC(r) == <<"recovery", r>>
ROnly == UNCHANGED <<mgr, fsd, mnt, done, dtor, up, tried>>
RLocal == UNCHANGED <<lock, cache, db, starter>>

\* Wait keeps the object's mutex until the process has ended; it does not wait for one
\* that an earlier snapshotter has started (ECHILD) ...
RecoverWait(r) ==
  /\ rec[r].pc = "wait" /\ lock[rec[r].o] = None
  /\ lock' = [lock EXCEPT ![rec[r].o] = RC(r)]
  /\ RGoto(r, "waiting")
  /\ Works /\ UNCHANGED <<proc, file, obj, cache, db, starter, supervisor, monitor>> /\ ROnly

RecoverWaited(r) ==
  /\ rec[r].pc = "waiting" /\ (~Alive(obj[rec[r].o].pid) \/ ~proc[obj[rec[r].o].pid].child)
  /\ lock' = [lock EXCEPT ![rec[r].o] = None]
  /\ RGoto(r, "unsub")
  /\ Works /\ UNCHANGED <<proc, file, obj, cache, db, starter, supervisor, monitor>> /\ ROnly

\* ... and the daemon is unsubscribed: a new nydusd will be subscribed again.
RecoverUnsubscribe(r) ==
  /\ rec[r].pc = "unsub"
  /\ Unsubscribe(rec[r].o[1])
  /\ RGoto(r, IF rec[r].policy = "failover" THEN "send" ELSE "clear")
  /\ Works /\ UNCHANGED <<proc, file, obj, supervisor>> /\ RLocal /\ ROnly

\* Mutant: the API socket of the dead process stays.
ClearVestige_KeepsSocket(r) ==
  /\ rec[r].pc = "clear"
  /\ RGoto(r, "start")
  /\ Works /\ UNCHANGED <<proc, file, obj, supervisor, monitor>> /\ RLocal /\ ROnly

\* ClearVestige: the mountpoint and the socket file go, the client is forgotten.
ClearVestige(r) ==
  /\ rec[r].pc = "clear"
  /\ file' = file \ {<<rec[r].o[1], obj[rec[r].o].path>>}
  /\ RGoto(r, "start")
  /\ Works /\ UNCHANGED <<proc, obj, supervisor, monitor>> /\ RLocal /\ ROnly

\* A failover offers the saved state first.  A supervisor that DestroyDaemon has
\* dropped is a nil pointer.
RecoverSendStates(r) ==
  /\ rec[r].pc = "send"
  /\ IF rec[r].o[1] \in inSet
     THEN SendStates(RC(r), rec[r].o[1]) /\ RGoto(r, "start")
     ELSE UNCHANGED supervisor /\ RGoto(r, "panic")
  /\ Works /\ UNCHANGED <<proc, file, obj, monitor>> /\ RLocal /\ ROnly

RecoverSpawn(r) ==
  LET o == rec[r].o IN
  /\ rec[r].pc = "start" /\ lock[o] = None
  /\ \/ /\ \E p \in NextPid : Spawn(p, o, FALSE) /\ obj' = [obj EXCEPT ![o].pid = p]
        /\ lock' = [lock EXCEPT ![o] = RC(r)]
        /\ RGoto(r, "update") /\ Works
     \/ /\ rec' = [rec EXCEPT ![r] = NoRec] /\ Fail("spawn")
        /\ UNCHANGED <<proc, obj, lock, lossy>>
  /\ UNCHANGED <<file, cache, db, starter, supervisor, monitor>> /\ ROnly

\* The next step: remount (restart), or first be running (a start at boot), or be
\* in INIT to take over (failover).
AfterStart(policy) ==
  CASE policy = "restart" -> "mount" [] policy = "boot" -> "running" [] policy = "failover" -> "init"

RecoverRecord(r) ==
  LET o == rec[r].o IN
  /\ rec[r].pc = "update" /\ mgr = None
  /\ \/ Record(o) /\ Works
     \/ UNCHANGED <<cache, db, lossy>> /\ Fail("record")
  /\ lock' = [lock EXCEPT ![o] = None]
  /\ StarterOf(obj[o].pid, o)
  /\ rec' = [rec EXCEPT ![r].pc = AfterStart(rec[r].policy), ![r].todo = obj[o].insts]
  /\ UNCHANGED <<proc, file, obj, supervisor, monitor>> /\ ROnly

\* NewFileSystem waits for RUNNING before it remounts.
RecoverRunning(r) ==
  LET o == rec[r].o IN
  /\ rec[r].pc = "running" /\ lock[o] = None
  /\ \/ /\ obj[o].state = "running" \/ \E p \in Server(o) : proc[p].st = "running"
        /\ obj' = [obj EXCEPT ![o].state = "running"]
        /\ RGoto(r, "mount")
     \/ /\ obj[o].state # "running" /\ Unanswered(o) /\ ~Alive(obj[o].pid)
        /\ rec' = [rec EXCEPT ![r] = NoRec] /\ UNCHANGED obj
  /\ Works /\ UNCHANGED <<proc, file, supervisor, monitor>> /\ RLocal /\ ROnly

\* SharedMount, and its SendStates, of each instance listed; an error is logged, at boot it ends the recovery.
Remount(r) ==
  LET o == rec[r].o IN
  /\ rec[r].pc = "mount"
  /\ \E i \in rec[r].todo :
       \/ /\ \E p \in Server(o) : proc' = [proc EXCEPT ![p].mounts = @ \cup {i}]
          /\ IF Policy = "failover"
             THEN FetchBegin(RC(r), o[1]) /\ rec' = [rec EXCEPT ![r].todo = @ \ {i}, ![r].pc = "fetch"]
             ELSE UNCHANGED supervisor /\ rec' = [rec EXCEPT ![r].todo = @ \ {i}]
          /\ Works
       \/ /\ UNCHANGED <<proc, supervisor>> /\ lossy' = TRUE
          /\ IF Unanswered(o) /\ ~Alive(obj[o].pid) THEN UNCHANGED <<faults, deaths, crashed>> ELSE Fail("mount")
          /\ rec' = [rec EXCEPT ![r] = IF rec[r].policy = "boot" THEN NoRec ELSE [@ EXCEPT !.todo = @ \ {i}]]
  /\ UNCHANGED <<file, obj, monitor>> /\ RLocal /\ ROnly

\* At boot the daemon becomes the one the filesystem uses, if there is none.
Remounted(r) ==
  LET o == rec[r].o IN
  /\ rec[r].pc = "mount" /\ rec[r].todo = {}
  /\ rec' = [rec EXCEPT ![r] = NoRec]
  /\ fsd' = IF rec[r].policy = "boot" /\ fsd[o[1]] = None THEN [fsd EXCEPT ![o[1]] = o[2]] ELSE fsd
  /\ Works /\ UNCHANGED <<proc, file, obj, mgr, mnt, done, dtor, up, tried, supervisor, monitor>> /\ RLocal

\* WaitUntilState(INIT)
RecoverInit(r) ==
  LET o == rec[r].o IN
  /\ rec[r].pc = "init" /\ lock[o] = None
  /\ \/ /\ obj[o].state = "init" \/ \E p \in Server(o) : proc[p].st = "init"
        /\ obj' = [obj EXCEPT ![o].state = "init"]
        /\ RGoto(r, "takeover")
     \/ /\ obj[o].state # "init" /\ \A p \in Server(o) : proc[p].st # "init"
        /\ Server(o) # {} \/ ~Alive(obj[o].pid)
        /\ rec' = [rec EXCEPT ![r] = NoRec] /\ UNCHANGED obj
  /\ Works /\ UNCHANGED <<proc, file, supervisor, monitor>> /\ RLocal /\ ROnly

\* TakeOver: nydusd connects to the supervisor's socket, whoever listens there.
TakeOver(o, p) ==
  /\ p \in Server(o) /\ proc[p].st = "init" /\ Reachable(o[1])
  /\ Connect(o[1], p, None)
  /\ proc' = [proc EXCEPT ![p].st = "taking"]
  /\ UNCHANGED <<inSet, saved, sem, sock, fetch>>
CannotTakeOver(o) == \A p \in Server(o) : proc[p].st # "init" \/ ~Reachable(o[1])

\* It fails when the connection ends without a state, or nobody sends one.
Connected(p) == {c \in Caller : lst[c].conn = p}
NotTaken(o) ==
  \/ Unanswered(o)
  \/ \E p \in Server(o) : proc[p].st = "taking" /\ \A c \in Connected(p) : lst[c].kind = "recv" \/ lst[c].served
GiveUp(o) == proc' = [p \in Pid |-> IF p \in Server(o) /\ proc[p].st = "taking" THEN [proc[p] EXCEPT !.st = "init"]
                                    ELSE proc[p]]

RecoverTakeOver(r) ==
  LET o == rec[r].o IN
  /\ rec[r].pc = "takeover"
  /\ \/ \E p \in Pid : TakeOver(o, p) /\ RGoto(r, "taking")
     \/ CannotTakeOver(o) /\ rec' = [rec EXCEPT ![r] = NoRec] /\ UNCHANGED <<proc, supervisor>>
  /\ Works /\ UNCHANGED <<file, obj, monitor>> /\ RLocal /\ ROnly

RecoverTaken(r) ==
  LET o == rec[r].o IN
  /\ rec[r].pc = "taking"
  /\ \/ (\E p \in Server(o) : proc[p].st = "ready") /\ RGoto(r, "service") /\ UNCHANGED proc
     \/ NotTaken(o) /\ rec' = [rec EXCEPT ![r] = NoRec] /\ GiveUp(o)
  /\ Works /\ UNCHANGED <<file, obj, supervisor, monitor>> /\ RLocal /\ ROnly

\* Start
RecoverService(r) ==
  LET o == rec[r].o IN
  /\ rec[r].pc = "service"
  /\ \/ (\E p \in Server(o) : proc[p].st = "ready" /\ proc' = [proc EXCEPT ![p].st = "running"]) /\ Works
     \/ Unanswered(o) /\ UNCHANGED proc /\ Works
     \/ Fail("start") /\ UNCHANGED <<proc, lossy>>
  /\ rec' = [rec EXCEPT ![r] = NoRec]
  /\ UNCHANGED <<file, obj, supervisor, monitor>> /\ RLocal /\ ROnly

-----------------------------------------------------------------------------
(* Mount and Umount of an instance by its shared daemon: the daemon's      *)
(* cache, nydusd, then SendStates.                                         *)

MOnly == UNCHANGED <<file, lock, mgr, cache, db, fsd, starter, rec, dtor, up, tried, monitor>>
InUse(i) == \E t \in Thread : mnt[t].pc # "off" /\ mnt[t].i = i
MayChange(id) == fsd[id] # None /\ (up.id # id \/ "upgrade" \in Races)

MountBegin(t) ==
  /\ mnt[t].pc = "off" /\ t \in scene.threads
  /\ \E id \in Id, i \in Inst :
       /\ i \in InstOf[id] \cap scene.insts /\ MayChange(id) /\ ~InUse(i)
       /\ LET o == <<id, fsd[id]>> IN
          /\ i \notin obj[o].insts
          /\ obj' = [obj EXCEPT ![o].insts = @ \cup {i}]
          /\ mnt' = [mnt EXCEPT ![t] = [pc |-> "api", o |-> o, i |-> i, ok |-> TRUE, op |-> "mount"]]
  /\ Works /\ UNCHANGED <<proc, done, supervisor>> /\ MOnly

UmountBegin(t) ==
  /\ mnt[t].pc = "off" /\ "umount" \in Ops /\ t \in scene.threads
  /\ \E id \in Id, i \in done :
       /\ i \in InstOf[id] /\ MayChange(id) /\ ~InUse(i)
       /\ LET o == <<id, fsd[id]>> IN
          /\ obj' = [obj EXCEPT ![o].insts = @ \ {i}]
          /\ mnt' = [mnt EXCEPT ![t] = [pc |-> "api", o |-> o, i |-> i, ok |-> TRUE, op |-> "umount"]]
       /\ done' = done \ {i}
  /\ Works /\ UNCHANGED <<proc, supervisor>> /\ MOnly

\* client.Mount is refused for an instance that is mounted, and by nobody there.
CallMount(t) ==
  LET o == mnt[t].o
      i == mnt[t].i
  IN /\ mnt[t].pc = "api" /\ mnt[t].op = "mount"
     /\ \/ \E p \in Server(o) :
             /\ i \notin proc[p].mounts
             /\ proc' = [proc EXCEPT ![p].mounts = @ \cup {i}]
             /\ mnt' = [mnt EXCEPT ![t].pc = "states"] /\ Works
        \/ /\ \A p \in Server(o) : i \in proc[p].mounts
           /\ mnt' = [mnt EXCEPT ![t].pc = "states", ![t].ok = FALSE] /\ UNCHANGED proc /\ Works
     /\ UNCHANGED <<obj, done, supervisor>> /\ MOnly

CallUmount(t) ==
  LET o == mnt[t].o IN
  /\ mnt[t].pc = "api" /\ mnt[t].op = "umount"
  /\ proc' = [p \in Pid |-> IF p \in Server(o) THEN [proc[p] EXCEPT !.mounts = @ \ {mnt[t].i}] ELSE proc[p]]
  /\ mnt' = [mnt EXCEPT ![t].pc = "states"]
  /\ Works /\ UNCHANGED <<obj, done, supervisor>> /\ MOnly

\* Mutant: the state is not fetched after a mount.
MountStates_Skipped(t) ==
  /\ mnt[t].pc = "states"
  /\ mnt' = [mnt EXCEPT ![t] = NoMnt]
  /\ done' = IF mnt[t].ok /\ mnt[t].op = "mount" THEN done \cup {mnt[t].i} ELSE done
  /\ Works /\ UNCHANGED <<proc, obj, supervisor>> /\ MOnly

\* The deferred SendStates, whether the call succeeded or not.
MountStates(t) ==
  /\ mnt[t].pc = "states"
  /\ IF Policy = "failover"
     THEN /\ FetchBegin(<<"thread", t>>, mnt[t].o[1])
          /\ mnt' = [mnt EXCEPT ![t].pc = "fetch"] /\ UNCHANGED done
     ELSE /\ mnt' = [mnt EXCEPT ![t] = NoMnt] /\ UNCHANGED supervisor
          /\ done' = IF mnt[t].ok /\ mnt[t].op = "mount" THEN done \cup {mnt[t].i} ELSE done
  /\ Works /\ UNCHANGED <<proc, obj>> /\ MOnly

-----------------------------------------------------------------------------
(* FetchDaemonStates and SendStatesTimeout, for whoever has called them.   *)

COnly == UNCHANGED <<file, daemon, dtor, tried, monitor>>
CRoutines == <<starter, rec, mnt, done, up>>
ObjOf(c) == CASE c[1] = "starter" -> starter[c[2]].o [] c[1] = "thread" -> mnt[c[2]].o
              [] c[1] = "recovery" -> rec[c[2]].o [] c = Remounter -> <<up.id, 2>>

FetchWork(c) ==
  /\ FetchListen(c) \/ Save(c) \/ RecvClose(c)
       \/ (RecvFails(c) /\ proc[lst[c].conn].st # "taking")
  /\ Works /\ UNCHANGED <<proc, CRoutines>> /\ COnly

\* doSendStates: a nydusd that runs connects and sends what it has mounted.
FetchTrigger(c) ==
  LET o == ObjOf(c)
      able == {p \in Server(o) : proc[p].st = "running"}
  IN /\ fetch[c].pc = "wait"
     /\ \/ (\E p \in able : Trigger(c, p, proc[p].mounts)) /\ Works
        \/ able = {} /\ Trigger(c, None, None) /\ Works
        \/ Trigger(c, None, None) /\ Fail("sendfd") /\ UNCHANGED lossy
     /\ UNCHANGED <<proc, CRoutines>> /\ COnly

\* SendStates returns nothing: a fetch that failed is only logged.
FetchReturn(c) ==
  /\ FetchEnd(c)
  /\ CASE c[1] = "starter" -> SGoto(c[2], "off") /\ UNCHANGED <<rec, mnt, done, up>>
       [] c[1] = "recovery" -> RGoto(c[2], "mount") /\ UNCHANGED <<starter, mnt, done, up>>
       [] c = Remounter -> up' = [up EXCEPT !.pc = "mount"] /\ UNCHANGED <<starter, rec, mnt, done>>
       [] c[1] = "thread" ->
            LET m == mnt[c[2]] IN
            /\ mnt' = [mnt EXCEPT ![c[2]] = NoMnt]
            /\ done' = IF m.ok /\ m.op = "mount" /\ fetch[c].recv = "ok" THEN done \cup {m.i} ELSE done
            /\ UNCHANGED <<starter, rec, up>>
  /\ Works /\ UNCHANGED proc /\ COnly

\* The saved state goes to the process that is taking over.
Serve(c) ==
  LET p == lst[c].conn IN
  /\ SendServe(c)
  /\ proc' = IF proc[p].st = "taking" /\ saved[lst[c].id] # None
             THEN [proc EXCEPT ![p].st = "ready", ![p].mounts = @ \cup saved[lst[c].id]] ELSE proc
  /\ Works /\ UNCHANGED CRoutines /\ COnly

\* Ten seconds are enough for a nydusd to start, but for a fault.
Offered(c) == IF c = Upgrader THEN up.pc \in {"spawn", "init", "takeover"}
              ELSE rec[c[2]].pc \in {"start", "update", "init", "takeover"}
ServeEnd(c) ==
  /\ \/ SendClose(c) /\ Works
     \/ SendTimeout(c) /\ (IF Offered(c) THEN Fail("late") /\ UNCHANGED lossy ELSE Works)
  /\ UNCHANGED <<proc, CRoutines>> /\ COnly

-----------------------------------------------------------------------------
(* DestroyDaemon, for a daemon without instances.                          *)

DOnly == UNCHANGED <<mgr, starter, rec, mnt, done, up, tried, counters>>
Destroyable(id) ==
  /\ cache[id] # None /\ obj[<<id, cache[id]>>].insts = {} /\ up.id # id
  /\ \A t \in Thread : IF mnt[t].pc = "off" THEN TRUE ELSE mnt[t].o[1] # id
  /\ "destroy" \in Races \/ (Settled(id) /\ Alive(obj[<<id, cache[id]>>].pid))

\* The record goes first, so that a failure leaves none behind.
DestroyBegin(id) ==
  /\ dtor.pc = "off" /\ "destroy" \in Ops /\ mgr = None /\ Destroyable(id)
  /\ cache' = [cache EXCEPT ![id] = None]
  /\ db' = [db EXCEPT ![id] = None]
  /\ fsd' = [fsd EXCEPT ![id] = None]
  /\ dtor' = [pc |-> "unsub", o |-> <<id, cache[id]>>]
  /\ UNCHANGED <<proc, file, obj, lock, supervisor, monitor>> /\ DOnly

DestroyUnsubscribe ==
  /\ dtor.pc = "unsub"
  /\ Unsubscribe(dtor.o[1])
  /\ dtor' = [dtor EXCEPT !.pc = IF Policy = "failover" THEN "su" ELSE "term"]
  /\ UNCHANGED <<proc, file, obj, lock, cache, db, fsd, supervisor>> /\ DOnly

DestroySu ==
  /\ dtor.pc = "su"
  /\ DestroySupervisor(dtor.o[1])
  /\ dtor' = [dtor EXCEPT !.pc = "term"]
  /\ UNCHANGED <<proc, file, obj, lock, cache, db, fsd, monitor>> /\ DOnly

\* Terminate and Wait: the process that the object names now ends.
DestroyProcess ==
  LET o == dtor.o IN
  /\ dtor.pc = "term" /\ lock[o] = None
  /\ proc' = [proc EXCEPT ![obj[o].pid].st = "dead", ![obj[o].pid].mounts = {}]
  /\ dtor' = NoDtor
  /\ UNCHANGED <<file, obj, lock, cache, db, fsd, supervisor, monitor>> /\ DOnly

-----------------------------------------------------------------------------
(* Live upgrade, of a daemon with a supervisor: upgradeNydusDaemon for the *)
(* system controller, which keeps the manager's mutex, DoDaemonUpgrade at  *)
(* startup, which does not.  No death, recovery, Mount or Umount falls     *)
(* into one without "upgrade" among the races: nothing keeps them apart.   *)

UGoto(pc) == up' = [up EXCEPT !.pc = pc]
UOnly == UNCHANGED <<lock, starter, rec, mnt, done, dtor>>
Old == <<up.id, 1>>
New == <<up.id, 2>>

\* Any error ends the upgrade where it is, and so does its last step.
UpgradeEnds ==
  /\ up' = NoUp /\ tried' = tried \cup {up.id}
  /\ mgr' = IF up.api THEN None ELSE mgr
UGoes(pc) == UGoto(pc) /\ UNCHANGED <<mgr, tried>>

\* The new object copies the state and the instances, and gets the next socket.
NewObject(o) == [o EXCEPT !.path = 1, !.state = "unknown"]

UpgradeBegin(id) ==
  /\ up.pc = "off" /\ "upgrade" \in Ops /\ Policy = "failover" /\ id \notin tried
  /\ mgr = None /\ cache[id] = 1 /\ obj[<<id, 1>>].path = 0
  /\ "upgrade" \in Races \/ (Alive(obj[<<id, 1>>].pid) /\ Settled(id) /\ \A t \in Thread : mnt[t].pc = "off")
  /\ mgr' = Upgrader
  /\ obj' = [obj EXCEPT ![<<id, 2>>] = NewObject(obj[<<id, 1>>])]
  /\ SendStates(Upgrader, id)
  /\ up' = [NoUp EXCEPT !.pc = "spawn", !.id = id]
  /\ Works /\ UNCHANGED <<proc, file, cache, db, fsd, tried, monitor>> /\ UOnly

UpgradeSpawn ==
  /\ up.pc = "spawn"
  /\ \/ (\E p \in NextPid : Spawn(p, New, TRUE) /\ obj' = [obj EXCEPT ![New].pid = p]) /\ UGoes("init") /\ Works
     \/ UpgradeEnds /\ Fail("spawn") /\ UNCHANGED <<proc, obj, lossy>>
  /\ UNCHANGED <<file, cache, db, fsd, supervisor, monitor>> /\ UOnly

UpgradeInit ==
  /\ up.pc = "init"
  /\ \/ (\E p \in Server(New) : proc[p].st = "init") /\ UGoes("takeover")
     \/ Unanswered(New) /\ ~Alive(obj[New].pid) /\ UpgradeEnds
  /\ Works /\ UNCHANGED <<proc, file, obj, cache, db, fsd, supervisor, monitor>> /\ UOnly

UpgradeTakeOver ==
  /\ up.pc = "takeover"
  /\ \/ (\E p \in Pid : TakeOver(New, p)) /\ UGoes("taking")
     \/ CannotTakeOver(New) /\ UpgradeEnds /\ UNCHANGED <<proc, supervisor>>
  /\ Works /\ UNCHANGED <<file, obj, cache, db, fsd, monitor>> /\ UOnly

\* TakeOver returns, and WaitUntilState(READY).
UpgradeTaken ==
  /\ up.pc = "taking"
  /\ \/ (\E p \in Server(New) : proc[p].st = "ready") /\ UGoes("unsub") /\ UNCHANGED proc
     \/ NotTaken(New) /\ UpgradeEnds /\ GiveUp(New)
  /\ Works /\ UNCHANGED <<file, obj, cache, db, fsd, supervisor, monitor>> /\ UOnly

\* A daemon that is not subscribed is an error.
UpgradeUnsubscribe ==
  /\ up.pc = "unsub"
  /\ Unsubscribe(up.id)
  /\ IF subscribers[up.id] = None THEN UpgradeEnds ELSE UGoes("exit")
  /\ Works /\ UNCHANGED <<proc, file, obj, cache, db, fsd, supervisor>> /\ UOnly

\* Mutant: the old process is not told to exit.
UpgradeExit_Skipped ==
  /\ up.pc = "exit" /\ UGoes("start")
  /\ Works /\ UNCHANGED <<proc, file, obj, cache, db, fsd, supervisor, monitor>> /\ UOnly

\* The old process leaves without unmounting.
UpgradeExit ==
  /\ up.pc = "exit"
  /\ \/ /\ \E p \in Server(Old) : proc' = [proc EXCEPT ![p].st = "dead", ![p].mounts = {}]
        /\ UGoes("start")
     \/ Unanswered(Old) /\ UpgradeEnds /\ UNCHANGED proc
  /\ Works /\ UNCHANGED <<file, obj, cache, db, fsd, supervisor, monitor>> /\ UOnly

\* TryRetainSharedDaemon, which replaces no daemon, comes first for the controller.
UpgradeStart ==
  /\ up.pc = "start"
  /\ fsd' = IF up.api /\ fsd[up.id] = None THEN [fsd EXCEPT ![up.id] = 2] ELSE fsd
  /\ \/ /\ \E p \in Server(New) : proc[p].st = "ready" /\ proc' = [proc EXCEPT ![p].st = "running"]
        /\ UGoes("sub") /\ Works
     \/ Unanswered(New) /\ UpgradeEnds /\ UNCHANGED proc /\ Works
     \/ Fail("start") /\ UpgradeEnds /\ UNCHANGED <<proc, lossy>>
  /\ UNCHANGED <<file, obj, cache, db, supervisor, monitor>> /\ UOnly

UpgradeSubscribe ==
  /\ up.pc = "sub"
  /\ \/ /\ \E p \in Server(New) : Subscribe(up.id, obj[New].path, p)
        /\ up' = [up EXCEPT !.pc = "mount", !.todo = IF up.api THEN {} ELSE obj[New].insts]
        /\ UNCHANGED <<mgr, tried>> /\ Works
     \/ /\ Server(New) # {} /\ Fail("epoll")
        /\ up' = [up EXCEPT !.pc = "mount", !.todo = IF up.api THEN {} ELSE obj[New].insts]
        /\ UNCHANGED <<mgr, tried, monitor, lossy>>
     \/ Unanswered(New) /\ ~Alive(obj[New].pid) /\ UpgradeEnds /\ UNCHANGED monitor /\ Works
  /\ UNCHANGED <<proc, file, obj, cache, db, fsd, supervisor>> /\ UOnly

\* RecoverRafsInstances at startup: every instance is mounted again and the state
\* fetched; an error ends the upgrade.  Whether nydusd refuses what it has mounted
\* already, having taken it over, is left open.
UpgradeRemount ==
  /\ up.pc = "mount"
  /\ \E i \in up.todo :
       \/ /\ \E p \in Server(New) : proc' = [proc EXCEPT ![p].mounts = @ \cup {i}]
          /\ up' = [up EXCEPT !.todo = @ \ {i}, !.pc = "fetch"]
          /\ FetchBegin(Remounter, up.id) /\ UNCHANGED <<mgr, tried>> /\ Works
       \/ /\ UpgradeEnds /\ UNCHANGED <<proc, supervisor>>
          /\ IF \/ Unanswered(New) /\ ~Alive(obj[New].pid)
                \/ \E p \in Server(New) : i \in proc[p].mounts
             THEN Works ELSE Fail("mount") /\ UNCHANGED lossy
  /\ UNCHANGED <<file, obj, cache, db, fsd, monitor>> /\ UOnly

\* The record and the cache name the new object; at startup the filesystem gets it.
UpgradeRecord ==
  /\ up.pc = "mount" /\ up.todo = {} /\ (up.api \/ mgr = None)
  /\ Record(New)
  /\ fsd' = IF ~up.api /\ fsd[up.id] = None THEN [fsd EXCEPT ![up.id] = 2] ELSE fsd
  /\ UpgradeEnds
  /\ Works /\ UNCHANGED <<proc, file, obj, supervisor, monitor>> /\ UOnly

-----------------------------------------------------------------------------
(* The snapshotter dies and starts again; nydusd processes live on.        *)

\* A recovery that is cut short leaves a daemon that runs without its instances, an
\* upgrade a process that no record names, and a nydusd that does not listen yet is
\* taken for a dead one if an earlier one has left its socket file.
Crash ==
  /\ "crash" \in Ops /\ ~crashed /\ crashed' = TRUE
  /\ \/ "crash" \in Races
     \/ /\ up.pc = "off" /\ \A r \in Slot : rec[r].pc = "off"
        /\ \A p \in Pid : proc[p].st # "boot"
  /\ subscribers' = [i \in Id |-> None] /\ set' = [f \in Fd |-> None]
  /\ reported' = {} /\ events' = {} /\ sending' = None /\ notifier' = <<>>
  /\ inSet' = {} /\ saved' = [i \in Id |-> None] /\ sem' = [i \in Id |-> None] /\ sock' = [i \in Id |-> None]
  /\ lst' = [c \in Caller |-> Closed] /\ fetch' = [c \in Caller |-> NotFetching]
  /\ obj' = [o \in Obj |-> NoObj] /\ lock' = [o \in Obj |-> None] /\ mgr' = None
  /\ cache' = [i \in Id |-> None] /\ fsd' = [i \in Id |-> None]
  /\ starter' = [p \in Pid |-> Off] /\ rec' = [r \in Slot |-> NoRec] /\ mnt' = [t \in Thread |-> NoMnt]
  /\ dtor' = NoDtor /\ up' = NoUp
  /\ proc' = [p \in Pid |-> [proc[p] EXCEPT !.child = proc[p].st = "none"]]
  /\ UNCHANGED <<lossy, faults, deaths, file, db, done, tried>>

\* recoverDaemons makes the object again from its record, with an empty supervisor.
Reload(id, state) ==
  /\ cache[id] = None /\ db[id] # None /\ mgr = None
  /\ cache' = [cache EXCEPT ![id] = 1]
  /\ obj' = [o \in Obj |-> CASE o = <<id, 1>> -> [pid |-> db[id].pid, path |-> db[id].path, state |-> state,
                                                  insts |-> done \cap InstOf[id]]
                             [] o = <<id, 2>> -> NewObject([pid |-> db[id].pid, path |-> db[id].path, state |-> state,
                                                            insts |-> done \cap InstOf[id]])
                             [] OTHER -> obj[o]]
Answering(id) == {p \in Pid : db[id] # None /\ Listening(p) /\ proc[p].id = id /\ proc[p].path = db[id].path}
BootOnly == UNCHANGED <<proc, file, lock, mgr, db, mnt, done, dtor, tried, counters, monitor>>

\* A daemon that does not answer is started again.  GetState gives one that has no
\* socket yet the time to make it.
RecoverDead(id) ==
  /\ Reload(id, "unknown") /\ Answering(id) = {}
  /\ <<id, db[id].path>> \in file \/ ~Alive(db[id].pid)
  /\ \E r \in Slot : /\ rec[r].pc = "off"
                     /\ rec' = [rec EXCEPT ![r] = [NoRec EXCEPT !.pc = "clear", !.o = <<id, 1>>, !.policy = "boot"]]
  /\ IF Policy = "failover" THEN NewSupervisor(id) ELSE UNCHANGED supervisor
  /\ UNCHANGED <<fsd, starter, up>> /\ BootOnly

\* A daemon that answers but does not run yet is left alone.
RecoverStarting(id) ==
  /\ \E p \in Answering(id) : proc[p].st \in {"init", "ready"} /\ Reload(id, proc[p].st)
  /\ IF Policy = "failover" THEN NewSupervisor(id) ELSE UNCHANGED supervisor
  /\ UNCHANGED <<fsd, starter, rec, up>> /\ BootOnly

\* One that runs is subscribed and its state fetched.  Only with a supervisor is it
\* handed to the filesystem, or upgraded when the binary is another.
RecoverLive(id) ==
  /\ \E p \in Answering(id) : proc[p].st = "running"
  /\ Reload(id, "running")
  /\ StarterOf(db[id].pid, <<id, 1>>)
  /\ \/ Policy = "restart" /\ UNCHANGED <<fsd, up, supervisor>>
     \/ /\ Policy = "failover" /\ NewSupervisor(id)
        /\ fsd' = IF fsd[id] = None THEN [fsd EXCEPT ![id] = 1] ELSE fsd
        /\ UNCHANGED up
     \/ /\ Policy = "failover" /\ NewSupervisor(id)
        /\ "boot_upgrade" \in Ops /\ id \notin tried /\ up.pc = "off" /\ db[id].path = 0
        /\ up' = [NoUp EXCEPT !.pc = "offer", !.id = id, !.api = FALSE]
        /\ UNCHANGED fsd
  /\ UNCHANGED rec /\ BootOnly

\* DoDaemonUpgrade of a daemon found alive.
BootUpgrade ==
  /\ up.pc = "offer"
  /\ SendStates(Upgrader, up.id)
  /\ UGoes("spawn")
  /\ Works /\ UNCHANGED <<proc, file, obj, cache, db, fsd, monitor>> /\ UOnly

-----------------------------------------------------------------------------
StarterStep(p) ==
  StarterSocket(p) \/ StarterSubscribe(p) \/ StarterWait(p) \/ StarterApply(p) \/ StarterSend(p)
RecoverStep(r) ==
  \/ RecoverWait(r) \/ RecoverWaited(r) \/ RecoverUnsubscribe(r) \/ ClearVestige(r) \/ RecoverSendStates(r)
  \/ RecoverSpawn(r) \/ RecoverRecord(r) \/ RecoverRunning(r) \/ Remount(r) \/ Remounted(r)
  \/ RecoverInit(r) \/ RecoverTakeOver(r) \/ RecoverTaken(r) \/ RecoverService(r)
MountStep(t) == CallMount(t) \/ CallUmount(t) \/ MountStates(t)
SupervisorStep(c) == FetchWork(c) \/ FetchTrigger(c) \/ FetchReturn(c) \/ Serve(c) \/ ServeEnd(c)
DestroyStep == DestroyUnsubscribe \/ DestroySu \/ DestroyProcess
UpgradeStep ==
  \/ BootUpgrade \/ UpgradeSpawn \/ UpgradeInit \/ UpgradeTakeOver \/ UpgradeTaken \/ UpgradeUnsubscribe
  \/ UpgradeExit \/ UpgradeStart \/ UpgradeSubscribe \/ UpgradeRemount \/ UpgradeRecord
NydusdStep(p) == NydusdListens(p) \/ NydusdRuns(p)
Boot(id) == RecoverDead(id) \/ RecoverStarting(id) \/ RecoverLive(id)

Step ==
  \/ \E id \in Id : Launch(id) \/ DestroyBegin(id) \/ UpgradeBegin(id) \/ Boot(id)
  \/ \E p \in Pid : NydusdStep(p) \/ NydusdDies(p) \/ StarterStep(p)
  \/ \E r \in Slot : HandleDeath(r) \/ RecoverStep(r)
  \/ \E t \in Thread : MountBegin(t) \/ UmountBegin(t) \/ MountStep(t)
  \/ \E c \in Caller : SupervisorStep(c)
  \/ MonitorStep \/ DestroyStep \/ UpgradeStep \/ Crash

Next == Step /\ UNCHANGED scene

Spec == Init /\ [][Next]_vars

\* Goroutines and processes go on; nobody need mount, destroy, upgrade or crash.
Stay == UNCHANGED scene
Fairness ==
  /\ \A p \in Pid : WF_vars(NydusdStep(p) /\ Stay) /\ WF_vars(StarterStep(p) /\ Stay)
  /\ \A r \in Slot : WF_vars(RecoverStep(r) /\ Stay) /\ WF_vars(HandleDeath(r) /\ Stay)
  /\ \A t \in Thread : WF_vars(MountStep(t) /\ Stay)
  /\ \A c \in Caller : WF_vars(SupervisorStep(c) /\ Stay)
  /\ WF_vars(MonitorStep /\ Stay) /\ WF_vars(DestroyStep /\ Stay) /\ WF_vars(UpgradeStep /\ Stay)
FairSpec == Spec /\ Fairness

-----------------------------------------------------------------------------
\* Two nydusd never serve one daemon: a recovery starts the next process only when
\* Wait has seen the last one end, an upgrade only when Exit has been answered.
OneServer ==
  \A p, q \in Pid : proc[p].st = "running" /\ proc[q].st = "running" /\ proc[p].id = proc[q].id => p = q

\* The daemon is at rest: nobody recovers, starts, upgrades or destroys it.
AtRest(id) == cache[id] # None /\ Settled(id) /\ up.id # id /\ dtor.pc = "off"
ProcOf(id) == proc[obj[<<id, cache[id]>>].pid]

\* An instance whose Mount has returned, with its state fetched, is still mounted
\* whenever the daemon is at rest and runs: after a restart because all of the
\* daemon's cache is mounted again, after a failover or an upgrade because the state
\* handed over is the last one saved.
NoLostMount ==
  \A id \in Id : AtRest(id) /\ ProcOf(id).st = "running" /\ ~lossy =>
                   (done \cap InstOf[id]) \subseteq ProcOf(id).mounts

\* A recovery waits for a process that has ended: the death event was for the process
\* that the daemon's object names.  Otherwise Wait blocks with the object's mutex.
NoFalseDeath == \A r \in Slot : rec[r].pc = "waiting" => ~Alive(obj[rec[r].o].pid)

\* The object that Mount and Umount use is the one the manager keeps.  An upgrade does
\* not keep this: TryRetainSharedDaemon changes nothing once there is a shared daemon.
UpgradeReplaces == \A id \in Id : AtRest(id) /\ fsd[id] # None => fsd[id] = cache[id]

\* A call of SendStates ends, unless nydusd did not send when it was told to.
FetchEnds ==
  \A c \in Caller : fetch[c].pc # "no" ~> (fetch[c].pc = "no" \/ \E d \in Caller : fetch[d].trigger = "err")

\* SendStates ends.  Not kept: FetchDaemonStates waits without a timeout for a nydusd
\* whose answer to the trigger was lost, with the semaphore held.
SendStatesEnds == \A c \in Caller : fetch[c].pc # "no" ~> fetch[c].pc = "no"

\* The monitor watches a process that has died; its daemon can be brought back.
Watched(id) == subscribers[id] # None /\ set[subscribers[id]].peer \in Dead
Recoverable(id) == Policy = "restart" \/ (saved[id] # None /\ sem[id] = None)
\* The first nydusd to die while it is monitored is replaced by one that runs, unless
\* a call failed: at once with restart, with failover when its state has been saved.
Recovered ==
  \A id \in Id : Watched(id) /\ Recoverable(id) /\ deaths = 1 ~>
     (\E p \in Pid : proc[p].id = id /\ proc[p].st = "running") \/ deaths > 1 \/ faults > 0
=============================================================================
