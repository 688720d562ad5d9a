---------------------------- MODULE SnapshotStore ----------------------------
(***************************************************************************)
(* The snapshotter's two stores and the requests that keep them in step:   *)
(* the metastore (a bolt database: one write transaction at a time, all or *)
(* nothing) and the directories under snapshots/ (renamed into place and   *)
(* deleted outside any transaction).  A third piece of state, the RAFS     *)
(* instances mounted by the filesystem layer, is followed as a set of      *)
(* snapshot IDs.  Code: snapshot/snapshot.go and snapshot/process.go.      *)
(***************************************************************************)
EXTENDS Integers, FiniteSets

CONSTANTS
  Key,                \* snapshot keys and names containerd uses
  Proc,               \* gRPC requests the snapshotter serves at the same time
  SyncRemove,         \* the sync_remove option
  Proxy,              \* fs_driver = "proxy"
  Faults,             \* which of "commit", "umount", "unlink" can fail
  MaxID,              \* bound: snapshots ever created
  MaxCrash,           \* bound: crashes of the snapshotter
  MaxFault,           \* bound: other failures
  NoKey               \* no parent, no target, no key, no process

ASSUME ConstAssumption ==
  /\ SyncRemove \in BOOLEAN /\ Proxy \in BOOLEAN
  /\ Faults \subseteq {"commit", "umount", "unlink"}
  /\ MaxID \in Nat /\ MaxCrash \in Nat /\ MaxFault \in Nat
  /\ NoKey \notin Key /\ NoKey \notin Proc

VARIABLES
  snaps,      \* metastore: key -> record, NoSnap when the key is free
  seq,        \* metastore: the sequence the last committed ID came from
  tx,         \* the request that holds the write transaction, or NoKey
  dirs,       \* IDs with a directory snapshots/<id>
  tmp,        \* temporary directories snapshots/new-*, by creator and epoch
  rafs,       \* IDs with a RAFS instance mounted
  req,        \* what each request is doing
  crashes, faults   \* how much of the bounds is used

vars == <<snaps, seq, tx, dirs, tmp, rafs, req, crashes, faults>>
bounds == <<crashes, faults>>

ID == 1 .. MaxID
NoSnap == [id |-> 0, kind |-> "active", parent |-> NoKey]
Snap == [id : ID, kind : {"active", "view", "committed"}, parent : Key \cup {NoKey}]

\* A name os.MkdirTemp gave: the epoch tells runs of the snapshotter apart, -1
\* stands for every directory a failed placeholder recovery leaves behind.
TmpName == Proc \X (-1 .. MaxCrash)

Idle == [pc |-> "idle", key |-> NoKey, parent |-> NoKey, kind |-> "active",
         target |-> NoKey, id |-> 0, retry |-> FALSE, rm |-> {}, rmTmp |-> {}]

ReqType ==
  [pc : {"idle", "begin", "tmp", "renamed", "reclaim", "placeholder",
         "phbegin", "phrenamed", "process", "commit", "umount", "unlink"},
   key : Key \cup {NoKey}, parent : Key \cup {NoKey}, kind : {"active", "view"},
   target : Key \cup {NoKey}, id : 0 .. MaxID, retry : BOOLEAN,
   rm : SUBSET ID, rmTmp : SUBSET TmpName]

TypeOK ==
  /\ snaps \in [Key -> Snap \cup {NoSnap}]
  /\ seq \in 0 .. MaxID
  /\ tx \in Proc \cup {NoKey}
  /\ dirs \subseteq ID
  /\ tmp \subseteq TmpName
  /\ rafs \subseteq ID
  /\ req \in [Proc -> ReqType]
  /\ crashes \in 0 .. MaxCrash
  /\ faults \in 0 .. MaxFault

Init ==
  /\ snaps = [k \in Key |-> NoSnap]
  /\ seq = 0
  /\ tx = NoKey
  /\ dirs = {} /\ tmp = {} /\ rafs = {}
  /\ req = [p \in Proc |-> Idle]
  /\ crashes = 0 /\ faults = 0

Fail(kind) == kind \in Faults /\ faults < MaxFault /\ faults' = faults + 1

-----------------------------------------------------------------------------
(* The metastore (containerd's storage package) as the requests use it.    *)

Exists(k) == snaps[k].id # 0
IDMap == {snaps[k].id : k \in {j \in Key : Exists(j)}}
Children(k) == {c \in Key : Exists(c) /\ snaps[c].parent = k}

\* isMissingParentError: the error storage.CreateSnapshot gives then.
MissingParent(par) == par # NoKey /\ ~Exists(par)

\* storage.CreateSnapshot wants a committed parent and a key not in use.
MayCreate(k, par) ==
  /\ par # NoKey => Exists(par) /\ snaps[par].kind = "committed"
  /\ ~Exists(k)

\* storage.CommitActive wants an active snapshot and a name not in use.
MayCommit(k, name) == Exists(k) /\ snaps[k].kind = "active" /\ ~Exists(name)

CommitActive(k, name) ==
  [snaps EXCEPT ![k] = NoSnap, ![name] = [snaps[k] EXCEPT !.kind = "committed"]]

-----------------------------------------------------------------------------
(* createSnapshotWithRecovery: the transaction is taken first, a directory *)
(* is made under a temporary name and renamed to the ID the metastore      *)
(* hands out, and the transaction is committed last.                       *)

Prepare(p, k, par, target) ==
  /\ req[p].pc = "idle"
  /\ req' = [req EXCEPT ![p] = [Idle EXCEPT !.pc = "begin", !.key = k, !.parent = par,
                                            !.target = target]]
  /\ UNCHANGED <<snaps, seq, tx, dirs, tmp, rafs, bounds>>

\* View mounts the RAFS instance of its parent before it creates the snapshot;
\* Mount needs the bootstrap in the parent's directory.
View(p, k, par) ==
  /\ req[p].pc = "idle" /\ Exists(par)
  /\ \/ rafs' = rafs
     \/ snaps[par].id \in dirs /\ rafs' = rafs \cup {snaps[par].id}
  /\ req' = [req EXCEPT ![p] = [Idle EXCEPT !.pc = "begin", !.key = k, !.parent = par,
                                            !.kind = "view"]]
  /\ UNCHANGED <<snaps, seq, tx, dirs, tmp, bounds>>

CreateBegin(p) ==
  /\ req[p].pc = "begin" /\ tx = NoKey /\ seq < MaxID
  /\ tx' = p
  /\ tmp' = tmp \cup {<<p, crashes>>}
  /\ req' = [req EXCEPT ![p].pc = "tmp"]
  /\ UNCHANGED <<snaps, seq, dirs, rafs, bounds>>

\* No transaction, or no temporary directory, to be had: the request ends.
CreateError(p) ==
  /\ req[p].pc \in {"begin", "phbegin"} /\ tx = NoKey
  /\ req' = [req EXCEPT ![p] = Idle]
  /\ UNCHANGED <<snaps, seq, tx, dirs, tmp, rafs, bounds>>

ParentDirReadable(p) == req[p].parent # NoKey => snaps[req[p].parent].id \in dirs

\* The storage layer refuses, or the parent's directory cannot be read: the
\* temporary directory is removed, the transaction rolled back, and in proxy
\* mode a missing parent is recovered before one more attempt.
CreateRefused(p) ==
  /\ req[p].pc = "tmp"
  /\ ~(MayCreate(req[p].key, req[p].parent) /\ ParentDirReadable(p))
  /\ tmp' = tmp \ {<<p, crashes>>}
  /\ tx' = NoKey
  /\ req' = [req EXCEPT ![p] =
               IF MissingParent(req[p].parent) /\ Proxy /\ ~req[p].retry
               THEN [req[p] EXCEPT !.pc = "placeholder"] ELSE Idle]
  /\ UNCHANGED <<snaps, seq, dirs, rafs, bounds>>

\* Mutant: an ID in use on disk is skipped instead of reclaimed.
CreateRename_SkipsID(p) ==
  /\ req[p].pc = "tmp"
  /\ MayCreate(req[p].key, req[p].parent) /\ ParentDirReadable(p)
  /\ \E id \in {seq + 1, seq + 2} \cap (ID \ dirs) :
       /\ id = seq + 1 \/ seq + 1 \in dirs
       /\ dirs' = dirs \cup {id}
       /\ req' = [req EXCEPT ![p].pc = "renamed", ![p].id = id]
  /\ tmp' = tmp \ {<<p, crashes>>}
  /\ UNCHANGED <<snaps, seq, tx, rafs, bounds>>

\* os.Rename(td, path).  A snapshot directory is never empty (it holds fs/), so
\* the rename fails when a create that never committed left one under this ID.
\* The deferred clean-up then removes both directories, still inside the
\* transaction.
CreateRename(p) ==
  /\ req[p].pc = "tmp"
  /\ MayCreate(req[p].key, req[p].parent) /\ ParentDirReadable(p)
  /\ tmp' = tmp \ {<<p, crashes>>}
  /\ \/ /\ seq + 1 \notin dirs
        /\ dirs' = dirs \cup {seq + 1}
        /\ req' = [req EXCEPT ![p].pc = "renamed", ![p].id = seq + 1]
        /\ UNCHANGED <<tx, rafs>>
     \/ /\ seq + 1 \in dirs
        /\ dirs' = dirs \ {seq + 1}
        /\ rafs' = rafs \ {seq + 1}
        /\ tx' = NoKey
        /\ req' = [req EXCEPT ![p] = Idle]
  /\ UNCHANGED <<snaps, seq, bounds>>

\* Mutant: the snapshot is recorded and the sequence it came from is not.
CreateCommit_SeqLost(p) ==
  /\ req[p].pc = "renamed"
  /\ snaps' = [snaps EXCEPT ![req[p].key] =
                 [id |-> req[p].id, kind |-> req[p].kind, parent |-> req[p].parent]]
  /\ tx' = NoKey
  /\ req' = [req EXCEPT ![p].pc = "process"]
  /\ UNCHANGED <<seq, dirs, tmp, rafs, bounds>>

CreateCommit(p) ==
  /\ req[p].pc = "renamed"
  /\ snaps' = [snaps EXCEPT ![req[p].key] =
                 [id |-> req[p].id, kind |-> req[p].kind, parent |-> req[p].parent]]
  /\ seq' = req[p].id
  /\ tx' = NoKey
  /\ req' = [req EXCEPT ![p].pc = "process"]
  /\ UNCHANGED <<dirs, tmp, rafs, bounds>>

\* t.Commit() fails: the transaction is gone, the directory is reclaimed after.
CreateCommitFails(p) ==
  /\ req[p].pc = "renamed" /\ Fail("commit")
  /\ tx' = NoKey
  /\ req' = [req EXCEPT ![p].pc = "reclaim"]
  /\ UNCHANGED <<snaps, seq, dirs, tmp, rafs, crashes>>

CreateReclaim(p) ==
  /\ req[p].pc = "reclaim"
  /\ rafs' = rafs \ {req[p].id}
  /\ dirs' = dirs \ {req[p].id}
  /\ req' = [req EXCEPT ![p] = Idle]
  /\ UNCHANGED <<snaps, seq, tx, tmp, bounds>>

-----------------------------------------------------------------------------
(* createPlaceholderSnapshot: a committed stand-in for a parent the        *)
(* metastore lost, made in a transaction of its own, then a retry.         *)

Retry(p) == [req EXCEPT ![p] = [Idle EXCEPT !.pc = "begin", !.key = req[p].key,
                                   !.parent = req[p].parent, !.kind = req[p].kind,
                                   !.target = req[p].target, !.retry = TRUE]]

\* The look-up is a read of its own: it waits for no writer, and what it saw may
\* have changed when the transaction below begins.
PlaceholderExists(p) ==
  /\ req[p].pc = "placeholder"
  /\ \/ Exists(req[p].parent) /\ req' = Retry(p)
     \/ ~Exists(req[p].parent) /\ req' = [req EXCEPT ![p].pc = "phbegin"]
  /\ UNCHANGED <<snaps, seq, tx, dirs, tmp, rafs, bounds>>

\* A rename that fails leaves the temporary directory and the one in the way.
PlaceholderRename(p) ==
  /\ req[p].pc = "phbegin" /\ tx = NoKey /\ seq < MaxID
  /\ \/ /\ seq + 1 \notin dirs
        /\ dirs' = dirs \cup {seq + 1}
        /\ tx' = p
        /\ req' = [req EXCEPT ![p].pc = "phrenamed", ![p].id = seq + 1]
        /\ UNCHANGED tmp
     \/ /\ seq + 1 \in dirs
        /\ tmp' = tmp \cup {<<p, -1>>}
        /\ req' = [req EXCEPT ![p] = Idle]
        /\ UNCHANGED <<dirs, tx>>
  /\ UNCHANGED <<snaps, seq, rafs, bounds>>

\* storage.CommitActive refuses a name that was taken since the look-up, and the
\* directory is removed; a transaction that does not commit leaves it.
PlaceholderCommit(p) ==
  /\ req[p].pc = "phrenamed"
  /\ tx' = NoKey
  /\ \/ /\ ~Exists(req[p].parent)
        /\ snaps' = [snaps EXCEPT ![req[p].parent] =
                       [id |-> req[p].id, kind |-> "committed", parent |-> NoKey]]
        /\ seq' = req[p].id
        /\ req' = Retry(p)
        /\ UNCHANGED <<dirs, rafs, faults>>
     \/ /\ Exists(req[p].parent)
        /\ dirs' = dirs \ {req[p].id}
        /\ rafs' = rafs \ {req[p].id}
        /\ req' = [req EXCEPT ![p] = Idle]
        /\ UNCHANGED <<snaps, seq, faults>>
     \/ /\ ~Exists(req[p].parent) /\ Fail("commit")
        /\ req' = [req EXCEPT ![p] = Idle]
        /\ UNCHANGED <<snaps, seq, dirs, rafs>>
  /\ UNCHANGED <<tmp, crashes>>

-----------------------------------------------------------------------------
(* The handler Prepare picks once its snapshot exists (chooseProcessor).   *)

\* defaultHandler and its like: only a list of mounts is returned.
ProcessDefault(p) ==
  /\ req[p].pc = "process"
  /\ req' = [req EXCEPT ![p] = Idle]
  /\ UNCHANGED <<snaps, seq, tx, dirs, tmp, rafs, bounds>>

\* skipHandler: a read-only layer containerd need not unpack, committed under
\* the name in its TargetSnapshotRef label.
ProcessSkip(p) ==
  /\ req[p].pc = "process" /\ req[p].target # NoKey
  /\ req' = [req EXCEPT ![p].pc = "commit"]
  /\ UNCHANGED <<snaps, seq, tx, dirs, tmp, rafs, bounds>>

\* remoteHandler: mount the RAFS instance of the uppermost layer.
ProcessRemote(p) ==
  /\ req[p].pc = "process" /\ req[p].target = NoKey /\ req[p].parent # NoKey
  /\ snaps[req[p].parent].id \in dirs
  /\ rafs' = rafs \cup {snaps[req[p].parent].id}
  /\ req' = [req EXCEPT ![p] = Idle]
  /\ UNCHANGED <<snaps, seq, tx, dirs, tmp, bounds>>

\* Commit, which reads the disk usage of the directory before it goes on.
DoCommit(k, name) ==
  /\ tx = NoKey
  /\ MayCommit(k, name) /\ snaps[k].id \in dirs
  /\ snaps' = CommitActive(k, name)
  /\ UNCHANGED faults

\* Prepare's own Commit; when it is refused or fails the active snapshot stays.
PrepareCommit(p) ==
  /\ req[p].pc = "commit"
  /\ \/ DoCommit(req[p].key, req[p].target)
     \/ /\ tx = NoKey
        /\ ~(MayCommit(req[p].key, req[p].target) /\ snaps[req[p].key].id \in dirs)
        /\ UNCHANGED <<snaps, faults>>
     \/ Fail("commit") /\ tx = NoKey /\ UNCHANGED snaps
  /\ req' = [req EXCEPT ![p] = Idle]
  /\ UNCHANGED <<seq, tx, dirs, tmp, rafs, crashes>>

\* containerd's Commit request.
Commit(p, k, name) ==
  /\ req[p].pc = "idle"
  /\ DoCommit(k, name)
  /\ UNCHANGED <<seq, tx, dirs, tmp, rafs, req, crashes>>

-----------------------------------------------------------------------------
(* Remove and Cleanup: the directories to delete are listed inside a write *)
(* transaction and deleted one by one after it is closed.                  *)

\* Mutant: only directories the sequence accounts for are listed.
getCleanupDirectories_Counted(ids) ==
  [rm |-> {d \in dirs \ ids : d <= seq}, rmTmp |-> tmp]


\* What is under snapshots/ and not among the IDs of the transaction.
getCleanupDirectories(ids) == [rm |-> dirs \ ids, rmTmp |-> tmp]

Deleting(list) ==
  IF list.rm = {} /\ list.rmTmp = {} THEN Idle
  ELSE [Idle EXCEPT !.pc = "umount", !.rm = list.rm, !.rmTmp = list.rmTmp]

\* storage.Remove refuses a snapshot with children.  containerd does not remove
\* a snapshot that a Prepare or View in flight names.
MayRemove(k) ==
  /\ Exists(k) /\ Children(k) = {}
  /\ \A q \in Proc : k # req[q].key /\ k # req[q].parent

\* With sync_remove the list is made before the commit.  The commit's outcome is
\* returned and never stored in err, so the deferred deletion runs either way.
Remove(p, k) ==
  /\ req[p].pc = "idle" /\ tx = NoKey /\ MayRemove(k)
  /\ req' = IF SyncRemove
            THEN [req EXCEPT ![p] = Deleting(getCleanupDirectories(IDMap \ {snaps[k].id}))]
            ELSE req
  /\ \/ snaps' = [snaps EXCEPT ![k] = NoSnap] /\ UNCHANGED faults
     \/ Fail("commit") /\ UNCHANGED snaps
  /\ UNCHANGED <<seq, tx, dirs, tmp, rafs, crashes>>

\* Mutant: the scan does not wait for the write transaction.
Cleanup_NoTransaction(p) ==
  /\ req[p].pc = "idle"
  /\ Deleting(getCleanupDirectories(IDMap)) # Idle
  /\ req' = [req EXCEPT ![p] = Deleting(getCleanupDirectories(IDMap))]
  /\ UNCHANGED <<snaps, seq, tx, dirs, tmp, rafs, bounds>>

Cleanup(p) ==
  /\ req[p].pc = "idle" /\ tx = NoKey
  /\ Deleting(getCleanupDirectories(IDMap)) # Idle
  /\ req' = [req EXCEPT ![p] = Deleting(getCleanupDirectories(IDMap))]
  /\ UNCHANGED <<snaps, seq, tx, dirs, tmp, rafs, bounds>>

\* Mutant: the directory is deleted under a mounted instance.
CleanupUmount_Skipped(p) ==
  /\ req[p].pc = "umount"
  /\ \E d \in req[p].rm \cup {0} :
       /\ d = 0 <=> req[p].rm = {}
       /\ req' = [req EXCEPT ![p].pc = "unlink", ![p].id = d]
  /\ UNCHANGED <<snaps, seq, tx, dirs, tmp, rafs, bounds>>

\* cleanupSnapshotDirectory, first half: fs.Umount, whose error is only logged.
CleanupUmount(p) ==
  /\ req[p].pc = "umount"
  /\ \E d \in req[p].rm \cup {0} :
       /\ d = 0 <=> req[p].rm = {}
       /\ req' = [req EXCEPT ![p].pc = "unlink", ![p].id = d]
       /\ \/ rafs' = rafs \ {d} /\ UNCHANGED faults
          \/ Fail("umount") /\ d \in rafs /\ UNCHANGED rafs
  /\ UNCHANGED <<snaps, seq, tx, dirs, tmp, crashes>>

\* cleanupSnapshotDirectory, second half: os.RemoveAll.
CleanupUnlink(p) ==
  /\ req[p].pc = "unlink"
  /\ req' = [req EXCEPT ![p] = Deleting([rm |-> req[p].rm \ {req[p].id}, rmTmp |-> {}])]
  /\ tmp' = tmp \ req[p].rmTmp
  /\ \/ dirs' = dirs \ {req[p].id} /\ UNCHANGED faults
     \/ Fail("unlink") /\ UNCHANGED dirs
  /\ UNCHANGED <<snaps, seq, tx, rafs, crashes>>

-----------------------------------------------------------------------------
\* The process dies: requests and an open transaction are lost, the database
\* and the directories stay, and so do the mounts (nydusd outlives it).
Crash ==
  /\ crashes < MaxCrash
  /\ crashes' = crashes + 1
  /\ tx' = NoKey
  /\ req' = [p \in Proc |-> Idle]
  /\ UNCHANGED <<snaps, seq, dirs, tmp, rafs, faults>>

ProcStep(p) ==
  \/ CreateBegin(p) \/ CreateError(p) \/ CreateRefused(p) \/ CreateRename(p)
  \/ CreateCommit(p) \/ CreateCommitFails(p) \/ CreateReclaim(p)
  \/ PlaceholderExists(p) \/ PlaceholderRename(p) \/ PlaceholderCommit(p)
  \/ ProcessDefault(p) \/ ProcessSkip(p) \/ ProcessRemote(p) \/ PrepareCommit(p)
  \/ CleanupUmount(p) \/ CleanupUnlink(p)

Request(p) ==
  \/ \E k \in Key, par, t \in Key \cup {NoKey} : Prepare(p, k, par, t)
  \/ \E k, par \in Key : View(p, k, par)
  \/ \E k, n \in Key : Commit(p, k, n)
  \/ \E k \in Key : Remove(p, k)
  \/ Cleanup(p)

Next == (\E p \in Proc : ProcStep(p) \/ Request(p)) \/ Crash

Spec == Init /\ [][Next]_vars

\* A request the snapshotter has accepted is carried on, the writer lock of the
\* metastore is handed out in turn, and containerd keeps calling Cleanup.
Fairness ==
  \A p \in Proc : SF_vars(ProcStep(p)) /\ SF_vars(Cleanup(p))

FairSpec == Spec /\ Fairness

-----------------------------------------------------------------------------
\* Every snapshot in the metastore has its directory: what Mounts, Commit and
\* the creation of a child rely on when they build or stat upperPath(id).
DirOfSnapshot == IDMap \subseteq dirs

\* Two keys never share an ID, so never a directory (the ID comes from the bolt
\* sequence, which a rolled-back transaction gives back).
UniqueIDs == \A j, k \in Key : Exists(j) /\ snaps[j].id = snaps[k].id => j = k

\* The directories on disk run at most one ID ahead of the metastore, whatever
\* crashes and fails: a create never makes a second orphan beside the one a
\* crash between Rename and Commit leaves.
OneIDAhead == \A d \in dirs : d <= seq + 1

\* Nobody deletes the temporary directory of a create in progress: the write
\* transaction of cleanupDirectories keeps the scan away from it.
LiveTempKept == \A p \in Proc : req[p].pc = "tmp" => <<p, crashes>> \in tmp

\* A mounted RAFS instance has the directory its bootstrap is in: Umount comes
\* before RemoveAll, and no Prepare or View mounts it again in between.
RafsHasDir == rafs \subseteq dirs

\* The directory a Remove or Cleanup is about to delete belongs to no snapshot:
\* the list was made from the metastore, and must still be right when used.
DeletesOnlyOrphans == \A p \in Proc : req[p].pc = "unlink" => req[p].id \notin IDMap

\* A directory of no snapshot is in the end deleted or given to a snapshot.
OrphansReclaimed ==
  \A d \in ID : (d \in dirs /\ d \notin IDMap) ~> (d \notin dirs \/ d \in IDMap)
=============================================================================
