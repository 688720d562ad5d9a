------------------------- MODULE SnapshotStoreProofs -------------------------
(***************************************************************************)
(* Proofs about SnapshotStore, for any keys, any number of requests and    *)
(* any bounds.  IInv is inductive whatever crashes and fails; DirInv       *)
(* holds while commits do, MountInv while commits and umounts do.          *)
(***************************************************************************)
EXTENDS SnapshotStore, TLAPS

-----------------------------------------------------------------------------
(* Types.                                                                  *)

\* The initial states have the types.
LEMMA TypeInit == Init => TypeOK
  BY ConstAssumption DEF Init, TypeOK, Idle, ReqType, NoSnap, Snap, ID, TmpName

\* The record of a request that is over.
LEMMA IdleType == Idle \in ReqType
  BY ConstAssumption DEF Idle, ReqType, ID, TmpName

\* A create between its first and last step holds the write transaction, and the
\* ID it has renamed to is the next of the sequence.
TxInv ==
  \A p \in Proc :
    /\ req[p].pc \in {"tmp", "renamed", "phrenamed"} => tx = p /\ seq < MaxID
    /\ req[p].pc \in {"renamed", "phrenamed"} => req[p].id = seq + 1
    /\ req[p].pc \notin {"idle", "umount", "unlink"} => req[p].key \in Key
    /\ req[p].pc = "commit" => req[p].target \in Key
    /\ req[p].pc \in {"placeholder", "phbegin", "phrenamed"} => req[p].parent \in Key

\* Committing an active snapshot keeps the metastore well typed.
LEMMA CommitActiveType ==
  ASSUME TypeOK, NEW k \in Key, NEW name \in Key, MayCommit(k, name)
  PROVE  CommitActive(k, name) \in [Key -> Snap \cup {NoSnap}]
<1>1. snaps[k] \in Snap
  BY DEF TypeOK, MayCommit, Exists, NoSnap
<1>2. [snaps[k] EXCEPT !.kind = "committed"] \in Snap
  BY <1>1 DEF Snap
<1> QED  BY <1>2 DEF CommitActive, TypeOK

\* Every step keeps the types.
LEMMA TypeStep == TypeOK /\ TxInv /\ [Next]_vars => TypeOK'
<1> SUFFICES ASSUME TypeOK, TxInv, [Next]_vars PROVE TypeOK'
  OBVIOUS
<1> USE ConstAssumption DEF TypeOK
<1>1. ASSUME NEW p \in Proc, CreateBegin(p) PROVE TypeOK'
  <2>1. req' \in [Proc -> ReqType]
    BY <1>1, IdleType DEF CreateBegin, ReqType
  <2> QED  BY <1>1, <2>1 DEF CreateBegin, bounds, TmpName
<1>2. ASSUME NEW p \in Proc, CreateError(p) PROVE TypeOK'
  <2>1. req' \in [Proc -> ReqType]
    BY <1>2, IdleType DEF CreateError, ReqType
  <2> QED  BY <1>2, <2>1 DEF CreateError, bounds
<1>3. ASSUME NEW p \in Proc, CreateRefused(p) PROVE TypeOK'
  <2>1. req' \in [Proc -> ReqType]
    BY <1>3, IdleType DEF CreateRefused, ReqType
  <2> QED  BY <1>3, <2>1 DEF CreateRefused, bounds, TmpName
<1>4. ASSUME NEW p \in Proc, CreateRename(p) PROVE TypeOK'
  <2>1. req' \in [Proc -> ReqType]
    BY <1>4, IdleType DEF CreateRename, ReqType, ID, TxInv
  <2> QED  BY <1>4, <2>1 DEF CreateRename, bounds, ID, TmpName, TxInv
<1>5. ASSUME NEW p \in Proc, CreateCommit(p) PROVE TypeOK'
  <2>1. req' \in [Proc -> ReqType]
    BY <1>5, IdleType DEF CreateCommit, ReqType
  <2>2. [id |-> req[p].id, kind |-> req[p].kind, parent |-> req[p].parent] \in Snap
    BY <1>5 DEF CreateCommit, TxInv, ReqType, Snap, ID
  <2>3. seq' \in 0 .. MaxID
    BY <1>5 DEF CreateCommit, TxInv, ReqType
  <2> QED  BY ZenonT(60), <1>5, <2>1, <2>2, <2>3 DEF CreateCommit, bounds
<1>6. ASSUME NEW p \in Proc, CreateCommitFails(p) PROVE TypeOK'
  <2>1. req' \in [Proc -> ReqType]
    BY <1>6, IdleType, SMTT(60) DEF CreateCommitFails, ReqType
  <2> QED  BY <1>6, <2>1 DEF CreateCommitFails, bounds, Fail
<1>7. ASSUME NEW p \in Proc, CreateReclaim(p) PROVE TypeOK'
  <2>1. req' \in [Proc -> ReqType]
    BY <1>7, IdleType DEF CreateReclaim, ReqType
  <2> QED  BY <1>7, <2>1 DEF CreateReclaim, bounds
<1>8. ASSUME NEW p \in Proc, PlaceholderExists(p) PROVE TypeOK'
  <2>1. Retry(p) \in [Proc -> ReqType]
    BY ZenonT(60), <1>8, IdleType DEF ReqType, Retry, Idle
  <2>2. [req EXCEPT ![p].pc = "phbegin"] \in [Proc -> ReqType]
    BY DEF ReqType
  <2>3. req' \in [Proc -> ReqType]
    BY <1>8, <2>1, <2>2 DEF PlaceholderExists
  <2> QED  BY <1>8, <2>3 DEF PlaceholderExists, bounds
<1>9. ASSUME NEW p \in Proc, PlaceholderRename(p) PROVE TypeOK'
  <2>1. req' \in [Proc -> ReqType]
    BY <1>9, IdleType DEF PlaceholderRename, ReqType, ID
  <2> QED  BY <1>9, <2>1 DEF PlaceholderRename, bounds, ID, TmpName
<1>10. ASSUME NEW p \in Proc, PlaceholderCommit(p) PROVE TypeOK'
  <2>1. Retry(p) \in [Proc -> ReqType]
    BY ZenonT(60), <1>10, IdleType DEF ReqType, Retry, Idle
  <2>2. req' \in [Proc -> ReqType]
    BY <1>10, <2>1, IdleType DEF PlaceholderCommit
  <2>3. [id |-> req[p].id, kind |-> "committed", parent |-> NoKey] \in Snap
    BY <1>10 DEF PlaceholderCommit, TxInv, ReqType, Snap, ID
  <2>4. seq' \in 0 .. MaxID /\ faults' \in 0 .. MaxFault
    BY <1>10 DEF PlaceholderCommit, TxInv, ReqType, Fail
  <2> QED  BY <1>10, <2>2, <2>3, <2>4 DEF PlaceholderCommit, bounds
<1>11. ASSUME NEW p \in Proc, ProcessDefault(p) PROVE TypeOK'
  <2>1. req' \in [Proc -> ReqType]
    BY <1>11, IdleType DEF ProcessDefault, ReqType
  <2> QED  BY <1>11, <2>1 DEF ProcessDefault, bounds
<1>12. ASSUME NEW p \in Proc, ProcessSkip(p) PROVE TypeOK'
  <2>1. req' \in [Proc -> ReqType]
    BY <1>12, IdleType DEF ProcessSkip, ReqType
  <2> QED  BY <1>12, <2>1 DEF ProcessSkip, bounds
<1>13. ASSUME NEW p \in Proc, ProcessRemote(p) PROVE TypeOK'
  <2>1. req' \in [Proc -> ReqType]
    BY <1>13, IdleType DEF ProcessRemote, ReqType
  <2> QED  BY <1>13, <2>1 DEF ProcessRemote, bounds, ReqType
<1>14. ASSUME NEW p \in Proc, PrepareCommit(p) PROVE TypeOK'
  <2>1. req' \in [Proc -> ReqType]
    BY <1>14, IdleType DEF PrepareCommit, ReqType
  <2>2. snaps' \in [Key -> Snap \cup {NoSnap}]
    BY <1>14, CommitActiveType DEF PrepareCommit, DoCommit, TxInv
  <2> QED  BY <1>14, <2>1, <2>2 DEF PrepareCommit, DoCommit, Fail
<1>15. ASSUME NEW p \in Proc, CleanupUmount(p) PROVE TypeOK'
  <2>1. PICK d \in req[p].rm \cup {0} :
          req' = [req EXCEPT ![p].pc = "unlink", ![p].id = d]
    BY <1>15 DEF CleanupUmount
  <2>2. d \in 0 .. MaxID
    <3>1. req[p].rm \subseteq ID
      BY DEF ReqType
    <3> QED  BY <3>1 DEF ID
  <2>3. req' \in [Proc -> ReqType]
    <3>1. req[p] \in ReqType
      OBVIOUS
    <3>2. [req[p] EXCEPT !.pc = "unlink", !.id = d] \in ReqType
      BY ZenonT(60), <3>1, <2>2 DEF ReqType
    <3>3. req' = [req EXCEPT ![p] = [req[p] EXCEPT !.pc = "unlink", !.id = d]]
      BY <2>1, Zenon
    <3> QED  BY <3>2, <3>3
  <2> QED  BY <1>15, <2>3 DEF CleanupUmount, Fail
<1>16. ASSUME NEW p \in Proc, CleanupUnlink(p) PROVE TypeOK'
  <2>1. req' \in [Proc -> ReqType]
    BY <1>16, IdleType, ZenonT(60) DEF CleanupUnlink, ReqType, Deleting, Idle
  <2> QED  BY <1>16, <2>1 DEF CleanupUnlink, bounds, Fail
<1>17. ASSUME NEW p \in Proc, NEW k \in Key, NEW par \in Key \cup {NoKey},
              NEW t \in Key \cup {NoKey}, Prepare(p, k, par, t)
       PROVE  TypeOK'
  <2>1. req' \in [Proc -> ReqType]
    BY ZenonT(60), <1>17, IdleType DEF Prepare, ReqType, Idle
  <2> QED  BY <1>17, <2>1 DEF Prepare, bounds
<1>18. ASSUME NEW p \in Proc, NEW k \in Key, NEW par \in Key, View(p, k, par) PROVE TypeOK'
  <2>1. req' \in [Proc -> ReqType]
    BY ZenonT(60), <1>18, IdleType DEF View, ReqType, Idle
  <2> QED  BY <1>18, <2>1 DEF View, bounds
<1>19. ASSUME NEW p \in Proc, NEW k \in Key, NEW n \in Key, Commit(p, k, n) PROVE TypeOK'
  <2>1. snaps' \in [Key -> Snap \cup {NoSnap}]
    BY <1>19, CommitActiveType DEF Commit, DoCommit
  <2> QED  BY <1>19, <2>1 DEF Commit, DoCommit
<1>20. ASSUME NEW p \in Proc, NEW k \in Key, Remove(p, k) PROVE TypeOK'
  <2>1. req' \in [Proc -> ReqType]
    BY ZenonT(60), <1>20, IdleType DEF Remove, ReqType, Deleting, getCleanupDirectories, Idle
  <2> QED  BY <1>20, <2>1 DEF Remove, bounds, Fail
<1>21. ASSUME NEW p \in Proc, Cleanup(p) PROVE TypeOK'
  <2>1. req' \in [Proc -> ReqType]
    BY ZenonT(60), <1>21, IdleType DEF Cleanup, ReqType, Deleting, getCleanupDirectories, Idle
  <2> QED  BY <1>21, <2>1 DEF Cleanup, bounds
<1>22. CASE Crash
  BY <1>22, IdleType DEF Crash
<1>23. CASE UNCHANGED vars
  BY <1>23 DEF vars
<1> QED
  BY <1>1, <1>2, <1>3, <1>4, <1>5, <1>6, <1>7, <1>8, <1>9, <1>10, <1>11,
     <1>12, <1>13, <1>14, <1>15, <1>16, <1>17, <1>18, <1>19, <1>20, <1>21, <1>22, <1>23
  DEF Next, ProcStep, Request

-----------------------------------------------------------------------------
\* What a retry after the recovery of the parent changes.
LEMMA RetryAt ==
  ASSUME TypeOK, NEW p \in Proc
  PROVE  /\ Retry(p)[p].pc = "begin" /\ Retry(p)[p].key = req[p].key
         /\ Retry(p)[p].rm = {} /\ Retry(p)[p].rmTmp = {}
         /\ \A q \in Proc \ {p} : Retry(p)[q] = req[q]
  BY DEF Retry, TypeOK, Idle

\* A list to delete either ends the request or starts its clean-up.
LEMMA DeletingPC == \A list : Deleting(list).pc \in {"idle", "umount"}
  BY DEF Deleting, Idle

\* Every step keeps TxInv: the transaction has one holder.
LEMMA TxStep == TypeOK /\ TxInv /\ [Next]_vars => TxInv'
<1> SUFFICES ASSUME TypeOK, TxInv, [Next]_vars PROVE TxInv'
  OBVIOUS
<1> USE ConstAssumption DEF TypeOK, TxInv, ReqType, Idle
<1>1. ASSUME NEW p \in Proc, CreateBegin(p) \/ CreateError(p) \/ CreateRefused(p)
      PROVE  TxInv'
  BY <1>1 DEF CreateBegin, CreateError, CreateRefused, MissingParent
<1>2. ASSUME NEW p \in Proc, CreateRename(p) PROVE TxInv'
  BY <1>2 DEF CreateRename
<1>3. ASSUME NEW p \in Proc, CreateCommit(p) \/ CreateCommitFails(p) \/ CreateReclaim(p)
      PROVE  TxInv'
  BY <1>3 DEF CreateCommit, CreateCommitFails, CreateReclaim
<1>4. ASSUME NEW p \in Proc, PlaceholderExists(p) \/ PlaceholderRename(p) PROVE TxInv'
  BY <1>4, RetryAt DEF PlaceholderExists, PlaceholderRename
<1>5. ASSUME NEW p \in Proc, PlaceholderCommit(p) PROVE TxInv'
  BY <1>5, RetryAt, SMTT(60) DEF PlaceholderCommit
<1>6. ASSUME NEW p \in Proc, ProcessDefault(p) \/ ProcessSkip(p) \/ ProcessRemote(p)
      PROVE  TxInv'
  BY <1>6 DEF ProcessDefault, ProcessSkip, ProcessRemote
<1>7. ASSUME NEW p \in Proc, PrepareCommit(p) PROVE TxInv'
  BY <1>7 DEF PrepareCommit
<1>8. ASSUME NEW p \in Proc, CleanupUmount(p) PROVE TxInv'
  BY <1>8 DEF CleanupUmount
<1>9. ASSUME NEW p \in Proc, CleanupUnlink(p) \/ Cleanup(p) PROVE TxInv'
  BY <1>9, DeletingPC, SMTT(60) DEF CleanupUnlink, Cleanup
<1>10. ASSUME NEW p \in Proc, NEW k \in Key, NEW par \in Key \cup {NoKey},
              NEW t \in Key \cup {NoKey}, Prepare(p, k, par, t)
       PROVE  TxInv'
  BY <1>10 DEF Prepare
<1>11. ASSUME NEW p \in Proc, NEW k \in Key, NEW par \in Key, View(p, k, par)
       PROVE  TxInv'
  BY <1>11 DEF View
<1>12. ASSUME NEW p \in Proc, NEW k \in Key, NEW n \in Key, Commit(p, k, n)
       PROVE  TxInv'
  BY <1>12 DEF Commit
<1>13. ASSUME NEW p \in Proc, NEW k \in Key, Remove(p, k) PROVE TxInv'
  BY <1>13, DeletingPC DEF Remove
<1>14. CASE Crash
  BY <1>14 DEF Crash
<1>15. CASE UNCHANGED vars
  BY <1>15 DEF vars
<1> QED
  BY ZenonT(60), <1>1, <1>2, <1>3, <1>4, <1>5, <1>6, <1>7, <1>8, <1>9, <1>10, <1>11, <1>12,
     <1>13, <1>14, <1>15
  DEF Next, ProcStep, Request

-----------------------------------------------------------------------------
\* No ID is ahead of the sequence it came from.
SeqInv == \A k \in Key : snaps[k].id <= seq

\* Only commits and removals touch the metastore; a new ID is above all others.
LEMMA IDStep ==
  TypeOK /\ TxInv /\ SeqInv /\ UniqueIDs /\ [Next]_vars => SeqInv' /\ UniqueIDs'
<1> SUFFICES ASSUME TypeOK, TxInv, SeqInv, UniqueIDs, [Next]_vars
             PROVE  SeqInv' /\ UniqueIDs'
  OBVIOUS
<1> USE ConstAssumption DEF TypeOK, TxInv, SeqInv, UniqueIDs, Exists, Snap, ID, NoSnap
<1>1. ASSUME NEW p \in Proc, CreateCommit(p) PROVE SeqInv' /\ UniqueIDs'
  BY <1>1 DEF CreateCommit
<1>2. ASSUME NEW p \in Proc, PlaceholderCommit(p) PROVE SeqInv' /\ UniqueIDs'
  BY <1>2 DEF PlaceholderCommit
<1>3. ASSUME NEW k \in Key, NEW n \in Key, DoCommit(k, n), seq' = seq
      PROVE  SeqInv' /\ UniqueIDs'
  BY <1>3 DEF DoCommit, MayCommit, CommitActive
<1>4. ASSUME NEW p \in Proc, NEW k \in Key, Remove(p, k) PROVE SeqInv' /\ UniqueIDs'
  BY <1>4 DEF Remove
<1>5. CASE UNCHANGED <<snaps, seq>>
  BY <1>5
<1>6. ASSUME NEW p \in Proc, PrepareCommit(p) PROVE SeqInv' /\ UniqueIDs'
  BY <1>3, <1>5, <1>6 DEF PrepareCommit
<1>7. ASSUME NEW p \in Proc, ProcStep(p) PROVE SeqInv' /\ UniqueIDs'
  BY <1>1, <1>2, <1>5, <1>6, <1>7
  DEF ProcStep, CreateBegin, CreateError, CreateRefused, CreateRename, CreateCommitFails,
      CreateReclaim, PlaceholderExists, PlaceholderRename, ProcessDefault, ProcessSkip,
      ProcessRemote, CleanupUmount, CleanupUnlink
<1>8. ASSUME NEW p \in Proc, Request(p) PROVE SeqInv' /\ UniqueIDs'
  BY ZenonT(60), <1>3, <1>4, <1>5, <1>8 DEF Request, Prepare, View, Commit, Cleanup
<1> QED
  BY <1>5, <1>7, <1>8 DEF Next, Crash, vars

-----------------------------------------------------------------------------
\* The temporary directories of this run of the snapshotter are those of creates
\* in progress, and none of them is on a list to delete.
TmpInv ==
  /\ \A p \in Proc, e \in -1 .. MaxCrash : <<p, e>> \in tmp => e <= crashes
  /\ \A p \in Proc : <<p, crashes>> \in tmp <=> req[p].pc = "tmp"
  /\ \A p, q \in Proc : <<p, crashes>> \notin req[q].rmTmp

\* Every step keeps TmpInv: lists are made while no create is in progress.
LEMMA TmpStep == TypeOK /\ TxInv /\ TmpInv /\ [Next]_vars => TmpInv'
<1> SUFFICES ASSUME TypeOK, TxInv, TmpInv, [Next]_vars PROVE TmpInv'
  OBVIOUS
<1> USE ConstAssumption DEF TypeOK, TxInv, TmpInv, ReqType, Idle, bounds
<1>1. ASSUME NEW p \in Proc, CreateBegin(p) PROVE TmpInv'
  BY <1>1 DEF CreateBegin
<1>2. ASSUME NEW p \in Proc, CreateError(p) PROVE TmpInv'
  BY <1>2 DEF CreateError
<1>3. ASSUME NEW p \in Proc, CreateRefused(p) PROVE TmpInv'
  BY <1>3 DEF CreateRefused
<1>4. ASSUME NEW p \in Proc, CreateRename(p) PROVE TmpInv'
  BY <1>4 DEF CreateRename
<1>5. ASSUME NEW p \in Proc, CreateCommit(p) \/ CreateCommitFails(p) \/ CreateReclaim(p)
      PROVE  TmpInv'
  BY <1>5 DEF CreateCommit, CreateCommitFails, CreateReclaim
<1>6. ASSUME NEW p \in Proc, PlaceholderExists(p) PROVE TmpInv'
  <2>1. CASE req' = Retry(p)
    BY <1>6, <2>1, RetryAt, ZenonT(60) DEF PlaceholderExists
  <2>2. CASE req' = [req EXCEPT ![p].pc = "phbegin"]
    BY <1>6, <2>2 DEF PlaceholderExists
  <2> QED  BY <1>6, <2>1, <2>2, Zenon DEF PlaceholderExists
<1>7. ASSUME NEW p \in Proc, PlaceholderRename(p) PROVE TmpInv'
  BY <1>7 DEF PlaceholderRename
<1>8. ASSUME NEW p \in Proc, PlaceholderCommit(p) PROVE TmpInv'
  BY <1>8, RetryAt, SMTT(60) DEF PlaceholderCommit
<1>9. ASSUME NEW p \in Proc,
             ProcessDefault(p) \/ ProcessSkip(p) \/ ProcessRemote(p) \/ PrepareCommit(p)
      PROVE  TmpInv'
  <2>1. CASE ProcessSkip(p)
    BY <2>1 DEF ProcessSkip
  <2>2. CASE ProcessDefault(p) \/ ProcessRemote(p) \/ PrepareCommit(p)
    <3>1. /\ req[p].pc \in {"process", "commit"} /\ req' = [req EXCEPT ![p] = Idle]
          /\ UNCHANGED <<tmp, crashes>>
      BY <2>2, Zenon DEF ProcessDefault, ProcessRemote, PrepareCommit
    <3> QED  BY <3>1
  <2> QED  BY <1>9, <2>1, <2>2
<1>10. ASSUME NEW p \in Proc, CleanupUmount(p) PROVE TmpInv'
  BY <1>10 DEF CleanupUmount
<1>11. ASSUME NEW p \in Proc, CleanupUnlink(p) PROVE TmpInv'
  BY <1>11 DEF CleanupUnlink, Deleting
<1>12. ASSUME NEW p \in Proc, Cleanup(p) PROVE TmpInv'
  BY <1>12 DEF Cleanup, Deleting, getCleanupDirectories
<1>13. ASSUME NEW p \in Proc, NEW k \in Key, Remove(p, k) PROVE TmpInv'
  BY <1>13 DEF Remove, Deleting, getCleanupDirectories
<1>14. ASSUME NEW p \in Proc, NEW k \in Key, NEW par \in Key \cup {NoKey},
              NEW t \in Key \cup {NoKey}, Prepare(p, k, par, t)
       PROVE  TmpInv'
  BY <1>14 DEF Prepare
<1>15. ASSUME NEW p \in Proc, NEW k \in Key, NEW par \in Key, View(p, k, par)
       PROVE  TmpInv'
  BY <1>15 DEF View
<1>16. ASSUME NEW p \in Proc, NEW k \in Key, NEW n \in Key, Commit(p, k, n)
       PROVE  TmpInv'
  BY <1>16 DEF Commit
<1>17. CASE Crash
  BY <1>17 DEF Crash
<1>18. CASE UNCHANGED vars
  BY <1>18 DEF vars
<1> QED
  BY ZenonT(60), <1>1, <1>2, <1>3, <1>4, <1>5, <1>6, <1>7, <1>8, <1>9, <1>10, <1>11, <1>12,
     <1>13, <1>14, <1>15, <1>16, <1>17, <1>18
  DEF Next, ProcStep, Request

-----------------------------------------------------------------------------
\* Only a rename adds a directory, and it adds the next ID.
LEMMA AheadStep == TypeOK /\ TxInv /\ OneIDAhead /\ [Next]_vars => OneIDAhead'
<1> SUFFICES ASSUME TypeOK, TxInv, OneIDAhead, [Next]_vars PROVE OneIDAhead'
  OBVIOUS
<1> USE ConstAssumption DEF TypeOK, TxInv, OneIDAhead, ID
<1>1. ASSUME NEW p \in Proc, CreateRename(p) \/ PlaceholderRename(p) PROVE OneIDAhead'
  BY <1>1 DEF CreateRename, PlaceholderRename
<1>2. ASSUME NEW p \in Proc, CreateCommit(p) \/ PlaceholderCommit(p) PROVE OneIDAhead'
  BY <1>2 DEF CreateCommit, PlaceholderCommit
<1>3. CASE dirs' \subseteq dirs /\ seq' = seq
  BY ZenonT(60), <1>3
<1>4. ASSUME NEW p \in Proc, ProcStep(p) PROVE OneIDAhead'
  BY <1>1, <1>2, <1>3, <1>4
  DEF ProcStep, CreateBegin, CreateError, CreateRefused, CreateCommitFails, CreateReclaim,
      PlaceholderExists, ProcessDefault, ProcessSkip, ProcessRemote, PrepareCommit,
      CleanupUmount, CleanupUnlink
<1>5. ASSUME NEW p \in Proc, Request(p) PROVE OneIDAhead'
  BY ZenonT(60), <1>3, <1>5 DEF Request, Prepare, View, Commit, Remove, Cleanup
<1> QED
  BY <1>3, <1>4, <1>5 DEF Next, Crash, vars

-----------------------------------------------------------------------------
\* No crash and no transaction that fails to commit; umount and unlink may fail.
CommitsHold == MaxCrash = 0 /\ "commit" \notin Faults

\* The one directory ahead of the metastore belongs to the create that holds the
\* transaction; a list to delete holds old IDs only, of no snapshot, and so none
\* that a later create can be given or that a request can mount.
DirInv ==
  /\ \A k \in Key : Exists(k) => snaps[k].id \in dirs
  /\ seq + 1 \in dirs => tx \in Proc /\ req[tx].pc \in {"renamed", "phrenamed"}
  /\ \A p \in Proc :
       /\ req[p].pc \in {"renamed", "phrenamed"} => req[p].id \in dirs
       /\ req[p].pc # "reclaim"
       /\ \A d \in req[p].rm : d <= seq /\ \A k \in Key : snaps[k].id # d
       /\ req[p].pc = "unlink" => req[p].id \in req[p].rm \/ req[p].id = 0

\* An instance is mounted from a directory, and is no longer when that is deleted.
MountInv ==
  /\ rafs \subseteq dirs
  /\ \A p \in Proc : req[p].pc = "unlink" => req[p].id \notin rafs

\* The IDs of the metastore.
LEMMA IDMapMember ==
  \A d : d \in IDMap <=> \E k \in Key : Exists(k) /\ snaps[k].id = d
  BY DEF IDMap

\* The record Deleting gives carries the list of IDs.
LEMMA DeletingFields ==
  ASSUME NEW list, list.rm = {} \/ list.rm # {}
  PROVE  Deleting(list).pc \in {"idle", "umount"} /\ Deleting(list).rm = list.rm
  BY DEF Deleting, Idle

\* While commits hold every step keeps DirInv.
LEMMA DirStep ==
  ASSUME CommitsHold, TypeOK, TxInv, SeqInv, UniqueIDs, OneIDAhead, DirInv, [Next]_vars
  PROVE  DirInv'
<1>0. ~Crash
  BY DEF CommitsHold, TypeOK, Crash
<1> USE ConstAssumption DEF CommitsHold, TypeOK, DirInv, ID
<1>1. ASSUME NEW p \in Proc, CreateBegin(p) \/ CreateError(p) PROVE DirInv'
  BY <1>1 DEF CreateBegin, CreateError, Idle, Exists, ReqType
<1>2. ASSUME NEW p \in Proc, CreateRefused(p) PROVE DirInv'
  BY <1>2 DEF CreateRefused, Idle, Exists, ReqType, TxInv
<1>3. ASSUME NEW p \in Proc, CreateRename(p) PROVE DirInv'
  BY <1>3 DEF CreateRename, Exists, ReqType, TxInv
<1>4. ASSUME NEW p \in Proc, CreateCommit(p) PROVE DirInv'
  BY <1>4 DEF CreateCommit, Exists, ReqType, TxInv, OneIDAhead, Snap, NoSnap
<1>5. ASSUME NEW p \in Proc, CreateCommitFails(p) \/ CreateReclaim(p) PROVE DirInv'
  BY <1>5 DEF CreateCommitFails, CreateReclaim, Fail
<1>6. ASSUME NEW p \in Proc, PlaceholderExists(p) PROVE DirInv'
  BY <1>6, RetryAt, SMTT(60) DEF PlaceholderExists, Exists, ReqType
<1>7. ASSUME NEW p \in Proc, PlaceholderRename(p) PROVE DirInv'
  BY <1>7, SMTT(60) DEF PlaceholderRename, Exists, ReqType, Idle, TxInv
<1>8. ASSUME NEW p \in Proc, PlaceholderCommit(p) PROVE DirInv'
  <2>1. CASE Exists(req[p].parent)
    <3>1. /\ UNCHANGED <<snaps, seq>> /\ tx' = NoKey
          /\ dirs' = dirs \ {req[p].id} /\ req' = [req EXCEPT ![p] = Idle]
      BY <1>8, <2>1, Zenon DEF PlaceholderCommit
    <3>2. req[p].id = seq + 1 /\ tx = p
      BY <1>8 DEF PlaceholderCommit, TxInv
    <3>3. \A k \in Key : Exists(k) => snaps[k].id \in dirs'
      BY <3>1, <3>2 DEF SeqInv, Exists
    <3>4. \A q \in Proc : q # p => req[q].pc \notin {"renamed", "phrenamed"}
      BY <3>2 DEF TxInv
    <3> QED  BY <3>1, <3>2, <3>3, <3>4, SMTT(60) DEF Idle, Exists, ReqType
  <2>2. CASE ~Exists(req[p].parent)
    <3>1. /\ snaps' = [snaps EXCEPT ![req[p].parent] =
                         [id |-> req[p].id, kind |-> "committed", parent |-> NoKey]]
          /\ seq' = req[p].id /\ tx' = NoKey /\ UNCHANGED dirs /\ req' = Retry(p)
      BY <1>8, <2>2, Zenon DEF PlaceholderCommit, Fail
    <3> QED  BY <1>8, <3>1, RetryAt, SMTT(60)
             DEF PlaceholderCommit, Exists, ReqType, TxInv, OneIDAhead, Snap, NoSnap
  <2> QED  BY <2>1, <2>2
<1>9. ASSUME NEW p \in Proc, ProcessDefault(p) \/ ProcessSkip(p) PROVE DirInv'
  <2>1. CASE ProcessDefault(p)
    BY <2>1 DEF ProcessDefault, Exists, ReqType, Idle
  <2>2. CASE ProcessSkip(p)
    BY <2>2 DEF ProcessSkip, Exists, ReqType
  <2> QED  BY <1>9, <2>1, <2>2
<1>10. ASSUME NEW p \in Proc, ProcessRemote(p) PROVE DirInv'
  BY <1>10, ZenonT(60) DEF ProcessRemote, Exists, ReqType, Idle
<1>11. ASSUME NEW k \in Key, NEW n \in Key, DoCommit(k, n),
              UNCHANGED <<seq, tx, dirs, tmp, rafs, req>>
       PROVE  DirInv'
  BY <1>11 DEF DoCommit, MayCommit, CommitActive, Exists, NoSnap, Snap
<1>12. ASSUME NEW p \in Proc, PrepareCommit(p) PROVE DirInv'
  BY <1>12, SMTT(60) DEF PrepareCommit, DoCommit, MayCommit, CommitActive, Exists, NoSnap, Snap,
               Idle, ReqType, Fail, TxInv
<1>13. ASSUME NEW p \in Proc, CleanupUmount(p) PROVE DirInv'
  BY <1>13 DEF CleanupUmount, Exists, ReqType, Fail
<1>14. ASSUME NEW p \in Proc, CleanupUnlink(p) PROVE DirInv'
  <2> DEFINE rest == [rm |-> req[p].rm \ {req[p].id}, rmTmp |-> {}]
  <2>1. /\ Deleting(rest).pc \in {"idle", "umount"}
        /\ Deleting(rest).rm = req[p].rm \ {req[p].id}
    BY DeletingFields
  <2>2. req' = [req EXCEPT ![p] = Deleting(rest)]
    BY <1>14 DEF CleanupUnlink
  <2> HIDE DEF rest
  <2>3. \A k \in Key : Exists(k) => snaps[k].id # req[p].id
    BY <1>14 DEF CleanupUnlink, Exists
  <2>4. \A q \in Proc : req[q].pc \in {"renamed", "phrenamed"} => req[q].id # req[p].id
    BY <1>14, SMTT(60) DEF CleanupUnlink, TxInv, ReqType
  <2>5. dirs \ {req[p].id} \subseteq dirs' /\ dirs' \subseteq dirs /\ UNCHANGED <<snaps, seq, tx>>
    BY <1>14, SMTT(60) DEF CleanupUnlink
  <2>6. \A q \in Proc : \A d \in req'[q].rm : d \in req[q].rm
    BY <2>1, <2>2
  <2>7. \A q \in Proc : q # p => req'[q] = req[q]
    BY <2>2
  <2>8. req'[p].pc \in {"idle", "umount"} /\ req[p].pc = "unlink"
    BY <1>14, <2>1, <2>2 DEF CleanupUnlink
  <2>9. \A k \in Key : Exists(k)' => snaps'[k].id \in dirs'
    BY <2>3, <2>5, Zenon DEF Exists
  <2>10. seq' + 1 \in dirs' => tx' \in Proc /\ req'[tx'].pc \in {"renamed", "phrenamed"}
    <3>1. SUFFICES ASSUME seq + 1 \in dirs
                   PROVE  tx \in Proc /\ req'[tx].pc \in {"renamed", "phrenamed"}
      BY <2>5, Zenon
    <3>2. tx \in Proc /\ req[tx].pc \in {"renamed", "phrenamed"}
      BY <3>1, Zenon
    <3>3. tx # p
      BY <2>8, <3>2
    <3> QED  BY <2>7, <3>2, <3>3, Zenon
  <2>11. ASSUME NEW q \in Proc
         PROVE  /\ req'[q].pc \in {"renamed", "phrenamed"} => req'[q].id \in dirs'
                /\ req'[q].pc # "reclaim"
                /\ req'[q].pc = "unlink" => req'[q].id \in req'[q].rm \/ req'[q].id = 0
    <3>1. CASE q = p
      BY <2>8, <3>1
    <3>2. CASE q # p
      BY <2>4, <2>5, <2>7, <3>2, Zenon
    <3> QED  BY <3>1, <3>2
  <2>12. \A q \in Proc : \A d \in req'[q].rm : d <= seq' /\ \A k \in Key : snaps'[k].id # d
    BY <2>5, <2>6, Zenon
  <2> QED  BY <2>9, <2>10, <2>11, <2>12, Zenon
<1>15. ASSUME NEW p \in Proc, Cleanup(p) PROVE DirInv'
  <2> DEFINE list == getCleanupDirectories(IDMap)
  <2>1. Deleting(list).pc \in {"idle", "umount"} /\ Deleting(list).rm = dirs \ IDMap
    BY DeletingFields DEF getCleanupDirectories
  <2>2. \A d \in dirs \ IDMap : d <= seq /\ \A k \in Key : snaps[k].id # d
    BY <1>15, IDMapMember, SMTT(60) DEF Cleanup, Exists, OneIDAhead
  <2>3. req' = [req EXCEPT ![p] = Deleting(list)]
    BY <1>15 DEF Cleanup
  <2> HIDE DEF list
  <2> QED  BY <1>15, <2>1, <2>2, <2>3, SMTT(60), ZenonT(60) DEF Cleanup, Exists, ReqType
<1>16. ASSUME NEW p \in Proc, NEW k \in Key, Remove(p, k) PROVE DirInv'
  <2> DEFINE list == getCleanupDirectories(IDMap \ {snaps[k].id})
  <2>1. /\ Deleting(list).pc \in {"idle", "umount"}
        /\ Deleting(list).rm = dirs \ (IDMap \ {snaps[k].id})
    BY DeletingFields DEF getCleanupDirectories
  <2>2. snaps' = [snaps EXCEPT ![k] = NoSnap]
    BY <1>16, SMTT(60) DEF Remove, Fail
  <2>3. ASSUME NEW d \in dirs \ (IDMap \ {snaps[k].id})
        PROVE  d <= seq /\ \A j \in Key : snaps'[j].id # d
    <3>1. d <= seq
      BY <1>16, SMTT(60) DEF Remove, OneIDAhead
    <3>2. ASSUME NEW j \in Key, snaps'[j].id = d PROVE FALSE
      <4>1. j # k /\ snaps[j].id = d
        BY <2>2, <3>2 DEF NoSnap
      <4>2. Exists(j) /\ d # snaps[k].id
        BY <4>1 DEF Exists, UniqueIDs
      <4> QED  BY <4>1, <4>2, IDMapMember
    <3> QED  BY <3>1, <3>2
  <2>4. req' = [req EXCEPT ![p] = Deleting(list)] \/ req' = req
    BY <1>16 DEF Remove
  <2> HIDE DEF list
  <2>5. \A q \in Proc : \A d \in req'[q].rm : d <= seq' /\ \A j \in Key : snaps'[j].id # d
    <3>1. CASE req' = req
      BY <1>16, <2>2, <3>1, SMTT(60) DEF Remove, NoSnap, ReqType
    <3>2. CASE req' = [req EXCEPT ![p] = Deleting(list)]
      BY <1>16, <2>1, <2>2, <2>3, <3>2, SMTT(60) DEF Remove, NoSnap, ReqType
    <3> QED  BY <2>4, <3>1, <3>2
  <2> QED  BY <1>16, <2>1, <2>2, <2>4, <2>5, ZenonT(60) DEF Remove, Exists, NoSnap
<1>17. ASSUME NEW p \in Proc, NEW k \in Key, NEW par \in Key \cup {NoKey},
              NEW t \in Key \cup {NoKey}, Prepare(p, k, par, t)
       PROVE  DirInv'
  BY <1>17 DEF Prepare, Exists, ReqType, Idle
<1>18. ASSUME NEW p \in Proc, NEW k \in Key, NEW par \in Key, View(p, k, par)
       PROVE  DirInv'
  BY <1>18 DEF View, Exists, ReqType, Idle
<1>19. CASE Crash
  BY <1>0, <1>19, Zenon
<1>20. CASE UNCHANGED vars
  BY <1>20 DEF vars, Exists
<1>21. ASSUME NEW p \in Proc, NEW k \in Key, NEW n \in Key, Commit(p, k, n)
       PROVE  DirInv'
  BY <1>11, <1>21 DEF Commit
<1> QED
  BY ZenonT(60), <1>1, <1>2, <1>3, <1>4, <1>5, <1>6, <1>7, <1>8, <1>9, <1>10, <1>12,
     <1>13, <1>14, <1>15, <1>16, <1>17, <1>18, <1>19, <1>20, <1>21
  DEF Next, ProcStep, Request

\* Without a failing umount every step keeps MountInv: a list to delete names no
\* snapshot, so nothing on it can be mounted again.
LEMMA MountStep ==
  ASSUME CommitsHold, "umount" \notin Faults, TypeOK, TxInv, DirInv, MountInv, [Next]_vars
  PROVE  MountInv'
<1>1. ASSUME dirs \subseteq dirs', rafs' \subseteq rafs,
             \A q \in Proc : req'[q].pc = "unlink" => req[q].pc = "unlink" /\ req'[q].id = req[q].id
      PROVE  MountInv'
  BY <1>1 DEF MountInv
<1>2. ASSUME NEW p \in Proc, NEW k \in Key, snaps[k].id \in dirs, rafs' = rafs \cup {snaps[k].id},
             UNCHANGED dirs, req'[p].pc # "unlink", \A q \in Proc \ {p} : req'[q] = req[q]
      PROVE  MountInv'
  <2>1. snaps[k].id # 0
    BY <1>2 DEF TypeOK, ID
  <2>2. \A q \in Proc : req[q].pc = "unlink" => req[q].id # snaps[k].id
    BY <2>1, Zenon DEF DirInv
  <2> QED  BY <1>2, <2>2 DEF MountInv
<1>3. ASSUME NEW p \in Proc, CreateRename(p) PROVE MountInv'
  <2>1. seq + 1 \notin dirs
    BY <1>3 DEF CreateRename, DirInv, TxInv
  <2>2. dirs \subseteq dirs' /\ UNCHANGED rafs /\ req' = [req EXCEPT ![p].pc = "renamed", ![p].id = seq + 1]
    BY <1>3, <2>1, SMTT(30) DEF CreateRename
  <2>3. \A q \in Proc : req'[q].pc = "unlink" => req'[q] = req[q]
    BY <2>2 DEF TypeOK, ReqType
  <2> QED  BY <1>1, <2>2, <2>3
<1>4. ASSUME NEW p \in Proc, ProcessRemote(p) PROVE MountInv'
  <2>1. PICK k \in Key : k = req[p].parent
    BY <1>4 DEF ProcessRemote, TypeOK, ReqType
  <2>2. req'[p].pc # "unlink" /\ \A q \in Proc \ {p} : req'[q] = req[q]
    BY <1>4 DEF ProcessRemote, TypeOK, Idle
  <2> QED  BY <1>2, <1>4, <2>1, <2>2, Zenon DEF ProcessRemote
<1>5. ASSUME NEW p \in Proc, NEW k \in Key, NEW par \in Key, View(p, k, par) PROVE MountInv'
  <2>1. req'[p].pc # "unlink" /\ \A q \in Proc \ {p} : req'[q] = req[q]
    BY <1>5 DEF View, TypeOK, Idle
  <2>2. CASE UNCHANGED rafs
    BY <1>1, <1>5, <2>1, <2>2 DEF View
  <2>3. CASE snaps[par].id \in dirs /\ rafs' = rafs \cup {snaps[par].id}
    BY <1>2, <1>5, <2>1, <2>3, Zenon DEF View
  <2> QED  BY <1>5, <2>2, <2>3, Zenon DEF View
<1>6. ASSUME NEW p \in Proc, CleanupUmount(p) PROVE MountInv'
  <2>1. PICK d \in req[p].rm \cup {0} :
          req' = [req EXCEPT ![p].pc = "unlink", ![p].id = d] /\ rafs' = rafs \ {d}
    BY <1>6, Zenon DEF CleanupUmount, Fail
  <2>2. req'[p].id = d /\ \A q \in Proc \ {p} : req'[q] = req[q]
    BY <2>1 DEF TypeOK, ReqType
  <2>3. UNCHANGED dirs
    BY <1>6, Zenon DEF CleanupUmount
  <2>4. rafs' \subseteq dirs'
    BY <2>1, <2>3 DEF MountInv
  <2>5. ASSUME NEW q \in Proc, req'[q].pc = "unlink" PROVE req'[q].id \notin rafs'
    <3>0. rafs' = rafs \ {d}
      BY <2>1
    <3>1. CASE q = p
      BY <2>2, <3>0, <3>1
    <3>2. CASE q # p
      BY <2>2, <2>5, <3>0, <3>2 DEF MountInv
    <3> QED  BY <3>1, <3>2
  <2> QED  BY <2>4, <2>5, Zenon DEF MountInv
<1>7. ASSUME NEW p \in Proc, CleanupUnlink(p) PROVE MountInv'
  <2> DEFINE list == [rm |-> req[p].rm \ {req[p].id}, rmTmp |-> {}]
  <2>1. req[p].id \notin rafs
    BY <1>7, Zenon DEF CleanupUnlink, MountInv
  <2>2. Deleting(list).pc \in {"idle", "umount"}
    BY DeletingPC
  <2>3. req' = [req EXCEPT ![p] = Deleting(list)] /\ UNCHANGED rafs
    BY <1>7, Zenon DEF CleanupUnlink
  <2> HIDE DEF list
  <2>4. req'[p].pc # "unlink" /\ \A q \in Proc \ {p} : req'[q] = req[q]
    BY <2>2, <2>3 DEF TypeOK
  <2>5. dirs' = dirs \/ dirs' = dirs \ {req[p].id}
    BY <1>7, Zenon DEF CleanupUnlink
  <2> QED  BY <2>1, <2>3, <2>4, <2>5 DEF MountInv
<1>8. ASSUME NEW p \in Proc, dirs \subseteq dirs', UNCHANGED rafs,
             NEW r, req' = [req EXCEPT ![p] = r], r.pc # "unlink"
      PROVE  MountInv'
  <2>1. \A q \in Proc : req'[q].pc = "unlink" => req'[q] = req[q]
    BY <1>8 DEF TypeOK
  <2> QED  BY <1>1, <1>8, <2>1
<1>9. ASSUME NEW p \in Proc, NEW pc \in {"tmp", "process", "reclaim", "commit"},
             UNCHANGED <<dirs, rafs>>, req' = [req EXCEPT ![p].pc = pc]
      PROVE  MountInv'
  <2>1. \A q \in Proc : req'[q].pc = "unlink" => req'[q] = req[q]
    BY <1>9 DEF TypeOK, ReqType
  <2> QED  BY <1>1, <1>9, <2>1
<1>10. Idle.pc # "unlink"
  BY DEF Idle
<1>11. ASSUME NEW p \in Proc, CreateBegin(p) \/ CreateCommit(p) \/ CreateCommitFails(p) \/ ProcessSkip(p)
       PROVE  MountInv'
  BY <1>9, <1>11, Zenon DEF CreateBegin, CreateCommit, CreateCommitFails, ProcessSkip
<1>12. ASSUME NEW p \in Proc, CreateError(p) \/ ProcessDefault(p) \/ PrepareCommit(p) PROVE MountInv'
  <2>1. UNCHANGED <<dirs, rafs>> /\ req' = [req EXCEPT ![p] = Idle]
    BY <1>12, Zenon DEF CreateError, ProcessDefault, PrepareCommit
  <2> QED  BY <1>8, <1>10, <2>1
<1>13. ASSUME NEW p \in Proc, CreateRefused(p) PROVE MountInv'
  <2> DEFINE r == IF MissingParent(req[p].parent) /\ Proxy /\ ~req[p].retry
                  THEN [req[p] EXCEPT !.pc = "placeholder"] ELSE Idle
  <2>1. UNCHANGED <<dirs, rafs>> /\ req' = [req EXCEPT ![p] = r]
    BY <1>13, Zenon DEF CreateRefused
  <2>2. r.pc # "unlink"
    BY <1>10 DEF TypeOK, ReqType
  <2> HIDE DEF r
  <2> QED  BY <1>8, <2>1, <2>2
<1>14. ASSUME NEW p \in Proc, CreateReclaim(p) PROVE MountInv'
  BY <1>14, Zenon DEF CreateReclaim, DirInv
<1>15. ASSUME NEW p \in Proc, PlaceholderExists(p) \/ PlaceholderCommit(p) PROVE MountInv'
  <2>1. /\ \/ UNCHANGED <<dirs, rafs>>
           \/ dirs' = dirs \ {req[p].id} /\ rafs' = rafs \ {req[p].id}
        /\ \/ req' = Retry(p)
           \/ req' = [req EXCEPT ![p] = Idle]
           \/ req' = [req EXCEPT ![p].pc = "phbegin"]
    BY <1>15, Zenon DEF PlaceholderExists, PlaceholderCommit
  <2>2. \A q \in Proc : req'[q].pc = "unlink" => req'[q] = req[q]
    <3>1. CASE req' = Retry(p)
      BY <3>1, RetryAt
    <3>2. CASE req' = [req EXCEPT ![p] = Idle]
      BY <1>10, <3>2 DEF TypeOK
    <3>3. CASE req' = [req EXCEPT ![p].pc = "phbegin"]
      BY <3>3 DEF TypeOK, ReqType
    <3> QED  BY <2>1, <3>1, <3>2, <3>3
  <2>3. rafs' \subseteq rafs /\ rafs' \subseteq dirs'
    BY <2>1 DEF MountInv
  <2> QED  BY <2>2, <2>3, Zenon DEF MountInv
<1>16. ASSUME NEW p \in Proc, PlaceholderRename(p) PROVE MountInv'
  <2>1. UNCHANGED rafs /\ dirs \subseteq dirs'
    BY <1>16, SMTT(30) DEF PlaceholderRename
  <2>2. CASE req' = [req EXCEPT ![p] = Idle]
    BY <1>8, <1>10, <2>1, <2>2
  <2>3. CASE req' = [req EXCEPT ![p].pc = "phrenamed", ![p].id = seq + 1]
    <3>1. \A q \in Proc : req'[q].pc = "unlink" => req'[q] = req[q]
      BY <2>3 DEF TypeOK, ReqType
    <3> QED  BY <1>1, <2>1, <3>1
  <2> QED  BY <1>16, <2>2, <2>3, Zenon DEF PlaceholderRename
<1>17. ASSUME NEW p \in Proc, Cleanup(p) PROVE MountInv'
  BY <1>8, <1>17, DeletingPC DEF Cleanup
<1>18. ASSUME NEW p \in Proc, NEW k \in Key, Remove(p, k) PROVE MountInv'
  <2>1. PICK list : /\ UNCHANGED <<dirs, rafs>>
                    /\ req' = [req EXCEPT ![p] = Deleting(list)] \/ UNCHANGED req
    BY <1>18, Zenon DEF Remove
  <2>2. CASE UNCHANGED req
    BY <1>1, <2>1, <2>2
  <2>3. CASE req' = [req EXCEPT ![p] = Deleting(list)]
    BY <1>8, <2>1, <2>3, DeletingPC
  <2> QED  BY <2>1, <2>2, <2>3
<1>19. ASSUME NEW p \in Proc, NEW k \in Key, NEW par \in Key \cup {NoKey},
              NEW t \in Key \cup {NoKey}, Prepare(p, k, par, t)
       PROVE  MountInv'
  <2> DEFINE r == [Idle EXCEPT !.pc = "begin", !.key = k, !.parent = par, !.target = t]
  <2>1. UNCHANGED <<dirs, rafs>> /\ req' = [req EXCEPT ![p] = r]
    BY <1>19, Zenon DEF Prepare
  <2>2. r.pc # "unlink"
    BY DEF Idle
  <2> HIDE DEF r
  <2> QED  BY <1>8, <2>1, <2>2
<1>20. ASSUME NEW p \in Proc, NEW k \in Key, NEW n \in Key, Commit(p, k, n) PROVE MountInv'
  BY <1>1, <1>20, Zenon DEF Commit
<1>21. CASE Crash
  BY <1>21 DEF Crash, CommitsHold, TypeOK
<1>22. CASE UNCHANGED vars
  BY <1>22 DEF vars, MountInv
<1> QED
  BY ZenonT(60), <1>3, <1>4, <1>5, <1>6, <1>7, <1>11, <1>12, <1>13, <1>14, <1>15, <1>16, <1>17,
     <1>18, <1>19, <1>20, <1>21, <1>22
  DEF Next, ProcStep, Request

-----------------------------------------------------------------------------
(* The theorems.                                                           *)

IInv == TypeOK /\ TxInv /\ SeqInv /\ UniqueIDs /\ TmpInv /\ OneIDAhead

\* IInv holds throughout, whatever crashes and fails.
THEOREM Invariance == Spec => []IInv
<1>1. Init => IInv
  <2> SUFFICES ASSUME Init PROVE IInv
    OBVIOUS
  <2>1. TypeOK
    BY TypeInit
  <2>2. TxInv
    BY DEF Init, TxInv, Idle
  <2>3. SeqInv /\ UniqueIDs
    BY DEF Init, SeqInv, UniqueIDs, Exists, NoSnap
  <2>4. TmpInv /\ OneIDAhead
    BY DEF Init, TmpInv, OneIDAhead, Idle
  <2> QED  BY <2>1, <2>2, <2>3, <2>4 DEF IInv
<1>2. IInv /\ [Next]_vars => IInv'
  BY TypeStep, TxStep, IDStep, TmpStep, AheadStep DEF IInv
<1> QED  BY <1>1, <1>2, PTL DEF Spec

\* Type correctness of the metastore, the directories and the requests.
THEOREM TypeCorrect == Spec => []TypeOK
  BY Invariance, PTL DEF IInv

\* No two keys of the metastore share an ID, though a create that does not
\* commit gives its ID back.
THEOREM IDsUnique == Spec => []UniqueIDs
  BY Invariance, PTL DEF IInv

\* However often creates crash between Rename and Commit, at most one orphan
\* directory is ahead of the sequence.
THEOREM AtMostOneAhead == Spec => []OneIDAhead
  BY Invariance, PTL DEF IInv

\* No Cleanup or Remove deletes the temporary directory of a create in progress.
THEOREM TempKept == Spec => []LiveTempKept
<1>1. IInv => LiveTempKept
  BY DEF IInv, TmpInv, LiveTempKept
<1> QED  BY <1>1, Invariance, PTL

\* DirInv holds throughout while commits hold.
THEOREM DirInvariance ==
  ASSUME CommitsHold
  PROVE  Spec => []DirInv
<1>1. Init => DirInv
  <2>1. NoSnap.id = 0 /\ Idle.pc = "idle" /\ Idle.rm = {}
    BY DEF NoSnap, Idle
  <2>2. SUFFICES ASSUME Init PROVE DirInv
    OBVIOUS
  <2>3. dirs = {} /\ (\A k \in Key : snaps[k] = NoSnap) /\ \A p \in Proc : req[p] = Idle
    BY <2>2 DEF Init
  <2>4. ASSUME NEW p \in Proc PROVE req[p].pc = "idle" /\ req[p].rm = {}
    BY <2>1, <2>3, Zenon
  <2> QED  BY <2>1, <2>3, <2>4 DEF DirInv, Exists
<1>2. IInv /\ DirInv /\ [Next]_vars => DirInv'
  BY DirStep DEF IInv
<1> QED  BY <1>1, <1>2, Invariance, PTL DEF Spec

\* While commits hold, requests in any number and order leave every snapshot its
\* directory.
THEOREM SnapshotsKeepDirectories ==
  ASSUME CommitsHold
  PROVE  Spec => []DirOfSnapshot
<1>1. DirInv => DirOfSnapshot
  BY IDMapMember DEF DirInv, DirOfSnapshot
<1> QED  BY <1>1, DirInvariance, PTL

\* While commits hold, what a Remove or a Cleanup deletes still belongs to no
\* snapshot, though the transaction that listed it is long over.
THEOREM OnlyOrphansDeleted ==
  ASSUME CommitsHold
  PROVE  Spec => []DeletesOnlyOrphans
<1>1. IInv /\ DirInv => DeletesOnlyOrphans
  <2>1. SUFFICES ASSUME IInv, DirInv, NEW p \in Proc, req[p].pc = "unlink", req[p].id \in IDMap
                 PROVE  FALSE
    BY Zenon DEF DeletesOnlyOrphans
  <2>2. PICK k \in Key : snaps[k].id # 0 /\ snaps[k].id = req[p].id
    BY <2>1, IDMapMember, Zenon DEF Exists
  <2>3. req[p].id \in req[p].rm
    BY <2>1, <2>2 DEF DirInv
  <2> QED  BY <2>1, <2>2, <2>3, Zenon DEF DirInv
<1> QED  BY <1>1, Invariance, DirInvariance, PTL

\* While commits and umounts hold, a mounted RAFS instance keeps the directory
\* that its bootstrap is in.
THEOREM InstancesKeepDirectories ==
  ASSUME CommitsHold, "umount" \notin Faults
  PROVE  Spec => []RafsHasDir
<1>1. Init => MountInv
  BY DEF Init, MountInv, Idle
<1>2. IInv /\ DirInv /\ MountInv /\ [Next]_vars => MountInv'
  BY MountStep DEF IInv
<1>3. MountInv => RafsHasDir
  BY DEF MountInv, RafsHasDir
<1> QED  BY <1>1, <1>2, <1>3, Invariance, DirInvariance, PTL DEF Spec
=============================================================================
