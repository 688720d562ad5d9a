-------------------------- MODULE CredentialProofs --------------------------
(***************************************************************************)
(* Proofs about CredentialRenewal, whatever the providers answer: the      *)
(* listener follows the secrets of the cluster, and a nydusd that runs has *)
(* the credential of the store.                                            *)
(***************************************************************************)
EXTENDS CredentialRenewal, FiniteSetTheorems, TLAPS

-----------------------------------------------------------------------------
(* The secrets.                                                            *)

\* The informer misses no deletion and every secret it delivers parses.
SecretsDelivered == \A s \in Scenario : "bad" \notin s.ops /\ "relist" \notin s.ops

Event == [type : {"add", "set", "delete"}, secret : Secret, gen : Nat]

\* The k-th event that waits is the last one about the secret s.
LastOf(s, k) == events[k].secret = s /\ \A j \in k + 1 .. Len(events) : events[j].secret # s

\* The last event that waits about a secret is the secret as it is now, and the listener
\* has a secret that no event is about.
SecretsInv ==
  /\ scene \in Scenario
  /\ events \in Seq(Event) /\ configs \in [Secret -> Nat] /\ cluster \in [Secret -> Nat]
  /\ \A k \in 1 .. Len(events) : events[k].type = "delete" => events[k].gen = 0
  /\ ~ready => events = <<>> /\ \A s \in Secret : configs[s] = 0
  /\ ready => \A s \in Secret :
       \/ configs[s] = cluster[s] /\ \A k \in 1 .. Len(events) : events[k].secret # s
       \/ \E k \in 1 .. Len(events) : LastOf(s, k) /\ events[k].gen = cluster[s]

\* The listing of the informer has every secret of the cluster once.
LEMMA ListStep ==
  ASSUME SecretsInv, InitProviders
  PROVE  SecretsInv'
<1>a. scene' = scene /\ ready' /\ ~ready /\ configs' = configs /\ cluster' = cluster
  BY DEF InitProviders
<1>b. PICK n \in Nat : n = Cardinality(Stored)
  <2>1. Stored \subseteq Secret
    BY DEF Stored
  <2> QED  BY <2>1, ConstAssumption, FS_Subset, FS_CardinalityType
<1>1. PICK order \in Bijection(1..n, Stored) :
        events' = [k \in 1..n |-> SecretEvent("add", order[k], cluster[order[k]])]
  BY <1>b DEF InitProviders
<1>2. /\ order \in [1..n -> Stored] /\ \A s \in Stored : \E k \in 1..n : order[k] = s
      /\ \A j, k \in 1..n : order[j] = order[k] => j = k
  BY <1>1 DEF Bijection, Injection, Surjection, IsInjective
<1>3. \A k \in 1..n : /\ order[k] \in Secret /\ cluster[order[k]] \in Nat
                      /\ events'[k] = [type |-> "add", secret |-> order[k], gen |-> cluster[order[k]]]
  BY <1>1, <1>2 DEF Stored, SecretEvent, SecretsInv
<1>4. events' \in Seq(Event) /\ Len(events') = n
  <2>1. ASSUME NEW k \in 1..n PROVE events'[k] \in Event
    <3>1. /\ order[k] \in Secret /\ cluster[order[k]] \in Nat
          /\ events'[k] = [type |-> "add", secret |-> order[k], gen |-> cluster[order[k]]]
      BY <1>3
    <3> QED  BY <3>1 DEF Event
  <2>2. events' \in [1..n -> Event]
    <3> DEFINE F(k) == SecretEvent("add", order[k], cluster[order[k]])
    <3>1. events' = [k \in 1..n |-> F(k)] /\ \A k \in 1..n : events'[k] = F(k)
      BY <1>1
    <3>2. \A k \in 1..n : F(k) \in Event
      BY <2>1, <3>1, Zenon
    <3> HIDE DEF F
    <3> QED  BY <3>1, <3>2
  <2> QED  BY <1>b, <2>2
<1>6. ASSUME NEW k \in 1..n
      PROVE  /\ events'[k].secret = order[k] /\ events'[k].gen = cluster[order[k]]
             /\ events'[k].type = "add"
  <2>1. events'[k] = [type |-> "add", secret |-> order[k], gen |-> cluster[order[k]]]
    BY <1>3
  <2> QED  BY <2>1
<1>5. ASSUME NEW s \in Secret
      PROVE  \/ configs'[s] = cluster'[s] /\ \A k \in 1 .. n : events'[k].secret # s
             \/ \E k \in 1 .. n : LastOf(s, k)' /\ events'[k].gen = cluster'[s]
  <2>1. CASE s \in Stored
    <3>1. PICK k \in 1..n : order[k] = s
      BY <1>2, <2>1
    <3>2. \A j \in k + 1 .. n : events'[j].secret # s
      BY <1>2, <1>6, <1>b, <3>1
    <3>3. events'[k].secret = s /\ events'[k].gen = cluster'[s]
      BY <1>6, <1>a, <3>1
    <3> QED  BY <1>4, <3>2, <3>3 DEF LastOf
  <2>2. CASE s \notin Stored
    <3>1. cluster[s] = 0 /\ configs[s] = 0
      BY <1>a, <2>2 DEF Stored, SecretsInv
    <3> QED  BY <1>2, <1>6, <1>a, <2>2, <3>1
  <2> QED  BY <2>1, <2>2
<1> QED  BY <1>4, <1>5, <1>6, <1>a DEF SecretsInv

\* A change or a deletion of a secret becomes the last event about it.
LEMMA ChangeStep ==
  ASSUME SecretsDelivered, SecretsInv, NEW s \in Secret, SecretChanges(s) \/ SecretDeleted(s)
  PROVE  SecretsInv'
<1>1. PICK g \in Nat, ty \in {"set", "delete"} :
        /\ scene' = scene /\ ready' = ready /\ configs' = configs /\ cluster' = [cluster EXCEPT ![s] = g]
        /\ events' = IF ready THEN Append(events, [type |-> ty, secret |-> s, gen |-> g]) ELSE events
        /\ ty = "delete" => g = 0
  <2>1. "bad" \notin scene.ops /\ "relist" \notin scene.ops /\ cluster[s] + 1 \in Nat
    BY DEF SecretsDelivered, SecretsInv
  <2>2. CASE SecretChanges(s)
    BY <2>1, <2>2, Zenon DEF SecretChanges, SecretEvent, SOnly, SecretsInv
  <2>3. CASE SecretDeleted(s)
    BY <2>1, <2>3, Zenon DEF SecretDeleted, SecretEvent, SOnly, SecretsInv
  <2> QED  BY <2>2, <2>3
<1>2. cluster' \in [Secret -> Nat] /\ cluster'[s] = g /\ \A x \in Secret \ {s} : cluster'[x] = cluster[x]
  BY <1>1 DEF SecretsInv
<1>3. CASE ~ready
  BY <1>1, <1>2, <1>3 DEF SecretsInv
<1>4. CASE ready
  <2> DEFINE e == [type |-> ty, secret |-> s, gen |-> g]
  <2>1. e \in Event /\ e.secret = s /\ e.gen = g /\ e.type = ty
    BY DEF Event
  <2>2. events' = Append(events, e) /\ events \in Seq(Event)
    BY <1>1, <1>4 DEF SecretsInv
  <2> HIDE DEF e
  <2>3. /\ events' \in Seq(Event) /\ Len(events') = Len(events) + 1 /\ Len(events) \in Nat
        /\ events'[Len(events) + 1] = e /\ \A k \in 1 .. Len(events) : events'[k] = events[k]
    BY <2>1, <2>2
  <2>4. \A k \in 1 .. Len(events') : events'[k].type = "delete" => events'[k].gen = 0
    <3>1. \A k \in 1 .. Len(events) : events[k].type = "delete" => events[k].gen = 0
      BY DEF SecretsInv
    <3>2. e.type = "delete" => e.gen = 0
      BY <1>1, <2>1
    <3> QED  BY <2>3, <3>1, <3>2
  <2>5. ASSUME NEW x \in Secret
        PROVE  \/ configs'[x] = cluster'[x] /\ \A k \in 1 .. Len(events') : events'[k].secret # x
               \/ \E k \in 1 .. Len(events') : LastOf(x, k)' /\ events'[k].gen = cluster'[x]
    <3>1. CASE x = s
      <4>1. PICK m \in 1 .. Len(events') : m = Len(events) + 1
        BY <2>3
      <4>2. LastOf(s, m)'
        BY <2>1, <2>3, <4>1 DEF LastOf
      <4> QED  BY <1>2, <2>1, <2>3, <3>1, <4>1, <4>2, Zenon
    <3>2. CASE x # s
      <4>1. CASE configs[x] = cluster[x] /\ \A k \in 1 .. Len(events) : events[k].secret # x
        BY <1>1, <1>2, <2>1, <2>3, <3>2, <4>1
      <4>2. CASE \E k \in 1 .. Len(events) : LastOf(x, k) /\ events[k].gen = cluster[x]
        <5>1. PICK k \in 1 .. Len(events) : LastOf(x, k) /\ events[k].gen = cluster[x]
          BY <4>2
        <5>2. \A j \in k + 1 .. Len(events') : events'[j].secret # x
          BY <2>1, <2>3, <3>2, <5>1 DEF LastOf
        <5>3. LastOf(x, k)'
          BY <2>3, <5>1, <5>2 DEF LastOf
        <5> QED  BY <1>2, <2>3, <3>2, <5>1, <5>3
      <4> QED  BY <1>4, <4>1, <4>2 DEF SecretsInv
    <3> QED  BY <3>1, <3>2
  <2> QED  BY <1>1, <1>2, <1>4, <2>3, <2>4, <2>5, Zenon DEF SecretsInv
<1> QED  BY <1>3, <1>4

\* The listener takes the first event.
LEMMA DeliverStep ==
  ASSUME SecretsInv, HandleEvent
  PROVE  SecretsInv'
<1> DEFINE e == events[1]
<1>1. /\ events \in Seq(Event) /\ Len(events) \in Nat \ {0} /\ events' = Tail(events)
      /\ scene' = scene /\ ready' = ready /\ ready /\ cluster' = cluster
  BY DEF HandleEvent, SOnly, SecretsInv
<1>2. /\ e \in Event /\ events' \in Seq(Event) /\ Len(events') = Len(events) - 1
      /\ \A k \in 1 .. Len(events') : events'[k] = events[k + 1]
  BY <1>1
<1>3. configs' = [configs EXCEPT ![e.secret] = e.gen]
  <2>1. Head(events) = e
    BY <1>1
  <2>2. e.type \in {"add", "set", "delete"} /\ (e.type = "delete" => e.gen = 0)
    BY <1>1, <1>2 DEF Event, SecretsInv
  <2> QED  BY <2>1, <2>2, Zenon DEF HandleEvent, AddDockerConfig, DeleteDockerConfig
<1> HIDE DEF e
<1>4. /\ e.secret \in Secret /\ configs' \in [Secret -> Nat] /\ configs'[e.secret] = e.gen
      /\ \A x \in Secret \ {e.secret} : configs'[x] = configs[x]
  BY <1>2, <1>3 DEF Event, SecretsInv
<1>5. ASSUME NEW x \in Secret
      PROVE  \/ configs'[x] = cluster'[x] /\ \A k \in 1 .. Len(events') : events'[k].secret # x
             \/ \E k \in 1 .. Len(events') : LastOf(x, k)' /\ events'[k].gen = cluster'[x]
  <2>1. CASE configs[x] = cluster[x] /\ \A k \in 1 .. Len(events) : events[k].secret # x
    <3>1. e.secret # x
      BY <1>1, <2>1 DEF e
    <3>2. configs'[x] = cluster'[x]
      BY <1>1, <1>4, <2>1, <3>1, Zenon
    <3>3. ASSUME NEW k \in 1 .. Len(events') PROVE events'[k].secret # x
      <4>1. k + 1 \in 1 .. Len(events)
        BY <1>1, <1>2, <3>3
      <4> QED  BY <1>2, <2>1, <3>3, <4>1, Zenon
    <3> QED  BY <3>2, <3>3, Zenon
  <2>2. ASSUME NEW k \in 1 .. Len(events), LastOf(x, k), events[k].gen = cluster[x], k = 1
        PROVE  configs'[x] = cluster'[x] /\ \A j \in 1 .. Len(events') : events'[j].secret # x
    <3>1. e.secret = x /\ e.gen = cluster[x]
      BY <2>2 DEF e, LastOf
    <3> QED  BY <1>1, <1>2, <1>4, <2>2, <3>1 DEF LastOf
  <2>3. ASSUME NEW k \in 1 .. Len(events), LastOf(x, k), events[k].gen = cluster[x], k # 1
        PROVE  \E j \in 1 .. Len(events') : LastOf(x, j)' /\ events'[j].gen = cluster'[x]
    <3>1. k - 1 \in 1 .. Len(events') /\ events'[k - 1] = events[k]
      BY <1>1, <1>2, <2>3
    <3>2. LastOf(x, k - 1)'
      BY <1>1, <1>2, <2>3, <3>1 DEF LastOf
    <3> QED  BY <1>1, <2>3, <3>1, <3>2
  <2> QED  BY <1>1, <2>1, <2>2, <2>3 DEF SecretsInv
<1>6. \A k \in 1 .. Len(events') : events'[k].type = "delete" => events'[k].gen = 0
  BY <1>1, <1>2 DEF SecretsInv
<1> QED  BY <1>1, <1>2, <1>4, <1>5, <1>6, Zenon DEF SecretsInv

\* No other step touches the secrets, the events or the listener.
LEMMA OtherStep ==
  ASSUME SecretsInv, UNCHANGED <<scene, ready, cluster, events, configs>>
  PROVE  SecretsInv'
BY DEF SecretsInv, LastOf

\* When every event is delivered, the listener has the secrets of the cluster as they are
\* now: no change is lost or applied out of order, also one made before the listener was
\* set up (SyncKubeSecrets).
THEOREM ListenerFollowsSecrets == ASSUME SecretsDelivered PROVE Spec => []FollowsSecrets
<1>1. Init => SecretsInv
  BY DEF Init, SecretsInv
<1>2. SecretsInv /\ [Next]_vars => SecretsInv'
  <2> SUFFICES ASSUME SecretsInv, [Next]_vars PROVE SecretsInv'
    OBVIOUS
  <2>1. CASE InitProviders
    BY <2>1, ListStep
  <2>2. CASE \E s \in Secret : SecretChanges(s) \/ SecretDeleted(s)
    BY <2>2, ChangeStep
  <2>3. CASE HandleEvent
    BY <2>3, DeliverStep
  <2>4. CASE Mount
    <3>1. UNCHANGED <<scene, ready, cluster, events, configs>>
      BY <2>4, Zenon DEF Mount, MountLookup, MountFetch, MountAdd, PullLayer, MountDump, ReadConfig, MountNydusd,
             Umount, MOnly, sources
    <3> QED  BY <3>1, OtherStep
  <2>5. CASE Reconcile
    <3>1. UNCHANGED <<scene, ready, cluster, events, configs>>
      BY <2>5, Zenon DEF Reconcile, Ticks, ListInstances, ReadOld, RenewCredential, RenewAdd,
             UpdateAuthConfig, ListStale, RemoveEntry, Reconciled, ROnly, sources
    <3> QED  BY <3>1, OtherStep
  <2>6. CASE DockerLogin \/ NydusdDown \/ NydusdUp \/ Passes
    <3>1. UNCHANGED <<scene, ready, cluster, events, configs>>
      BY <2>6, Zenon DEF DockerLogin, NydusdDown, NydusdUp, Passes, sources
    <3> QED  BY <3>1, OtherStep
  <2>7. CASE UNCHANGED vars
    <3>1. UNCHANGED <<scene, ready, cluster, events, configs>>
      BY <2>7, Zenon DEF vars, sources
    <3> QED  BY <3>1, OtherStep
  <2> QED  BY <2>1, <2>2, <2>3, <2>4, <2>5, <2>6, <2>7, Zenon DEF Next, World
<1>3. SecretsInv => FollowsSecrets
  <2> SUFFICES ASSUME SecretsInv, ready, events = <<>> PROVE configs = cluster
    BY DEF FollowsSecrets
  <2>1. \A s \in Secret : configs[s] = cluster[s]
    BY DEF SecretsInv
  <2> QED  BY <2>1 DEF SecretsInv
<1> QED  BY <1>1, <1>2, <1>3, PTL DEF Spec

-----------------------------------------------------------------------------
(* The credentials of the instances.                                       *)

\* The instances that share their image with no other.
Own == {i \in Inst \ scene.layers : \A j \in Inst \ {i} : RefOf(j) # RefOf(i)}

InMemory == {"mount", "send", "live", "gone"}
Renewing == {"renew", "add", "reload"}

\* The shape of the state.
ShapeInv ==
  /\ scene \in Scenario
  /\ mnt = [i \in Inst |-> [pc |-> mnt[i].pc, kc |-> mnt[i].kc]]
  /\ file = [i \in Inst |-> file[i]] /\ served = [i \in Inst |-> served[i]]
  /\ store = [r \in Ref |-> store[r]]
  /\ rc = [pc |-> rc.pc, todo |-> rc.todo, live |-> rc.live, inst |-> rc.inst, old |-> rc.old,
           kc |-> rc.kc, stale |-> rc.stale]
  /\ rc.todo \subseteq Inst /\ (rc.pc \in Renewing => rc.inst \in Inst)

\* An instance is reconciled after its Mount has used the store and, when it is alone on
\* its image, what reconcileCredentials read from the store is still there when it stores
\* the new one.
RenewInv ==
  /\ \A i \in Inst : mnt[i].pc \in InMemory => i \notin scene.layers
  /\ \A i \in rc.todo : mnt[i].pc \in InMemory
  /\ rc.pc \in Renewing => mnt[rc.inst].pc \in InMemory
  /\ rc.pc \in {"renew", "add"} /\ rc.inst \in Own =>
       rc.old = IF store[RefOf(rc.inst)] = None THEN None ELSE store[RefOf(rc.inst)].kc
  /\ rc.pc = "reload" /\ rc.inst \in Own => store[RefOf(rc.inst)].kc = rc.kc

\* The credential of an instance is that of the store, from the lookup of its Mount on,
\* but while it is reloaded or when that failed; what its Mount sends, and what a nydusd
\* that runs has, is what the file says, unless the file has changed since and nydusd was not told.
HasStored(i, kc) == store[RefOf(i)] # None => SameSecret(kc, store[RefOf(i)].kc)
InstanceOK(i) ==
  /\ mnt[i].pc \in {"none", "fetch", "add"} => store[RefOf(i)] = None
  /\ mnt[i].pc = "dump" => HasStored(i, mnt[i].kc)
  /\ mnt[i].pc \in {"mount", "send", "live"} /\ ~(rc.pc = "reload" /\ rc.inst = i) /\ i \notin unsaved =>
       HasStored(i, file[i])
  /\ mnt[i].pc = "send" /\ i \notin unpushed => mnt[i].kc = file[i]
  /\ mnt[i].pc = "live" /\ running /\ i \notin unpushed => served[i] = file[i]

CredInv == ShapeInv /\ RenewInv /\ \A i \in Own : InstanceOK(i)

\* The invariant holds initially.
LEMMA CredInit == Init => CredInv
<1> SUFFICES ASSUME Init PROVE CredInv
  OBVIOUS
<1>1. ShapeInv
  <2>1. mnt = [i \in Inst |-> [pc |-> mnt[i].pc, kc |-> mnt[i].kc]]
    <3> DEFINE M(i) == [NoPull EXCEPT !.pc = IF i \in scene.recovered THEN "live" ELSE "none"]
    <3>1. \A i \in Inst : M(i) = [pc |-> M(i).pc, kc |-> M(i).kc]
      BY DEF NoPull
    <3>2. mnt = [i \in Inst |-> M(i)]
      BY DEF Init
    <3> HIDE DEF M
    <3> QED  BY <3>1, <3>2
  <2>2. /\ rc = [pc |-> rc.pc, todo |-> rc.todo, live |-> rc.live, inst |-> rc.inst, old |-> rc.old,
                 kc |-> rc.kc, stale |-> rc.stale]
        /\ rc.pc = "list" /\ rc.todo = {}
    BY Zenon DEF Init, Idle
  <2>3. file = [i \in Inst |-> file[i]] /\ served = [i \in Inst |-> served[i]] /\ store = [r \in Ref |-> store[r]]
    BY DEF Init
  <2> QED  BY <2>1, <2>2, <2>3 DEF Init, ShapeInv, Renewing
<1>2. scene \in Scenario /\ scene.layers \cap scene.recovered = {} /\ \A i \in Inst : RefOf(i) \in Ref
  BY ConstAssumption DEF Init, RefOf
<1>3. \A i \in Inst : mnt[i].pc = IF i \in scene.recovered THEN "live" ELSE "none"
  BY DEF Init, NoPull
<1>4. RenewInv
  BY <1>2, <1>3 DEF Init, RenewInv, InMemory, Renewing, Idle
<1>5. \A i \in Inst : store[RefOf(i)] = None /\ served[i] = file[i]
  BY <1>2 DEF Init
<1>6. \A i \in Inst : InstanceOK(i)
  BY <1>3, <1>5 DEF InstanceOK, HasStored
<1> QED  BY <1>1, <1>4, <1>6 DEF CredInv, Own

\* What a step of the Mount or of the removal of an instance does.
MountDoes(i) ==
  /\ scene' = scene /\ running' = running /\ rc' = rc /\ unsaved' = unsaved
  /\ unpushed' = unpushed \/ (mnt[i].pc = "mount" /\ unpushed' = unpushed \ {i})
  /\ mnt' = [mnt EXCEPT ![i] = [pc |-> mnt'[i].pc, kc |-> mnt'[i].kc]]
  /\ file' = [file EXCEPT ![i] = file'[i]] /\ served' = [served EXCEPT ![i] = served'[i]]
  /\ \/ /\ mnt[i].pc = "none" /\ store' = store /\ file' = file
        /\ \/ mnt'[i].pc = "fetch" /\ store[RefOf(i)] = None
           \/ mnt'[i].pc = "dump" /\ mnt'[i].kc = store[RefOf(i)].kc
     \/ mnt[i].pc = "fetch" /\ mnt'[i].pc \in {"add", "dump"} /\ store' = store /\ file' = file
     \/ /\ mnt[i].pc = "add" /\ mnt'[i].pc = "dump" /\ mnt'[i].kc = mnt[i].kc /\ file' = file
        /\ store' = [store EXCEPT ![RefOf(i)] = [kc |-> mnt[i].kc, at |-> now]]
     \/ mnt[i].pc = "dump" /\ i \in scene.layers /\ mnt'[i].pc = "none" /\ store' = store /\ file' = file
     \/ /\ mnt[i].pc = "dump" /\ i \notin scene.layers /\ mnt'[i].pc = "mount" /\ store' = store
        /\ file'[i] = mnt[i].kc
     \/ /\ mnt[i].pc = "mount" /\ mnt'[i].pc = "send" /\ store' = store /\ file' = file
        /\ mnt'[i].kc = file[i]
     \/ /\ mnt[i].pc = "send" /\ mnt'[i].pc = "live" /\ store' = store /\ file' = file
        /\ served'[i] = mnt[i].kc /\ unpushed' = unpushed
     \/ mnt[i].pc = "live" /\ mnt'[i].pc = "gone" /\ store' = store /\ file' = file

\* A step of a Mount does no more than that.
LEMMA MountEffect ==
  ASSUME ShapeInv, NEW i \in Inst,
         \/ MountLookup(i) \/ MountFetch(i) \/ MountAdd(i) \/ PullLayer(i)
         \/ MountDump(i) \/ ReadConfig(i) \/ MountNydusd(i) \/ Umount(i)
  PROVE  MountDoes(i)
<1> DEFINE m == mnt[i]
<1>a. /\ m = [pc |-> m.pc, kc |-> m.kc] /\ mnt = [j \in Inst |-> mnt[j]]
      /\ file = [j \in Inst |-> file[j]] /\ served = [j \in Inst |-> served[j]]
  BY DEF ShapeInv
<1>b. /\ scene' = scene /\ running' = running /\ rc' = rc /\ unsaved' = unsaved
      /\ unpushed' = unpushed \/ (mnt[i].pc = "mount" /\ unpushed' = unpushed \ {i})
  BY Zenon DEF MountLookup, MountFetch, MountAdd, PullLayer, MountDump, ReadConfig, MountNydusd, Umount, MOnly
<1>c. ASSUME NEW v, v = [pc |-> v.pc, kc |-> v.kc], mnt' = [mnt EXCEPT ![i] = v]
      PROVE  mnt' = [mnt EXCEPT ![i] = [pc |-> mnt'[i].pc, kc |-> mnt'[i].kc]] /\ mnt'[i] = v
  BY <1>a, <1>c, Zenon
<1>1. CASE MountLookup(i)
  <2>1. mnt[i].pc = "none" /\ UNCHANGED <<file, served, store>>
    BY <1>1 DEF MountLookup
  <2>2. CASE store[RefOf(i)] # None
    <3> DEFINE v == [pc |-> "dump", kc |-> store[RefOf(i)].kc]
    <3>1. v = [pc |-> v.pc, kc |-> v.kc] /\ v.pc = "dump" /\ v.kc = store[RefOf(i)].kc
      OBVIOUS
    <3>2. mnt' = [mnt EXCEPT ![i] = v]
      BY <1>1, <1>a, <2>2 DEF MountLookup
    <3> HIDE DEF v
    <3> QED  BY <1>a, <1>b, <1>c, <2>1, <3>1, <3>2, Zenon DEF MountDoes
  <2>3. CASE store[RefOf(i)] = None
    <3> DEFINE v == [m EXCEPT !.pc = "fetch"]
    <3>1. v = [pc |-> v.pc, kc |-> v.kc] /\ v.pc = "fetch"
      BY <1>a
    <3>2. mnt' = [mnt EXCEPT ![i] = v]
      BY <1>1, <1>a, <2>3 DEF MountLookup
    <3> HIDE DEF v
    <3> QED  BY <1>a, <1>b, <1>c, <2>1, <2>3, <3>1, <3>2, Zenon DEF MountDoes
  <2> QED  BY <2>2, <2>3
<1>2. CASE MountFetch(i)
  <2>1. mnt[i].pc = "fetch" /\ UNCHANGED <<file, served, store>>
    BY <1>2 DEF MountFetch
  <2>2. \E pc \in {"dump", "add"} : \E kc : mnt' = [mnt EXCEPT ![i] = [pc |-> pc, kc |-> kc]]
    BY <1>2, Zenon DEF MountFetch
  <2>3. PICK pc \in {"dump", "add"} : \E kc : mnt' = [mnt EXCEPT ![i] = [pc |-> pc, kc |-> kc]]
    BY <2>2, Zenon
  <2>4. PICK kc : mnt' = [mnt EXCEPT ![i] = [pc |-> pc, kc |-> kc]]
    BY <2>3, Zenon
  <2> DEFINE v == [pc |-> pc, kc |-> kc]
  <2>5. v = [pc |-> v.pc, kc |-> v.kc] /\ v.pc = pc /\ mnt' = [mnt EXCEPT ![i] = v]
    BY <2>4
  <2> HIDE DEF v
  <2> QED  BY <1>a, <1>b, <1>c, <2>1, <2>5, Zenon DEF MountDoes
<1>3. CASE MountAdd(i)
  <2> DEFINE v == [m EXCEPT !.pc = "dump"]
  <2>1. v = [pc |-> v.pc, kc |-> v.kc] /\ v.pc = "dump" /\ v.kc = m.kc
    BY <1>a
  <2>2. /\ mnt[i].pc = "add" /\ UNCHANGED <<file, served>> /\ mnt' = [mnt EXCEPT ![i] = v]
        /\ store' = [store EXCEPT ![RefOf(i)] = [kc |-> m.kc, at |-> now]]
    BY <1>3, <1>a DEF MountAdd, Add
  <2> HIDE DEF v
  <2> QED  BY <1>a, <1>b, <1>c, <2>1, <2>2, Zenon DEF MountDoes
<1>4. CASE PullLayer(i)
  <2>1. NoPull = [pc |-> NoPull.pc, kc |-> NoPull.kc] /\ NoPull.pc = "none"
    BY DEF NoPull
  <2> QED  BY <1>4, <1>a, <1>b, <1>c, <2>1, Zenon DEF MountDoes, PullLayer
<1>5. CASE MountDump(i)
  <2> DEFINE v == [NoPull EXCEPT !.pc = "mount"]
  <2>1. v = [pc |-> v.pc, kc |-> v.kc] /\ v.pc = "mount"
    BY DEF NoPull
  <2>2. /\ mnt[i].pc = "dump" /\ i \notin scene.layers /\ mnt' = [mnt EXCEPT ![i] = v]
        /\ file' = [file EXCEPT ![i] = m.kc] /\ UNCHANGED <<served, store>>
    BY <1>5 DEF MountDump
  <2> HIDE DEF v
  <2> QED  BY <1>a, <1>b, <1>c, <2>1, <2>2, Zenon DEF MountDoes
<1>6. CASE MountNydusd(i)
  <2> DEFINE v == [NoPull EXCEPT !.pc = "live"]
  <2>1. v = [pc |-> v.pc, kc |-> v.kc] /\ v.pc = "live"
    BY DEF NoPull
  <2>2. /\ mnt[i].pc = "send" /\ mnt' = [mnt EXCEPT ![i] = v]
        /\ served' = [served EXCEPT ![i] = m.kc] /\ UNCHANGED <<file, store, unpushed>>
    BY <1>6, <1>a DEF MountNydusd
  <2> HIDE DEF v
  <2> QED  BY <1>a, <1>b, <1>c, <2>1, <2>2, Zenon DEF MountDoes
<1>7. CASE Umount(i)
  <2> DEFINE v == [m EXCEPT !.pc = "gone"]
  <2>1. v = [pc |-> v.pc, kc |-> v.kc] /\ v.pc = "gone"
    BY <1>a
  <2>2. /\ mnt[i].pc = "live" /\ mnt' = [mnt EXCEPT ![i] = v]
        /\ served' = [served EXCEPT ![i] = None] /\ UNCHANGED <<file, store>>
    BY <1>7, <1>a DEF Umount
  <2> HIDE DEF v
  <2> QED  BY <1>a, <1>b, <1>c, <2>1, <2>2, Zenon DEF MountDoes
<1>8. CASE ReadConfig(i)
  <2> DEFINE v == [pc |-> "send", kc |-> file[i]]
  <2>1. v = [pc |-> v.pc, kc |-> v.kc] /\ v.pc = "send" /\ v.kc = file[i]
    OBVIOUS
  <2>2. mnt[i].pc = "mount" /\ mnt' = [mnt EXCEPT ![i] = v] /\ UNCHANGED <<file, served, store>>
    BY <1>8, <1>a DEF ReadConfig
  <2> HIDE DEF v
  <2> QED  BY <1>a, <1>b, <1>c, <2>1, <2>2, Zenon DEF MountDoes
<1> QED  BY <1>1, <1>2, <1>3, <1>4, <1>5, <1>6, <1>7, <1>8, Zenon

\* An instance that a step leaves alone, and whose image it leaves alone, stays as it was.
LEMMA InstanceKept ==
  ASSUME NEW j, InstanceOK(j), scene' = scene, mnt'[j] = mnt[j], file'[j] = file[j],
         store'[RefOf(j)] \in {store[RefOf(j)], None}, served'[j] = served[j], running' => running,
         rc.pc = "reload" /\ rc.inst = j => rc'.pc = "reload" /\ rc'.inst = j,
         j \in unsaved => j \in unsaved', j \in unpushed => j \in unpushed'
  PROVE  InstanceOK(j)'
<1>1. RefOf(j)' = RefOf(j)
  BY DEF RefOf
<1>2. ASSUME NEW kc, HasStored(j, kc) PROVE store'[RefOf(j)] # None => SameSecret(kc, store'[RefOf(j)].kc)
  BY <1>2 DEF HasStored
<1> QED  BY <1>1, <1>2 DEF InstanceOK, HasStored

\* The images of the instances are images.
LEMMA Images ==
  ASSUME ShapeInv
  PROVE  \A i \in Inst : RefOf(i) \in Ref
BY ConstAssumption DEF ShapeInv, RefOf

\* A step of a Mount or of a removal keeps the invariant.
LEMMA MountStep ==
  ASSUME CredInv, NEW i \in Inst, MountDoes(i)
  PROVE  CredInv'
<1>a. /\ ShapeInv /\ RenewInv /\ \A j \in Own : InstanceOK(j)
      /\ RefOf(i) \in Ref
      /\ \A x \in Own : x \in Inst \ scene.layers /\ \A y \in Inst \ {x} : RefOf(x) # RefOf(y)
  BY Images DEF CredInv, Own
<1>b. /\ scene' = scene /\ rc' = rc /\ running' = running /\ unsaved' = unsaved
      /\ \A x : RefOf(x)' = RefOf(x)
  BY DEF MountDoes, RefOf
<1>h. Own' = Own
  BY <1>b DEF Own
<1>i. \A x \in Inst \ {i} : x \in unpushed => x \in unpushed'
  BY DEF MountDoes
<1>c. \A x \in Inst \ {i} : mnt'[x] = mnt[x] /\ file'[x] = file[x] /\ served'[x] = served[x]
  BY <1>a DEF MountDoes, ShapeInv
<1>d. mnt'[i].pc \in InMemory => mnt[i].pc \in InMemory \/ i \notin scene.layers
  BY DEF MountDoes, InMemory
<1>e. mnt[i].pc \in InMemory => mnt'[i].pc \in InMemory /\ store' = store
  BY DEF MountDoes, InMemory
<1>f. \/ store' = store
      \/ /\ mnt[i].pc = "add" /\ mnt'[i].pc = "dump" /\ mnt'[i].kc = mnt[i].kc
         /\ store' = [store EXCEPT ![RefOf(i)] = [kc |-> mnt[i].kc, at |-> now]]
  BY DEF MountDoes
<1>g. /\ store' = [r \in Ref |-> store'[r]] /\ \A r \in Ref \ {RefOf(i)} : store'[r] = store[r]
      /\ store' # store => store'[RefOf(i)].kc = mnt'[i].kc
  BY <1>a, <1>f DEF ShapeInv
<1>1. ShapeInv'
  <2>1. mnt' = [j \in Inst |-> [pc |-> mnt'[j].pc, kc |-> mnt'[j].kc]]
    <3>1. mnt' = [mnt EXCEPT ![i] = [pc |-> mnt'[i].pc, kc |-> mnt'[i].kc]] /\ mnt = [j \in Inst |-> mnt[j]]
      BY <1>a DEF MountDoes, ShapeInv
    <3>2. mnt'[i] = [pc |-> mnt'[i].pc, kc |-> mnt'[i].kc] /\ mnt' = [j \in Inst |-> mnt'[j]]
      BY <3>1
    <3>3. \A j \in Inst \ {i} : mnt'[j] = [pc |-> mnt'[j].pc, kc |-> mnt'[j].kc]
      BY <1>a, <1>c, Zenon DEF ShapeInv
    <3> QED  BY <3>2, <3>3
  <2>2. file' = [j \in Inst |-> file'[j]] /\ served' = [j \in Inst |-> served'[j]]
    BY <1>a DEF MountDoes, ShapeInv
  <2> QED  BY <1>a, <1>b, <1>g, <2>1, <2>2 DEF ShapeInv
<1>2. RenewInv'
  <2>1. \A j \in Inst : mnt'[j].pc \in InMemory => j \notin scene.layers
    BY <1>a, <1>c, <1>d DEF RenewInv
  <2>2. \A j \in Inst : mnt[j].pc \in InMemory => mnt'[j].pc \in InMemory
    BY <1>c, <1>e
  <2>3. ASSUME rc.pc \in Renewing
        PROVE  /\ rc.inst \in Inst /\ mnt[rc.inst].pc \in InMemory
               /\ rc.inst \in Own => store'[RefOf(rc.inst)] = store[RefOf(rc.inst)]
    <3>1. rc.inst \in Inst /\ mnt[rc.inst].pc \in InMemory
      BY <1>a, <2>3 DEF ShapeInv, RenewInv
    <3>2. RefOf(rc.inst) \in Ref
      BY <1>a, <3>1, Images
    <3>3. CASE rc.inst = i
      BY <1>e, <3>1, <3>3
    <3>4. CASE rc.inst # i
      BY <1>a, <1>g, <3>1, <3>2, <3>4, Zenon
    <3> QED  BY <3>1, <3>3, <3>4, Zenon
  <2>4. rc.todo \subseteq Inst
    BY <1>a DEF ShapeInv
  <2> QED  BY <1>a, <1>b, <1>h, <2>1, <2>2, <2>3, <2>4, Zenon DEF RenewInv, Renewing
<1>3. ASSUME NEW j \in Own, j # i PROVE InstanceOK(j)'
  <2>1. RefOf(j) \in Ref /\ RefOf(j) # RefOf(i)
    BY <1>a, <1>3, Images
  <2> QED  BY <1>a, <1>b, <1>c, <1>g, <1>i, <1>3, <2>1, InstanceKept
<1>4. ASSUME i \in Own PROVE InstanceOK(i)'
  <2>1. InstanceOK(i)
    BY <1>a, <1>4
  <2>2. /\ ~(rc.pc = "reload" /\ rc.inst = i) \/ mnt[i].pc \in InMemory
    BY <1>a DEF RenewInv, Renewing
  <2>3. \A kc : SameSecret(kc, kc)
    BY DEF SameSecret
  <2>4. mnt'[i].pc \in {"none", "fetch", "add"} => store'[RefOf(i)] = None
    BY <1>a, <1>4, <2>1 DEF MountDoes, InstanceOK
  <2>5. mnt'[i].pc = "dump" => (store'[RefOf(i)] # None => SameSecret(mnt'[i].kc, store'[RefOf(i)].kc))
    BY <1>g, <2>1, <2>3, Zenon DEF MountDoes, InstanceOK
  <2>6. mnt'[i].pc \in {"mount", "send", "live"} /\ ~(rc.pc = "reload" /\ rc.inst = i) /\ i \notin unsaved =>
          (store'[RefOf(i)] # None => SameSecret(file'[i], store'[RefOf(i)].kc))
    BY <2>1, <2>2, Zenon DEF MountDoes, InstanceOK, HasStored, InMemory
  <2>7. mnt'[i].pc = "send" => mnt'[i].kc = file'[i]
    BY DEF MountDoes
  <2>8. mnt'[i].pc = "live" /\ i \notin unpushed' => served'[i] = file'[i]
    BY <2>1 DEF MountDoes, InstanceOK
  <2> QED  BY <1>b, <2>4, <2>5, <2>6, <2>7, <2>8, Zenon DEF InstanceOK, HasStored
<1> QED  BY <1>1, <1>2, <1>3, <1>4, <1>h, Zenon DEF CredInv

\* What a step of reconcileCredentials does.
RcIs(pc, todo, inst, old, kc) ==
  /\ rc' = [pc |-> rc'.pc, todo |-> rc'.todo, live |-> rc'.live, inst |-> rc'.inst, old |-> rc'.old,
            kc |-> rc'.kc, stale |-> rc'.stale]
  /\ rc'.pc = pc /\ rc'.todo = todo /\ rc'.inst = inst /\ rc'.old = old /\ rc'.kc = kc
StoredOf(i) == IF store[RefOf(i)] = None THEN None ELSE store[RefOf(i)].kc
Reloads ==
  \/ /\ file' = [file EXCEPT ![rc.inst] = rc.kc] /\ unsaved' = unsaved \ {rc.inst}
     /\ \/ /\ mnt[rc.inst].pc = "live" /\ served' = [served EXCEPT ![rc.inst] = rc.kc]
           /\ unpushed' = unpushed \ {rc.inst}
        \/ served' = served /\ unpushed' = unpushed \cup {rc.inst}
  \/ UNCHANGED <<file, served>> /\ unsaved' = unsaved \cup {rc.inst} /\ unpushed' = unpushed \cup {rc.inst}
ReconcileDoes ==
  /\ scene' = scene /\ running' = running /\ mnt' = mnt
  /\ \/ /\ UNCHANGED <<store, file, served, unsaved, unpushed>> /\ rc.pc # "reload"
        /\ \E todo \in SUBSET Inst, pc \in {"list", "next", "evict", "idle"} :
             /\ \A i \in todo : i \in rc.todo \/ mnt[i].pc \in InMemory
             /\ \E inst, old, kc : RcIs(pc, todo, inst, old, kc)
     \/ /\ UNCHANGED <<store, file, served, unsaved, unpushed>> /\ rc.pc = "next"
        /\ \E i \in rc.todo : RcIs("renew", rc.todo \ {i}, i, StoredOf(i), rc.kc)
     \/ /\ UNCHANGED <<store, file, served, unsaved, unpushed>> /\ rc.pc = "renew"
        /\ \E kc : RcIs("add", rc.todo, rc.inst, rc.old, kc)
     \/ /\ UNCHANGED <<file, served, unsaved, unpushed>> /\ rc.pc = "add"
        /\ store' = [store EXCEPT ![RefOf(rc.inst)] = [kc |-> rc.kc, at |-> now]]
        /\ RcIs(IF Unchanged THEN "next" ELSE "reload", rc.todo, rc.inst, rc.old, rc.kc)
     \/ /\ store' = store /\ rc.pc = "reload" /\ Reloads
        /\ RcIs("next", rc.todo, rc.inst, rc.old, rc.kc)
     \/ /\ UNCHANGED <<file, served, unsaved, unpushed>> /\ rc.pc = "evict"
        /\ \E r \in Ref : store' = [store EXCEPT ![r] = None]
        /\ RcIs("evict", rc.todo, rc.inst, rc.old, rc.kc)

\* A step of reconcileCredentials does no more than that.
LEMMA ReconcileEffect ==
  ASSUME ShapeInv, Reconcile
  PROVE  ReconcileDoes
<1> DEFINE c == rc
<1>a. /\ c = [pc |-> c.pc, todo |-> c.todo, live |-> c.live, inst |-> c.inst, old |-> c.old,
              kc |-> c.kc, stale |-> c.stale]
      /\ c.todo \subseteq Inst /\ scene \in Scenario
  BY DEF ShapeInv
<1>b. scene' = scene /\ running' = running /\ mnt' = mnt
  BY Zenon DEF Reconcile, Ticks, ListInstances, ReadOld, RenewCredential, RenewAdd,
         UpdateAuthConfig, ListStale, RemoveEntry, Reconciled, ROnly
<1>1. CASE Ticks
  <2>1. UNCHANGED <<store, file, served, unsaved, unpushed>> /\ rc.pc = "idle" /\ rc' = [Idle EXCEPT !.pc = "list"]
    BY <1>1 DEF Ticks, history
  <2>2. RcIs("list", {}, None, None, None)
    BY <2>1 DEF RcIs, Idle
  <2> QED  BY <1>b, <2>1, <2>2 DEF ReconcileDoes
<1>2. CASE ListInstances
  <2> DEFINE todo == IF running THEN {i \in Inst : mnt[i].pc \in {"mount", "send", "live"}} ELSE {}
  <2>1. /\ UNCHANGED <<store, file, served, unsaved, unpushed>> /\ rc.pc = "list"
        /\ rc' = [c EXCEPT !.pc = "next", !.todo = todo]
    BY <1>2 DEF ListInstances, history
  <2>2. todo \in SUBSET Inst /\ \A i \in todo : mnt[i].pc \in InMemory
    BY DEF InMemory
  <2> HIDE DEF todo
  <2>3. RcIs("next", todo, c.inst, c.old, c.kc)
    BY <1>a, <2>1, Zenon DEF RcIs
  <2> QED  BY <1>b, <2>1, <2>2, <2>3 DEF ReconcileDoes
<1>3. ASSUME NEW i \in Inst, ReadOld(i) PROVE ReconcileDoes
  <2>1. /\ UNCHANGED <<store, file, served, unsaved, unpushed>> /\ rc.pc = "next" /\ i \in rc.todo
        /\ rc' = [c EXCEPT !.pc = "renew", !.inst = i, !.todo = c.todo \ {i}, !.live = c.live \cup {i},
                           !.old = StoredOf(i)]
    BY <1>3, <1>a DEF ReadOld, StoredOf, history
  <2>2. RcIs("renew", c.todo \ {i}, i, StoredOf(i), c.kc)
    BY <1>a, <2>1, Zenon DEF RcIs
  <2> QED  BY <1>b, <2>1, <2>2 DEF ReconcileDoes
<1>4. CASE RenewCredential
  <2>1. UNCHANGED <<store, file, served, unsaved, unpushed>> /\ rc.pc = "renew"
    BY <1>4 DEF RenewCredential
  <2>2. PICK pc \in {"next", "add"} : \E kc : rc' = [rc EXCEPT !.pc = pc, !.kc = kc]
    BY <1>4, Zenon DEF RenewCredential
  <2>3. PICK kc : rc' = [c EXCEPT !.pc = pc, !.kc = kc]
    BY <2>2, Zenon
  <2>4. RcIs(pc, c.todo, c.inst, c.old, kc)
    BY <1>a, <2>3, Zenon DEF RcIs
  <2> QED  BY <1>a, <1>b, <2>1, <2>4 DEF ReconcileDoes
<1>5. CASE RenewAdd
  <2>1. /\ UNCHANGED <<file, served, unsaved, unpushed>> /\ rc.pc = "add" /\ rc' = [c EXCEPT !.pc = IF Unchanged THEN "next" ELSE "reload"]
        /\ store' = [store EXCEPT ![RefOf(rc.inst)] = [kc |-> rc.kc, at |-> now]]
    BY <1>5 DEF RenewAdd, Add
  <2>2. RcIs(IF Unchanged THEN "next" ELSE "reload", c.todo, c.inst, c.old, c.kc)
    BY <1>a, <2>1 DEF RcIs
  <2> QED  BY <1>b, <2>1, <2>2 DEF ReconcileDoes
<1>6. CASE UpdateAuthConfig
  <2>1. store' = store /\ rc.pc = "reload" /\ rc' = [c EXCEPT !.pc = "next"]
    BY <1>6 DEF UpdateAuthConfig
  <2>2. RcIs("next", c.todo, c.inst, c.old, c.kc)
    BY <1>a, <2>1 DEF RcIs
  <2>3. PICK saved, pushed \in BOOLEAN :
          /\ pushed => saved /\ mnt[rc.inst].pc = "live"
          /\ file' = IF saved THEN [file EXCEPT ![rc.inst] = rc.kc] ELSE file
          /\ served' = IF pushed THEN [served EXCEPT ![rc.inst] = rc.kc] ELSE served
          /\ unsaved' = IF saved THEN unsaved \ {rc.inst} ELSE unsaved \cup {rc.inst}
          /\ unpushed' = IF pushed THEN unpushed \ {rc.inst} ELSE unpushed \cup {rc.inst}
    <3>1. PICK saved, works \in BOOLEAN :
            LET pushed == saved /\ works /\ ~TokenBase(rc.kc) /\ running /\ mnt[rc.inst].pc = "live"
            IN  /\ file' = IF saved THEN [file EXCEPT ![rc.inst] = rc.kc] ELSE file
                /\ served' = IF pushed THEN [served EXCEPT ![rc.inst] = rc.kc] ELSE served
                /\ unsaved' = IF saved THEN unsaved \ {rc.inst} ELSE unsaved \cup {rc.inst}
                /\ unpushed' = IF pushed THEN unpushed \ {rc.inst} ELSE unpushed \cup {rc.inst}
      BY <1>6, Zenon DEF UpdateAuthConfig
    <3> DEFINE pushed == saved /\ works /\ ~TokenBase(rc.kc) /\ running /\ mnt[rc.inst].pc = "live"
    <3>2. /\ pushed \in BOOLEAN /\ (pushed => saved /\ mnt[rc.inst].pc = "live")
          /\ served' = IF pushed THEN [served EXCEPT ![rc.inst] = rc.kc] ELSE served
          /\ unpushed' = IF pushed THEN unpushed \ {rc.inst} ELSE unpushed \cup {rc.inst}
      BY <3>1
    <3> HIDE DEF pushed
    <3> QED  BY <3>1, <3>2, Zenon
  <2>4. Reloads
    BY <2>3, Zenon DEF Reloads
  <2> QED  BY <1>b, <2>1, <2>2, <2>4, Zenon DEF ReconcileDoes
<1>7. CASE ListStale
  <2>1. PICK stale : /\ UNCHANGED <<store, file, served, unsaved, unpushed>> /\ rc.pc = "next"
                     /\ rc' = [c EXCEPT !.pc = "evict", !.stale = stale]
    BY <1>7, Zenon DEF ListStale, history
  <2>2. RcIs("evict", c.todo, c.inst, c.old, c.kc)
    BY <1>a, <2>1, Zenon DEF RcIs
  <2> QED  BY <1>a, <1>b, <2>1, <2>2, Zenon DEF ReconcileDoes
<1>8. ASSUME NEW r \in Ref, RemoveEntry(r) PROVE ReconcileDoes
  <2>1. /\ UNCHANGED <<file, served, unsaved, unpushed>> /\ rc.pc = "evict" /\ store' = [store EXCEPT ![r] = None]
        /\ rc' = [c EXCEPT !.stale = c.stale \ {r}]
    BY <1>8, <1>a DEF RemoveEntry, history
  <2>2. RcIs("evict", c.todo, c.inst, c.old, c.kc)
    BY <1>a, <2>1, Zenon DEF RcIs
  <2> QED  BY <1>b, <2>1, <2>2, Zenon DEF ReconcileDoes
<1>9. CASE Reconciled
  <2>1. UNCHANGED <<store, file, served, unsaved, unpushed>> /\ rc.pc = "evict" /\ rc' = Idle
    BY <1>9 DEF Reconciled, history
  <2>2. RcIs("idle", {}, None, None, None)
    BY <2>1, Zenon DEF RcIs, Idle
  <2> QED  BY <1>b, <2>1, <2>2, Zenon DEF ReconcileDoes
<1> QED  BY <1>1, <1>2, <1>3, <1>4, <1>5, <1>6, <1>7, <1>8, <1>9 DEF Reconcile

\* A step of reconcileCredentials keeps the invariant.
LEMMA ReconcileStep ==
  ASSUME CredInv, ReconcileDoes
  PROVE  CredInv'
<1>a. /\ ShapeInv /\ RenewInv /\ \A j \in Own : InstanceOK(j)
      /\ \A x \in Inst : RefOf(x) \in Ref
      /\ \A x \in Own : x \in Inst /\ \A y \in Inst \ {x} : RefOf(x) # RefOf(y)
  BY Images DEF CredInv, Own
<1>b. scene' = scene /\ mnt' = mnt /\ running' = running /\ \A x : RefOf(x)' = RefOf(x)
  BY DEF ReconcileDoes, RefOf
<1>g. Own' = Own
  BY <1>b DEF Own
<1>c. rc.todo \subseteq Inst /\ \A x \in rc.todo : mnt[x].pc \in InMemory
  BY <1>a, Zenon DEF ShapeInv, RenewInv
<1>d. rc.pc \in Renewing => /\ rc.inst \in Inst /\ mnt[rc.inst].pc \in InMemory
                            /\ RefOf(rc.inst) \in Ref
  BY <1>a DEF ShapeInv, RenewInv
<1>e. /\ file' = [x \in Inst |-> file'[x]] /\ served' = [x \in Inst |-> served'[x]]
      /\ store' = [r \in Ref |-> store'[r]]
  BY <1>a DEF ReconcileDoes, Reloads, ShapeInv
<1>f. \A i \in Inst : mnt[i].pc \in InMemory => i \notin scene.layers
  BY <1>a DEF RenewInv
<1>1. ASSUME UNCHANGED <<file, served, unsaved, unpushed>>, rc.pc # "reload",
             store' = store \/ \E r \in Ref : store' = [store EXCEPT ![r] = None],
             NEW todo \in SUBSET Inst, \A i \in todo : mnt[i].pc \in InMemory,
             NEW pc \in {"list", "next", "evict", "idle"}, NEW inst, NEW old, NEW kc, RcIs(pc, todo, inst, old, kc)
      PROVE  CredInv'
  <2>1. ShapeInv'
    BY <1>a, <1>b, <1>e, <1>1, Zenon DEF ShapeInv, RcIs, Renewing
  <2>2. RenewInv'
    BY <1>b, <1>f, <1>1 DEF RenewInv, RcIs, Renewing
  <2>3. \A r \in Ref : store'[r] \in {store[r], None}
    BY <1>a, <1>1, Zenon DEF ShapeInv
  <2>4. ASSUME NEW j \in Own PROVE InstanceOK(j)'
    BY <1>a, <1>b, <1>1, <2>3, InstanceKept, Zenon
  <2> QED  BY <1>g, <2>1, <2>2, <2>4, Zenon DEF CredInv
<1>2. ASSUME UNCHANGED <<store, file, served, unsaved, unpushed>>, rc.pc = "next",
             NEW i \in rc.todo, RcIs("renew", rc.todo \ {i}, i, StoredOf(i), rc.kc)
      PROVE  CredInv'
  <2>1. ShapeInv'
    BY <1>a, <1>b, <1>c, <1>e, <1>2, Zenon DEF ShapeInv, RcIs, Renewing
  <2>2. RenewInv'
    <3>1. rc'.old = IF store'[RefOf(i)] = None THEN None ELSE store'[RefOf(i)].kc
      BY <1>2, Zenon DEF RcIs, StoredOf
    <3> QED  BY <1>b, <1>c, <1>f, <1>2, <3>1, Zenon DEF RenewInv, RcIs, Renewing
  <2>3. ASSUME NEW j \in Own PROVE InstanceOK(j)'
    BY <1>a, <1>b, <1>2, InstanceKept, Zenon
  <2> QED  BY <1>g, <2>1, <2>2, <2>3, Zenon DEF CredInv
<1>3. ASSUME UNCHANGED <<store, file, served, unsaved, unpushed>>, rc.pc = "renew", NEW kc, RcIs("add", rc.todo, rc.inst, rc.old, kc)
      PROVE  CredInv'
  <2>1. ShapeInv'
    BY <1>a, <1>b, <1>d, <1>e, <1>3, Zenon DEF ShapeInv, RcIs, Renewing
  <2>2. RenewInv'
    BY <1>a, <1>b, <1>g, <1>3, Zenon DEF RenewInv, RcIs, Renewing
  <2>3. ASSUME NEW j \in Own PROVE InstanceOK(j)'
    BY <1>a, <1>b, <1>3, InstanceKept, Zenon
  <2> QED  BY <1>g, <2>1, <2>2, <2>3, Zenon DEF CredInv
<1>4. ASSUME UNCHANGED <<file, served, unsaved, unpushed>>, rc.pc = "add",
             store' = [store EXCEPT ![RefOf(rc.inst)] = [kc |-> rc.kc, at |-> now]],
             RcIs(IF Unchanged THEN "next" ELSE "reload", rc.todo, rc.inst, rc.old, rc.kc)
      PROVE  CredInv'
  <2>1. PICK i \in Inst :
          /\ i = rc.inst /\ mnt[i].pc \in InMemory /\ RefOf(i) \in Ref
          /\ i \in Own => rc.old = IF store[RefOf(i)] = None THEN None ELSE store[RefOf(i)].kc
    BY <1>a, <1>d, <1>4, Zenon DEF Renewing, RenewInv
  <2>2. store'[RefOf(i)].kc = rc.kc /\ \A r \in Ref \ {RefOf(i)} : store'[r] = store[r]
    BY <1>a, <1>4, <2>1, Zenon DEF ShapeInv
  <2>3. rc'.pc \in {"next", "reload"} /\ rc'.inst = i /\ rc'.kc = rc.kc /\ rc'.todo = rc.todo
        /\ (rc'.pc = "next" <=> Unchanged)
    BY <1>4, <2>1, Zenon DEF RcIs
  <2>4. ShapeInv'
    BY <1>a, <1>b, <1>d, <1>e, <1>4, <2>1, <2>3, Zenon DEF ShapeInv, RcIs, Renewing
  <2>5. RenewInv'
    BY <1>a, <1>b, <2>1, <2>2, <2>3, Zenon DEF RenewInv, Renewing
  <2>6. ASSUME NEW j \in Own, j # i PROVE InstanceOK(j)'
    <3>1. store'[RefOf(j)] = store[RefOf(j)]
      BY <1>a, <2>1, <2>2, <2>6, Zenon
    <3> QED  BY <1>a, <1>b, <1>4, <2>6, <3>1, InstanceKept, Zenon
  <2>7. ASSUME i \in Own PROVE InstanceOK(i)'
    <3>1. InstanceOK(i)
      BY <1>a, <2>7, Zenon
    <3>2. mnt[i].pc \in {"mount", "send", "live"} /\ i \notin unsaved /\ Unchanged => SameSecret(file[i], rc.kc)
      <4>1. Unchanged => store[RefOf(i)] # None /\ SameSecret(store[RefOf(i)].kc, rc.kc)
        BY <2>1, <2>7 DEF Unchanged
      <4> QED  BY <1>4, <2>1, <3>1, <4>1, Zenon DEF InstanceOK, HasStored, SameSecret
    <3>3. mnt'[i].pc \in InMemory
      BY <1>b, <2>1, Zenon
    <3>4. ASSUME mnt'[i].pc \in {"mount", "send", "live"}, i \notin unsaved', ~(rc'.pc = "reload" /\ rc'.inst = i)
          PROVE  SameSecret(file'[i], store'[RefOf(i)].kc)
      BY <1>b, <1>4, <2>2, <2>3, <3>2, <3>4
    <3>5. /\ mnt'[i].pc = "send" /\ i \notin unpushed' => mnt'[i].kc = file'[i]
          /\ mnt'[i].pc = "live" /\ running' /\ i \notin unpushed' => served'[i] = file'[i]
      BY <1>b, <1>4, <3>1, Zenon DEF InstanceOK
    <3> QED  BY <1>b, <3>3, <3>4, <3>5, Zenon DEF InstanceOK, HasStored, InMemory
  <2> QED  BY <1>g, <2>4, <2>5, <2>6, <2>7, Zenon DEF CredInv
<1>5. ASSUME store' = store, rc.pc = "reload", Reloads,
             RcIs("next", rc.todo, rc.inst, rc.old, rc.kc)
      PROVE  CredInv'
  <2>1. PICK i \in Inst :
          i = rc.inst /\ mnt[i].pc \in InMemory /\ (i \in Own => store[RefOf(i)].kc = rc.kc)
    BY <1>a, <1>d, <1>5, Zenon DEF Renewing, RenewInv
  <2>2. /\ \A j \in Inst \ {i} : /\ file'[j] = file[j] /\ served'[j] = served[j]
                                /\ (j \in unsaved => j \in unsaved') /\ (j \in unpushed => j \in unpushed')
        /\ i \notin unsaved' => file'[i] = rc.kc
        /\ i \notin unpushed' => mnt[i].pc = "live" /\ file'[i] = rc.kc /\ served'[i] = rc.kc
    BY <1>a, <1>5, <2>1 DEF ShapeInv, Reloads
  <2>3. rc'.pc = "next" /\ rc'.todo = rc.todo
    BY <1>5, Zenon DEF RcIs
  <2>4. ShapeInv'
    BY <1>a, <1>b, <1>e, <1>5, <2>3, Zenon DEF ShapeInv, RcIs, Renewing
  <2>5. RenewInv'
    BY <1>b, <1>c, <1>f, <2>3, Zenon DEF RenewInv, Renewing
  <2>6. ASSUME NEW j \in Own, j # i PROVE InstanceOK(j)'
    BY <1>a, <1>b, <1>5, <2>1, <2>2, <2>6, InstanceKept
  <2>7. ASSUME i \in Own PROVE InstanceOK(i)'
    BY <1>b, <1>5, <2>1, <2>2, <2>7, Zenon DEF InstanceOK, HasStored, InMemory, SameSecret
  <2> QED  BY <1>g, <2>4, <2>5, <2>6, <2>7, Zenon DEF CredInv
<1>6. CASE /\ UNCHANGED <<store, file, served, unsaved, unpushed>> /\ rc.pc # "reload"
           /\ \E todo \in SUBSET Inst, pc \in {"list", "next", "evict", "idle"} :
                /\ \A i \in todo : i \in rc.todo \/ mnt[i].pc \in InMemory
                /\ \E inst, old, kc : RcIs(pc, todo, inst, old, kc)
  <2>1. PICK todo \in SUBSET Inst, pc \in {"list", "next", "evict", "idle"} :
          /\ \A i \in todo : i \in rc.todo \/ mnt[i].pc \in InMemory
          /\ \E inst, old, kc : RcIs(pc, todo, inst, old, kc)
    BY <1>6
  <2>2. PICK inst, old, kc : RcIs(pc, todo, inst, old, kc)
    BY <2>1
  <2>3. \A i \in todo : mnt[i].pc \in InMemory
    BY <1>c, <2>1
  <2> QED  BY <1>1, <1>6, <2>2, <2>3, Zenon
<1>7. CASE /\ UNCHANGED <<file, served, unsaved, unpushed>> /\ rc.pc = "evict"
           /\ \E r \in Ref : store' = [store EXCEPT ![r] = None]
           /\ RcIs("evict", rc.todo, rc.inst, rc.old, rc.kc)
  <2>1. rc.todo \in SUBSET Inst /\ rc.pc # "reload"
    BY <1>c, <1>7
  <2> QED  BY <1>1, <1>c, <1>7, <2>1, Zenon
<1> QED  BY <1>2, <1>3, <1>4, <1>5, <1>6, <1>7, Zenon DEF ReconcileDoes

\* The other steps keep it too: a nydusd that comes up reads the files.
LEMMA WorldStep ==
  ASSUME CredInv, World \/ UNCHANGED vars
  PROVE  CredInv'
<1>a. ShapeInv /\ RenewInv /\ \A j \in Own : InstanceOK(j)
  BY DEF CredInv
<1>1. CASE NydusdUp
  <2>1. /\ UNCHANGED <<scene, store, mnt, file, rc, unsaved>>
        /\ unpushed' = {i \in unpushed : mnt[i].pc # "live"}
        /\ served' = [i \in Inst |-> IF mnt[i].pc = "live" THEN file[i] ELSE served[i]]
    BY <1>1, Zenon DEF NydusdUp
  <2>2. ShapeInv' /\ RenewInv'
    BY <1>a, <2>1, Zenon DEF ShapeInv, RenewInv, RefOf, Own
  <2>3. ASSUME NEW j \in Own PROVE InstanceOK(j)'
    <3>1. j \in Inst /\ InstanceOK(j)
      BY <1>a DEF Own
    <3> QED  BY <2>1, <3>1 DEF InstanceOK, HasStored, RefOf
  <2>4. Own' = Own
    BY <2>1 DEF Own, RefOf
  <2> QED  BY <2>2, <2>3, <2>4, Zenon DEF CredInv
<1>2. CASE ~NydusdUp
  <2>1. UNCHANGED <<scene, store, mnt, file, served, rc, unsaved, unpushed>> /\ (running' => running)
    <3>1. CASE InitProviders \/ DockerLogin \/ NydusdDown \/ Passes
      BY <3>1 DEF InitProviders, DockerLogin, NydusdDown, Passes, pulls, history
    <3>2. CASE HandleEvent \/ \E s \in Secret : SecretChanges(s) \/ SecretDeleted(s)
      <4>1. SOnly
        BY <3>2, Zenon DEF HandleEvent, SecretChanges, SecretDeleted
      <4> QED  BY <4>1, Zenon DEF SOnly, pulls, history
    <3>3. CASE UNCHANGED vars
      BY <3>3, Zenon DEF vars, pulls, history
    <3> QED  BY <1>2, <3>1, <3>2, <3>3, Zenon DEF World
  <2>2. ShapeInv' /\ RenewInv'
    BY <1>a, <2>1, Zenon DEF ShapeInv, RenewInv, RefOf, Own
  <2>3. ASSUME NEW j \in Own PROVE InstanceOK(j)'
    BY <1>a, <2>1, InstanceKept
  <2>4. Own' = Own
    BY <2>1 DEF Own, RefOf
  <2> QED  BY <2>2, <2>3, <2>4, Zenon DEF CredInv
<1> QED  BY <1>1, <1>2

\* When no reconciliation is under way, the file of a mounted instance that is alone on its
\* image has the credential of the store, and so has a nydusd that runs, whatever the
\* providers answer, whenever nydusd restarts and whatever fails: but for an instance whose
\* last new credential could not be saved, or was not taken over by nydusd.
THEOREM CredentialsReloaded == Spec => []Reloaded
<1>1. Init => CredInv
  BY CredInit
<1>2. CredInv /\ [Next]_vars => CredInv'
  <2> SUFFICES ASSUME CredInv, [Next]_vars PROVE CredInv'
    OBVIOUS
  <2>1. ShapeInv
    BY DEF CredInv
  <2>2. CASE Mount
    BY <2>1, <2>2, MountEffect, MountStep, Zenon DEF Mount
  <2>3. CASE Reconcile
    BY <2>1, <2>3, ReconcileEffect, ReconcileStep, Zenon
  <2>4. CASE World \/ UNCHANGED vars
    BY <2>4, WorldStep, Zenon
  <2> QED  BY <2>2, <2>3, <2>4 DEF Next
<1>3. CredInv => Reloaded
  <2> SUFFICES ASSUME CredInv, NEW i \in Inst, rc.pc = "idle", mnt[i].pc = "live", i \notin unsaved,
                      \A j \in Inst \ {i} : RefOf(j) # RefOf(i), store[RefOf(i)] # None
               PROVE  /\ SameSecret(file[i], store[RefOf(i)].kc)
                      /\ running /\ i \notin unpushed => SameSecret(served[i], store[RefOf(i)].kc)
    BY DEF Reloaded
  <2>1. i \in Own
    BY DEF CredInv, RenewInv, InMemory, Own
  <2>2. InstanceOK(i)
    BY <2>1 DEF CredInv
  <2> QED  BY <2>2 DEF InstanceOK, HasStored
<1> QED  BY <1>1, <1>2, <1>3, PTL DEF Spec
=============================================================================
