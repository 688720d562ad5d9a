-------------------------- MODULE CredentialRenewal --------------------------
(***************************************************************************)
(* Registry credentials: the providers and their order (pkg/auth), the      *)
(* store of renewable credentials, the goroutine that renews them           *)
(* (snapshot/renewal.go), and the RAFS instances that use them.             *)
(*                                                                          *)
(* A Mount looks its image up in the store, then asks the providers; what   *)
(* it gets goes into the configuration file of the instance and from there  *)
(* to nydusd.  On every tick the renewal goroutine walks the instances of   *)
(* running daemons, asks the renewable providers again, reloads nydusd when *)
(* the credential changed, and evicts what no instance uses.                *)
(***************************************************************************)
EXTENDS KubeletProvider

CONSTANTS Inst,       \* snapshots that a RAFS instance is mounted for, or a layer is read for
          Secret,     \* dockerconfigjson secrets of the cluster
          Interval,   \* credential_renewal_interval
          Scenario,   \* the scenes Init chooses from
          MaxTime,    \* bound: the clock
          MaxGen      \* bound: changes of a stored credential, events on their way

\* A snapshot that a layer is read for is not one that was found mounted.
ASSUME ConstAssumption ==
  /\ IsFiniteSet(Secret) /\ MaxGen \in Nat
  /\ \A s \in Scenario : s.image \in [Inst -> Ref] /\ s.layers \cap s.recovered = {}

VARIABLES
  scene,      \* the providers set up and the events of this behaviour
  now,        \* the clock
  ready,      \* InitKubeSecretListener and InitKubeletProvider have run
  store,      \* renewalStore: ref -> [kc, at]
  mnt,        \* the Mount of each instance: where it is and the credential it holds
  file,       \* the credential in the configuration file of an instance
  served,     \* the credential nydusd uses for an instance (None: not mounted)
  running,    \* the daemon is RUNNING
  rc,         \* reconcileCredentials
  failed,     \* history: the images whose last renewal got no credential
  unsaved,    \* history: the instances whose last new credential is not in their file
  unpushed,   \* history: the instances whose last new credential nydusd has not taken
  next,       \* when the ticker fires next
  docker,     \* docker's config.json: generation of the login (0: none)
  cluster,    \* the secrets of the cluster: their generation (0: deleted)
  events,     \* events the informer has not delivered
  configs     \* KubeSecretListener.dockerConfigs

sources == <<docker, cluster, events, configs>>
pulls   == <<mnt, file, served>>
history == <<failed, unsaved, unpushed>>
vars    == <<scene, now, ready, cache, store, pulls, running, rc, next, history, sources>>

Op    == {"docker", "secret", "bad", "relist", "down", "umount", "api", "plugin", "slow"}
Phase == {"none", "fetch", "add", "dump", "mount", "send", "live", "gone"}
Idle  == [pc |-> "idle", todo |-> {}, live |-> {}, inst |-> None, old |-> None, kc |-> None, stale |-> {}]
NoPull == [pc |-> "none", kc |-> None]

Login(by, gen) == [by |-> by, glob |-> None, gen |-> gen, exp |-> None]
IsKeychain(kc) == kc # None /\ DOMAIN kc = {"by", "glob", "gen", "exp"} /\ kc.gen \in 0..now + MaxGen
RefOf(i) == scene.image[i]
Grace    == Interval \div 2

Expired(kc) == kc.exp # None /\ now >= kc.exp

\* PassKeyChain.TokenBase: the user name is empty.  Docker and the secrets give both names.
TokenBase(kc) == kc.by \in scene.tokens

\* PassKeyChain.ToBase64 compared: the login and the secret, not the expiry.
SameSecret(a, b) == a.by = b.by /\ a.glob = b.glob /\ a.gen = b.gen

TypeOK ==
  /\ scene \in Scenario
  /\ now \in 0..MaxTime /\ next \in 0..MaxTime + Interval
  /\ ready \in BOOLEAN /\ running \in BOOLEAN
  /\ \A r \in Ref : store[r] # None => IsKeychain(store[r].kc) /\ store[r].at \in 0..now
  /\ \A i \in Inst : /\ mnt[i].pc \in Phase
                     /\ \A kc \in {mnt[i].kc, file[i], served[i]} \ {None} : IsKeychain(kc)
  /\ rc.todo \cup rc.live \subseteq Inst /\ rc.stale \subseteq Ref
  /\ docker \in 0..MaxGen /\ cluster \in [Secret -> 0..MaxGen]
  /\ configs \in [Secret -> 0..MaxGen]
  /\ failed \subseteq Ref /\ unsaved \cup unpushed \subseteq Inst

Init ==
  /\ scene \in Scenario
  /\ NewKubeletProvider(scene.plugins) \/ scene.plugins = <<>>
  /\ now = 0 /\ ready = FALSE /\ next = Interval
  /\ cache = [k \in CacheKey |-> None]
  /\ store = [r \in Ref |-> None]
  \* Instances that Manager.Recover found: nydusd has what the file says.
  /\ mnt = [i \in Inst |-> [NoPull EXCEPT !.pc = IF i \in scene.recovered THEN "live" ELSE "none"]]
  /\ file = [i \in Inst |-> IF i \in scene.recovered THEN Login("boot", 0) ELSE None]
  /\ served = file
  /\ running = TRUE
  /\ rc = [Idle EXCEPT !.pc = "list"]
  /\ docker = scene.docker
  /\ cluster = [s \in Secret |-> IF s \in scene.secrets THEN 1 ELSE 0] /\ events = <<>>
  /\ configs = [s \in Secret |-> 0]
  /\ failed = {} /\ unsaved = {} /\ unpushed = {}

----------------------------------------------------------------------------
\* Providers.  Each answers a keychain or None.

LabelsCredentials(i) == IF i \in scene.labels THEN Login("labels", 0) ELSE None

\* CRI keeps the credentials of the pull requests it has seen (external).
CRICredentials(r) == IF r \in scene.cri THEN Login("cri", 0) ELSE None

DockerCredentials == IF docker > 0 THEN Login("docker", docker) ELSE None

\* GetCredentialsStore: any configuration with a login for the host (a Go map's order).
KubeSecretCredentials ==
  LET found == {s \in Secret : configs[s] > 0}
  IN  IF ~ready \/ found = {} THEN {None} ELSE {Login(s, configs[s]) : s \in found}

RenewableProviders(r, answering, validUntil) ==
  LET kubelet == IF ready THEN KubeletCredentials(scene.plugins, answering, r, now, validUntil)
                 ELSE [kc |-> None, cache |-> cache]
  IN  IF DockerCredentials # None THEN {[kc |-> DockerCredentials, cache |-> cache]}
      ELSE IF kubelet.kc # None THEN {kubelet}
      ELSE {[kc |-> kc, cache |-> kubelet.cache] : kc \in KubeSecretCredentials}

\* The plugins that answer: all of them, unless the scene lets them fail.
Answering ==
  LET all == {scene.plugins[k] : k \in 1..Len(scene.plugins)}
  IN  IF "plugin" \in scene.ops THEN SUBSET all ELSE {all}

Add(r, kc) ==
  /\ store' = [store EXCEPT ![r] = [kc |-> kc, at |-> now]]
  /\ failed' = failed \ {r}

----------------------------------------------------------------------------
\* Mount.  SupplementDaemonConfig asks for the credential of the image.

MOnly == UNCHANGED <<scene, now, ready, running, rc, next, unsaved, sources>>

\* GetRegistryKeyChain, from the store.
MountLookup(i) ==
  /\ mnt[i].pc = "none" /\ i \notin scene.recovered
  /\ mnt' = [mnt EXCEPT ![i] = IF store[RefOf(i)] # None
                               THEN [pc |-> "dump", kc |-> store[RefOf(i)].kc]
                               ELSE [@ EXCEPT !.pc = "fetch"]]
  /\ UNCHANGED <<file, served, cache, store, failed, unpushed>> /\ MOnly

\* fetchFromProviders: labels and CRI come first and are not renewable.
MountFetch(i) ==
  LET direct == IF LabelsCredentials(i) # None THEN LabelsCredentials(i) ELSE CRICredentials(RefOf(i))
  IN  /\ mnt[i].pc = "fetch"
      /\ IF direct # None
         THEN mnt' = [mnt EXCEPT ![i] = [pc |-> "dump", kc |-> direct]] /\ UNCHANGED cache
         ELSE \E a \in Answering : \E got \in RenewableProviders(RefOf(i), a, now + Interval) :
                /\ mnt' = [mnt EXCEPT ![i] = [pc |-> IF got.kc = None THEN "dump" ELSE "add", kc |-> got.kc]]
                /\ cache' = got.cache
      /\ UNCHANGED <<file, served, store, failed, unpushed>> /\ MOnly

MountAdd(i) ==
  /\ mnt[i].pc = "add"
  /\ Add(RefOf(i), mnt[i].kc)
  /\ mnt' = [mnt EXCEPT ![i].pc = "dump"]
  /\ UNCHANGED <<file, served, cache, unpushed>> /\ MOnly

\* A layer is read from the registry and nothing is mounted (Resolver.Resolve, the index,
\* referrer and tarfs managers).
PullLayer(i) ==
  /\ mnt[i].pc = "dump" /\ i \in scene.layers
  /\ mnt' = [mnt EXCEPT ![i] = NoPull]
  /\ UNCHANGED <<file, served, cache, store, failed, unpushed>> /\ MOnly

\* FillAuth, DumpFile and AddRafsInstance.
MountDump(i) ==
  /\ mnt[i].pc = "dump" /\ i \notin scene.layers
  /\ file' = [file EXCEPT ![i] = mnt[i].kc]
  /\ mnt' = [mnt EXCEPT ![i] = [NoPull EXCEPT !.pc = "mount"]]
  /\ UNCHANGED <<served, cache, store, failed, unpushed>> /\ MOnly

\* SharedMount: the configuration file is read, ...
ReadConfig(i) ==
  /\ mnt[i].pc = "mount"
  /\ mnt' = [mnt EXCEPT ![i] = [pc |-> "send", kc |-> file[i]]]
  /\ unpushed' = unpushed \ {i}
  /\ UNCHANGED <<file, served, cache, store, failed>> /\ MOnly

\* ... and sent to nydusd.
MountNydusd(i) ==
  /\ mnt[i].pc = "send" /\ running
  /\ served' = [served EXCEPT ![i] = mnt[i].kc]
  /\ mnt' = [mnt EXCEPT ![i] = [NoPull EXCEPT !.pc = "live"]]
  /\ UNCHANGED <<file, cache, store, failed, unpushed>> /\ MOnly

\* The snapshot is removed; its ID is not used again.
Umount(i) ==
  /\ "umount" \in scene.ops /\ mnt[i].pc = "live"
  /\ mnt' = [mnt EXCEPT ![i].pc = "gone"]
  /\ served' = [served EXCEPT ![i] = None]
  /\ UNCHANGED <<file, cache, store, failed, unpushed>> /\ MOnly

----------------------------------------------------------------------------
\* reconcileCredentials.

ROnly == UNCHANGED <<scene, now, running, mnt, sources>>

Stored == {s \in Secret : cluster[s] > 0}
SecretEvent(type, s, gen) == [type |-> type, secret |-> s, gen |-> gen]

\* The first call comes from startCredentialRenewal; then InitKubeSecretListener and
\* InitKubeletProvider run, and the ticker starts the others.  The informer lists the
\* secrets in any order.
InitProviders ==
  /\ ~ready /\ rc.pc = "idle"
  /\ ready' = TRUE
  /\ \E order \in Bijection(1..Cardinality(Stored), Stored) :
       events' = [k \in 1..Cardinality(Stored) |-> SecretEvent("add", order[k], cluster[order[k]])]
  /\ UNCHANGED <<scene, now, cache, store, pulls, running, rc, next, history, docker, cluster, configs>>

Ticks ==
  /\ rc.pc = "idle" /\ ready /\ now >= next
  /\ rc' = [Idle EXCEPT !.pc = "list"]
  /\ next' = next + Interval
  /\ UNCHANGED <<ready, cache, store, file, served, history>> /\ ROnly

\* ListDaemons, State and RafsCache.List.
ListInstances ==
  LET cached == {i \in Inst : mnt[i].pc \in {"mount", "send", "live"}}
  IN  /\ rc.pc = "list"
      /\ rc' = [rc EXCEPT !.pc = "next", !.todo = IF running THEN cached ELSE {}]
      /\ UNCHANGED <<ready, cache, store, file, served, next, history>> /\ ROnly

\* GetStoredCredential, before the renewal.
ReadOld(i) ==
  /\ rc.pc = "next" /\ i \in rc.todo
  /\ rc' = [rc EXCEPT !.pc = "renew", !.inst = i, !.todo = @ \ {i}, !.live = @ \cup {i},
                      !.old = IF store[RefOf(i)] = None THEN None ELSE store[RefOf(i)].kc]
  /\ UNCHANGED <<ready, cache, store, file, served, next, history>> /\ ROnly

\* RenewCredential: no labels, no CRI.  When no provider answers, the entry stays.
RenewCredential ==
  /\ rc.pc = "renew"
  /\ \E a \in Answering : \E got \in RenewableProviders(RefOf(rc.inst), a, now + Interval) :
       /\ cache' = got.cache
       /\ rc' = [rc EXCEPT !.pc = IF got.kc = None THEN "next" ELSE "add", !.kc = got.kc]
       /\ failed' = IF got.kc = None THEN failed \cup {RefOf(rc.inst)} ELSE failed
  /\ UNCHANGED <<ready, store, file, served, next, unsaved, unpushed>> /\ ROnly

\* Mutant: any renewed credential counts as the old one.
Unchanged_Anything == rc.old # None

\* The reload is skipped when the store had this secret already.
Unchanged == rc.old # None /\ SameSecret(rc.old, rc.kc)

RenewAdd ==
  /\ rc.pc = "add"
  /\ Add(RefOf(rc.inst), rc.kc)
  /\ rc' = [rc EXCEPT !.pc = IF Unchanged THEN "next" ELSE "reload"]
  /\ UNCHANGED <<ready, cache, file, served, next, unsaved, unpushed>> /\ ROnly

\* UpdateAuthConfig: the file and, but for a bearer token, the API of nydusd, which has to
\* know the instance.  An error of either is only logged.
UpdateAuthConfig ==
  LET i == rc.inst
  IN  /\ rc.pc = "reload"
      /\ \E saved, works \in IF "api" \in scene.ops THEN BOOLEAN ELSE {TRUE} :
           LET pushed == saved /\ works /\ ~TokenBase(rc.kc) /\ running /\ mnt[i].pc = "live"
           IN  /\ file' = IF saved THEN [file EXCEPT ![i] = rc.kc] ELSE file
               /\ served' = IF pushed THEN [served EXCEPT ![i] = rc.kc] ELSE served
               /\ unsaved' = IF saved THEN unsaved \ {i} ELSE unsaved \cup {i}
               /\ unpushed' = IF pushed THEN unpushed \ {i} ELSE unpushed \cup {i}
      /\ rc' = [rc EXCEPT !.pc = "next"]
      /\ UNCHANGED <<ready, cache, store, next, failed>> /\ ROnly

\* Mutant: nothing is evicted.
EvictStale_Never(r) == FALSE

\* EvictStaleCredentials: not live, and not added within half an interval.
EvictStale(r) ==
  /\ store[r] # None /\ now - store[r].at >= Grace
  /\ \A i \in rc.live : RefOf(i) # r

\* Entries is a snapshot; each entry is removed under the lock of its own.
ListStale ==
  /\ rc.pc = "next" /\ rc.todo = {}
  /\ rc' = [rc EXCEPT !.pc = "evict", !.stale = {r \in Ref : EvictStale(r)}]
  /\ UNCHANGED <<ready, cache, store, file, served, next, history>> /\ ROnly

RemoveEntry(r) ==
  /\ rc.pc = "evict" /\ r \in rc.stale
  /\ store' = [store EXCEPT ![r] = None]
  /\ rc' = [rc EXCEPT !.stale = @ \ {r}]
  /\ UNCHANGED <<ready, cache, file, served, next, history>> /\ ROnly

Reconciled ==
  /\ rc.pc = "evict" /\ rc.stale = {}
  /\ rc' = Idle
  /\ UNCHANGED <<ready, cache, store, file, served, next, history>> /\ ROnly

----------------------------------------------------------------------------
\* The secrets of the cluster and the informer that follows them.

SOnly == UNCHANGED <<scene, now, ready, cache, store, pulls, running, rc, next, history, docker>>

\* A secret is created or changed (external).  "bad": its data does not parse.
SecretChanges(s) ==
  /\ "secret" \in scene.ops /\ cluster[s] < MaxGen /\ Len(events) < MaxGen
  /\ cluster' = [cluster EXCEPT ![s] = @ + 1]
  /\ \E type \in IF "bad" \in scene.ops THEN {"set", "bad"} ELSE {"set"} :
       events' = IF ready THEN Append(events, SecretEvent(type, s, cluster[s] + 1)) ELSE events
  /\ UNCHANGED configs /\ SOnly

\* A secret is deleted (external).  A deletion the watch missed, found when the informer
\* lists the secrets again, is delivered as a tombstone.
SecretDeleted(s) ==
  /\ "secret" \in scene.ops /\ cluster[s] > 0 /\ Len(events) < MaxGen
  /\ cluster' = [cluster EXCEPT ![s] = 0]
  /\ \E type \in IF "relist" \in scene.ops THEN {"delete", "tombstone"} ELSE {"delete"} :
       events' = IF ready THEN Append(events, SecretEvent(type, s, 0)) ELSE events
  /\ UNCHANGED configs /\ SOnly

\* Mutant: a secret that is known is not updated.
AddDockerConfig_Once(e) == IF configs[e.secret] = 0 THEN [configs EXCEPT ![e.secret] = e.gen] ELSE configs

\* addDockerConfig: data that does not parse leaves the old configuration.
AddDockerConfig(e) == IF e.type = "bad" THEN configs ELSE [configs EXCEPT ![e.secret] = e.gen]

\* MetaNamespaceKeyFunc has no key for a tombstone: the configuration of "" is deleted.
DeleteDockerConfig(e) == IF e.type = "tombstone" THEN configs ELSE [configs EXCEPT ![e.secret] = 0]

HandleEvent ==
  LET e == Head(events)
  IN  /\ events # <<>>
      /\ events' = Tail(events)
      /\ configs' = IF e.type \in {"add", "set", "bad"} THEN AddDockerConfig(e) ELSE DeleteDockerConfig(e)
      /\ UNCHANGED cluster /\ SOnly

----------------------------------------------------------------------------
\* The rest of the world.

\* Somebody logs in to or out of the registry with docker (external).
DockerLogin ==
  /\ "docker" \in scene.ops /\ docker < MaxGen
  /\ docker' = docker + 1
  /\ UNCHANGED <<scene, now, ready, cache, store, pulls, running, rc, next, history, cluster, events, configs>>

\* Nydusd dies and is started again: its instances get what their files say.
NydusdDown ==
  /\ "down" \in scene.ops /\ running
  /\ running' = FALSE
  /\ UNCHANGED <<scene, now, ready, cache, store, pulls, rc, next, history, sources>>

NydusdUp ==
  /\ ~running
  /\ running' = TRUE
  /\ served' = [i \in Inst |-> IF mnt[i].pc = "live" THEN file[i] ELSE served[i]]
  /\ unpushed' = {i \in unpushed : mnt[i].pc # "live"}
  /\ UNCHANGED <<scene, now, ready, cache, store, mnt, file, rc, next, failed, unsaved, sources>>

\* Time passes.  The ticker is not late, and unless the scene has slow calls neither a
\* reconciliation nor a provider takes time.
Passes ==
  /\ now < MaxTime /\ ready /\ (now < next \/ rc.pc # "idle")
  /\ "slow" \in scene.ops \/ (rc.pc = "idle" /\ \A i \in Inst : mnt[i].pc \notin {"fetch", "add"})
  /\ now' = now + 1
  /\ UNCHANGED <<scene, ready, cache, store, pulls, running, rc, next, history, sources>>

Mount == \E i \in Inst :
  \/ MountLookup(i) \/ MountFetch(i) \/ MountAdd(i) \/ PullLayer(i) \/ MountDump(i)
  \/ ReadConfig(i) \/ MountNydusd(i) \/ Umount(i)

Reconcile ==
  \/ Ticks \/ ListInstances \/ (\E i \in Inst : ReadOld(i)) \/ RenewCredential \/ RenewAdd
  \/ UpdateAuthConfig \/ ListStale \/ (\E r \in Ref : RemoveEntry(r)) \/ Reconciled

World ==
  \/ InitProviders \/ DockerLogin \/ NydusdDown \/ NydusdUp \/ Passes \/ HandleEvent
  \/ \E s \in Secret : SecretChanges(s) \/ SecretDeleted(s)

Next == Mount \/ Reconcile \/ World

Spec == Init /\ [][Next]_vars

----------------------------------------------------------------------------
\* Properties.

\* Between two reconciliations no mounted instance is left with a credential that was
\* replaced: the file of an instance that is alone on its image has the one of the store, if
\* the last new one could be saved, and so has a nydusd that runs, if it could take that one
\* over, which it does of no bearer token, or was given the file since
\* (reconcileCredentials, UpdateAuthConfig).  The next tick does not make up for a failure,
\* nor does it reload a second instance of the image.
Reloaded ==
  \A i \in Inst :
    (/\ rc.pc = "idle" /\ mnt[i].pc = "live" /\ i \notin unsaved
     /\ \A j \in Inst \ {i} : RefOf(j) # RefOf(i)) =>
      IF store[RefOf(i)] = None THEN TRUE
      ELSE /\ SameSecret(file[i], store[RefOf(i)].kc)
           /\ running /\ i \notin unpushed => SameSecret(served[i], store[RefOf(i)].kc)

\* A pull that is given an expired credential has it from the store, where either a renewal
\* that failed left it or it was put with less than an interval and a half to live: what no
\* instance uses is evicted before that, what one uses is renewed
\* (getRegistryKeyChainFromProviders, RenewCredential, EvictStaleCredentials).
NoExpired ==
  [][\A i \in Inst :
       IF mnt[i].pc \in {"none", "fetch"} /\ mnt'[i].kc # None
       THEN Expired(mnt'[i].kc) =>
              /\ mnt[i].pc = "none"
              /\ RefOf(i) \in failed \/ mnt'[i].kc.exp < store[RefOf(i)].at + Interval + Grace
       ELSE TRUE]_vars

\* The cache has nothing that getCachedCredential would return for the image.
NothingCached(r) ==
  \A k \in {r, ParseRegistry(r), Global} : IF cache[k] = None THEN TRUE ELSE cache[k].exp <= now + Interval

\* A plugin keeps to the kind of key it answers: images with one key get one answer.
KeepsToKey(p) ==
  \A r, s \in Ref : ComputeCacheKey(p.key, r) = ComputeCacheKey(p.key, s) => p.auth[r] = p.auth[s]

\* The keychain of a plugin that a pull gets is one that asking the plugins now would give,
\* for a glob that covers no other that matches the image: the most specific, from the first
\* plugin that has it.  A cached one is as good when one plugin only is there for the image,
\* and keeps to its key; of several, the last to answer has the cache
\* (KubeletProvider.GetCredentials).
BestCredential ==
  [][\A i \in Inst :
       LET r       == RefOf(i)
           allowed == {k \in 1..Len(scene.plugins) : IsImageAllowed(scene.plugins[k], UrlOf[r])}
       IN  IF /\ mnt[i].pc = "fetch" /\ mnt'[i].pc = "add" /\ mnt'[i].kc.glob # None
              /\ NothingCached(r) \/ (\E k \in allowed : allowed = {k} /\ KeepsToKey(scene.plugins[k]))
           THEN \E a \in Answering :
                  LET got      == mnt'[i].kc
                      asked    == RunPlugins(scene.plugins, a, r, cache, now).all
                      matching == {g \in DOMAIN asked : UrlsMatch(g, UrlOf[r])}
                  IN  /\ got.glob \in matching /\ got.by = asked[got.glob].by
                      /\ \A g \in matching \ {got.glob} : ~UrlsMatch(got.glob, g)
           ELSE TRUE]_vars

\* Once the informer has delivered its events the listener has the configurations of the
\* secrets that exist, as they are now, and of no other (SyncKubeSecrets).
FollowsSecrets == (ready /\ events = <<>>) => configs = cluster
=============================================================================
