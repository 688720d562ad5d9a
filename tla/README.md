# nydus-snapshotter in TLA+

A model of nydus-snapshotter, the containerd snapshotter that mounts container
images lazily through nydusd, kept beside its code. It covers the parts where
requests, goroutines, processes, registries and crashes meet.

## The system

* **Snapshotter** (`snapshot/`): containerd's gRPC calls. Snapshot metadata lives in a bolt
  database with transactions (containerd's `storage` package), data in one directory for
  each snapshot. `process.go` chooses what Prepare does with a layer; a layer may be OCI,
  nydus, estargz, tarfs, pulled in the guest, or have a nydus alternative at the registry.
* **Filesystem, manager, daemon, store** (`pkg/filesystem`, `pkg/manager`, `pkg/daemon`,
  `pkg/store`): RAFS instances, the nydusd that serve them, their records and recovery.
* **Monitor and supervisor** (`pkg/manager/monitor.go`, `pkg/supervisor`): notice the death of a
  nydusd, and keep its state for the next one.
* **Tarfs** (`pkg/tarfs`): OCI layers turned into EROFS block devices.
* **Cache and overlay helper** (`pkg/cache`, `cmd/nydus-overlayfs`).
* **Auth** (`pkg/auth`, `snapshot/renewal.go`): where credentials come from, and their renewal.
* **Registry client** (`pkg/remote`): resolve, fetch, push.
* **Converter** (`pkg/converter`): images between OCI and nydus.

`components` in PROJECT.json lists each part with its status.

## Modules

| module | models | code |
|---|---|---|
| `SnapshotStore` | snapshots, IDs, directories, transactions, cleanup | `snapshot/snapshot.go` |
| `SnapshotStoreProofs` | theorems about `SnapshotStore` | |
| `RafsCallProofs`, `RafsOrderlyProofs`, `RafsLifecycleProofs` | theorems about `RafsLifecycle`: the steps of a call, those of an orderly run, the results; each extends the one before | |
| `TarfsCallProofs`, `TarfsLayersProofs` | theorems about `TarfsLayers`: calls and statuses; devices, promise and files | |
| `CredentialProofs` | theorems about `CredentialRenewal` | |
| `RegistryProofs` | theorems about `RegistryClient` | |
| `SnapshotMounts` | how an image becomes a root file system | `snapshot/process.go`, `snapshot.go`, `mount_option.go`, `pkg/referrer`, `pkg/index` |
| `BlobCache`, `OverlayHelper` | the cached blobs, the mount helper; parts of `SnapshotMounts` | `pkg/cache`, `cmd/nydus-overlayfs` |
| `RafsLifecycle` | instances, reference counts, records, restart, Close | `pkg/filesystem/fs.go`, `pkg/manager/manager.go` |
| `LivenessMonitor`, `Supervisor` | epoll and the death channel; saved states | `pkg/manager/monitor.go`, `pkg/supervisor` |
| `DaemonRecovery` | start, death, restart, failover, upgrade; composes the two above | `pkg/manager`, `pkg/daemon`, `pkg/system` |
| `TarfsPromise` | what the tarfs manager promises | |
| `TarfsLayers` | conversion, merge, export, mount, removal; implements `TarfsPromise` | `pkg/tarfs` |
| `KubeletProvider` | credential plugins, their cache and matching | `pkg/auth/kubelet.go` |
| `CredentialRenewal` | all providers, the store and its renewal; extends it | `pkg/auth`, `snapshot/renewal.go` |
| `RegistryAuth`, `RegistryPull`, `RegistryPush` | requests and tokens; resolve and fetch; push: each extends the one before | `pkg/remote/remotes/docker` |
| `RegistryClient` | callers and registries around them | |
| `PackPipeline` | goroutines, pipes and fifos of one layer's conversion | `pkg/converter` |
| `ImageConversion` | layers, merge, manifest and the way back; extends it | `pkg/converter` |

`MC…` modules hold the instances for TLC. Definitions named `X_Y`, where `X` is a
definition of the model, are mutants: `X` with a plausible bug, which TLC must catch.

**SnapshotStore.** `snaps` (the metastore), `seq`, `tx` (holder of the write transaction),
`dirs`, `tmp`, `rafs`, `req` (each request). A create is split at begin, rename, commit;
Cleanup lists inside a transaction and deletes after it; a placeholder parent is looked
up in one transaction and made in another. containerd's storage package
is external: write transactions exclude each other, an uncommitted one gives its ID back.

**RafsLifecycle.** Four views of one fact, which daemon serves which instance: `rafs`
(RafsGlobalCache), `insts` and `ref` (a daemon's cache and count), `dbDaemons` and `dbInst`
(database), `procs` and `served` (nydusd). Mount, Umount, DestroyDaemon and Close are
split at every call that another goroutine or a crash can separate. `mode` is the
configuration of a behaviour: shared or dedicated daemons, the calls that may fail, and
`races`, what containerd does not do of itself (unmount twice, call during Close).
NewFileSystem is one step: its goroutines each work on one daemon, before any request is
served, and a crash among them is a recovery in which the rest failed, then a crash.

**DaemonRecovery.** Daemon objects, processes, API sockets, records; a goroutine of StartDaemon
(`starter`), recoveries (`rec`), mounts (`mnt`), a destroyer and an upgrade. The monitor
identifies a connection by a descriptor that is handed out again; the supervisor has
one socket path for fetching and for offering a state. `scene` chooses what happens
beside a death; its `races` let two of these overlap. A nydusd that a snapshotter which has
died had started is no child of the new one, and waiting for it fails at once; a
subscription whose epoll calls fail is taken for made, as in the code.

**TarfsLayers.** `present` and `st` are snapshotMap and its status objects, `wg` the wait
groups, `conv` the conversion goroutines, `task` the Prepare calls, `tmp`/`file`/`fd` the files
(a writer follows its open file over renames), `loops` the kernel's devices. The refinement
mapping to `TarfsPromise` takes the status of a layer in the map, and the images mounted.

**SnapshotMounts.** A layer's content is its name; a mount is resolved to the sequence of
layers it shows (`told` for Prepare and View, `again` for Mounts), with the `gaps` that excuse
it if it shows others. An instance remembers how its mount went (`failed`, `torn`) and whether
a Cleanup saw its files (`underlying`, `saved`, `exposed`). Labels are sets of the labels the
code tests. The options for Kata are records of what each volume refers to. Paths of the
helper are sequences of names: cutting a common prefix of characters back to its last slash,
as the code does, gives the common prefix of names.

**CredentialRenewal.** Time is a counter; a credential has an issuer, a glob, a generation and
an expiry. Mounts, pulls of layers and the renewal goroutine are split at each access of
the shared store and of nydusd. `failed`, `unsaved` and `unpushed` record renewals that failed,
credentials that could not be saved, and those a running nydusd did not take over.

**Registry modules.** Content is `Size` numbered bytes. A request is a small machine (authorize,
send, answer, retry); the registry is external and answers as the scene says, with a
`budget` of failures. The writer, the goroutine and the transport of a push are separate.

**PackPipeline, ImageConversion.** Data is counted in chunks, a digest is the content it stands
for. Every goroutine of Pack, packFromTar, packFromDirectory and Unpack is a state of `job`;
a writer of the content store that failed is resumed, with the data it holds, by the next.

## Runs

| run | kind | shows |
|---|---|---|
| `snapshot_concurrent` | safety | no directory in use is deleted: two requests, nothing failing |
| `snapshot_recovery` | safety, liveness | crashes and failing commits, umounts, unlinks: one orphan ahead at most, and orphans are reclaimed |
| `rafs` | safety | four modes: reference counts, destruction of unused daemons only, no dangling record, records are served; no daemon without an instance after a rolled-back Mount |
| `rafs_mount_error` | violation | Mount drops the error of the mount call |
| `daemons` | safety | nine scenes with one death: one nydusd serves a daemon, no mount is lost, no false death |
| `daemons_live` | liveness | fetches end if nydusd sends, the first watched daemon to die is replaced if no call fails |
| `tarfs` | safety, liveness, refinement | one fault or crash anywhere: files complete before use, no device leaked unless its detach failed, waits end, the promise is kept |
| `credentials` | safety | renewal reaches nydusd, secrets are followed, an expired credential comes from the store only, the most specific keychain wins |
| `registry` | safety, liveness | one token job, bytes in order, trusted descriptors, committed is stored, every call ends |
| `converter` | safety, liveness | failures are reported but for those of `Unseen`, manifests are whole, round trip, every conversion ends or is `Deadlocked` |
| `converter_truncated` | violation | a builder that fails late is taken for success |
| `mounts` | safety | in 25 scenes every root file system shows its layers unless it has one of the `gaps`, Mounts agrees, bootstraps and used blobs stay, the helper is exact |

A scene is a configuration with its workload and the faults it may meet; Init picks
one of a set. This keeps each run small while the runs together fire every action.

**Bounds.** `snapshot_*`: two keys, two requests and three IDs let one request list what
another creates and an ID be handed out twice. `rafs`: two snapshots, two goroutines and
Close; five daemon IDs are the most that the faults and crashes use (deadlock would show a
sixth). `daemons`: three processes (the first, its successor, an upgrade or second daemon), two descriptors so that
one is reused, a channel of one so that it fills. `tarfs`: two stacked layers and two calls
are enough for one to wait for the other's conversion. `credentials`: two renewal
intervals, so that a credential expires between ticks and after the second one. `registry`:
two bytes, two hosts, two callers; that no request is retried after its sixth response is the code's own bound.
`converter`: sources of three chunks against fifos of one, so that writers block. `mounts`:
images of up to three layers with up to two containers and two views, a number of IDs and
of Cleanup scans for each scene. The passing runs reach from 14,740 (`daemons_live`) to about
1.4 million (`mounts`) distinct states.

**Deadlock** is checked in the `snapshot_*` and `rafs*` runs. In the others a workload is
finite, so a finished behaviour stops; in `daemons_live`, `tarfs`, `registry` and `converter` liveness
properties say what must have happened by then, in `daemons`, `credentials` and `mounts` nothing does.

**Fairness.** Weak fairness of each goroutine's own steps: the Go scheduler and the kernel run
what can run. In `snapshot_recovery` steps are strongly fair, since a goroutine that waits for
the write transaction gets it in turn, and Cleanup is asked for again and again, as
containerd's garbage collector does. In `registry` an answer is fair, its success is not;
`tarfs` assumes nothing of containerd's calls; nydusd's own steps in `daemons_live` are fair
because its process is scheduled, while deaths, faults and lost answers are never forced.

## Conditions in the properties

A passing run is a statement about the scenes, faults and races it lets happen. Where
the code keeps a property under a condition only, the condition is in the property or in
the choice of scenes; both are restrictions, and what fails outside them is listed below.

In the property:

* `RefCountExact`, `DestroyedUnused`, `NoDanglingInstance`: for `Orderly` modes (each instance
  unmounted once, no calls during Close, the database deletes, no nydusd still starting at
  a restart). `DaemonsInUse`: also before any crash and without a failing configuration file
  or mount call. `PersistedIsServed`: unless a recovery gives up half-way.
* `FetchEnds`: as long as nydusd sends when told to. `Recovered`: if no call fails.
  `NoLostMount`: if none failed that may cost instances or states.
* `DevicesOwned`, `MountedComplete`: except for a snapshot whose DetachLayer failed and, for
  devices, a snapshotter that died. `ReadyHasFiles`: the tar file is complete unless its digest
  did not match. `WaitEnds`: except for layers whose blob stream could not be opened.
* `Reloaded`: for an instance alone on its image whose last new credential could be saved;
  nydusd has it unless it was down, refused it, or it is a bearer token, until it starts again.
  `NoExpired`: except from the store, after a failed renewal or when put there with less than
  an interval and a half to live. `BestCredential`: when nothing is cached, or one plugin is
  there for the image and gives one answer to each of its keys.
* `ResolvedIsServed`: unless the error page of a GET was described (`page`). `CallsEnd`: unless a
  failed request leaves its writer in the pipe (`Stranded`).
* `FailuresReported`, `ManifestWhole`, `RoundTrip`: but for `Unseen` failures; the last two also for
  resumed writers and repeated layers, `RoundTrip` without backend and dictionary.
  `ConversionEnds`: unless a Close waits for ever (`Deadlocked`).
* `RootfsExact`: for answers without `gaps`. `MountsAgree`: where Mounts has a case, the
  alternative was found both times and the mount's error was not dropped. `BootstrapIntact`:
  not for a file fetched twice at once or mounted in part. `UsedKept`: not for an instance
  mounted while a Cleanup deletes or whose files were not on record when it looked.
  `BitmapHasData`: not for a blob that a mount beside the Cleanup brought back.

Each of these conditions is needed: without it (without `Orderly` as a whole, and the three
others of `DaemonsInUse` together) TLC finds a behaviour of the same run that violates the
property.

In the scenes: `snapshot_concurrent` has no faults and `snapshot_recovery` one request at a
time; `rafs` serves no request beside Close; `daemons` leaves out the overlaps of `Overlapping`
(`MCDaemonRecovery`), `daemons_live` a mount beside a failover; `tarfs` prepares one container of
an image at a time, and its layers have blobs of their own; in `credentials` neither a
reconciliation nor a provider takes time (op `slow`), and every event about a secret arrives
and parses; `registry` has no provider that fails, no Seek on a reader of FetchByDigest and
no two hosts with different manifests that are too large for one; `converter` takes no
image with references to OCI layers back.

## Findings

* `rafs_mount_error` (`pkg/filesystem/fs.go:498`): Mount returns nil when mountRemote has failed.
  The rollback is not run, and the next Mount takes the instance for mounted.
* `converter_truncated` (`pkg/converter/convert_unix.go:534`): when the builder fails after its
  input was copied, the writer is closed without the error and Close reports success.

### Known disagreements

Each was met while modelling; TLC refutes the property with the constants given, or
without the condition given, which the passing run's scenes reach.

| where | what | property and constants |
|---|---|---|
| `snapshot.go:697` | Remove with sync_remove deletes directories though its commit failed | `DeletesOnlyOrphans`, `DirOfSnapshot`; `SyncRemove = TRUE`, `Faults = {"commit"}`, `MaxFault = 1` |
| `snapshot.go:333` | Cleanup deletes the directory of a new snapshot that got the ID of an orphan | `DeletesOnlyOrphans`, `DirOfSnapshot`; two requests, `MaxCrash = 1` |
| `snapshot.go:1267` | a failing umount is logged and the directory is deleted under the instance | `RafsHasDir`; `Faults = {"umount"}`, `MaxFault = 1` |
| `daemon.go:166` | a second Umount takes the shared daemon's own reference | `DestroyedUnused` without `Orderly`; races `{"umount_twice"}` |
| `fs.go:226` | Close destroys a shared daemon that a Mount has begun to use | `NoDanglingInstance` without `Orderly`; races `{"close"}` |
| `fs.go:434`, `fs.go:498` | a failing configuration file or mount call, or a crash during Mount, leaves a daemon without an instance | `DaemonsInUse` without its condition; dedicated, faults `{"config"}` or `{"mount"}`, or `maxCrash` 1 |
| `manager.go:168` | a nydusd still starting when the snapshotter restarts gets no instances, and its count goes below zero | `RefCountExact` with `"starting"` allowed; faults `{"starting"}`, `maxCrash` 1 |
| `fs.go:434` | a daemon record without a configuration file stops every later start | `Recoverable`; faults `{"config"}`, `maxCrash` 1 |
| `fs.go:173` | a live shared daemon is not taken back without failover, and mounts fail | `SharedDaemonPresent`; shared, no failover, `maxCrash` 1 |
| `system.go:443` | after an upgrade Mount goes on using the old Daemon object | `UpgradeReplaces`; scenes `Upgraded` |
| `monitor.go:212` | a daemon dies while it is destroyed and another gets its descriptor: the event counts as the other's death, and its recovery waits for a live process | `NoFalseDeath`; scenes `Overlapping` |
| `daemon_event.go:101` | a mount whose state is not saved yet, or made during an upgrade, is gone after the failover | `NoLostMount`; scenes `Overlapping` |
| `daemon_event.go:43` | the snapshotter restarts in the middle of a recovery: two nydusd for one daemon, or mounts missing | `OneServer`, `NoLostMount`; scenes `Overlapping` |
| `supervisor.go:339` | FetchDaemonStates waits for ever, holding the semaphore | `SendStatesEnds`; the constants of `daemons_live` |
| `tarfs.go:371` | a layer whose diffID does not match becomes ready | `DiffIDValidated`; the constants of `tarfs` |
| `tarfs_adaptor.go:57` | the limit on conversions is given up before they end | `ConversionsBounded`; the constants of `tarfs` |
| `tarfs.go:439` | two containers of an image merge into one temporary file | `MountedComplete`; `Races = {"merge"}` |
| `snapshot.go:1271` | the error of DetachLayer is logged, the directory goes, and nothing detaches the device later | `DevicesDetached`; the constants of `tarfs` |
| `tarfs.go:227` | two layers with one blob share the temporary tar file: a conversion renames a file that the other has just truncated, and its layer becomes ready | `ReadyHasFiles`; `BlobOf` not injective |
| `fs.go:226` | a request beside Close leaves a record of an instance that is not served | `PersistedIsServed`; races `{"close"}` |
| `snapshot/renewal.go:72` | the second instance of an image is never given the new credential | `Reloaded` without "alone on its image" |
| `snapshot/renewal.go:72` | a credential that could not be saved, or that nydusd did not take over, is not tried again | `Reloaded` without `unsaved`, `unpushed` |
| `daemon.go:531` | a bearer token is saved and nydusd not told | `Reloaded` without `unpushed` |
| `daemon.go:267` | a mount reads the configuration file, a reload rewrites it, and nydusd is given the old credential | `Reloaded` without `unpushed` |
| `pkg/auth/renewal.go:75` | the store hands out an expired credential, when its renewal failed or when it does not live for an interval and a half | `NoExpired` without its exceptions |
| `kubelet.go:226` | a cached keychain hides a more specific one: of another plugin, or of a plugin that answers per image under a registry key | `BestCredential` without its conditions |
| `kubesecret.go:174` | a secret changed to data that does not parse keeps its old configuration | `FollowsSecrets`; ops `{"secret", "bad"}` |
| `kubesecret.go:184` | a deletion found by a new listing comes as a tombstone, which has no key: the configuration stays | `FollowsSecrets`; ops `{"secret", "relist"}` |
| `pusher.go:413` | a push whose provider fails leaves its reference open: the next waits for ever | `CallsEnd`; scenes `NoProvider` |
| `fetcher.go:247` | FetchByDigest keeps one request for all attempts: when Seek takes the offset back to 0 the Range header of the last attempt stays | `BytesInOrder`; scenes `DigestSeek` |
| `resolver.go:329` | the digest of a host whose manifest is too large is kept and given to the next host's answer | `ResolvedIsServed`; scenes `TwoTags` |
| `resolver.go:344` | the status of the GET after a HEAD is not checked: an error page is described as the manifest | `ResolvedIsServed` without `page` |
| `pusher.go:391` | a request that fails before it reads its body leaves the writer in pipe.Write | `CallsEnd` without `Stranded` |
| `convert_unix.go:384`, `534` | failures taken for success: a builder after the source is copied, the unpacking of the last chunk, a builder that fails with its output open | `FailuresReported` without `Unseen` |
| `convert_unix.go:473` | Close waits for ever: for a copy to a fifo that a failed builder never opened, for the goroutine that called Close, for a builder whose fifo a cancelled context closed | `ConversionEnds` without `Deadlocked` |
| `convert_unix.go:1250`, `reconvert_unix.go:256` | the writer of an attempt that failed is resumed, and the new data comes after the old | `ManifestWhole`, `RoundTrip` without `stale`, `skip` |
| `convert_unix.go:688` | a layer that an image has twice gets two headers in its chunk table | `ManifestWhole` without `Repeated` |
| `reconvert_unix.go:127` | on the way back an image with a backend loses its layers, one with a dictionary gets the dictionary's | `RoundTrip` without its first condition |
| `referrer.go:131` | two Prepares fetch one bootstrap, the second truncates it under a mount | `BootstrapIntact` without `raced` |
| `unpack.go:38`, `index_adaptor.go:72` | the part of a bootstrap that a crash or a slow fetch leaves is taken for the file, and never fetched again | `BootstrapIntact`, `RootfsExact` without `torn` |
| `process.go:114` | layers of one image some skipped, some unpacked (an estargz or tarfs layer falls back; a base layer shared with an image that has an alternative): some are missing | `RootfsExact` without `mixed` |
| `snapshot.go:1108` | a build above skipped layers, on nydus without detection or on estargz or tarfs: the image's layers are missing | `RootfsExact` without `built` |
| `pkg/index/manager.go:64`, `referer_adaptor.go` | an alternative that was used is not found again: the index keeps a failed answer, the referrer is away after a restart | `RootfsExact`, `MountsAgree` without `unfound` |
| `snapshot.go:403` | View has no case for estargz and alternatives; Mounts none for views of nydus and tarfs, for estargz containers, for a nydus layer further down; it tests the container's labels for guest pull and for `volatile` | `RootfsExact`, `MountsAgree` without `viewed`, `elsewhere`, `volatile` |
| `fs.go:498` | the dropped mount error leaves an instance, for tarfs without a mount point, that later calls take for mounted | `RootfsExact`, `MountsAgree`, `BootstrapIntact` without `failed` |
| `snapshot.go:339`, `fs.go:306` | Cleanup deletes the blobs of an instance that is mounted beside it, or whose files are not on record: WaitUntilReady has not come to it, failed, or had not saved them before a crash | `UsedKept`, `BitmapHasData` without `exposed`, `beside` |

Read in the code, not checked: the helper sets the bits of "rw", "dev" and "suid" as it does
those of "ro", "nodev" and "nosuid" (`cmd/nydus-overlayfs/main.go:68`; `FlagsTable` has them);
a daemon without a saved state cannot fail over; one that dies
before it is subscribed to is not restarted (`daemon_adaptor.go:84`); DetectFeatures keeps
the answer of a builder that could not be run; a conversion that has ended may leave
goroutines and work directories behind.

## Proofs

TLAPS checks the theorems below for all values of the constants: any number of keys,
requests, layers, goroutines, hosts and callers, any bounds, and every set of scenes and
faults. Each component has one `ConstAssumption`, which says what kind of value a
constant is; TLC evaluates it in the runs. A theorem about a property that the code keeps
under a condition has that condition as hypothesis (last column): without it the property
fails, as the table of known disagreements says.

| theorem | property | hypothesis |
|---|---|---|
| `SnapshotStoreProofs`: `TypeCorrect`, `IDsUnique`, `AtMostOneAhead`, `TempKept` | `TypeOK`, `UniqueIDs`, `OneIDAhead`, `LiveTempKept` | none: with any crashes and faults |
| `SnapshotsKeepDirectories`, `OnlyOrphansDeleted` | `DirOfSnapshot`, `DeletesOnlyOrphans` | `CommitsHold`: no crash, no failing commit |
| `InstancesKeepDirectories` | `RafsHasDir` | `CommitsHold`, no failing umount |
| `TarfsLayersProofs`: `TypeCorrect`, `NoDeviceLeaks` | `TypeOK`, `DevicesOwned` | none |
| `ImplementsPromise` | `KeepsPromise` (refinement of `TarfsPromise`) | none |
| `ReadyLayersHaveFiles` | `ReadyHasFiles` | `OwnBlobs`: no two layers have one blob |
| `MountedImagesComplete` | `MountedComplete` | no race `merge` |
| `RafsLifecycleProofs`: `TypeCorrect` | `TypeOK` | none |
| `RecordsAreServed` | `PersistedIsServed` | no race `close` |
| `ReferencesCounted`, `UnusedWhenDestroyed`, `RecoveryFindsDaemons`, `NoDaemonLeftBehind` | `RefCountExact`, `DestroyedUnused`, `NoDanglingInstance`, `DaemonsInUse` | none beyond those in the properties |
| `RegistryProofs`: `TokensFetchedOnce`, `CommittedContentIsStored` | `OneTokenJob`, `CommittedIsStored` | none |
| `BytesComeInOrder` | `BytesInOrder` | `NoDigestSeek`: no reader of FetchByDigest is moved by Seek |
| `CredentialProofs`: `ListenerFollowsSecrets` | `FollowsSecrets` | `SecretsDelivered`: every event arrives and can be read |
| `CredentialsReloaded` | `Reloaded` | none beyond those in the property |

None of the properties is inductive by itself. Each is a consequence of an invariant that
also says what the goroutines hold between two steps.

* **SnapshotStore.** `IInv` adds `TxInv`, what the holder of the write transaction has
  reserved (a renamed directory is `seq + 1`, and the sequence does not move under it);
  `SeqInv`, that every ID in the metastore is at most `seq`; `TmpInv`, that a temporary
  directory listed for deletion is not that of a running create. `DirInv`: a list to
  delete holds old IDs of no snapshot, so that no later create gets one of them.
  `MountInv`: an instance that is still mounted belongs to a directory nobody deletes.
* **TarfsLayers.** `StateInv` adds `JobInv` (the position of a call fits its job), `OpenInv`
  (who has which file open), `SnapInv` (one call prepares a layer, and what lies below a
  snapshot in use is committed), `ConvInv` (a layer is converted once, and its status is
  converting until then) and `MountInv` (the devices below a mount's progress are attached
  and stay so). The refinement follows from it step by step. `TarInv` and `BootInv` add that
  the temporary file of a tar or of a merged bootstrap has one writer, and is complete when it is renamed.
* **RafsLifecycle.** `BaseInv`: types, and the shape of each goroutine's state at each step.
  `CalmInv`: nothing is called beside Close, and a Mount has its snapshot and its new
  daemon to itself. `ServedInv` implies `PersistedIsServed`. `OrderlyInv`, for orderly modes, ties the four
  views together: `CacheOK` (a daemon's cache), `RecordOK` (the database), `SharedOK`, `RefOK`
  (the count is the number of instances and one for the shared daemon, corrected by what a
  call has yet to do), `CallOK` (what a call holds), and `NoDanglingInstance`. `UseInv` adds why a daemon
  without an instance exists. Counting instances needs facts on cardinalities; they are
  the predicate `Counting` up to the last module, where it is proved from the library.
* **Registry.** `TokenInv`: a job of a handler is some caller's, and a waiting caller's job
  exists. `PushInv`: the tracker's entry, the writer, its goroutine and its request agree on
  how far a push is. `FetchInv`: a reader's offset is the number of bytes handed on, and the
  body that is open starts there, or the request asks for it.
* **CredentialRenewal.** `SecretsInv`: the last waiting event about a secret is the secret as
  it is, and the listener has each secret that no event is about. `CredInv`: between
  reconciliations the store, the configuration file and nydusd agree for each instance alone
  on its image but for what `unsaved` and `unpushed` record; during one, the difference is
  what the goroutine still has to do (`RenewInv`, `InstanceOK`).

Only model-checked, and why:

* liveness (`OrphansReclaimed`, `FetchEnds`, `Recovered`, `WaitEnds`, `CallsEnd`, `ConversionEnds`): fairness and ENABLED
  are out of the prover's reach;
* `BestCredential`, `ResolvedIsServed`, the type invariants of the registry and credential modules, and
  what `BlobCache`, `OverlayHelper`, `SnapshotMounts` and `ImageConversion` say of layers, options and
  files: they rest on folds and filtered sequences, whose results need induction over data;
* `NoExpired`: it depends on the lifetimes and the interval of a scene, and on the fold over the plugins;
* `OneServer`, `NoLostMount`, `NoFalseDeath`: they hold as long as two of the events of
  `DaemonRecovery` do not overlap, and an inductive invariant would have to say which
  overlaps a scene has; no proof was tried;
* `FailuresReported`: has not been proved; its pipes and goroutines are finite, and TLC runs
  every interleaving of the scenes.

## Not modelled

* some interleavings and faults in which the code does not keep a property: see Conditions, scenes;
* fscache and its erofs mounts, encodings and migration of the database;
* Stat, Usage, Walk (they read), Update (labels the properties do not tell apart);
* the layout of nydus blobs, seekable reading, the content proxy, the command lines and
  the output of nydus-image; estargz tables of contents: data that a small model lacks;
* HTTP of nydusd and of the system controller, parsing of headers, host configuration: an
  answer is its outcome;
* configuration, signatures, encryption and backends: outcomes are inputs of the models;
* metrics, cgroup, fanotify, NRI plugins, prefetch, pprof, logging: beside the system;
