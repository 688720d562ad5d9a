---------------------------- MODULE SnapshotMounts ----------------------------
(***************************************************************************)
(* How an image becomes a root file system: the processor Prepare chooses  *)
(* for a layer (process.go), the RAFS instance it mounts, the mounts that  *)
(* Prepare, View and Mounts hand out (snapshot.go, mount_option.go), the   *)
(* detection of nydus alternatives of OCI images (pkg/referrer,            *)
(* pkg/index), estargz and tarfs layers, and the cache of blobs with its   *)
(* cleaning.  Directories and transactions under races are in              *)
(* SnapshotStore, daemons and reference counts in RafsLifecycle.           *)
(*                                                                         *)
(* A snapshot key, and a layer, is <<kind, name>>; NoKey is the empty key. *)
(* A layer's content is its name: what a container sees is the sequence of *)
(* the layers, upmost first, that its mounts show.                         *)
(***************************************************************************)
EXTENDS BlobCache, OverlayHelper, Functions, TLC

CONSTANTS
  Threads,    \* concurrent calls of the snapshotter
  Scenario    \* the configurations and workloads, see MCSnapshotMounts

VARIABLES
  scene,      \* configuration and workload
  snaps,      \* the metastore: key -> [id, kind, chain, labels, image]
  dirs,       \* snapshot directories: id -> [live, diff, toc, boot, desc, raced]
  rafs,       \* RafsGlobalCache and its database: id -> instance
  known,      \* the managers' LRU caches: manager -> image -> answer
  net,        \* whether the registry answers
  call,       \* the calls in progress
  told,       \* key -> what Prepare or View answered
  again       \* key -> what Mounts answered

vars == <<files, sweep, scene, snaps, dirs, rafs, known, net, call, told, again>>

NoKey == <<"", "">>
Layer(n) == <<"layer", n>>
Idle == [op |-> "idle", pc |-> "idle", key |-> NoKey, labels |-> {}, at |-> NoKey, saw |-> "no"]

\* The layers with content of an image, upmost first.
LayersOf(im) ==
  LET own == SelectSeq(Reverse(scene.images[im]), LAMBDA l : "meta" \notin l.labels)
  IN [i \in DOMAIN own |-> own[i].name]

HasLabel(k, l) == l \in snaps[k].labels
IdOf(k)        == snaps[k].id
ParentOf(k)    == IF snaps[k].chain = <<>> THEN NoKey ELSE Head(snaps[k].chain)
NextId         == 1 + Max({0} \union DOMAIN dirs)

\* The layers a snapshot's root file system is made of, upmost first.
Expected(k) ==
  LET own == SelectSeq(snaps[k].chain, LAMBDA p : ~HasLabel(p, "meta"))
  IN [i \in DOMAIN own |-> own[i][2]]

(***************************************************************************)
(* The metastore: createSnapshot and Commit.                               *)
(***************************************************************************)
Created(k, kind, parent, labels, image) ==
  /\ k \notin DOMAIN snaps
  /\ parent \in DOMAIN snaps \union {NoKey}
  /\ NextId <= scene.ids
  /\ snaps' = snaps @@ (k :> [id |-> NextId, kind |-> kind, labels |-> labels, image |-> image,
                              chain |-> IF parent = NoKey THEN <<>>
                                        ELSE <<parent>> \o snaps[parent].chain])
  /\ dirs' = dirs @@ (NextId :> [live |-> TRUE, diff |-> "", toc |-> FALSE, boot |-> "no",
                                  desc |-> <<>>, raced |-> FALSE])

\* Commit(name, key): an error when the name is taken.
Committed(name, k, labels) ==
  IF name \in DOMAIN snaps THEN snaps
  ELSE (name :> [snaps[k] EXCEPT !.kind = "committed", !.labels = labels])
         @@ [x \in DOMAIN snaps \ {k} |-> snaps[x]]

(***************************************************************************)
(* Nydus alternatives of an image.  Both managers ask the registry once    *)
(* and remember; the index manager remembers a failure as well.            *)
(***************************************************************************)
Managers == {"index", "referrer"}
Enabled(m) == m \in scene.detect

Found(m, im) ==
  \/ known[m][im] = "yes"
  \/ known[m][im] = "?" /\ net = "up" /\ im \in scene.alt

Learned(m, im) ==
  IF known[m][im] # "?" THEN known[m][im]
  ELSE IF Found(m, im) THEN "yes"
  ELSE IF m = "index" THEN "no" ELSE "?"

\* CheckIndexAlternative and CheckReferrer of the adaptors.
Check(m, info) ==
  /\ Enabled(m)
  /\ info.image # ""
  /\ (m = "index" /\ "alt" \in info.labels) \/ Found(m, info.image)

\* Whether Check asks the manager.
Asks(m, info) ==
  Enabled(m) /\ info.image # "" /\ ~(m = "index" /\ "alt" \in info.labels)

Learn(asked) ==
  [m \in Managers |-> [im \in DOMAIN known[m] |->
     IF <<m, im>> \in asked THEN Learned(m, im) ELSE known[m][im]]]

\* IterateParentSnapshots: the key itself, then its ancestors.
Line(k) == <<k>> \o snaps[k].chain

\* findMetaLayer, findIndexAlternativeLayer and findReferrerLayer: the index
\* in Line(k), 0 if there is none.
FindMeta(k)  == SelectInSeq(Line(k), LAMBDA p : HasLabel(p, "meta"))
Find(m, k)   == SelectInSeq(Line(k), LAMBDA p : Check(m, snaps[p]))
AskedBy(m, k) ==
  LET n == Find(m, k)
      upto == IF n = 0 THEN Len(Line(k)) ELSE n
  IN {<<m, snaps[Line(k)[i]].image>> :
        i \in {j \in 1 .. upto : Asks(m, snaps[Line(k)[j]])}}

(***************************************************************************)
(* The mounts.  [type, lower, upper, flags, volumes, extra]; a directory   *)
(* of lower is <<"dir", id>>, a mount point of an instance <<"mnt", id>>,  *)
(* the empty path of an instance without one NoPath.                       *)
(***************************************************************************)
Dir(id) == <<"dir", id>>
Mnt(id) == <<"mnt", id>>
NoPath  == <<"none", 0>>
Dirs(ks) == [i \in DOMAIN ks |-> Dir(IdOf(ks[i]))]

MountOf(type, lower, upper, flags) ==
  [type |-> type, lower |-> lower, upper |-> upper, flags |-> flags, volumes |-> <<>>, extra |-> 0]

BindMount(p, ro) == MountOf("bind", <<p>>, 0, {ro, "rbind"})
Upper(k) == IF snaps[k].kind = "active" THEN IdOf(k) ELSE 0
Volatile(labels) == IF "volatile" \in labels \/ scene.volatile THEN {"volatile"} ELSE {}

LowerPath(id) == IF id \in DOMAIN rafs THEN rafs[id].mountpoint ELSE Dir(id)

\* mountNative(ctx, labels, s)
MountNative(labels, k) ==
  LET ps == snaps[k].chain IN
  IF ps = <<>> THEN BindMount(Dir(IdOf(k)), IF snaps[k].kind = "view" THEN "ro" ELSE "rw")
  ELSE IF snaps[k].kind # "active" /\ Len(ps) = 1 THEN BindMount(Dir(IdOf(ps[1])), "ro")
  ELSE MountOf("overlay", Dirs(ps), Upper(k),
               IF snaps[k].kind = "active" THEN Volatile(labels) ELSE {})

\* Mutant: the layers between are left out.
Between_None(k, id) == <<>>

\* mountRemote: "all the layers between the upmost snapshot and the nydus
\* meta snapshot", when detection is on.
Between(k, id) ==
  LET ps == snaps[k].chain
      n  == SelectInSeq(ps, LAMBDA p : IdOf(p) = id)
  IN IF scene.detect = {} THEN <<>>
     ELSE Dirs(SubSeq(ps, 1, IF n = 0 THEN Len(ps) ELSE n - 1))

Lowers(k, id) ==
  Between(k, id) \o <<LowerPath(id)>>
    \o (IF snaps[k].kind = "view" THEN <<LowerPath(IdOf(k))>> ELSE <<>>)

\* mountWithTarfsVolume(ctx, rafs, blobID, key): one block device of the image,
\* or one per layer, from the snapshot down, an active one passed over.
LayerVolumes(k) ==
  LET ks == IF snaps[k].kind = "active" THEN snaps[k].chain ELSE Line(k)
  IN [i \in DOMAIN ks |-> [type |-> "layer_raw_block",
                           shows |-> <<IF HasLabel(ks[i], "tarfs") THEN ks[i][2] ELSE "">>]]
TarfsVolumes(k, r) ==
  IF "imageBlock" \in r.annotations THEN <<[type |-> "image_raw_block", shows |-> r.shows]>>
  ELSE IF "layerBlock" \in r.annotations THEN LayerVolumes(k)
  ELSE <<>>

\* mountWithProxyVolume(rafs): the image is pulled inside the guest.
ProxyVolume == <<[type |-> "image_guest_pull", shows |-> <<>>]>>

\* mountWithKataVolume(ctx, id, overlayOptions, key)
KataVolumes(k, id) ==
  LET r == rafs[id] IN
  (IF "proxy" \in r.annotations THEN ProxyVolume ELSE <<>>)
    \o (IF "tarfs" \in r.annotations THEN TarfsVolumes(k, r) ELSE <<>>)

\* mountRemote(ctx, labels, s, id, key); it fails without an instance when it
\* has to describe it.
Describes == scene.kata \/ scene.overlayfs
CanMountRemote(id) == Describes => id \in DOMAIN rafs
MountRemote(labels, k, id) ==
  LET m == MountOf("overlay", Lowers(k, id), Upper(k), Volatile(labels)) IN
  IF scene.kata
  THEN LET vs == KataVolumes(k, id)
       IN IF vs = <<>> THEN m ELSE [m EXCEPT !.type = "fuse", !.volumes = vs]
  ELSE IF scene.overlayfs THEN [m EXCEPT !.type = "fuse", !.extra = id]
  ELSE m

\* mountProxy(ctx, s): without parents the snapshots' root is the lower one.
MountProxy(k) ==
  [MountOf("fuse", IF snaps[k].chain = <<>> THEN <<Dir(0)>> ELSE Dirs(snaps[k].chain), Upper(k), {})
     EXCEPT !.volumes = ProxyVolume]

\* The layers that mounts show, upmost first.
Unpacked(id) == id \in DOMAIN dirs /\ dirs[id].diff # ""
Shows(p) ==
  IF p[1] = "mnt" THEN rafs[p[2]].shows
  ELSE IF p[1] = "dir" /\ Unpacked(p[2]) THEN <<dirs[p[2]].diff>> ELSE <<>>
Sees(m) ==
  FlattenSeq(IF m.volumes # <<>> THEN [i \in DOMAIN m.volumes |-> m.volumes[i].shows]
             ELSE [i \in DOMAIN m.lower |-> Shows(m.lower[i])])
Guest(m) == \E i \in DOMAIN m.volumes : m.volumes[i].type = "image_guest_pull"

(***************************************************************************)
(* What keeps an answer from being exact: each is a case the code does not *)
(* handle, noted with the answer and named in the properties.              *)
(***************************************************************************)
Ancestors(k) == ToSet(snaps[k].chain)
ImageLayers(k) == {p \in Ancestors(k) : snaps[p].image # "" /\ ~HasLabel(p, "meta")}
SkippedLayers(k) == {p \in ImageLayers(k) : ~Unpacked(IdOf(p))}

\* Some of the image's layers were skipped and some unpacked.
Mixed(k) == SkippedLayers(k) \notin {{}, ImageLayers(k)}

\* A build above skipped layers, without detection or of estargz or tarfs layers.
Built(k) ==
  /\ \E p \in Ancestors(k) : snaps[p].image = ""
  /\ \E p \in SkippedLayers(k) : scene.detect = {} \/ snaps[p].labels \intersect {"stargz", "tarfs"} # {}

\* No manager finds the alternative of an image: the registry is away, or was
\* when it was asked.
Unfound(k) ==
  /\ scene.detect # {}
  /\ \E p \in ImageLayers(k) : snaps[p].image \in scene.alt /\ \A m \in scene.detect : ~Check(m, snaps[p])

\* View has no case for estargz layers and for alternatives.
Viewed(k) ==
  /\ snaps[k].kind = "view"
  /\ \E p \in ImageLayers(k) :
       HasLabel(p, "stargz") \/ (snaps[p].image \in scene.alt /\ scene.detect # {})

\* id is the snapshot of the instance that serves the answer, 0 for none.
Gaps(k, id) ==
  {g \in {"mixed", "built", "unfound", "viewed", "failed", "torn"} :
     CASE g = "mixed"   -> Mixed(k)
       [] g = "built"   -> Built(k)
       [] g = "unfound" -> Unfound(k)
       [] g = "viewed"  -> Viewed(k)
       [] g = "failed"  -> id \in DOMAIN rafs /\ rafs[id].failed
       [] OTHER         -> id \in DOMAIN rafs /\ rafs[id].torn}

Answer(k, id, m) ==
  [ok |-> TRUE, mount |-> m, sees |-> Sees(m), wants |-> IF Guest(m) THEN <<>> ELSE Expected(k),
   gaps |-> Gaps(k, id)]
Refused ==
  [ok |-> FALSE, mount |-> MountOf("none", <<>>, 0, {}), sees |-> <<>>, wants |-> <<>>, gaps |-> {}]

Tell(t, a) == told' = (call[t].key :> a) @@ told
Return(t)  == call' = [call EXCEPT ![t] = Idle]
Goto(t, pc) == call' = [call EXCEPT ![t].pc = pc]

(***************************************************************************)
(* Prepare of an image's layer.  call[t].at is the name it is committed    *)
(* under; call[t].labels are the labels it is committed with.              *)
(***************************************************************************)
StartPull(t) ==
  /\ call[t] = Idle /\ t \in scene.threads
  /\ \E im \in DOMAIN scene.images : \E i \in DOMAIN scene.images[im] :
       LET l == scene.images[im][i]
           parent == IF i = 1 THEN NoKey ELSE Layer(scene.images[im][i - 1].name)
       IN /\ Layer(l.name) \notin DOMAIN snaps
          /\ Created(<<t, l.name>>, "active", parent, l.labels, im)
          /\ call' = [call EXCEPT ![t] = [Idle EXCEPT !.op = "pull", !.pc = "choose", !.key = <<t, l.name>>,
                                                      !.labels = l.labels, !.at = Layer(l.name)]]
  /\ UNCHANGED <<files, sweep, scene, rafs, known, net, told, again>>

Pulling(t) == call[t].op = "pull" /\ call[t].pc = "choose"
Skip(t, more) == call' = [call EXCEPT ![t].pc = "commit", ![t].labels = @ \union more]

\* The cases of chooseProcessor that contact nobody.
ChooseByLabel(t) ==
  /\ Pulling(t)
  /\ LET l == call[t].labels IN
     \/ scene.driver = "proxy" /\ "criDigest" \in l /\ Skip(t, {"proxy"})
     \/ scene.driver = "proxy" /\ "criDigest" \notin l /\ Return(t)
     \/ scene.driver # "proxy" /\ "meta" \in l /\ Goto(t, "unpack")
     \/ scene.driver # "proxy" /\ "meta" \notin l /\ "data" \in l /\ Skip(t, {})
  /\ UNCHANGED <<files, sweep, scene, snaps, dirs, rafs, known, net, told, again>>

Plain(t) == Pulling(t) /\ scene.driver # "proxy" /\ call[t].labels \intersect {"meta", "data"} = {}

\* An image with a nydus alternative: nothing of the layer is stored.
ChooseAlternative(t) ==
  LET info == snaps[call[t].key] IN
  /\ Plain(t)
  /\ \/ /\ Check("index", info)
        /\ known' = Learn({<<"index", info.image>>})
        /\ Skip(t, {"alt"})
     \/ /\ ~Check("index", info) /\ Check("referrer", info)
        /\ known' = Learn({<<m, info.image>> : m \in {x \in Managers : Enabled(x)}})
        /\ Skip(t, {})
  /\ UNCHANGED <<files, sweep, scene, snaps, dirs, rafs, net, told, again>>

\* ExportBlockData(s, perLayer, labels, ...): the label is set with the disk's
\* creation.
WholeImage == scene.export = "image_block"
DiskOf(b) == File(b, IF WholeImage THEN ".image.disk" ELSE ".layer.disk")
Export(perLayer, labels, b) ==
  IF scene.export = "none" THEN [labels |-> labels, files |-> files]
  ELSE IF WholeImage = perLayer
  THEN [labels |-> IF scene.export = "layer_block" /\ ~perLayer THEN labels \union {"layerBlock"}
                   ELSE labels,
        files |-> files]
  ELSE IF DiskOf(b) \in files THEN [labels |-> labels, files |-> files]
  ELSE [labels |-> labels \union {IF WholeImage THEN "imageBlock" ELSE "layerBlock"},
        files |-> files \union {DiskOf(b)}]

\* Any other layer: estargz, tarfs, or left to containerd.  What is prepared
\* may fail, and the next way is tried.
ChooseFormat(t) ==
  LET c == call[t]
      info == snaps[c.key]
      name == c.at[2]
      asked == {<<m, info.image>> : m \in {x \in Managers : Enabled(x)}}
      estargz == scene.stargz /\ "toc" \in c.labels
  IN
  /\ Plain(t) /\ ~Check("index", info) /\ ~Check("referrer", info)
  /\ known' = Learn(asked)
  /\ \/ /\ estargz
        /\ dirs' = [dirs EXCEPT ![info.id].toc = TRUE]
        /\ Skip(t, {"stargz"})
        /\ UNCHANGED files
     \/ /\ scene.tarfs /\ (estargz => name \in scene.fallback)
        /\ LET e == Export(TRUE, c.labels \union {"tarfs"}, name)
           IN Skip(t, e.labels) /\ files' = e.files \union {File(name, "")}
        /\ UNCHANGED dirs
     \/ /\ (estargz \/ scene.tarfs) => name \in scene.fallback
        /\ Goto(t, "unpack")
        /\ UNCHANGED <<files, dirs>>
  /\ UNCHANGED <<sweep, scene, snaps, rafs, net, told, again>>

\* Prepare's commit of a layer it keeps from containerd.
CommitSkipped(t) ==
  /\ call[t].pc = "commit"
  /\ snaps' = Committed(call[t].at, call[t].key, call[t].labels)
  /\ Return(t)
  /\ UNCHANGED <<files, sweep, scene, dirs, rafs, known, net, told, again>>

\* containerd unpacks the layer into the mounts it got and commits it; a meta
\* layer is the bootstrap of its image.
UnpackAndCommit(t) ==
  LET c == call[t]
      info == snaps[c.key]
  IN
  /\ c.pc = "unpack"
  /\ dirs' = [dirs EXCEPT ![info.id] =
                IF "meta" \in c.labels THEN [@ EXCEPT !.boot = "whole", !.desc = LayersOf(info.image)]
                ELSE [@ EXCEPT !.diff = c.at[2]]]
  /\ snaps' = Committed(c.at, c.key, c.labels)
  /\ Return(t)
  /\ UNCHANGED <<files, sweep, scene, rafs, known, net, told, again>>

(***************************************************************************)
(* Prepare of a container's layer, and View.  call[t].at is the snapshot   *)
(* whose instance is mounted.                                              *)
(***************************************************************************)
StartContainer(t) ==
  /\ call[t] = Idle /\ t \in scene.threads
  /\ \E n \in DOMAIN scene.ctrs :
       LET k == <<"ctr", n>> IN
       /\ Created(k, "active", scene.ctrs[n].on, scene.ctrs[n].labels, "")
       /\ call' = [call EXCEPT ![t] = [Idle EXCEPT !.op = "run", !.pc = "choose", !.key = k]]
  /\ UNCHANGED <<files, sweep, scene, rafs, known, net, told, again>>

\* treatAsProxyDriver(labels)
TreatAsProxyDriver(labels) ==
  /\ ~(scene.driver = "proxy" /\ "criImage" \in labels)
  /\ (scene.driver = "proxy") # ("proxy" \in labels)

ParentLabels(k) == IF ParentOf(k) = NoKey THEN {} ELSE snaps[ParentOf(k)].labels

\* chooseProcessor's handler for a writable layer, and the snapshot it mounts.
Handler(k) ==
  LET p == ParentOf(k)
      pl == ParentLabels(k)
      At(n) == Line(k)[n]
  IN CASE "proxy" \in pl -> <<"mount", p>>
       [] TreatAsProxyDriver(pl) /\ "proxy" \notin pl -> <<"proxy", NoKey>>
       [] OTHER ->
          IF FindMeta(k) # 0 THEN <<"mount", At(FindMeta(k))>>
          ELSE IF Find("index", k) # 0 THEN <<"fetch_index", At(Find("index", k))>>
          ELSE IF Find("referrer", k) # 0 THEN <<"fetch_referrer", At(Find("referrer", k))>>
          ELSE IF scene.stargz /\ "stargz" \in pl THEN <<"merge_stargz", p>>
          ELSE IF scene.tarfs /\ "tarfs" \in pl THEN <<"merge_tarfs", p>>
          ELSE <<"native", NoKey>>

\* The managers that are asked on the way to the handler.
AskedFor(k) ==
  LET h == Handler(k)[1] IN
  IF h \in {"mount", "proxy"} THEN {}
  ELSE AskedBy("index", k) \union (IF h = "fetch_index" THEN {} ELSE AskedBy("referrer", k))

ChooseForContainer(t) ==
  LET k == call[t].key
      h == Handler(k)
  IN
  /\ call[t].op = "run" /\ call[t].pc = "choose"
  /\ known' = Learn(AskedFor(k))
  /\ \/ /\ h[1] = "proxy"
        /\ Tell(t, Answer(k, 0, MountProxy(k))) /\ Return(t)
     \/ /\ h[1] = "native"
        /\ Tell(t, Answer(k, 0, MountNative(snaps[k].labels, k))) /\ Return(t)
     \/ /\ h[1] \notin {"proxy", "native"}
        /\ call' = [call EXCEPT ![t].pc = h[1], ![t].at = h[2]]
        /\ UNCHANGED told
  /\ UNCHANGED <<files, sweep, scene, snaps, dirs, rafs, net, again>>

Refuse(t) == Tell(t, Refused) /\ Return(t)
BootOf(t) == dirs[IdOf(call[t].at)].boot

\* Mutant: the bootstrap is fetched again.
FetchNeeded_Always(t) == TRUE

\* TryFetchMetadataFromIndex and TryFetchMetadata: whether the bootstrap is
\* fetched.  The index adaptor looks for the file before it asks the manager.
FetchNeeded(t) == BootOf(t) = "no"

FetchManager(t) == IF call[t].pc = "fetch_index" THEN "index" ELSE "referrer"

TryFetchMetadata(t) ==
  LET m  == FetchManager(t)
      im == snaps[call[t].at].image
      asks == m = "referrer" \/ FetchNeeded(t)
  IN
  /\ call[t].pc \in {"fetch_index", "fetch_referrer"}

  /\ known' = IF asks THEN Learn({<<m, im>>}) ELSE known
  /\ \/ /\ ~FetchNeeded(t) /\ (asks => Found(m, im))
        /\ Goto(t, "mount") /\ UNCHANGED told
     \/ /\ FetchNeeded(t) /\ Found(m, im) /\ net = "up"
        /\ call' = [call EXCEPT ![t].pc = "create", ![t].saw = BootOf(t)]
        /\ UNCHANGED told
     \/ /\ asks /\ (~Found(m, im) \/ (FetchNeeded(t) /\ net = "down"))
        /\ Refuse(t)
  /\ UNCHANGED <<files, sweep, scene, snaps, dirs, rafs, net, again>>

\* remote.Unpack creates, or truncates, the bootstrap and writes it in place.  Two
\* calls that found no file race.
CreateBootstrap(t) ==
  /\ call[t].pc = "create"
  /\ dirs' = [dirs EXCEPT ![IdOf(call[t].at)].boot = "part",
                          ![IdOf(call[t].at)].raced = @ \/ (call[t].saw = "no" /\ BootOf(t) # "no")]
  /\ Goto(t, "write")
  /\ UNCHANGED <<files, sweep, scene, snaps, rafs, known, net, told, again>>

WriteBootstrap(t) ==
  LET c == call[t] IN
  /\ c.pc = "write"
  /\ \/ /\ dirs' = [dirs EXCEPT ![IdOf(c.at)].boot = "whole",
                                ![IdOf(c.at)].desc = LayersOf(snaps[c.at].image)]
        /\ Goto(t, "mount") /\ UNCHANGED told
     \/ /\ net = "down"
        /\ dirs' = [dirs EXCEPT ![IdOf(c.at)].boot = "no"]
        /\ Refuse(t)
  /\ UNCHANGED <<files, sweep, scene, snaps, rafs, known, net, again>>

\* MergeStargzMetaLayer(ctx, s)
MergeStargz(t) ==
  LET c == call[t]
      ps == snaps[c.key].chain
  IN
  /\ c.pc = "merge_stargz"
  /\ \/ /\ BootOf(t) # "no"
        /\ Goto(t, "mount") /\ UNCHANGED <<dirs, told>>
     \/ /\ BootOf(t) = "no" /\ \A i \in DOMAIN ps : dirs[IdOf(ps[i])].toc
        /\ dirs' = [dirs EXCEPT ![IdOf(c.at)].boot = "whole", ![IdOf(c.at)].desc = Expected(c.key)]
        /\ Goto(t, "mount") /\ UNCHANGED told
     \/ /\ BootOf(t) = "no" /\ \E i \in DOMAIN ps : ~dirs[IdOf(ps[i])].toc
        /\ Refuse(t) /\ UNCHANGED dirs
  /\ UNCHANGED <<files, sweep, scene, snaps, rafs, known, net, again>>

\* mergeTarfs(ctx, s, pID, pInfo): MergeLayers, then the block image; its
\* label is written to the parent's snapshot.
MergeTarfs(t) ==
  LET c == call[t]
      ps == snaps[c.key].chain
      e == Export(FALSE, snaps[c.at].labels, c.at[2])
  IN
  /\ c.pc = "merge_tarfs"
  /\ \/ /\ \A i \in DOMAIN ps : HasLabel(ps[i], "tarfs")
        /\ dirs' = [dirs EXCEPT ![IdOf(c.at)].boot = "whole", ![IdOf(c.at)].desc = Expected(c.key)]
        /\ snaps' = [snaps EXCEPT ![c.at].labels = e.labels]
        /\ files' = e.files
        /\ Goto(t, "mount") /\ UNCHANGED told
     \/ /\ \E i \in DOMAIN ps : ~HasLabel(ps[i], "tarfs")
        /\ Refuse(t) /\ UNCHANGED <<files, snaps, dirs>>
  /\ UNCHANGED <<sweep, scene, rafs, known, net, again>>

(***************************************************************************)
(* Filesystem.Mount and WaitUntilReady.                                    *)
(***************************************************************************)
Driver(k) == IF HasLabel(k, "tarfs") THEN "blockdev" ELSE scene.driver

\* BootstrapFile and waitForReadyBootstrap: a file with a valid header whose size is
\* the same twice is taken for whole, one that a crash left in part as well.
BootstrapReady(t) == BootOf(t) # "no"

\* The instance that Mount makes of a snapshot.  saved are the underlying files in the
\* database; an instance whose mount call failed is not in it.  torn: mounted from part
\* of a bootstrap; exposed: its blobs were open and on no record when a Cleanup looked.
Instance ==
  [mountpoint |-> NoPath, shows |-> <<>>, annotations |-> {}, blobs |-> {}, underlying |-> {},
   saved |-> {}, failed |-> FALSE, torn |-> FALSE, exposed |-> FALSE]

NewRafs(k) ==
  LET d == dirs[IdOf(k)] IN
  CASE Driver(k) = "blockdev" ->
         [Instance EXCEPT !.mountpoint = IF scene.onHost THEN Mnt(IdOf(k)) ELSE Dir(IdOf(k)),
                          !.shows = d.desc,
                          !.annotations = snaps[k].labels \intersect {"tarfs", "imageBlock", "layerBlock"}]
    [] Driver(k) = "proxy" ->
         [Instance EXCEPT !.mountpoint = Dir(IdOf(k)),
                          !.annotations = snaps[k].labels \intersect {"proxy", "criDigest"}]
    [] OTHER ->
         [Instance EXCEPT !.mountpoint = Mnt(IdOf(k)), !.shows = d.desc, !.blobs = ToSet(d.desc),
                          !.torn = d.boot = "part", !.exposed = sweep.on]

\* The mount call failed: the error is dropped and the instance stays in memory, at
\* its mount point under nydusd and at none for tarfs.
FailedRafs(k) ==
  [NewRafs(k) EXCEPT !.mountpoint = IF Driver(k) = "blockdev" THEN NoPath ELSE @,
                     !.shows = <<>>, !.blobs = {}, !.failed = TRUE]

MountRafs(t) ==
  LET k  == call[t].at
      id == IdOf(k)
      r  == NewRafs(k)
      fuse == Driver(k) = "fusedev"
      mounts == fuse \/ (Driver(k) = "blockdev" /\ scene.onHost)
      tries == id \notin DOMAIN rafs /\ snaps[k].image # "" /\ (fuse => BootstrapReady(t))
  IN
  /\ call[t].pc = "mount"
  /\ \/ /\ id \in DOMAIN rafs
        /\ Goto(t, "ready") /\ UNCHANGED <<rafs, files, sweep, told>>
     \/ /\ tries
        /\ rafs' = (id :> r) @@ rafs
        /\ IF fuse THEN OpenBlobs(r.blobs, scene.naming) ELSE UNCHANGED <<files, sweep>>
        /\ Goto(t, "ready") /\ UNCHANGED told
     \/ /\ tries /\ mounts /\ scene.fault
        /\ rafs' = (id :> FailedRafs(k)) @@ rafs
        /\ Goto(t, "ready") /\ UNCHANGED <<files, sweep, told>>
     \/ /\ id \notin DOMAIN rafs
        /\ \/ snaps[k].image = ""
           \/ fuse /\ BootOf(t) # "whole"
           \/ scene.fault /\ Driver(k) # "proxy"
        /\ Refuse(t) /\ UNCHANGED <<rafs, files, sweep>>
  /\ UNCHANGED <<scene, snaps, dirs, known, net, again>>

\* The ways WaitUntilReady(snapshotID) ends: the files nydusd reports are kept in the
\* instance and in the database; nydusd cannot be asked, as it cannot for an instance it
\* has not; or the database fails.
Waits(k) ==
  LET r == rafs[IdOf(k)]
      asked == [r EXCEPT !.underlying = r.blobs]
      fails == r.failed \/ scene.fault
  IN IF Driver(k) # "fusedev" THEN {[ok |-> TRUE, instance |-> r]}
     ELSE {w \in {[ok |-> TRUE, instance |-> [asked EXCEPT !.saved = r.blobs]],
                  [ok |-> FALSE, instance |-> asked],
                  [ok |-> FALSE, instance |-> r]} :
             (w.ok => ~r.failed) /\ (~w.ok => fails)}

WaitUntilReady(t) ==
  LET c  == call[t]
      id == IdOf(c.at)
  IN
  /\ c.pc = "ready"
  /\ \E w \in Waits(c.at) :
       /\ rafs' = [rafs EXCEPT ![id] = w.instance]
       /\ \/ ~w.ok /\ Refuse(t)
          \/ /\ w.ok /\ c.op = "run"
             /\ Tell(t, Answer(c.key, id, MountRemote(snaps[c.at].labels, c.key, id))) /\ Return(t)
          \/ /\ w.ok /\ c.op = "view"
             /\ Goto(t, IF c.key \in DOMAIN snaps THEN "answer" ELSE "create_view") /\ UNCHANGED told
  /\ UNCHANGED <<files, sweep, scene, snaps, dirs, known, net, again>>

(***************************************************************************)
(* View(ctx, key, parent)                                                  *)
(***************************************************************************)
StartView(t) ==
  /\ call[t] = Idle /\ t \in scene.threads
  /\ \E n \in DOMAIN scene.views :
       LET k == <<"view", n>>
           p == scene.views[n]
       IN /\ k \notin DOMAIN told /\ p \in DOMAIN snaps
          /\ \/ /\ HasLabel(p, "data")
                /\ told' = (k :> Refused) @@ told
                /\ UNCHANGED call
             \/ /\ ~HasLabel(p, "data")
                /\ call' = [call EXCEPT ![t] =
                     [Idle EXCEPT !.op = "view", !.key = k, !.at = p,
                                  !.pc = IF HasLabel(p, "meta") THEN "mount" ELSE "create_view"]]
                /\ UNCHANGED told
  /\ UNCHANGED <<files, sweep, scene, snaps, dirs, rafs, known, net, again>>

CreateView(t) ==
  LET c == call[t] IN
  /\ c.pc = "create_view"
  /\ Created(c.key, "view", c.at, {}, "")
  /\ Goto(t, IF scene.tarfs /\ HasLabel(c.at, "tarfs") THEN "merge_tarfs" ELSE "answer")
  /\ UNCHANGED <<files, sweep, scene, rafs, known, net, told, again>>

AnswerView(t) ==
  LET c == call[t]
      remote == HasLabel(c.at, "meta") \/ (scene.tarfs /\ HasLabel(c.at, "tarfs"))
  IN
  /\ c.pc = "answer"
  /\ Tell(t, IF ~remote THEN Answer(c.key, 0, MountNative({}, c.key))
             ELSE IF CanMountRemote(IdOf(c.at))
                  THEN Answer(c.key, IdOf(c.at), MountRemote({}, c.key, IdOf(c.at)))
             ELSE Refused)
  /\ Return(t)
  /\ UNCHANGED <<files, sweep, scene, snaps, dirs, rafs, known, net, again>>

(***************************************************************************)
(* Mounts(ctx, key), one reading of the state.                             *)
(***************************************************************************)
Served(k) == \A t \in Threads : call[t].key # k

\* Mutant: only the nydus kinds have an instance.
MountsMeta_NydusOnly(k) ==
  LET p == IF snaps[k].kind = "view" THEN k ELSE ParentOf(k)
  IN IF p # NoKey /\ HasLabel(p, "meta") THEN p ELSE NoKey

\* The switch over the kind: the snapshot of the instance, NoKey for none.
MountsMeta(k) ==
  LET p == IF snaps[k].kind = "view" THEN k ELSE ParentOf(k)
  IN IF p = NoKey THEN NoKey
     ELSE IF HasLabel(p, "meta") \/ (scene.tarfs /\ HasLabel(p, "tarfs")) \/ HasLabel(p, "proxy")
          THEN p ELSE NoKey

MountsKey(k) ==
  IF MountsMeta(k) # NoKey THEN MountsMeta(k)
  ELSE IF Find("index", k) # 0 THEN Line(k)[Find("index", k)]
  ELSE IF Find("referrer", k) # 0 THEN Line(k)[Find("referrer", k)]
  ELSE NoKey

\* Mounts looks where Prepare or View did not: it has no case for a view of nydus or
\* tarfs layers, for estargz, and for a nydus layer further down; for a view it looks for
\* an alternative; it tests the container's labels for the guest's.
Elsewhere(k) ==
  LET h == Handler(k) IN
  IF snaps[k].kind = "view"
  THEN ParentLabels(k) \intersect {"meta", "tarfs"} # {} \/ \E m \in Managers : Find(m, k) # 0
  ELSE \/ h[1] = "merge_stargz"
       \/ h[1] = "mount" /\ (h[2] # ParentOf(k) \/ TreatAsProxyDriver(snaps[k].labels))

\* An answer of Mounts; the gaps of the answer before stay.
Repeat(k, id, m) ==
  [Answer(k, id, m) EXCEPT
     !.gaps = @ \union told[k].gaps \union (IF Elsewhere(k) THEN {"elsewhere"} ELSE {})]

Mounts(k) ==
  LET m == MountsKey(k)
      own == snaps[k].labels
      waits == m # NoKey /\ HasLabel(m, "meta")
      found == IF m = NoKey THEN FALSE ELSE IdOf(m) \in DOMAIN rafs
      answer == IF TreatAsProxyDriver(own) THEN Repeat(k, 0, MountProxy(k))
                ELSE IF m = NoKey THEN Repeat(k, 0, MountNative(own, k))
                ELSE IF CanMountRemote(IdOf(m)) THEN Repeat(k, IdOf(m), MountRemote(own, k, IdOf(m)))
                ELSE Refused
  IN
  /\ scene.mounts /\ k \in DOMAIN told /\ told[k].ok /\ k \in DOMAIN snaps /\ Served(k)
  /\ known' = IF MountsMeta(k) # NoKey THEN known
              ELSE Learn(AskedBy("index", k) \union
                         (IF Find("index", k) # 0 THEN {} ELSE AskedBy("referrer", k)))
  /\ \/ ~waits /\ again' = (k :> answer) @@ again /\ UNCHANGED rafs
     \/ waits /\ ~found /\ again' = (k :> Refused) @@ again /\ UNCHANGED rafs
     \/ /\ waits /\ found
        /\ \E w \in Waits(m) :
             /\ rafs' = [rafs EXCEPT ![IdOf(m)] = w.instance]
             /\ again' = (k :> IF w.ok THEN answer ELSE Refused) @@ again
  /\ UNCHANGED <<files, sweep, scene, snaps, dirs, net, call, told>>

(***************************************************************************)
(* Remove, and Cleanup: the directories and instances of removed           *)
(* snapshots, then the blobs no instance of a daemon names.                *)
(***************************************************************************)
Without(f, ks) == [x \in DOMAIN f \ ks |-> f[x]]

\* Remove(ctx, key); a build commits its container instead.
Remove_(k) ==
  /\ k \in scene.removes /\ k \in DOMAIN snaps /\ Served(k)
  /\ \A x \in DOMAIN snaps : ParentOf(x) # k
  /\ \A t \in Threads : call[t].at # k
  /\ snaps' = Without(snaps, {k}) /\ told' = Without(told, {k}) /\ again' = Without(again, {k})
  /\ UNCHANGED <<files, sweep, scene, dirs, rafs, known, net, call>>

BuildCommit(n) ==
  LET k == <<"ctr", n>>
      name == scene.builds[n]
  IN
  /\ k \in DOMAIN snaps /\ k \in DOMAIN told /\ told[k].ok /\ Served(k)
  /\ name \notin DOMAIN snaps
  /\ dirs' = [dirs EXCEPT ![IdOf(k)].diff = name[2]]
  /\ snaps' = Committed(name, k, {})
  /\ again' = Without(again, {k})
  /\ UNCHANGED <<files, sweep, scene, rafs, known, net, call, told>>

\* Mutant: only one instance is asked for its blobs.
UsedBlobs_First ==
  IF DOMAIN rafs = {} THEN {} ELSE rafs[Min(DOMAIN rafs)].underlying

UsedBlobs == UNION {rafs[id].underlying : id \in DOMAIN rafs}

\* The instances whose files are not on record when a Cleanup looks.
Exposed ==
  [id \in DOMAIN rafs |->
     [rafs[id] EXCEPT !.exposed = @ \/ ~(rafs[id].blobs \subseteq rafs[id].underlying)]]

Cleanup ==
  LET live == {IdOf(k) : k \in DOMAIN snaps}
      gone == DOMAIN dirs \ live
  IN
  /\ scene.clean > 0
  /\ \/ /\ ~sweep.on
        /\ \E id \in gone : dirs[id].live
        /\ dirs' = [id \in DOMAIN dirs |-> IF id \in gone THEN [dirs[id] EXCEPT !.live = FALSE] ELSE dirs[id]]
        /\ rafs' = Without(rafs, gone)
        /\ UNCHANGED <<files, sweep, scene>>
     \/ /\ ScanCache(UsedBlobs)
        /\ rafs' = Exposed
        /\ scene' = [scene EXCEPT !.clean = @ - 1]
        /\ UNCHANGED dirs
  /\ UNCHANGED <<snaps, known, net, call, told, again>>

SweepStep ==
  /\ CacheStep
  /\ UNCHANGED <<scene, snaps, dirs, rafs, known, net, call, told, again>>

(***************************************************************************)
(* The environment.                                                        *)
(***************************************************************************)
\* The snapshotter restarts, at any point of its calls: they are lost, instances are
\* what the database has, the managers have forgotten.
Restart ==
  /\ scene.restart
  /\ scene' = [scene EXCEPT !.restart = FALSE]
  /\ call' = [t \in Threads |-> Idle]
  /\ sweep' = Resting(sweep.beside)
  /\ rafs' = [id \in {i \in DOMAIN rafs : ~rafs[i].failed} |->
                [rafs[id] EXCEPT !.underlying = rafs[id].saved]]
  /\ known' = [m \in Managers |-> [im \in DOMAIN known[m] |-> "?"]]
  /\ UNCHANGED <<files, snaps, dirs, net, told, again>>

\* The registry is away once in a behaviour, at any time or after the pulls.
Pulled ==
  \A im \in DOMAIN scene.images : \A i \in DOMAIN scene.images[im] :
    Layer(scene.images[im][i].name) \in DOMAIN snaps
Registry ==
  /\ \/ /\ scene.net = "any" \/ (scene.net = "pulled" /\ Pulled)
        /\ net' = "down" /\ scene' = [scene EXCEPT !.net = "no"]
     \/ net = "down" /\ net' = "up" /\ UNCHANGED scene
  /\ UNCHANGED <<files, sweep, snaps, dirs, rafs, known, call, told, again>>

Init ==
  /\ scene \in Scenario
  /\ CacheInit(scene.stored)
  /\ snaps = <<>> /\ dirs = <<>> /\ rafs = <<>> /\ told = <<>> /\ again = <<>>
  /\ known = [m \in Managers |-> [im \in DOMAIN scene.images |-> "?"]]
  /\ net = "up"
  /\ call = [t \in Threads |-> Idle]

Next ==
  \/ \E t \in Threads :
       \/ StartPull(t) \/ ChooseByLabel(t) \/ ChooseAlternative(t) \/ ChooseFormat(t)
       \/ CommitSkipped(t) \/ UnpackAndCommit(t)
       \/ StartContainer(t) \/ ChooseForContainer(t) \/ TryFetchMetadata(t)
       \/ CreateBootstrap(t) \/ WriteBootstrap(t) \/ MergeStargz(t) \/ MergeTarfs(t)
       \/ MountRafs(t) \/ WaitUntilReady(t) \/ StartView(t) \/ CreateView(t) \/ AnswerView(t)
  \/ \E k \in DOMAIN snaps : Mounts(k) \/ Remove_(k)
  \/ \E n \in DOMAIN scene.builds : BuildCommit(n)
  \/ Cleanup \/ SweepStep \/ Restart \/ Registry

Spec == Init /\ [][Next]_vars

(***************************************************************************)
(* Properties.                                                             *)
(***************************************************************************)
\* A root file system handed out by Prepare, View or Mounts shows every layer of its
\* image, each once and in its order, for every layer format and whichever instance
\* serves them (an image pulled in the guest is not in the mounts), but for the cases of
\* Gaps and Elsewhere: layers of one image some skipped and some unpacked; a build above
\* skipped layers without detection, or of estargz or tarfs; an alternative that cannot
\* be found again; a view of estargz or of an alternative; a mount whose error was
\* dropped; a bootstrap mounted in part; and Mounts where it has no case.
RootfsExact ==
  \A f \in {told, again} : \A k \in DOMAIN f : f[k].gaps = {} => f[k].sees = f[k].wants

\* Mounts answers for a snapshot what Prepare or View answered, although it looks for the
\* instance another way and later, after restarts and with the registry away; not
\* Elsewhere, nor when an alternative could not be found one of the times or the mount's
\* error was dropped.  Over an instance, Prepare takes "volatile" from the labels of the
\* image and Mounts from the container's.
MountsAgree ==
  \A k \in DOMAIN again \intersect DOMAIN told :
    /\ again[k].ok
    /\ again[k].gaps \intersect {"elsewhere", "unfound", "failed"} = {}
    => LET m == again[k].mount
           served == \E id \in DOMAIN rafs : rafs[id].mountpoint \in ToSet(m.lower)
       IN IF k \in DOMAIN snaps /\ HasLabel(k, "volatile") /\ served
          THEN [m EXCEPT !.flags = told[k].mount.flags] = told[k].mount
          ELSE m = told[k].mount

\* The bootstrap an instance was mounted from stays as it was: nobody fetches it again,
\* cuts it or removes it, in any order of fetches, mounts and restarts.  Not the file two
\* calls fetched at once, nor an instance mounted from a part of it, which a crash or a
\* slow fetch leaves and BootstrapReady takes.
BootstrapIntact ==
  \A id \in DOMAIN rafs :
    rafs[id].mountpoint = Mnt(id) /\ ~rafs[id].failed /\ ~rafs[id].torn /\ ~dirs[id].raced
    => dirs[id].boot = "whole" /\ rafs[id].shows = dirs[id].desc

\* Cleanup leaves the cached blobs of every mounted instance, beside mounts, removals and
\* restarts.  Not of an instance that was mounted while a Cleanup was deleting, nor of one
\* whose files were not on record when a Cleanup looked: WaitUntilReady had not come to
\* it, had failed, or had not saved them before a restart.
UsedKept ==
  \A id \in DOMAIN rafs :
    ~rafs[id].exposed => CachedBlobs(rafs[id].blobs, scene.naming) \subseteq files

\* Where the paths of a mount are, the snapshotter's root being <<-9, -8>>.
Path(p) ==
  IF p = NoPath THEN <<>>
  ELSE IF p[1] = "mnt" THEN <<-9, -8, -3, p[2]>>
  ELSE IF p[2] = 0 THEN <<-9, -8, -1>>
  ELSE <<-9, -8, -1, p[2], -2>>
LowerPaths(m) == [i \in DOMAIN m.lower |-> Path(m.lower[i])]
OptionsOf(m) ==
  (IF m.upper = 0 THEN <<>>
   ELSE <<Option("workdir", <<<<-9, -8, -1, m.upper, -4>>>>), Option("upperdir", <<Path(Dir(m.upper))>>)>>)
    \o <<Option("lowerdir", LowerPaths(m)),
         Option(IF m.extra # 0 THEN "extraoption" ELSE "io.katacontainers.volume", <<>>),
         Option("dev", <<>>), Option("suid", <<>>)>>

\* nydus-overlayfs mounts the directories of the mount it was given, in order,
\* when it shortens their paths and when it does not, and passes no option that
\* is meant for the runtime.
HelperExact ==
  \A k \in DOMAIN told : told[k].mount.type = "fuse" =>
    \A big \in BOOLEAN :
      LET m == told[k].mount
          r == Run(OptionsOf(m), big)
      IN /\ Resolved(r, "lowerdir") = LowerPaths(m)
         /\ m.upper # 0 => Resolved(r, "upperdir") = <<Path(Dir(m.upper))>>
         /\ \A i \in DOMAIN r.data : r.data[i].key \in {"workdir", "upperdir", "lowerdir"}
=============================================================================
