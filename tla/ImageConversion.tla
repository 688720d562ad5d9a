---------------------------- MODULE ImageConversion ----------------------------
(***************************************************************************)
(* Image conversion (pkg/converter): LayerConvertFunc converts the layers  *)
(* of an image, each with the streams of PackPipeline and a writer of the  *)
(* content store; ConvertHookFunc then merges them (MergeLayers) and       *)
(* rewrites config and manifest.  LayerReconvertFunc and ReconvertHookFunc *)
(* go the other way.  Several images, which may share layers, are          *)
(* converted at once over one store.                                       *)
(*                                                                         *)
(* A digest stands for the content it is the hash of: an OCI layer, the    *)
(* first n chunks of a nydus blob or of an unpacked tar, a blob of the     *)
(* chunk dictionary, or a merged bootstrap; stale counts the chunks of an  *)
(* unfinished writer in front of it.  containerd's converter, which calls  *)
(* these functions for every layer in parallel and then for the manifest,  *)
(* the content store and nydus-image merge are external.                   *)
(***************************************************************************)
EXTENDS PackPipeline, SequencesExt, FiniteSetsExt

CONSTANTS
  Images,     \* images to convert
  Width,      \* most layers of a source image
  Scenario    \* the environments to start from

VARIABLES
  store,      \* digests of the content in the store
  refs,       \* references of the store's open writers
  image       \* image[i]: the manifest and config being converted; stale, what the merge's
              \* writer held before it; unseen (history), layers with an Unseen failure

imageVars == <<store, refs, image>>
vars == <<streamVars, imageVars>>

Digest(k, name, n, of, stale) == [k |-> k, name |-> name, n |-> n, of |-> of, stale |-> stale]
OCI(name)           == Digest("oci", name, 0, <<>>, 0)
Nydus(name, n)      == Digest("nydus", name, n, <<>>, 0)
Tar(name, n, stale) == Digest("tar", name, n, <<>>, stale)
Boot(of, stale)     == Digest("boot", "", 0, of, stale)
NoDigest            == Digest("none", "", 0, <<>>, 0)

\* A descriptor: its digest, its annotations (what it is, the layer it refers
\* to, whether it is encrypted) and its diff id.
Desc(kind, digest, ref, enc) == [kind |-> kind, digest |-> digest, ref |-> ref, enc |-> enc]

IsNydusBlob(d)      == d.kind = "blob"
IsNydusBootstrap(d) == d.kind = "bootstrap"

\* isNydusImage(manifest)
IsNydusImage(layers) == layers # <<>> /\ IsNydusBootstrap(Last(layers))

\* The options an image is converted with.
Opt(i) == scene.opts[i]

Layer(t) == image[t[1]].layers[t[2]]
JobsOf(i) == {i} \X (1 .. Len(image[i].layers))

\* The reference of a conversion's writer.
RefOf(t) == <<image[t[1]].way, Layer(t).digest>>

(***************************************************************************)
(* LayerConvertFunc and LayerReconvertFunc: what they pass over, the       *)
(* cached result, and the start of a conversion.                           *)
(***************************************************************************)
Passed(t) == IF image[t[1]].way = "nydus" THEN IsNydusBlob(Layer(t)) \/ IsNydusBootstrap(Layer(t))
             ELSE IsNydusBootstrap(Layer(t))

\* The target digest an earlier conversion left in the labels of the layer.
Cached(t) == image[t[1]].way = "nydus" /\ Layer(t).digest.name \in scene.cached

\* What is unpacked from a blob that was cut short is not the layer.
Target(t) == IF image[t[1]].way = "oci"
             THEN Tar(Layer(t).digest.name, IF Layer(t).digest.n = OutSize THEN job[t].got ELSE 0, job[t].skip)
             ELSE Nydus(Layer(t).digest.name, IF Cached(t) THEN OutSize ELSE job[t].got)

Begin(i) == image[i].pc = "layers"

SkipLayer(t) ==
  /\ Begin(t[1]) /\ job[t].pc = "idle"
  /\ \/ /\ Passed(t)
        /\ job' = [job EXCEPT ![t].pc = "done", ![t].res = "skip"]
     \/ /\ ~Passed(t) /\ (Layer(t).digest \notin store \/ (image[t[1]].way = "nydus" /\ Fault("cancel")))
        /\ job' = [job EXCEPT ![t].pc = "done", ![t].res = "error"]
     \/ /\ ~Passed(t) /\ Layer(t).digest \in store /\ Cached(t)
        /\ job' = [job EXCEPT ![t].pc = "desc", ![t].res = "cached"]
  /\ UNCHANGED <<scene, features, ingest, imageVars>>

\* content.OpenWriter waits while another conversion writes the reference; Pack
\* or Unpack is started, or Pack or the decompressor refuses and the writer is closed.
ConvertLayer(t) ==
  /\ Begin(t[1]) /\ job[t].pc = "idle" /\ ~Passed(t) /\ ~Cached(t)
  /\ Layer(t).digest \in store /\ RefOf(t) \notin refs
  /\ \E help \in scene.help :
       LET f    == IF image[t[1]].way = "oci" THEN features ELSE DetectFeatures(Opt(t[1]), help)
           mode == IF image[t[1]].way = "oci" THEN "unpack" ELSE PackMode(Opt(t[1]), f)
       IN  /\ features' = f
           /\ \/ /\ mode = "error" \/ (mode # "unpack" /\ ~Opt(t[1]).ociRef /\ Fault("source"))
                 /\ job' = [job EXCEPT ![t].pc = "done", ![t].res = "error"]
                 /\ refs' = refs
              \/ /\ mode # "error"
                 /\ job' = [job EXCEPT ![t] = Started(mode, Left(RefOf(t))) @@ @]
                 /\ refs' = refs \union {RefOf(t)}
  /\ UNCHANGED <<scene, ingest, store, image>>

CopyFailed(t) ==
  /\ CopyFails(t, RefOf(t)) \/ StoreFails(t, RefOf(t))
  /\ refs' = refs \ {RefOf(t)}
  /\ UNCHANGED <<scene, features, store, image>>

Copied(t) ==
  /\ CopySucceeds(t, RefOf(t))
  /\ store' = store \union {Target(t)}
  /\ UNCHANGED <<scene, features, refs, image>>

\* makeBlobDesc, makeOCIBlobDesc: the target must be in the store; a new one is
\* pushed to the backend.  The deferred Close frees the reference.
MakeBlobDesc(t) ==
  /\ job[t].pc = "desc"
  /\ \E res \in {job[t].res} \union (IF Fault("backend") /\ scene.backend /\ job[t].res = "ok"
                                  THEN {"error"} ELSE {}) :
       job' = [job EXCEPT ![t].pc = "done", ![t].res = IF Target(t) \in store THEN res ELSE "error"]
  /\ refs' = IF job[t].res = "cached" THEN refs ELSE refs \ {RefOf(t)}
  /\ UNCHANGED <<scene, features, ingest, store, image>>

(***************************************************************************)
(* containerd's converter waits for the layers and rewrites the manifest:  *)
(* layers, garbage collection labels, diff ids (external).                 *)
(***************************************************************************)
NewDesc(t) ==
  CASE job[t].res = "skip" -> Layer(t)
    [] image[t[1]].way = "oci" -> Desc("layer", Target(t), NoDigest, FALSE)
    [] OTHER -> Desc("blob", Target(t), IF Opt(t[1]).ociRef THEN Layer(t).digest ELSE NoDigest,
                     Opt(t[1]).encrypt)

Digests(layers) == [k \in DOMAIN layers |-> layers[k].digest]

\* The diff ids: the digests of what was compressed into the writers.
DiffIDs(layers) == [k \in DOMAIN layers |-> [layers[k].digest EXCEPT !.stale = 0]]

\* labels with the first layers' references replaced.
Label(labels, ds) ==
  [k \in DOMAIN labels \union DOMAIN ds |-> IF k \in DOMAIN ds THEN ds[k] ELSE labels[k]]

\* On the way back a bootstrap is answered by its descriptor, not by nil: the
\* manifest then counts as converted.
LayersConverted(i) ==
  /\ Begin(i) /\ \A t \in JobsOf(i) : job[t].pc = "done"
  /\ LET layers == [k \in DOMAIN image[i].layers |-> NewDesc(<<i, k>>)]
     IN  image' = [image EXCEPT ![i] =
           IF \E t \in JobsOf(i) : job[t].res = "error" THEN [@ EXCEPT !.pc = "error"]
           ELSE IF /\ ~scene.docker2oci /\ image[i].way = "nydus"
                   /\ \A t \in JobsOf(i) : job[t].res = "skip"
                THEN [@ EXCEPT !.pc = "same"]
           ELSE [@ EXCEPT !.pc = "hook", !.layers = layers, !.diffs = DiffIDs(layers),
                          !.unseen = @ \union {k \in DOMAIN layers : Unseen(job[<<i, k>>])},
                          !.labels = Label(@, Digests(layers))]]
  /\ UNCHANGED <<streamVars, store, refs>>

(***************************************************************************)
(* ConvertHookFunc, convertManifest: an image that is a nydus image stays  *)
(* as it is; otherwise MergeLayers reads every layer, and the merged       *)
(* bootstrap is written under the reference of the chain of layers.        *)
(***************************************************************************)
MergeRef(i) == <<"merge", Boot(Digests(image[i].layers), 0)>>

StartMerge(i) ==
  /\ image[i].pc = "hook" /\ image[i].way = "nydus"
  /\ \/ /\ IsNydusImage(image[i].layers)
        /\ image' = [image EXCEPT ![i].pc = "ok"] /\ refs' = refs
     \/ /\ ~IsNydusImage(image[i].layers)
        /\ \E k \in DOMAIN image[i].layers :
             \/ image[i].layers[k].digest \notin store
             \/ Opt(i).ociRef /\ image[i].layers[k].ref = NoDigest
        /\ image' = [image EXCEPT ![i].pc = "error"] /\ refs' = refs
     \/ /\ ~IsNydusImage(image[i].layers) /\ MergeRef(i) \notin refs
        /\ \A k \in DOMAIN image[i].layers :
             /\ image[i].layers[k].digest \in store
             /\ Opt(i).ociRef => image[i].layers[k].ref # NoDigest
        /\ image' = [image EXCEPT ![i].pc = "merge", ![i].stale = Left(MergeRef(i))]
        /\ refs' = refs \union {MergeRef(i)}
  /\ UNCHANGED <<streamVars, store>>

\* The blobs nydus-image merge lists (external): layers without data are not in
\* the list, blobs of the chunk dictionary are.
MergeOutput(ds) == SelectSeq(ds, LAMBDA d : d.name \notin scene.meta) \o scene.dict

\* Mutant: only the blobs of the merge output.
MergeManifestBlobDigests_OutputOnly(nydus, original) == original

\* mergeManifestBlobDigests(nydusBlobDigests, originalBlobDigests)
MergeManifestBlobDigests(nydus, original) ==
  nydus \o SelectSeq(original, LAMBDA d : d \notin ToSet(nydus))

BlobDigests(i, ds) == IF Opt(i).ociRef THEN ds ELSE MergeManifestBlobDigests(ds, MergeOutput(ds))

BlobDescs(i) ==
  LET ds == BlobDigests(i, Digests(image[i].layers))
  IN  [k \in DOMAIN ds |-> Desc("blob", ds[k], IF Opt(i).ociRef THEN image[i].layers[k].ref ELSE NoDigest,
                                Opt(i).encrypt)]

(***************************************************************************)
(* Merge: the files of the bootstrap layer.  With RAFS version 6 the chunk *)
(* table of every layer is assembled, table, padding and header, into the  *)
(* very file the table was unpacked to; a layer without either is left     *)
(* out.  A repeated layer finds the assembled file and adds another header *)
(* to it, so a file is the number of headers it holds.                     *)
(***************************************************************************)
MetaFiles(i) ==
  LET ds      == Digests(image[i].layers)
      Held(k) == {l \in DOMAIN ds : l <= k /\ ds[l] = ds[k]}
      all     == [k \in DOMAIN ds |-> [blob |-> ds[k], headers |-> Cardinality(Held(k))]]
  IN  IF Opt(i).v6 THEN SelectSeq(all, LAMBDA f : f.blob.name \notin scene.meta) ELSE <<>>

\* The manifest and the config that convertManifest writes: the blobs and the
\* bootstrap, or the bootstrap alone when the blobs are in a backend.
Merged(i) == Boot(Digests(image[i].layers), image[i].stale)

Converted(i) ==
  LET boot   == Desc("bootstrap", Merged(i), NoDigest, Opt(i).encrypt)
      layers == IF scene.backend THEN <<boot>> ELSE BlobDescs(i) \o <<boot>>
  IN  [image[i] EXCEPT !.pc = "ok", !.layers = layers, !.diffs = DiffIDs(layers),
                       !.labels = Label(@, Digests(layers)),
                       !.history = IF scene.backend THEN 1 ELSE @ + 1,
                       !.files = MetaFiles(i)]

\* A blob of the list is not in the store, or the backend does not tell its size.
Missing(i) ==
  IF scene.backend THEN Fault("backend")
  ELSE ~(ToSet(BlobDigests(i, Digests(image[i].layers))) \subseteq store)

\* The merge, or the copy of its bootstrap behind what an earlier one left in the
\* writer, fails; or the bootstrap is committed, and what follows may still fail.
MergeLayers(i) ==
  /\ image[i].pc = "merge"
  /\ refs' = refs \ {MergeRef(i)}
  /\ \/ /\ Fault("merge")
        /\ image' = [image EXCEPT ![i].pc = "error"]
        /\ \E n \in 0 .. 1 : ingest' = (MergeRef(i) :> image[i].stale + n) @@ ingest
        /\ UNCHANGED store
     \/ /\ \/ /\ Missing(i) \/ Fault("merge")
              /\ image' = [image EXCEPT ![i].pc = "error"]
           \/ /\ ~Missing(i) \/ scene.backend
              /\ image' = [image EXCEPT ![i] = Converted(i)]
        /\ ingest' = (MergeRef(i) :> 0) @@ ingest
        /\ store' = store \union {Merged(i)}
  /\ UNCHANGED <<scene, job, features>>

(***************************************************************************)
(* The way back.  ReconvertHookFunc takes the bootstrap out of the layers, *)
(* the labels, the diff ids and the history.                               *)
(***************************************************************************)
Reconvert(i) ==
  /\ scene.back /\ image[i].pc = "ok" /\ image[i].way = "nydus"
  /\ image' = [image EXCEPT ![i].pc = "layers", ![i].way = "oci"]
  /\ job' = [t \in Jobs |-> IF t[1] = i THEN Idle ELSE job[t]]
  /\ UNCHANGED <<scene, features, ingest, store, refs>>

\* Mutant: the diff id stays.
ReconvertHook_KeepDiff(i) ==
  /\ image[i].pc = "hook" /\ image[i].way = "oci"
  /\ image' = [image EXCEPT ![i].pc = "back",
       ![i].layers = SelectSeq(@, LAMBDA d : ~IsNydusBootstrap(d)), ![i].history = @ - 1]
  /\ UNCHANGED <<streamVars, store, refs>>

ReconvertHook(i) ==
  /\ image[i].pc = "hook" /\ image[i].way = "oci"
  /\ LET boots == {k \in DOMAIN image[i].layers : IsNydusBootstrap(image[i].layers[k])}
         gone  == {image[i].layers[k].digest : k \in boots}
     IN  image' = [image EXCEPT ![i].pc = "back",
           ![i].layers = SelectSeq(@, LAMBDA d : ~IsNydusBootstrap(d)),
           ![i].labels = [k \in {l \in DOMAIN @ : @[l] \notin gone} |-> @[k]],
           ![i].diffs = IF boots # {} THEN RemoveAt(@, Max(boots)) ELSE @,
           ![i].history = IF boots # {} THEN @ - 1 ELSE @]
  /\ UNCHANGED <<streamVars, store, refs>>

(***************************************************************************)
(* Everything.                                                             *)
(***************************************************************************)
\* The descriptors of a source image: of OCI layers, of nydus blobs and, where
\* the name is empty, of a bootstrap.
Bootstrap == Boot(<<>>, 0)
SourceDesc(name) ==
  CASE name = ""             -> Desc("bootstrap", Bootstrap, NoDigest, FALSE)
    [] name \in scene.nydus -> Desc("blob", Nydus(name, OutSize), NoDigest, FALSE)
    [] OTHER                 -> Desc("layer", OCI(name), NoDigest, FALSE)
Source(names) == [k \in DOMAIN names |-> SourceDesc(names[k])]

Init ==
  /\ scene \in Scenario
  /\ image = [i \in Images |->
       [pc |-> "layers", way |-> "nydus", layers |-> Source(scene.images[i]),
        diffs |-> Digests(Source(scene.images[i])), labels |-> Digests(Source(scene.images[i])),
        history |-> Len(scene.images[i]), files |-> <<>>, stale |-> 0,
        unseen |-> {}]]
  /\ job = [t \in Jobs |-> Idle]
  /\ features = NoFeatures
  /\ ingest = <<>>
  /\ store = {OCI(n) : n \in scene.names} \union ToSet(scene.dict) \union {Bootstrap}
              \union {Nydus(n, OutSize) : n \in scene.nydus \union (scene.cached \ scene.stale)}
  /\ refs = {}

ImageStep(i) ==
  LayersConverted(i) \/ StartMerge(i) \/ MergeLayers(i) \/ ReconvertHook(i)

LayerStep(t) ==
  SkipLayer(t) \/ ConvertLayer(t) \/ CopyFailed(t) \/ Copied(t) \/ MakeBlobDesc(t)

Streams(t) == Goroutines(t) /\ UNCHANGED imageVars

Next ==
  \/ \E i \in Images : ImageStep(i) \/ Reconvert(i) \/ \E t \in JobsOf(i) : LayerStep(t)
  \/ \E t \in Jobs : Streams(t) \/ (Mishaps(t) /\ UNCHANGED imageVars)

\* The copy of a layer waits for its input.
Awaits(t) == job[t].pc = "copy" /\ job[t].out = "open"

\* The go scheduler and the kernel run every goroutine and process that can run;
\* nothing has to go wrong.
Fairness ==
  /\ \A i \in Images : WF_vars(ImageStep(i))
  /\ \A t \in Jobs :
       /\ WF_vars(t \in JobsOf(t[1]) /\ LayerStep(t) /\ ~Awaits(t))
       /\ WF_vars(Streams(t))

Spec == Init /\ [][Next]_vars /\ Fairness

\* What is where: chunk counts within the sizes, and a writer's reference held
\* exactly while its conversion copies and describes.
TypeOK ==
  /\ \A t \in Jobs :
       /\ job[t].src \in 0 .. InSize /\ job[t].read \in 0 .. InSize /\ job[t].applied \in 0 .. InSize
       /\ job[t].wrote \in 0 .. OutSize /\ job[t].got \in 0 .. OutSize
       /\ job[t].sf.n \in 0 .. Cap /\ job[t].of.n \in 0 .. Cap
  /\ refs = {MergeRef(i) : i \in {j \in Images : image[j].pc = "merge"}}
       \union {RefOf(t) : t \in {u \in Jobs : job[u].pc = "copy"
                                        \/ (job[u].pc = "desc" /\ job[u].res = "ok")}}

\* The names of layers that hold data of the source, in order.
NamesOf(layers) == [k \in DOMAIN layers |-> layers[k].digest.name]

\* The names of the source's layers.
Names(i) == SelectSeq(scene.images[i], LAMBDA name : name # "")

(***************************************************************************)
(* The manifest of a converted image names only content that is in the     *)
(* store and that its labels keep from garbage collection; without a       *)
(* backend its layers are the source's in order (those without data too),  *)
(* then the dictionary's blobs, then the bootstrap that was merged from    *)
(* them.  Every blob is whole unless a failure was Unseen; every chunk     *)
(* table of the bootstrap has one header unless its layer is repeated; and *)
(* the diff ids are the digests unless an earlier merge of the same layers *)
(* failed and left its writer's data in front of this one's.               *)
(***************************************************************************)
ManifestWhole ==
  \A i \in Images : image[i].pc = "ok" =>
    LET layers   == image[i].layers
        Repeated(d) == \E k, l \in DOMAIN layers : k # l /\ layers[k].digest = d /\ layers[l].digest = d
    IN  /\ ToSet(Digests(layers)) \subseteq store
        /\ ToSet(Digests(layers)) \subseteq {image[i].labels[k] : k \in DOMAIN image[i].labels}
        /\ image[i].stale = 0 => image[i].diffs = Digests(layers)
        /\ \A k \in DOMAIN image[i].files :
             image[i].files[k].headers = 1 \/ Repeated(image[i].files[k].blob)
        /\ \A k \in DOMAIN layers :
             IsNydusBlob(layers[k]) => layers[k].digest.n = OutSize \/ k \in image[i].unseen
        /\ ~scene.backend => NamesOf(layers) = Names(i) \o [k \in DOMAIN scene.dict |-> scene.dict[k].name] \o <<"">>

(***************************************************************************)
(* There and back: an image converted to nydus and back has its layers in  *)
(* their order again, the history of the source, labels for the layers it  *)
(* has, and every layer whole with its own diff id.  Not so with a backend *)
(* or a dictionary, whose blobs are not, or are too, layers of the         *)
(* manifest; nor for a layer with an Unseen failure, or one whose earlier  *)
(* reconversion failed: its writer is resumed and appended to.             *)
(***************************************************************************)
RoundTrip ==
  \A i \in Images : image[i].pc = "back" /\ ~scene.backend /\ scene.dict = <<>> =>
    LET layers == image[i].layers
    IN  /\ NamesOf(layers) = Names(i) /\ image[i].history = Len(Names(i))
        /\ ToSet(Digests(layers)) \subseteq store
        /\ {image[i].labels[k] : k \in DOMAIN image[i].labels} = ToSet(Digests(layers))
        /\ DOMAIN image[i].diffs = DOMAIN layers
        /\ \A k \in DOMAIN layers : k \notin image[i].unseen /\ job[<<i, k>>].skip = 0 =>
             layers[k].digest = Tar(Names(i)[k], OutSize, 0) /\ image[i].diffs[k] = layers[k].digest

(***************************************************************************)
(* Close waits for ever.  In packFromTar its group holds a copy to a fifo  *)
(* that the builder, which failed, will not open, or the goroutine that    *)
(* waits for the builder, when that has called Close itself, or a builder  *)
(* that waits for a fifo which a cancelled context has closed; Unpack      *)
(* waits for such a builder's error.                                       *)
(***************************************************************************)
Deadlocked(j) ==
  \/ j.mode = "tar" /\ j.cl = "close" /\ (j.builder = "fail" \/ (j.builder = "run" /\ j.cancelled))
  \/ j.mode = "unpack" /\ j.cl = "unpack" /\ j.g2 = "err" /\ j.builder = "run" /\ j.cancelled

(***************************************************************************)
(* Every conversion ends, however the builder, the store, the source or    *)
(* the caller's context fail, unless a Close waits for ever: once the      *)
(* whole source is in the packer, or on a cancelled context.  (A call that *)
(* has ended may leave goroutines behind.)                                 *)
(***************************************************************************)
ConversionEnds ==
  \/ \A i \in Images : image[i].pc = "layers" ~> image[i].pc \in {"ok", "same", "back", "error"}
  \/ \E t \in Jobs : <>[]Deadlocked(job[t])
=============================================================================
