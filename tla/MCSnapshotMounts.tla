--------------------------- MODULE MCSnapshotMounts ---------------------------
(* Configurations and workloads of SnapshotMounts for TLC. *)
EXTENDS SnapshotMounts

L(n, labels) == [name |-> n, labels |-> labels]
On(n) == [on |-> Layer(n), labels |-> {}]

NydusImage  == <<L("a", {"data"}), L("b", {"data"}), L("m", {"meta"})>>
NydusImage1 == <<L("a", {"data"}), L("m", {"meta"})>>
NydusImage2 == <<L("c", {"data"}), L("n", {"meta"})>>
OciImage1   == <<L("a", {})>>
OciImage    == <<L("a", {}), L("b", {})>>
OciImage2   == <<L("a", {}), L("d", {})>>
TocImage    == <<L("a", {"toc"}), L("b", {"toc"})>>
CriImage    == <<L("a", {"criDigest"}), L("b", {"criDigest"})>>

Base ==
  [threads |-> {"t1"},
   images |-> [A |-> NydusImage], driver |-> "fusedev", detect |-> {}, alt |-> {},
   stargz |-> FALSE, tarfs |-> FALSE, export |-> "none", onHost |-> TRUE,
   kata |-> FALSE, overlayfs |-> FALSE, volatile |-> FALSE, naming |-> ".blob.data",
   ctrs |-> [x |-> On("m")], views |-> <<>>, builds |-> <<>>, removes |-> {},
   ids |-> 7, stored |-> {}, net |-> "no", clean |-> 0, restart |-> FALSE, mounts |-> TRUE,
   fault |-> FALSE, fallback |-> {}]

With(f) == f @@ Base
Both == Threads
C(ns) == {<<"ctr", n>> : n \in ns}

MCScenario == {
  \* a nydus image: two pulls at once, two containers, failing mounts and waits
  With([threads |-> Both, ctrs |-> [x |-> On("m"), y |-> On("m")], fault |-> TRUE,
        removes |-> C({"x"})]),
  \* views of the topmost layer and of a data layer, through the helper; a label of the
  \* container
  With([threads |-> Both, views |-> [v |-> Layer("m"), w |-> Layer("b")], overlayfs |-> TRUE,
        ctrs |-> [x |-> [on |-> Layer("m"), labels |-> {"volatile"}]]]),
  \* nydus images, removed and cleaned beside mounts and a restart
  With([images |-> [A |-> NydusImage1, B |-> NydusImage2],
        ctrs |-> [x |-> On("m"), y |-> On("n")], removes |-> C({"x"}) \union {Layer("m")},
        clean |-> 2, mounts |-> FALSE]),
  With([images |-> [A |-> NydusImage1], removes |-> C({"x"}) \union {Layer("m")}, clean |-> 2, ids |-> 5,
        fault |-> TRUE, restart |-> TRUE, stored |-> {File("z", s) : s \in {"", ".chunk_map"}}]),
  \* OCI images with a shared layer, and a container without an image
  With([images |-> [A |-> OciImage, B |-> OciImage2], volatile |-> TRUE,
        ctrs |-> [x |-> On("b"), y |-> [on |-> NoKey, labels |-> {"volatile"}]],
        views |-> [v |-> Layer("d"), w |-> Layer("a")]]),
  \* alternatives: a referrer, an index, a registry that goes away, restarts
  With([threads |-> Both, images |-> [A |-> OciImage1], detect |-> {"referrer"}, alt |-> {"A"},
        ctrs |-> [x |-> On("a"), y |-> On("a")], net |-> "pulled", restart |-> TRUE]),
  With([images |-> [A |-> OciImage], detect |-> {"index"}, alt |-> {"A"}, net |-> "pulled",
        ctrs |-> [x |-> On("b"), y |-> On("b")], restart |-> TRUE, removes |-> C({"x", "y"})]),
  With([images |-> [A |-> OciImage], detect |-> {"index", "referrer"}, alt |-> {},
        ctrs |-> [x |-> On("b")], net |-> "any"]),
  With([images |-> [A |-> OciImage], detect |-> {"index"}, alt |-> {"A"}, net |-> "any",
        ctrs |-> [x |-> On("b")], restart |-> TRUE]),
  With([images |-> [A |-> OciImage], detect |-> {"referrer"}, alt |-> {"A"}, net |-> "any",
        ctrs |-> [x |-> On("b")], restart |-> TRUE]),
  \* a layer shared with an image that has no alternative, a view of each
  With([images |-> [A |-> OciImage, B |-> OciImage2], detect |-> {"referrer"}, alt |-> {"A"},
        ctrs |-> [x |-> On("b"), y |-> On("d")], views |-> [v |-> Layer("b")]]),
  \* builds on images of every kind
  With([detect |-> {"referrer"}, ctrs |-> [x |-> On("m"), y |-> On("c")], builds |-> [x |-> Layer("c")]]),
  With([ctrs |-> [x |-> On("m"), y |-> On("c")], builds |-> [x |-> Layer("c")]]),
  With([images |-> [A |-> OciImage], detect |-> {"referrer"}, alt |-> {"A"},
        ctrs |-> [x |-> On("b"), y |-> On("c")], builds |-> [x |-> Layer("c")]]),
  With([images |-> [A |-> OciImage], ctrs |-> [x |-> On("b"), y |-> On("c")], tarfs |-> TRUE,
        fallback |-> {"a", "b"}, builds |-> [x |-> Layer("c")]]),
  \* estargz, with layers that cannot be prepared
  With([threads |-> Both, images |-> [A |-> TocImage], stargz |-> TRUE,
        ctrs |-> [x |-> On("b"), y |-> On("b")], fallback |-> {"a", "b"}]),
  With([images |-> [A |-> <<L("a", {"toc"})>>, B |-> <<L("b", {})>>], stargz |-> TRUE, tarfs |-> TRUE,
        ctrs |-> [x |-> On("b"), y |-> On("a")], fault |-> TRUE, fallback |-> {"a", "b"}]),
  With([images |-> [A |-> TocImage], stargz |-> TRUE, ctrs |-> [x |-> On("b"), y |-> On("c")],
        builds |-> [x |-> Layer("c")], views |-> [v |-> Layer("b")]]),
  \* tarfs on the host and in the guest
  With([images |-> [A |-> OciImage], tarfs |-> TRUE, ctrs |-> [x |-> On("b"), y |-> On("b")],
        threads |-> Both]),
  With([images |-> [A |-> OciImage], tarfs |-> TRUE, ctrs |-> [x |-> On("b")],
        views |-> [v |-> Layer("b")], fault |-> TRUE, fallback |-> {"a"}, restart |-> TRUE]),
  With([images |-> [A |-> OciImage], tarfs |-> TRUE, kata |-> TRUE, onHost |-> FALSE,
        export |-> "image_block", ctrs |-> [x |-> On("b"), y |-> On("a")]]),
  With([images |-> [A |-> OciImage], tarfs |-> TRUE, kata |-> TRUE, onHost |-> FALSE,
        export |-> "layer_block", ctrs |-> [x |-> On("b"), y |-> On("b")]]),
  With([images |-> [A |-> OciImage], tarfs |-> TRUE, kata |-> TRUE, onHost |-> FALSE,
        export |-> "layer_block_with_verity", ctrs |-> [x |-> On("b")]]),
  \* images pulled in the guest
  With([images |-> [A |-> CriImage], driver |-> "proxy", kata |-> TRUE,
        ctrs |-> [x |-> On("b"), y |-> [on |-> NoKey, labels |-> {}]]]),
  With([images |-> [A |-> OciImage], driver |-> "proxy", kata |-> TRUE])
  }
=============================================================================
