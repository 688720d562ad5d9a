-------------------------- MODULE MCRegistryClient --------------------------
(* The registry client: scenarios for TLC.                                  *)
EXTENDS RegistryClient

CONSTANTS p1, p2, mirror, registry

Nobody == [kind |-> "none"]
Resolve(ref, at) == [kind |-> "resolve", ref |-> ref, at |-> at, dgst |-> "d"]
Fetch(by, manifest, at, urls, resume, inline) ==
  [kind |-> "fetch", by |-> by, manifest |-> manifest, at |-> at, urls |-> urls, resume |-> resume, inline |-> inline]
PushOf(writer, manifest, object, mount) ==
  [kind |-> "push", writer |-> writer, manifest |-> manifest, object |-> object, mount |-> mount]

Manifest(dgst, size, header, length) == [dgst |-> dgst, size |-> size, header |-> header, length |-> length]
Same == Manifest("d", Size, TRUE, TRUE)

Full == {"pull", "resolve", "push"}

\* A mirror that is trusted with content only, and the registry behind it.
Scene(a, b, faults, n) ==
  [op |-> [p \in Proc |-> IF p = p1 THEN a ELSE b],
   hosts |-> <<mirror, registry>>,
   caps |-> [h \in Host |-> IF h = mirror THEN {"pull"} ELSE Full],
   scheme |-> [h \in Host |-> {}], creds |-> TRUE, oauth |-> TRUE, msg |-> TRUE,
   manifest |-> [h \in Host |-> IF h = mirror THEN Manifest("old", Size, TRUE, TRUE) ELSE Same],
   stored |-> Host, range |-> [h \in Host |-> IF h = mirror THEN "ignored" ELSE "honoured"],
   nohead |-> FALSE, plain |-> FALSE, insecure |-> FALSE, put |-> 201, echo |-> TRUE, length |-> TRUE, location |-> registry,
   ops |-> {}, faults |-> faults, budget |-> n]

Private(s, scheme) == [s EXCEPT !.scheme = [h \in Host |-> IF h = registry THEN scheme ELSE {}]]
Empty(s) == [s EXCEPT !.stored = {}]

Resolving ==
  { Scene(Resolve("tag", "manifests"), Nobody, {"500", "304", "429", "net"}, 2),
    [Scene(Resolve("tag", "manifests"), Nobody, {"net"}, 1) EXCEPT !.nohead = TRUE],
    [Scene(Resolve("tag", "manifests"), Nobody, {"500"}, 1) EXCEPT
       !.manifest = [h \in Host |-> Manifest("d", Size, FALSE, TRUE)]],
    [Scene(Resolve("tag", "manifests"), Nobody, {}, 0) EXCEPT
       !.manifest = [h \in Host |-> Manifest("d", TooLarge, TRUE, TRUE)]],
    [Scene(Resolve("digest", "blobs"), Nobody, {"500", "net"}, 2) EXCEPT
       !.manifest = [h \in Host |-> Manifest("d", Size, TRUE, FALSE)]],
    [Scene(Resolve("tag", "manifests"), Resolve("digest", "manifests"), {}, 0) EXCEPT !.plain = TRUE, !.insecure = TRUE],
    [Scene(Resolve("tag", "manifests"), Nobody, {}, 0) EXCEPT !.plain = TRUE],
    [Scene(Resolve("tag", "manifests"), Nobody, {}, 0) EXCEPT !.hosts = <<mirror>>] }

Fetching ==
  { Scene(Fetch("desc", FALSE, "blobs", <<>>, 0, FALSE), Nobody, {"cut", "500", "net"}, 4),
    Scene(Fetch("desc", TRUE, "manifests", <<mirror>>, 1, FALSE), Nobody, {"cut", "429"}, 2),
    [Scene(Fetch("desc", FALSE, "blobs", <<mirror>>, 0, FALSE), Nobody, {"cut"}, 2) EXCEPT
       !.range = [h \in Host |-> IF h = mirror THEN "wrong" ELSE "ignored"], !.stored = {registry}, !.ops = {"seek"}],
    [Scene(Fetch("desc", FALSE, "blobs", <<>>, 0, FALSE), Nobody, {"cut"}, 2) EXCEPT
       !.range = [h \in Host |-> IF h = mirror THEN "wrong" ELSE "ignored"]],
    Scene(Fetch("desc", FALSE, "blobs", <<>>, Size, FALSE), Fetch("desc", FALSE, "blobs", <<>>, 0, TRUE), {}, 0),
    Scene(Fetch("digest", FALSE, "manifests", <<>>, 0, FALSE), Fetch("zero", FALSE, "blobs", <<>>, 0, FALSE), {"cut", "500"}, 3),
    [Scene(Fetch("digest", FALSE, "blobs", <<>>, 0, FALSE), Nobody, {"cut"}, 2) EXCEPT
       !.length = FALSE, !.range = [h \in Host |-> "honoured"]],
    Scene(Fetch("referrers", FALSE, "manifests", <<>>, 0, FALSE), Nobody, {"500"}, 1),
    [Scene(Fetch("digest", FALSE, "blobs", <<>>, 0, FALSE), Fetch("referrers", FALSE, "referrers", <<>>, 0, FALSE), {}, 0) EXCEPT
       !.caps = [h \in Host |-> {}]],
    [Scene(Fetch("desc", FALSE, "blobs", <<>>, 0, FALSE), Nobody, {}, 0) EXCEPT !.caps = [h \in Host |-> {}]] }

\* One authorizer for two callers.
Authorizing ==
  { Private(Scene(Fetch("desc", FALSE, "blobs", <<>>, 1, FALSE), Resolve("tag", "manifests"), {"expire", "token"}, 1), {"bearer"}),
    [Private(Scene(Resolve("tag", "manifests"), Resolve("tag", "manifests"), {"expire", "token"}, 1), {"bearer"}) EXCEPT
       !.oauth = FALSE, !.msg = FALSE],
    [Private(Scene(Resolve("tag", "manifests"), Resolve("tag", "manifests"), {"token", "realm", "creds"}, 1), {"bearer", "basic"}) EXCEPT !.creds = FALSE],
    Private(Scene(Resolve("tag", "manifests"), Resolve("tag", "manifests"), {"creds"}, 0), {"basic"}),
    [Private(Scene(Resolve("tag", "manifests"), Resolve("tag", "manifests"), {}, 0), {"basic"}) EXCEPT !.creds = FALSE] }

Pushing ==
  { Empty(Scene(PushOf(TRUE, FALSE, "tag", FALSE), PushOf(TRUE, FALSE, "tag", FALSE), {"429", "net"}, 2)),
    Empty(Scene(PushOf(TRUE, TRUE, "tag", FALSE), PushOf(TRUE, TRUE, "tag@other", FALSE), {"500"}, 1)),
    Empty(Scene(PushOf(FALSE, FALSE, "tag", TRUE), Nobody, {"429", "500", "net"}, 3)),
    Scene(PushOf(FALSE, FALSE, "tag", TRUE), PushOf(FALSE, TRUE, "tag@same", FALSE), {}, 0),
    [Private(Empty(Scene(PushOf(TRUE, FALSE, "tag", TRUE), Nobody, {"expire", "token"}, 1)), {"bearer"}) EXCEPT !.location = mirror],
    Empty(Scene(PushOf(TRUE, FALSE, "tag", FALSE), PushOf(TRUE, FALSE, "tag", FALSE), {"read"}, 1)),
    [Empty(Scene(PushOf(TRUE, FALSE, "tag", FALSE), Nobody, {}, 0)) EXCEPT !.echo = FALSE],
    [Empty(Scene(PushOf(TRUE, FALSE, "tag", FALSE), Nobody, {}, 0)) EXCEPT !.put = 202],
    [Empty(Scene(PushOf(TRUE, FALSE, "tag", FALSE), Nobody, {}, 0)) EXCEPT !.hosts = <<mirror>>] }

Safe == Resolving \union Fetching \union Authorizing \union Pushing

\* A provider that fails after push has returned its writer: CallsEnd does not hold.
NoProvider == {Empty(Scene(PushOf(TRUE, FALSE, "tag", FALSE), PushOf(TRUE, FALSE, "tag", FALSE), {"provider"}, 1))}

\* A reader of FetchByDigest whose offset goes back to 0 keeps the Range header of its
\* last request: BytesInOrder does not hold.
DigestSeek ==
  {[Scene(Fetch("digest", FALSE, "blobs", <<>>, 0, FALSE), Nobody, {"cut"}, 1) EXCEPT
      !.ops = {"seek"}, !.range = [h \in Host |-> "honoured"]]}

\* The digest of a host whose manifest is too large is kept for the next host:
\* ResolvedIsServed does not hold.
TwoTags ==
  {[Scene(Resolve("tag", "manifests"), Nobody, {}, 0) EXCEPT
      !.caps = [h \in Host |-> Full],
      !.manifest = [h \in Host |-> IF h = mirror THEN Manifest("d1", TooLarge, TRUE, TRUE)
                                   ELSE Manifest("d2", Size, TRUE, TRUE)]]}
=============================================================================
