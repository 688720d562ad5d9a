---------------------------- MODULE RegistryPull ----------------------------
(***************************************************************************)
(* Reading from registries: dockerResolver.Resolve (a name becomes a        *)
(* descriptor), dockerFetcher.Fetch, FetchByDigest and FetchReferrers, and  *)
(* the httpReadSeeker that reopens a body that was cut.                     *)
(*                                                                          *)
(* Content is Size bytes; byte k stands at offset k, so a reader at offset  *)
(* k that is handed byte j # k has been given the wrong data.               *)
(***************************************************************************)
EXTENDS RegistryAuth

VARIABLES
  res,   \* Resolve of a caller
  get    \* Fetch, FetchByDigest or FetchReferrers of a caller and its httpReadSeeker

pullVars == <<res, get>>

MaxRetry == 3   \* maxRetry of httpReadSeeker
TooLarge == Size + 1   \* a manifest of more than MaxManifestSize bytes
Unknown  == Size + 2   \* ContentLength -1

Op(p) == scene.op[p]

\* filterHosts: the hosts with all capabilities of one of the sets, in their order.
Filtered(s, capsets) == SelectSeq(s.hosts, LAMBDA h : \E c \in capsets : c \subseteq s.caps[h])
FilterHosts(capsets) == Filtered(scene, capsets)

NoResolve == [pc |-> "start", i |-> 1, j |-> 1, dgst |-> None, err |-> "none", desc |-> None, plain |-> FALSE,
              page |-> FALSE]   \* history: an error page was taken for a manifest
NoFetch   == [pc |-> "start", k |-> 1, off |-> 0, rc |-> None, noprog |-> 0, range |-> 0, path |-> None,
              host |-> None, err |-> "none", n |-> 0, read |-> None]

-----------------------------------------------------------------------------
(* Resolve *)

\* A digest is looked up among manifests and blobs; a tag among manifests, at hosts trusted to
\* resolve it.
ResolvePaths(p) == IF Op(p).ref = "digest" THEN <<"manifests", "blobs">> ELSE <<"manifests">>
\* Mutant: any host that content can be pulled from is asked for a tag.
ResolveHosts_Untrusted(p) == FilterHosts({{"pull"}})

ResolveHosts(p) == FilterHosts({IF Op(p).ref = "digest" THEN {"pull"} ELSE {"pull", "resolve"}})

HeadRequest(p, i, j) == Request(ResolveHosts(p)[j], TRUE, "HEAD", ResolvePaths(p)[i], RepositoryScope(FALSE), 0, FALSE)

ResolveStart(p) ==
  /\ Op(p).kind = "resolve" /\ res[p].pc = "start"
  /\ IF ResolveHosts(p) = <<>>
     THEN res' = [res EXCEPT ![p].pc = "failed", ![p].err = "notfound"] /\ UNCHANGED rq
     ELSE /\ res' = [res EXCEPT ![p].pc = "head", ![p].dgst = IF Op(p).ref = "digest" THEN Op(p).dgst ELSE None]
          /\ rq' = [rq EXCEPT ![p] = HeadRequest(p, 1, 1)]
  /\ UNCHANGED <<handlers, pool, epoch, budget, get>>

\* Store the first error and try the next host, then the next path; 404 is no error.
NextHost(p, r, err) ==
  LET e    == IF r.err = "none" THEN err ELSE r.err
      last == r.j = Len(ResolveHosts(p))
      i    == IF last THEN r.i + 1 ELSE r.i
      j    == IF last THEN 1 ELSE r.j + 1
  IN  IF i > Len(ResolvePaths(p))
      THEN /\ res' = [res EXCEPT ![p] = [r EXCEPT !.pc = "failed", !.err = IF e = "none" THEN "notfound" ELSE e]]
           /\ rq' = [rq EXCEPT ![p] = NoRequest]
      ELSE /\ res' = [res EXCEPT ![p] = [r EXCEPT !.pc = "head", !.err = e, !.i = i, !.j = j]]
           /\ rq' = [rq EXCEPT ![p] = HeadRequest(p, i, j)]

Fail(p, r, err) ==
  /\ res' = [res EXCEPT ![p] = [r EXCEPT !.pc = "failed", !.err = err]]
  /\ rq' = [rq EXCEPT ![p] = NoRequest]

\* A manifest that is too large is rejected, any other is the answer.
Described(p, r, dgst, size) ==
  IF size = TooLarge
  THEN NextHost(p, [r EXCEPT !.dgst = dgst], "toolarge")
  ELSE /\ res' = [res EXCEPT ![p] = [r EXCEPT !.pc = "resolved", !.desc = [dgst |-> dgst, size |-> size]]]
       /\ rq' = [rq EXCEPT ![p] = NoRequest]

\* The answer to the HEAD.  Without a digest the Docker-Content-Digest header is trusted; without
\* the header, or without a length, the manifest is fetched.
ResolveHead(p) ==
  /\ Op(p).kind = "resolve" /\ res[p].pc = "head" /\ Done(p)
  /\ LET r == res[p]
         a == rq[p].ans
         m == scene.manifest[rq[p].host]
         size == IF m.length THEN m.size ELSE Unknown
         dgst == IF r.dgst = None /\ m.header /\ size # Unknown THEN m.dgst ELSE r.dgst
     IN  \/ a.err # "none" /\ NextHost(p, r, a.err)
         \/ a.err = "none" /\ a.code = 404 /\ NextHost(p, r, "none")
         \/ a.err = "none" /\ a.code > 399 /\ a.code # 404 /\ NextHost(p, r, "status")
         \/ a.err = "none" /\ a.code \in 300..399 /\ Fail(p, r, "status")
         \/ /\ a.err = "none" /\ a.code < 300 /\ (dgst = None \/ size = Unknown)
            /\ res' = [res EXCEPT ![p].pc = "get"]
            /\ rq' = [rq EXCEPT ![p] = [HeadRequest(p, r.i, r.j) EXCEPT !.method = "GET"]]
         \/ a.err = "none" /\ a.code < 300 /\ dgst # None /\ size # Unknown /\ Described(p, r, dgst, size)
  /\ UNCHANGED <<handlers, pool, epoch, budget, get>>

\* The answer to the GET: its body is digested and measured whatever its status is.
ResolveGet(p) ==
  /\ Op(p).kind = "resolve" /\ res[p].pc = "get" /\ Done(p)
  /\ LET r == res[p]
         a == rq[p].ans
         m == IF a.code < 300 THEN scene.manifest[rq[p].host] ELSE [dgst |-> "error page", size |-> 0]
     IN  IF a.err # "none"
         THEN Fail(p, r, a.err)
         ELSE Described(p, [r EXCEPT !.page = a.code >= 300], IF r.dgst = None THEN m.dgst ELSE r.dgst, m.size)
  /\ UNCHANGED <<handlers, pool, epoch, budget, get>>

\* Remote.RetryWithPlainHTTP: only for an insecure registry, and only after an error that says that
\* it does not speak HTTPS, the callers resolve once more.
RetryWithPlainHTTP(p) ==
  /\ Op(p).kind = "resolve" /\ res[p].pc = "failed" /\ res[p].err = "https" /\ ~res[p].plain
  /\ scene.insecure
  /\ res' = [res EXCEPT ![p] = [NoResolve EXCEPT !.plain = TRUE]]
  /\ UNCHANGED <<authVars, get>>

-----------------------------------------------------------------------------
(* Fetch, FetchByDigest, FetchReferrers *)

\* Where open looks: the URLs of the descriptor, then every host, whatever its capabilities.
Sources(p) ==
  LET path == IF Op(p).manifest THEN "manifests" ELSE "blobs"
      url  == [u \in DOMAIN Op(p).urls |-> [host |-> Op(p).urls[u], url |-> TRUE, path |-> "blobs"]]
      host == [h \in DOMAIN scene.hosts |-> [host |-> scene.hosts[h], url |-> FALSE, path |-> path]]
  IN  url \o host

\* FetchReferrers: the referrers endpoint of a host, then its fallback tag when it may resolve tags.
ReferrerSources ==
  LET hosts == FilterHosts({{"resolve"}, {"referrers"}})
      both  == [i \in 1 .. 2 * Len(hosts) |-> [host |-> hosts[(i + 1) \div 2], url |-> FALSE,
                                               path |-> IF i % 2 = 1 THEN "referrers" ELSE "manifests"]]
      tried(s) == s.path = "manifests" => "resolve" \in scene.caps[s.host]
  IN  SelectSeq(both, tried)

\* createGetReq: HEAD at the blobs endpoint of every host, then at the manifests endpoint.
HeadSources ==
  LET of(path) == [i \in DOMAIN scene.hosts |-> [host |-> scene.hosts[i], url |-> FALSE, path |-> path]]
  IN  of("blobs") \o of("manifests")

Ask(p, s, method, range) ==
  rq' = [rq EXCEPT ![p] = Request(s.host, ~s.url, method, s.path, RepositoryScope(FALSE), range, FALSE)]

\* remotes.Fetch: a descriptor of no bytes is refused, a writer that is complete is committed,
\* content that the descriptor carries is copied from it, a writer with a part is resumed.
FetchStart(p) ==
  /\ Op(p).kind = "fetch" /\ get[p].pc = "start"
  /\ \/ /\ Op(p).by = "zero"
        /\ get' = [get EXCEPT ![p].pc = "failed", ![p].err = "zero"]
     \/ /\ Op(p).by = "desc" /\ (Op(p).resume = Size \/ Op(p).inline)
        /\ get' = [get EXCEPT ![p].pc = "fetched", ![p].off = Size]
     \/ /\ Op(p).by = "desc" /\ Op(p).resume # Size /\ ~Op(p).inline
        /\ get' = [get EXCEPT ![p] = IF FilterHosts({{"pull"}}) = <<>>
                                     THEN [@ EXCEPT !.pc = "failed", !.err = "notfound"]
                                     ELSE [@ EXCEPT !.pc = "read", !.off = Op(p).resume]]
     \/ /\ Op(p).by = "digest"
        /\ get' = [get EXCEPT ![p] = IF FilterHosts({{"pull"}}) = <<>>
                                     THEN [@ EXCEPT !.pc = "failed", !.err = "notfound"]
                                     ELSE [@ EXCEPT !.pc = "find"]]
     \/ /\ Op(p).by = "referrers"
        /\ get' = [get EXCEPT ![p] = IF FilterHosts({{"resolve"}, {"referrers"}}) = <<>>
                                     THEN [@ EXCEPT !.pc = "failed", !.err = "notfound"]
                                     ELSE [@ EXCEPT !.pc = "read"]]
  /\ UNCHANGED <<authVars, res>>

\* FetchByDigest asks one source after the other; the request that finds it is kept.
FindAsk(p) ==
  /\ get[p].pc = "find" /\ rq[p].st = "idle"
  /\ Ask(p, HeadSources[get[p].k], "HEAD", 0)
  /\ UNCHANGED <<handlers, pool, epoch, budget, pullVars>>

FindAnswer(p) ==
  /\ get[p].pc = "find" /\ Done(p)
  /\ LET g == get[p]
         a == rq[p].ans
     IN  get' = [get EXCEPT ![p] =
           IF a.err = "none" /\ a.code < 300
           THEN [g EXCEPT !.pc = "read", !.host = rq[p].host, !.path = rq[p].path, !.k = 1]
           ELSE IF g.k = Len(HeadSources)
           THEN [g EXCEPT !.pc = "failed", !.err = "status"]
           ELSE [g EXCEPT !.k = @ + 1]]
  /\ rq' = [rq EXCEPT ![p] = NoRequest]
  /\ UNCHANGED <<handlers, pool, epoch, budget, res>>

\* The sources of open, and the Range header it sends: the kept request of FetchByDigest still
\* has the header of the open before when the offset is 0.
OpenSources(p) ==
  CASE Op(p).by = "desc"      -> Sources(p)
    [] Op(p).by = "digest"    -> <<[host |-> get[p].host, url |-> FALSE, path |-> get[p].path]>>
    [] Op(p).by = "referrers" -> ReferrerSources

RangeOf(p) ==
  IF get[p].off > 0 THEN get[p].off ELSE IF Op(p).by = "digest" THEN get[p].range ELSE 0

\* The HEAD of FetchByDigest had no length: the size of the reader is -1.
Unsized(p) == Op(p).by = "digest" /\ ~scene.length

\* httpReadSeeker.reader: nothing is opened at the end of the content, where it is known.
OpenAsk(p) ==
  /\ get[p].pc \in {"read", "reopen"} /\ get[p].rc = None /\ rq[p].st = "idle"
  /\ IF get[p].off < Size \/ Unsized(p)
     THEN /\ Ask(p, OpenSources(p)[get[p].k], "GET", RangeOf(p))
          /\ get' = [get EXCEPT ![p].range = RangeOf(p)]
     ELSE /\ get' = [get EXCEPT ![p].rc = Size, ![p].pc = "read"]
          /\ UNCHANGED rq
  /\ UNCHANGED <<handlers, pool, epoch, budget, res>>

\* Mutant: the bytes before the offset are not discarded.
Positioned_NoDiscard(p, a) == a.start

\* dockerFetcher.open: the body starts where the Content-Range says, and must be the offset; without
\* the header the bytes before the offset are discarded.
Positioned(p, a) ==
  IF get[p].off = 0 THEN a.start
  ELSE IF a.cr = None THEN a.start + get[p].off
  ELSE a.start

Opened(p, a) ==
  /\ a.err = "none" /\ a.code < 300
  /\ get[p].off > 0 /\ a.cr # None => a.cr = get[p].off

\* What an open that failed does: after a URL only "not found" leads on to the next source, after
\* a host any error does, among referrers only "not found".
LeadsOn(p, s, a) ==
  LET notfound == a.err = "none" /\ a.code = 404
  IN  get[p].k < Len(OpenSources(p)) /\ (notfound \/ ~(s.url \/ Op(p).by = "referrers"))

\* The body may end before the bytes to discard do.
MayBeShort(p) ==
  /\ "cut" \in scene.faults /\ budget > 0
  /\ Opened(p, rq[p].ans) /\ rq[p].ans.cr = None /\ get[p].off > 0

OpenAnswer(p) ==
  /\ get[p].pc \in {"read", "reopen"} /\ get[p].rc = None /\ Done(p)
  /\ \E short \in BOOLEAN :
       /\ short => MayBeShort(p)
       /\ budget' = IF short THEN budget - 1 ELSE budget
       /\ LET g == get[p]
              a == rq[p].ans
              s == OpenSources(p)[g.k]
          IN  get' = [get EXCEPT ![p] =
                IF Opened(p, a) /\ ~short THEN [g EXCEPT !.pc = "read", !.rc = Positioned(p, a), !.k = 1]
                ELSE IF LeadsOn(p, s, a) THEN [g EXCEPT !.k = @ + 1]
                ELSE [g EXCEPT !.pc = "failed", !.k = 1, !.err = IF g.pc = "reopen" THEN "cut" ELSE "open"]]
  /\ rq' = [rq EXCEPT ![p] = NoRequest]
  /\ UNCHANGED <<handlers, pool, epoch, res>>

Byte(g) == [off |-> g.off, byte |-> g.rc]

\* httpReadSeeker.Read hands on one byte.
ReadByte(p) ==
  /\ get[p].pc = "read" /\ get[p].rc # None /\ get[p].rc < Size
  /\ get' = [get EXCEPT ![p].off = @ + 1, ![p].rc = @ + 1, ![p].noprog = 0, ![p].read = Byte(get[p])]
  /\ UNCHANGED <<authVars, res>>

\* io.ErrUnexpectedEOF, with a byte or without: the body is opened again at the offset; errors that
\* bring nothing are counted.
ReadCut(p) ==
  /\ get[p].pc = "read" /\ get[p].rc # None /\ get[p].rc < Size
  /\ "cut" \in scene.faults /\ budget > 0
  /\ \E n \in {0, 1} :
       LET g  == get[p]
           np == IF n = 0 THEN g.noprog + 1 ELSE 0
       IN  get' = [get EXCEPT ![p] =
             IF np > MaxRetry
             THEN [g EXCEPT !.pc = "failed", !.err = "cut", !.noprog = np]
             ELSE [g EXCEPT !.pc = "reopen", !.rc = None, !.off = @ + n, !.noprog = np,
                            !.read = IF n = 0 THEN @ ELSE Byte(g)]]
  /\ budget' = budget - 1
  /\ UNCHANGED <<rq, handlers, pool, epoch, res>>

\* Any other error of the body ends the copy.
ReadError(p) ==
  /\ get[p].pc = "read" /\ get[p].rc # None /\ "net" \in scene.faults /\ budget > 0
  /\ get' = [get EXCEPT ![p].pc = "failed", ![p].err = "net"]
  /\ budget' = budget - 1
  /\ UNCHANGED <<rq, handlers, pool, epoch, res>>

\* io.EOF: the copy ends; content.Copy and Commit (external) want all of the content.
ReadEOF(p) ==
  /\ get[p].pc = "read" /\ get[p].rc # None /\ get[p].rc >= Size
  /\ get' = [get EXCEPT ![p].pc = IF get[p].off = Size THEN "fetched" ELSE "failed"]
  /\ UNCHANGED <<authVars, res>>

\* httpReadSeeker.Seek between two reads (content.Copy seeks when its writer was reset).
Seek(p) ==
  /\ get[p].pc = "read" /\ rq[p].st = "idle" /\ "seek" \in scene.ops
  /\ get[p].n < 1
  /\ \E abs \in 0..Size :
       /\ abs # get[p].off
       /\ get' = [get EXCEPT ![p].off = abs, ![p].rc = None, ![p].n = @ + 1]
  /\ UNCHANGED <<authVars, res>>

PullInit ==
  /\ res = [p \in Proc |-> NoResolve]
  /\ get = [p \in Proc |-> NoFetch]

PullStep(p) ==
  \/ ResolveStart(p) \/ ResolveHead(p) \/ ResolveGet(p) \/ RetryWithPlainHTTP(p)
  \/ FetchStart(p) \/ FindAsk(p) \/ FindAnswer(p) \/ OpenAsk(p) \/ OpenAnswer(p)
  \/ ReadByte(p) \/ ReadCut(p) \/ ReadError(p) \/ ReadEOF(p) \/ Seek(p)

\* Every byte a reader is given is the byte at its offset, over bodies that are cut, reopened at
\* another host, or sent from the start by a registry that ignores the range (open's Content-Range
\* check and discard, httpReadSeeker.Read and Seek).
BytesInOrder == \A p \in Proc : get[p].read # None => get[p].read.byte = get[p].read.off

\* A descriptor describes the manifest of one host that may be asked: digest and size belong
\* together, and only hosts trusted to resolve name a digest (Resolve).  The status of the GET
\* that follows a HEAD without a digest or a length is not looked at: its error page is described
\* as if it were the manifest.
ResolvedIsServed ==
  \A p \in Proc :
    res[p].pc = "resolved" /\ ~res[p].page =>
      \E h \in Host :
        /\ scene.manifest[h].dgst = res[p].desc.dgst
        /\ scene.manifest[h].size = res[p].desc.size
        /\ Op(p).ref = "tag" => "resolve" \in scene.caps[h]
=============================================================================
