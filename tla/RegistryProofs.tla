--------------------------- MODULE RegistryProofs ---------------------------
(***************************************************************************)
(* Proofs about RegistryClient, for any callers, hosts, scenes and bounds: *)
(* tokens are fetched once, bytes arrive in order, and what is called      *)
(* committed is stored.                                                    *)
(***************************************************************************)
EXTENDS RegistryClient, TLAPS

-----------------------------------------------------------------------------
(* Requests.                                                               *)

Scope == {"pull", "push", "from"}

\* The fields of a request.
ReqField == {"st", "host", "authz", "method", "path", "scopes", "range", "body", "n", "prev", "hdr",
             "hid", "ans"}
ReqOK(r) ==
  \/ r = NoRequest
  \/ r = [f \in ReqField |-> r[f]] /\ r.st # "idle" /\ r.scopes \subseteq Scope
Reqs == rq = [p \in Proc |-> rq[p]] /\ \A p \in Proc : ReqOK(rq[p])

\* What a caller asks for does not change while its request is under way, except that
\* a HEAD may be repeated as a GET.
SameReq(r, s) ==
  /\ ReqOK(s) /\ s.st # "idle"
  /\ s.host = r.host /\ s.path = r.path /\ s.scopes = r.scopes /\ s.range = r.range /\ s.body = r.body
  /\ s.method = r.method \/ (r.method = "HEAD" /\ s.method = "GET")
OtherReqs(p) == rq' = [q \in Proc |-> rq'[q]] /\ \A q \in Proc \ {p} : rq'[q] = rq[q]

\* A request that goes on to another state, and one that takes a handler.
Advances(p, st)      == rq' = [rq EXCEPT ![p].st = st]
TakesHandler(p, st, i) == rq' = [rq EXCEPT ![p].st = st, ![p].hid = i]

\* Neither changes what is asked for.
LEMMA ReqState ==
  ASSUME Reqs, NEW p \in Proc, rq[p].st # "idle", NEW st, st # "idle", NEW x
  PROVE  /\ Advances(p, st) =>
              OtherReqs(p) /\ SameReq(rq[p], rq'[p]) /\ rq'[p].st = st /\ rq'[p].ans = rq[p].ans
         /\ TakesHandler(p, st, x) =>
              OtherReqs(p) /\ SameReq(rq[p], rq'[p]) /\ rq'[p].st = st /\ rq'[p].hid = x
<1> DEFINE r == rq[p]
<1> DEFINE s == rq'[p]
<1>a. ReqOK(r) /\ r.st # "idle" /\ rq = [q \in Proc |-> rq[q]]
  BY DEF Reqs
<1>b. r = rq[p] /\ s = rq'[p]
  OBVIOUS
<1>c. r = [f \in ReqField |-> r[f]] /\ r.scopes \subseteq Scope
  BY <1>a DEF ReqOK, NoRequest
<1> HIDE DEF r, s
<1>1. ASSUME Advances(p, st)
      PROVE  OtherReqs(p) /\ SameReq(r, s) /\ s.st = st /\ s.ans = r.ans
  <2>1. OtherReqs(p) /\ s = [r EXCEPT !.st = st]
    BY <1>a, <1>b, <1>1 DEF OtherReqs, Advances
  <2> QED  BY <1>c, <2>1 DEF ReqOK, SameReq, ReqField
<1>2. ASSUME TakesHandler(p, st, x)
      PROVE  OtherReqs(p) /\ SameReq(r, s) /\ s.st = st /\ s.hid = x
  <2>1. OtherReqs(p) /\ s = [r EXCEPT !.st = st, !.hid = x]
    BY <1>a, <1>b, <1>2 DEF OtherReqs, TakesHandler
  <2> QED  BY <1>c, <2>1, Zenon DEF ReqOK, SameReq, ReqField
<1> QED  BY <1>b, <1>1, <1>2

\* A request that is sent, that ends, or that is made once more.
LEMMA ReqSteps ==
  ASSUME Reqs, NEW p \in Proc, rq[p].st # "idle", NEW x
  PROVE  /\ SendWith(p, x) => OtherReqs(p) /\ SameReq(rq[p], rq'[p]) /\ rq'[p].st = "send"
         /\ Finish(p, x) =>
              OtherReqs(p) /\ SameReq(rq[p], rq'[p]) /\ rq'[p].st = "done" /\ rq'[p].ans = x
         /\ Again(p, x) /\ (x = rq[p].method \/ (rq[p].method = "HEAD" /\ x = "GET")) =>
              OtherReqs(p) /\ SameReq(rq[p], rq'[p]) /\ rq'[p].st = "do"
<1> DEFINE r == rq[p]
<1> DEFINE s == rq'[p]
<1>a. ReqOK(r) /\ r.st # "idle" /\ rq = [q \in Proc |-> rq[q]]
  BY DEF Reqs
<1>b. r = rq[p] /\ s = rq'[p]
  OBVIOUS
<1>c. r = [f \in ReqField |-> r[f]] /\ r.scopes \subseteq Scope
  BY <1>a DEF ReqOK, NoRequest
<1> HIDE DEF r, s
<1>1. ASSUME SendWith(p, x) PROVE OtherReqs(p) /\ SameReq(r, s) /\ s.st = "send"
  <2>1. OtherReqs(p) /\ s = [r EXCEPT !.st = "send", !.hdr = x]
    BY <1>a, <1>b, <1>1 DEF OtherReqs, SendWith
  <2> QED  BY <1>c, <2>1, Zenon DEF ReqOK, SameReq, ReqField
<1>2. ASSUME Finish(p, x) PROVE OtherReqs(p) /\ SameReq(r, s) /\ s.st = "done" /\ s.ans = x
  <2>1. OtherReqs(p) /\ s = [r EXCEPT !.st = "done", !.ans = x]
    BY <1>a, <1>b, <1>2 DEF OtherReqs, Finish
  <2> QED  BY <1>c, <2>1, Zenon DEF ReqOK, SameReq, ReqField
<1>3. ASSUME Again(p, x), x = r.method \/ (r.method = "HEAD" /\ x = "GET")
      PROVE  OtherReqs(p) /\ SameReq(r, s) /\ s.st = "do"
  <2>1. OtherReqs(p) /\ s = [r EXCEPT !.st = "do", !.prev = r.method, !.method = x, !.hdr = None]
    BY <1>a, <1>b, <1>3, Zenon DEF OtherReqs, Again
  <2> QED  BY <1>c, <1>3, <2>1, Zenon DEF ReqOK, SameReq, ReqField
<1> QED  BY <1>b, <1>1, <1>2, <1>3

\* A step of the authorizer or of doWithRetries hands on the answer it was given, or
\* ends the request with an error.
AuthDoes(p) ==
  /\ OtherReqs(p) /\ rq[p].st # "idle" /\ SameReq(rq[p], rq'[p])
  /\ \/ rq'[p].st \notin {"resp", "done"}
     \/ rq'[p].st = "done" /\ rq'[p].ans.err # "none"
     \/ rq'[p].st = "done" /\ rq[p].st = "resp" /\ rq'[p].ans = rq[p].ans

\* Only doBearerAuth makes a caller fetch a token.
LEMMA AuthEffect ==
  ASSUME Reqs, NEW p \in Proc, AuthStep(p)
  PROVE  AuthDoes(p) /\ (rq'[p].st = "token" => DoBearerAuth(p))
<1>a. \A e : Failure(e).err = e
  BY DEF Failure
<1>b. ASSUME NEW t, UseToken(p, t), rq[p].st # "idle" PROVE AuthDoes(p) /\ rq'[p].st # "token"
  BY <1>a, <1>b, ReqSteps DEF UseToken, AuthDoes
<1>1. CASE Do(p)
  <2>1. rq[p].st = "do" /\ Advances(p, "auth")
    BY <1>1 DEF Do, Advances
  <2>2. OtherReqs(p) /\ SameReq(rq[p], rq'[p]) /\ rq'[p].st = "auth"
    BY <2>1, ReqState, Zenon
  <2> QED  BY <2>1, <2>2 DEF AuthDoes
<1>2. CASE AuthorizeNone(p) \/ DoBasicAuth(p)
  <2>1. rq[p].st = "auth" /\ \E h : SendWith(p, h)
    BY <1>2 DEF AuthorizeNone, DoBasicAuth
  <2> QED  BY <2>1, ReqSteps DEF AuthDoes
<1>3. CASE DoBearerAuth(p)
  <2>1. rq[p].st = "auth" /\ \E i : TakesHandler(p, "wait", i) \/ TakesHandler(p, "token", i)
    BY <1>3 DEF DoBearerAuth, TakesHandler
  <2>2. OtherReqs(p) /\ SameReq(rq[p], rq'[p]) /\ rq'[p].st \in {"wait", "token"}
    BY <2>1, ReqState, Zenon
  <2> QED  BY <1>3, <2>1, <2>2 DEF AuthDoes
<1>4. CASE Wait(p)
  BY <1>b, <1>4 DEF Wait
<1>5. CASE FetchToken(p)
  BY <1>b, <1>5 DEF FetchToken
<1>6. CASE RetryRequest(p)
  <2>1. /\ rq[p].st = "resp"
        /\ \/ Again(p, rq[p].method)
           \/ Again(p, "GET") /\ rq[p].method = "HEAD"
           \/ Finish(p, rq[p].ans) \/ Finish(p, Failure("invalid"))
           \/ Finish(p, Failure("realm")) \/ Finish(p, Failure("creds"))
    BY <1>6 DEF RetryRequest, AddResponses
  <2> QED  BY <1>a, <2>1, ReqSteps DEF AuthDoes
<1> QED  BY <1>1, <1>2, <1>3, <1>4, <1>5, <1>6 DEF AuthStep

\* A new request has the fields of a request, also when Resolve repeats its HEAD as a GET.
LEMMA RequestOK ==
  ASSUME NEW h, NEW authz, NEW method, NEW path, NEW scopes \in SUBSET Scope, NEW range, NEW body
  PROVE  ReqOK(Request(h, authz, method, path, scopes, range, body))
BY DEF Request, ReqOK, ReqField

\* The GET that follows a HEAD is a request.
LEMMA GetOK ==
  ASSUME NEW r, ReqOK(r), r.st = "do"
  PROVE  LET g == [r EXCEPT !.method = "GET"] IN ReqOK(g) /\ g.st = "do"
BY DEF ReqOK, ReqField, NoRequest

\* A caller starts a request or takes the result of one.
Asks(p, r) == rq' = [rq EXCEPT ![p] = r] /\ (r = NoRequest \/ (ReqOK(r) /\ r.st = "do"))

\* The requests of the others stay.
LEMMA AsksEffect ==
  ASSUME Reqs, NEW p \in Proc, NEW r, Asks(p, r)
  PROVE  OtherReqs(p) /\ rq'[p] = r
BY DEF Reqs, OtherReqs, Asks

\* The scopes that are asked for.
LEMMA ScopesOK ==
  /\ \A push \in BOOLEAN : RepositoryScope(push) \in SUBSET Scope
  /\ RepositoryScope(TRUE) \union {"from"} \in SUBSET Scope
BY DEF RepositoryScope, Scope

\* What the steps of Resolve and Fetch do to the request.
LEMMA PullAsks ==
  ASSUME Reqs, NEW p \in Proc, PullStep(p)
  PROVE  UNCHANGED rq \/ \E r : Asks(p, r)
<1>a. ASSUME rq' = [rq EXCEPT ![p] = NoRequest] PROVE Asks(p, NoRequest)
  BY <1>a DEF Asks
<1>o. ASSUME NEW i, NEW j PROVE ReqOK(HeadRequest(p, i, j)) /\ HeadRequest(p, i, j).st = "do"
  <2>1. RepositoryScope(FALSE) \in SUBSET Scope
    BY ScopesOK, Zenon
  <2>2. ReqOK(HeadRequest(p, i, j))
    BY <2>1, RequestOK, Zenon DEF HeadRequest
  <2> QED  BY <2>2 DEF HeadRequest, Request
<1>b. ASSUME NEW i, NEW j, rq' = [rq EXCEPT ![p] = HeadRequest(p, i, j)]
      PROVE  Asks(p, HeadRequest(p, i, j))
  BY <1>b, <1>o DEF Asks
<1>c. ASSUME NEW i, NEW j, rq' = [rq EXCEPT ![p] = [HeadRequest(p, i, j) EXCEPT !.method = "GET"]]
      PROVE  \E r : Asks(p, r)
  BY <1>c, <1>o, GetOK, Zenon DEF Asks
<1>d. ASSUME NEW s, NEW m, NEW g, Ask(p, s, m, g) PROVE \E r : Asks(p, r)
  <2>1. RepositoryScope(FALSE) \in SUBSET Scope
    BY ScopesOK, Zenon
  <2> DEFINE r == Request(s.host, ~s.url, m, s.path, RepositoryScope(FALSE), g, FALSE)
  <2>2. ReqOK(r)
    BY <2>1, RequestOK, Zenon
  <2>3. r.st = "do"
    BY DEF Request
  <2>4. rq' = [rq EXCEPT ![p] = r]
    BY <1>d DEF Ask
  <2> HIDE DEF r
  <2> QED  BY <2>2, <2>3, <2>4, Zenon DEF Asks
<1>e. ASSUME NEW r, NEW e, NextHost(p, r, e) \/ Fail(p, r, e) PROVE \E x : Asks(p, x)
  BY <1>a, <1>b, <1>e, Zenon DEF NextHost, Fail
<1>f. ASSUME NEW r, NEW d, NEW s, Described(p, r, d, s) PROVE \E x : Asks(p, x)
  BY <1>a, <1>e, <1>f, Zenon DEF Described
<1>1. CASE ResolveStart(p)
  BY <1>1, <1>b, Zenon DEF ResolveStart
<1>2. CASE ResolveHead(p)
  <2>1. \/ \E e : NextHost(p, res[p], e) \/ Fail(p, res[p], e)
        \/ \E d, s : Described(p, res[p], d, s)
        \/ rq' = [rq EXCEPT ![p] = [HeadRequest(p, res[p].i, res[p].j) EXCEPT !.method = "GET"]]
BY <1>2 DEF ResolveHead
  <2> QED  BY <1>c, <1>e, <1>f, <2>1, Zenon
<1>3. CASE ResolveGet(p)
  BY <1>3, <1>e, <1>f, Zenon DEF ResolveGet
<1>4. CASE RetryWithPlainHTTP(p) \/ FetchStart(p) \/ ReadByte(p) \/ ReadCut(p) \/ ReadError(p) \/ ReadEOF(p)
           \/ Seek(p)
  BY <1>4, Zenon DEF RetryWithPlainHTTP, FetchStart, ReadByte, ReadCut, ReadError, ReadEOF, Seek, authVars
<1>5. CASE FindAsk(p) \/ OpenAsk(p)
  BY <1>5, <1>d, Zenon DEF FindAsk, OpenAsk
<1>6. CASE FindAnswer(p) \/ OpenAnswer(p)
  BY <1>6, <1>a, Zenon DEF FindAnswer, OpenAnswer
<1> QED  BY <1>1, <1>2, <1>3, <1>4, <1>5, <1>6 DEF PullStep

\* A response or the error of client.Do.
Receives(p, a) ==
  /\ OtherReqs(p) /\ rq[p].st = "send" /\ SameReq(rq[p], rq'[p])
  /\ rq'[p].st \in {"resp", "done"} /\ rq'[p].ans = a

\* Receive is such a step.
LEMMA ReceiveEffect ==
  ASSUME Reqs, NEW p \in Proc, NEW a, Receive(p, a)
  PROVE  Receives(p, a)
<1>1. rq[p].st = "send"
  BY DEF Receive
<1>2. CASE Finish(p, a)
  BY <1>1, <1>2, ReqSteps DEF Receives
<1>3. CASE rq' = [rq EXCEPT ![p].st = "resp", ![p].ans = a, ![p].n = rq[p].n + 1]
  <2> DEFINE r == rq[p]
  <2> DEFINE s == rq'[p]
  <2>1. r = [f \in ReqField |-> r[f]] /\ r.scopes \subseteq Scope
    BY <1>1 DEF Reqs, ReqOK, NoRequest
  <2>2. OtherReqs(p) /\ s = [r EXCEPT !.st = "resp", !.ans = a, !.n = r.n + 1]
    BY <1>3, Zenon DEF Reqs, OtherReqs
  <2>3. r = rq[p] /\ s = rq'[p]
    OBVIOUS
  <2> HIDE DEF r, s
  <2>4. SameReq(r, s) /\ s.st = "resp" /\ s.ans = a
    BY <2>1, <2>2, Zenon DEF ReqOK, SameReq, ReqField
  <2> QED  BY <1>1, <2>2, <2>3, <2>4 DEF Receives
<1> QED  BY <1>2, <1>3 DEF Receive

\* The request whose body is sent goes on, once it has a pipe.
Sends(p) == OtherReqs(p) /\ rq[p].st = "do" /\ SameReq(rq[p], rq'[p]) /\ rq'[p].st = "auth"

\* What the steps of a push do to the request.
LEMMA PushAsks ==
  ASSUME Reqs, NEW p \in Proc, PushStep(p)
  PROVE  \/ UNCHANGED rq \/ Sends(p)
         \/ (\E r : Asks(p, r)) \/ Receives(p, Failure("net"))
<1>a. ASSUME rq' = [rq EXCEPT ![p] = NoRequest] PROVE Asks(p, NoRequest)
  BY <1>a DEF Asks
<1>b. ASSUME NEW h, NEW authz, NEW m, NEW path, NEW scopes \in SUBSET Scope, NEW g, NEW body,
             rq' = [rq EXCEPT ![p] = Request(h, authz, m, path, scopes, g, body)]
      PROVE  \E r : Asks(p, r)
  <2> DEFINE r == Request(h, authz, m, path, scopes, g, body)
  <2>1. ReqOK(r)
    BY <1>b, RequestOK
  <2>2. r.st = "do" /\ rq' = [rq EXCEPT ![p] = r]
    BY <1>b DEF Request
  <2> HIDE DEF r
  <2> QED  BY <2>1, <2>2, Zenon DEF Asks
<1>c. ASSUME NEW m, NEW path, rq' = [rq EXCEPT ![p] = PushRequest(p, m, path)] PROVE \E r : Asks(p, r)
  <2>1. RepositoryScope(TRUE) \union (IF path = "mount" THEN {"from"} ELSE {}) \in SUBSET Scope
    BY DEF RepositoryScope, Scope
  <2> QED  BY <1>b, <1>c, <2>1, Zenon DEF PushRequest
<1>d. ASSUME NEW h, NEW authz, NEW path, StartUpload(p, h, authz, path) PROVE \E r : Asks(p, r)
  BY <1>b, <1>d, ScopesOK, Zenon DEF StartUpload
<1>e. ASSUME NEW out, End(p, out) PROVE \E r : Asks(p, r)
  BY <1>a, <1>e DEF End
<1>1. CASE PushStart(p)
  <2>1. \/ \E out : End(p, out)
        \/ \E m, path : rq' = [rq EXCEPT ![p] = PushRequest(p, m, path)]
    BY <1>1, Zenon DEF PushStart
  <2> QED  BY <1>c, <1>e, <2>1
<1>2. CASE PushCheck(p)
  <2>1. ASSUME NEW path, AskUpload(p, path) PROVE \E r : Asks(p, r)
    BY <1>c, <2>1, Zenon DEF AskUpload
  <2> QED  BY <1>2, <1>d, <1>e, <2>1, Zenon DEF PushCheck, Exists
<1>3. CASE PushMount(p) \/ PushPost(p)
  <2>1. ASSUME NEW path, AskUpload(p, path) PROVE \E r : Asks(p, r)
    BY <1>c, <2>1, Zenon DEF AskUpload
  <2>2. ASSUME NEW a, PostAnswer(p, a) PROVE \E r : Asks(p, r)
    <3>1. Exists(p) \/ (\E h, authz, path : StartUpload(p, h, authz, path)) \/ End(p, "error")
      BY <2>2 DEF PostAnswer
    <3> QED  BY <1>d, <1>e, <3>1, Zenon DEF Exists
  <2> QED  BY <1>3, <1>e, <2>1, <2>2, Zenon DEF PushMount, PushPost
<1>4. CASE DoBody(p)
  <2>1. rq[p].st = "do" /\ (rq' = [rq EXCEPT ![p] = NoRequest] \/ Advances(p, "auth"))
    BY <1>4 DEF DoBody, Advances
  <2> QED  BY <1>a, <2>1, ReqState DEF Sends
<1>5. CASE BodyShort(p)
  BY <1>5, ReceiveEffect, Zenon DEF BodyShort
<1>6. CASE UploadDone(p)
  BY <1>6, <1>a, Zenon DEF UploadDone
<1>7. CASE BodyStart(p) \/ BodyRead(p) \/ ProviderFails(p) \/ WriteStart(p) \/ WriteEnd(p) \/ CommitStart(p)
           \/ CommitSelect(p) \/ CloseWriter(p)
  BY <1>7, Zenon DEF BodyStart, BodyRead, ProviderFails, WriteStart, WriteEnd, CommitStart, CommitSelect,
                     CloseWriter, authVars
<1> QED  BY <1>1, <1>2, <1>3, <1>4, <1>5, <1>6, <1>7, Zenon DEF PushStep

-----------------------------------------------------------------------------
(* Tokens.                                                                 *)

TokenType   == [scopes : SUBSET Scope, st : {"job", "ok", "fail"}, epoch : Nat]
HandlerType == [scheme : {"basic", "bearer"}, scopes : SUBSET Scope, tokens : SUBSET TokenType]
PoolOK ==
  /\ pool \in Seq(HandlerType) /\ epoch \in Nat
  /\ \A h \in DOMAIN handlers : handlers[h] \in 1..Len(pool)

\* The caller that fetches a token has entered it in the map of its handler.
JobOK(p) ==
  rq[p].st = "token" =>
    /\ rq[p].hid \in 1..Len(pool)
    /\ \E t \in pool[rq[p].hid].tokens : t.scopes = TokenScopes(rq[p], rq[p].hid)
TokenInv == Reqs /\ PoolOK /\ (\A p \in Proc : JobOK(p)) /\ OneTokenJob

\* A handler stays in the pool, with its scopes and a token for each scope it had one for.
PoolGrows ==
  \A i \in 1..Len(pool) :
    /\ i \in 1..Len(pool') /\ pool'[i].scopes = pool[i].scopes
    /\ \A t \in pool[i].tokens : \E u \in pool'[i].tokens : u.scopes = t.scopes

\* An entry of a handler is added or replaced.
LEMMA TokenAdded ==
  ASSUME PoolOK, NEW i \in 1..Len(pool), NEW S \in SUBSET TokenType,
         \A t \in pool[i].tokens : \E u \in S : u.scopes = t.scopes,
         pool' = [pool EXCEPT ![i].tokens = S], UNCHANGED <<handlers, epoch>>
  PROVE  PoolOK' /\ PoolGrows /\ Len(pool') = Len(pool) /\ pool'[i].tokens = S
<1>1. pool \in [1..Len(pool) -> HandlerType] /\ Len(pool) \in Nat
  BY DEF PoolOK
<1>2. /\ pool' \in [1..Len(pool) -> HandlerType]
      /\ pool'[i].scopes = pool[i].scopes /\ pool'[i].tokens = S
      /\ \A j \in 1..Len(pool) : j # i => pool'[j] = pool[j]
  BY <1>1 DEF HandlerType
<1>3. pool' \in Seq(HandlerType) /\ Len(pool') = Len(pool)
  BY <1>1, <1>2
<1> QED  BY <1>2, <1>3 DEF PoolOK, PoolGrows

\* A challenge adds a handler.
LEMMA HandlerAdded ==
  ASSUME PoolOK, NEW h, NEW scheme \in {"basic", "bearer"}, NEW scopes \in SUBSET Scope,
         NewAuthHandler(h, scheme, scopes), UNCHANGED epoch
  PROVE  PoolOK' /\ PoolGrows
<1> DEFINE a == [scheme |-> scheme, scopes |-> scopes, tokens |-> {}]
<1>1. a \in HandlerType /\ pool' = Append(pool, a)
  BY DEF HandlerType, NewAuthHandler
<1> HIDE DEF a
<1>2. /\ pool' \in Seq(HandlerType) /\ Len(pool') = Len(pool) + 1
      /\ \A i \in 1..Len(pool) : pool'[i] = pool[i]
  BY <1>1 DEF PoolOK
<1>3. \A g \in DOMAIN handlers' : handlers'[g] \in 1..Len(pool')
  BY <1>2 DEF PoolOK, NewAuthHandler
<1>4. PoolGrows
  BY <1>2 DEF PoolOK, PoolGrows
<1> QED  BY <1>2, <1>3, <1>4 DEF PoolOK

\* The fields of a handler.
LEMMA HandlerOK ==
  ASSUME PoolOK, NEW i \in 1..Len(pool)
  PROVE  pool[i].scopes \in SUBSET Scope /\ pool[i].tokens \in SUBSET TokenType
<1>1. pool[i] \in HandlerType
  BY DEF PoolOK
<1> QED  BY <1>1 DEF HandlerType

\* The scopes a token is asked for.
LEMMA TokenScopesOK ==
  ASSUME Reqs, PoolOK, NEW p \in Proc, rq[p].st # "idle", NEW i \in 1..Len(pool)
  PROVE  TokenScopes(rq[p], i) \in SUBSET Scope
<1> DEFINE r == rq[p]
<1>0. ReqOK(r) /\ r.st # "idle"
  BY DEF Reqs
<1>1. r.scopes \subseteq Scope
  <2> HIDE DEF r
  <2> QED  BY <1>0 DEF ReqOK, NoRequest
<1>2. pool[i].scopes \subseteq Scope
  BY HandlerOK
<1> QED  BY <1>1, <1>2 DEF TokenScopes

\* The first caller of a scope enters the token it is going to fetch.
LEMMA BearerEffect ==
  ASSUME Reqs, PoolOK, NEW p \in Proc, DoBearerAuth(p)
  PROVE  /\ PoolOK' /\ PoolGrows
         /\ rq'[p].st = "token" =>
              /\ rq'[p].hid \in 1..Len(pool')
              /\ \A t \in pool[rq'[p].hid].tokens : t.scopes # TokenScopes(rq[p], rq'[p].hid)
              /\ \E t \in pool'[rq'[p].hid].tokens : t.scopes = TokenScopes(rq[p], rq'[p].hid)
<1> DEFINE i == handlers[rq[p].host]
<1> DEFINE scoped == TokenScopes(rq[p], i)
<1>1. i \in 1..Len(pool) /\ rq[p].st = "auth" /\ UNCHANGED <<handlers, epoch>>
  BY DEF DoBearerAuth, PoolOK
<1>2. scoped \in SUBSET Scope
  BY <1>1, TokenScopesOK
<1>3. \/ TakesHandler(p, "wait", i) /\ UNCHANGED pool
      \/ /\ TakesHandler(p, "token", i)
         /\ \A t \in pool[i].tokens : t.scopes # scoped
         /\ pool' = [pool EXCEPT ![i].tokens = @ \union {[scopes |-> scoped, st |-> "job", epoch |-> 0]}]
  BY DEF DoBearerAuth, TakesHandler
<1> HIDE DEF i, scoped
<1>4. CASE TakesHandler(p, "wait", i) /\ UNCHANGED pool
  <2>1. rq'[p].st = "wait"
    BY <1>1, <1>4, ReqState, Zenon
  <2> QED  BY <1>1, <1>4, <2>1 DEF PoolOK, PoolGrows
<1>5. CASE /\ TakesHandler(p, "token", i)
           /\ \A t \in pool[i].tokens : t.scopes # scoped
           /\ pool' = [pool EXCEPT ![i].tokens = @ \union {[scopes |-> scoped, st |-> "job", epoch |-> 0]}]
  <2> DEFINE new == [scopes |-> scoped, st |-> "job", epoch |-> 0]
  <2> DEFINE S == pool[i].tokens \union {new}
  <2>1. rq'[p].st = "token" /\ rq'[p].hid = i
    BY <1>1, <1>5, ReqState, Zenon
  <2>2. new \in TokenType /\ new.scopes = scoped
    BY <1>2 DEF TokenType
  <2> HIDE DEF new
  <2>a. pool[i].tokens \subseteq TokenType
    BY <1>1, HandlerOK
  <2>3. S \in SUBSET TokenType
    BY <2>a, <2>2
  <2>4. pool' = [pool EXCEPT ![i].tokens = S]
    BY <1>5 DEF new
  <2>6. new \in S /\ \A t \in pool[i].tokens : \E u \in S : u.scopes = t.scopes
    OBVIOUS
  <2> HIDE DEF S
  <2>5. PoolOK' /\ PoolGrows /\ Len(pool') = Len(pool) /\ pool'[i].tokens = S
    BY <1>1, <2>3, <2>4, <2>6, TokenAdded, Zenon
  <2> QED  BY <1>1, <1>5, <2>1, <2>2, <2>5, <2>6 DEF scoped
<1> QED  BY <1>3, <1>4, <1>5

\* The result of a fetch replaces the entry of its scope.
LEMMA FetchEffect ==
  ASSUME Reqs, PoolOK, NEW p \in Proc, JobOK(p), FetchToken(p)
  PROVE  PoolOK' /\ PoolGrows
<1> DEFINE i == rq[p].hid
<1> DEFINE scoped == TokenScopes(rq[p], i)
<1>1. i \in 1..Len(pool) /\ rq[p].st = "token" /\ UNCHANGED <<handlers, epoch>>
  BY DEF FetchToken, JobOK
<1>2. scoped \in SUBSET Scope
  BY <1>1, TokenScopesOK
<1>3. PICK o \in FetchedToken :
        pool' = [pool EXCEPT ![i].tokens = {u \in @ : u.scopes # scoped}
                                             \union {[scopes |-> scoped, st |-> o, epoch |-> epoch]}]
  BY Zenon DEF FetchToken
<1>4. o \in {"ok", "fail"}
  BY DEF FetchedToken, OAuthAnswers, GetAnswers
<1> HIDE DEF i, scoped
<1> DEFINE new == [scopes |-> scoped, st |-> o, epoch |-> epoch]
<1> DEFINE S == {u \in pool[i].tokens : u.scopes # scoped} \union {new}
<1>5. new \in TokenType /\ new.scopes = scoped
  BY <1>2, <1>4 DEF TokenType, PoolOK
<1>6. pool' = [pool EXCEPT ![i].tokens = S]
  BY <1>3
<1> HIDE DEF new
<1>a. pool[i].tokens \subseteq TokenType
  BY <1>1, HandlerOK
<1>7. S \in SUBSET TokenType
  BY <1>a, <1>5
<1>8. \A t \in pool[i].tokens : \E u \in S : u.scopes = t.scopes
  BY <1>5
<1> HIDE DEF S
<1> QED  BY <1>1, <1>6, <1>7, <1>8, TokenAdded, Zenon

\* A step that touches no handler.
LEMMA PoolSame ==
  ASSUME PoolOK, UNCHANGED <<handlers, pool, epoch>>
  PROVE  PoolOK' /\ PoolGrows
BY DEF PoolOK, PoolGrows

\* A response with a challenge adds a handler, keeps the one of the host or deletes it from the map.
LEMMA RetryEffect ==
  ASSUME Reqs, PoolOK, NEW p \in Proc, RetryRequest(p)
  PROVE  PoolOK' /\ PoolGrows
<1> DEFINE r == rq[p]
<1>0. ReqOK(r) /\ r.st # "idle"
  BY DEF Reqs, RetryRequest
<1>1. r.scopes \in SUBSET Scope /\ {} \in SUBSET Scope
  <2> HIDE DEF r
  <2> QED  BY <1>0 DEF ReqOK, NoRequest
<1>2. /\ UNCHANGED epoch
      /\ \/ UNCHANGED <<handlers, pool>>
         \/ NewAuthHandler(r.host, "bearer", r.scopes) \/ NewAuthHandler(r.host, "basic", {})
         \/ handlers' = [g \in DOMAIN handlers \ {r.host} |-> handlers[g]] /\ UNCHANGED pool
  BY DEF RetryRequest, AddResponses
<1>3. ASSUME handlers' = [g \in DOMAIN handlers \ {r.host} |-> handlers[g]], UNCHANGED pool
      PROVE  PoolOK' /\ PoolGrows
  <2>1. DOMAIN handlers' \subseteq DOMAIN handlers /\ \A h \in DOMAIN handlers' : handlers'[h] = handlers[h]
    BY <1>3
  <2> QED  BY <1>2, <1>3, <2>1 DEF PoolOK, PoolGrows
<1>4. ASSUME NewAuthHandler(r.host, "bearer", r.scopes) PROVE PoolOK' /\ PoolGrows
  BY <1>1, <1>2, <1>4, HandlerAdded
<1>5. ASSUME NewAuthHandler(r.host, "basic", {}) PROVE PoolOK' /\ PoolGrows
  BY <1>1, <1>2, <1>5, HandlerAdded
<1> QED  BY <1>2, <1>3, <1>4, <1>5, PoolSame

\* Every step keeps the pool well formed, and no step takes a handler or the entry of a scope from it.
LEMMA PoolStep ==
  ASSUME Reqs, PoolOK, \A p \in Proc : JobOK(p), [Next]_vars
  PROVE  PoolOK' /\ PoolGrows
<1>1. ASSUME NEW p \in Proc, Auth(p) PROVE PoolOK' /\ PoolGrows
  <2>1. CASE Do(p) \/ AuthorizeNone(p) \/ DoBasicAuth(p) \/ Wait(p)
    BY <2>1, PoolSame DEF Do, AuthorizeNone, DoBasicAuth, Wait
  <2> QED  BY <1>1, <2>1, BearerEffect, FetchEffect, RetryEffect DEF Auth, AuthStep
<1>2. ASSUME NEW p \in Proc, Pull(p) PROVE PoolOK' /\ PoolGrows
  <2>1. UNCHANGED <<handlers, pool, epoch>>
    BY <1>2, Zenon DEF Pull, PullStep, ResolveStart, ResolveHead, ResolveGet, RetryWithPlainHTTP, FetchStart, FindAsk,
              FindAnswer, OpenAsk, OpenAnswer, ReadByte, ReadCut, ReadError, ReadEOF, Seek, authVars
  <2> QED  BY <2>1, PoolSame
<1>3. ASSUME NEW p \in Proc, Push(p) PROVE PoolOK' /\ PoolGrows
  <2>1. UNCHANGED <<handlers, pool, epoch>>
    BY <1>3, Zenon DEF Push, PushStep, PushStart, PushCheck, PushMount, PushPost, DoBody, BodyStart, BodyRead, BodyShort,
              UploadDone, ProviderFails, WriteStart, WriteEnd, CommitStart, CommitSelect, CloseWriter, authVars,
              Receive
  <2> QED  BY <2>1, PoolSame
<1>4. ASSUME NEW p \in Proc, Reply(p) \/ Fails(p) PROVE PoolOK' /\ PoolGrows
  <2>1. UNCHANGED <<handlers, pool, epoch>>
    BY <1>4, Zenon DEF Reply, Fails, Receive
  <2> QED  BY <2>1, PoolSame
<1>5. CASE Expires
  BY <1>5 DEF Expires, Expire, PoolOK, PoolGrows
<1>6. CASE UNCHANGED vars
  BY <1>6, PoolSame DEF vars, authVars
<1> QED  BY <1>1, <1>2, <1>3, <1>4, <1>5, <1>6 DEF Next

\* What a step does to the requests: one caller's at most, which is well formed, and fetches a token only
\* after doBearerAuth.
ReqMoves(p) == OtherReqs(p) /\ ReqOK(rq'[p]) /\ (rq'[p].st = "token" => DoBearerAuth(p))

\* Every step leaves the requests alone or moves one caller's.
LEMMA ReqStep ==
  ASSUME Reqs, [Next]_vars
  PROVE  UNCHANGED rq \/ \E p \in Proc : ReqMoves(p)
<1>a. ASSUME NEW p \in Proc, NEW r, Asks(p, r) PROVE ReqMoves(p)
  <2>1. OtherReqs(p) /\ rq'[p] = r
    BY <1>a, AsksEffect
  <2>2. ReqOK(r) /\ r.st # "token"
    BY <1>a DEF Asks, ReqOK, NoRequest
  <2> QED  BY <2>1, <2>2 DEF ReqMoves
<1>b. ASSUME NEW p \in Proc, NEW a, Receives(p, a) PROVE ReqMoves(p)
  BY <1>b DEF Receives, ReqMoves, SameReq
<1>c. ASSUME NEW p \in Proc, Sends(p) PROVE ReqMoves(p)
  BY <1>c DEF Sends, ReqMoves, SameReq
<1>1. ASSUME NEW p \in Proc, Auth(p) PROVE ReqMoves(p)
  BY <1>1, AuthEffect DEF Auth, AuthDoes, ReqMoves, SameReq
<1>2. ASSUME NEW p \in Proc, Pull(p) PROVE UNCHANGED rq \/ ReqMoves(p)
  BY <1>2, <1>a, PullAsks DEF Pull
<1>3. ASSUME NEW p \in Proc, Push(p) PROVE UNCHANGED rq \/ ReqMoves(p)
  BY <1>3, <1>a, <1>b, <1>c, PushAsks DEF Push
<1>4. ASSUME NEW p \in Proc, Reply(p) \/ Fails(p) PROVE ReqMoves(p)
  <2>1. \E a : Receive(p, a)
    BY <1>4, Zenon DEF Reply, Fails
  <2> QED  BY <1>b, <2>1, ReceiveEffect
<1>5. CASE Expires \/ UNCHANGED vars
  BY <1>5 DEF Expires, Expire, vars, authVars
<1> QED  BY <1>1, <1>2, <1>3, <1>4, <1>5 DEF Next

\* A caller whose request stays keeps the entry it has made.
LEMMA JobKept ==
  ASSUME PoolGrows, NEW q \in Proc, JobOK(q), rq'[q] = rq[q]
  PROVE  /\ JobOK(q)'
         /\ rq[q].st = "token" => TokenScopes(rq[q], rq[q].hid)' = TokenScopes(rq[q], rq[q].hid)
<1>1. rq[q].st = "token" =>
        /\ rq[q].hid \in 1..Len(pool') /\ pool'[rq[q].hid].scopes = pool[rq[q].hid].scopes
        /\ \E u \in pool'[rq[q].hid].tokens : u.scopes = TokenScopes(rq[q], rq[q].hid)
  BY DEF JobOK, PoolGrows
<1> QED  BY <1>1 DEF JobOK, TokenScopes

\* The inductive step: a caller that begins to fetch a token found no entry for its scopes, the callers that
\* fetch one have each made theirs.
LEMMA TokenStep ==
  ASSUME TokenInv, [Next]_vars
  PROVE  TokenInv'
<1>1. PoolOK' /\ PoolGrows
  BY PoolStep DEF TokenInv
<1>2. CASE UNCHANGED rq
  <2>1. \A q \in Proc : JobOK(q)' /\ (rq[q].st = "token" =>
                          TokenScopes(rq[q], rq[q].hid)' = TokenScopes(rq[q], rq[q].hid))
    BY <1>1, <1>2, JobKept DEF TokenInv
  <2> QED  BY <1>1, <1>2, <2>1 DEF TokenInv, Reqs, OneTokenJob
<1>3. ASSUME NEW p \in Proc, ReqMoves(p) PROVE TokenInv'
  <2>1. \A q \in Proc \ {p} : /\ rq'[q] = rq[q] /\ JobOK(q)'
                              /\ rq[q].st = "token" =>
                                   TokenScopes(rq[q], rq[q].hid)' = TokenScopes(rq[q], rq[q].hid)
    BY <1>1, <1>3, JobKept DEF TokenInv, ReqMoves, OtherReqs
  <2>2. Reqs'
    BY <1>3 DEF TokenInv, Reqs, ReqMoves, OtherReqs
  <2>3. ASSUME NEW i, i = rq'[p].hid, rq'[p].st = "token"
        PROVE  /\ i \in 1..Len(pool) /\ i \in 1..Len(pool')
               /\ TokenScopes(rq[p], i)' = TokenScopes(rq[p], i)
               /\ \A t \in pool[i].tokens : t.scopes # TokenScopes(rq[p], i)
               /\ \E t \in pool'[i].tokens : t.scopes = TokenScopes(rq[p], i)
    <3>1. DoBearerAuth(p)
      BY <1>3, <2>3 DEF ReqMoves
    <3>2. /\ i \in 1..Len(pool') /\ \A t \in pool[i].tokens : t.scopes # TokenScopes(rq[p], i)
          /\ \E t \in pool'[i].tokens : t.scopes = TokenScopes(rq[p], i)
      BY <2>3, <3>1, BearerEffect DEF TokenInv
    <3>3. i \in 1..Len(pool) /\ rq[p].st = "auth"
      <4> DEFINE h == handlers[rq[p].host]
      <4>1. rq[p].st = "auth" /\ h \in 1..Len(pool)
        BY <3>1 DEF DoBearerAuth, TokenInv, PoolOK
      <4>2. TakesHandler(p, "wait", h) \/ TakesHandler(p, "token", h)
        BY <3>1 DEF DoBearerAuth, TakesHandler
      <4> HIDE DEF h
      <4>3. rq'[p].hid = h
        BY <4>1, <4>2, ReqState, Zenon DEF TokenInv
      <4> QED  BY <2>3, <4>1, <4>3
    <3>4. rq'[p].scopes = rq[p].scopes
      BY <3>1, AuthEffect DEF AuthStep, AuthDoes, SameReq, TokenInv
    <3> QED  BY <1>1, <3>2, <3>3, <3>4 DEF TokenScopes, PoolGrows
  <2>4. JobOK(p)'
    <3>1. SUFFICES ASSUME NEW i, i = rq'[p].hid, rq'[p].st = "token"
                   PROVE  /\ i \in 1..Len(pool')
                          /\ \E t \in pool'[i].tokens : t.scopes = TokenScopes(rq[p], i)'
      BY DEF JobOK, TokenScopes
    <3> QED  BY <2>3, <3>1
  <2>5. ASSUME NEW i, i = rq'[p].hid, NEW q \in Proc \ {p}, rq'[p].st = "token", rq'[q].st = "token",
               rq'[q].hid = i
        PROVE  TokenScopes(rq[q], i)' # TokenScopes(rq[p], i)'
    <3>1. rq[q].hid = i /\ rq[q].st = "token"
      BY <2>1, <2>5
    <3>2. PICK t \in pool[i].tokens : t.scopes = TokenScopes(rq[q], i)
      BY <3>1 DEF TokenInv, JobOK
    <3>3. TokenScopes(rq[q], i)' = TokenScopes(rq[q], i)
      BY <2>1, <3>1 DEF TokenScopes
    <3> QED  BY <2>3, <2>5, <3>2, <3>3
  <2>6. OneTokenJob'
    BY <2>1, <2>5 DEF OneTokenJob, TokenInv, TokenScopes
  <2> QED  BY <1>1, <2>1, <2>2, <2>4, <2>6 DEF TokenInv
<1>4. Reqs
  BY DEF TokenInv
<1> QED  BY <1>2, <1>3, <1>4, ReqStep

\* The token of a scope is fetched by one caller at a time, for any callers, hosts, scenes and faults
\* (dockerAuthorizer.authorize and authHandler.doBearerAuth).
THEOREM TokensFetchedOnce == Spec => []OneTokenJob
<1>1. Init => TokenInv
  BY DEF Init, AuthInit, TokenInv, Reqs, ReqOK, NoRequest, PoolOK, JobOK, OneTokenJob
<1>2. TokenInv => OneTokenJob
  BY DEF TokenInv
<1> QED  BY <1>1, <1>2, TokenStep, PTL DEF Spec

-----------------------------------------------------------------------------
(* Pushes.                                                                 *)

\* The fields of a push and of a Status.
PushField == {"pc", "out", "go", "chan", "closed", "errC", "resp", "pipes", "w", "wpc", "snap", "sent",
              "resets"}
IsPush(w)   == w = [f \in PushField |-> w[f]]
IsStatus(x) == x = [f \in {"committed", "offset", "closed"} |-> x[f]]
Pushes      == psh = [p \in Proc |-> psh[p]] /\ \A p \in Proc : IsPush(psh[p])

\* One push moves: where push() and its writer are, what it reports, its goroutine, the response it
\* got and the Status its Write has read.
Writes(p, pc, out, go, resp, wpc, snap) ==
  /\ psh' = [q \in Proc |-> psh'[q]] /\ \A q \in Proc \ {p} : psh'[q] = psh[q]
  /\ IsPush(psh'[p])
  /\ psh'[p].pc = pc /\ psh'[p].out = out /\ psh'[p].go = go /\ psh'[p].resp = resp
  /\ psh'[p].wpc = wpc /\ psh'[p].snap = snap

\* push() ends, or content.Copy does.
LEMMA EndEffect ==
  ASSUME Pushes, NEW p \in Proc, NEW out, End(p, out) \/ \E x : Closing(p, out, x)
  PROVE  \E pc : /\ IF End(p, out) THEN pc = "end" ELSE pc = "closing"
                 /\ Writes(p, pc, out, psh[p].go, psh[p].resp, psh[p].wpc, psh[p].snap)
<1> DEFINE w == psh[p]
<1> DEFINE v == psh'[p]
<1>a. IsPush(w) /\ psh = [q \in Proc |-> psh[q]] /\ w = psh[p] /\ v = psh'[p]
  BY DEF Pushes
<1>1. PICK pc : /\ IF End(p, out) THEN pc = "end" ELSE pc = "closing"
                /\ psh' = [psh EXCEPT ![p].pc = pc, ![p].out = out]
  BY DEF End, Closing
<1> HIDE DEF w, v
<1>2. /\ psh' = [q \in Proc |-> psh'[q]] /\ \A q \in Proc \ {p} : psh'[q] = psh[q]
      /\ v = [w EXCEPT !.pc = pc, !.out = out]
  BY <1>a, <1>1
<1>3. IsPush(v) /\ v.pc = pc /\ v.out = out
  BY <1>a, <1>2, Zenon DEF IsPush, PushField
<1>4. v.go = w.go /\ v.resp = w.resp /\ v.wpc = w.wpc /\ v.snap = w.snap
  BY <1>a, <1>2 DEF IsPush, PushField
<1> QED  BY <1>a, <1>1, <1>2, <1>3, <1>4 DEF Writes

\* push() starts the upload, or asks where it goes.
LEMMA UploadEffect ==
  ASSUME Pushes, NEW p \in Proc
  PROVE  /\ \A h, authz, path : StartUpload(p, h, authz, path) =>
              Writes(p, "copy", psh[p].out, "run", psh[p].resp, psh[p].wpc, psh[p].snap)
         /\ \A path : AskUpload(p, path) => \E pc :
              /\ pc = IF path = "mount" THEN "mount" ELSE "post"
              /\ Writes(p, pc, psh[p].out, psh[p].go, psh[p].resp, psh[p].wpc, psh[p].snap)
<1> DEFINE w == psh[p]
<1> DEFINE v == psh'[p]
<1>a. IsPush(w) /\ psh = [q \in Proc |-> psh[q]] /\ w = psh[p] /\ v = psh'[p]
  BY DEF Pushes
<1> HIDE DEF w, v
<1>1. ASSUME NEW h, NEW authz, NEW path, StartUpload(p, h, authz, path)
      PROVE  Writes(p, "copy", w.out, "run", w.resp, w.wpc, w.snap)
  <2>1. /\ psh' = [q \in Proc |-> psh'[q]] /\ \A q \in Proc \ {p} : psh'[q] = psh[q]
        /\ v = [w EXCEPT !.pc = "copy", !.go = "run"]
    BY <1>a, <1>1 DEF StartUpload
  <2>2. IsPush(v) /\ v.pc = "copy" /\ v.go = "run"
    BY <1>a, <2>1, Zenon DEF IsPush, PushField
  <2>3. v.out = w.out /\ v.resp = w.resp /\ v.wpc = w.wpc /\ v.snap = w.snap
    BY <1>a, <2>1 DEF IsPush, PushField
  <2> QED  BY <1>a, <2>1, <2>2, <2>3 DEF Writes
<1>2. ASSUME NEW path, NEW pc, pc = (IF path = "mount" THEN "mount" ELSE "post"), AskUpload(p, path)
      PROVE  Writes(p, pc, w.out, w.go, w.resp, w.wpc, w.snap)
  <2>1. /\ psh' = [q \in Proc |-> psh'[q]] /\ \A q \in Proc \ {p} : psh'[q] = psh[q]
        /\ v = [w EXCEPT !.pc = pc]
    BY <1>a, <1>2 DEF AskUpload
  <2>2. IsPush(v) /\ v.pc = pc /\ v.go = w.go
    BY <1>a, <2>1 DEF IsPush, PushField
  <2>3. v.out = w.out /\ v.resp = w.resp /\ v.wpc = w.wpc /\ v.snap = w.snap
    BY <1>a, <2>1 DEF IsPush, PushField
  <2> QED  BY <1>a, <2>1, <2>2, <2>3 DEF Writes
<1> QED  BY <1>a, <1>1, <1>2

\* What a push is afterwards.
Becomes(p, x) == psh' = [psh EXCEPT ![p] = x]

\* A push that becomes x has x's fields, and the other pushes stay.
LEMMA BecomesEffect ==
  ASSUME Pushes, NEW p \in Proc, NEW x, IsPush(x), Becomes(p, x)
  PROVE  Writes(p, x.pc, x.out, x.go, x.resp, x.wpc, x.snap)
BY DEF Pushes, Becomes, Writes

\* Closing the writer touches its pipe and its channel alone.
LEMMA ClosedWriterOK ==
  ASSUME NEW w, IsPush(w)
  PROVE  LET c == ClosedWriter(w)
         IN  /\ IsPush(c) /\ c.pc = w.pc /\ c.out = w.out /\ c.go = w.go /\ c.resp = w.resp
             /\ c.wpc = w.wpc /\ c.snap = w.snap
<1> DEFINE c == [w EXCEPT !.closed = TRUE]
<1> DEFINE y == [c.pipes EXCEPT ![w.w] = Close(c.pipes[w.w])]
<1>1. ClosedWriter(w) = IF w.w = 0 THEN c ELSE [c EXCEPT !.pipes = y]
  BY DEF ClosedWriter
<1>2. /\ IsPush(c) /\ c.pc = w.pc /\ c.out = w.out /\ c.go = w.go /\ c.resp = w.resp
      /\ c.wpc = w.wpc /\ c.snap = w.snap
  BY Zenon DEF IsPush, PushField
<1> HIDE DEF c, y
<1>3. LET d == [c EXCEPT !.pipes = y]
      IN  /\ IsPush(d) /\ d.pc = c.pc /\ d.out = c.out /\ d.go = c.go /\ d.resp = c.resp
          /\ d.wpc = c.wpc /\ d.snap = c.snap
  BY <1>2 DEF IsPush, PushField
<1> QED  BY <1>1, <1>2, <1>3

\* Restart gives the copy up, or starts it again.
LEMMA RestartEffect ==
  ASSUME Pushes, NEW p \in Proc, NEW x, IsPush(x), Restart(p, x)
  PROVE  \/ Writes(p, "closing", "error", x.go, x.resp, x.wpc, x.snap)
         \/ Writes(p, x.pc, x.out, x.go, x.resp, "next", x.snap)
<1> DEFINE y == [x EXCEPT !.pc = "closing", !.out = "error"]
<1> DEFINE z == [x EXCEPT !.sent = 0, !.wpc = "next", !.resets = x.resets + 1]
<1>1. Becomes(p, y) \/ Becomes(p, z)
  BY Zenon DEF Restart, Becomes
<1>2. IsPush(y) /\ y.pc = "closing" /\ y.out = "error" /\ y.go = x.go
  BY Zenon DEF IsPush, PushField
<1>3. y.resp = x.resp /\ y.wpc = x.wpc /\ y.snap = x.snap
  BY DEF IsPush, PushField
<1>4. IsPush(z) /\ z.pc = x.pc /\ z.out = x.out /\ z.go = x.go
  BY Zenon DEF IsPush, PushField
<1>5. z.resp = x.resp /\ z.wpc = "next" /\ z.snap = x.snap
  BY DEF IsPush, PushField
<1> HIDE DEF y, z
<1>6. ASSUME Becomes(p, y) PROVE Writes(p, "closing", "error", x.go, x.resp, x.wpc, x.snap)
  <2>1. Writes(p, y.pc, y.out, y.go, y.resp, y.wpc, y.snap)
    BY <1>2, <1>6, BecomesEffect
  <2> QED  BY <1>2, <1>3, <2>1
<1>7. ASSUME Becomes(p, z) PROVE Writes(p, x.pc, x.out, x.go, x.resp, "next", x.snap)
  <2>1. Writes(p, z.pc, z.out, z.go, z.resp, z.wpc, z.snap)
    BY <1>4, <1>7, BecomesEffect
  <2> QED  BY <1>4, <1>5, <2>1
<1> QED  BY <1>1, <1>6, <1>7

\* The reader of a pipe comes or goes.
ReaderIs(p, k, x) == psh' = [psh EXCEPT ![p].pipes[k].reader = x]

\* Then nothing else of the push changes, nor any other push.
LEMMA PipeEffect ==
  ASSUME Pushes, NEW p \in Proc, NEW k, NEW x, ReaderIs(p, k, x)
  PROVE  Writes(p, psh[p].pc, psh[p].out, psh[p].go, psh[p].resp, psh[p].wpc, psh[p].snap)
<1> DEFINE w == psh[p]
<1> DEFINE v == psh'[p]
<1>a. IsPush(w) /\ psh = [q \in Proc |-> psh[q]] /\ w = psh[p] /\ v = psh'[p]
  BY DEF Pushes
<1>1. psh' = [psh EXCEPT ![p].pipes[k].reader = x]
  BY DEF ReaderIs
<1> HIDE DEF w, v
<1> DEFINE y == [w.pipes EXCEPT ![k].reader = x]
<1>2. /\ psh' = [q \in Proc |-> psh'[q]] /\ \A q \in Proc \ {p} : psh'[q] = psh[q]
      /\ v = [w EXCEPT !.pipes = y]
  BY <1>a, <1>1
<1> HIDE DEF y
<1>3. IsPush(v) /\ v.pc = w.pc /\ v.out = w.out /\ v.go = w.go
  BY <1>a, <1>2 DEF IsPush, PushField
<1>4. v.resp = w.resp /\ v.wpc = w.wpc /\ v.snap = w.snap
  BY <1>a, <1>2 DEF IsPush, PushField
<1> QED  BY <1>a, <1>2, <1>3, <1>4 DEF Writes

\* The content is at the registry that is pushed to.
AtRegistry == PushHosts[1] \in stored

\* A Status, which calls nothing committed that is not there.
Tracked(x, at) == IsStatus(x) /\ (x.committed => at)

\* A push before its upload has no goroutine; a good response and a good report mean that the content is
\* there, and so does a Status that Write has read.
WriterOK(w, at) ==
  /\ IsPush(w)
  /\ w.go = "run" => w.pc \notin {"start", "check", "mount", "post"}
  /\ w.resp # None /\ Accepted(w.resp) => at
  /\ w.out \in {"ok", "exists"} => at
  /\ w.wpc \in {"writing", "wrote"} => Tracked(w.snap, at)

Answered(r) == r.st \in {"resp", "done"} /\ r.ans.err = "none"

\* The requests of a push and what their answers mean: the existence check, the POST that mounts, the
\* POST that asks for a place, the PUT of the goroutine.
CheckReq(p, r, at) ==
  /\ r.st # "idle" /\ r.host = PushHosts[1] /\ r.path \in {"manifests", "blobs"} /\ r.method \in {"HEAD", "GET"}
  /\ r.range = 0 /\ r.body = FALSE
  /\ Answered(r) /\ r.ans.code = 200 => at \/ (Op(p).manifest /\ ByTag(Op(p).object))
MountReq(r, at) ==
  /\ r.st # "idle" /\ r.path = "mount" /\ r.method = "POST" /\ r.body = FALSE
  /\ Answered(r) /\ r.ans.code = 201 => at
PostReq(r) ==
  /\ r.st # "idle" /\ r.path = "uploads" /\ r.method = "POST" /\ r.body = FALSE
  /\ Answered(r) => r.ans.code # 201
PutReq(r, at) ==
  /\ r.st # "idle" /\ r.method = "PUT" /\ r.body = TRUE
  /\ Answered(r) /\ Accepted(r.ans.code) => at
ReqFor(p, w, r, at) ==
  /\ w.pc = "check" => CheckReq(p, r, at)
  /\ w.pc = "mount" => MountReq(r, at)
  /\ w.pc = "post" => PostReq(r)
  /\ w.go = "run" => PutReq(r, at)

\* The inductive invariant of pushes; a caller does one thing.
CallerOK(p) ==
  /\ get[p].pc # "start" => Op(p).kind = "fetch"
  /\ psh[p].pc # "start" => Op(p).kind = "push"
  /\ WriterOK(psh[p], AtRegistry)
  /\ ReqFor(p, psh[p], rq[p], AtRegistry)
  /\ psh[p].pc \in {"copy", "closing"} => Tracked(tracker, AtRegistry)
PushInv ==
  /\ Reqs /\ Pushes /\ get = [p \in Proc |-> get[p]]
  /\ tracker = None \/ Tracked(tracker, AtRegistry)
  /\ \A p \in Proc : CallerOK(p)

\* What a step of a push does.
PushGoes(p, at) ==
  /\ psh' = [q \in Proc |-> psh'[q]] /\ \A q \in Proc \ {p} : psh'[q] = psh[q]
  /\ WriterOK(psh'[p], at)
  /\ ReqFor(p, psh'[p], rq'[p], at)
  /\ tracker' = tracker \/ Tracked(tracker', at)
  /\ psh'[p].pc \in {"copy", "closing"} => Tracked(tracker', at)
  /\ psh'[p].pc # "start" => Op(p).kind = "push"

\* A push that ends, with what it reports.
LEMMA EndGoes ==
  ASSUME PushInv, NEW p \in Proc, NEW out, End(p, out), Op(p).kind = "push", psh[p].go # "run",
         out \in {"ok", "exists"} => AtRegistry, tracker' = tracker \/ Tracked(tracker', AtRegistry)
  PROVE  PushGoes(p, AtRegistry)
<1>1. Writes(p, "end", out, psh[p].go, psh[p].resp, psh[p].wpc, psh[p].snap)
  BY EndEffect DEF PushInv
<1>2. WriterOK(psh[p], AtRegistry)
  BY DEF PushInv, CallerOK
<1>3. WriterOK(psh'[p], AtRegistry)
  BY <1>1, <1>2 DEF WriterOK, Writes
<1> QED  BY <1>1, <1>3 DEF PushGoes, Writes, ReqFor

\* A copy that ends, with what it reports.
LEMMA ClosingGoes ==
  ASSUME PushInv, NEW p \in Proc, NEW out, NEW x, Closing(p, out, x), psh[p].pc = "copy",
         UNCHANGED rq, out \in {"ok", "exists"} => AtRegistry, Tracked(x, AtRegistry)
  PROVE  PushGoes(p, AtRegistry)
<1>1. \E pc : Writes(p, pc, out, psh[p].go, psh[p].resp, psh[p].wpc, psh[p].snap) /\ pc \in {"end", "closing"}
  BY EndEffect DEF PushInv
<1>2. WriterOK(psh[p], AtRegistry) /\ ReqFor(p, psh[p], rq[p], AtRegistry) /\ Op(p).kind = "push"
  BY DEF PushInv, CallerOK
<1>3. WriterOK(psh'[p], AtRegistry)
  BY <1>1, <1>2 DEF WriterOK, Writes
<1>4. ReqFor(p, psh'[p], rq'[p], AtRegistry)
  BY <1>1, <1>2 DEF Writes, ReqFor
<1>5. tracker' = x
  BY DEF Closing
<1> QED  BY <1>1, <1>2, <1>3, <1>4, <1>5 DEF PushGoes, Writes

\* The upload starts with a new Status and a PUT.
LEMMA StartGoes ==
  ASSUME PushInv, NEW p \in Proc, NEW h, NEW authz, NEW path, StartUpload(p, h, authz, path), Op(p).kind = "push"
  PROVE  PushGoes(p, AtRegistry)
<1>1. Writes(p, "copy", psh[p].out, "run", psh[p].resp, psh[p].wpc, psh[p].snap)
  BY UploadEffect DEF PushInv
<1>2. WriterOK(psh[p], AtRegistry)
  BY DEF PushInv, CallerOK
<1>3. WriterOK(psh'[p], AtRegistry)
  BY <1>1, <1>2 DEF WriterOK, Writes
<1>4. rq'[p] = Request(h, authz, "PUT", path, RepositoryScope(TRUE), 0, TRUE)
  BY DEF StartUpload, PushInv, Reqs
<1>5. PutReq(rq'[p], AtRegistry)
  BY <1>4 DEF PutReq, Request, Answered
<1>6. Tracked(tracker', AtRegistry)
  BY DEF StartUpload, Status, Tracked, IsStatus
<1> QED  BY <1>1, <1>3, <1>5, <1>6 DEF PushGoes, Writes, ReqFor

\* The requests of push().
LEMMA PushRequestOK ==
  ASSUME PushInv, NEW p \in Proc, NEW m, NEW path, rq' = [rq EXCEPT ![p] = PushRequest(p, m, path)]
  PROVE  LET s == rq'[p]
         IN  /\ s.st = "do" /\ s.host = PushHosts[1] /\ s.path = path /\ s.method = m /\ s.range = 0
             /\ s.body = FALSE
<1>1. rq'[p] = PushRequest(p, m, path)
  BY DEF PushInv, Reqs
<1> QED  BY <1>1 DEF PushRequest, Request

\* push() asks where the upload goes, or for a mount.
LEMMA AskGoes ==
  ASSUME PushInv, NEW p \in Proc, NEW path \in {"mount", "uploads"}, AskUpload(p, path), Op(p).kind = "push",
         psh[p].go # "run"
  PROVE  PushGoes(p, AtRegistry)
<1>1. \E pc : /\ pc = IF path = "mount" THEN "mount" ELSE "post"
              /\ Writes(p, pc, psh[p].out, psh[p].go, psh[p].resp, psh[p].wpc, psh[p].snap)
  BY UploadEffect DEF PushInv
<1>2. WriterOK(psh[p], AtRegistry)
  BY DEF PushInv, CallerOK
<1>3. WriterOK(psh'[p], AtRegistry)
  BY <1>1, <1>2 DEF WriterOK, Writes
<1>4. LET s == rq'[p] IN s.st = "do" /\ s.path = path /\ s.method = "POST" /\ s.body = FALSE
  BY PushRequestOK, Zenon DEF AskUpload
<1>5. path = "mount" => MountReq(rq'[p], AtRegistry)
  BY <1>4 DEF MountReq, Answered
<1>6. path = "uploads" => PostReq(rq'[p])
  BY <1>4 DEF PostReq, Answered
<1>7. ReqFor(p, psh'[p], rq'[p], AtRegistry)
  BY <1>1, <1>5, <1>6 DEF ReqFor, Writes
<1>8. UNCHANGED tracker
  BY DEF AskUpload
<1> QED  BY <1>1, <1>3, <1>7, <1>8 DEF PushGoes, Writes

\* What exists is recorded as committed.
LEMMA ExistsGoes ==
  ASSUME PushInv, NEW p \in Proc, Exists(p), Op(p).kind = "push", psh[p].go # "run", AtRegistry
  PROVE  PushGoes(p, AtRegistry)
<1>1. Tracked(tracker', AtRegistry) /\ End(p, "exists")
  BY DEF Exists, Status, Tracked, IsStatus
<1> QED  BY <1>1, EndGoes, Zenon

\* push() up to its first request.
LEMMA StartStep ==
  ASSUME PushInv, NEW p \in Proc, PushStart(p)
  PROVE  PushGoes(p, AtRegistry)
<1>1. Op(p).kind = "push" /\ psh[p].pc = "start" /\ psh[p].go # "run" /\ UNCHANGED tracker
  BY DEF PushStart, PushInv, CallerOK, WriterOK
<1>2. CASE tracker # None /\ tracker.committed /\ End(p, "exists")
  <2>1. AtRegistry
    BY <1>2 DEF PushInv, Tracked
  <2> QED  BY <1>1, <1>2, <2>1, EndGoes, Zenon
<1>3. CASE End(p, "notfound")
  BY <1>1, <1>3, EndGoes
<1>4. ASSUME NEW path \in {"manifests", "blobs"}, psh' = [psh EXCEPT ![p].pc = "check"],
             rq' = [rq EXCEPT ![p] = PushRequest(p, "HEAD", path)]
      PROVE  PushGoes(p, AtRegistry)
  <2> DEFINE w == psh[p]
  <2> DEFINE v == psh'[p]
  <2>a. WriterOK(w, AtRegistry) /\ IsPush(w)
    BY DEF PushInv, CallerOK, WriterOK
  <2>b. w = psh[p] /\ v = psh'[p]
    OBVIOUS
  <2> HIDE DEF w, v
  <2>1. /\ psh' = [q \in Proc |-> psh'[q]] /\ \A q \in Proc \ {p} : psh'[q] = psh[q]
        /\ v = [w EXCEPT !.pc = "check"]
    BY <1>4, <2>b DEF PushInv, Pushes
  <2>2. IsPush(v) /\ v.pc = "check" /\ v.go = w.go /\ v.out = w.out
    BY <2>a, <2>1 DEF IsPush, PushField
  <2>3. v.resp = w.resp /\ v.wpc = w.wpc /\ v.snap = w.snap
    BY <2>a, <2>1 DEF IsPush, PushField
  <2>4. WriterOK(v, AtRegistry)
    BY <1>1, <2>a, <2>b, <2>2, <2>3 DEF WriterOK
  <2>5. LET s == rq'[p] IN /\ s.st = "do" /\ s.host = PushHosts[1] /\ s.path = path /\ s.method = "HEAD" /\ s.range = 0
                           /\ s.body = FALSE
    BY <1>4, PushRequestOK, Zenon
  <2>6. CheckReq(p, rq'[p], AtRegistry)
    BY <2>5 DEF CheckReq, Answered
  <2> QED  BY <1>1, <2>b, <2>1, <2>2, <2>4, <2>6 DEF PushGoes, ReqFor
<1> QED  BY <1>2, <1>3, <1>4, Zenon DEF PushStart

\* The answer to the existence check.
LEMMA CheckStep ==
  ASSUME PushInv, NEW p \in Proc, PushCheck(p)
  PROVE  PushGoes(p, AtRegistry)
<1>1. Op(p).kind = "push" /\ psh[p].go # "run" /\ CheckReq(p, rq[p], AtRegistry) /\ rq[p].st = "done"
  BY DEF PushCheck, PushInv, CallerOK, WriterOK, ReqFor, Done
<1>2. ASSUME rq[p].ans.err = "none", rq[p].ans.code = 200,
             Op(p).manifest /\ ByTag(Op(p).object) => PushHosts[1] \in stored, Exists(p)
      PROVE  PushGoes(p, AtRegistry)
  <2>1. AtRegistry
    BY <1>1, <1>2 DEF CheckReq, Answered, AtRegistry
  <2> QED  BY <1>1, <1>2, <2>1, ExistsGoes, Zenon
<1>3. ASSUME End(p, "error"), UNCHANGED tracker PROVE PushGoes(p, AtRegistry)
  BY <1>1, <1>3, EndGoes
<1>4. ASSUME StartUpload(p, PushHosts[1], TRUE, "manifests") PROVE PushGoes(p, AtRegistry)
  BY <1>1, <1>4, StartGoes, Zenon
<1>5. ASSUME NEW path \in {"mount", "uploads"}, AskUpload(p, path) PROVE PushGoes(p, AtRegistry)
  BY <1>1, <1>5, AskGoes
<1> QED  BY <1>2, <1>3, <1>4, <1>5, Zenon DEF PushCheck

\* The answer to a POST.
LEMMA PostStep ==
  ASSUME PushInv, NEW p \in Proc, PushMount(p) \/ PushPost(p)
  PROVE  PushGoes(p, AtRegistry)
<1>1. Op(p).kind = "push" /\ psh[p].go # "run" /\ rq[p].st = "done"
  BY DEF PushMount, PushPost, PushInv, CallerOK, WriterOK, Done
<1>2. rq[p].ans.err = "none" /\ rq[p].ans.code = 201 => AtRegistry
  BY <1>1 DEF PushMount, PushPost, PushInv, CallerOK, ReqFor, MountReq, PostReq, Answered
<1>3. ASSUME End(p, "error"), UNCHANGED tracker PROVE PushGoes(p, AtRegistry)
  BY <1>1, <1>3, EndGoes
<1>4. ASSUME rq[p].ans.err = "none", PostAnswer(p, rq[p].ans) PROVE PushGoes(p, AtRegistry)
  <2>1. CASE rq[p].ans.code = 201 /\ Exists(p)
    BY <1>1, <1>2, <1>4, <2>1, ExistsGoes, Zenon
  <2>2. ASSUME NEW authz, StartUpload(p, scene.location, authz, "upload") PROVE PushGoes(p, AtRegistry)
    BY <1>1, <2>2, StartGoes
  <2> QED  BY <1>3, <1>4, <2>1, <2>2, Zenon DEF PostAnswer
<1>5. ASSUME AskUpload(p, "uploads") PROVE PushGoes(p, AtRegistry)
  BY <1>1, <1>5, AskGoes
<1> QED  BY <1>3, <1>4, <1>5, Zenon DEF PushMount, PushPost

\* The body of the PUT: a pipe for each attempt.
LEMMA BodyStep ==
  ASSUME PushInv, NEW p \in Proc, DoBody(p) \/ BodyStart(p) \/ BodyShort(p)
  PROVE  PushGoes(p, AtRegistry)
<1> DEFINE w == psh[p]
<1> DEFINE v == psh'[p]
<1>a. /\ WriterOK(w, AtRegistry) /\ IsPush(w) /\ ReqFor(p, w, rq[p], AtRegistry)
      /\ w.pc \in {"copy", "closing"} => Tracked(tracker, AtRegistry)
      /\ w.pc # "start" => Op(p).kind = "push"
  BY DEF PushInv, CallerOK, WriterOK
<1>b. w = psh[p] /\ v = psh'[p] /\ UNCHANGED tracker
  BY DEF DoBody, BodyStart, BodyShort
<1>c. psh = [q \in Proc |-> psh[q]] /\ Reqs /\ Pushes
  BY DEF PushInv, Pushes
<1>d. ASSUME Writes(p, w.pc, w.out, w.go, w.resp, w.wpc, w.snap), ReqFor(p, w, rq'[p], AtRegistry)
      PROVE  PushGoes(p, AtRegistry)
  <2>1. WriterOK(v, AtRegistry) /\ ReqFor(p, v, rq'[p], AtRegistry)
    BY <1>a, <1>b, <1>d DEF Writes, WriterOK, ReqFor
  <2> QED  BY <1>a, <1>b, <1>d, <2>1 DEF Writes, PushGoes
<1>1. CASE DoBody(p) /\ psh[p].closed
  <2>1. rq[p].body /\ psh' = [psh EXCEPT ![p].go = "panic"]
    BY <1>1 DEF DoBody
  <2> HIDE DEF w, v
  <2>2. /\ psh' = [q \in Proc |-> psh'[q]] /\ \A q \in Proc \ {p} : psh'[q] = psh[q]
        /\ v = [w EXCEPT !.go = "panic"]
    BY <1>b, <1>c, <2>1
  <2>3. IsPush(v) /\ v.pc = w.pc /\ v.go = "panic" /\ v.out = w.out
    BY <1>a, <2>2 DEF IsPush, PushField
  <2>4. v.resp = w.resp /\ v.wpc = w.wpc /\ v.snap = w.snap
    BY <1>a, <2>2 DEF IsPush, PushField
  <2>5. WriterOK(v, AtRegistry)
    BY <1>a, <2>3, <2>4 DEF WriterOK
  <2>6. ReqFor(p, v, rq'[p], AtRegistry)
    BY <1>a, <1>b, <2>1, <2>3 DEF ReqFor, CheckReq, MountReq, PostReq
  <2> QED  BY <1>a, <1>b, <2>2, <2>3, <2>5, <2>6 DEF PushGoes
<1>2. CASE DoBody(p) /\ ~psh[p].closed
  <2> DEFINE y == Append(w.pipes, Pipe)
  <2> DEFINE z == <<Latest(p) + 1>>
  <2>1. psh' = [psh EXCEPT ![p].pipes = y, ![p].chan = z] /\ rq[p].st = "do" /\ Advances(p, "auth")
    BY <1>2, Zenon DEF DoBody, Advances
  <2> HIDE DEF w, v, y, z
  <2>2. /\ psh' = [q \in Proc |-> psh'[q]] /\ \A q \in Proc \ {p} : psh'[q] = psh[q]
        /\ v = [w EXCEPT !.pipes = y, !.chan = z]
    BY <1>b, <1>c, <2>1
  <2>3. IsPush(v) /\ v.pc = w.pc /\ v.go = w.go /\ v.out = w.out
    BY <1>a, <2>2, Zenon DEF IsPush, PushField
  <2>4. v.resp = w.resp /\ v.wpc = w.wpc /\ v.snap = w.snap
    BY <1>a, <2>2 DEF IsPush, PushField
  <2>5. Writes(p, w.pc, w.out, w.go, w.resp, w.wpc, w.snap)
    BY <1>b, <2>2, <2>3, <2>4 DEF Writes
  <2>6. SameReq(rq[p], rq'[p]) /\ rq'[p].st = "auth"
    BY <1>c, <2>1, ReqState, Zenon
  <2>7. ReqFor(p, w, rq'[p], AtRegistry)
    BY <1>a, <2>6 DEF ReqFor, CheckReq, MountReq, PostReq, PutReq, SameReq, Answered
  <2> QED  BY <1>d, <2>5, <2>7
<1>3. CASE BodyStart(p)
  <2>1. ReaderIs(p, Latest(p), "on") /\ UNCHANGED rq
    BY <1>3 DEF BodyStart, ReaderIs, authVars
  <2> QED  BY <1>a, <1>c, <1>d, <2>1, PipeEffect
<1>4. CASE BodyShort(p)
  <2>1. ReaderIs(p, Latest(p), "gone") /\ Receives(p, Failure("net"))
    BY <1>4, <1>c, ReceiveEffect DEF BodyShort, ReaderIs
  <2>2. ReqFor(p, w, rq'[p], AtRegistry)
    <3>1. ~Answered(rq'[p]) /\ SameReq(rq[p], rq'[p])
      BY <2>1 DEF Receives, Failure, Answered
    <3> HIDE DEF w
    <3> QED  BY <1>a, <3>1 DEF ReqFor, CheckReq, MountReq, PostReq, PutReq, SameReq
  <2> QED  BY <1>c, <1>d, <2>1, <2>2, PipeEffect
<1> QED  BY <1>1, <1>2, <1>3, <1>4

\* A Status that is told that its writer closed.
LEMMA ClosedStatusOK ==
  ASSUME NEW w, tracker = None \/ Tracked(tracker, AtRegistry)
  PROVE  ClosedStatus(w) = tracker \/ Tracked(ClosedStatus(w), AtRegistry)
<1> DEFINE x == [tracker EXCEPT !.closed = TRUE]
<1>1. CASE ClosedStatus(w) = x /\ tracker # None
  <2>1. IsStatus(x) /\ x.committed = tracker.committed
    BY <1>1, Zenon DEF Tracked, IsStatus
  <2> QED  BY <1>1, <2>1 DEF Tracked
<1> QED  BY <1>1 DEF ClosedStatus

\* The goroutine ends with the answer to the PUT.
LEMMA DoneStep ==
  ASSUME PushInv, NEW p \in Proc, UploadDone(p)
  PROVE  PushGoes(p, AtRegistry)
<1> DEFINE w == psh[p]
<1> DEFINE a == rq[p].ans
<1> DEFINE ok == a.err = "none" /\ a.code \in {200, 201, 204}
<1> DEFINE resp == IF a.err = "none" THEN a.code ELSE None
<1> DEFINE x == [w EXCEPT !.go = "done", !.errC = ~ok, !.resp = resp]
<1>a. /\ WriterOK(w, AtRegistry) /\ IsPush(w) /\ PutReq(rq[p], AtRegistry) /\ rq[p].st = "done"
      /\ w.pc \in {"copy", "closing"} => Tracked(tracker, AtRegistry)
      /\ w.pc # "start" => Op(p).kind = "push"
      /\ tracker = None \/ Tracked(tracker, AtRegistry)
      /\ w.pc \notin {"start", "check", "mount", "post"}
  BY DEF PushInv, CallerOK, WriterOK, UploadDone, ReqFor, Done
<1>b. \/ Becomes(p, x) /\ UNCHANGED tracker
      \/ Becomes(p, ClosedWriter(x)) /\ tracker' = ClosedStatus(x)
  BY DEF UploadDone, Becomes
<1>c. resp # None /\ Accepted(resp) => AtRegistry
  BY <1>a DEF PutReq, Answered
<1> HIDE DEF w, resp
<1>1. IsPush(x) /\ x.pc = w.pc /\ x.out = w.out /\ x.go = "done"
  <2>1. IsPush(x)
    BY <1>a, Zenon DEF IsPush, PushField
  <2>2. x.pc = w.pc /\ x.out = w.out /\ x.go = "done"
    BY <1>a, Zenon DEF IsPush, PushField
  <2> QED  BY <2>1, <2>2, Zenon
<1>2. x.resp = resp /\ x.wpc = w.wpc /\ x.snap = w.snap
  BY <1>a DEF IsPush, PushField
<1> HIDE DEF x
<1>3. Writes(p, w.pc, w.out, "done", resp, w.wpc, w.snap)
  <2>1. ASSUME Becomes(p, x) PROVE Writes(p, w.pc, w.out, "done", resp, w.wpc, w.snap)
    <3>1. Writes(p, x.pc, x.out, x.go, x.resp, x.wpc, x.snap)
      BY <1>1, <2>1, BecomesEffect DEF PushInv
    <3> QED  BY <1>1, <1>2, <3>1
  <2>2. ASSUME Becomes(p, ClosedWriter(x)) PROVE Writes(p, w.pc, w.out, "done", resp, w.wpc, w.snap)
    <3> DEFINE c == ClosedWriter(x)
    <3>1. /\ IsPush(c) /\ c.pc = x.pc /\ c.out = x.out /\ c.go = x.go /\ c.resp = x.resp
          /\ c.wpc = x.wpc /\ c.snap = x.snap
      BY <1>1, ClosedWriterOK
    <3>2. Becomes(p, c)
      BY <2>2
    <3> HIDE DEF c
    <3>3. Writes(p, c.pc, c.out, c.go, c.resp, c.wpc, c.snap)
      BY <3>1, <3>2, BecomesEffect DEF PushInv
    <3> QED  BY <1>1, <1>2, <3>1, <3>3
  <2> QED  BY <1>b, <2>1, <2>2
<1>4. tracker' = tracker \/ Tracked(tracker', AtRegistry)
  BY <1>a, <1>b, ClosedStatusOK
<1>5. WriterOK(psh'[p], AtRegistry)
  BY <1>a, <1>c, <1>3 DEF Writes, WriterOK
<1>6. ReqFor(p, psh'[p], rq'[p], AtRegistry)
  BY <1>a, <1>3 DEF Writes, ReqFor
<1> QED  BY <1>a, <1>3, <1>4, <1>5, <1>6 DEF Writes, PushGoes

\* The writer goes on with its copy: where it is within Write or Commit, and the Status it has read.
LEMMA CopyGoes ==
  ASSUME PushInv, NEW p \in Proc, psh[p].pc = "copy", UNCHANGED <<rq, tracker>>,
         psh'[p].wpc \in {"writing", "wrote"} => Tracked(psh'[p].snap, AtRegistry),
         Writes(p, "copy", psh[p].out, psh[p].go, psh[p].resp, psh'[p].wpc, psh'[p].snap)
  PROVE  PushGoes(p, AtRegistry)
<1>1. /\ WriterOK(psh[p], AtRegistry) /\ ReqFor(p, psh[p], rq[p], AtRegistry) /\ Tracked(tracker, AtRegistry)
      /\ Op(p).kind = "push"
  BY DEF PushInv, CallerOK
<1>2. WriterOK(psh'[p], AtRegistry)
  BY <1>1 DEF WriterOK, Writes
<1>3. ReqFor(p, psh'[p], rq'[p], AtRegistry)
  BY <1>1 DEF ReqFor, Writes
<1> QED  BY <1>1, <1>2, <1>3 DEF PushGoes, Writes

\* The copy starts again, from offset 0.
LEMMA RestartGoes ==
  ASSUME PushInv, NEW p \in Proc, psh[p].pc = "copy", UNCHANGED rq, NEW x, IsPush(x), Restart(p, x),
         x.pc = "copy", x.out = psh[p].out, x.go = psh[p].go, x.resp = psh[p].resp, x.snap = psh[p].snap,
         x.wpc \notin {"writing", "wrote"}
  PROVE  PushGoes(p, AtRegistry)
<1>1. /\ WriterOK(psh[p], AtRegistry) /\ ReqFor(p, psh[p], rq[p], AtRegistry) /\ Tracked(tracker, AtRegistry)
      /\ Op(p).kind = "push"
  BY DEF PushInv, CallerOK
<1>2. \/ Writes(p, "closing", "error", x.go, x.resp, x.wpc, x.snap)
      \/ Writes(p, "copy", x.out, x.go, x.resp, "next", x.snap)
  BY RestartEffect DEF PushInv
<1>3. WriterOK(psh'[p], AtRegistry)
  BY <1>1, <1>2 DEF WriterOK, Writes
<1>4. ReqFor(p, psh'[p], rq'[p], AtRegistry)
  BY <1>1, <1>2 DEF ReqFor, Writes
<1>5. Tracked(tracker', AtRegistry)
  <2>1. tracker' = [tracker EXCEPT !.offset = 0]
    BY DEF Restart
  <2> QED  BY <1>1, <2>1 DEF Tracked, IsStatus
<1> QED  BY <1>1, <1>2, <1>3, <1>4, <1>5 DEF PushGoes, Writes

\* The copy: the provider fails, and the steps of Write.
LEMMA WriteStep ==
  ASSUME PushInv, NEW p \in Proc, ProviderFails(p) \/ WriteStart(p) \/ BodyRead(p) \/ WriteEnd(p) \/ CommitStart(p)
  PROVE  PushGoes(p, AtRegistry)
<1> DEFINE w == psh[p]
<1> DEFINE v == psh'[p]
<1>a. IsPush(w) /\ WriterOK(w, AtRegistry) /\ Tracked(tracker, AtRegistry) /\ w.pc = "copy" /\ UNCHANGED rq
  BY Zenon DEF PushInv, CallerOK, WriterOK, ProviderFails, WriteStart, BodyRead, WriteEnd, CommitStart, authVars
<1>b. w = psh[p] /\ v = psh'[p] /\ psh = [q \in Proc |-> psh[q]]
  BY Zenon DEF PushInv, Pushes
<1>c. ASSUME NEW x, Tracked(x, AtRegistry), Closing(p, "error", x) PROVE PushGoes(p, AtRegistry)
  BY <1>a, <1>c, ClosingGoes, Zenon
<1>1. CASE ProviderFails(p)
  BY <1>1, <1>a, <1>c DEF ProviderFails
<1>2. CASE BodyRead(p)
  <2> DEFINE y == [w.pipes EXCEPT ![w.w].got = @ + 1]
  <2>1. psh' = [psh EXCEPT ![p].pipes = y, ![p].wpc = "wrote"] /\ UNCHANGED tracker /\ w.wpc = "writing"
    BY <1>2, <1>b DEF BodyRead, Pushes
  <2> HIDE DEF w, v, y
  <2>2. /\ psh' = [q \in Proc |-> psh'[q]] /\ \A q \in Proc \ {p} : psh'[q] = psh[q]
        /\ v = [w EXCEPT !.pipes = y, !.wpc = "wrote"]
    BY <1>b, <2>1
  <2>3. IsPush(v) /\ v.pc = w.pc /\ v.go = w.go /\ v.out = w.out
    BY <1>a, <2>2, Zenon DEF IsPush, PushField
  <2>4. v.resp = w.resp /\ v.wpc = "wrote" /\ v.snap = w.snap
    BY <1>a, <2>2 DEF IsPush, PushField
  <2>5. Writes(p, "copy", w.out, w.go, w.resp, v.wpc, v.snap)
    BY <1>a, <1>b, <2>2, <2>3, <2>4 DEF Writes
  <2>6. Tracked(v.snap, AtRegistry)
    BY <1>a, <2>1, <2>4 DEF WriterOK
  <2> QED  BY <1>a, <1>b, <2>1, <2>5, <2>6, CopyGoes, Zenon
<1>3. CASE CommitStart(p)
  <2> DEFINE y == [w.pipes EXCEPT ![w.w] = Close(@)]
  <2>1. psh' = [psh EXCEPT ![p].pipes = y, ![p].wpc = "select"] /\ UNCHANGED tracker
    BY <1>3, <1>b DEF CommitStart
  <2> HIDE DEF w, v, y
  <2>2. /\ psh' = [q \in Proc |-> psh'[q]] /\ \A q \in Proc \ {p} : psh'[q] = psh[q]
        /\ v = [w EXCEPT !.pipes = y, !.wpc = "select"]
    BY <1>b, <2>1
  <2>3. IsPush(v) /\ v.pc = w.pc /\ v.go = w.go /\ v.out = w.out
    BY <1>a, <2>2, Zenon DEF IsPush, PushField
  <2>4. v.resp = w.resp /\ v.wpc = "select" /\ v.snap = w.snap
    BY <1>a, <2>2 DEF IsPush, PushField
  <2>5. Writes(p, "copy", w.out, w.go, w.resp, v.wpc, v.snap)
    BY <1>a, <1>b, <2>2, <2>3, <2>4 DEF Writes
  <2> QED  BY <1>a, <1>b, <2>1, <2>4, <2>5, CopyGoes, Zenon
<1>4. CASE WriteEnd(p)
  <2>1. CASE w.wpc = "writing" /\ Closing(p, "error", w.snap)
    BY <1>a, <1>c, <2>1 DEF WriterOK
  <2>2. CASE /\ w.wpc = "wrote" /\ tracker' = [w.snap EXCEPT !.offset = @ + 1]
             /\ psh' = [psh EXCEPT ![p].wpc = "next", ![p].sent = @ + 1]
    <3> DEFINE y == w.sent + 1
    <3>1. psh' = [psh EXCEPT ![p].wpc = "next", ![p].sent = y]
      BY <2>2
    <3>a. Tracked(w.snap, AtRegistry)
      BY <1>a, <2>2 DEF WriterOK
    <3>b. Tracked(tracker', AtRegistry)
      BY <2>2, <3>a DEF Tracked, IsStatus
    <3> HIDE DEF w, v, y
    <3>2. /\ psh' = [q \in Proc |-> psh'[q]] /\ \A q \in Proc \ {p} : psh'[q] = psh[q]
          /\ v = [w EXCEPT !.wpc = "next", !.sent = y]
      BY <1>b, <3>1
    <3>3. IsPush(v) /\ v.pc = w.pc /\ v.go = w.go /\ v.out = w.out
      BY <1>a, <3>2, Zenon DEF IsPush, PushField
    <3>4. v.resp = w.resp /\ v.wpc = "next"
      BY <1>a, <3>2 DEF IsPush, PushField
    <3>5. WriterOK(v, AtRegistry)
      BY <1>a, <3>3, <3>4 DEF WriterOK
    <3>6. ReqFor(p, w, rq[p], AtRegistry) /\ Op(p).kind = "push"
      BY <1>a, <1>b DEF PushInv, CallerOK
    <3>7. ReqFor(p, v, rq'[p], AtRegistry)
      BY <1>a, <3>3, <3>6 DEF ReqFor
    <3> QED  BY <1>a, <1>b, <3>b, <3>2, <3>3, <3>5, <3>6, <3>7 DEF PushGoes
  <2> QED  BY <1>4, <2>1, <2>2 DEF WriteEnd
<1>5. CASE WriteStart(p)
  <2>1. CASE Closing(p, "error", tracker)
    BY <1>a, <1>c, <2>1
  <2>2. CASE /\ \/ psh' = [psh EXCEPT ![p].w = w.chan[1], ![p].chan = <<>>, ![p].wpc = "writing", ![p].snap = tracker]
                \/ psh' = [psh EXCEPT ![p].wpc = "writing", ![p].snap = tracker]
             /\ UNCHANGED tracker
    <3> DEFINE k == w.chan[1]
    <3>1. \/ psh' = [psh EXCEPT ![p].w = k, ![p].chan = <<>>, ![p].wpc = "writing", ![p].snap = tracker]
          \/ psh' = [psh EXCEPT ![p].wpc = "writing", ![p].snap = tracker]
      BY <2>2
    <3> HIDE DEF w, v, k
    <3>2. /\ psh' = [q \in Proc |-> psh'[q]] /\ \A q \in Proc \ {p} : psh'[q] = psh[q]
          /\ \/ v = [w EXCEPT !.w = k, !.chan = <<>>, !.wpc = "writing", !.snap = tracker]
             \/ v = [w EXCEPT !.wpc = "writing", !.snap = tracker]
      BY <1>b, <3>1
    <3>3. IsPush(v) /\ v.pc = w.pc /\ v.go = w.go /\ v.out = w.out
      BY <1>a, <3>2, Zenon DEF IsPush, PushField
    <3>4. v.resp = w.resp /\ v.wpc = "writing" /\ v.snap = tracker
      BY <1>a, <3>2, Zenon DEF IsPush, PushField
    <3>5. Writes(p, "copy", w.out, w.go, w.resp, v.wpc, v.snap)
      BY <1>a, <1>b, <3>2, <3>3, <3>4 DEF Writes
    <3> QED  BY <1>a, <1>b, <2>2, <3>4, <3>5, CopyGoes
  <2>3. ASSUME NEW k, NEW y, w.wpc = "next", Restart(p, [w EXCEPT !.pipes = y, !.w = k, !.chan = <<>>]) PROVE PushGoes(p, AtRegistry)
    <3> DEFINE x == [w EXCEPT !.pipes = y, !.w = k, !.chan = <<>>]
    <3> HIDE DEF w
    <3>1. IsPush(x) /\ x.pc = w.pc /\ x.out = w.out /\ x.go = w.go
      BY <1>a, Zenon DEF IsPush, PushField
    <3>2. x.resp = w.resp /\ x.snap = w.snap /\ x.wpc = w.wpc
      BY <1>a DEF IsPush, PushField
    <3>3. Restart(p, x)
      BY <2>3
    <3> HIDE DEF x
    <3> QED  BY <1>a, <1>b, <2>3, <3>1, <3>2, <3>3, RestartGoes
  <2> DEFINE y == [w.pipes EXCEPT ![w.w] = Reset(@)]
  <2>4. CASE Restart(p, [w EXCEPT !.pipes[w.w] = Reset(@), !.w = w.chan[1], !.chan = <<>>]) /\ w.wpc = "next"
    <3>1. [w EXCEPT !.pipes[w.w] = Reset(@), !.w = w.chan[1], !.chan = <<>>]
            = [w EXCEPT !.pipes = y, !.w = w.chan[1], !.chan = <<>>]
      OBVIOUS
    <3>2. Restart(p, [w EXCEPT !.pipes = y, !.w = w.chan[1], !.chan = <<>>])
      BY <2>4, <3>1
    <3> QED  BY <2>3, <2>4, <3>2, Zenon
  <2>5. w.wpc = "next"
    BY <1>5 DEF WriteStart
  <2> QED  BY <1>5, <2>1, <2>2, <2>4, <2>5, Zenon DEF WriteStart
<1> QED  BY <1>1, <1>2, <1>3, <1>4, <1>5

\* The select of Commit, and the deferred Close.
LEMMA CommitStep ==
  ASSUME PushInv, NEW p \in Proc, CommitSelect(p) \/ CloseWriter(p)
  PROVE  PushGoes(p, AtRegistry)
<1> DEFINE w == psh[p]
<1>a. /\ IsPush(w) /\ WriterOK(w, AtRegistry) /\ ReqFor(p, w, rq[p], AtRegistry) /\ Tracked(tracker, AtRegistry)
      /\ UNCHANGED rq /\ Op(p).kind = "push" /\ w.pc \in {"copy", "closing"} /\ w = psh[p]
  BY DEF PushInv, CallerOK, WriterOK, CommitSelect, CloseWriter, authVars
<1>1. CASE CommitSelect(p)
  <2>1. w.pc = "copy" /\ w.wpc = "select"
    BY <1>1 DEF CommitSelect
  <2>2. ASSUME NEW out, NEW x, out \in {"ok", "exists"} => AtRegistry, Tracked(x, AtRegistry), Closing(p, out, x)
        PROVE  PushGoes(p, AtRegistry)
    BY <1>a, <2>1, <2>2, ClosingGoes
  <2>3. CASE Closing(p, "error", tracker)
    BY <1>a, <2>2, <2>3
  <2>4. CASE w.resp # None /\ Committed(p)
    <3> DEFINE x == [tracker EXCEPT !.committed = TRUE]
    <3>1. CASE Accepted(w.resp) /\ Closing(p, "ok", x)
      <4>1. AtRegistry
        BY <1>a, <2>4, <3>1 DEF WriterOK
      <4>2. Tracked(x, AtRegistry)
        BY <1>a, <4>1, Zenon DEF Tracked, IsStatus
      <4> QED  BY <2>2, <3>1, <4>1, <4>2, Zenon
    <3> QED  BY <2>3, <2>4, <3>1 DEF Committed
  <2>5. CASE Restart(p, [w EXCEPT !.w = w.chan[1], !.chan = <<>>])
    <3> DEFINE k == w.chan[1]
    <3> DEFINE x == [w EXCEPT !.w = k, !.chan = <<>>]
    <3>1. Restart(p, x)
      BY <2>5
    <3> HIDE DEF w, k
    <3>2. IsPush(x) /\ x.pc = w.pc /\ x.out = w.out /\ x.go = w.go
      BY <1>a, Zenon DEF IsPush, PushField
    <3>3. x.resp = w.resp /\ x.snap = w.snap /\ x.wpc = w.wpc
      BY <1>a DEF IsPush, PushField
    <3> HIDE DEF x
    <3> QED  BY <1>a, <2>1, <3>1, <3>2, <3>3, RestartGoes
  <2> QED  BY <1>1, <2>3, <2>4, <2>5, Zenon DEF CommitSelect
<1>2. CASE CloseWriter(p)
  <2> DEFINE c == ClosedWriter(w)
  <2> DEFINE x == [c EXCEPT !.pc = "end"]
  <2>1. /\ IsPush(c) /\ c.out = w.out /\ c.go = w.go /\ c.resp = w.resp /\ c.wpc = w.wpc /\ c.snap = w.snap
    BY <1>a, ClosedWriterOK
  <2>2. Becomes(p, x) /\ tracker' = ClosedStatus(w)
    BY <1>2 DEF CloseWriter, Becomes
  <2> HIDE DEF c, w
  <2>3. IsPush(x) /\ x.pc = "end" /\ x.out = c.out /\ x.go = c.go
    BY <2>1 DEF IsPush, PushField
  <2>4. x.resp = c.resp /\ x.snap = c.snap /\ x.wpc = c.wpc
    BY <2>1 DEF IsPush, PushField
  <2> HIDE DEF x
  <2>5. Writes(p, x.pc, x.out, x.go, x.resp, x.wpc, x.snap)
    BY <2>2, <2>3, BecomesEffect DEF PushInv
  <2>6. WriterOK(psh'[p], AtRegistry)
    BY <1>a, <2>1, <2>3, <2>4, <2>5 DEF Writes, WriterOK
  <2>7. ReqFor(p, psh'[p], rq'[p], AtRegistry)
    BY <1>a, <2>1, <2>3, <2>5 DEF Writes, ReqFor
  <2>8. tracker' = tracker \/ Tracked(tracker', AtRegistry)
    BY <1>a, <2>2, ClosedStatusOK
  <2> QED  BY <1>a, <2>3, <2>5, <2>6, <2>7, <2>8, Zenon DEF PushGoes, Writes
<1> QED  BY <1>1, <1>2

\* Every step of a push.
LEMMA PushStepGoes ==
  ASSUME PushInv, NEW p \in Proc, PushStep(p)
  PROVE  PushGoes(p, AtRegistry)
BY StartStep, CheckStep, PostStep, BodyStep, DoneStep, WriteStep, CommitStep DEF PushStep

\* What one caller does keeps the invariant of the others.
LEMMA PushKept ==
  ASSUME PushInv, NEW p \in Proc, UNCHANGED scene, AtRegistry => AtRegistry', Reqs', get' = [q \in Proc |-> get'[q]],
         \A q \in Proc \ {p} : rq'[q] = rq[q] /\ get'[q] = get[q],
         get'[p].pc # "start" => Op(p).kind = "fetch", PushGoes(p, AtRegistry')
  PROVE  PushInv'
<1>1. Op(p)' = Op(p) /\ \A q \in Proc : Op(q)' = Op(q)
  BY DEF Op
<1>2. PushHosts' = PushHosts
  BY DEF PushHosts, FilterHosts
<1>3. ASSUME NEW x, Tracked(x, AtRegistry) PROVE Tracked(x, AtRegistry')
  BY <1>3 DEF Tracked
<1>4. ASSUME NEW w, WriterOK(w, AtRegistry) PROVE WriterOK(w, AtRegistry')
  BY <1>3, <1>4 DEF WriterOK
<1>5. ASSUME NEW q \in Proc, NEW w, NEW r, w = psh'[q], r = rq'[q], ReqFor(q, w, r, AtRegistry')
      PROVE  ReqFor(q, psh[q], rq[q], AtRegistry)'
  <2>1. CheckReq(q, r, AtRegistry') => CheckReq(q, rq[q], AtRegistry)'
    BY <1>1, <1>2, <1>5 DEF CheckReq, Answered
  <2>2. MountReq(r, AtRegistry') => MountReq(rq[q], AtRegistry)'
    BY <1>5 DEF MountReq, Answered
  <2>3. PostReq(r) => PostReq(rq[q])'
    BY <1>5 DEF PostReq, Answered
  <2>4. PutReq(r, AtRegistry') => PutReq(rq[q], AtRegistry)'
    BY <1>5 DEF PutReq, Answered
  <2> QED  BY <1>5, <2>1, <2>2, <2>3, <2>4 DEF ReqFor
<1>a. ASSUME NEW q \in Proc \ {p} PROVE WriterOK(psh'[q], AtRegistry') /\ ReqFor(q, psh'[q], rq'[q], AtRegistry')
  <2>1. WriterOK(psh'[q], AtRegistry) /\ ReqFor(q, psh'[q], rq'[q], AtRegistry)
    BY <1>a DEF PushGoes, PushInv, CallerOK
  <2>2. ReqFor(q, psh'[q], rq'[q], AtRegistry')
    BY <2>1 DEF ReqFor, CheckReq, MountReq, PutReq
  <2> QED  BY <1>4, <2>1, <2>2
<1>6. ASSUME NEW q \in Proc PROVE WriterOK(psh[q], AtRegistry)' /\ ReqFor(q, psh[q], rq[q], AtRegistry)'
  <2>1. WriterOK(psh'[q], AtRegistry') /\ ReqFor(q, psh'[q], rq'[q], AtRegistry')
    BY <1>a DEF PushGoes
  <2> QED  BY <1>5, <2>1 DEF WriterOK, Tracked
<1>7. tracker' = None \/ Tracked(tracker', AtRegistry')
  BY <1>3 DEF PushGoes, PushInv
<1>8. ASSUME NEW q \in Proc, psh'[q].pc \in {"copy", "closing"} PROVE Tracked(tracker', AtRegistry')
  BY <1>3, <1>8 DEF PushGoes, PushInv, CallerOK
<1>9. \A q \in Proc : CallerOK(q)'
  BY <1>1, <1>6, <1>8 DEF PushGoes, PushInv, CallerOK, Tracked
<1>10. Pushes'
  BY <1>6 DEF Pushes, PushGoes, WriterOK
<1> QED  BY <1>7, <1>9, <1>10 DEF PushInv, Tracked

\* A caller that resolves or fetches has no push.
LEMMA PullKind ==
  ASSUME PushInv, NEW p \in Proc, PullStep(p)
  PROVE  /\ Op(p).kind \in {"resolve", "fetch"}
         /\ get' = [q \in Proc |-> get'[q]] /\ \A q \in Proc \ {p} : get'[q] = get[q]
         /\ get'[p].pc # "start" => Op(p).kind = "fetch"
<1>a. get = [q \in Proc |-> get[q]] /\ (get[p].pc # "start" => Op(p).kind = "fetch")
  BY DEF PushInv, CallerOK
<1>1. CASE ResolveStart(p) \/ ResolveHead(p) \/ ResolveGet(p) \/ RetryWithPlainHTTP(p)
  BY <1>a, <1>1, Zenon DEF ResolveStart, ResolveHead, ResolveGet, RetryWithPlainHTTP
<1>2. CASE FetchStart(p) \/ FindAsk(p) \/ FindAnswer(p) \/ OpenAsk(p) \/ OpenAnswer(p) \/ ReadByte(p) \/ ReadCut(p)
           \/ ReadError(p) \/ ReadEOF(p) \/ Seek(p)
  <2>1. Op(p).kind = "fetch"
    BY <1>a, <1>2, Zenon DEF FetchStart, FindAsk, FindAnswer, OpenAsk, OpenAnswer, ReadByte, ReadCut, ReadError, ReadEOF, Seek
  <2>2. \/ UNCHANGED get
        \/ \E x : get' = [get EXCEPT ![p] = x]
    <3>1. CASE FetchStart(p)
      BY <3>1 DEF FetchStart
    <3>2. CASE FindAsk(p) \/ FindAnswer(p) \/ OpenAsk(p) \/ OpenAnswer(p)
      BY <3>2 DEF FindAsk, FindAnswer, OpenAsk, OpenAnswer, pullVars
    <3>3. CASE ReadByte(p) \/ ReadCut(p) \/ ReadError(p) \/ ReadEOF(p) \/ Seek(p)
      BY <3>3, Zenon DEF ReadByte, ReadCut, ReadError, ReadEOF, Seek
    <3> QED  BY <1>2, <3>1, <3>2, <3>3
  <2> QED  BY <1>a, <2>1, <2>2
<1> QED  BY <1>1, <1>2 DEF PullStep

\* The answers of a registry: what a push may conclude from them.
LEMMA ReplyOK ==
  ASSUME PushInv, NEW p \in Proc, NEW a, a \in Answers(p), Op(p).kind = "push"
  PROVE  /\ psh[p].pc = "check" /\ a.code = 200 => AtRegistry \/ (Op(p).manifest /\ ByTag(Op(p).object))
         /\ psh[p].pc = "post" => a.code # 201
<1> DEFINE r == rq[p]
<1>a. \A c : Answer(c).code = c
  BY DEF Answer
<1>b. Unauthorized(r).code = 401
  BY DEF Unauthorized, Answer
<1>1. CASE psh[p].pc = "check"
  <2>1. CheckReq(p, r, AtRegistry)
    BY <1>1 DEF PushInv, CallerOK, ReqFor
  <2>2. a.code = 200 => Found(p)
    BY <1>a, <1>b, <2>1 DEF Answers, CheckReq
  <2>3. Found(p) => r.host \in stored \/ (Op(p).manifest /\ ByTag(Op(p).object))
    BY DEF Found
  <2> QED  BY <1>1, <2>1, <2>2, <2>3 DEF CheckReq, AtRegistry
<1>2. CASE psh[p].pc = "post"
  <2>1. PostReq(r)
    BY <1>2 DEF PushInv, CallerOK, ReqFor
  <2>2. a.code # 201
    BY <1>a, <1>b, <2>1 DEF Answers, PostReq
  <2> QED  BY <1>2, <2>2
<1> QED  BY <1>1, <1>2

\* A request that goes on, or ends with the answer it had, still serves its push; what it is asked for and
\* the push stay the same.
LEMMA RequestGoes ==
  ASSUME PushInv, NEW p \in Proc, NEW at, AtRegistry => at, rq[p].st # "idle", SameReq(rq[p], rq'[p]),
         \/ ~Answered(rq'[p])
         \/ Answered(rq[p]) /\ rq'[p].ans = rq[p].ans
  PROVE  ReqFor(p, psh[p], rq'[p], at)
<1>1. ReqFor(p, psh[p], rq[p], AtRegistry)
  BY DEF PushInv, CallerOK
<1>2. CheckReq(p, rq[p], AtRegistry) => CheckReq(p, rq'[p], at)
  BY DEF CheckReq, SameReq
<1>3. MountReq(rq[p], AtRegistry) => MountReq(rq'[p], at)
  BY DEF MountReq, SameReq
<1>4. PostReq(rq[p]) => PostReq(rq'[p])
  BY DEF PostReq, SameReq
<1>5. PutReq(rq[p], AtRegistry) => PutReq(rq'[p], at)
  BY DEF PutReq, SameReq
<1> QED  BY <1>1, <1>2, <1>3, <1>4, <1>5 DEF ReqFor

\* The push of a caller stays, up to the readers of its pipes.
SamePush(p) == UNCHANGED psh \/ \E k, x : ReaderIs(p, k, x)

\* A push that stays keeps agreeing with its writer, its request and the tracker.
LEMMA SamePushGoes ==
  ASSUME PushInv, NEW p \in Proc, AtRegistry => AtRegistry', SamePush(p), UNCHANGED tracker,
         ReqFor(p, psh[p], rq'[p], AtRegistry')
  PROVE  PushGoes(p, AtRegistry')
<1>1. /\ WriterOK(psh[p], AtRegistry)
      /\ psh[p].pc \in {"copy", "closing"} => Tracked(tracker, AtRegistry)
      /\ psh[p].pc # "start" => Op(p).kind = "push"
  BY DEF PushInv, CallerOK
<1>2. Writes(p, psh[p].pc, psh[p].out, psh[p].go, psh[p].resp, psh[p].wpc, psh[p].snap)
  <2>1. CASE UNCHANGED psh
    BY <2>1 DEF Writes, PushInv, Pushes
  <2> QED  BY <2>1, PipeEffect DEF SamePush, PushInv
<1>3. WriterOK(psh'[p], AtRegistry')
  BY <1>1, <1>2 DEF WriterOK, Writes, Tracked
<1>4. ReqFor(p, psh'[p], rq'[p], AtRegistry')
  BY <1>2 DEF ReqFor, Writes
<1>5. psh[p].pc \in {"copy", "closing"} => Tracked(tracker, AtRegistry')
  BY <1>1 DEF Tracked
<1> QED  BY <1>1, <1>2, <1>3, <1>4, <1>5 DEF PushGoes, Writes

\* An answer reaches the push, and what a registry stores it has before it answers.
LEMMA ReceiveGoes ==
  ASSUME PushInv, NEW p \in Proc, NEW a, Receives(p, a), AtRegistry => AtRegistry', UNCHANGED tracker, SamePush(p),
         Op(p).kind = "push" /\ a.err = "none" =>
           /\ psh[p].pc = "check" /\ a.code = 200 => AtRegistry \/ (Op(p).manifest /\ ByTag(Op(p).object))
           /\ psh[p].pc = "post" => a.code # 201
           /\ rq[p].path = "mount" /\ a.code = 201 => AtRegistry'
           /\ rq[p].method = "PUT" /\ Accepted(a.code) => AtRegistry'
  PROVE  PushGoes(p, AtRegistry')
<1>1. /\ ReqFor(p, psh[p], rq[p], AtRegistry) /\ (psh[p].pc # "start" => Op(p).kind = "push")
      /\ psh[p].go = "run" => psh[p].pc # "start"
  BY DEF PushInv, CallerOK, WriterOK
<1>2. /\ SameReq(rq[p], rq'[p]) /\ rq'[p].ans = a
      /\ Answered(rq'[p]) => a.err = "none"
  BY DEF Receives, Answered
<1>3. psh[p].pc = "check" => CheckReq(p, rq'[p], AtRegistry')
  BY <1>1, <1>2, Zenon DEF ReqFor, CheckReq, SameReq
<1>4. psh[p].pc = "mount" => MountReq(rq'[p], AtRegistry')
  BY <1>1, <1>2, Zenon DEF ReqFor, MountReq, SameReq
<1>5. psh[p].pc = "post" => PostReq(rq'[p])
  BY <1>1, <1>2, Zenon DEF ReqFor, PostReq, SameReq
<1>6. psh[p].go = "run" => PutReq(rq'[p], AtRegistry')
  BY <1>1, <1>2, Zenon DEF ReqFor, PutReq, SameReq
<1>7. ReqFor(p, psh[p], rq'[p], AtRegistry')
  BY <1>3, <1>4, <1>5, <1>6 DEF ReqFor
<1> QED  BY <1>7, SamePushGoes

\* The requests after a step of one caller.
LEMMA ReqsKept ==
  ASSUME Reqs, NEW p \in Proc, UNCHANGED rq \/ (OtherReqs(p) /\ ReqOK(rq'[p]))
  PROVE  Reqs' /\ \A q \in Proc \ {p} : rq'[q] = rq[q]
BY DEF Reqs, OtherReqs

\* The inductive step.
LEMMA PushInvStep ==
  ASSUME PushInv, [Next]_vars
  PROVE  PushInv'
<1>a. Reqs /\ get = [q \in Proc |-> get[q]] /\ \A q \in Proc : get[q].pc # "start" => Op(q).kind = "fetch"
  BY DEF PushInv, CallerOK
<1>b. ASSUME UNCHANGED <<scene, stored>> PROVE AtRegistry' = AtRegistry
  BY <1>b DEF AtRegistry, PushHosts, FilterHosts
<1>1. ASSUME NEW p \in Proc, Auth(p) PROVE PushInv'
  <2>1. AuthDoes(p) /\ UNCHANGED <<scene, get, psh, tracker, stored>>
    BY <1>a, <1>1, AuthEffect DEF Auth, pullVars, pushVars
  <2>2. Reqs' /\ \A q \in Proc \ {p} : rq'[q] = rq[q]
    BY <1>a, <2>1, ReqsKept DEF AuthDoes, SameReq
  <2>3. ~Answered(rq'[p]) \/ (Answered(rq[p]) /\ rq'[p].ans = rq[p].ans)
    BY <2>1, Zenon DEF AuthDoes, Answered
  <2>4. ReqFor(p, psh[p], rq'[p], AtRegistry')
    BY <1>b, <2>1, <2>3, RequestGoes, Zenon DEF AuthDoes
  <2>5. PushGoes(p, AtRegistry')
    <3>1. SamePush(p)
      BY <2>1, Zenon DEF SamePush
    <3>2. AtRegistry' = AtRegistry
      BY <1>b, <2>1
    <3>3. UNCHANGED tracker
      BY <2>1, Zenon
    <3> QED  BY <2>4, <3>1, <3>2, <3>3, SamePushGoes, Zenon
  <2> QED  BY <1>a, <1>b, <2>1, <2>2, <2>5, PushKept
<1>2. ASSUME NEW p \in Proc, Pull(p) PROVE PushInv'
  <2>1. PullStep(p) /\ UNCHANGED <<scene, psh, tracker, stored>>
    BY <1>2 DEF Pull, pushVars
  <2>2. Reqs' /\ \A q \in Proc \ {p} : rq'[q] = rq[q]
    <3>1. ASSUME NEW r, Asks(p, r) PROVE OtherReqs(p) /\ ReqOK(rq'[p])
      BY <1>a, <3>1, AsksEffect, Zenon DEF Asks, ReqOK
    <3> QED  BY <1>a, <2>1, <3>1, PullAsks, ReqsKept
  <2>3. psh[p].pc = "start" /\ psh[p].go # "run"
    BY <2>1, PullKind DEF PushInv, CallerOK, WriterOK
  <2>4. ReqFor(p, psh[p], rq'[p], AtRegistry')
    BY <2>3, Zenon DEF ReqFor
  <2>5. PushGoes(p, AtRegistry')
    <3>1. SamePush(p)
      BY <2>1, Zenon DEF SamePush
    <3>2. AtRegistry' = AtRegistry
      BY <1>b, <2>1
    <3>3. UNCHANGED tracker
      BY <2>1, Zenon
    <3> QED  BY <2>4, <3>1, <3>2, <3>3, SamePushGoes, Zenon
  <2> QED  BY <1>b, <2>1, <2>2, <2>5, PullKind, PushKept
<1>3. ASSUME NEW p \in Proc, Push(p) PROVE PushInv'
  <2>1. PushStep(p) /\ UNCHANGED <<scene, get, stored>>
    BY <1>3, Zenon DEF Push, PushStep, PushStart, PushCheck, PushMount, PushPost, DoBody, BodyStart, BodyRead, BodyShort,
              UploadDone, ProviderFails, WriteStart, WriteEnd, CommitStart, CommitSelect, CloseWriter, pullVars
  <2>2. Reqs' /\ \A q \in Proc \ {p} : rq'[q] = rq[q]
    <3>1. ASSUME NEW r, Asks(p, r) PROVE OtherReqs(p) /\ ReqOK(rq'[p])
      BY <1>a, <3>1, AsksEffect, Zenon DEF Asks, ReqOK
    <3> QED  BY <1>a, <2>1, <3>1, PushAsks, ReqsKept DEF Sends, Receives, SameReq
  <2>3. PushGoes(p, AtRegistry')
    BY <1>b, <2>1, PushStepGoes
  <2> QED  BY <1>a, <1>b, <2>1, <2>2, <2>3, PushKept
<1>4. ASSUME NEW p \in Proc, NEW a, Receives(p, a), UNCHANGED <<scene, get>>, PushGoes(p, AtRegistry'),
             AtRegistry => AtRegistry'
      PROVE  PushInv'
  <2>1. Reqs' /\ \A q \in Proc \ {p} : rq'[q] = rq[q]
    BY <1>a, <1>4, ReqsKept DEF Receives, SameReq
  <2> QED  BY <1>a, <1>4, <2>1, PushKept
<1>5. ASSUME NEW p \in Proc, Reply(p) PROVE PushInv'
  <2>1. PICK a \in Answers(p) : /\ Receive(p, a)
                                /\ stored' = IF Stores(p, a) THEN stored \union {PushHosts[1]} ELSE stored
    BY <1>5 DEF Reply
  <2>2. UNCHANGED <<scene, get, psh, tracker>>
    BY <1>5 DEF Reply, pullVars
  <2>3. PushHosts' = PushHosts
    BY <2>2 DEF PushHosts, FilterHosts
  <2>4. (AtRegistry => AtRegistry') /\ (Stores(p, a) => AtRegistry')
    BY <2>1, <2>3 DEF AtRegistry
  <2>5. a.err = "none" =>
          /\ rq[p].path = "mount" /\ a.code = 201 => AtRegistry'
          /\ rq[p].method = "PUT" /\ Accepted(a.code) => AtRegistry'
    BY <2>4 DEF Stores, Accepted
  <2>6. Receives(p, a)
    BY <1>a, <2>1, ReceiveEffect, Zenon
  <2>7. PushGoes(p, AtRegistry')
    <3>1. SamePush(p) /\ UNCHANGED tracker
      BY <2>2, Zenon DEF SamePush
    <3>2. Op(p).kind = "push" /\ a.err = "none" =>
            /\ psh[p].pc = "check" /\ a.code = 200 => AtRegistry \/ (Op(p).manifest /\ ByTag(Op(p).object))
            /\ psh[p].pc = "post" => a.code # 201
            /\ rq[p].path = "mount" /\ a.code = 201 => AtRegistry'
            /\ rq[p].method = "PUT" /\ Accepted(a.code) => AtRegistry'
      BY <2>5, ReplyOK
    <3> QED  BY <2>4, <2>6, <3>1, <3>2, ReceiveGoes, Zenon
  <2> QED  BY <1>4, <2>2, <2>4, <2>6, <2>7, Zenon
<1>6. ASSUME NEW p \in Proc, Fails(p) PROVE PushInv'
  <2>1. PICK a \in Failures(p) : Receive(p, a) /\ SamePush(p)
    BY <1>6 DEF Fails, SamePush, ReaderIs
  <2>2. UNCHANGED <<scene, get, tracker, stored>>
    BY <1>6 DEF Fails, pullVars
  <2>3. a.err = "none" => a.code \in {304, 429, 500}
    BY DEF Failures, Failure, Answer
  <2>4. Receives(p, a)
    BY <1>a, <2>1, ReceiveEffect
  <2>5. PushGoes(p, AtRegistry')
    <3>1. a.err = "none" => a.code \notin {200, 201} /\ ~Accepted(a.code)
      BY <2>3 DEF Accepted
    <3>2. AtRegistry => AtRegistry'
      BY <1>b, <2>2, Zenon
    <3> QED  BY <2>1, <2>2, <2>4, <3>1, <3>2, ReceiveGoes, Zenon
  <2> QED  BY <1>4, <1>b, <2>2, <2>4, <2>5
<1>7. CASE Expires \/ UNCHANGED vars
  <2>1. UNCHANGED <<scene, rq, get, psh, tracker, stored>>
    BY <1>7 DEF Expires, Expire, vars, authVars, pullVars, pushVars
  <2>2. PushHosts' = PushHosts /\ \A p \in Proc : Op(p)' = Op(p)
    BY <2>1 DEF PushHosts, FilterHosts, Op
  <2>3. AtRegistry' = AtRegistry
    BY <2>1, <2>2 DEF AtRegistry
  <2>4. /\ Reqs' /\ Pushes' /\ get' = [p \in Proc |-> get'[p]]
        /\ tracker' = None \/ Tracked(tracker, AtRegistry)'
    BY <2>1, <2>3 DEF PushInv, Reqs, Pushes, Tracked
  <2>5. ASSUME NEW p \in Proc PROVE CallerOK(p)'
    <3>1. WriterOK(psh[p], AtRegistry)'
      BY <2>1, <2>3, <2>5 DEF PushInv, CallerOK, WriterOK, Tracked
    <3>2. ReqFor(p, psh[p], rq[p], AtRegistry)'
      BY <2>1, <2>2, <2>3, <2>5 DEF PushInv, CallerOK, ReqFor, CheckReq, MountReq, PostReq, PutReq, Answered
    <3> QED  BY <2>1, <2>2, <2>3, <2>5, <3>1, <3>2 DEF PushInv, CallerOK, Tracked
  <2> QED  BY <2>4, <2>5, Zenon DEF PushInv
<1> QED  BY <1>1, <1>2, <1>3, <1>5, <1>6, <1>7 DEF Next

\* The invariant holds when the program starts.
LEMMA PushInvInit == ASSUME Init PROVE PushInv
<1>1. /\ \A p \in Proc : rq[p] = NoRequest /\ psh[p] = NoPush /\ get[p] = NoFetch
      /\ tracker = None /\ rq = [p \in Proc |-> rq[p]] /\ psh = [p \in Proc |-> psh[p]]
      /\ get = [p \in Proc |-> get[p]]
  BY DEF Init, AuthInit, PullInit, PushInit
<1>2. WriterOK(NoPush, AtRegistry) /\ NoPush.pc = "start" /\ NoPush.go = "none"
  BY ConstAssumption DEF NoPush, WriterOK, IsPush, PushField
<1>3. NoFetch.pc = "start"
  BY DEF NoFetch
<1> QED  BY <1>1, <1>2, <1>3 DEF PushInv, CallerOK, Reqs, ReqOK, Pushes, WriterOK, ReqFor

\* What the tracker calls committed and what a push reports as done is at the registry, for any number of
\* pushes of one reference, retries and failures (dockerPusher.push, pushWriter.Write and Commit).
THEOREM CommittedContentIsStored == Spec => []CommittedIsStored
<1>1. Init => PushInv
  BY PushInvInit
<1>2. PushInv => CommittedIsStored
  BY DEF PushInv, CallerOK, WriterOK, Tracked, AtRegistry, CommittedIsStored
<1> QED  BY <1>1, <1>2, PushInvStep, PTL DEF Spec

-----------------------------------------------------------------------------
(* Reads.                                                                  *)

\* The fields of a fetch and its reader.
FetchField == {"pc", "k", "off", "rc", "noprog", "range", "path", "host", "err", "n", "read"}
IsFetch(g) == g = [f \in FetchField |-> g[f]]

\* The body that is open stands at the offset of the reader, or is the empty one at the end of the content.
ReaderOK(g) ==
  /\ IsFetch(g) /\ g.off \in Nat
  /\ g.rc # None => (g.rc = g.off \/ g.rc = Size) /\ g.pc \notin {"start", "find"}
  /\ g.read # None => g.read.byte = g.read.off

\* An answer starts at the first byte, or, if it was asked for a range, where its Content-Range says.
StartOK(a, off) ==
  \/ a.cr = None /\ a.start = 0
  \/ a.cr = a.start /\ a.cr \in Nat /\ off > 0

\* While open waits for its request, the reader has no body and stays at the offset that was asked for.
OpenOK(g, r) ==
  g.pc \in {"read", "reopen"} /\ r.st # "idle" =>
    /\ g.rc = None /\ r.range = g.off
    /\ r.st \in {"resp", "done"} /\ r.ans.err = "none" => StartOK(r.ans, g.off)

\* The kept request of FetchByDigest has no range while the reader stands at the start.
RangeOK(p, g) == Op(p).by = "digest" /\ g.off = 0 => g.range = 0

\* No request is under way before the fetch has started.
StartIdle(p, g, r) == Op(p).kind = "fetch" /\ g.pc = "start" => r.st = "idle"

FetchOK(p, g, r) == ReaderOK(g) /\ OpenOK(g, r) /\ RangeOK(p, g) /\ StartIdle(p, g, r)
FetchInv == PushInv /\ scene \in Scenario /\ \A p \in Proc : FetchOK(p, get[p], rq[p])

\* Fetch starts: content that is there already, or a reader at the offset of the writer.
LEMMA FetchStartStep ==
  ASSUME FetchInv, NEW p \in Proc, FetchStart(p)
  PROVE  FetchOK(p, get'[p], rq'[p])
<1> DEFINE g == get[p]
<1> DEFINE h == get'[p]
<1>g. g = get[p] /\ h = get'[p]
  OBVIOUS
<1> DEFINE resume == Op(p).resume
<1>a. /\ FetchOK(p, g, rq[p]) /\ IsFetch(g) /\ g.pc = "start" /\ Op(p).kind = "fetch" /\ UNCHANGED rq
      /\ get = [q \in Proc |-> get[q]]
  BY DEF FetchInv, PushInv, FetchOK, ReaderOK, FetchStart, authVars
<1>b. resume \in Nat
  BY <1>a, ConstAssumption DEF FetchInv, Op
<1>c. rq'[p].st = "idle"
  BY <1>a DEF FetchOK, StartIdle
<1>1. \/ Op(p).by = "desc" /\ h = [g EXCEPT !.pc = "fetched", !.off = Size]
      \/ h = [g EXCEPT !.pc = "failed", !.err = "zero"]
      \/ h = [g EXCEPT !.pc = "failed", !.err = "notfound"]
      \/ Op(p).by = "desc" /\ h = [g EXCEPT !.pc = "read", !.off = resume]
      \/ h = [g EXCEPT !.pc = "find"]
      \/ h = [g EXCEPT !.pc = "read"]
  BY <1>a DEF FetchStart
<1> HIDE DEF g, h, resume
<1>2. /\ IsFetch(h) /\ h.pc # "start" /\ h.range = g.range
      /\ h.rc = g.rc /\ h.read = g.read
  BY <1>a, <1>1, Zenon DEF IsFetch, FetchField
<1>3. h.off = g.off \/ (Op(p).by = "desc" /\ h.off \in {Size, resume})
  BY <1>a, <1>1, Zenon DEF IsFetch, FetchField
<1> QED  BY <1>g, <1>a, <1>b, <1>c, <1>2, <1>3, ConstAssumption DEF FetchOK, ReaderOK, OpenOK, RangeOK, StartIdle

\* FetchByDigest looks for its source.
LEMMA FindStep ==
  ASSUME FetchInv, NEW p \in Proc, FindAsk(p) \/ FindAnswer(p)
  PROVE  FetchOK(p, get'[p], rq'[p])
<1> DEFINE g == get[p]
<1> DEFINE h == get'[p]
<1>g. g = get[p] /\ h = get'[p]
  OBVIOUS
<1>a. FetchOK(p, g, rq[p]) /\ IsFetch(g) /\ g.pc = "find" /\ get = [q \in Proc |-> get[q]] /\ Reqs
  BY DEF FetchInv, PushInv, FetchOK, ReaderOK, FindAsk, FindAnswer
<1>1. CASE FindAsk(p)
  BY <1>1, <1>a DEF FindAsk, pullVars, FetchOK, OpenOK, StartIdle
<1>2. CASE FindAnswer(p)
  <2> DEFINE r == rq[p]
  <2> DEFINE k == g.k + 1
  <2>1. /\ rq'[p] = NoRequest
        /\ \/ h = [g EXCEPT !.pc = "read", !.host = r.host, !.path = r.path, !.k = 1]
           \/ h = [g EXCEPT !.pc = "failed", !.err = "status"]
           \/ h = [g EXCEPT !.k = k]
    BY <1>2, <1>a DEF FindAnswer, Reqs
  <2> HIDE DEF g, h, r, k
  <2>2. /\ IsFetch(h) /\ h.pc # "start" /\ h.range = g.range /\ h.off = g.off
        /\ h.rc = g.rc /\ h.read = g.read
    BY <1>a, <2>1, Zenon DEF IsFetch, FetchField
  <2>3. rq'[p].st = "idle"
    BY <2>1 DEF NoRequest
  <2> QED  BY <1>g, <1>a, <2>2, <2>3 DEF FetchOK, ReaderOK, OpenOK, RangeOK, StartIdle
<1> QED  BY <1>1, <1>2

\* open asks for the bytes from the offset on; at the end of the content there is nothing to ask for.
LEMMA OpenAskStep ==
  ASSUME FetchInv, NEW p \in Proc, OpenAsk(p)
  PROVE  FetchOK(p, get'[p], rq'[p])
<1> DEFINE g == get[p]
<1> DEFINE h == get'[p]
<1>g. g = get[p] /\ h = get'[p]
  OBVIOUS
<1>a. /\ FetchOK(p, g, rq[p]) /\ IsFetch(g) /\ g.pc \in {"read", "reopen"} /\ g.rc = None /\ rq[p].st = "idle"
      /\ get = [q \in Proc |-> get[q]] /\ Reqs
  BY DEF FetchInv, PushInv, FetchOK, ReaderOK, OpenAsk
<1>1. CASE g.off < Size \/ Unsized(p)
  <2> DEFINE range == RangeOf(p)
  <2> DEFINE s == OpenSources(p)[g.k]
  <2>1. /\ h = [g EXCEPT !.range = range]
        /\ rq'[p] = Request(s.host, ~s.url, "GET", s.path, RepositoryScope(FALSE), range, FALSE)
    BY <1>1, <1>a DEF OpenAsk, Ask, Reqs
  <2>2. range = g.off
    BY <1>a DEF RangeOf, FetchOK, RangeOK, ReaderOK
  <2> HIDE DEF g, h, range, s
  <2>3. IsFetch(h) /\ h.pc = g.pc /\ h.range = range /\ h.off = g.off /\ h.rc = g.rc /\ h.read = g.read
    BY <1>a, <2>1 DEF IsFetch, FetchField
  <2>4. rq'[p].st = "do" /\ rq'[p].range = range
    BY <2>1 DEF Request
  <2> QED  BY <1>g, <1>a, <2>2, <2>3, <2>4 DEF FetchOK, ReaderOK, OpenOK, RangeOK, StartIdle
<1>2. CASE ~(g.off < Size \/ Unsized(p))
  <2>1. h = [g EXCEPT !.rc = Size, !.pc = "read"] /\ UNCHANGED rq
    BY <1>2, <1>a DEF OpenAsk
  <2> HIDE DEF g, h
  <2>2. IsFetch(h) /\ h.pc = "read" /\ h.range = g.range /\ h.off = g.off /\ h.rc = Size /\ h.read = g.read
    BY <1>a, <2>1, Zenon DEF IsFetch, FetchField
  <2> QED  BY <1>g, <1>a, <2>1, <2>2 DEF FetchOK, ReaderOK, OpenOK, RangeOK, StartIdle
<1> QED  BY <1>1, <1>2

\* The body that open returns stands at the offset, whether the registry has honoured the range or not.
LEMMA OpenAnswerStep ==
  ASSUME FetchInv, NEW p \in Proc, OpenAnswer(p)
  PROVE  FetchOK(p, get'[p], rq'[p])
<1> DEFINE g == get[p]
<1> DEFINE h == get'[p]
<1>g. g = get[p] /\ h = get'[p]
  OBVIOUS
<1> DEFINE a == rq[p].ans
<1> DEFINE rc == Positioned(p, a)
<1> DEFINE k == g.k + 1
<1> DEFINE e == IF g.pc = "reopen" THEN "cut" ELSE "open"
<1>a. /\ FetchOK(p, g, rq[p]) /\ IsFetch(g) /\ g.pc \in {"read", "reopen"} /\ g.rc = None /\ rq[p].st = "done"
      /\ get = [q \in Proc |-> get[q]] /\ Reqs
  BY DEF FetchInv, PushInv, FetchOK, ReaderOK, OpenAnswer, Done
<1>b. (Opened(p, a) => StartOK(a, g.off)) /\ g.off \in Nat
  BY <1>a DEF FetchOK, OpenOK, ReaderOK, Opened
<1>1. Opened(p, a) => rc = g.off
  <2>1. CASE g.off = 0
    BY <1>b, <2>1 DEF Positioned, StartOK
  <2>2. CASE g.off > 0
    <3>1. Opened(p, a) /\ a.cr # None => a.cr = g.off /\ a.start = g.off
      BY <1>b, <2>2, Zenon DEF Opened, StartOK
    <3>2. Opened(p, a) /\ a.cr = None => a.start = 0
      BY <1>b, ConstAssumption DEF StartOK
    <3> QED  BY <1>b, <2>2, <3>1, <3>2 DEF Positioned
  <2>3. g.off = 0 \/ g.off > 0
    BY <1>b
  <2> QED  BY <2>1, <2>2, <2>3, Zenon
<1>2. /\ rq'[p] = NoRequest
      /\ \/ Opened(p, a) /\ h = [g EXCEPT !.pc = "read", !.rc = rc, !.k = 1]
         \/ h = [g EXCEPT !.k = k]
         \/ h = [g EXCEPT !.pc = "failed", !.k = 1, !.err = e]
  BY <1>a DEF OpenAnswer, Reqs
<1> HIDE DEF g, h, rc, k, e
<1>3. /\ IsFetch(h) /\ h.pc \notin {"start", "find"} /\ h.range = g.range /\ h.off = g.off
      /\ h.rc \in {g.rc, rc} /\ (h.rc # g.rc => Opened(p, a)) /\ h.read = g.read
  BY <1>a, <1>2, Zenon DEF IsFetch, FetchField
<1>4. rq'[p].st = "idle"
  BY <1>2 DEF NoRequest
<1> QED  BY <1>g, <1>a, <1>1, <1>3, <1>4 DEF FetchOK, ReaderOK, OpenOK, RangeOK, StartIdle

\* Read, Seek and the errors of a body.
LEMMA ReadStep ==
  ASSUME FetchInv, NEW p \in Proc, ReadByte(p) \/ ReadCut(p) \/ ReadError(p) \/ ReadEOF(p) \/ Seek(p),
         "seek" \in scene.ops => Op(p).by # "digest"
  PROVE  FetchOK(p, get'[p], rq'[p])
<1> DEFINE g == get[p]
<1> DEFINE h == get'[p]
<1>g. g = get[p] /\ h = get'[p]
  OBVIOUS
<1>a. /\ FetchOK(p, g, rq[p]) /\ IsFetch(g) /\ g.pc = "read" /\ (g.rc # None \/ rq[p].st = "idle")
      /\ get = [q \in Proc |-> get[q]] /\ rq' = rq
  BY Zenon DEF FetchInv, PushInv, FetchOK, ReaderOK, ReadByte, ReadCut, ReadError, ReadEOF, Seek, authVars
<1>b. rq'[p].st = "idle" /\ g.off \in Nat
  BY <1>a DEF FetchOK, OpenOK, ReaderOK
<1> DEFINE b == Byte(g)
<1> DEFINE off == g.off + 1
<1> DEFINE same == g.off + 0
<1> DEFINE rc == g.rc + 1
<1> DEFINE np == g.noprog + 1
<1> DEFINE n == g.n + 1
<1>c. off \in Nat /\ off # 0 /\ same = g.off
  BY <1>b
<1>d. g.rc # None /\ g.rc < Size => g.rc = g.off /\ b.byte = b.off /\ rc = off
  BY <1>a, ConstAssumption DEF FetchOK, ReaderOK, Byte
<1>1. CASE ReadByte(p)
  <2>1. h = [g EXCEPT !.off = off, !.rc = rc, !.noprog = 0, !.read = b]
    BY <1>1, <1>a DEF ReadByte
  <2>2. b.byte = b.off /\ rc = off
    BY <1>1, <1>d DEF ReadByte
  <2> HIDE DEF g, h, b, off, rc
  <2>3. IsFetch(h) /\ h.pc = g.pc /\ h.off = off /\ h.rc = rc /\ h.read = b /\ h.range = g.range
    BY <1>a, <2>1, Zenon DEF IsFetch, FetchField
  <2> QED  BY <1>g, <1>a, <1>b, <1>c, <2>2, <2>3 DEF FetchOK, ReaderOK, OpenOK, RangeOK, StartIdle
<1>2. CASE ReadCut(p)
  <2>1. \/ h = [g EXCEPT !.pc = "failed", !.err = "cut", !.noprog = np]
        \/ h = [g EXCEPT !.pc = "failed", !.err = "cut", !.noprog = 0]
        \/ h = [g EXCEPT !.pc = "reopen", !.rc = None, !.off = same, !.noprog = np, !.read = g.read]
        \/ h = [g EXCEPT !.pc = "reopen", !.rc = None, !.off = off, !.noprog = 0, !.read = b]
    <3>1. PICK i \in {0, 1} :
            LET q == IF i = 0 THEN g.noprog + 1 ELSE 0
            IN  get' = [get EXCEPT ![p] =
                  IF q > MaxRetry
                  THEN [g EXCEPT !.pc = "failed", !.err = "cut", !.noprog = q]
                  ELSE [g EXCEPT !.pc = "reopen", !.rc = None, !.off = @ + i, !.noprog = q,
                                 !.read = IF i = 0 THEN @ ELSE Byte(g)]]
      BY <1>2, Zenon DEF ReadCut
    <3>2. CASE i = 0
      BY <1>a, <1>b, <3>1, <3>2
    <3>3. CASE i = 1
      BY <1>a, <3>1, <3>3
    <3> QED  BY <3>2, <3>3
  <2>2. b.byte = b.off
    BY <1>2, <1>d DEF ReadCut
  <2> HIDE DEF g, h, b, off, same, np
  <2>3. IsFetch(h) /\ h.pc \in {"failed", "reopen"} /\ h.rc \in {g.rc, None} /\ h.range = g.range
    BY <1>a, <2>1, Zenon DEF IsFetch, FetchField
  <2>4. (h.off = g.off \/ (h.off = off /\ h.rc = None)) /\ h.read \in {g.read, b}
    BY <1>a, <1>c, <2>1, Zenon DEF IsFetch, FetchField
  <2> QED  BY <1>g, <1>a, <1>b, <1>c, <2>2, <2>3, <2>4 DEF FetchOK, ReaderOK, OpenOK, RangeOK, StartIdle
<1>3. CASE ReadError(p) \/ ReadEOF(p)
  <2>1. \/ h = [g EXCEPT !.pc = "failed", !.err = "net"]
        \/ h = [g EXCEPT !.pc = "fetched"] \/ h = [g EXCEPT !.pc = "failed"]
    BY <1>3, <1>a DEF ReadError, ReadEOF
  <2> HIDE DEF g, h
  <2>2. IsFetch(h) /\ h.pc \in {"failed", "fetched"} /\ h.rc = g.rc /\ h.range = g.range
    BY <1>a, <2>1, Zenon DEF IsFetch, FetchField
  <2>3. h.off = g.off /\ h.read = g.read
    BY <1>a, <2>1, Zenon DEF IsFetch, FetchField
  <2> QED  BY <1>g, <1>a, <1>b, <2>2, <2>3 DEF FetchOK, ReaderOK, OpenOK, RangeOK, StartIdle
<1>4. CASE Seek(p)
  <2>1. PICK abs \in 0..Size : h = [g EXCEPT !.off = abs, !.rc = None, !.n = n]
    BY <1>4, <1>a, Zenon DEF Seek
  <2>2. Op(p).by # "digest"
    BY <1>4, Zenon DEF Seek
  <2> HIDE DEF g, h, n
  <2>3. IsFetch(h) /\ h.pc = "read" /\ h.rc = None /\ h.off = abs /\ h.read = g.read
    BY <1>a, <2>1, Zenon DEF IsFetch, FetchField
  <2>4. ReaderOK(h)
    <3>1. abs \in Nat /\ (g.read # None => g.read.byte = g.read.off)
      BY <1>a, ConstAssumption DEF FetchOK, ReaderOK
    <3> QED  BY <2>3, <3>1, Zenon DEF ReaderOK
  <2>5. OpenOK(h, rq'[p]) /\ RangeOK(p, h) /\ StartIdle(p, h, rq'[p])
    BY <1>b, <2>2, Zenon DEF OpenOK, RangeOK, StartIdle
  <2> QED  BY <1>g, <2>4, <2>5, Zenon DEF FetchOK
<1> QED  BY <1>1, <1>2, <1>3, <1>4, Zenon

\* No reader made by FetchByDigest is moved by Seek: its request keeps the Range header of the last open.
NoDigestSeek ==
  \A s \in Scenario, p \in Proc :
    s.op[p].kind = "fetch" /\ "seek" \in s.ops => s.op[p].by # "digest"

\* What a registry answers and how a request fails, with the range that was asked for.
LEMMA AnswersStart ==
  ASSUME NEW p \in Proc, rq[p].range \in Nat, NEW a, a \in Answers(p) \union Failures(p)
  PROVE  StartOK(a, rq[p].range)
<1>1. \A c : Answer(c).cr = None /\ Answer(c).start = 0 /\ Failure(c).cr = None /\ Failure(c).start = 0
  BY DEF Answer, Failure
<1>2. Unauthorized(rq[p]).cr = None /\ Unauthorized(rq[p]).start = 0
  BY DEF Unauthorized, Answer
<1>3. StartOK(Ranged(rq[p].host, rq[p].range), rq[p].range)
  <2> DEFINE g == rq[p].range
  <2> DEFINE x == Ranged(rq[p].host, rq[p].range)
  <2>1. CASE g = 0 \/ scene.range[rq[p].host] = "ignored"
    BY <1>1, <2>1 DEF Ranged, StartOK
  <2>3. CASE ~(g = 0 \/ scene.range[rq[p].host] = "ignored") /\ g >= Size
    BY <1>1, <2>3 DEF Ranged, StartOK
  <2>2. CASE ~(g = 0 \/ scene.range[rq[p].host] = "ignored") /\ ~(g >= Size)
    <3> DEFINE s == IF scene.range[rq[p].host] = "wrong" THEN g - 1 ELSE g
    <3>1. s \in Nat /\ g > 0
      BY <2>2
    <3>2. x = [Answer(206) EXCEPT !.cr = s, !.start = s]
      BY <2>2 DEF Ranged
    <3> HIDE DEF s
    <3>3. x.cr = s /\ x.start = s
      BY <3>2, Zenon DEF Answer
    <3> QED  BY <3>1, <3>3 DEF StartOK
  <2> QED  BY <2>1, <2>2, <2>3
<1>4. CASE a \in Answers(p)
  <2>1. \/ \E c : a = Answer(c) \/ a = Failure(c)
        \/ a = Unauthorized(rq[p]) \/ a = Ranged(rq[p].host, rq[p].range)
    BY <1>4 DEF Answers
  <2>2. CASE a = Ranged(rq[p].host, rq[p].range)
    BY <1>3, <2>2, Zenon
  <2>3. CASE a.cr = None /\ a.start = 0
    BY <2>3, Zenon DEF StartOK
  <2> QED  BY <1>1, <1>2, <2>1, <2>2, <2>3, Zenon
<1>5. CASE a \in Failures(p)
  <2>1. \E c : a = Answer(c) \/ a = Failure(c)
    BY <1>5 DEF Failures
  <2> QED  BY <1>1, <2>1 DEF StartOK
<1> QED  BY <1>4, <1>5

\* A request under way goes on: what it asks for stays, and an answer fits it.
LEMMA FetchGoes ==
  ASSUME FetchInv, NEW p \in Proc, UNCHANGED get, rq[p].st # "idle",
         rq'[p].st = "idle" \/ SameReq(rq[p], rq'[p]),
         \/ rq'[p].st \notin {"resp", "done"}
         \/ rq'[p].ans.err # "none"
         \/ rq[p].st = "resp" /\ rq'[p].ans = rq[p].ans
         \/ rq[p].range \in Nat => StartOK(rq'[p].ans, rq[p].range)
  PROVE  FetchOK(p, get'[p], rq'[p])
<1>1. FetchOK(p, get[p], rq[p])
  BY DEF FetchInv
<1> QED  BY <1>1, Zenon DEF FetchOK, ReaderOK, OpenOK, StartIdle, SameReq

\* A caller that does not fetch keeps a reader that has not started.
LEMMA NoFetchGoes ==
  ASSUME FetchInv, NEW p \in Proc, UNCHANGED get, Op(p).kind # "fetch"
  PROVE  FetchOK(p, get'[p], rq'[p])
<1>1. FetchOK(p, get[p], rq[p]) /\ get[p].pc = "start"
  BY Zenon DEF FetchInv, PushInv, CallerOK
<1> QED  BY <1>1 DEF FetchOK, OpenOK, StartIdle

\* The body of a request is the only part of a push that a caller which fetches could take.
LEMMA PushOfFetch ==
  ASSUME PushInv, NEW p \in Proc, PushStep(p), Op(p).kind = "fetch"
  PROVE  /\ rq[p].st # "idle"
         /\ UNCHANGED rq \/ rq'[p] = NoRequest \/ Sends(p) \/ Receives(p, Failure("net"))
<1>1. psh[p].pc = "start" /\ psh[p].go # "run" /\ Reqs /\ rq = [q \in Proc |-> rq[q]]
  BY DEF PushInv, CallerOK, WriterOK, Reqs
<1>2. DoBody(p) \/ BodyStart(p) \/ BodyShort(p)
  BY <1>1 DEF PushStep, PushStart, PushCheck, PushMount, PushPost, BodyRead, UploadDone, ProviderFails, WriteStart,
              WriteEnd, CommitStart, CommitSelect, CloseWriter
<1>3. CASE DoBody(p)
  <2>1. rq[p].st = "do" /\ (rq' = [rq EXCEPT ![p] = NoRequest] \/ Advances(p, "auth"))
    BY <1>3 DEF DoBody, Advances
  <2> QED  BY <1>1, <2>1, ReqState, Zenon DEF Sends
<1>4. CASE BodyStart(p)
  BY <1>4 DEF BodyStart, authVars
<1>5. CASE BodyShort(p)
  BY <1>1, <1>5, ReceiveEffect DEF BodyShort
<1> QED  BY <1>2, <1>3, <1>4, <1>5

\* The inductive step.
LEMMA FetchInvStep ==
  ASSUME NoDigestSeek, FetchInv, [Next]_vars
  PROVE  FetchInv'
<1>a. PushInv /\ PushInv' /\ Reqs
  BY PushInvStep DEF FetchInv, PushInv
<1>b. scene' = scene
  BY DEF Next, Auth, Pull, Push, Reply, Fails, Expires, vars
<1>c. ASSUME NEW p \in Proc, FetchOK(p, get'[p], rq'[p]),
             \A q \in Proc \ {p} : get'[q] = get[q] /\ rq'[q] = rq[q]
      PROVE  FetchInv'
  <2>1. \A q \in Proc : FetchOK(q, get'[q], rq'[q])
    BY <1>c DEF FetchInv
  <2>2. \A q \in Proc : FetchOK(q, get[q], rq[q])'
    BY <1>b, <2>1, Zenon DEF FetchOK, ReaderOK, OpenOK, RangeOK, StartIdle, Op
  <2> QED  BY <1>a, <1>b, <2>2 DEF FetchInv
<1>1. ASSUME NEW p \in Proc, Auth(p) PROVE FetchInv'
  <2>1. AuthDoes(p) /\ UNCHANGED get
    BY <1>1, <1>a, AuthEffect, Zenon DEF Auth, pullVars
  <2>2. FetchOK(p, get'[p], rq'[p])
    BY <2>1, FetchGoes DEF AuthDoes
  <2> QED  BY <1>c, <2>1, <2>2 DEF AuthDoes, OtherReqs
<1>2. ASSUME NEW p \in Proc, Pull(p) PROVE FetchInv'
  <2>1. PullStep(p)
    BY <1>2 DEF Pull
  <2>2. \A q \in Proc \ {p} : get'[q] = get[q] /\ rq'[q] = rq[q]
    <3>1. UNCHANGED rq \/ OtherReqs(p)
      BY <1>a, <2>1, PullAsks, AsksEffect
    <3> QED  BY <1>a, <2>1, <3>1, PullKind DEF OtherReqs
  <2>3. CASE FetchStart(p)
    BY <1>c, <2>2, <2>3, FetchStartStep, Zenon
  <2>4. CASE FindAsk(p) \/ FindAnswer(p)
    BY <1>c, <2>2, <2>4, FindStep
  <2>5. CASE OpenAsk(p) \/ OpenAnswer(p)
    BY <1>c, <2>2, <2>5, OpenAskStep, OpenAnswerStep, Zenon
  <2>6. CASE ReadByte(p) \/ ReadCut(p) \/ ReadError(p) \/ ReadEOF(p) \/ Seek(p)
    <3>1. Op(p).kind = "fetch"
      BY <1>a, <2>6, Zenon DEF PushInv, CallerOK, ReadByte, ReadCut, ReadError, ReadEOF, Seek
    <3>2. "seek" \in scene.ops => Op(p).by # "digest"
      BY <3>1, Zenon DEF NoDigestSeek, FetchInv, Op
    <3> QED  BY <1>c, <2>2, <2>6, <3>2, ReadStep
  <2>7. CASE ResolveStart(p) \/ ResolveHead(p) \/ ResolveGet(p) \/ RetryWithPlainHTTP(p)
    <3>1. UNCHANGED get
      BY <2>7, Zenon DEF ResolveStart, ResolveHead, ResolveGet, RetryWithPlainHTTP
    <3>2. Op(p).kind # "fetch"
      BY <2>7, Zenon DEF ResolveStart, ResolveHead, ResolveGet, RetryWithPlainHTTP
    <3> QED  BY <1>c, <2>2, <3>1, <3>2, NoFetchGoes
  <2> QED  BY <2>1, <2>3, <2>4, <2>5, <2>6, <2>7 DEF PullStep
<1>3. ASSUME NEW p \in Proc, Push(p) PROVE FetchInv'
  <2>1. PushStep(p) /\ UNCHANGED get
    BY <1>3, Zenon DEF Push, PushStep, PushStart, PushCheck, PushMount, PushPost, DoBody, BodyStart, BodyRead, BodyShort,
              UploadDone, ProviderFails, WriteStart, WriteEnd, CommitStart, CommitSelect, CloseWriter, pullVars
  <2>2. \A q \in Proc \ {p} : rq'[q] = rq[q]
    BY <1>a, <2>1, PushAsks, AsksEffect, Zenon DEF Sends, Receives, OtherReqs
  <2>3. CASE Op(p).kind = "fetch"
    <3>1. UNCHANGED rq => FetchOK(p, get'[p], rq'[p])
      BY <2>1 DEF FetchInv
    <3>2. NoRequest.st = "idle" /\ Failure("net").err = "net"
      BY Zenon DEF NoRequest, Failure
    <3>3. ~UNCHANGED rq => FetchOK(p, get'[p], rq'[p])
      BY <1>a, <2>1, <2>3, <3>2, PushOfFetch, FetchGoes, Zenon DEF Sends, Receives
    <3> QED  BY <1>c, <2>1, <2>2, <3>1, <3>3, Zenon
  <2>4. CASE Op(p).kind # "fetch"
    BY <1>c, <2>1, <2>2, <2>4, NoFetchGoes
  <2> QED  BY <2>3, <2>4
<1>4. ASSUME NEW p \in Proc, Reply(p) \/ Fails(p) PROVE FetchInv'
  <2>1. PICK a \in Answers(p) \union Failures(p) : Receive(p, a)
    BY <1>4 DEF Reply, Fails
  <2>2. UNCHANGED get
    BY <1>4 DEF Reply, Fails, pullVars
  <2>3. Receives(p, a)
    BY <1>a, <2>1, ReceiveEffect, Zenon
  <2>4. FetchOK(p, get'[p], rq'[p])
    BY <2>2, <2>3, AnswersStart, FetchGoes DEF Receives
  <2> QED  BY <1>c, <2>2, <2>3, <2>4 DEF Receives, OtherReqs
<1>5. CASE Expires \/ UNCHANGED vars
  <2>1. UNCHANGED <<scene, rq, get>>
    BY <1>5 DEF Expires, Expire, vars, authVars, pullVars
  <2> QED  BY <1>a, <2>1, Zenon DEF FetchInv, FetchOK, ReaderOK, OpenOK, RangeOK, StartIdle, Op
<1> QED  BY <1>1, <1>2, <1>3, <1>4, <1>5 DEF Next

\* Every byte a reader is given is the byte at its offset, for content of any size, any hosts that honour,
\* ignore or misread a range, and bodies that are cut and opened again any number of times, unless a reader
\* made by FetchByDigest is moved by Seek (dockerFetcher.open, httpReadSeeker.Read and Seek).
THEOREM BytesComeInOrder == ASSUME NoDigestSeek PROVE Spec => []BytesInOrder
<1>1. Init => FetchInv
  <2>1. ASSUME Init PROVE FetchInv
    <3>1. scene \in Scenario /\ \A p \in Proc : rq[p] = NoRequest /\ get[p] = NoFetch
      BY <2>1 DEF Init, AuthInit, PullInit
    <3>2. ReaderOK(NoFetch) /\ NoFetch.pc = "start" /\ NoFetch.range = 0
      BY DEF NoFetch, ReaderOK, IsFetch, FetchField
    <3>3. NoRequest.st = "idle"
      BY DEF NoRequest
    <3> QED  BY <2>1, <3>1, <3>2, <3>3, PushInvInit DEF FetchInv, FetchOK, OpenOK, RangeOK, StartIdle
  <2> QED  BY <2>1
<1>2. FetchInv => BytesInOrder
  BY DEF FetchInv, FetchOK, ReaderOK, BytesInOrder
<1>3. FetchInv /\ [Next]_vars => FetchInv'
  BY FetchInvStep
<1> QED  BY <1>1, <1>2, <1>3, PTL DEF Spec
=============================================================================
