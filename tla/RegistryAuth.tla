---------------------------- MODULE RegistryAuth ----------------------------
(***************************************************************************)
(* Requests of the registry client (pkg/remote/remotes/docker): request.do, *)
(* doWithRetries and retryRequest, and the dockerAuthorizer that answers    *)
(* the challenges of a registry and caches its tokens for every request of  *)
(* a resolver.                                                              *)
(*                                                                          *)
(* A request is a record of rq; RegistryPull and RegistryPush start it and  *)
(* read its result when its state is "done".  The registry and its token    *)
(* server are external: they answer as scene says, and fail while there is  *)
(* budget.                                                                  *)
(***************************************************************************)
EXTENDS Naturals, Sequences, FiniteSets

CONSTANTS Proc,        \* the callers of one resolver
          Host,        \* registries and mirrors
          None,
          Size,        \* length of the content that is fetched or pushed
          Scenario,    \* the scenes Init chooses from
          MaxEpoch     \* bound: how often the registry lets its tokens expire

ASSUME ConstAssumption ==
  /\ Size \in Nat /\ None \notin Nat \union {"ok", "exists"}
  /\ \A s \in Scenario, p \in Proc : s.op[p].kind = "fetch" => s.op[p].resume \in Nat

VARIABLES
  scene,     \* the operations of this behaviour, its hosts and how they answer
  rq,        \* the request each caller has under way
  handlers,  \* dockerAuthorizer.handlers: a map from hosts to positions in pool
  pool,      \* every authHandler made; a request may still use one that was deleted
  epoch,     \* tokens of an earlier epoch have expired
  budget     \* failures the registry has left

authVars == <<rq, handlers, pool, epoch, budget>>

Method == {"HEAD", "GET", "POST", "PUT"}
Path   == {"manifests", "blobs", "referrers", "mount", "uploads", "upload"}

NoRequest == [st |-> "idle"]

\* dockerBase.request: host, method and path; range is the Range header (0: none), body says that
\* the request carries one.  authz: the host has an Authorizer.
Request(h, authz, method, path, scopes, range, body) ==
  [st |-> "do", host |-> h, authz |-> authz, method |-> method, path |-> path, scopes |-> scopes,
   range |-> range, body |-> body, n |-> 0, prev |-> None, hdr |-> None, hid |-> 0, ans |-> None]

\* RepositoryScope and GetTokenScopes: what the context asks for and what the challenge named.
RepositoryScope(push) == IF push THEN {"pull", "push"} ELSE {"pull"}
TokenScopes(r, i)     == r.scopes \union pool[i].scopes

Answer(code) == [err |-> "none", code |-> code, msg |-> FALSE, cr |-> None, start |-> 0]
Failure(err) == [err |-> err, code |-> 0, msg |-> FALSE, cr |-> None, start |-> 0]

Finish(p, ans) == rq' = [rq EXCEPT ![p].st = "done", ![p].ans = ans]
Done(p)        == rq[p].st = "done"

\* request.do up to authorize, for a request without a body.
Do(p) ==
  /\ rq[p].st = "do" /\ ~rq[p].body
  /\ rq' = [rq EXCEPT ![p].st = "auth"]
  /\ UNCHANGED <<handlers, pool, epoch, budget>>

SendWith(p, hdr) == rq' = [rq EXCEPT ![p].st = "send", ![p].hdr = hdr]

AuthorizeNone(p) ==
  /\ rq[p].st = "auth"
  /\ ~rq[p].authz \/ rq[p].host \notin DOMAIN handlers
  /\ SendWith(p, None)
  /\ UNCHANGED <<handlers, pool, epoch, budget>>

Handler(p) == pool[handlers[rq[p].host]]

\* A basic handler is only made with a user name and a secret.
DoBasicAuth(p) ==
  /\ rq[p].st = "auth" /\ rq[p].authz /\ rq[p].host \in DOMAIN handlers
  /\ Handler(p).scheme = "basic"
  /\ SendWith(p, [scheme |-> "basic"])
  /\ UNCHANGED <<handlers, pool, epoch, budget>>

\* Mutant: the job asks under the lock it has given up, and only then enters the map.
DoBearerAuth_Unlocked(p) ==
  /\ rq[p].st = "auth" /\ rq[p].authz /\ rq[p].host \in DOMAIN handlers
  /\ Handler(p).scheme = "bearer"
  /\ LET i      == handlers[rq[p].host]
         scoped == TokenScopes(rq[p], i)
     IN  IF \E t \in pool[i].tokens : t.scopes = scoped /\ t.st # "job"
         THEN rq' = [rq EXCEPT ![p].st = "wait", ![p].hid = i]
         ELSE rq' = [rq EXCEPT ![p].st = "token", ![p].hid = i]
  /\ UNCHANGED <<pool, handlers, epoch, budget>>

\* doBearerAuth under the lock of the handler: the first caller of a scope fetches its token, the
\* others wait for it.
DoBearerAuth(p) ==
  /\ rq[p].st = "auth" /\ rq[p].authz /\ rq[p].host \in DOMAIN handlers
  /\ Handler(p).scheme = "bearer"
  /\ LET i      == handlers[rq[p].host]
         scoped == TokenScopes(rq[p], i)
     IN  IF \E t \in pool[i].tokens : t.scopes = scoped
         THEN /\ rq' = [rq EXCEPT ![p].st = "wait", ![p].hid = i]
              /\ UNCHANGED pool
         ELSE /\ rq' = [rq EXCEPT ![p].st = "token", ![p].hid = i]
              /\ pool' = [pool EXCEPT ![i].tokens = @ \union {[scopes |-> scoped, st |-> "job", epoch |-> 0]}]
  /\ UNCHANGED <<handlers, epoch, budget>>

Token(p) == CHOOSE t \in pool[rq[p].hid].tokens : t.scopes = TokenScopes(rq[p], rq[p].hid)
Bearer(t) == [scheme |-> "bearer", scopes |-> t.scopes, epoch |-> t.epoch]

UseToken(p, t) ==
  IF t.st = "ok" THEN SendWith(p, Bearer(t)) ELSE Finish(p, Failure("token"))

Wait(p) ==
  /\ rq[p].st = "wait" /\ Token(p).st # "job"
  /\ UseToken(p, Token(p))
  /\ UNCHANGED <<handlers, pool, epoch, budget>>

\* FetchTokenWithOAuth and FetchToken, by what the token server does with a POST and a GET.
OAuthAnswers == IF scene.oauth THEN {"ok", "fail"} ELSE {"unsupported", "fail"}
GetAnswers   == {"ok", "fail"}

\* With a secret the POST endpoint is asked first, and the GET endpoint when it answers 400, 401,
\* 404 or 405; without one the token is anonymous.
FetchedToken ==
  IF scene.creds
  THEN {o \in OAuthAnswers : o # "unsupported"} \union (IF "unsupported" \in OAuthAnswers THEN GetAnswers ELSE {})
  ELSE GetAnswers

\* The deferred function stores the result, an error included, and wakes the waiters.
FetchToken(p) ==
  /\ rq[p].st = "token"
  /\ \E o \in FetchedToken :
       /\ o = "fail" => "token" \in scene.faults /\ budget > 0
       /\ budget' = IF o = "fail" THEN budget - 1 ELSE budget
       /\ LET scoped == TokenScopes(rq[p], rq[p].hid)
              t      == [scopes |-> scoped, st |-> o, epoch |-> epoch]
          IN  /\ pool' = [pool EXCEPT ![rq[p].hid].tokens = {u \in @ : u.scopes # scoped} \union {t}]
              /\ UseToken(p, t)
  /\ UNCHANGED <<handlers, epoch>>

\* External: what the registry requires of the Authorization header.
Authorized(r) ==
  \/ scene.scheme[r.host] = {}
  \/ /\ r.hdr # None
     /\ r.hdr.scheme \in scene.scheme[r.host]
     /\ r.hdr.scheme = "bearer" => r.hdr.epoch = epoch /\ r.scopes \subseteq r.hdr.scopes

\* External: a 401 names the schemes; its error parameter says that what was sent was rejected.
Unauthorized(r) == [Answer(401) EXCEPT !.msg = scene.msg /\ r.hdr # None]

\* The response (or the error of client.Do) reaches doWithRetries.
Receive(p, ans) ==
  /\ rq[p].st = "send"
  /\ IF ans.err # "none"
     THEN Finish(p, ans)
     ELSE rq' = [rq EXCEPT ![p].st = "resp", ![p].ans = ans, ![p].n = @ + 1]
  /\ UNCHANGED <<handlers, pool, epoch>>

\* doWithRetries once more; sameRequest compares the method of the last two requests.
Again(p, method) ==
  rq' = [rq EXCEPT ![p].st = "do", ![p].prev = rq[p].method, ![p].method = method, ![p].hdr = None]

\* invalidAuthorization
Rejected(r) == r.ans.msg /\ r.n > 1 /\ r.prev = r.method

NewAuthHandler(h, scheme, scopes) ==
  /\ pool' = Append(pool, [scheme |-> scheme, scopes |-> scopes, tokens |-> {}])
  /\ handlers' = [g \in DOMAIN handlers \union {h} |-> IF g = h THEN Len(pool) + 1 ELSE handlers[g]]

\* dockerAuthorizer.AddResponses: challenges are taken bearer first; a rejected token deletes the
\* handler, a known host keeps its handler.
AddResponses(p) ==
  LET r == rq[p]
      schemes == scene.scheme[r.host]
  IN \/ /\ "bearer" \in schemes /\ Rejected(r)
        /\ handlers' = [g \in DOMAIN handlers \ {r.host} |-> handlers[g]]
        /\ UNCHANGED pool
        /\ Finish(p, Failure("invalid"))
     \/ /\ "bearer" \in schemes /\ ~Rejected(r) /\ r.host \in DOMAIN handlers
        /\ Again(p, r.method)
        /\ UNCHANGED <<handlers, pool>>
     \/ /\ "bearer" \in schemes /\ ~Rejected(r) /\ r.host \notin DOMAIN handlers
        /\ \/ NewAuthHandler(r.host, "bearer", r.scopes) /\ Again(p, r.method)
           \/ \E f \in {"realm", "creds"} \intersect scene.faults :   \* GenerateTokenOptions, credentials
                Finish(p, Failure(f)) /\ UNCHANGED <<handlers, pool>>
     \/ /\ "bearer" \notin schemes /\ "creds" \in scene.faults
        /\ Finish(p, Failure("creds")) /\ UNCHANGED <<handlers, pool>>
     \/ /\ "bearer" \notin schemes
        /\ IF scene.creds
           THEN NewAuthHandler(r.host, "basic", {}) /\ Again(p, r.method)
           ELSE Finish(p, r.ans) /\ UNCHANGED <<handlers, pool>>

MaxResponses == 5

Spent(r) == r.n > MaxResponses

\* request.retryRequest
RetryRequest(p) ==
  /\ rq[p].st = "resp"
  /\ LET r     == rq[p]
         spent == Spent(r)
     IN  \/ /\ ~spent /\ r.ans.code = 401 /\ r.authz
            /\ AddResponses(p)
         \/ /\ ~spent /\ r.ans.code = 405 /\ r.method = "HEAD" /\ r.path = "manifests"
            /\ Again(p, "GET") /\ UNCHANGED <<handlers, pool>>
         \/ /\ ~spent /\ r.ans.code = 429
            /\ Again(p, r.method) /\ UNCHANGED <<handlers, pool>>
         \/ /\ \/ spent
               \/ r.ans.code = 401 /\ ~r.authz
               \/ r.ans.code = 405 /\ ~(r.method = "HEAD" /\ r.path = "manifests")
               \/ r.ans.code \notin {401, 405, 429}
            /\ Finish(p, r.ans) /\ UNCHANGED <<handlers, pool>>
  /\ UNCHANGED <<epoch, budget>>

\* External: the tokens the registry has given expire.
Expire ==
  /\ epoch < MaxEpoch /\ "expire" \in scene.faults
  /\ epoch' = epoch + 1
  /\ UNCHANGED <<rq, handlers, pool, budget>>

AuthInit ==
  /\ rq = [p \in Proc |-> NoRequest]
  /\ handlers = <<>>
  /\ pool = <<>>
  /\ epoch = 0
  /\ budget = scene.budget

AuthStep(p) ==
  \/ Do(p) \/ AuthorizeNone(p) \/ DoBasicAuth(p) \/ DoBearerAuth(p) \/ Wait(p) \/ FetchToken(p)
  \/ RetryRequest(p)

\* The token of a scope is fetched by one caller at a time: the others wait for its result (the
\* authResult of doBearerAuth).
OneTokenJob ==
  \A p, q \in Proc :
    p # q /\ rq[p].st = "token" /\ rq[q].st = "token" /\ rq[p].hid = rq[q].hid
      => TokenScopes(rq[p], rq[p].hid) # TokenScopes(rq[q], rq[q].hid)
=============================================================================
