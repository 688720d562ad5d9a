--------------------------- MODULE RegistryClient ---------------------------
(***************************************************************************)
(* Callers that resolve, fetch and push through one resolver, and the       *)
(* registries that answer them (external).                                  *)
(***************************************************************************)
EXTENDS RegistryPush

vars == <<scene, authVars, pullVars, pushVars>>

-----------------------------------------------------------------------------
(* External: the answers of a registry. *)

\* The registry has what is asked for.
Found(p) ==
  LET h == rq[p].host
  IN  CASE Op(p).kind = "resolve" -> /\ scene.manifest[h] # None
                                     /\ rq[p].path = Op(p).at
                                     /\ Op(p).ref = "digest" => scene.manifest[h].dgst = Op(p).dgst
        [] Op(p).kind = "fetch"   -> h \in scene.stored /\ rq[p].path = Op(p).at
        [] Op(p).kind = "push"    -> h \in stored \/ (Op(p).manifest /\ ByTag(Op(p).object))

\* A range is honoured, ignored, or answered with another one; there is none after the end.
Ranged(h, range) ==
  IF range = 0 \/ scene.range[h] = "ignored" THEN Answer(200)
  ELSE IF range >= Size THEN Answer(416)
  ELSE LET start == IF scene.range[h] = "wrong" THEN range - 1 ELSE range
       IN  [Answer(206) EXCEPT !.cr = start, !.start = start]

Answers(p) ==
  LET r == rq[p]
  IN  IF Op(p).kind = "resolve" /\ scene.plain /\ ~res[p].plain THEN {Failure("https")}
      ELSE IF ~Authorized(r) THEN {Unauthorized(r)}
      ELSE IF r.method = "HEAD" /\ r.path = "manifests" /\ scene.nohead THEN {Answer(405)}
      ELSE CASE r.path = "mount"   -> {Answer(201), Answer(202), Answer(401)}
             [] r.path = "uploads" -> {Answer(202)}
             [] r.method = "PUT"   -> {Answer(scene.put)}
             [] OTHER -> IF Found(p) THEN {Ranged(r.host, r.range)} ELSE {Answer(404)}

Stores(p, a) == a.err = "none" /\ a.code < 300 /\ (rq[p].method = "PUT" \/ (rq[p].path = "mount" /\ a.code = 201))

\* An answer to a request without a body, or to one whose body has been read.
Reply(p) ==
  /\ rq[p].st = "send"
  /\ rq[p].body => psh[p].pipes[Latest(p)].reader = "on" /\ psh[p].pipes[Latest(p)].got = Size
  /\ \E a \in Answers(p) :
       /\ Receive(p, a)
       /\ stored' = IF Stores(p, a) THEN stored \union {PushHosts[1]} ELSE stored
  /\ UNCHANGED <<scene, budget, pullVars, psh, tracker, held>>

Failures(p) ==
  {Failure("net") : x \in scene.faults \intersect {"net"}} \union
  {Answer(429) : x \in scene.faults \intersect {"429"}} \union
  {Answer(304) : x \in {f \in scene.faults : f = "304" /\ rq[p].method = "HEAD"}} \union
  {Answer(500) : x \in scene.faults \intersect {"500"}}

\* The request fails, before or after its body is read: the transport gives up what is left of it.
Fails(p) ==
  /\ rq[p].st = "send" /\ budget > 0
  /\ \E a \in Failures(p) :
       /\ Receive(p, a)
       /\ IF ~rq[p].body THEN UNCHANGED psh
          ELSE LET b == psh[p].pipes[Latest(p)]
               IN  psh' = [psh EXCEPT ![p].pipes[Latest(p)].reader = IF b.got = Size THEN @ ELSE "gone"]
  /\ budget' = budget - 1
  /\ UNCHANGED <<scene, pullVars, tracker, held, stored>>

-----------------------------------------------------------------------------
Init ==
  /\ scene \in Scenario
  /\ AuthInit /\ PullInit /\ PushInit

Auth(p) == AuthStep(p) /\ UNCHANGED <<scene, pullVars, pushVars>>
Pull(p) == PullStep(p) /\ UNCHANGED <<scene, pushVars>>
Push(p) == PushStep(p) /\ UNCHANGED scene
Expires == Expire /\ UNCHANGED <<scene, pullVars, pushVars>>

Next ==
  \/ \E p \in Proc : Auth(p) \/ Pull(p) \/ Push(p) \/ Reply(p) \/ Fails(p)
  \/ Expires

\* Goroutines are scheduled and a registry answers or fails; nothing is assumed of its failures.
Fairness == \A p \in Proc : WF_vars(Auth(p)) /\ WF_vars(Pull(p)) /\ WF_vars(Push(p)) /\ WF_vars(Reply(p))

Spec == Init /\ [][Next]_vars /\ Fairness

Ended(p) ==
  CASE Op(p).kind = "none"    -> TRUE
    [] Op(p).kind = "resolve" -> res[p].pc \in {"resolved", "failed"}
    [] Op(p).kind = "fetch"   -> get[p].pc \in {"fetched", "failed"}
    [] Op(p).kind = "push"    -> psh[p].pc = "end" /\ psh[p].go # "panic"

TypeOK ==
  /\ scene \in Scenario
  /\ \A p \in Proc :
       /\ rq[p].st \in {"idle", "do", "auth", "wait", "token", "send", "resp", "done"}
       /\ rq[p].st # "idle" => rq[p].n \in 0..MaxResponses + 1
       /\ get[p].off \in 0..Size /\ get[p].noprog \in 0..MaxRetry + 1
       /\ psh[p].sent \in 0..Size /\ Len(psh[p].chan) <= 1
  /\ DOMAIN handlers \subseteq Host /\ \A h \in DOMAIN handlers : handlers[h] \in 1..Len(pool)
  /\ epoch \in 0..MaxEpoch /\ budget \in Nat
  /\ tracker # None => tracker.offset \in 0..2 * Size   \* two writers may count
  /\ held \in Proc \union {None} /\ stored \subseteq Host

\* What the tracker calls committed, and what a push reports as done, is at the registry with all
\* of its bytes, over retries that make the copy start again (pushWriter.Commit and Write).
CommittedIsStored ==
  (tracker # None /\ tracker.committed) \/ (\E p \in Proc : psh[p].out \in {"ok", "exists"})
    => PushHosts[1] \in stored

\* A writer is left in pipe.Write: the request that had its pipe failed before it read the body,
\* and nobody closes the pipe, which the body wraps in a NopCloser.
Stranded(p) ==
  /\ psh[p].pc = "copy" /\ psh[p].w # 0
  /\ psh[p].pipes[psh[p].w].st = "open" /\ psh[p].pipes[psh[p].w].reader = "gone"

\* Every call ends: no request waits for a token for ever, no writer for an answer, no push for a
\* reference that nobody is sending (doBearerAuth, pushWriter, push), but for a writer that a
\* failed request leaves in its pipe, and those that wait for it.
CallsEnd == (\A p \in Proc : <>Ended(p)) \/ (\E p \in Proc : <>[]Stranded(p))
=============================================================================
