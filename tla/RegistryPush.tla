---------------------------- MODULE RegistryPush ----------------------------
(***************************************************************************)
(* Writing to a registry: dockerPusher.push, the goroutine that sends the   *)
(* content, and the pushWriter that content.Copy (external) writes to.      *)
(*                                                                          *)
(* The writer and the goroutine meet at a pipe.  Every attempt to send the  *)
(* PUT makes a new pipe and hands it over through pipeC, so that a writer   *)
(* that is half way through must start again.  All pushes here are of one   *)
(* reference of one resolver.                                               *)
(***************************************************************************)
EXTENDS RegistryPull

VARIABLES
  psh,      \* the push of a caller: push(), its goroutine and its pushWriter
  tracker,  \* the Status of the reference in the StatusTracker (None: not tracked)
  held,     \* who holds the tracker's lock of the reference
  stored    \* hosts that hold the content

pushVars == <<psh, tracker, held, stored>>

MaxResets == 5   \* content.Copy

NoPush == [pc |-> "start", out |-> None, go |-> "none", chan |-> <<>>, closed |-> FALSE, errC |-> FALSE, resp |-> None,
           pipes |-> <<>>, w |-> 0, wpc |-> "next", snap |-> None, sent |-> 0, resets |-> 0]

Status(committed, offset) == [committed |-> committed, offset |-> offset, closed |-> FALSE]

\* getManifestPath: an object "tag@digest" of another digest is pushed by the digest alone, of this
\* digest by its tag.
ByTag(object) == object \in {"tag", "tag@same"}

PushHosts == FilterHosts({{"push"}})
\* A mount also asks to pull from the repository the blob is in.
PushRequest(p, method, path) ==
  Request(PushHosts[1], TRUE, method, path,
          RepositoryScope(TRUE) \union (IF path = "mount" THEN {"from"} ELSE {}), 0, FALSE)

End(p, out) ==
  /\ psh' = [psh EXCEPT ![p].pc = "end", ![p].out = out]
  /\ held' = IF held = p THEN None ELSE held
  /\ rq' = [rq EXCEPT ![p] = NoRequest]

\* push under the lock of the reference: what is committed exists, what another Writer is sending
\* is unavailable (OpenWriter tries again).
PushStart(p) ==
  /\ Op(p).kind = "push" /\ psh[p].pc = "start" /\ held = None
  /\ LET exists  == tracker # None /\ tracker.committed /\ tracker.offset = Size
         ongoing == tracker # None /\ Op(p).writer /\ ~tracker.closed
     IN  \/ exists /\ End(p, "exists")
         \/ /\ ~exists /\ ~ongoing /\ PushHosts = <<>> /\ End(p, "notfound")
         \/ /\ ~exists /\ ~ongoing /\ PushHosts # <<>>
            /\ held' = p
            /\ psh' = [psh EXCEPT ![p].pc = "check"]
            /\ rq' = [rq EXCEPT ![p] = PushRequest(p, "HEAD", IF Op(p).manifest THEN "manifests" ELSE "blobs")]
  /\ UNCHANGED <<handlers, pool, epoch, budget, pullVars, tracker, stored>>

\* The tracker, the writer and the goroutine of an upload; the lock is given up.
StartUpload(p, h, authz, path) ==
  /\ tracker' = Status(FALSE, 0)
  /\ psh' = [psh EXCEPT ![p].pc = "copy", ![p].go = "run"]
  /\ rq' = [rq EXCEPT ![p] = Request(h, authz, "PUT", path, RepositoryScope(TRUE), 0, TRUE)]
  /\ held' = None

\* The content is on the remote.
Exists(p) == tracker' = Status(TRUE, Size) /\ End(p, "exists")

AskUpload(p, path) ==
  /\ psh' = [psh EXCEPT ![p].pc = IF path = "mount" THEN "mount" ELSE "post"]
  /\ rq' = [rq EXCEPT ![p] = PushRequest(p, "POST", path)]
  /\ UNCHANGED <<tracker, held>>

\* The existence check: a manifest that is asked for by its tag exists when its digest is the same;
\* access denied does not stop the push.
PushCheck(p) ==
  /\ psh[p].pc = "check" /\ Done(p)
  /\ LET a        == rq[p].ans
         denied   == a.err = "invalid"
         exists   == a.err = "none" /\ a.code = 200 /\ (Op(p).manifest /\ ByTag(Op(p).object) => PushHosts[1] \in stored)
         goes_on  == denied \/ (a.err = "none" /\ (a.code = 404 \/ (a.code = 200 /\ ~exists)))
     IN  \/ exists /\ Exists(p)
         \/ ~exists /\ ~goes_on /\ End(p, "error") /\ UNCHANGED tracker
         \/ goes_on /\ Op(p).manifest /\ StartUpload(p, PushHosts[1], TRUE, "manifests")
         \/ goes_on /\ ~Op(p).manifest /\ AskUpload(p, IF Op(p).mount THEN "mount" ELSE "uploads")
  /\ UNCHANGED <<handlers, pool, epoch, budget, pullVars, stored>>

\* The answer to the POST: 201 says that the blob was mounted; otherwise Location says where it
\* goes, without the Authorizer when that is another host.
PostAnswer(p, a) ==
  \/ a.code = 201 /\ Exists(p)
  \/ /\ a.code \in {200, 202, 204}
     /\ StartUpload(p, scene.location, scene.location = PushHosts[1], "upload")
  \/ a.code \notin {200, 201, 202, 204} /\ End(p, "error") /\ UNCHANGED tracker

\* A mount from a repository that is not ours is answered 401: ask without it.
PushMount(p) ==
  /\ psh[p].pc = "mount" /\ Done(p)
  /\ LET a == rq[p].ans
     IN  \/ a.err # "none" /\ End(p, "error") /\ UNCHANGED tracker
         \/ a.err = "none" /\ a.code = 401 /\ AskUpload(p, "uploads")
         \/ a.err = "none" /\ a.code # 401 /\ PostAnswer(p, a)
  /\ UNCHANGED <<handlers, pool, epoch, budget, pullVars, stored>>

PushPost(p) ==
  /\ psh[p].pc = "post" /\ Done(p)
  /\ LET a == rq[p].ans
     IN  \/ a.err # "none" /\ End(p, "error") /\ UNCHANGED tracker
         \/ a.err = "none" /\ PostAnswer(p, a)
  /\ UNCHANGED <<handlers, pool, epoch, budget, pullVars, stored>>

-----------------------------------------------------------------------------
(* The goroutine: doWithRetries with a new pipe for each attempt. *)

Latest(p) == Len(psh[p].pipes)
Pipe    == [st |-> "open", reader |-> "none", got |-> 0]

\* request.do calls body: pipeC has room for one pipe; sending on it when it is closed panics.
DoBody(p) ==
  /\ rq[p].st = "do" /\ rq[p].body
  /\ IF psh[p].closed
     THEN /\ psh' = [psh EXCEPT ![p].go = "panic"]
          /\ rq' = [rq EXCEPT ![p] = NoRequest]
     ELSE /\ psh[p].chan = <<>>
          /\ psh' = [psh EXCEPT ![p].pipes = Append(@, Pipe), ![p].chan = <<Latest(p) + 1>>]
          /\ rq' = [rq EXCEPT ![p].st = "auth"]
  /\ UNCHANGED <<handlers, pool, epoch, budget, pullVars, tracker, held, stored>>

\* The transport reads the body, one piece at a time.
BodyStart(p) ==
  /\ rq[p].st = "send" /\ rq[p].body /\ psh[p].pipes[Latest(p)].reader = "none"
  /\ psh' = [psh EXCEPT ![p].pipes[Latest(p)].reader = "on"]
  /\ UNCHANGED <<authVars, pullVars, tracker, held, stored>>

BodyRead(p) ==
  /\ psh[p].pc = "copy" /\ psh[p].wpc = "writing"
  /\ LET b == psh[p].pipes[psh[p].w]
     IN  /\ b.st = "open" /\ b.reader = "on"
         /\ psh' = [psh EXCEPT ![p].pipes[psh[p].w].got = @ + 1, ![p].wpc = "wrote"]
  /\ UNCHANGED <<authVars, pullVars, tracker, held, stored>>

\* The writer closed the pipe before Content-Length bytes: client.Do fails.
BodyShort(p) ==
  /\ rq[p].st = "send" /\ rq[p].body
  /\ LET b == psh[p].pipes[Latest(p)]
     IN  b.reader = "on" /\ b.st # "open" /\ b.got < Size
  /\ psh' = [psh EXCEPT ![p].pipes[Latest(p)].reader = "gone"]
  /\ Receive(p, Failure("net"))
  /\ UNCHANGED <<budget, pullVars, tracker, held, stored>>

Close(b) == IF b.st = "open" THEN [b EXCEPT !.st = "eof"] ELSE b
Reset(b) == IF b.st = "open" THEN [b EXCEPT !.st = "reset"] ELSE b

\* pushWriter.Close: pipeC is closed once; a writer that has a pipe records that it did not finish.
ClosedWriter(w) ==
  LET c == [w EXCEPT !.closed = TRUE]
  IN  IF w.w = 0 THEN c ELSE [c EXCEPT !.pipes[w.w] = Close(@)]

\* Mutant: the tracker is not told.
ClosedStatus_Silent(w) == tracker

ClosedStatus(w) ==
  IF w.w # 0 /\ tracker # None /\ ~tracker.committed THEN [tracker EXCEPT !.closed = TRUE] ELSE tracker

\* The goroutine ends: an error and an unexpected status close the writer.
UploadDone(p) ==
  /\ psh[p].go = "run" /\ Done(p)
  /\ LET a  == rq[p].ans
         ok == a.err = "none" /\ a.code \in {200, 201, 204}
         w  == [psh[p] EXCEPT !.go = "done", !.errC = ~ok, !.resp = IF a.err = "none" THEN a.code ELSE None]
     IN  IF ok
         THEN psh' = [psh EXCEPT ![p] = w] /\ UNCHANGED tracker
         ELSE psh' = [psh EXCEPT ![p] = ClosedWriter(w)] /\ tracker' = ClosedStatus(w)
  /\ rq' = [rq EXCEPT ![p] = NoRequest]
  /\ UNCHANGED <<handlers, pool, epoch, budget, pullVars, held, stored>>

-----------------------------------------------------------------------------
(* content.Copy (external) and the pushWriter. *)

\* The deferred Close of handlers.push.
Closing(p, out, status) ==
  /\ psh' = [psh EXCEPT ![p].pc = "closing", ![p].out = out]
  /\ tracker' = status

\* content.Copy starts again after ErrReset, from the offset the tracker has: 0.
Restart(p, w) ==
  /\ psh' = [psh EXCEPT ![p] = IF w.resets + 1 >= MaxResets
                               THEN [w EXCEPT !.pc = "closing", !.out = "error"]
                               ELSE [w EXCEPT !.sent = 0, !.wpc = "next", !.resets = @ + 1]]
  /\ tracker' = [tracker EXCEPT !.offset = 0]

\* The provider has no reader for the content, or it fails half way.
ProviderFails(p) ==
  /\ psh[p].pc = "copy" /\ psh[p].wpc = "next" /\ budget > 0
  /\ \/ "provider" \in scene.faults /\ psh[p].w = 0
     \/ "read" \in scene.faults /\ psh[p].w # 0 /\ psh[p].sent < Size
  /\ Closing(p, "error", tracker)
  /\ budget' = budget - 1
  /\ UNCHANGED <<rq, handlers, pool, epoch, pullVars, held, stored>>

\* Write up to pipe.Write: take the pipe, or the one of a later attempt, which resets the copy.
WriteStart(p) ==
  /\ psh[p].pc = "copy" /\ psh[p].wpc = "next" /\ psh[p].sent < Size
  /\ LET w == psh[p]
     IN  \/ /\ w.w = 0 /\ w.chan # <<>>
            /\ psh' = [psh EXCEPT ![p].w = w.chan[1], ![p].chan = <<>>, ![p].wpc = "writing", ![p].snap = tracker]
            /\ UNCHANGED tracker
         \/ /\ w.w # 0 /\ w.chan # <<>>
            /\ Restart(p, [w EXCEPT !.pipes[w.w] = Reset(@), !.w = w.chan[1], !.chan = <<>>])
         \/ /\ w.chan = <<>> /\ w.closed
            /\ Closing(p, "error", tracker)
         \/ /\ w.w # 0 /\ w.chan = <<>> /\ ~w.closed
            /\ psh' = [psh EXCEPT ![p].wpc = "writing", ![p].snap = tracker]
            /\ UNCHANGED tracker
  /\ UNCHANGED <<authVars, pullVars, held, stored>>

\* The rest of Write: the Status read at its start is stored with the new offset.
WriteEnd(p) ==
  /\ psh[p].pc = "copy"
  /\ LET w == psh[p]
     IN  \/ /\ w.wpc = "wrote"
            /\ tracker' = [w.snap EXCEPT !.offset = @ + 1]
            /\ psh' = [psh EXCEPT ![p].wpc = "next", ![p].sent = @ + 1]
         \/ /\ w.wpc = "writing" /\ w.pipes[w.w].st # "open"
            /\ Closing(p, "error", w.snap)
  /\ UNCHANGED <<authVars, pullVars, held, stored>>

\* Commit writes nothing to the pipe, which waits for its reader, and closes it.
CommitStart(p) ==
  /\ psh[p].pc = "copy" /\ psh[p].wpc = "next" /\ psh[p].sent = Size
  /\ LET b == psh[p].pipes[psh[p].w]
     IN  b.st # "open" \/ b.reader = "on"
  /\ psh' = [psh EXCEPT ![p].pipes[psh[p].w] = Close(@), ![p].wpc = "select"]
  /\ UNCHANGED <<authVars, pullVars, tracker, held, stored>>

\* Mutant: any response will do.
Accepted_Any(code) == TRUE

\* A response of Commit: its status, the offset and the digest it returns decide.
Accepted(code) == code \in {200, 201, 202, 204}

Committed(p) ==
  IF Accepted(psh[p].resp) /\ tracker.offset = Size /\ scene.echo
  THEN Closing(p, "ok", [tracker EXCEPT !.committed = TRUE])
  ELSE Closing(p, "error", tracker)

\* The select of Commit takes any of the channels that are ready.
CommitSelect(p) ==
  /\ psh[p].pc = "copy" /\ psh[p].wpc = "select"
  /\ LET w == psh[p]
     IN  \/ w.errC /\ Closing(p, "error", tracker)
         \/ w.resp # None /\ Committed(p)
         \/ w.chan # <<>> /\ Restart(p, [w EXCEPT !.w = w.chan[1], !.chan = <<>>])
         \/ w.chan = <<>> /\ w.closed /\ Closing(p, "error", tracker)
  /\ UNCHANGED <<authVars, pullVars, held, stored>>

CloseWriter(p) ==
  /\ psh[p].pc = "closing"
  /\ psh' = [psh EXCEPT ![p] = [ClosedWriter(@) EXCEPT !.pc = "end"]]
  /\ tracker' = ClosedStatus(psh[p])
  /\ UNCHANGED <<authVars, pullVars, held, stored>>

PushInit ==
  /\ psh = [p \in Proc |-> NoPush]
  /\ tracker = None
  /\ held = None
  /\ stored = scene.stored

PushStep(p) ==
  \/ PushStart(p) \/ PushCheck(p) \/ PushMount(p) \/ PushPost(p)
  \/ DoBody(p) \/ BodyStart(p) \/ BodyRead(p) \/ BodyShort(p) \/ UploadDone(p)
  \/ ProviderFails(p) \/ WriteStart(p) \/ WriteEnd(p) \/ CommitStart(p) \/ CommitSelect(p) \/ CloseWriter(p)
=============================================================================
