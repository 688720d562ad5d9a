----------------------------- MODULE PackPipeline -----------------------------
(***************************************************************************)
(* The streams of the image converter (pkg/converter): LayerConvertFunc    *)
(* and LayerReconvertFunc move a layer between the content store and the   *)
(* nydus-image builder through go pipes, named fifos and half a dozen      *)
(* goroutines.  One job is one call of such a function:                    *)
(*                                                                         *)
(*   tar     source -> pipe -> fifo -> builder -> fifo -> pipe -> store    *)
(*   dir     source -> pipe -> directory, then builder -> fifo -> ...      *)
(*   unpack  builder -> fifo -> pipe -> store                              *)
(*                                                                         *)
(* Data is counted in chunks of the copy buffer: a source has InSize, the  *)
(* builder's output OutSize of them.  The builder, the kernel's fifos,     *)
(* io.Pipe and the content store are external.                             *)
(***************************************************************************)
EXTENDS Naturals, FiniteSets, Sequences, TLC

CONSTANTS
  Jobs,       \* calls of the convert functions
  Cap         \* chunks a fifo buffers

ASSUME CapAssumption == Cap \in Nat \ {0}

VARIABLES
  scene,      \* [mode, faults, ...]: what the environment may do
  job,        \* job[t]: the goroutines of one conversion
  features,   \* what DetectFeatures found, once in the process's life
  ingest      \* ingest[r]: chunks an unfinished writer of reference r left

streamVars == <<scene, job, features, ingest>>

Fault(f) == f \in scene.faults

\* The chunks of a source, and of the builder's whole output.
InSize  == scene.in
OutSize == scene.out

\* A goroutine that has returned; one that is not started is in state "no".
Ended(g) == g \in {"ok", "err"}

(***************************************************************************)
(* DetectFeatures and Pack.  The builder's help is read once; whatever it  *)
(* said then (nothing, when it could not be run) is the answer for ever,   *)
(* and a call with other requirements is refused.                          *)
(***************************************************************************)
NoFeatures == [required |-> {}, found |-> {}, once |-> FALSE]

RequiredFeatures(opt) ==
  {"tar2rafs"} \union (IF opt.batch THEN {"batch"} ELSE {})
               \union (IF opt.encrypt THEN {"encrypt"} ELSE {})

\* DetectFeatures(builder, required, getHelp)
DetectFeatures(opt, help) ==
  IF features.once THEN features
  ELSE [required |-> RequiredFeatures(opt), found |-> RequiredFeatures(opt) \intersect help,
        once |-> TRUE]

\* How Pack converts, "error" where it refuses the options.
PackMode(opt, f) ==
  IF f.required # RequiredFeatures(opt) THEN "error"
  ELSE IF opt.ociRef THEN (IF opt.v6 THEN "tar" ELSE "error")
  ELSE IF "batch" \in f.found /\ ~opt.v6 THEN "error"
  ELSE IF "tar2rafs" \in f.found THEN "tar" ELSE "dir"

(***************************************************************************)
(* A job.  src, cp: the goroutine that copies the source into the packer;  *)
(* pipe: the packer's io.Pipe; g1: its reader (copy to the fifo, or        *)
(* unpackOciTar); builder, read, wrote: nydus-image; sf, of: the fifos of  *)
(* its source and of its output; g2: the copy of its output; g3: the       *)
(* goroutine that waits for it; closed: writeCloser.closed; cl: the        *)
(* goroutine that closes the packer; out: the pipe to the content store;   *)
(* got: the chunks read from it; dir: the work directory exists.           *)
(***************************************************************************)
Fifo == [st |-> "no", n |-> 0]

Idle ==
  [pc |-> "idle", res |-> "none", mode |-> "tar", src |-> 0, cp |-> "no",
   pipe |-> "open", g1 |-> "no", applied |-> 0, builder |-> "no", read |-> 0, wrote |-> 0,
   sf |-> Fifo, of |-> Fifo, g2 |-> "no", g3 |-> "no", closed |-> FALSE,
   cl |-> "no", out |-> "open", got |-> 0, skip |-> 0, dir |-> FALSE, cancelled |-> FALSE]

\* The step of a job that changes the fields of r.
Step(t, r) ==
  /\ job' = [job EXCEPT ![t] = r @@ @]
  /\ UNCHANGED <<scene, features, ingest>>

\* The fields of a job whose goroutines Pack or Unpack has just started.
Started(mode, skip) ==
  [pc |-> "copy", mode |-> mode, dir |-> TRUE, skip |-> skip,
   builder |-> IF mode = "dir" THEN "no" ELSE "run",
   cp |-> IF mode = "unpack" THEN "ok" ELSE "run",
   g1 |-> IF mode = "unpack" THEN "ok" ELSE "read",
   cl |-> IF mode = "unpack" THEN "unpack" ELSE "select", g2 |-> "read", g3 |-> "run"]

\* The caller's context is cancelled; a fifo nobody has opened yet is closed then.
Cancel(t) ==
  /\ Fault("cancel") /\ job[t].pc = "copy" /\ ~job[t].cancelled
  /\ Step(t, [cancelled |-> TRUE])

(***************************************************************************)
(* The copy of the source into the packer: a write to an io.Pipe returns   *)
(* when its reader has taken the data, or either end is closed.            *)
(***************************************************************************)
CopySource(t) ==
  /\ job[t].cp = "run"
  /\ \/ /\ job[t].src < InSize /\ job[t].pipe = "open" /\ job[t].g1 = "read"
        /\ Step(t, [src |-> job[t].src + 1, g1 |-> "write"])
     \/ /\ job[t].src = InSize
        /\ Step(t, [cp |-> "ok"])
     \/ /\ job[t].src < InSize /\ job[t].pipe # "open"
        /\ Step(t, [cp |-> "err"])

\* A read of the source fails.
SourceFails(t) ==
  /\ Fault("source") /\ job[t].cp = "run" /\ job[t].src < InSize
  /\ Step(t, [cp |-> "err"])

(***************************************************************************)
(* The packer's reader: io.CopyBuffer to the source fifo (packFromTar), or *)
(* unpackOciTar into the work directory (packFromDirectory).               *)
(***************************************************************************)
\* Write end of the source fifo closed by its copy.
CloseSource(f) == IF f.st = "open" THEN [f EXCEPT !.st = "eof"] ELSE [f EXCEPT !.st = "closed"]

CopyTar(t) ==
  /\ job[t].mode = "tar"
  /\ \/ /\ job[t].g1 = "read" /\ job[t].pipe = "eof"
        /\ Step(t, [g1 |-> "ok", sf |-> CloseSource(job[t].sf)])
     \/ /\ job[t].g1 = "write" /\ job[t].sf.st = "open" /\ job[t].sf.n < Cap
        /\ Step(t, [g1 |-> "read", sf |-> [job[t].sf EXCEPT !.n = @ + 1]])
     \/ /\ job[t].g1 = "write"
        /\ job[t].sf.st = "broken" \/ (job[t].sf.st = "no" /\ job[t].cancelled)
        /\ Step(t, [g1 |-> "err", sf |-> CloseSource(job[t].sf)])

\* The end of the stream, or an error, ends the unpacking; an error also closes the pipe.
UnpackOciTar(t) ==
  /\ job[t].mode = "dir"
  /\ \/ /\ job[t].g1 = "read" /\ job[t].pipe = "eof"
        /\ Step(t, [g1 |-> "ok"])
     \/ /\ job[t].g1 = "write"
        /\ Step(t, [g1 |-> "read", applied |-> job[t].applied + 1])
     \/ /\ job[t].g1 = "write" /\ Fault("apply")
        /\ Step(t, [g1 |-> "err", pipe |-> IF job[t].pipe = "open" THEN "broken" ELSE job[t].pipe])

(***************************************************************************)
(* nydus-image.  It opens its source and its output when it likes, reads,  *)
(* writes (the last chunk once it has seen the end of its source) and      *)
(* exits; or it fails at any time.  Its exit closes its ends of the fifos, *)
(* and a fifo closed before it was opened keeps it waiting.                *)
(***************************************************************************)
SourceEnd(j) == j.mode # "tar" \/ (j.sf.st = "eof" /\ j.sf.n = 0)

Exit(j, how) ==
  [builder |-> how,
   sf |-> IF j.sf.st \in {"open", "eof"} THEN [st |-> "broken", n |-> 0] ELSE j.sf,
   of |-> IF j.of.st = "open" THEN [j.of EXCEPT !.st = "eof"] ELSE j.of]

BuilderOpens(t) ==
  /\ job[t].builder = "run"
  /\ \/ /\ job[t].mode = "tar" /\ job[t].sf.st = "no" /\ ~Ended(job[t].g1)
        /\ Step(t, [sf |-> [job[t].sf EXCEPT !.st = "open"]])
     \/ /\ job[t].of.st = "no" /\ ~Ended(job[t].g2)
        /\ Step(t, [of |-> [job[t].of EXCEPT !.st = "open"]])

BuilderReads(t) ==
  /\ job[t].builder = "run" /\ job[t].sf.st \in {"open", "eof"} /\ job[t].sf.n > 0
  /\ Step(t, [read |-> job[t].read + 1, sf |-> [job[t].sf EXCEPT !.n = @ - 1]])

BuilderWrites(t) ==
  /\ job[t].builder = "run" /\ job[t].of.st = "open" /\ job[t].of.n < Cap
  /\ job[t].wrote < OutSize /\ (job[t].wrote + 1 < OutSize \/ SourceEnd(job[t]))
  /\ Step(t, [wrote |-> job[t].wrote + 1, of |-> [job[t].of EXCEPT !.n = @ + 1]])

\* An output nobody reads ends it too.
BuilderExits(t) ==
  /\ job[t].builder = "run"
  /\ \/ job[t].wrote = OutSize /\ Step(t, Exit(job[t], "ok"))
     \/ job[t].of.st = "broken" /\ Step(t, Exit(job[t], "fail"))

BuilderFails(t) ==
  /\ Fault("builder") /\ job[t].builder = "run"
  /\ Step(t, Exit(job[t], "fail"))

(***************************************************************************)
(* The copy of the output fifo into the pipe to the content store.         *)
(***************************************************************************)
\* In a directory conversion the closing goroutine copies, after the unpacking.
Copying(j) == j.mode = "dir" => j.cl = "copy"

CopyOutput(t) ==
  /\ Copying(job[t])
  /\ \/ /\ job[t].g2 = "read" /\ job[t].of.st \in {"open", "eof"} /\ job[t].of.n > 0
        /\ Step(t, [g2 |-> "write", of |-> [job[t].of EXCEPT !.n = @ - 1]])
     \/ /\ job[t].g2 = "read" /\ job[t].of.st = "eof" /\ job[t].of.n = 0
        /\ Step(t, [g2 |-> "ok"])
     \/ /\ job[t].g2 = "write" /\ job[t].out = "open" /\ job[t].pc = "copy"
        /\ Step(t, [g2 |-> "read", got |-> job[t].got + 1])
     \/ /\ job[t].g2 = "write" /\ job[t].out # "open"
        /\ Step(t, [g2 |-> "err", of |-> [st |-> "broken", n |-> 0]])
     \/ /\ job[t].g2 = "read" /\ (job[t].of.st = "closed" \/ (job[t].of.st = "no" /\ job[t].cancelled))
        /\ Step(t, [g2 |-> "err", of |-> [st |-> "closed", n |-> 0]])

(***************************************************************************)
(* The goroutine that waits for the builder.  In packFromTar a failure     *)
(* closes the packer, writeCloser.Close, which waits for the whole group,  *)
(* this goroutine included: it never returns, unless the packer is closed  *)
(* already.  Elsewhere a failure closes the output fifo.                   *)
(***************************************************************************)
\* Mutant: nobody closes the packer when the builder fails.
WaitBuilder_Quiet(t) ==
  /\ job[t].g3 = "run" /\ job[t].builder \in {"ok", "fail"}
  /\ Step(t, [g3 |-> IF job[t].builder = "ok" THEN "ok" ELSE "err"])

WaitBuilder(t) ==
  \/ /\ job[t].g3 = "run" /\ job[t].builder = "ok"
     /\ Step(t, [g3 |-> "ok"])
  \/ /\ job[t].g3 = "run" /\ job[t].builder = "fail" /\ job[t].mode = "tar"
     /\ Step(t, [g3 |-> IF job[t].closed THEN "err" ELSE "close"])
  \/ /\ job[t].g3 = "close"
     /\ Step(t, [g3 |-> "stuck", closed |-> TRUE,
                 pipe |-> IF job[t].pipe = "open" THEN "eof" ELSE job[t].pipe])
  \/ /\ job[t].g3 = "run" /\ job[t].builder = "fail" /\ job[t].mode # "tar"
     /\ Step(t, [g3 |-> "err", of |-> IF Ended(job[t].g2) THEN job[t].of ELSE [st |-> "closed", n |-> 0]])

(***************************************************************************)
(* The goroutine that closes the packer once the source is copied, and the *)
(* pipe to the content store when the packer is closed.  The check and the *)
(* setting of writeCloser.closed are not atomic; a packer found closed     *)
(* answers nil.                                                            *)
(***************************************************************************)
\* The end of the pipe to the store: with an error or without.
CloseOut(bad) == IF bad THEN "err" ELSE "eof"

\* Mutant: the builder's output is not waited for.
ClosePack_NoWait(t) ==
  /\ job[t].cl = "close" /\ Ended(job[t].g1)
  /\ Step(t, [cl |-> "end", dir |-> FALSE, out |-> CloseOut(job[t].g1 = "err")])

\* What the packer's Close waits for, and whether it fails.
ClosePack(t) ==
  \/ /\ job[t].cl = "close" /\ job[t].mode = "tar"
     /\ \A g \in {job[t].g1, job[t].g2, job[t].g3} : Ended(g)
     /\ Step(t, [cl |-> "end", dir |-> FALSE,
                 out |-> CloseOut("err" \in {job[t].g1, job[t].g2, job[t].g3})])
  \/ /\ job[t].cl = "close" /\ job[t].mode = "dir" /\ Ended(job[t].g1)
     /\ Step(t, [cl |-> "copy", builder |-> "run"])
  \/ /\ job[t].cl = "copy" /\ Ended(job[t].g2)
     /\ Step(t, [cl |-> "end", dir |-> FALSE, out |-> CloseOut(job[t].g2 = "err")])

Closer(t) ==
  \/ /\ job[t].cl = "select"
     /\ job[t].cancelled \/ job[t].cp = "err"
     /\ Step(t, [cl |-> "end", out |-> "err"])
  \/ /\ job[t].cl = "select" /\ job[t].cp = "ok"
     /\ Step(t, [cl |-> "check"])
  \/ /\ job[t].cl = "check" /\ job[t].closed
     /\ Step(t, [cl |-> "end", out |-> "eof"])
  \/ /\ job[t].cl = "check" /\ ~job[t].closed
     /\ Step(t, [cl |-> "set"])
  \/ /\ job[t].cl = "set"
     /\ Step(t, [cl |-> "close", closed |-> TRUE,
                 pipe |-> IF job[t].pipe = "open" THEN "eof" ELSE job[t].pipe])
  \/ ClosePack(t)

\* Unpack: the end of the output fifo is the end of the layer; when the copy
\* fails it waits for the builder's error.
CloseUnpack(t) ==
  /\ job[t].cl = "unpack" /\ Ended(job[t].g2)
  /\ job[t].g2 = "err" => Ended(job[t].g3)
  /\ Step(t, [cl |-> "end", dir |-> FALSE, out |-> CloseOut(job[t].g2 = "err")])

(***************************************************************************)
(* The copy into the writer of the store, which resumes what an earlier    *)
(* writer of the reference left and keeps what it holds when it fails.     *)
(* LayerConvertFunc's content.Copy skips as much of its input as is there; *)
(* LayerReconvertFunc's io.CopyBuffer appends to it.                       *)
(***************************************************************************)
\* The chunks an unfinished writer of reference r left.
Left(r) == IF r \in DOMAIN ingest THEN ingest[r] ELSE 0

Written(j) == IF j.mode = "unpack" THEN j.skip + j.got
              ELSE IF j.got > j.skip THEN j.got ELSE j.skip

CopyEnds(t, res, r) ==
  /\ job' = [job EXCEPT ![t].pc = IF res = "ok" THEN "desc" ELSE "done", ![t].res = res]
  /\ ingest' = (r :> IF res = "ok" THEN 0 ELSE Written(job[t])) @@ ingest

\* content.Copy refuses an input shorter than what it would skip.
TooShort(j) == j.mode # "unpack" /\ j.got < j.skip

CopyFails(t, r) ==
  /\ job[t].pc = "copy"
  /\ job[t].out = "err" \/ (job[t].out = "eof" /\ TooShort(job[t]))
  /\ CopyEnds(t, "error", r)

\* A write to the store, or the commit, fails.
StoreFails(t, r) ==
  /\ Fault("store") /\ job[t].pc = "copy"
  /\ CopyEnds(t, "error", r)

CopySucceeds(t, r) ==
  /\ job[t].pc = "copy" /\ job[t].out = "eof" /\ ~TooShort(job[t])
  /\ CopyEnds(t, "ok", r)

\* The goroutines and the builder of a conversion.
Goroutines(t) ==
  \/ CopySource(t) \/ CopyTar(t) \/ UnpackOciTar(t)
  \/ BuilderOpens(t) \/ BuilderReads(t) \/ BuilderWrites(t) \/ BuilderExits(t)
  \/ CopyOutput(t) \/ WaitBuilder(t) \/ Closer(t) \/ CloseUnpack(t)

\* What may go wrong around it, and need not.
Mishaps(t) == SourceFails(t) \/ BuilderFails(t) \/ Cancel(t)

(***************************************************************************)
(* Finished: the builder has run to its end over the whole source, all of  *)
(* its output is stored, and the work directory is removed.                *)
(***************************************************************************)
Finished(j) ==
  /\ j.builder = "ok" /\ j.got = OutSize /\ ~j.dir
  /\ j.mode = "tar" => j.read = InSize
  /\ j.mode = "dir" => j.applied = InSize

\* Packed is whole: a conversion that reports success is finished (Pack: the
\* caller must check Close() == nil "to ensure the conversion workflow is finished").
PackedWhole == \A t \in Jobs : job[t].res = "ok" => Finished(job[t])

(***************************************************************************)
(* The failures that the code takes for success, and no others.  Once the  *)
(* packer has taken the whole source: a builder that fails (packFromTar's  *)
(* Close then finds the packer closed), and the unpacking of the last      *)
(* chunk (packFromDirectory waits for its end, not for its result).        *)
(* Without a source fifo: a builder that fails with its output open, whose *)
(* end the copy may see before the failure.                                *)
(***************************************************************************)
Unseen(j) ==
  \/ j.builder = "fail" /\ (IF j.mode = "tar" THEN j.src = InSize ELSE j.of.st = "eof")
  \/ j.mode = "dir" /\ j.g1 = "err" /\ j.src = InSize

(***************************************************************************)
(* Failures are reported: a conversion that reports success is finished,   *)
(* whatever of the source, the store and the builder failed, and whenever  *)
(* the context was cancelled, except for what is Unseen.                   *)
(***************************************************************************)
FailuresReported == \A t \in Jobs : job[t].res = "ok" => Finished(job[t]) \/ Unseen(job[t])
=============================================================================
