------------------------------- MODULE BlobCache -------------------------------
(***************************************************************************)
(* The directory of cached blobs (pkg/cache) and the second half of the    *)
(* snapshotter's Cleanup, which deletes the blobs no RAFS instance names.  *)
(* nydusd creates a blob's data file and, after it, the bitmap of the      *)
(* chunks that are in it; both have an old and a new name.                 *)
(***************************************************************************)
EXTENDS Naturals, Sequences, FiniteSets

VARIABLES
  files,      \* the directory: [blob, suffix]
  sweep       \* a Cleanup in progress: [on, left, now], and the blobs that
              \* nydusd opened during one: beside

cacheVars == <<files, sweep>>

File(b, suffix) == [blob |-> b, suffix |-> suffix]

\* The bitmaps and the data file each describes; "" is a blob's bare name.
DataOf == [s \in {".chunk_map", ".blob.data.chunk_map"} |->
             IF s = ".chunk_map" THEN "" ELSE ".blob.data"]

\* Mutant: the data blob goes first.
RemovalOrder_DataFirst ==
  <<"", ".blob.data", ".chunk_map", ".blob.data.chunk_map", ".blob.meta", ".image.disk",
    ".layer.disk">>

\* RemoveBlobCache(blobID): "Delete chunk bitmap file before data blob".
RemovalOrder ==
  <<".chunk_map", ".blob.data.chunk_map", ".blob.meta", "", ".blob.data", ".image.disk",
    ".layer.disk">>

\* The suffixes ExtractBlobIDFromFilename takes off, and none.
KnownSuffixes ==
  {"", ".blob.data", ".blob.data.chunk_map", ".chunk_map", ".blob.meta", ".image.disk", ".layer.disk"}

\* ExtractBlobIDFromFilename(filename): a name with another suffix is no
\* digest, and RemoveCache refuses it.
ExtractBlobID(fs) == {f.blob : f \in {g \in fs : g.suffix \in KnownSuffixes}}

Resting(beside) == [on |-> FALSE, left |-> {}, now |-> <<>>, beside |-> beside]

CacheInit(stored) == files = stored /\ sweep = Resting({})

\* getUnusedCacheBlobs: one scan, used being the blobs the instances name.
ScanCache(used) ==
  /\ ~sweep.on
  /\ sweep' = [sweep EXCEPT !.on = TRUE, !.left = ExtractBlobID(files) \ used]
  /\ UNCHANGED files

\* Cleanup's loop over the blobs, in the order of a map.
NextBlob ==
  /\ sweep.on /\ sweep.now = <<>>
  /\ \E b \in sweep.left :
       sweep' = [sweep EXCEPT !.left = @ \ {b},
                              !.now = [i \in DOMAIN RemovalOrder |-> File(b, RemovalOrder[i])]]
  /\ UNCHANGED files

\* One os.Remove; an absent file is passed over.
RemoveFile ==
  LET here == SelectSeq(sweep.now, LAMBDA f : f \in files) IN
  /\ here # <<>>
  /\ files' = files \ {Head(here)}
  /\ sweep' = [sweep EXCEPT !.now = Tail(here)]

\* A file that cannot be removed ends the removal of its blob.
RemoveFails ==
  /\ \E i \in DOMAIN sweep.now : sweep.now[i] \in files
  /\ sweep' = [sweep EXCEPT !.now = <<>>]
  /\ UNCHANGED files

\* The loop is over, or the caller's context is.
CleanupEnds ==
  /\ sweep.on /\ sweep.now = <<>>
  /\ sweep' = Resting(sweep.beside)
  /\ UNCHANGED files

CacheStep == NextBlob \/ RemoveFile \/ RemoveFails \/ CleanupEnds

\* copyBlobMetaFiles(bootstrap, cacheDir)
CopyBlobMetaFiles(bs) == files \union {File(b, ".blob.meta") : b \in bs}

\* nydusd opens, and creates, what an instance reads.
CachedBlobs(bs, data) ==
  {File(b, data) : b \in bs}
    \union {File(b, s) : b \in bs, s \in {x \in DOMAIN DataOf : DataOf[x] = data}}

\* nydusd opens the files of the blobs bs; a Cleanup may be deleting them.
OpenBlobs(bs, data) ==
  /\ files' = CopyBlobMetaFiles(bs) \union CachedBlobs(bs, data)
  /\ sweep' = IF sweep.on THEN [sweep EXCEPT !.beside = @ \union bs] ELSE sweep

\* RemoveBlobCache leaves no bitmap without its data, wherever it stops: nydusd
\* would read the chunks of a new, empty data file as present
\* (src/pkg/cache/manager.go:109 "NOTE: Delete chunk bitmap file before data blob").
\* Not for a blob that nydusd opened while a Cleanup was deleting: the bitmap may be
\* created between the two removals.
BitmapHasData ==
  \A f \in files :
    f.suffix \in DOMAIN DataOf /\ f.blob \notin sweep.beside => File(f.blob, DataOf[f.suffix]) \in files
=============================================================================
