--------------------------- MODULE MCImageConversion ---------------------------
(***************************************************************************)
(* Small instances of ImageConversion.  A source of three chunks is longer *)
(* than what the pipes and a fifo of one chunk hold, one of a chunk fits.  *)
(***************************************************************************)
EXTENDS ImageConversion

CONSTANTS i1, i2

MCJobs == Images \X (1 .. Width + 2)

Plain == [batch |-> FALSE, encrypt |-> FALSE, ociRef |-> FALSE, v6 |-> TRUE]
Each(opt) == [i \in Images |-> opt]
All   == {{"tar2rafs", "batch", "encrypt"}}

\* One image of one layer.
Scene == [images |-> (i1 :> <<"a">> @@ i2 :> <<>>), names |-> {"a", "b"}, cached |-> {}, stale |-> {}, nydus |-> {}, docker2oci |-> FALSE,
          meta |-> {}, dict |-> <<>>, backend |-> FALSE, back |-> FALSE, faults |-> {},
          opts |-> Each(Plain), help |-> All, in |-> 1, out |-> 1]

\* s with the fields of r.
With(s, r) == r @@ s

\* Every fault of the streams, in both packers and in the unpacker.
Streaming == {
  With(Scene, [in |-> 3, out |-> 2, faults |-> {"builder", "cancel"}]),
  With(Scene, [in |-> 1, out |-> 2, faults |-> {"builder", "cancel"}, back |-> TRUE]),
  With(Scene, [in |-> 3, out |-> 2, faults |-> {"source", "store", "builder"}, back |-> TRUE]),
  With(Scene, [in |-> 3, out |-> 2, faults |-> {"apply", "cancel", "source", "builder"}, help |-> {{}}])}

\* Two images of shared, repeated, cached, data-less and dictionary layers; a
\* conversion that fails and is done again for the other image.
Shared == With(Scene, [images |-> (i1 :> <<"a", "b">> @@ i2 :> <<"b">>), cached |-> {"a"}])
Sharing == {
  With(Shared, [images |-> (i1 :> <<"b">> @@ i2 :> <<"b">>), faults |-> {"store"}, help |-> {{}}]),
  With(Shared, [faults |-> {"merge"}, meta |-> {"b"}, dict |-> <<Nydus("d", 1)>>]),
  With(Shared, [cached |-> {"a", "b"}, stale |-> {"b"}]),
  With(Shared, [backend |-> TRUE, faults |-> {"backend"}]),
  With(Shared, [opts |-> Each([Plain EXCEPT !.ociRef = TRUE])]),
  With(Shared, [images |-> (i1 :> <<"n", "a">> @@ i2 :> <<"c">>), nydus |-> {"n"},
                opts |-> Each([Plain EXCEPT !.ociRef = TRUE])]),
  With(Shared, [images |-> (i1 :> <<"n", "">> @@ i2 :> <<"n", "">>), nydus |-> {"n"}]),
  With(Shared, [images |-> (i1 :> <<"n", "">> @@ i2 :> <<"n", "">>), nydus |-> {"n"}, docker2oci |-> TRUE]),
  With(Scene, [images |-> (i1 :> <<"a", "a">> @@ i2 :> <<"a">>)]),
  With(Scene, [images |-> (i1 :> <<"a", "a">> @@ i2 :> <<"a">>),
               opts |-> Each([Plain EXCEPT !.v6 = FALSE])]),
  With(Scene, [images |-> (i1 :> <<"a", "b">> @@ i2 :> <<>>)]),
  With(Scene, [images |-> (i1 :> <<"a">> @@ i2 :> <<"b">>),
               opts |-> (i1 :> Plain @@ i2 :> [Plain EXCEPT !.batch = TRUE])]),
  With(Shared, [images |-> (i1 :> <<"a", "b">> @@ i2 :> <<"b">>), back |-> TRUE, cached |-> {"a", "b"}]),
  With(Shared, [images |-> (i1 :> <<"b">> @@ i2 :> <<"b">>), back |-> TRUE, cached |-> {"b"},
                faults |-> {"store", "merge"}]),
  With(Shared, [images |-> (i1 :> <<"b">> @@ i2 :> <<"n", "">>), nydus |-> {"n"}, docker2oci |-> TRUE,
                back |-> TRUE, cached |-> {"b"}]),
  With(Scene, [back |-> TRUE, dict |-> <<Nydus("d", 1)>>]),
  With(Scene, [back |-> TRUE, backend |-> TRUE, faults |-> {"backend"}])}

\* The builder fails.
BuilderFailure == {With(Scene, [faults |-> {"builder"}])}

MCScenario == Streaming \union Sharing
=============================================================================
