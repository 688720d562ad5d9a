------------------------ MODULE MCCredentialRenewal ------------------------
(* Registry credentials: scenarios for TLC.                                 *)
EXTENDS CredentialRenewal, TLC

CONSTANTS r1, r2, i1, i2, s1

\* Two repositories of one registry.
MCUrlOf == (r1 :> [host |-> <<"gcr", "io">>, port |-> "", path |-> <<"a", "b">>])
        @@ (r2 :> [host |-> <<"gcr", "io">>, port |-> "", path |-> <<"c">>])

OneEach == (i1 :> r1) @@ (i2 :> r2)
OneImage == (i1 :> r1) @@ (i2 :> r1)

Registry   == [host |-> <<"gcr", "io">>, port |-> "", path |-> <<>>]
Repository == [host |-> <<"gcr", "io">>, port |-> "", path |-> <<"a">>]
Anywhere   == [host |-> <<"*", "io">>, port |-> "", path |-> <<>>]
Family     == [host |-> <<"g*", "io">>, port |-> "", path |-> <<>>]

\* A plugin is cached for as long as its keychains live.
PluginFor(name, match, auth, key, life) ==
  [name |-> name, api |-> "v1", match |-> match, auth |-> auth, key |-> key, env |-> <<>>,
   ttl |-> life, reported |-> None, life |-> life]
Plugin(name, match, globs, key, life) == PluginFor(name, match, [r \in Ref |-> globs], key, life)

Quiet == [image |-> OneEach, layers |-> {}, plugins |-> <<>>, docker |-> 0, secrets |-> {},
          recovered |-> {}, labels |-> {}, cri |-> {}, tokens |-> {}, ops |-> {}]

\* Lifetimes of one and a half intervals, and of less than one.
Long  == Interval + Grace
Short == Interval - 1

Scenes ==
  { \* Layers of one image, with keychains that last and with others that do not.
    [Quiet EXCEPT !.image = OneImage, !.layers = {i1, i2},
                  !.plugins = <<Plugin("p", {Anywhere}, {Registry, Repository}, "image", Long)>>],
    [Quiet EXCEPT !.image = OneImage, !.layers = {i1, i2},
                  !.plugins = <<Plugin("p", {Anywhere}, {Registry, Repository}, "image", Short)>>],
    \* Keychains by image, by registry and for all; bearer tokens; an image that is removed.
    [Quiet EXCEPT !.plugins = <<Plugin("p", {Anywhere}, {Registry, Repository}, "image", Long)>>,
                  !.tokens = {"p"}, !.ops = {"umount"}],
    [Quiet EXCEPT !.layers = {i2},
                  !.plugins = <<Plugin("p", {Anywhere}, {Anywhere, Family, Repository}, "registry", 3 * Interval)>>],
    [Quiet EXCEPT !.plugins = <<Plugin("p", {Repository}, {Anywhere}, "global", Long)>>,
                  !.recovered = {i1}, !.labels = {i2}],
    \* A plugin that fails now and then.
    [Quiet EXCEPT !.image = OneImage, !.layers = {i2},
                  !.plugins = <<Plugin("p", {Anywhere}, {Registry}, "image", Long)>>, !.ops = {"plugin"}],
    \* A plugin with an unknown kind of key, two with overlapping globs, of which the second
    \* answers by registry what it has for one image, and that one alone.
    [Quiet EXCEPT !.layers = {i1, i2},
                  !.plugins = <<Plugin("x", {Anywhere}, {Repository}, "none", Long),
                                Plugin("p", {Registry}, {Family, Registry}, "image", Long),
                                PluginFor("q", {Anywhere}, (r1 :> {Registry, Repository}) @@ (r2 :> {Registry, Anywhere}),
                                          "registry", Long)>>],
    [Quiet EXCEPT !.layers = {i1, i2},
                  !.plugins = <<PluginFor("q", {Anywhere}, (r1 :> {Registry, Repository}) @@ (r2 :> {Registry, Anywhere}),
                                          "registry", Long)>>],
    \* A login that changes while nydusd restarts and fails, and two instances of one image.
    [Quiet EXCEPT !.docker = 1, !.cri = {r2}, !.ops = {"docker", "down", "api"}],
    [Quiet EXCEPT !.image = OneImage, !.docker = 1, !.ops = {"docker"}],
    \* Secrets that come and go.
    [Quiet EXCEPT !.secrets = {s1}, !.recovered = {i1, i2}, !.ops = {"secret"}] }
=============================================================================
