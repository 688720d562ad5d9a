-------------------------- MODULE KubeletProvider --------------------------
(***************************************************************************)
(* The kubelet credential providers (pkg/auth/kubelet.go): which plugins    *)
(* are run for an image, what is kept of their answers, and which of the    *)
(* keychains they return is used.                                           *)
(*                                                                          *)
(* A URL is a record of the labels of its host, its port and the pieces of  *)
(* its path.  A glob is a URL whose labels may be patterns: "*", and the     *)
(* prefix "g*" for those that match some labels only.  A keychain is        *)
(* [by, glob, gen, exp]: who issued it, for which glob, which one it is and *)
(* when it expires.                                                         *)
(***************************************************************************)
EXTENDS Integers, Sequences, FiniteSets, SequencesExt

CONSTANTS Ref,      \* images
          UrlOf,    \* [Ref -> URL]
          Global,   \* globalCacheKey
          None

VARIABLE cache      \* KubeletProvider.cache: key -> [keychains, exp]

----------------------------------------------------------------------------
\* Matching an image with a glob.

Port(url) == url.port

\* filepath.Match.
LabelMatches(g, l) == g = "*" \/ (g = "g*" /\ l \in {"gcr", "ghcr"}) \/ g = l

\* urlsMatch: the path is a prefix, the host is compared label by label.
UrlsMatch(glob, target) ==
  /\ Port(glob) = Port(target)
  /\ Len(glob.host) = Len(target.host)
  /\ IsPrefix(glob.path, target.path)
  /\ \A k \in 1..Len(glob.host) : LabelMatches(glob.host[k], target.host[k])

IsImageAllowed(plugin, image) == \E g \in plugin.match : UrlsMatch(g, image)

\* Reverse alphabetical order between two globs that match one image: "*" sorts below
\* every other label, "g*" below the names it matches, and a path below the longer ones it
\* is a prefix of.
SortsBefore(g, h) ==
  LET differs == {k \in 1..Len(g.host) : g.host[k] # h.host[k]}
  IN  IF differs = {} THEN Len(g.path) > Len(h.path)
      ELSE LET k == CHOOSE k \in differs : \A j \in differs : k <= j
           IN  h.host[k] = "*" \/ (h.host[k] = "g*" /\ g.host[k] # "*")

\* Mutant: the least specific glob wins.
BestKeychainMatch_Shortest(keychains, image) ==
  LET matching == {g \in DOMAIN keychains : UrlsMatch(g, image)}
  IN  IF matching = {} THEN None
      ELSE keychains[CHOOSE g \in matching : \A h \in matching \ {g} : SortsBefore(h, g)]

BestKeychainMatch(keychains, image) ==
  LET matching == {g \in DOMAIN keychains : UrlsMatch(g, image)}
  IN  IF matching = {} THEN None
      ELSE keychains[CHOOSE g \in matching : \A h \in matching \ {g} : SortsBefore(g, h)]

----------------------------------------------------------------------------
\* The configuration that NewKubeletProvider accepts: a sequence of plugins.

ValidateCredentialProvider(p) ==
  /\ p.name \notin {"", ".", "..", "a/b"}
  /\ p.api = "v1"
  /\ p.match # {}
  /\ p.ttl >= 0
  /\ \A j, k \in 1..Len(p.env) : p.env[j] # "" /\ (p.env[j] = p.env[k] => j = k)

NewKubeletProvider(plugins) ==
  /\ plugins # <<>>
  /\ \A j \in 1..Len(plugins) : ValidateCredentialProvider(plugins[j])
  /\ \A j, k \in 1..Len(plugins) : plugins[j].name = plugins[k].name => j = k

----------------------------------------------------------------------------
\* The cache.

ParseRegistry(r) == <<UrlOf[r].host, Port(UrlOf[r])>>

ComputeCacheKey(type, r) ==
  CASE type = "image"    -> r
    [] type = "registry" -> ParseRegistry(r)
    [] type = "global"   -> Global
    [] OTHER             -> None

CacheKey == Ref \cup {ParseRegistry(r) : r \in Ref} \cup {Global}

EvictExpired(now) == [k \in CacheKey |-> IF cache[k] # None /\ now > cache[k].exp THEN None ELSE cache[k]]

\* The first of the image's, the registry's and the global entry that lasts long enough.
GetCachedCredential(kept, r, now, validUntil) ==
  LET keys == SelectSeq(<<r, ParseRegistry(r), Global>>,
                LAMBDA k : kept[k] # None /\ now <= kept[k].exp
                             /\ (validUntil # None => kept[k].exp > validUntil))
  IN  IF keys = <<>> THEN None ELSE kept[keys[1]]

\* What a plugin answers for an image (external): a keychain, issued now, for each of the
\* globs it has for that image, or none at all.
ExecPlugin(plugin, r, now) ==
  [g \in plugin.auth[r] |-> [by |-> plugin.name, glob |-> g, gen |-> now, exp |-> now + plugin.life]]

ResolveCacheDuration(plugin) == IF plugin.reported # None THEN plugin.reported ELSE plugin.ttl

\* The slow path: every plugin allowed for the image that answers, in order.  An answer
\* without keychains or with an unknown kind of key is dropped.  A glob that an earlier
\* plugin answered is skipped; what is left replaces what is cached under the plugin's key.
RunPlugins(plugins, answering, r, kept, now) ==
  FoldLeft(
    LAMBDA acc, p :
      IF \/ ~IsImageAllowed(p, UrlOf[r]) \/ p \notin answering
         \/ p.auth[r] = {} \/ ComputeCacheKey(p.key, r) = None THEN acc
      ELSE LET answer    == ExecPlugin(p, r, now)
               keychains == [g \in DOMAIN answer \ DOMAIN acc.all |-> answer[g]]
               d         == ResolveCacheDuration(p)
           IN  [all   |-> [g \in DOMAIN answer \cup DOMAIN acc.all |->
                             IF g \in DOMAIN acc.all THEN acc.all[g] ELSE answer[g]],
                cache |-> IF d > 0
                          THEN [acc.cache EXCEPT ![ComputeCacheKey(p.key, r)] =
                                  [keychains |-> keychains, exp |-> now + d]]
                          ELSE acc.cache],
    [all |-> [g \in {} |-> None], cache |-> kept], plugins)

\* GetCredentials: the keychain (or None) and the cache it leaves.
KubeletCredentials(plugins, answering, r, now, validUntil) ==
  LET kept == EvictExpired(now)
      cred == GetCachedCredential(kept, r, now, validUntil)
      hit  == IF cred = None THEN None ELSE BestKeychainMatch(cred.keychains, UrlOf[r])
      ran  == RunPlugins(plugins, answering, r, kept, now)
  IN  IF hit # None THEN [kc |-> hit, cache |-> kept]
      ELSE [kc |-> BestKeychainMatch(ran.all, UrlOf[r]), cache |-> ran.cache]
=============================================================================
