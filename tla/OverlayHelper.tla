----------------------------- MODULE OverlayHelper -----------------------------
(***************************************************************************)
(* nydus-overlayfs (cmd/nydus-overlayfs): the mount helper that containerd *)
(* runs for a mount of type fuse.nydus-overlayfs.  It drops the options    *)
(* meant for the container runtime and mounts an overlay; when the options *)
(* do not fit a page it changes into the common parent of the paths and    *)
(* makes them relative.  A path is the sequence of its components, written *)
(* as numbers; an option is [key, paths].                                  *)
(***************************************************************************)
EXTENDS Integers, Sequences, SequencesExt, FiniteSetsExt

Option(key, paths) == [key |-> key, paths |-> paths]

\* parseArgs(args): what it filters out.
NydusOptions == {"extraoption", "io.katacontainers.volume"}
ParseArgs(options) == SelectSeq(options, LAMBDA o : o.key \notin NydusOptions)

\* parseOptions(options): a word of the table sets its bits of mount(2), "rw",
\* "dev" and "suid" those of their opposites; the rest is the data.
FlagsTable ==
  [ro |-> {"RDONLY"}, rw |-> {"RDONLY"}, dev |-> {"NODEV"}, suid |-> {"NOSUID"},
   bind |-> {"BIND"}, rbind |-> {"BIND", "REC"}]
Flags(options) ==
  UNION {FlagsTable[w] : w \in {options[i].key : i \in DOMAIN options} \intersect DOMAIN FlagsTable}
Data(options)  == SelectSeq(options, LAMBDA o : o.key \notin DOMAIN FlagsTable)

PathsOf(options, keys) ==
  UNION {{options[i].paths[j] : j \in DOMAIN options[i].paths} :
           i \in {k \in DOMAIN options : options[k].key \in keys}}

\* longestCommonPrefix(strs), cut back to whole components as path.Dir then does: of a
\* common string that ends inside a name, or at the end of one path and inside a name of
\* another, it keeps what is before the last slash.
CommonPrefix(ps) ==
  LET p == CHOOSE x \in ps : TRUE
      n == Max({k \in 0 .. Len(p) : \A q \in ps : Len(q) >= k /\ SubSeq(q, 1, k) = SubSeq(p, 1, k)})
  IN SubSeq(p, 1, n)

\* path.Dir of the common string: a path that ends there is backed out of.
CommonDir(ps) ==
  LET c == CommonPrefix(ps) IN IF c # <<>> /\ c \in ps THEN Front(c) ELSE c

Relative(dir, p) == SubSeq(p, Len(dir) + 1, Len(p))

\* compactLowerdirOption(options): the directory to change into, <<>> for none,
\* and the options.
Compact(options) ==
  LET dirs == PathsOf(options, {"lowerdir"})
      dir  == CommonDir(PathsOf(options, {"lowerdir", "upperdir", "workdir"}))
      kept == [chdir |-> <<>>, options |-> options]
  IN IF Cardinality(dirs) <= 1 \/ dir = <<>> THEN kept
     ELSE IF \E p \in PathsOf(options, {"lowerdir", "upperdir", "workdir"}) : Len(p) <= Len(dir)
          THEN kept
          ELSE [chdir |-> dir,
                options |-> [i \in DOMAIN options |->
                  [options[i] EXCEPT !.paths =
                     [j \in DOMAIN @ |-> Relative(dir, @[j])]]]]

\* Mutant: the helper does not change to the common directory.
Run_NoChdir(options, big) ==
  LET o == ParseArgs(options)
      c == IF big THEN Compact(o) ELSE [chdir |-> <<>>, options |-> o]
  IN [cwd |-> <<>>, flags |-> Flags(o), data |-> Data(c.options)]

\* run(args): the mount the kernel is asked for, where the process is then;
\* big: the data reaches the kernel's limit of a page.
Run(options, big) ==
  LET o == ParseArgs(options)
      c == IF big THEN Compact(o) ELSE [chdir |-> <<>>, options |-> o]
  IN [cwd |-> c.chdir, flags |-> Flags(o), data |-> Data(c.options)]

\* The paths the kernel finds; an absolute path starts at the root.
Resolved(mnt, key) ==
  LET o == SelectSeq(mnt.data, LAMBDA x : x.key = key)
  IN IF o = <<>> THEN <<>> ELSE [j \in DOMAIN o[1].paths |-> mnt.cwd \o o[1].paths[j]]
=============================================================================
