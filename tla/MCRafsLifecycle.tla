--------------------------- MODULE MCRafsLifecycle ---------------------------
(* Small instances of RafsLifecycle for TLC.                               *)
EXTENDS RafsLifecycle, TLC

Symmetry == Permutations(Snap) \cup Permutations(Daemon) \cup Permutations(Thread)

\* A shared daemon with a crash and two failures; a shared daemon whose instances
\* may be unmounted twice; a daemon for each instance, without and with a crash.
MCModes ==
  { [shared |-> TRUE, failover |-> TRUE, races |-> {}, maxFault |-> 2, maxCrash |-> 2,
     faults |-> {"bootstrap", "config", "verify", "mount", "wait", "persist", "umount", "start",
                 "recover", "upgrade", "death"}],
    [shared |-> TRUE, failover |-> TRUE, races |-> {"umount_twice"}, maxFault |-> 2, maxCrash |-> 1,
     faults |-> {"bootstrap", "config", "verify", "mount", "wait", "persist", "umount", "upgrade",
                 "delete", "starting", "death"}],
    [shared |-> FALSE, failover |-> FALSE, races |-> {}, maxFault |-> 2, maxCrash |-> 0,
     faults |-> {"bootstrap", "verify", "wait", "persist", "recover", "death"}],
    [shared |-> FALSE, failover |-> TRUE, races |-> {}, maxFault |-> 1, maxCrash |-> 1,
     faults |-> {"bootstrap", "config", "verify", "mount", "wait", "persist", "umount", "start",
                 "upgrade", "death"}] }

\* A shared daemon that may fail to mount one instance.
MountErrorModes ==
  { [shared |-> TRUE, failover |-> TRUE, races |-> {}, maxFault |-> 1, maxCrash |-> 0,
     faults |-> {"mount"}] }
=============================================================================
