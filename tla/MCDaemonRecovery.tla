-------------------------- MODULE MCDaemonRecovery --------------------------
(* Nydusd daemons: scenarios for TLC.                                       *)
EXTENDS DaemonRecovery, TLC

CONSTANTS d1, d2, i1, i2, t1

MCInstOf == (d1 :> {i1, i2}) @@ (d2 :> {})

Scene(policy, ops, threads, insts, failing) ==
  [policy |-> policy, ops |-> ops, threads |-> threads, insts |-> insts, faults |-> failing,
   races |-> {}]

\* Each adds one kind of event to a death: an Umount, another daemon's end, a restart of
\* the snapshotter (with and without an upgrade), an upgrade, a call that fails.
\* The last two let a death, a recovery and an upgrade or a destroy overlap.
Safe ==
  { Scene("restart", {"umount"}, {t1}, {i1, i2}, {}),
    Scene("restart", {"second", "destroy"}, {}, {}, {}),
    Scene("restart", {"crash"}, {t1}, {i1}, {}),
    Scene("restart", {}, {t1}, {i1}, Fault),
    Scene("failover", {"upgrade"}, {t1}, {i1}, {}),
    Scene("failover", {"upgrade"}, {}, {}, Fault),
    Scene("failover", {"crash", "boot_upgrade"}, {t1}, {i1}, {}),
    [Scene("failover", {"upgrade"}, {}, {}, {}) EXCEPT !.races = {"upgrade"}],
    [Scene("failover", {"destroy"}, {t1}, {i1}, {}) EXCEPT !.races = {"destroy"}] }

\* An upgrade and nothing else: UpgradeReplaces does not hold.
Upgraded == {Scene("failover", {"upgrade"}, {}, {}, {})}

\* NoFalseDeath does not hold when the destroyed daemon's descriptor is handed out again,
\* NoLostMount when a mount is under way, OneServer when a recovery is cut short.
Overlapping ==
  { [Scene("restart", {"second", "destroy"}, {}, {}, {}) EXCEPT !.races = {"destroy"}],
    [Scene("failover", {"upgrade"}, {t1}, {i1}, {}) EXCEPT !.races = {"upgrade"}],
    [Scene("failover", {}, {t1}, {i1}, {}) EXCEPT !.races = {"states"}],
    [Scene("restart", {"crash"}, {t1}, {i1}, {}) EXCEPT !.races = {"crash"}] }

\* A Mount beside a failover is left out: its fetch can take the socket that the
\* failover offers the state on.
Live == {Scene("restart", {}, {t1}, {i1}, {}), Scene("failover", {}, {}, {}, {"sendfd", "spawn"})}
=============================================================================
