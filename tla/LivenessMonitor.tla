--------------------------- MODULE LivenessMonitor ---------------------------
(***************************************************************************)
(* The liveness monitor of nydusd daemons: one connection to each daemon's *)
(* API socket, watched with epoll for its end, and the channel that takes  *)
(* death events to the manager.  A target is found by the number of its    *)
(* connection's file descriptor, which the kernel hands out again as soon  *)
(* as it is closed.  Code: pkg/manager/monitor.go.                         *)
(***************************************************************************)
EXTENDS Integers, Sequences, FiniteSets

CONSTANTS
  Id,        \* daemon IDs
  Pid,       \* nydusd processes, numbered in the order they are spawned
  Fd,        \* descriptor numbers of the monitor's connections
  Path,      \* API sockets of one daemon: api.sock, api1.sock, ...
  QueueCap,  \* capacity of LivenessNotifier
  None

VARIABLES
  subscribers, \* daemon ID -> descriptor of its target, or None
  set,         \* descriptor -> its target, or None
  reported,    \* descriptors whose end epoll has reported (edge triggered)
  events,      \* descriptors of the batch that the event loop works on
  sending,     \* the target the event loop is about to report, or None
  notifier     \* LivenessNotifier

\* peer: the process the connection was made to.
Target == [id : Id, path : Path, peer : Pid]
DeathEvent == [id : Id, path : Path, peer : Pid]

MonitorTypeOK ==
  /\ subscribers \in [Id -> Fd \cup {None}]
  /\ set \in [Fd -> Target \cup {None}]
  /\ reported \subseteq Fd /\ events \subseteq Fd
  /\ sending \in Target \cup {None}
  /\ notifier \in Seq(DeathEvent) /\ Len(notifier) <= QueueCap

MonitorInit ==
  /\ subscribers = [i \in Id |-> None]
  /\ set = [f \in Fd |-> None]
  /\ reported = {} /\ events = {} /\ sending = None /\ notifier = <<>>

\* The kernel gives a new connection the lowest free number.
Free == {f \in Fd : set[f] = None}
LowestFree == CHOOSE f \in Free : \A g \in Free : f <= g

Subscribed(id, path) ==
  subscribers[id] # None /\ set[subscribers[id]].path = path

\* Subscribe, once Dial has reached peer.  A subscription of the same daemon on
\* another socket is forgotten by its ID but stays in the set.
Subscribe(id, path, peer) ==
  /\ ~Subscribed(id, path) /\ Free # {}
  /\ subscribers' = [subscribers EXCEPT ![id] = LowestFree]
  /\ set' = [set EXCEPT ![LowestFree] = [id |-> id, path |-> path, peer |-> peer]]
  /\ reported' = reported \ {LowestFree}
  /\ UNCHANGED <<events, sending, notifier>>

\* Mutant: the target stays in the map.
Unsubscribe_KeepsTarget(id) ==
  /\ subscribers' = [subscribers EXCEPT ![id] = None]
  /\ UNCHANGED <<set, reported, events, sending, notifier>>

\* Nothing happens for a daemon without subscription (ErrNotFound).
Unsubscribe(id) ==
  /\ IF subscribers[id] = None THEN UNCHANGED <<subscribers, set>>
     ELSE /\ subscribers' = [subscribers EXCEPT ![id] = None]
          /\ set' = [set EXCEPT ![subscribers[id]] = None]
  /\ UNCHANGED <<reported, events, sending, notifier>>

\* EpollWait returns every connection whose peer has ended since it was last asked.
EpollWait(dead) ==
  /\ events = {} /\ sending = None
  /\ LET hup == {f \in Fd \ reported : set[f] # None /\ set[f].peer \in dead}
     IN hup # {} /\ events' = hup /\ reported' = reported \cup hup
  /\ UNCHANGED <<subscribers, set, sending, notifier>>

\* The loop looks the descriptor up under the lock.  Unsubscribed by now, it is
\* skipped; reused by now, another daemon's target is found.
LookUp(f) ==
  /\ f \in events /\ sending = None
  /\ events' = events \ {f}
  /\ sending' = set[f]
  /\ UNCHANGED <<subscribers, set, reported, notifier>>

\* The send blocks while the channel is full, without the lock.
Notify ==
  /\ sending # None /\ Len(notifier) < QueueCap
  /\ notifier' = Append(notifier, sending)
  /\ sending' = None
  /\ UNCHANGED <<subscribers, set, reported, events>>

\* Received by handleDaemonDeathEvent.
Received ==
  /\ notifier # <<>>
  /\ notifier' = Tail(notifier)
  /\ UNCHANGED <<subscribers, set, reported, events, sending>>
=============================================================================
