----------------------------- MODULE Supervisor -----------------------------
(***************************************************************************)
(* The supervisor keeps a nydusd's state (here: the instances it has       *)
(* mounted) for a failover or an upgrade.  Both directions use one socket  *)
(* path: a fetch listens on it for a nydusd that was told to send its      *)
(* state, a send listens on it for a nydusd that was told to take over.    *)
(* Each listener removes the path first and again when it is closed,       *)
(* whoever listens there by then.  Code: pkg/supervisor/supervisor.go.     *)
(***************************************************************************)
CONSTANTS
  Id,      \* daemon IDs, also the IDs of their supervisors
  Inst,    \* RAFS instances
  Pid,     \* nydusd processes
  Caller,  \* goroutines that use a supervisor
  None

VARIABLES
  inSet,   \* the supervisors of the SupervisorsSet
  saved,   \* ID -> the state saved last, or None
  sem,     \* ID -> the goroutine that holds the semaphore, or None
  sock,    \* ID -> the goroutine whose listener the path names, or None
  lst,     \* goroutine -> its listener
  fetch    \* goroutine -> its call of FetchDaemonStates

\* conn: the process whose connection was accepted; state: what it has sent;
\* served: the connection has been dealt with.
Closed == [id |-> None, kind |-> "closed", conn |-> None, state |-> None, served |-> FALSE]
NotFetching == [id |-> None, pc |-> "no", trigger |-> "todo", recv |-> "todo"]

SupervisorTypeOK ==
  /\ inSet \subseteq Id
  /\ saved \in [Id -> SUBSET Inst \cup {None}]
  /\ sem \in [Id -> Caller \cup {None}]
  /\ sock \in [Id -> Caller \cup {None}]
  /\ lst \in [Caller -> [id : Id \cup {None}, kind : {"closed", "recv", "send"},
                         conn : Pid \cup {None}, state : SUBSET Inst \cup {None}, served : BOOLEAN]]
  /\ fetch \in [Caller -> [id : Id \cup {None}, pc : {"no", "sem", "wait"},
                           trigger : {"todo", "ok", "err"}, recv : {"todo", "ok", "err"}]]

SupervisorInit ==
  /\ inSet = {} /\ saved = [i \in Id |-> None]
  /\ sem = [i \in Id |-> None] /\ sock = [i \in Id |-> None]
  /\ lst = [c \in Caller |-> Closed]
  /\ fetch = [c \in Caller |-> NotFetching]

\* A supervisor made again for an ID starts empty.
NewSupervisor(id) ==
  /\ inSet' = inSet \cup {id}
  /\ saved' = [saved EXCEPT ![id] = None]
  /\ UNCHANGED <<sem, sock, lst, fetch>>

DestroySupervisor(id) ==
  /\ inSet' = inSet \ {id}
  /\ UNCHANGED <<saved, sem, sock, lst, fetch>>

\* os.Remove, then net.Listen.
Listen(c, id, kind) ==
  /\ sock' = [sock EXCEPT ![id] = c]
  /\ lst' = [lst EXCEPT ![c] = [Closed EXCEPT !.id = id, !.kind = kind]]

\* Closing a Unix listener unlinks its path.
Close(c) ==
  /\ sock' = [sock EXCEPT ![lst[c].id] = None]
  /\ lst' = [lst EXCEPT ![c] = Closed]

\* A process connects to the path, and Accept returns to whoever listens there.
Reachable(id) == sock[id] # None /\ lst[sock[id]].conn = None
Connect(id, p, state) == lst' = [lst EXCEPT ![sock[id]].conn = p, ![sock[id]].state = state]

-----------------------------------------------------------------------------
(* FetchDaemonStates: one at a time for a supervisor, by its semaphore.    *)

FetchBegin(c, id) ==
  /\ fetch[c].pc = "no"
  /\ fetch' = [fetch EXCEPT ![c] = [NotFetching EXCEPT !.id = id, !.pc = "sem"]]
  /\ UNCHANGED <<inSet, saved, sem, sock, lst>>

FetchListen(c) ==
  /\ fetch[c].pc = "sem" /\ sem[fetch[c].id] = None
  /\ sem' = [sem EXCEPT ![fetch[c].id] = c]
  /\ Listen(c, fetch[c].id, "recv")
  /\ fetch' = [fetch EXCEPT ![c].pc = "wait"]
  /\ UNCHANGED <<inSet, saved>>

\* The trigger makes a nydusd p connect and send; p = None is a trigger that failed.
Trigger(c, p, state) ==
  /\ fetch[c].pc = "wait" /\ fetch[c].trigger = "todo"
  /\ \/ /\ p # None /\ Reachable(fetch[c].id)
        /\ Connect(fetch[c].id, p, state)
        /\ fetch' = [fetch EXCEPT ![c].trigger = "ok"]
     \/ /\ p = None \/ ~Reachable(fetch[c].id)
        /\ fetch' = [fetch EXCEPT ![c].trigger = "err"]
        /\ UNCHANGED lst
  /\ UNCHANGED <<inSet, saved, sem, sock>>

\* recv and save: every state received replaces the one before.
Save(c) ==
  /\ fetch[c].pc = "wait" /\ fetch[c].recv = "todo"
  /\ lst[c].state # None /\ ~lst[c].served
  /\ saved' = [saved EXCEPT ![lst[c].id] = lst[c].state]
  /\ lst' = [lst EXCEPT ![c].served = TRUE]
  /\ UNCHANGED <<inSet, sem, sock, fetch>>

\* A connection of a nydusd that wants to receive ends without a state.
RecvFails(c) ==
  /\ fetch[c].pc = "wait" /\ fetch[c].recv = "todo"
  /\ lst[c].conn # None /\ lst[c].state = None
  /\ Close(c)
  /\ fetch' = [fetch EXCEPT ![c].recv = "err"]
  /\ UNCHANGED <<inSet, saved, sem>>

RecvClose(c) ==
  /\ fetch[c].pc = "wait" /\ fetch[c].recv = "todo" /\ lst[c].served
  /\ Close(c)
  /\ fetch' = [fetch EXCEPT ![c].recv = "ok"]
  /\ UNCHANGED <<inSet, saved, sem>>

\* eg.Wait waits for both; nothing ends the receiver of a trigger that failed.
FetchDone(c) ==
  fetch[c].pc = "wait" /\ fetch[c].trigger # "todo" /\ fetch[c].recv # "todo"

\* Mutant: the semaphore is not given back.
FetchEnd_KeepsSemaphore(c) ==
  /\ FetchDone(c)
  /\ fetch' = [fetch EXCEPT ![c] = NotFetching]
  /\ UNCHANGED <<inSet, saved, sem, sock, lst>>

FetchEnd(c) ==
  /\ FetchDone(c)
  /\ sem' = [sem EXCEPT ![fetch[c].id] = None]
  /\ fetch' = [fetch EXCEPT ![c] = NotFetching]
  /\ UNCHANGED <<inSet, saved, sock, lst>>

-----------------------------------------------------------------------------
(* SendStatesTimeout: listens at once, serves in a goroutine of its own    *)
(* and takes no semaphore.                                                 *)

SendStates(c, id) ==
  /\ lst[c] = Closed
  /\ Listen(c, id, "send")
  /\ UNCHANGED <<inSet, saved, sem, fetch>>

\* load and send.  Without a saved state there is no descriptor to send: it fails.
SendServe(c) ==
  /\ lst[c].kind = "send" /\ lst[c].conn # None /\ ~lst[c].served
  /\ lst' = [lst EXCEPT ![c].served = TRUE]
  /\ UNCHANGED <<inSet, saved, sem, sock, fetch>>

\* The sender serves one connection, or its ten seconds are over first.
SendClose(c) ==
  /\ lst[c].kind = "send" /\ lst[c].served
  /\ Close(c)
  /\ UNCHANGED <<inSet, saved, sem, fetch>>

SendTimeout(c) ==
  /\ lst[c].kind = "send" /\ lst[c].conn = None
  /\ Close(c)
  /\ UNCHANGED <<inSet, saved, sem, fetch>>
=============================================================================
