------------------------------ MODULE TarfsPromise ------------------------------
(* What the tarfs manager promises: a layer is converted once, and an image is   *)
(* mounted only from layers that are all ready and stay so while it is mounted.  *)
(* TarfsLayers implements this specification.                                    *)
CONSTANTS Layer, Stack
VARIABLES state, mounted

pvars == <<state, mounted>>

Below(l) == {Stack[l][i] : i \in DOMAIN Stack[l]}

PInit == state = [l \in Layer |-> "none"] /\ mounted = {}

Start(l) ==
  /\ state[l] = "none"
  /\ state' = [state EXCEPT ![l] = "converting"]
  /\ UNCHANGED mounted

Settle(l) ==
  /\ state[l] = "converting"
  /\ \E r \in {"ready", "failed"} : state' = [state EXCEPT ![l] = r]
  /\ UNCHANGED mounted

Mount(l) ==
  /\ \A x \in Below(l) : state[x] = "ready"
  /\ mounted' = mounted \cup {l}
  /\ UNCHANGED state

Unmount(l) ==
  /\ mounted' = mounted \ {l}
  /\ UNCHANGED state

\* Layers are forgotten together with every image that is mounted from them.
Forget(S) ==
  /\ state' = [l \in Layer |-> IF l \in S THEN "none" ELSE state[l]]
  /\ mounted' = mounted \ S
  /\ \A m \in mounted' : Below(m) \cap S = {}

PNext ==
  \/ \E l \in Layer : Start(l) \/ Settle(l) \/ Mount(l) \/ Unmount(l)
  \/ \E S \in SUBSET Layer : Forget(S)

PSpec == PInit /\ [][PNext]_pvars
=================================================================================
