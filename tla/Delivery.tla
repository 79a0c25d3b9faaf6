------------------------------ MODULE Delivery ------------------------------
(***************************************************************************)
(* What clients may rely on when each of them reads one answer of the      *)
(* server: a head that announces a number of bytes (Content-Length), then  *)
(* bytes, never more than announced, and an end that is only reached when  *)
(* all of them have come.  Only a broken connection stops earlier.         *)
(***************************************************************************)
EXTENDS Naturals

CONSTANT Jobs  (* the requests, one per client *)

VARIABLES
  length,    (* length[j]: the announced length *)
  received,  (* received[j]: how many bytes have come *)
  state      (* state[j]: "asked", "announced", "complete" or "broken" *)

vars == <<length, received, state>>

Init ==
  /\ length = [j \in Jobs |-> 0]
  /\ received = [j \in Jobs |-> 0]
  /\ state = [j \in Jobs |-> "asked"]

Announce(j) ==
  /\ state[j] = "asked"
  /\ length'[j] \in Nat /\ length' = [length EXCEPT ![j] = length'[j]]
  /\ state' = [state EXCEPT ![j] = "announced"]
  /\ UNCHANGED received

Deliver(j) ==
  /\ state[j] = "announced"
  /\ \E n \in (received[j] + 1)..length[j] : received' = [received EXCEPT ![j] = n]
  /\ UNCHANGED <<length, state>>

Complete(j) ==
  /\ state[j] = "announced" /\ received[j] = length[j]
  /\ state' = [state EXCEPT ![j] = "complete"]
  /\ UNCHANGED <<length, received>>

BreakOff(j) ==
  /\ state[j] \in {"asked", "announced"}
  /\ state' = [state EXCEPT ![j] = "broken"]
  /\ UNCHANGED <<length, received>>

Next == \E j \in Jobs : Announce(j) \/ Deliver(j) \/ Complete(j) \/ BreakOff(j)

Spec == Init /\ [][Next]_vars
=============================================================================
