----------------------------- MODULE MCReactor -----------------------------
(* Instances of Reactor for TLC. *)
EXTENDS Reactor, TLC

(* Connections and workers are interchangeable. *)
ClientSymmetry == Permutations(Clients)
Symmetry == ClientSymmetry \cup Permutations(Workers)
=============================================================================
