---------------------------- MODULE MCThreadPool ----------------------------
(* Instances of ThreadPool for TLC. *)
EXTENDS ThreadPool, TLC

(* Workers are interchangeable, and so are events. *)
Symmetry == Permutations(Workers) \cup Permutations(Events)
=============================================================================
