----------------------------- MODULE EventQueue -----------------------------
(***************************************************************************)
(* What the rest of the server relies on the thread pool for: events are   *)
(* handed out first come, first served, each one to exactly one worker,    *)
(* which runs it to the end before it takes another; an event that was run *)
(* never comes back.  No lock, no semaphore, no pointer.                   *)
(***************************************************************************)
EXTENDS Naturals, Sequences

CONSTANTS
  Workers,   (* the threads of the pool *)
  Events,    (* the event objects that can ever be handed over *)
  NULL       (* "no event" *)

VARIABLES
  pending,   (* the events waiting for a worker, oldest first *)
  running,   (* running[w]: the event w is busy with, or NULL *)
  finished   (* the events that were run to the end *)

eqVars == <<pending, running, finished>>

Init ==
  /\ pending = <<>>
  /\ running = [w \in Workers |-> NULL]
  /\ finished = {}

(* An event is new when it was never handed over before. *)
IsNew(e) ==
  /\ \A i \in 1..Len(pending) : pending[i] # e
  /\ \A w \in Workers : running[w] # e
  /\ e \notin finished

Hand(e) ==
  /\ IsNew(e)
  /\ pending' = Append(pending, e)
  /\ UNCHANGED <<running, finished>>

Take(w) ==
  /\ running[w] = NULL
  /\ pending # <<>>
  /\ running' = [running EXCEPT ![w] = Head(pending)]
  /\ pending' = Tail(pending)
  /\ UNCHANGED finished

Finish(w) ==
  /\ running[w] # NULL
  /\ finished' = finished \cup {running[w]}
  /\ running' = [running EXCEPT ![w] = NULL]
  /\ UNCHANGED pending

Next ==
  \/ \E e \in Events : Hand(e)
  \/ \E w \in Workers : Take(w) \/ Finish(w)

Spec == Init /\ [][Next]_eqVars
=============================================================================
