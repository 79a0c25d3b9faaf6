----------------------------- MODULE ThreadPool -----------------------------
(***************************************************************************)
(* The work queue of the file server: threadpool/threadpool.cpp together   *)
(* with the hand-over in WebServer::waitEpoll (fileserver/fileserver.cpp). *)
(*                                                                         *)
(* The main thread builds one event object per reported descriptor and     *)
(* calls appendEvent: lock, push, unlock, sem_post.  Every worker loops in *)
(* run(): sem_wait, lock, front/pop, unlock, process(), delete.  One       *)
(* action here is one of those calls; between two of them any other thread *)
(* may run.                                                                *)
(*                                                                         *)
(* Left out: the failure returns of pthread_mutex_lock, pthread_mutex_-    *)
(* unlock, sem_wait and sem_post (a default mutex and an initialised       *)
(* semaphore report none here, and no signal handler is installed that     *)
(* could interrupt sem_wait), and the nullptr test of run(): waitEpoll     *)
(* never appends nullptr.                                                  *)
(***************************************************************************)
EXTENDS Integers, Sequences, FiniteSets

CONSTANTS
  Workers,   (* the threads created by the ThreadPool constructor *)
  Main,      (* the thread that runs WebServer::waitEpoll *)
  Events,    (* event objects: each element is one allocation by new *)
  NULL       (* nullptr; also "no owner" of the mutex *)

ASSUME PoolAssumption ==
  /\ Workers # {} /\ IsFiniteSet(Workers)
  /\ Main \notin Workers
  /\ NULL \notin Events
  /\ NULL \notin Workers \cup {Main}

VARIABLES
  m_workQueue,     (* the queue of events waiting for a worker *)
  queueLocker,     (* the thread that holds the mutex, or NULL *)
  queueEventNum,   (* the value of the semaphore *)
  pc,              (* the call each thread makes next *)
  event,           (* waitEpoll's local pointer *)
  curEvent,        (* run()'s local pointer, NULL outside its scope *)
  heap             (* heap[e]: "unused", "live" after new, "freed" after delete *)

vars == <<m_workQueue, queueLocker, queueEventNum, pc, event, curEvent, heap>>

Threads == Workers \cup {Main}

MainCalls == {"loop", "lock", "push", "unlock", "post"}
WorkerCalls == {"wait", "lock", "pop", "unlock", "process", "delete"}

TypeOK ==
  /\ m_workQueue \in Seq(Events)
  /\ queueLocker \in Threads \cup {NULL}
  /\ queueEventNum \in Nat
  /\ pc \in [Threads -> MainCalls \cup WorkerCalls]
  /\ pc[Main] \in MainCalls
  /\ \A w \in Workers : pc[w] \in WorkerCalls
  /\ event \in Events \cup {NULL}
  /\ curEvent \in [Workers -> Events \cup {NULL}]
  /\ heap \in [Events -> {"unused", "live", "freed"}]

Init ==
  /\ m_workQueue = <<>>
  /\ queueLocker = NULL
  /\ queueEventNum = 0
  /\ pc = [t \in Threads |-> IF t = Main THEN "loop" ELSE "wait"]
  /\ event = NULL
  /\ curEvent = [w \in Workers |-> NULL]
  /\ heap = [e \in Events |-> "unused"]

Goto(t, call) == pc' = [pc EXCEPT ![t] = call]

(***************************************************************************)
(* The main thread.                                                        *)
(***************************************************************************)

(* Slip: the test for nullptr before appendEvent is missing. *)
ReportNoTest ==
  /\ pc[Main] = "loop"
  /\ \/ \E e \in Events :
          /\ heap[e] = "unused"
          /\ heap' = [heap EXCEPT ![e] = "live"]
          /\ event' = e
     \/ UNCHANGED <<heap, event>>
  /\ Goto(Main, "lock")
  /\ UNCHANGED <<m_workQueue, queueLocker, queueEventNum, curEvent>>

(* One iteration of the loop over resEvents, up to the call of appendEvent. *)
(* A descriptor that calls for an event gets a new one; the signal pipe and *)
(* a descriptor with neither EPOLLIN nor EPOLLOUT leave the pointer as it   *)
(* is, and the iteration goes on only if the pointer is not nullptr.        *)
Report ==
  /\ pc[Main] = "loop"
  /\ \/ \E e \in Events :
          /\ heap[e] = "unused"
          /\ heap' = [heap EXCEPT ![e] = "live"]
          /\ event' = e
     \/ UNCHANGED <<heap, event>>
  /\ Goto(Main, IF event' = NULL THEN "loop" ELSE "lock")
  /\ UNCHANGED <<m_workQueue, queueLocker, queueEventNum, curEvent>>

AppendLock ==
  /\ pc[Main] = "lock"
  /\ queueLocker = NULL
  /\ queueLocker' = Main
  /\ Goto(Main, "push")
  /\ UNCHANGED <<m_workQueue, queueEventNum, event, curEvent, heap>>

AppendPush ==
  /\ pc[Main] = "push"
  /\ m_workQueue' = Append(m_workQueue, event)
  /\ Goto(Main, "unlock")
  /\ UNCHANGED <<queueLocker, queueEventNum, event, curEvent, heap>>

AppendUnlock ==
  /\ pc[Main] = "unlock"
  /\ queueLocker' = NULL
  /\ Goto(Main, "post")
  /\ UNCHANGED <<m_workQueue, queueEventNum, event, curEvent, heap>>

(* Slip: the pointer is not set back to nullptr after appendEvent returns. *)
AppendPostKeepsPointer ==
  /\ pc[Main] = "post"
  /\ queueEventNum' = queueEventNum + 1
  /\ Goto(Main, "loop")
  /\ UNCHANGED <<m_workQueue, queueLocker, event, curEvent, heap>>

(* sem_post, the return to waitEpoll and event = nullptr. *)
AppendPost ==
  /\ pc[Main] = "post"
  /\ queueEventNum' = queueEventNum + 1
  /\ event' = NULL
  /\ Goto(Main, "loop")
  /\ UNCHANGED <<m_workQueue, queueLocker, curEvent, heap>>

MainNext == Report \/ AppendLock \/ AppendPush \/ AppendUnlock \/ AppendPost

(***************************************************************************)
(* A worker.                                                               *)
(***************************************************************************)

(* Slip: the worker does not wait for the semaphore. *)
SemTryWait(w) ==
  /\ pc[w] = "wait"
  /\ queueEventNum' = IF queueEventNum > 0 THEN queueEventNum - 1 ELSE 0
  /\ Goto(w, "lock")
  /\ UNCHANGED <<m_workQueue, queueLocker, event, curEvent, heap>>

SemWait(w) ==
  /\ pc[w] = "wait"
  /\ queueEventNum > 0
  /\ queueEventNum' = queueEventNum - 1
  /\ Goto(w, "lock")
  /\ UNCHANGED <<m_workQueue, queueLocker, event, curEvent, heap>>

(* Slip: the worker enters the critical section without the mutex. *)
NoLock(w) ==
  /\ pc[w] = "lock"
  /\ Goto(w, "pop")
  /\ UNCHANGED <<m_workQueue, queueLocker, queueEventNum, event, curEvent, heap>>

Lock(w) ==
  /\ pc[w] = "lock"
  /\ queueLocker = NULL
  /\ queueLocker' = w
  /\ Goto(w, "pop")
  /\ UNCHANGED <<m_workQueue, queueEventNum, event, curEvent, heap>>

(* Slip: front() without pop(). *)
FrontOnly(w) ==
  /\ pc[w] = "pop"
  /\ curEvent' = [curEvent EXCEPT ![w] = Head(m_workQueue)]
  /\ Goto(w, "unlock")
  /\ UNCHANGED <<m_workQueue, queueLocker, queueEventNum, event, heap>>

(* Slip: the newest event is taken first. *)
PopNewest(w) ==
  /\ pc[w] = "pop"
  /\ curEvent' = [curEvent EXCEPT ![w] = m_workQueue[Len(m_workQueue)]]
  /\ m_workQueue' = SubSeq(m_workQueue, 1, Len(m_workQueue) - 1)
  /\ Goto(w, "unlock")
  /\ UNCHANGED <<queueLocker, queueEventNum, event, heap>>

(* front() and pop().  On an empty queue both are undefined: NoEmptyPop    *)
(* says that no worker ever stands here with an empty queue.               *)
Pop(w) ==
  /\ pc[w] = "pop"
  /\ curEvent' = [curEvent EXCEPT ![w] = Head(m_workQueue)]
  /\ m_workQueue' = Tail(m_workQueue)
  /\ Goto(w, "unlock")
  /\ UNCHANGED <<queueLocker, queueEventNum, event, heap>>

(* Slip: the worker keeps the mutex while it processes the event. *)
UnlockLate(w) ==
  /\ pc[w] = "unlock"
  /\ Goto(w, "process")
  /\ UNCHANGED <<m_workQueue, queueLocker, queueEventNum, event, curEvent, heap>>

Unlock(w) ==
  /\ pc[w] = "unlock"
  /\ queueLocker' = NULL
  /\ Goto(w, "process")
  /\ UNCHANGED <<m_workQueue, queueEventNum, event, curEvent, heap>>

(* curEvent->process() returns.  It works on the state of the connections, *)
(* which module Reactor models; here only its call and return matter.      *)
Process(w) ==
  /\ pc[w] = "process"
  /\ Goto(w, "delete")
  /\ UNCHANGED <<m_workQueue, queueLocker, queueEventNum, event, curEvent, heap>>

Delete(w) ==
  /\ pc[w] = "delete"
  /\ heap' = [heap EXCEPT ![curEvent[w]] = "freed"]
  /\ curEvent' = [curEvent EXCEPT ![w] = NULL]
  /\ Goto(w, "wait")
  /\ UNCHANGED <<m_workQueue, queueLocker, queueEventNum, event>>

WorkerNext(w) ==
  SemWait(w) \/ Lock(w) \/ Pop(w) \/ Unlock(w) \/ Process(w) \/ Delete(w)

Next == MainNext \/ \E w \in Workers : WorkerNext(w)

(* Every thread keeps running, but a handler need not return: process()    *)
(* may block in recv for as long as the client likes.                      *)
Fairness ==
  /\ WF_vars(AppendLock) /\ WF_vars(AppendPush)
  /\ WF_vars(AppendUnlock) /\ WF_vars(AppendPost)
  /\ \A w \in Workers :
       WF_vars(SemWait(w) \/ Lock(w) \/ Pop(w) \/ Unlock(w) \/ Delete(w))

Spec == Init /\ [][Next]_vars

FairSpec == Spec /\ Fairness
-----------------------------------------------------------------------------
(***************************************************************************)
(* Properties.                                                             *)
(***************************************************************************)

(* The workers that passed sem_wait and have not popped yet. *)
Claimants == {w \in Workers : pc[w] \in {"lock", "pop"}}

(* 1 between the push and the sem_post of one appendEvent. *)
Unposted == IF pc[Main] \in {"unlock", "post"} THEN 1 ELSE 0

(* The semaphore and the queue never drift apart: the queue holds exactly  *)
(* one event per unit of the semaphore, per worker on its way to pop and   *)
(* per push not posted yet (appendEvent lines 62-73, run lines 98-114).    *)
SemaphoreExact ==
  Len(m_workQueue) = queueEventNum + Cardinality(Claimants) + Unposted

(* A worker that is about to call front() and pop() finds an event, so the *)
(* undefined behaviour of an empty std::queue is never reached.            *)
NoEmptyPop == \A w \in Workers : pc[w] = "pop" => m_workQueue # <<>>

(* The local pointers are set exactly while their thread works on an       *)
(* event: waitEpoll's from new to the end of appendEvent, run()'s from     *)
(* front() to delete.                                                      *)
PointersInScope ==
  /\ event = NULL <=> pc[Main] = "loop"
  /\ \A w \in Workers : curEvent[w] = NULL <=> pc[w] \in {"wait", "lock", "pop"}

(* Only the owner of the mutex is between lock and unlock, so pushes and   *)
(* pops never overlap.                                                     *)
InQueue(t) == pc[t] \in {"push", "pop", "unlock"}
MutualExclusion == \A t \in Threads : InQueue(t) <=> queueLocker = t

(* The three places an event can be in: built but not pushed yet, waiting  *)
(* in the queue, in the hands of a worker.                                 *)
HeldByMain(e) == pc[Main] \in {"lock", "push"} /\ event = e
Waiting(e) == \E i \in 1..Len(m_workQueue) : m_workQueue[i] = e
HeldBy(w, e) == curEvent[w] = e

(* An event object that was allocated and not yet deleted is in exactly    *)
(* one place, and a deleted one in none: no event is lost, none is         *)
(* processed by two workers or twice, none is used after delete.           *)
NoDuplicates ==
  \A i, j \in 1..Len(m_workQueue) : m_workQueue[i] = m_workQueue[j] => i = j
NoSharing ==
  \A e \in Events :
    /\ \A v, w \in Workers : HeldBy(v, e) /\ HeldBy(w, e) => v = w
    /\ ~(HeldByMain(e) /\ Waiting(e))
    /\ \A w \in Workers : ~(HeldBy(w, e) /\ (HeldByMain(e) \/ Waiting(e)))
LiveIffHeld ==
  \A e \in Events :
    heap[e] = "live" <=>
      HeldByMain(e) \/ Waiting(e) \/ \E w \in Workers : HeldBy(w, e)
Custody == NoDuplicates /\ NoSharing /\ LiveIffHeld

(* The pool implements the abstract hand-over: first come, first served,   *)
(* each event to one worker, and none after its delete.                    *)
Queue == INSTANCE EventQueue WITH
           pending <- m_workQueue,
           running <- curEvent,
           finished <- {e \in Events : heap[e] = "freed"}
ImplementsEventQueue == Queue!Spec

(* One worker whose handlers always return is enough for every event in    *)
(* the queue to be taken, whatever happens to the other workers.           *)
Returns(w) == (pc[w] = "process") ~> (pc[w] # "process")
OneWorkerSuffices ==
  (\E w \in Workers : Returns(w)) =>
    \A e \in Events : Waiting(e) ~> ~Waiting(e)
=============================================================================
