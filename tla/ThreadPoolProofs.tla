-------------------------- MODULE ThreadPoolProofs --------------------------
(***************************************************************************)
(* Proofs about module ThreadPool, for every number of workers and events. *)
(***************************************************************************)
EXTENDS ThreadPool, FiniteSetTheorems, SequenceTheorems, TLAPS

(***************************************************************************)
(* Part 1: types, pointers and the semaphore.  None of the three is        *)
(* inductive alone: the pop needs the semaphore count to find an event,    *)
(* the push needs a non-null pointer to keep the type of the queue.        *)
(***************************************************************************)
Inv1 == TypeOK /\ PointersInScope /\ SemaphoreExact

(* A worker on its way to the pop is counted, so the queue is not empty.   *)
LEMMA ClaimMeansEvent ==
  ASSUME Inv1, NEW w \in Workers, pc[w] \in {"lock", "pop"}
  PROVE  m_workQueue # <<>>
<1>1. IsFiniteSet(Claimants) /\ Cardinality(Claimants) \in Nat
  BY PoolAssumption, FS_Subset, FS_CardinalityType DEF Claimants
<1>2. Cardinality(Claimants) # 0
  BY <1>1, FS_EmptySet DEF Claimants
<1>3. Len(m_workQueue) > 0
  BY <1>1, <1>2 DEF Inv1, TypeOK, SemaphoreExact, Unposted
<1> QED BY <1>3

(* What one thread's move does to the set of claimants.                    *)
LEMMA ClaimantsAfter ==
  ASSUME TypeOK, NEW t \in Threads, NEW call, Goto(t, call)
  PROVE  /\ Cardinality(Claimants) \in Nat
         /\ t = Main => Claimants' = Claimants
         /\ t \in Workers /\ (call \in {"lock", "pop"} <=> t \in Claimants)
              => Claimants' = Claimants
         /\ t \in Workers /\ t \notin Claimants /\ call \in {"lock", "pop"}
              => Cardinality(Claimants') = Cardinality(Claimants) + 1
         /\ t \in Workers /\ t \in Claimants /\ call \notin {"lock", "pop"}
              => Cardinality(Claimants') = Cardinality(Claimants) - 1
<1>1. IsFiniteSet(Claimants) /\ Cardinality(Claimants) \in Nat
  BY PoolAssumption, FS_Subset, FS_CardinalityType DEF Claimants
<1>2. \A u \in Threads : pc'[u] = IF u = t THEN call ELSE pc[u]
  BY DEF TypeOK, Goto
<1>3. Workers \subseteq Threads /\ Main \notin Workers
  BY PoolAssumption DEF Threads
<1>4. Claimants' = {w \in Workers : pc'[w] \in {"lock", "pop"}}
  BY DEF Claimants
<1>5. t = Main => Claimants' = Claimants
  BY <1>2, <1>3, <1>4 DEF Claimants
<1>6. t \in Workers /\ (call \in {"lock", "pop"} <=> t \in Claimants)
        => Claimants' = Claimants
  BY <1>2, <1>3, <1>4 DEF Claimants
<1>7. t \in Workers /\ t \notin Claimants /\ call \in {"lock", "pop"}
        => Claimants' = Claimants \cup {t}
  BY <1>2, <1>3, <1>4 DEF Claimants
<1>8. t \in Workers /\ t \in Claimants /\ call \notin {"lock", "pop"}
        => Claimants' = Claimants \ {t}
  BY <1>2, <1>3, <1>4 DEF Claimants
<1> QED BY <1>1, <1>5, <1>6, <1>7, <1>8, FS_AddElement, FS_RemoveElement

LEMMA Inv1Init == Init => Inv1
<1> SUFFICES ASSUME Init PROVE Inv1
  OBVIOUS
<1>1. TypeOK
  BY PoolAssumption, EmptySeq DEF Init, TypeOK, Threads, MainCalls, WorkerCalls
<1>2. PointersInScope
  BY PoolAssumption DEF Init, PointersInScope, Threads
<1>3. Claimants = {} /\ Unposted = 0
  BY PoolAssumption DEF Init, Claimants, Unposted, Threads
<1>4. SemaphoreExact
  BY <1>3, FS_EmptySet DEF Init, SemaphoreExact
<1> QED BY <1>1, <1>2, <1>4 DEF Inv1

LEMMA Inv1Step == Inv1 /\ [Next]_vars => Inv1'
<1> SUFFICES ASSUME Inv1, [Next]_vars PROVE Inv1'
  OBVIOUS
<1> USE PoolAssumption DEF Inv1, Goto
<1>1. CASE Report
  <2>1. TypeOK' /\ PointersInScope'
    BY <1>1 DEF Report, TypeOK, PointersInScope, Threads, MainCalls, WorkerCalls
  <2>2. Claimants' = Claimants /\ Unposted' = Unposted
    BY <1>1, ClaimantsAfter DEF Report, TypeOK, Threads, Unposted
  <2> QED BY <1>1, <2>1, <2>2 DEF Report, SemaphoreExact
<1>2. CASE AppendLock
  <2>1. TypeOK' /\ PointersInScope'
    BY <1>2 DEF AppendLock, TypeOK, PointersInScope, Threads, MainCalls, WorkerCalls
  <2>2. Claimants' = Claimants /\ Unposted' = Unposted
    BY <1>2, ClaimantsAfter DEF AppendLock, TypeOK, Threads, Unposted
  <2> QED BY <1>2, <2>1, <2>2 DEF AppendLock, SemaphoreExact
<1>3. CASE AppendPush
  <2>1. event \in Events
    BY <1>3 DEF AppendPush, TypeOK, PointersInScope
  <2>2. m_workQueue' \in Seq(Events) /\ Len(m_workQueue') = Len(m_workQueue) + 1
    BY <1>3, <2>1, AppendProperties DEF AppendPush, TypeOK
  <2>3. TypeOK' /\ PointersInScope'
    BY <1>3, <2>2 DEF AppendPush, TypeOK, PointersInScope, Threads, MainCalls, WorkerCalls
  <2>4. Cardinality(Claimants) \in Nat /\ Claimants' = Claimants
    BY <1>3, ClaimantsAfter DEF AppendPush, Threads
  <2>5. Unposted = 0 /\ Unposted' = 1
    BY <1>3 DEF AppendPush, TypeOK, Threads, Unposted
  <2>6. SemaphoreExact'
    BY <1>3, <2>2, <2>4, <2>5 DEF AppendPush, SemaphoreExact, TypeOK
  <2> QED BY <2>3, <2>6
<1>4. CASE AppendUnlock
  <2>1. TypeOK' /\ PointersInScope'
    BY <1>4 DEF AppendUnlock, TypeOK, PointersInScope, Threads, MainCalls, WorkerCalls
  <2>2. Claimants' = Claimants /\ Unposted' = Unposted
    BY <1>4, ClaimantsAfter DEF AppendUnlock, TypeOK, Threads, Unposted
  <2> QED BY <1>4, <2>1, <2>2 DEF AppendUnlock, SemaphoreExact
<1>5. CASE AppendPost
  <2>1. TypeOK' /\ PointersInScope'
    BY <1>5 DEF AppendPost, TypeOK, PointersInScope, Threads, MainCalls, WorkerCalls
  <2>2. Cardinality(Claimants) \in Nat /\ Claimants' = Claimants
    BY <1>5, ClaimantsAfter DEF AppendPost, Threads
  <2>3. Unposted = 1 /\ Unposted' = 0
    BY <1>5 DEF AppendPost, TypeOK, Threads, Unposted
  <2>4. SemaphoreExact'
    BY <1>5, <2>2, <2>3 DEF AppendPost, SemaphoreExact, TypeOK
  <2> QED BY <2>1, <2>4
<1>6. ASSUME NEW w \in Workers, SemWait(w) PROVE Inv1'
  <2>1. TypeOK' /\ PointersInScope'
    BY <1>6 DEF SemWait, TypeOK, PointersInScope, Threads, MainCalls, WorkerCalls
  <2>2. /\ Cardinality(Claimants) \in Nat
        /\ Cardinality(Claimants') = Cardinality(Claimants) + 1
    BY <1>6, ClaimantsAfter DEF SemWait, Threads, Claimants
  <2>3. Unposted' = Unposted /\ Unposted \in Nat
    BY <1>6 DEF SemWait, TypeOK, Threads, Unposted
  <2>4. SemaphoreExact'
    BY <1>6, <2>2, <2>3 DEF SemWait, SemaphoreExact, TypeOK
  <2> QED BY <2>1, <2>4
<1>7. ASSUME NEW w \in Workers, Lock(w) PROVE Inv1'
  <2>1. TypeOK' /\ PointersInScope'
    BY <1>7 DEF Lock, TypeOK, PointersInScope, Threads, MainCalls, WorkerCalls
  <2>2. Claimants' = Claimants
    BY <1>7, ClaimantsAfter DEF Lock, Threads, Claimants
  <2>3. Unposted' = Unposted
    BY <1>7 DEF Lock, TypeOK, Threads, Unposted
  <2> QED BY <1>7, <2>1, <2>2, <2>3 DEF Lock, SemaphoreExact
<1>8. ASSUME NEW w \in Workers, Pop(w) PROVE Inv1'
  <2>1. m_workQueue # <<>>
    BY <1>8, ClaimMeansEvent DEF Pop
  <2>2. /\ Head(m_workQueue) \in Events
        /\ m_workQueue' \in Seq(Events)
        /\ Len(m_workQueue') = Len(m_workQueue) - 1
    BY <1>8, <2>1, HeadTailProperties DEF Pop, TypeOK
  <2>3. TypeOK'
    BY <1>8, <2>2 DEF Pop, TypeOK, Threads, MainCalls, WorkerCalls
  <2>4. PointersInScope'
    BY <1>8, <2>2 DEF Pop, TypeOK, PointersInScope, Threads
  <2>5. /\ Cardinality(Claimants) \in Nat
        /\ Cardinality(Claimants') = Cardinality(Claimants) - 1
    BY <1>8, ClaimantsAfter DEF Pop, Threads, Claimants
  <2>6. Unposted' = Unposted /\ Unposted \in Nat
    BY <1>8 DEF Pop, TypeOK, Threads, Unposted
  <2>7. SemaphoreExact'
    BY <1>8, <2>2, <2>5, <2>6 DEF Pop, SemaphoreExact, TypeOK
  <2> QED BY <2>3, <2>4, <2>7
<1>9. ASSUME NEW w \in Workers, Unlock(w) \/ Process(w) PROVE Inv1'
  <2>1. TypeOK' /\ PointersInScope'
    BY <1>9 DEF Unlock, Process, TypeOK, PointersInScope, Threads, MainCalls, WorkerCalls
  <2>2. Claimants' = Claimants
    BY <1>9, ClaimantsAfter DEF Unlock, Process, Threads, Claimants
  <2>3. Unposted' = Unposted
    BY <1>9 DEF Unlock, Process, TypeOK, Threads, Unposted
  <2> QED BY <1>9, <2>1, <2>2, <2>3 DEF Unlock, Process, SemaphoreExact
<1>10. ASSUME NEW w \in Workers, Delete(w) PROVE Inv1'
  <2>1. TypeOK' /\ PointersInScope'
    BY <1>10 DEF Delete, TypeOK, PointersInScope, Threads, MainCalls, WorkerCalls
  <2>2. Claimants' = Claimants
    BY <1>10, ClaimantsAfter DEF Delete, Threads, Claimants
  <2>3. Unposted' = Unposted
    BY <1>10 DEF Delete, TypeOK, Threads, Unposted
  <2> QED BY <1>10, <2>1, <2>2, <2>3 DEF Delete, SemaphoreExact
<1>11. CASE UNCHANGED vars
  BY <1>11 DEF vars, TypeOK, PointersInScope, SemaphoreExact, Claimants, Unposted
<1> QED
  BY <1>1, <1>2, <1>3, <1>4, <1>5, <1>6, <1>7, <1>8, <1>9, <1>10, <1>11
  DEF Next, MainNext, WorkerNext

LEMMA Inv1Holds == Spec => []Inv1
BY Inv1Init, Inv1Step, PTL DEF Spec

(* Every variable keeps its type; the pointers hold an event exactly while *)
(* their thread works on one.                                              *)
THEOREM TypeCorrect == Spec => [](TypeOK /\ PointersInScope)
<1>1. Inv1 => TypeOK /\ PointersInScope
  BY DEF Inv1
<1> QED BY <1>1, Inv1Holds, PTL

(* The pointers event and curEvent are null exactly outside the turn of    *)
(* the loop they belong to.                                                *)
THEOREM PointersValid == Spec => []PointersInScope
BY TypeCorrect, PTL

(* The semaphore counts the events of the queue, in every interleaving of  *)
(* appendEvent and run().                                                  *)
THEOREM SemaphoreCounts == Spec => []SemaphoreExact
<1>1. Inv1 => SemaphoreExact
  BY DEF Inv1
<1> QED BY <1>1, Inv1Holds, PTL

(* run() never calls front() or pop() on an empty queue.                   *)
THEOREM PopFindsEvent == Spec => []NoEmptyPop
<1>1. Inv1 => NoEmptyPop
  BY ClaimMeansEvent DEF NoEmptyPop
<1> QED BY <1>1, Inv1Holds, PTL
-----------------------------------------------------------------------------
(***************************************************************************)
(* Part 2: the mutex.                                                      *)
(***************************************************************************)
LEMMA MutexInit == Init => MutualExclusion
BY PoolAssumption DEF Init, MutualExclusion, InQueue, Threads

LEMMA MutexStep ==
  ASSUME TypeOK, MutualExclusion, [Next]_vars
  PROVE  MutualExclusion'
<1> USE PoolAssumption DEF MutualExclusion, InQueue, TypeOK, Threads, Goto
<1>1. CASE Report
  BY <1>1 DEF Report
<1>2. CASE AppendLock
  BY <1>2 DEF AppendLock
<1>3. CASE AppendPush
  BY <1>3 DEF AppendPush
<1>4. CASE AppendUnlock
  BY <1>4 DEF AppendUnlock
<1>5. CASE AppendPost
  BY <1>5 DEF AppendPost
<1>6. ASSUME NEW w \in Workers, SemWait(w) PROVE MutualExclusion'
  BY <1>6 DEF SemWait
<1>7. ASSUME NEW w \in Workers, Lock(w) PROVE MutualExclusion'
  BY <1>7 DEF Lock
<1>8. ASSUME NEW w \in Workers, Pop(w) PROVE MutualExclusion'
  BY <1>8 DEF Pop
<1>9. ASSUME NEW w \in Workers, Unlock(w) PROVE MutualExclusion'
  BY <1>9 DEF Unlock
<1>10. ASSUME NEW w \in Workers, Process(w) \/ Delete(w) PROVE MutualExclusion'
  BY <1>10 DEF Process, Delete
<1>11. CASE UNCHANGED vars
  BY <1>11 DEF vars
<1> QED
  BY <1>1, <1>2, <1>3, <1>4, <1>5, <1>6, <1>7, <1>8, <1>9, <1>10, <1>11
  DEF Next, MainNext, WorkerNext

(* At most one thread is between lock and unlock, and it owns the mutex.   *)
THEOREM QueueIsExclusive == Spec => []MutualExclusion
<1>1. TypeOK /\ MutualExclusion /\ [Next]_vars => MutualExclusion'
  BY MutexStep
<1> QED BY MutexInit, <1>1, TypeCorrect, PTL DEF Spec
-----------------------------------------------------------------------------
(***************************************************************************)
(* Part 3: custody of the event objects.                                   *)
(***************************************************************************)

(* Membership in a queue after a push and after a pop.                     *)
LEMMA MembersAfterPush ==
  ASSUME NEW q \in Seq(Events), NEW e \in Events, NEW x
  PROVE  (\E i \in 1..Len(Append(q, e)) : Append(q, e)[i] = x)
           <=> x = e \/ \E i \in 1..Len(q) : q[i] = x
<1>1. /\ Len(q) \in Nat
      /\ Len(Append(q, e)) = Len(q) + 1
      /\ \A i \in 1..Len(q) : Append(q, e)[i] = q[i]
      /\ Append(q, e)[Len(q) + 1] = e
  BY AppendProperties, LenProperties
<1>2. Len(q) + 1 \in 1..Len(Append(q, e))
  BY <1>1
<1>3. \A i \in 1..Len(Append(q, e)) : i = Len(q) + 1 \/ i \in 1..Len(q)
  BY <1>1
<1>4. \A i \in 1..Len(q) : i \in 1..Len(Append(q, e))
  BY <1>1
<1>5. ASSUME NEW i \in 1..Len(Append(q, e)), Append(q, e)[i] = x
      PROVE  x = e \/ \E j \in 1..Len(q) : q[j] = x
  BY <1>1, <1>3, <1>5
<1>6. ASSUME x = e \/ \E j \in 1..Len(q) : q[j] = x
      PROVE  \E i \in 1..Len(Append(q, e)) : Append(q, e)[i] = x
  BY <1>1, <1>2, <1>4, <1>6
<1> QED BY <1>5, <1>6

LEMMA MembersAfterPop ==
  ASSUME NEW q \in Seq(Events), q # <<>>, NEW x,
         \A i, j \in 1..Len(q) : q[i] = q[j] => i = j
  PROVE  (\E i \in 1..Len(Tail(q)) : Tail(q)[i] = x)
           <=> x # Head(q) /\ \E i \in 1..Len(q) : q[i] = x
<1>1. /\ Len(q) \in Nat \ {0}
      /\ Len(Tail(q)) = Len(q) - 1
      /\ \A i \in 1..Len(Tail(q)) : Tail(q)[i] = q[i + 1]
      /\ Head(q) = q[1]
  BY HeadTailProperties, LenProperties, EmptySeq
<1>2. ASSUME NEW i \in 1..Len(Tail(q)), Tail(q)[i] = x
      PROVE  x # Head(q) /\ \E j \in 1..Len(q) : q[j] = x
  <2>1. i + 1 \in 1..Len(q) /\ 1 \in 1..Len(q) /\ i + 1 # 1
    BY <1>1
  <2>2. q[i + 1] = x
    BY <1>1, <1>2
  <2> QED BY <1>1, <2>1, <2>2
<1>3. ASSUME x # Head(q), NEW i \in 1..Len(q), q[i] = x
      PROVE  \E j \in 1..Len(Tail(q)) : Tail(q)[j] = x
  <2>1. i - 1 \in 1..Len(Tail(q))
    BY <1>1, <1>3
  <2>2. Tail(q)[i - 1] = x
    BY <1>1, <1>3, <2>1
  <2> QED BY <2>1, <2>2
<1> QED BY <1>2, <1>3

(* A push of a new event and a pop keep the queue free of duplicates.      *)
LEMMA NoDuplicatesAfterPush ==
  ASSUME NEW q \in Seq(Events), NEW e \in Events,
         \A i, j \in 1..Len(q) : q[i] = q[j] => i = j,
         \A i \in 1..Len(q) : q[i] # e
  PROVE  \A i, j \in 1..Len(Append(q, e)) :
            Append(q, e)[i] = Append(q, e)[j] => i = j
<1>1. /\ Len(q) \in Nat
      /\ Len(Append(q, e)) = Len(q) + 1
      /\ \A i \in 1..Len(q) : Append(q, e)[i] = q[i]
      /\ Append(q, e)[Len(q) + 1] = e
  BY AppendProperties, LenProperties
<1>2. \A i \in 1..Len(Append(q, e)) : i = Len(q) + 1 \/ i \in 1..Len(q)
  BY <1>1
<1> QED BY <1>1, <1>2

LEMMA NoDuplicatesAfterPop ==
  ASSUME NEW q \in Seq(Events), q # <<>>,
         \A i, j \in 1..Len(q) : q[i] = q[j] => i = j
  PROVE  \A i, j \in 1..Len(Tail(q)) : Tail(q)[i] = Tail(q)[j] => i = j
<1>1. /\ Len(q) \in Nat \ {0}
      /\ Len(Tail(q)) = Len(q) - 1
      /\ \A i \in 1..Len(Tail(q)) : Tail(q)[i] = q[i + 1]
  BY HeadTailProperties, LenProperties, EmptySeq
<1> SUFFICES ASSUME NEW i \in 1..Len(Tail(q)), NEW j \in 1..Len(Tail(q)),
                    Tail(q)[i] = Tail(q)[j]
             PROVE  i = j
  OBVIOUS
<1>2. i + 1 \in 1..Len(q) /\ j + 1 \in 1..Len(q) /\ q[i + 1] = q[j + 1]
  BY <1>1
<1>3. i + 1 = j + 1
  BY <1>2
<1> QED BY <1>3

(* A step that moves no event between its places keeps the custody.        *)
LEMMA CustodyFrame ==
  ASSUME Custody,
         m_workQueue' = m_workQueue, curEvent' = curEvent, heap' = heap,
         \A e \in Events : HeldByMain(e)' <=> HeldByMain(e)
  PROVE  Custody'
<1>1. /\ \A e \in Events : Waiting(e)' <=> Waiting(e)
      /\ \A e \in Events, w \in Workers : HeldBy(w, e)' <=> HeldBy(w, e)
  BY DEF Waiting, HeldBy
<1>2. NoDuplicates'
  BY DEF Custody, NoDuplicates
<1>3. NoSharing'
  BY <1>1 DEF Custody, NoSharing
<1>4. LiveIffHeld'
  BY <1>1 DEF Custody, LiveIffHeld
<1> QED BY <1>2, <1>3, <1>4 DEF Custody

LEMMA CustodyInit == Init => Custody
<1> SUFFICES ASSUME Init PROVE Custody
  OBVIOUS
<1>1. Len(m_workQueue) = 0
  BY EmptySeq DEF Init
<1>2. \A e \in Events : ~HeldByMain(e) /\ ~Waiting(e)
  BY <1>1, PoolAssumption DEF Init, HeldByMain, Waiting, Threads
<1>3. \A e \in Events, w \in Workers : ~HeldBy(w, e)
  BY PoolAssumption DEF Init, HeldBy
<1> QED
  BY <1>1, <1>2, <1>3 DEF Init, Custody, NoDuplicates, NoSharing, LiveIffHeld

(* waitEpoll builds a new event: it is in nobody's hands before.           *)
LEMMA CustodyReport ==
  ASSUME Inv1, Custody, Report
  PROVE  Custody'
<1> USE PoolAssumption DEF Inv1, TypeOK, Threads, Goto
<1>1. pc[Main] = "loop" /\ event = NULL
  BY DEF Report, PointersInScope
<1>2. \A e \in Events : ~HeldByMain(e)
  BY <1>1 DEF HeldByMain
<1>3. CASE UNCHANGED <<heap, event>>
  <2>1. \A e \in Events : ~HeldByMain(e)'
    BY <1>1, <1>3 DEF HeldByMain
  <2> QED BY <1>2, <1>3, <2>1, CustodyFrame DEF Report
<1>4. ASSUME NEW e \in Events, heap[e] = "unused",
             heap' = [heap EXCEPT ![e] = "live"], event' = e
      PROVE  Custody'
  <2>1. \A x \in Events : HeldByMain(x)' <=> x = e
    BY <1>1, <1>4 DEF Report, HeldByMain
  <2>2. /\ \A x \in Events : Waiting(x)' <=> Waiting(x)
        /\ \A x \in Events, w \in Workers : HeldBy(w, x)' <=> HeldBy(w, x)
    BY DEF Report, Waiting, HeldBy
  <2>3. ~Waiting(e) /\ \A w \in Workers : ~HeldBy(w, e)
    BY <1>4 DEF Custody, LiveIffHeld
  <2>4. NoDuplicates'
    BY DEF Report, Custody, NoDuplicates
  <2>5. NoSharing'
    BY <2>1, <2>2, <2>3 DEF Custody, NoSharing
  <2>6. LiveIffHeld'
    BY <1>2, <1>4, <2>1, <2>2 DEF Custody, LiveIffHeld
  <2> QED BY <2>4, <2>5, <2>6 DEF Custody
<1> QED BY <1>3, <1>4 DEF Report

(* The push moves the event from waitEpoll's hands to the queue.           *)
LEMMA CustodyPush ==
  ASSUME Inv1, Custody, AppendPush
  PROVE  Custody'
<1> USE PoolAssumption DEF Inv1, TypeOK, Threads, Goto
<1>1. pc[Main] = "push" /\ event \in Events /\ m_workQueue \in Seq(Events)
  BY DEF AppendPush, PointersInScope
<1>2. HeldByMain(event) /\ ~Waiting(event)
  BY <1>1 DEF HeldByMain, Custody, NoSharing
<1>3. \A x \in Events : HeldByMain(x) <=> x = event
  BY <1>1 DEF HeldByMain
<1>4. \A x \in Events : ~HeldByMain(x)'
  BY DEF AppendPush, HeldByMain
<1>5. \A x \in Events : Waiting(x)' <=> x = event \/ Waiting(x)
  BY <1>1, MembersAfterPush DEF AppendPush, Waiting
<1>6. \A x \in Events, w \in Workers : HeldBy(w, x)' <=> HeldBy(w, x)
  BY DEF AppendPush, HeldBy
<1>7. NoDuplicates'
  BY <1>1, <1>2, NoDuplicatesAfterPush
  DEF AppendPush, Custody, NoDuplicates, Waiting
<1>8. NoSharing'
  BY <1>1, <1>2, <1>4, <1>5, <1>6 DEF Custody, NoSharing
<1>9. LiveIffHeld'
  BY <1>1, <1>2, <1>3, <1>4, <1>5, <1>6 DEF AppendPush, Custody, LiveIffHeld
<1> QED BY <1>7, <1>8, <1>9 DEF Custody

(* The pop moves the oldest event from the queue to one worker's hands.    *)
LEMMA CustodyPop ==
  ASSUME Inv1, Custody, NEW w \in Workers, Pop(w)
  PROVE  Custody'
<1> USE PoolAssumption DEF Inv1, TypeOK, Threads, Goto
<1> DEFINE e == Head(m_workQueue)
<1>1. m_workQueue # <<>>
  BY ClaimMeansEvent DEF Pop
<1>2. /\ e \in Events /\ e = m_workQueue[1] /\ 1 \in 1..Len(m_workQueue)
      /\ curEvent[w] = NULL
  BY <1>1, HeadTailProperties, LenProperties, EmptySeq DEF Pop, PointersInScope
<1>3. Waiting(e)
  BY <1>2 DEF Waiting
<1>4. ~HeldByMain(e) /\ \A v \in Workers : ~HeldBy(v, e)
  BY <1>2, <1>3 DEF Custody, NoSharing
<1>5. \A x \in Events : ~HeldBy(w, x)
  BY <1>2 DEF HeldBy
<1>6. \A x \in Events : HeldByMain(x)' <=> HeldByMain(x)
  BY DEF Pop, HeldByMain
<1>7. \A x \in Events : Waiting(x)' <=> x # e /\ Waiting(x)
  <2> TAKE x \in Events
  <2>1. /\ m_workQueue \in Seq(Events) /\ m_workQueue' = Tail(m_workQueue)
        /\ \A i, j \in 1..Len(m_workQueue) :
              m_workQueue[i] = m_workQueue[j] => i = j
    BY DEF Pop, Custody, NoDuplicates
  <2>2. (\E i \in 1..Len(Tail(m_workQueue)) : Tail(m_workQueue)[i] = x)
          <=> x # e /\ \E i \in 1..Len(m_workQueue) : m_workQueue[i] = x
    BY ONLY <1>1, <2>1, MembersAfterPop
  <2> HIDE DEF e
  <2> QED BY ONLY <2>1, <2>2 DEF Waiting
<1>8. \A x \in Events, v \in Workers :
         HeldBy(v, x)' <=> (v = w /\ x = e) \/ (v # w /\ HeldBy(v, x))
  BY <1>2 DEF Pop, HeldBy
<1>9. NoDuplicates'
  BY <1>1, NoDuplicatesAfterPop DEF Pop, Custody, NoDuplicates
<1>10. NoSharing'
  BY <1>4, <1>6, <1>7, <1>8 DEF Custody, NoSharing
<1>11. LiveIffHeld'
  <2> SUFFICES ASSUME NEW x \in Events
               PROVE  heap'[x] = "live" <=>
                        HeldByMain(x)' \/ Waiting(x)'
                          \/ \E v \in Workers : HeldBy(v, x)'
    BY DEF LiveIffHeld
  <2>1. heap'[x] = "live" <=>
          HeldByMain(x) \/ Waiting(x) \/ \E v \in Workers : HeldBy(v, x)
    BY DEF Pop, Custody, LiveIffHeld
  <2>2. CASE x = e
    BY <1>2, <1>3, <1>8, <2>1, <2>2
  <2>3. CASE x # e
    BY <1>5, <1>6, <1>7, <1>8, <2>1, <2>3
  <2> QED BY <2>2, <2>3
<1> QED BY <1>9, <1>10, <1>11 DEF Custody

(* The delete ends the life of the event its worker holds.                 *)
LEMMA CustodyDelete ==
  ASSUME Inv1, Custody, NEW w \in Workers, Delete(w)
  PROVE  Custody'
<1> USE PoolAssumption DEF Inv1, TypeOK, Threads, Goto
<1> DEFINE e == curEvent[w]
<1>1. e \in Events
  BY DEF Delete, PointersInScope
<1>2. HeldBy(w, e)
  BY DEF HeldBy
<1>3. /\ ~HeldByMain(e) /\ ~Waiting(e)
      /\ \A v \in Workers : HeldBy(v, e) => v = w
  BY <1>1, <1>2 DEF Custody, NoSharing
<1>4. \A x \in Events : (HeldByMain(x)' <=> HeldByMain(x))
                        /\ (Waiting(x)' <=> Waiting(x))
  BY DEF Delete, HeldByMain, Waiting
<1>5. \A x \in Events, v \in Workers :
         HeldBy(v, x)' <=> v # w /\ HeldBy(v, x)
  BY DEF Delete, HeldBy
<1>6. NoDuplicates'
  BY DEF Delete, Custody, NoDuplicates
<1>7. NoSharing'
  BY <1>4, <1>5 DEF Custody, NoSharing
<1>8. LiveIffHeld'
  <2> SUFFICES ASSUME NEW x \in Events
               PROVE  heap'[x] = "live" <=>
                        HeldByMain(x)' \/ Waiting(x)'
                          \/ \E v \in Workers : HeldBy(v, x)'
    BY DEF LiveIffHeld
  <2>1. CASE x = e
    BY <1>1, <1>3, <1>4, <1>5, <2>1 DEF Delete
  <2>2. CASE x # e
    <3>1. heap'[x] = heap[x] /\ ~HeldBy(w, x)
      BY <1>1, <2>2 DEF Delete, HeldBy
    <3> QED BY <1>4, <1>5, <3>1 DEF Custody, LiveIffHeld
  <2> QED BY <2>1, <2>2
<1> QED BY <1>6, <1>7, <1>8 DEF Custody

LEMMA CustodyStep ==
  ASSUME Inv1, Custody, [Next]_vars
  PROVE  Custody'
<1> USE PoolAssumption DEF Inv1, TypeOK, Threads, Goto
<1>1. CASE Report
  BY <1>1, CustodyReport
<1>2. CASE AppendPush
  BY <1>2, CustodyPush
<1>3. CASE AppendLock \/ AppendUnlock \/ AppendPost
  BY <1>3, CustodyFrame DEF AppendLock, AppendUnlock, AppendPost, HeldByMain
<1>4. ASSUME NEW w \in Workers, SemWait(w) \/ Lock(w) \/ Unlock(w) \/ Process(w)
      PROVE  Custody'
  BY <1>4, CustodyFrame DEF SemWait, Lock, Unlock, Process, HeldByMain
<1>5. ASSUME NEW w \in Workers, Pop(w) PROVE Custody'
  BY <1>5, CustodyPop
<1>6. ASSUME NEW w \in Workers, Delete(w) PROVE Custody'
  BY <1>6, CustodyDelete
<1>7. CASE UNCHANGED vars
  BY <1>7, CustodyFrame DEF vars, HeldByMain
<1> QED
  BY <1>1, <1>2, <1>3, <1>4, <1>5, <1>6, <1>7 DEF Next, MainNext, WorkerNext

(* No event object is lost, processed twice or by two workers, or used     *)
(* after its delete, whatever the number of workers and events.            *)
THEOREM EventsInCustody == Spec => []Custody
<1>1. Inv1 /\ Custody /\ [Next]_vars => Custody'
  BY CustodyStep
<1> QED BY CustodyInit, <1>1, Inv1Holds, PTL DEF Spec
-----------------------------------------------------------------------------
(***************************************************************************)
(* Part 4: the pool implements the abstract hand-over.                     *)
(***************************************************************************)
LEMMA QueueStep ==
  ASSUME Inv1, Custody, [Next]_vars
  PROVE  [Queue!Next]_(Queue!eqVars)
<1> USE PoolAssumption DEF Inv1, TypeOK, Threads, Goto
<1> DEFINE freed == {e \in Events : heap[e] = "freed"}
<1>1. CASE Report
  <2>1. freed' = freed
    BY <1>1 DEF Report
  <2> QED BY <1>1, <2>1 DEF Report, Queue!eqVars
<1>2. CASE AppendPush
  <2>1. event \in Events /\ HeldByMain(event)
    BY <1>2 DEF AppendPush, PointersInScope, HeldByMain
  <2>2. ~Waiting(event) /\ \A w \in Workers : ~HeldBy(w, event)
    BY <2>1 DEF Custody, NoSharing
  <2>3. heap[event] = "live"
    BY <2>1 DEF Custody, LiveIffHeld
  <2>4. Queue!IsNew(event)
    BY <2>2, <2>3 DEF Queue!IsNew, Waiting, HeldBy
  <2>5. Queue!Hand(event)
    BY <1>2, <2>4 DEF AppendPush, Queue!Hand
  <2> QED BY <2>1, <2>5 DEF Queue!Next
<1>3. CASE AppendLock \/ AppendUnlock \/ AppendPost
  BY <1>3 DEF AppendLock, AppendUnlock, AppendPost, Queue!eqVars
<1>4. ASSUME NEW w \in Workers, SemWait(w) \/ Lock(w) \/ Unlock(w) \/ Process(w)
      PROVE  UNCHANGED Queue!eqVars
  BY <1>4 DEF SemWait, Lock, Unlock, Process, Queue!eqVars
<1>5. ASSUME NEW w \in Workers, Pop(w) PROVE Queue!Take(w)
  <2>1. m_workQueue # <<>> /\ curEvent[w] = NULL
    BY <1>5, ClaimMeansEvent DEF Pop, PointersInScope
  <2> QED BY <1>5, <2>1 DEF Pop, Queue!Take
<1>6. ASSUME NEW w \in Workers, Delete(w) PROVE Queue!Finish(w)
  <2>1. curEvent[w] \in Events /\ curEvent[w] # NULL
    BY <1>6 DEF Delete, PointersInScope
  <2>2. freed' = freed \cup {curEvent[w]}
    BY <1>6, <2>1 DEF Delete
  <2> QED BY <1>6, <2>1, <2>2 DEF Delete, Queue!Finish
<1>7. CASE UNCHANGED vars
  BY <1>7 DEF vars, Queue!eqVars
<1> QED
  BY <1>1, <1>2, <1>3, <1>4, <1>5, <1>6, <1>7
  DEF Next, MainNext, WorkerNext, Queue!Next

(* Every behaviour of the pool is one of the abstract queue: first come,   *)
(* first served, each event to one worker, none after its delete.          *)
THEOREM PoolRefinesQueue == Spec => ImplementsEventQueue
<1>1. Init => Queue!Init
  BY DEF Init, Queue!Init
<1>2. Inv1 /\ Custody /\ [Next]_vars => [Queue!Next]_(Queue!eqVars)
  BY QueueStep
<1> QED
  BY <1>1, <1>2, Inv1Holds, EventsInCustody, PTL
  DEF Spec, ImplementsEventQueue, Queue!Spec
=============================================================================
