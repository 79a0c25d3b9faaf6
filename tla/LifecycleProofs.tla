-------------------------- MODULE LifecycleProofs --------------------------
(***************************************************************************)
(* Proofs about module Lifecycle, for any number of workers, any set of    *)
(* signals, and whichever of them are handled.                             *)
(***************************************************************************)
EXTENDS Lifecycle, TLAPS

(***************************************************************************)
(* What main has done by each of its steps.  The properties follow from    *)
(* it, and it is inductive together with the types.                        *)
(***************************************************************************)
WithoutPool == {"pool", "threads", "caught"}
Listening == {"epoll", "add", "handle", "start"} \cup Loop
Watching == {"handle", "start"} \cup Loop

(* The threads are created in order, and the pool is known to main exactly *)
(* when all of them have been.                                             *)
PoolMade ==
  /\ \A i \in Threads : thread[i] # "none" <=> i <= created
  /\ mpc = "threads" => pool = "live"
  /\ mpc = "caught" => pool = "freed"
  /\ mpc \in WithoutPool => threadPool = "unset"
  /\ threadPool = "pool" => pool = "live" /\ created = ThreadNum
  /\ mpc \in Listening \cup {"listen"} /\ threadPool = "unset" => pool = "freed"

SocketMade ==
  /\ mpc \in Listening => listening
  /\ mpc \in Watching => registered

(* Signals are handled only from the step before the loop on; nothing      *)
(* else ends a worker, or asks for a stop.                                 *)
SignalsFirst ==
  /\ mpc \in WithoutPool \cup {"listen", "epoll", "add", "handle"} => handlers = {}
  /\ (\E i \in Threads : thread[i] = "ended") => handlers # {} /\ signals > 0
  /\ isStop => signals > 0
  /\ exitCode = 0 => isStop

Inv == TypeOK /\ PoolMade /\ SocketMade /\ SignalsFirst

LEMMA InvInit == Init => Inv
<1> SUFFICES ASSUME Init PROVE Inv
  OBVIOUS
<1> USE LifecycleAssumption DEF Init, Threads, Loop
<1>1. TypeOK
  <2>1. thread \in [Threads -> {"none", "waiting", "serving", "ended"}]
    OBVIOUS
  <2>2. exitCode \in (-5)..1 /\ (exitCode = 1 <=> mpc # "exited")
    OBVIOUS
  <2>3. created \in 0..ThreadNum /\ arrivals \in 0..MaxArrivals /\ signals \in 0..MaxSignals
    OBVIOUS
  <2>4. isStop \in BOOLEAN /\ handlers \in SUBSET Signals /\ queued \in Nat
    OBVIOUS
  <2>5. listening \in BOOLEAN /\ registered \in BOOLEAN /\ ready \in BOOLEAN
    OBVIOUS
  <2> QED BY <2>1, <2>2, <2>3, <2>4, <2>5 DEF TypeOK, Ended
<1>2. PoolMade BY DEF PoolMade, WithoutPool, Listening
<1>3. SocketMade BY DEF SocketMade, Listening, Watching
<1>4. SignalsFirst BY DEF SignalsFirst, WithoutPool
<1> QED BY <1>1, <1>2, <1>3, <1>4 DEF Inv

(* Steps of main up to the loop. *)
LEMMA StartStep ==
  ASSUME Inv, mpc \notin Ended,
         ConstructPool \/ CreateThread \/ PoolCreated \/ PoolFailed
         \/ CreateListenFd \/ CreateEpoll \/ EpollAddListenFd \/ AddHandleSig
  PROVE  Inv'
<1> USE LifecycleAssumption DEF Inv, TypeOK, Threads, Loop, Ended, Goto
<1>1. CASE ConstructPool
  <2>1. TypeOK' BY <1>1 DEF ConstructPool, socketVars, stopVars, bounds
  <2>2. PoolMade'
    BY <1>1 DEF ConstructPool, socketVars, stopVars, bounds, PoolMade,
       WithoutPool, Listening
  <2>3. SocketMade'
    BY <1>1 DEF ConstructPool, socketVars, stopVars, bounds, SocketMade,
       Listening, Watching
  <2>4. SignalsFirst'
    BY <1>1 DEF ConstructPool, socketVars, stopVars, bounds, SignalsFirst,
       WithoutPool
  <2> QED BY <2>1, <2>2, <2>3, <2>4
<1>2. CASE CreateThread
  <2>1. TypeOK'
    BY <1>2 DEF CreateThread, MoreThreads, socketVars, stopVars, bounds
  <2>2. PoolMade'
    BY <1>2 DEF CreateThread, MoreThreads, socketVars, stopVars, bounds,
       PoolMade, WithoutPool, Listening
  <2>3. SocketMade'
    BY <1>2 DEF CreateThread, MoreThreads, socketVars, stopVars, bounds,
       SocketMade, Listening, Watching
  <2>4. SignalsFirst'
    BY <1>2 DEF CreateThread, MoreThreads, socketVars, stopVars, bounds,
       SignalsFirst, WithoutPool
  <2> QED BY <2>1, <2>2, <2>3, <2>4
<1>3. CASE PoolCreated
  <2>1. TypeOK'
    BY <1>3 DEF PoolCreated, MoreThreads, socketVars, stopVars, bounds
  <2>2. PoolMade'
    BY <1>3 DEF PoolCreated, MoreThreads, socketVars, stopVars, bounds, PoolMade,
       WithoutPool, Listening
  <2>3. SocketMade'
    BY <1>3 DEF PoolCreated, MoreThreads, socketVars, stopVars, bounds,
       SocketMade, Listening, Watching
  <2>4. SignalsFirst'
    BY <1>3 DEF PoolCreated, MoreThreads, socketVars, stopVars, bounds,
       SignalsFirst, WithoutPool
  <2> QED BY <2>1, <2>2, <2>3, <2>4
<1>4. CASE PoolFailed
  <2>1. TypeOK'
    BY <1>4 DEF PoolFailed, OrExit, Exit, poolVars, socketVars, stopVars, bounds
  <2>2. PoolMade'
    BY <1>4 DEF PoolFailed, OrExit, Exit, poolVars, socketVars, stopVars, bounds,
       PoolMade, WithoutPool, Listening
  <2>3. SocketMade'
    BY <1>4 DEF PoolFailed, OrExit, Exit, poolVars, socketVars, stopVars, bounds,
       SocketMade, Listening, Watching
  <2>4. SignalsFirst'
    BY <1>4 DEF PoolFailed, OrExit, Exit, poolVars, socketVars, stopVars, bounds,
       SignalsFirst, WithoutPool
  <2> QED BY <2>1, <2>2, <2>3, <2>4
<1>5. CASE CreateListenFd
  <2>1. TypeOK'
    BY <1>5 DEF CreateListenFd, OrExit, Exit, poolVars, stopVars, bounds
  <2>2. PoolMade'
    BY <1>5 DEF CreateListenFd, OrExit, Exit, poolVars, stopVars, bounds,
       PoolMade, WithoutPool, Listening
  <2>3. SocketMade'
    BY <1>5 DEF CreateListenFd, OrExit, Exit, poolVars, stopVars, bounds,
       SocketMade, Listening, Watching
  <2>4. SignalsFirst'
    BY <1>5 DEF CreateListenFd, OrExit, Exit, poolVars, stopVars, bounds,
       SignalsFirst, WithoutPool
  <2> QED BY <2>1, <2>2, <2>3, <2>4
<1>6. CASE CreateEpoll
  <2>1. TypeOK'
    BY <1>6 DEF CreateEpoll, OrExit, Exit, poolVars, socketVars, stopVars, bounds
  <2>2. PoolMade'
    BY <1>6 DEF CreateEpoll, OrExit, Exit, poolVars, socketVars, stopVars,
       bounds, PoolMade, WithoutPool, Listening
  <2>3. SocketMade'
    BY <1>6 DEF CreateEpoll, OrExit, Exit, poolVars, socketVars, stopVars,
       bounds, SocketMade, Listening, Watching
  <2>4. SignalsFirst'
    BY <1>6 DEF CreateEpoll, OrExit, Exit, poolVars, socketVars, stopVars,
       bounds, SignalsFirst, WithoutPool
  <2> QED BY <2>1, <2>2, <2>3, <2>4
<1>7. CASE EpollAddListenFd
  <2>1. TypeOK'
    BY <1>7 DEF EpollAddListenFd, OrExit, Exit, poolVars, stopVars, bounds
  <2>2. PoolMade'
    BY <1>7 DEF EpollAddListenFd, OrExit, Exit, poolVars, stopVars, bounds,
       PoolMade, WithoutPool, Listening
  <2>3. SocketMade'
    BY <1>7 DEF EpollAddListenFd, OrExit, Exit, poolVars, stopVars, bounds,
       SocketMade, Listening, Watching
  <2>4. SignalsFirst'
    BY <1>7 DEF EpollAddListenFd, OrExit, Exit, poolVars, stopVars, bounds,
       SignalsFirst, WithoutPool
  <2> QED BY <2>1, <2>2, <2>3, <2>4
<1>8. CASE AddHandleSig
  <2>1. TypeOK' BY <1>8 DEF AddHandleSig, poolVars, socketVars, bounds
  <2>2. PoolMade'
    BY <1>8 DEF AddHandleSig, poolVars, socketVars, bounds, PoolMade,
       WithoutPool, Listening
  <2>3. SocketMade'
    BY <1>8 DEF AddHandleSig, poolVars, socketVars, bounds, SocketMade,
       Listening, Watching
  <2>4. SignalsFirst'
    BY <1>8 DEF AddHandleSig, poolVars, socketVars, bounds, SignalsFirst,
       WithoutPool
  <2> QED BY <2>1, <2>2, <2>3, <2>4
<1> QED BY <1>1, <1>2, <1>3, <1>4, <1>5, <1>6, <1>7, <1>8

(* Steps of the loop, and connections. *)
LEMMA LoopStep ==
  ASSUME Inv, mpc \notin Ended,
         StartLoop \/ TestStop \/ WaitReports \/ WaitFails \/ Dispatch \/ Arrive
  PROVE  Inv'
<1> USE LifecycleAssumption DEF Inv, TypeOK, Threads, Loop, Ended, Goto
<1>1. CASE StartLoop
  <2>1. TypeOK' BY <1>1 DEF StartLoop, poolVars, socketVars, bounds
  <2>2. PoolMade'
    BY <1>1 DEF StartLoop, poolVars, socketVars, bounds, PoolMade, WithoutPool,
       Listening
  <2>3. SocketMade'
    BY <1>1 DEF StartLoop, poolVars, socketVars, bounds, SocketMade, Listening,
       Watching
  <2>4. SignalsFirst'
    BY <1>1 DEF StartLoop, poolVars, socketVars, bounds, SignalsFirst, WithoutPool
  <2> QED BY <2>1, <2>2, <2>3, <2>4
<1>2. CASE TestStop
  <2>1. TypeOK'
    BY <1>2 DEF TestStop, Exit, poolVars, socketVars, stopVars, bounds
  <2>2. PoolMade'
    BY <1>2 DEF TestStop, Exit, poolVars, socketVars, stopVars, bounds, PoolMade,
       WithoutPool, Listening
  <2>3. SocketMade'
    BY <1>2 DEF TestStop, Exit, poolVars, socketVars, stopVars, bounds,
       SocketMade, Listening, Watching
  <2>4. SignalsFirst'
    BY <1>2 DEF TestStop, Exit, poolVars, socketVars, stopVars, bounds,
       SignalsFirst, WithoutPool
  <2> QED BY <2>1, <2>2, <2>3, <2>4
<1>3. CASE WaitReports
  <2>1. TypeOK' BY <1>3 DEF WaitReports, poolVars, stopVars, bounds
  <2>2. PoolMade'
    BY <1>3 DEF WaitReports, poolVars, stopVars, bounds, PoolMade, WithoutPool,
       Listening
  <2>3. SocketMade'
    BY <1>3 DEF WaitReports, poolVars, stopVars, bounds, SocketMade, Listening,
       Watching
  <2>4. SignalsFirst'
    BY <1>3 DEF WaitReports, poolVars, stopVars, bounds, SignalsFirst, WithoutPool
  <2> QED BY <2>1, <2>2, <2>3, <2>4
<1>4. CASE WaitFails
  <2>1. TypeOK'
    BY <1>4 DEF WaitFails, Exit, poolVars, socketVars, stopVars, bounds
  <2>2. PoolMade'
    BY <1>4 DEF WaitFails, Exit, poolVars, socketVars, stopVars, bounds,
       PoolMade, WithoutPool, Listening
  <2>3. SocketMade'
    BY <1>4 DEF WaitFails, Exit, poolVars, socketVars, stopVars, bounds,
       SocketMade, Listening, Watching
  <2>4. SignalsFirst'
    BY <1>4 DEF WaitFails, Exit, poolVars, socketVars, stopVars, bounds,
       SignalsFirst, WithoutPool
  <2> QED BY <2>1, <2>2, <2>3, <2>4
<1>5. CASE Dispatch
  <2>1. TypeOK' BY <1>5 DEF Dispatch, socketVars, stopVars, bounds
  <2>2. PoolMade'
    BY <1>5 DEF Dispatch, socketVars, stopVars, bounds, PoolMade, WithoutPool,
       Listening
  <2>3. SocketMade'
    BY <1>5 DEF Dispatch, socketVars, stopVars, bounds, SocketMade, Listening,
       Watching
  <2>4. SignalsFirst'
    BY <1>5 DEF Dispatch, socketVars, stopVars, bounds, SignalsFirst, WithoutPool
  <2> QED BY <2>1, <2>2, <2>3, <2>4
<1>6. CASE Arrive
  <2>1. TypeOK' BY <1>6 DEF Arrive, poolVars, stopVars
  <2>2. PoolMade'
    BY <1>6 DEF Arrive, poolVars, stopVars, PoolMade, WithoutPool, Listening
  <2>3. SocketMade'
    BY <1>6 DEF Arrive, poolVars, stopVars, SocketMade, Listening, Watching
  <2>4. SignalsFirst'
    BY <1>6 DEF Arrive, poolVars, stopVars, SignalsFirst, WithoutPool
  <2> QED BY <2>1, <2>2, <2>3, <2>4
<1> QED BY <1>1, <1>2, <1>3, <1>4, <1>5, <1>6

(* Steps of the workers. *)
LEMMA WorkerStep ==
  ASSUME Inv, mpc \notin Ended,
         NEW i \in Threads, WorkerNext(i)
  PROVE  Inv'
<1> USE LifecycleAssumption DEF Inv, TypeOK, Threads, Loop, Ended, Goto
<1>1. CASE Take(i)
  <2>1. TypeOK' BY <1>1 DEF Take, socketVars, stopVars, bounds
  <2>2. PoolMade'
    BY <1>1 DEF Take, socketVars, stopVars, bounds, PoolMade, WithoutPool, Listening
  <2>3. SocketMade'
    BY <1>1 DEF Take, socketVars, stopVars, bounds, SocketMade, Listening, Watching
  <2>4. SignalsFirst'
    BY <1>1 DEF Take, socketVars, stopVars, bounds, SignalsFirst, WithoutPool
  <2> QED BY <2>1, <2>2, <2>3, <2>4
<1>2. CASE Finish(i)
  <2>1. TypeOK' BY <1>2 DEF Finish, socketVars, stopVars, bounds
  <2>2. PoolMade'
    BY <1>2 DEF Finish, socketVars, stopVars, bounds, PoolMade, WithoutPool,
       Listening
  <2>3. SocketMade'
    BY <1>2 DEF Finish, socketVars, stopVars, bounds, SocketMade, Listening,
       Watching
  <2>4. SignalsFirst'
    BY <1>2 DEF Finish, socketVars, stopVars, bounds, SignalsFirst, WithoutPool
  <2> QED BY <2>1, <2>2, <2>3, <2>4
<1>3. CASE UseFreed(i)
  <2>1. TypeOK' BY <1>3 DEF UseFreed, poolVars, socketVars, stopVars, bounds
  <2>2. PoolMade'
    BY <1>3 DEF UseFreed, poolVars, socketVars, stopVars, bounds, PoolMade,
       WithoutPool, Listening
  <2>3. SocketMade'
    BY <1>3 DEF UseFreed, poolVars, socketVars, stopVars, bounds, SocketMade,
       Listening, Watching
  <2>4. SignalsFirst'
    BY <1>3 DEF UseFreed, poolVars, socketVars, stopVars, bounds, SignalsFirst,
       WithoutPool
  <2> QED BY <2>1, <2>2, <2>3, <2>4
<1> QED BY <1>1, <1>2, <1>3 DEF WorkerNext

(* Signals. *)
LEMMA SignalStep ==
  ASSUME Inv, mpc \notin Ended,
         NEW signo \in Signals, Signal(signo)
  PROVE  Inv'
<1> USE LifecycleAssumption DEF Inv, TypeOK, Threads, Loop, Ended, Goto
<1>1. CASE Kill(signo)
  <2>1. TypeOK' BY <1>1 DEF Kill, Comes, poolVars, socketVars
  <2>2. PoolMade'
    BY <1>1 DEF Kill, Comes, poolVars, socketVars, PoolMade, WithoutPool, Listening
  <2>3. SocketMade'
    BY <1>1 DEF Kill, Comes, poolVars, socketVars, SocketMade, Listening, Watching
  <2>4. SignalsFirst'
    BY <1>1 DEF Kill, Comes, poolVars, socketVars, SignalsFirst, WithoutPool
  <2> QED BY <2>1, <2>2, <2>3, <2>4
<1>2. CASE InterruptMain(signo)
  <2>1. TypeOK'
    BY <1>2 DEF InterruptMain, StopSignal, Comes, poolVars, socketVars
  <2>2. PoolMade'
    BY <1>2 DEF InterruptMain, StopSignal, Comes, poolVars, socketVars, PoolMade,
       WithoutPool, Listening
  <2>3. SocketMade'
    BY <1>2 DEF InterruptMain, StopSignal, Comes, poolVars, socketVars,
       SocketMade, Listening, Watching
  <2>4. SignalsFirst'
    BY <1>2 DEF InterruptMain, StopSignal, Comes, poolVars, socketVars,
       SignalsFirst, WithoutPool
  <2> QED BY <2>1, <2>2, <2>3, <2>4
<1>3. ASSUME NEW i \in Threads, InterruptWorker(i, signo) PROVE Inv'
  <2>1. TypeOK' BY <1>3 DEF InterruptWorker, StopSignal, Comes, socketVars
  <2>2. PoolMade'
    BY <1>3 DEF InterruptWorker, StopSignal, Comes, socketVars, PoolMade,
       WithoutPool, Listening
  <2>3. SocketMade'
    BY <1>3 DEF InterruptWorker, StopSignal, Comes, socketVars, SocketMade,
       Listening, Watching
  <2>4. SignalsFirst'
    BY <1>3 DEF InterruptWorker, StopSignal, Comes, socketVars, SignalsFirst,
       WithoutPool
  <2> QED BY <2>1, <2>2, <2>3, <2>4
<1> QED BY <1>1, <1>2, <1>3 DEF Signal

LEMMA InvStep == Inv /\ [Next]_vars => Inv'
<1> SUFFICES ASSUME Inv, [Next]_vars PROVE Inv'
  OBVIOUS
<1>1. CASE UNCHANGED vars
  BY <1>1 DEF vars, poolVars, socketVars, stopVars, bounds, Inv, TypeOK,
     PoolMade, SocketMade, SignalsFirst
<1>2. CASE Next
  BY <1>2, StartStep, LoopStep, WorkerStep, SignalStep DEF Next, MainNext
<1> QED BY <1>1, <1>2

THEOREM Invariance == Spec => []Inv
BY InvInit, InvStep, PTL DEF Spec

(* The variables of the process keep their types, and an exit code is      *)
(* there exactly when main has returned.                                   *)
THEOREM TypeCorrect == Spec => []TypeOK
<1>1. Inv => TypeOK BY DEF Inv
<1> QED BY <1>1, Invariance, PTL

(* Whichever steps of main fail, a loop that runs has its socket, its      *)
(* registration, and, if it has a pool, all the threads of it.             *)
THEOREM LoopComplete == Spec => []LoopHasAll
<1>1. Inv => LoopHasAll
  BY LifecycleAssumption
     DEF Inv, TypeOK, PoolMade, SocketMade, LoopHasAll, Listening, Watching, Loop, Threads
<1> QED BY <1>1, Invariance, PTL

(* A worker ends, and main returns 0, only for the signals they are        *)
(* meant to obey.                                                          *)
THEOREM EndsJustified == Spec => []EndsForAReason
<1>1. Inv => EndsForAReason
  BY DEF Inv, SignalsFirst, EndsForAReason
<1> QED BY <1>1, Invariance, PTL
=============================================================================
