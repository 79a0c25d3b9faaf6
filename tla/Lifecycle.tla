----------------------------- MODULE Lifecycle -----------------------------
(***************************************************************************)
(* The life of the process: main (main.cpp), the constructor of the pool   *)
(* with its ways to fail (threadpool/threadpool.cpp 3-38), the steps that  *)
(* make the listening socket and the epoll instance, the loop of waitEpoll *)
(* with isStop, and the signals (fileserver/fileserver.cpp).               *)
(*                                                                         *)
(* An event is a report of the listening socket and a handler one step,    *)
(* during which its thread is "serving"; module Reactor has the rest.      *)
(*                                                                         *)
(* main installs no signal handler.  Handled is {} for main as it is, and  *)
(* {2, 14, 15} for a caller that uses addHandleSig() before the loop.      *)
(* epollAddEventPipe does not appear: socketpair knows no TCP for PF_UNIX, *)
(* it always returns -1, and eventHandlerPipe stays {-1, -1}.              *)
(***************************************************************************)
EXTENDS Integers

CONSTANTS
  ThreadNum,   (* the number of workers *)
  Signals,     (* the signals that may come, by number; the default of each *)
               (* is to end the process                                     *)
  Handled,     (* those that addHandleSig installs setSigHandler for *)
  MaxArrivals, (* bound: how many connections arrive *)
  MaxSignals   (* bound: how many signals come *)

ASSUME LifecycleAssumption ==
  /\ ThreadNum \in Nat \ {0}
  /\ Signals \subseteq 1..31 /\ Handled \subseteq Signals
  /\ MaxArrivals \in Nat /\ MaxSignals \in Nat

Threads == 1..ThreadNum

VARIABLES
  mpc,        (* the next step of the main thread, or how the process ended *)
  exitCode,   (* what main returned; 1 as long as it has not *)
  pool,       (* the ThreadPool: "none", "live", or "freed" by a failed constructor *)
  threadPool, (* the member of WebServer: "unset" (any value), or "pool" *)
  created,    (* how many threads the constructor has created *)
  thread,     (* thread[i]: "none", "waiting" (sem_wait), "serving" or "ended" *)
  queued,     (* how many events wait in the pool *)
  listening,  (* the listening socket takes connections *)
  registered, (* epoll watches it *)
  ready,      (* the socket has an edge that epoll has not reported yet *)
  isStop,
  handlers,   (* the signals that have a handler *)
  arrivals, signals  (* how many have come (bounds) *)

poolVars == <<pool, threadPool, created, thread, queued>>
socketVars == <<listening, registered, ready>>
stopVars == <<isStop, handlers>>
bounds == <<arrivals, signals>>
vars == <<mpc, exitCode, poolVars, socketVars, stopVars, bounds>>

Init ==
  /\ mpc = "pool" /\ exitCode = 1
  /\ pool = "none" /\ threadPool = "unset"
  /\ created = 0 /\ thread = [i \in Threads |-> "none"] /\ queued = 0
  /\ listening = FALSE /\ registered = FALSE /\ ready = FALSE
  /\ isStop = FALSE /\ handlers = {}
  /\ arrivals = 0 /\ signals = 0

Ended == {"exited", "killed", "crashed"}
Loop == {"test", "wait", "dispatch"}
Running == {i \in Threads : thread[i] \in {"waiting", "serving"}}

Goto(step) == mpc' = step /\ UNCHANGED exitCode
Exit(code) == mpc' = "exited" /\ exitCode' = code

(* A call succeeds, and main goes on, or main returns the step's own code. *)
OrExit(step, code) == Goto(step) \/ Exit(code)

(***************************************************************************)
(* main, up to the loop.                                                   *)
(***************************************************************************)

(* ThreadPool::ThreadPool: the mutex and the semaphore. *)
ConstructPool ==
  /\ mpc = "pool"
  /\ \/ pool' = "live" /\ Goto("threads")
     \/ pool' = "freed" /\ Goto("caught")
  /\ UNCHANGED <<threadPool, created, thread, queued, socketVars, stopVars, bounds>>

(* Slip: one thread too many. *)
MoreThreadsThanRoom == created <= ThreadNum

MoreThreads == created < ThreadNum

(* pthread_create and pthread_detach.  When either fails the object is     *)
(* freed, and the threads that run already keep using it.                  *)
CreateThread ==
  /\ mpc = "threads" /\ MoreThreads
  /\ \/ /\ created' = created + 1
        /\ thread' = [thread EXCEPT ![created + 1] = "waiting"]
        /\ \/ UNCHANGED <<mpc, pool>>
           \/ pool' = "freed" /\ mpc' = "caught"
     \/ /\ pool' = "freed" /\ mpc' = "caught"
        /\ UNCHANGED <<created, thread>>
  /\ UNCHANGED <<exitCode, threadPool, queued, socketVars, stopVars, bounds>>

PoolCreated ==
  /\ mpc = "threads" /\ ~MoreThreads
  /\ threadPool' = "pool"
  /\ Goto("listen")
  /\ UNCHANGED <<pool, created, thread, queued, socketVars, stopVars, bounds>>

(* After the catch the member is compared with nullptr, but nothing has    *)
(* ever set it: the failure is noticed or not.                             *)
PoolFailed ==
  /\ mpc = "caught"
  /\ OrExit("listen", -1)
  /\ UNCHANGED <<poolVars, socketVars, stopVars, bounds>>

(* Slip: the result of createListenFd is not tested. *)
ListenUntested ==
  /\ mpc = "listen"
  /\ listening' \in BOOLEAN
  /\ Goto("epoll")
  /\ UNCHANGED <<poolVars, registered, ready, stopVars, bounds>>

(* createListenFd: socket, setsockopt, bind, listen. *)
CreateListenFd ==
  /\ mpc = "listen"
  /\ OrExit("epoll", -2)
  /\ listening' = (mpc' = "epoll")
  /\ UNCHANGED <<poolVars, registered, ready, stopVars, bounds>>

CreateEpoll ==
  /\ mpc = "epoll"
  /\ OrExit("add", -3)
  /\ UNCHANGED <<poolVars, socketVars, stopVars, bounds>>

(* Slip: the result of addWaitFd is not tested. *)
AddUntested ==
  /\ mpc = "add"
  /\ registered' \in BOOLEAN
  /\ Goto("handle")
  /\ UNCHANGED <<poolVars, listening, ready, stopVars, bounds>>

(* epollAddListenFd; what setNonBlocking returns is not looked at.  epoll  *)
(* reports what has arrived before, too: ready is kept.                    *)
EpollAddListenFd ==
  /\ mpc = "add"
  /\ OrExit("handle", -4)
  /\ registered' = (mpc' = "handle")
  /\ UNCHANGED <<poolVars, listening, ready, stopVars, bounds>>

(* addHandleSig; it fails for no signal that may be handled. *)
AddHandleSig ==
  /\ mpc = "handle"
  /\ handlers' = Handled
  /\ Goto("start")
  /\ UNCHANGED <<poolVars, socketVars, isStop, bounds>>

(***************************************************************************)
(* waitEpoll.                                                              *)
(***************************************************************************)

(* A stop that has come before is forgotten. *)
StartLoop ==
  /\ mpc = "start"
  /\ isStop' = FALSE
  /\ Goto("test")
  /\ UNCHANGED <<poolVars, socketVars, handlers, bounds>>

(* Slip: isStop is reset at the top of the loop. *)
TestAfterReset ==
  /\ mpc = "test"
  /\ isStop' = FALSE
  /\ Goto("wait")
  /\ UNCHANGED <<poolVars, socketVars, handlers, bounds>>

TestStop ==
  /\ mpc = "test"
  /\ IF isStop THEN Exit(0) ELSE Goto("wait")
  /\ UNCHANGED <<poolVars, socketVars, stopVars, bounds>>

(* epoll_wait reports the edge of the listening socket. *)
WaitReports ==
  /\ mpc = "wait" /\ registered /\ ready
  /\ ready' = FALSE
  /\ Goto("dispatch")
  /\ UNCHANGED <<poolVars, listening, registered, stopVars, bounds>>

(* epoll_wait fails, for another reason than a signal. *)
WaitFails ==
  /\ mpc = "wait"
  /\ Exit(-5)
  /\ UNCHANGED <<poolVars, socketVars, stopVars, bounds>>

(* appendEvent; on an object that was never made anything may happen.      *)
Dispatch ==
  /\ mpc = "dispatch"
  /\ IF threadPool = "pool"
       THEN queued' = queued + 1 /\ Goto("test")
       ELSE UNCHANGED queued /\ Goto("crashed")
  /\ UNCHANGED <<pool, threadPool, created, thread, socketVars, stopVars, bounds>>

(***************************************************************************)
(* The workers, the network and the signals.                               *)
(***************************************************************************)
Take(i) ==
  /\ thread[i] = "waiting" /\ pool = "live" /\ queued > 0
  /\ thread' = [thread EXCEPT ![i] = "serving"]
  /\ queued' = queued - 1
  /\ UNCHANGED <<mpc, exitCode, pool, threadPool, created, socketVars, stopVars, bounds>>

(* Slip: the worker returns instead of waiting for the next event. *)
FinishReturns(i) ==
  /\ thread[i] = "serving"
  /\ thread' = [thread EXCEPT ![i] = "ended"]
  /\ UNCHANGED <<mpc, exitCode, pool, threadPool, created, queued, socketVars, stopVars, bounds>>

Finish(i) ==
  /\ thread[i] = "serving"
  /\ thread' = [thread EXCEPT ![i] = "waiting"]
  /\ UNCHANGED <<mpc, exitCode, pool, threadPool, created, queued, socketVars, stopVars, bounds>>

(* A thread that waits for the semaphore of a freed object may do anything. *)
UseFreed(i) ==
  /\ i \in Running /\ pool = "freed"
  /\ Goto("crashed")
  /\ UNCHANGED <<poolVars, socketVars, stopVars, bounds>>

Arrive ==
  /\ listening /\ arrivals < MaxArrivals
  /\ arrivals' = arrivals + 1
  /\ ready' = TRUE
  /\ UNCHANGED <<mpc, exitCode, poolVars, listening, registered, stopVars, signals>>

(* (signo & SIGINT) | (signo & SIGTERM): a bit of 15 is set.  It is for    *)
(* SIGALRM, too, and for every signal but SIGSTKFLT.                       *)
StopSignal(signo) == signo % 16 # 0

Comes ==
  /\ signals < MaxSignals
  /\ signals' = signals + 1
  /\ UNCHANGED <<arrivals, socketVars, handlers>>

Kill(signo) ==
  /\ signo \notin handlers
  /\ Comes
  /\ Goto("killed")
  /\ UNCHANGED <<poolVars, isStop>>

(* setSigHandler in the main thread: epoll_wait returns EINTR.             *)
InterruptMain(signo) ==
  /\ signo \in handlers
  /\ Comes
  /\ isStop' = (isStop \/ StopSignal(signo))
  /\ Goto(IF mpc = "wait" THEN "test" ELSE mpc)
  /\ UNCHANGED poolVars

(* setSigHandler in a worker: sem_wait returns -1, and the worker returns  *)
(* for good; a worker that is serving goes on.                             *)
InterruptWorker(i, signo) ==
  /\ signo \in handlers /\ i \in Running
  /\ Comes
  /\ isStop' = (isStop \/ StopSignal(signo))
  /\ thread' = [thread EXCEPT ![i] = IF @ = "waiting" THEN "ended" ELSE @]
  /\ UNCHANGED <<mpc, exitCode, pool, threadPool, created, queued>>

(* AddHandleSig is the step of a caller that installs handlers; main.cpp   *)
(* has none, and with Handled = {} the step only goes on.                  *)
MainNext == ConstructPool \/ CreateThread \/ PoolCreated \/ PoolFailed
            \/ CreateListenFd \/ CreateEpoll \/ EpollAddListenFd \/ AddHandleSig
            \/ StartLoop \/ TestStop \/ WaitReports \/ Dispatch

WorkerNext(i) == Take(i) \/ Finish(i) \/ UseFreed(i)

Signal(signo) == Kill(signo) \/ InterruptMain(signo)
                 \/ \E i \in Threads : InterruptWorker(i, signo)

Next ==
  /\ mpc \notin Ended
  /\ \/ MainNext \/ WaitFails \/ Arrive
     \/ \E i \in Threads : WorkerNext(i)
     \/ \E signo \in Signals : Signal(signo)

Spec == Init /\ [][Next]_vars

(* The main thread runs; nothing else has to. *)
FairSpec == Spec /\ WF_vars(mpc \notin Ended /\ MainNext)
-----------------------------------------------------------------------------
(***************************************************************************)
(* Properties.                                                             *)
(***************************************************************************)

(* Every variable keeps its type, and main has returned a code exactly     *)
(* when it has returned.                                                   *)
TypeOK ==
  /\ mpc \in {"pool", "threads", "caught", "listen", "epoll", "add", "handle", "start"}
            \cup Loop \cup Ended
  /\ exitCode \in (-5)..1 /\ (exitCode = 1 <=> mpc # "exited")
  /\ pool \in {"none", "live", "freed"} /\ threadPool \in {"unset", "pool"}
  /\ created \in 0..ThreadNum
  /\ thread \in [Threads -> {"none", "waiting", "serving", "ended"}]
  /\ queued \in Nat
  /\ listening \in BOOLEAN /\ registered \in BOOLEAN /\ ready \in BOOLEAN
  /\ isStop \in BOOLEAN /\ handlers \in SUBSET Signals
  /\ arrivals \in 0..MaxArrivals /\ signals \in 0..MaxSignals

(* Whatever fails on the way, a server that has come to its loop has a     *)
(* socket that listens and that epoll watches, and its pool, when it has   *)
(* one, has all its threads: only a pool that could not be made may be     *)
(* missing, and only its workers may use freed memory.                     *)
LoopHasAll ==
  /\ mpc \in Loop \cup {"handle", "start"} => listening /\ registered
  /\ threadPool = "pool" =>
       pool = "live" /\ \A i \in Threads : thread[i] # "none"
  /\ mpc \in Loop /\ threadPool = "unset" => pool = "freed"

(* No worker is lost, and no code of main is returned, but for a reason:   *)
(* a worker ends by a signal that is handled, and main returns 0 only      *)
(* after a stop.                                                           *)
EndsForAReason ==
  /\ (\E i \in Threads : thread[i] = "ended") => handlers # {} /\ signals > 0
  /\ exitCode = 0 => isStop /\ signals > 0

(* A stop that comes while the loop runs is heard when the next connection *)
(* is reported, at the latest.                                             *)
StopAtNextReport == (isStop /\ mpc \in Loop /\ ready) ~> mpc \in Ended

(* Every connection is reported, also one that has come before epoll       *)
(* watched the socket, or while a signal interrupted the wait.             *)
ArrivalsReported == ready ~> (~ready \/ mpc \in Ended)
=============================================================================
