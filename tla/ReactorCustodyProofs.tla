------------------------ MODULE ReactorCustodyProofs ------------------------
(***************************************************************************)
(* Proofs that module Reactor keeps every connection in one hand, for any  *)
(* workers.  Part 1 says what a step may do to the descriptors, the        *)
(* registrations and the workers' events; part 2 that only the late closes *)
(* break what HandsKept says is kept.  Module ReactorSoloProofs goes on    *)
(* with a single worker.                                                   *)
(***************************************************************************)
EXTENDS ReactorProofs

(***************************************************************************)
(* Part 1: hands.                                                          *)
(***************************************************************************)
HoldingSteps == {"recvBegin", "recv", "sendBegin", "page", "lost", "send", "sendEnd",
                 "sendRearm"}
Slots == 1..Len(m_workQueue)
InEpoll(fd) == interest[fd] \in {"in", "inout"}
InQueue(i, fd) == i \in Slots /\ m_workQueue[i].fd = fd
InHand(w, fd) == w \in Workers /\ job[w].held /\ job[w].fd = fd

(* Which steps of a handler come before it re-arms or closes the socket.   *)
Phases ==
  \A w \in Workers :
    /\ pc[w] \in HoldingSteps => job[w].held
    /\ pc[w] \in {"complate", "recvErase", "sendTail"} => ~job[w].held
    /\ pc[w] = "idle" => job[w] = NoJob

Registered == \A fd \in Fds : owner[fd] \in Clients <=> interest[fd] # "none"

OneHand ==
  \A fd \in Fds :
    /\ InEpoll(fd) => (\A i : ~InQueue(i, fd)) /\ (\A w : ~InHand(w, fd))
    /\ \A i, j : InQueue(i, fd) /\ InQueue(j, fd) => i = j
    /\ \A i, w : ~(InQueue(i, fd) /\ InHand(w, fd))
    /\ \A v, w : InHand(v, fd) /\ InHand(w, fd) => v = w

Rightful ==
  /\ \A fd \in Fds, i \in Slots : InQueue(i, fd) =>
       m_workQueue[i].conn \in Clients /\ owner[fd] = m_workQueue[i].conn
  /\ \A fd \in Fds, w \in Workers : InHand(w, fd) =>
       job[w].conn \in Clients /\ owner[fd] = job[w].conn

Custody == Phases /\ Registered /\ OneHand /\ Rightful

(* What a worker closes is its own connection or no connection at all.     *)
Tails(w) ==
  LET r == ResponseAt(job[w].fd) IN IF r.bodyType = NONE THEN Leftovers(w) ELSE {r}
ClosesOwn ==
  \A w \in Workers :
    /\ pc[w] = "recvEnd" /\ RequestAt(job[w].fd).status = "ERROR" => job[w].held
    /\ pc[w] = "sendTail" =>
         \A m \in Tails(w) : m.bodyType = "FILE" /\ m.fileMsgFd \in Fds =>
                               owner[m.fileMsgFd] \notin Clients

(* The ways in which a step of worker w can touch descriptors and hands.   *)
SameHands ==
  \A v \in Workers : /\ job'[v].fd = job[v].fd /\ job'[v].conn = job[v].conn
                     /\ job'[v].held = job[v].held
LetsGo(w) == (\A v \in Workers \ {w} : job'[v] = job[v]) /\ ~job'[w].held

Passes == UNCHANGED <<owner, interest>> /\ SameHands
Drops(w) == UNCHANGED <<owner, interest>> /\ LetsGo(w)
Rearms(w) ==
  /\ job[w].held /\ job[w].fd \in Fds /\ LetsGo(w) /\ owner' = owner
  /\ \E events \in {"in", "inout"} : interest' = [interest EXCEPT ![job[w].fd] = events]
Closes(w, f) ==
  /\ IF job[w].held THEN f = job[w].fd ELSE owner[f] \notin Clients
  /\ LetsGo(w)
  /\ owner' = [owner EXCEPT ![f] = "free"] /\ interest' = [interest EXCEPT ![f] = "none"]
Opens(f) ==
  /\ owner[f] = "free" /\ SameHands /\ interest' = interest
  /\ \E use \in {"file", "dir"} : owner' = [owner EXCEPT ![f] = use]
Accepts(w, f, c) ==
  /\ owner[f] = "free" /\ LetsGo(w) /\ job[w].fd = NONE
  /\ owner' = [owner EXCEPT ![f] = c] /\ interest' = [interest EXCEPT ![f] = "in"]

(* When a worker lets go of its event and nothing else takes it.           *)
MayDrop(w) ==
  \/ ~job[w].held \/ job[w].fd = NONE \/ SendNothing(w)
  \/ RecvEnd(w) /\ RequestAt(job[w].fd).status # "ERROR"

Effect(w) ==
  /\ m_workQueue' = m_workQueue
  /\ \/ Passes
     \/ Drops(w) /\ MayDrop(w)
     \/ Rearms(w)
     \/ \E f \in Fds : Closes(w, f) \/ Opens(f)
     \/ \E f \in Fds, c \in Clients : Accepts(w, f, c)

LEMMA ArmedWhenHeld ==
  ASSUME Types, Custody, NEW w \in Workers, job[w].held, job[w].fd \in Fds,
         NEW events
  PROVE  Armed(job[w].fd, events) = [interest EXCEPT ![job[w].fd] = events]
<1>1. owner[job[w].fd] \in Clients
  BY DEF Custody, Rightful, InHand
<1> QED BY <1>1 DEF Armed, Custody, Registered

LEMMA ReturnLetsGo ==
  ASSUME Types, NEW w \in Workers, Return(w)
  PROVE  LetsGo(w)
BY DEF Types, WorkTypes, Return, LetsGo, NoJob

LEMMA ReleasedLetsGo ==
  ASSUME Types, NEW w \in Workers, Released(w)
  PROVE  LetsGo(w)
BY DEF Types, WorkTypes, Jobs, Released, LetsGo

LEMMA HeldSteps ==
  ASSUME Types, Custody, NEW w \in Workers, pc[w] \in HoldingSteps
  PROVE  job[w].held /\ job[w].fd \in Fds
BY DEF Types, WorkTypes, Custody, Phases, HoldingSteps

LEMMA WorkerEffects ==
  ASSUME Types, Custody, NEW w \in Workers, ClosesOwn \/ ~LateClose(w),
         Accept(w) \/ RecvNext(w) \/ SendNext(w)
  PROVE  Effect(w)
<1> DEFINE fd == job[w].fd
<1> USE DEF kernelVars, Goto
<1>1. CASE Accept(w)
  <2>1. fd = NONE /\ LetsGo(w) /\ m_workQueue' = m_workQueue
    BY <1>1, ReturnLetsGo DEF Accept, Types, WorkTypes
  <2>2. CASE FreeFds = {}
    BY <1>1, <2>1, <2>2 DEF Accept, Effect, Drops, MayDrop
  <2>3. CASE FreeFds # {}
    <3>1. LowestFree \in Fds /\ owner[LowestFree] = "free"
      BY <2>3, LowestFreeIsFree DEF FreeFds
    <3>2. Head(backlog) \in Clients
      BY <1>1, HeadTailProperties DEF Accept, Types, AcceptTypes
    <3>3. Accepts(w, LowestFree, Head(backlog))
      BY <1>1, <2>1, <2>3, <3>1 DEF Accept, Accepts, Added
    <3> QED BY <2>1, <3>1, <3>2, <3>3 DEF Effect
  <2> QED BY <2>2, <2>3
<1>2. CASE RecvBegin(w) \/ RecvLost(w) \/ RecvComplate(w)
  BY <1>2 DEF RecvBegin, RecvLost, RecvComplate, Effect, Passes, SameHands
<1>3. CASE RecvPiece(w)
  <2>1. job[w].held /\ fd \in Fds
    BY <1>3, HeldSteps DEF RecvPiece, HoldingSteps
  <2>2. owner' = owner /\ m_workQueue' = m_workQueue
    BY <1>3 DEF RecvPiece
  <2>3. CASE UNCHANGED <<interest, job>>
    BY <2>2, <2>3 DEF Effect, Passes, SameHands
  <2>4. CASE interest' = Armed(fd, "inout") /\ Released(w)
    <3>1. Rearms(w)
      BY <2>1, <2>2, <2>4, ArmedWhenHeld, ReleasedLetsGo DEF Rearms
    <3> QED BY <2>2, <3>1 DEF Effect
  <2> QED BY <1>3, <2>3, <2>4 DEF RecvPiece
<1>4. CASE RecvEnd(w)
  <2>1. fd \in Fds /\ m_workQueue' = m_workQueue
    BY <1>4 DEF RecvEnd, Types, WorkTypes
  <2>2. CASE RequestAt(fd).status = "ERROR"
    <3>1. /\ Closed(fd) /\ Released(w) /\ pc[w] = "recvEnd"
          /\ pc' = [pc EXCEPT ![w] = "recvErase"]
      BY <1>4, <2>2 DEF RecvEnd
    <3>2. job[w].held \/ owner[fd] \notin Clients
      <4>1. owner'[fd] = "free" /\ pc'[w] # pc[w]
        BY <2>1, <3>1 DEF Closed, Types, KernelTypes, WorkTypes
      <4> QED BY <2>1, <2>2, <3>1, <4>1 DEF ClosesOwn, LateClose
    <3>3. Closes(w, fd)
      BY <3>1, <3>2, ReleasedLetsGo DEF Closed, Closes
    <3> QED BY <2>1, <3>3 DEF Effect
  <2>3. CASE RequestAt(fd).status # "ERROR"
    <3>1. UNCHANGED <<owner, interest>> /\ LetsGo(w)
      BY <1>4, <2>3, ReturnLetsGo DEF RecvEnd
    <3> QED BY <1>4, <2>1, <2>3, <3>1 DEF Effect, Drops, MayDrop
  <2> QED BY <2>2, <2>3
<1>5. CASE RecvErase(w)
  <2>1. ~job[w].held
    BY <1>5 DEF RecvErase, Custody, Phases
  <2> QED BY <1>5, <2>1, ReturnLetsGo DEF RecvErase, Effect, Drops, MayDrop
<1>6. CASE SendNothing(w)
  <2>1. LetsGo(w) /\ UNCHANGED <<owner, interest, m_workQueue>>
    BY <1>6, ReturnLetsGo DEF SendNothing
  <2> QED BY <1>6, <2>1 DEF Effect, Drops, MayDrop
<1>7. CASE SendBuild(w)
  <2>1. job[w].held /\ fd \in Fds /\ m_workQueue' = m_workQueue
    BY <1>7, HeldSteps DEF SendBuild, HoldingSteps
  <2>2. ASSUME FreeFds # {}, NEW use \in {"file", "dir"}, UNCHANGED <<interest, job>>,
               owner' = [owner EXCEPT ![LowestFree] = use]
        PROVE  Effect(w)
    <3>1. LowestFree \in Fds /\ owner[LowestFree] = "free"
      BY <2>2, LowestFreeIsFree DEF FreeFds
    <3>2. Opens(LowestFree)
      BY <2>2, <3>1 DEF Opens, SameHands
    <3> QED BY <2>1, <3>1, <3>2 DEF Effect
  <2>3. ASSUME Redirect(w, fd), owner' = owner PROVE Effect(w)
    <3>1. Rearms(w)
      BY <2>1, <2>3, ArmedWhenHeld, ReturnLetsGo DEF Rearms, Redirect
    <3> QED BY <2>1, <3>1 DEF Effect
  <2>4. ASSUME UNCHANGED <<owner, interest, job>> PROVE Effect(w)
    BY <2>1, <2>4 DEF Effect, Passes, SameHands
  <2> QED BY <1>7, <2>2, <2>3, <2>4 DEF SendBuild
<1>8. CASE SendPage(w) \/ SendResume(w) \/ SendPart(w) \/ SendEmpty(w)
  BY <1>8 DEF SendPage, SendResume, SendPart, SendEmpty, Effect, Passes, SameHands
<1>9. CASE SendEnd(w)
  <2>1. job[w].held /\ fd \in Fds /\ UNCHANGED <<owner, m_workQueue>>
    BY <1>9, HeldSteps DEF SendEnd, HoldingSteps
  <2>2. CASE ResponseAt(fd).status = "COMPLATE"
    <3>1. SameHands
      BY <1>9, <2>2 DEF SendEnd, SameHands, Types, WorkTypes, Jobs
    <3> QED BY <1>9, <2>1, <2>2, <3>1 DEF SendEnd, Effect, Passes
  <2>3. CASE ResponseAt(fd).status # "COMPLATE"
    <3>1. Rearms(w)
      BY <1>9, <2>1, <2>3, ArmedWhenHeld, ReturnLetsGo DEF SendEnd, Rearms
    <3> QED BY <2>1, <3>1 DEF Effect
  <2> QED BY <2>2, <2>3
<1>10. CASE SendRearm(w)
  <2>1. job[w].held /\ fd \in Fds /\ UNCHANGED <<owner, m_workQueue>>
    BY <1>10, HeldSteps DEF SendRearm, HoldingSteps
  <2>2. Rearms(w)
    BY <1>10, <2>1, ArmedWhenHeld, ReleasedLetsGo DEF SendRearm, Rearms
  <2> QED BY <2>1, <2>2 DEF Effect
<1>11. CASE SendTail(w)
  <2>1. /\ pc[w] = "sendTail" /\ ~job[w].held /\ LetsGo(w) /\ m_workQueue' = m_workQueue
        /\ fd \in Fds /\ pc'[w] # pc[w]
    BY <1>11, ReturnLetsGo DEF SendTail, Return, Custody, Phases, Types, WorkTypes
  <2>2. PICK m \in Tails(w) :
               IF m.bodyType = "FILE" /\ m.fileMsgFd # NONE
                 THEN Closed(m.fileMsgFd) ELSE UNCHANGED <<owner, interest, link>>
    BY <1>11 DEF SendTail, Tails
  <2>3. m.fileMsgFd \in Entries(Fds)
    <3>1. ResponseAt(fd).fileMsgFd \in Entries(Fds)
      BY <2>1, EntriesTyped DEF KeptResponses, Responses
    <3>2. ASSUME NEW l \in Leftovers(w) PROVE l.fileMsgFd \in Entries(Fds)
      <4>1. job[w].left \in Lefts
        BY <2>1 DEF Types, WorkTypes
      <4>2. l = job[w].left \/ l \in [bodyType : BodyTypes, fileMsgFd : Fds \cup {NONE}]
        BY <3>2 DEF Leftovers
      <4> QED BY <4>1, <4>2 DEF Lefts, Entries
    <3> QED BY <3>1, <3>2 DEF Tails
  <2>4. CASE m.bodyType = "FILE" /\ m.fileMsgFd # NONE
    <3>1. m.fileMsgFd \in Fds /\ owner[m.fileMsgFd] \notin Clients
      <4>1. m.fileMsgFd \in Fds
        BY <2>3, <2>4 DEF Entries
      <4>2. owner'[m.fileMsgFd] = "free"
        BY <2>2, <2>4, <4>1 DEF Closed, Types, KernelTypes
      <4> QED BY <2>1, <2>4, <4>1, <4>2 DEF ClosesOwn, LateClose
    <3>2. Closes(w, m.fileMsgFd)
      BY <2>1, <2>2, <2>4, <3>1 DEF Closes, Closed
    <3> QED BY <2>1, <3>1, <3>2 DEF Effect
  <2>5. CASE ~(m.bodyType = "FILE" /\ m.fileMsgFd # NONE)
    BY <2>1, <2>2, <2>5 DEF Effect, Drops, MayDrop
  <2> QED BY <2>4, <2>5
<1> QED BY <1>1, <1>2, <1>3, <1>4, <1>5, <1>6, <1>7, <1>8, <1>9, <1>10, <1>11
        DEF RecvNext, SendNext

LEMMA PhasesStep ==
  ASSUME Types, Phases, NEW w \in Workers, WorkerNext(w)
  PROVE  Phases'
<1> SUFFICES ASSUME NEW v \in Workers
             PROVE  /\ pc'[v] \in HoldingSteps => job'[v].held
                    /\ pc'[v] \in {"complate", "recvErase", "sendTail"} => ~job'[v].held
                    /\ pc'[v] = "idle" => job'[v] = NoJob
  BY DEF Phases
<1> USE DEF Types, WorkTypes, Phases, HoldingSteps, Goto, Return, Released
<1>1. CASE Take(w)
  <2>1. /\ job' = [job EXCEPT ![w] = Job(Head(m_workQueue).fd, Head(m_workQueue).conn)]
        /\ \E step \in {"accept", "recvBegin", "sendBegin"} : pc' = [pc EXCEPT ![w] = step]
    BY <1>1 DEF Take
  <2> QED BY <2>1 DEF Job
<1>2. CASE Accept(w)
  BY <1>2 DEF Accept
<1>3. CASE RecvBegin(w) \/ RecvLost(w) \/ RecvComplate(w)
  BY <1>3 DEF RecvBegin, RecvLost, RecvComplate
<1>4. CASE RecvPiece(w)
  <2>1. pc[w] = "recv"
    BY <1>4 DEF RecvPiece
  <2>2. \/ Released(w) /\ Goto(w, "complate")
        \/ job' = job /\ \E step \in {"recvEnd", "recv"} : Goto(w, step)
    BY <1>4 DEF RecvPiece
  <2>3. CASE Released(w) /\ Goto(w, "complate")
    BY <2>1, <2>3 DEF Jobs
  <2>4. CASE job' = job /\ \E step \in {"recvEnd", "recv"} : Goto(w, step)
    BY <2>1, <2>4
  <2> QED BY <2>2, <2>3, <2>4
<1>5. CASE RecvEnd(w)
  <2>1. pc[w] = "recvEnd" /\ (Return(w) \/ (Released(w) /\ Goto(w, "recvErase")))
    BY <1>5 DEF RecvEnd
  <2> QED BY <2>1 DEF Jobs
<1>6. CASE RecvErase(w) \/ SendNothing(w) \/ SendTail(w)
  BY <1>6 DEF RecvErase, SendNothing, SendTail
<1>7. CASE SendBuild(w)
  <2>1. /\ pc[w] = "sendBegin"
        /\ Return(w) \/ (job' = job /\ \E step \in {"page", "send", "sendBegin"} :
                                        pc' = [pc EXCEPT ![w] = step])
    <3>1. pc[w] = "sendBegin" /\ (pc' = pc => pc' = [pc EXCEPT ![w] = "sendBegin"])
      BY <1>7 DEF SendBuild
    <3> QED BY <1>7, <3>1 DEF SendBuild, Redirect
  <2> QED BY <2>1
<1>8. CASE SendPage(w) \/ SendResume(w) \/ SendPart(w) \/ SendEmpty(w)
  <2>1. /\ pc[w] \in HoldingSteps /\ job' = job
        /\ \E step \in {"lost", "send", "sendEnd"} : pc' = [pc EXCEPT ![w] = step]
    BY <1>8 DEF SendPage, SendResume, SendPart, SendEmpty, SendFails
  <2> QED BY <2>1
<1>9. CASE SendEnd(w)
  <2>1. pc[w] = "sendEnd"
    BY <1>9 DEF SendEnd
  <2>2. CASE Return(w)
    BY <2>1, <2>2
  <2>3. CASE ~Return(w)
    <3>1. /\ pc' = [pc EXCEPT ![w] = "sendRearm"]
          /\ \E l : job' = [job EXCEPT ![w].left = l]
      BY <1>9, <2>3 DEF SendEnd
    <3> QED BY <2>1, <3>1 DEF Jobs
  <2> QED BY <2>2, <2>3
<1>10. CASE SendRearm(w)
  BY <1>10 DEF SendRearm, Jobs
<1> QED BY <1>1, <1>2, <1>3, <1>4, <1>5, <1>6, <1>7, <1>8, <1>9, <1>10
        DEF WorkerNext, RecvNext, SendNext

(* A step keeps one hand, and the right ones, if it adds no event and no   *)
(* holder, arms only what is in no hand any more, and gives away only      *)
(* descriptors that are in none.                                           *)
LEMMA FewerHands ==
  ASSUME Types, Types', Custody, m_workQueue' = m_workQueue,
         \A fd \in Fds, v \in Workers :
           InHand(v, fd)' => InHand(v, fd) /\ job'[v].conn = job[v].conn,
         \A fd \in Fds :
           \/ InEpoll(fd)' => InEpoll(fd)
           \/ (\A i : ~InQueue(i, fd)) /\ (\A v : ~InHand(v, fd)'),
         \A fd \in Fds :
           \/ owner'[fd] = owner[fd]
           \/ (\A i : ~InQueue(i, fd)) /\ (\A v : ~InHand(v, fd)')
  PROVE  OneHand' /\ Rightful'
<1>1. \A fd, i : InQueue(i, fd)' <=> InQueue(i, fd)
  BY DEF InQueue, Slots
<1>2. \A fd, v : InHand(v, fd)' => v \in Workers
  BY DEF InHand
<1>3. OneHand'
  <2> SUFFICES ASSUME NEW fd \in Fds
               PROVE  /\ InEpoll(fd)' => (\A i : ~InQueue(i, fd)') /\ (\A w : ~InHand(w, fd)')
                      /\ \A i, j : InQueue(i, fd)' /\ InQueue(j, fd)' => i = j
                      /\ \A i, w : ~(InQueue(i, fd)' /\ InHand(w, fd)')
                      /\ \A v, w : InHand(v, fd)' /\ InHand(w, fd)' => v = w
    BY DEF OneHand
  <2> QED BY <1>1, <1>2 DEF Custody, OneHand
<1>4. Rightful'
  BY <1>1, <1>2 DEF Custody, Rightful, Slots
<1> QED BY <1>3, <1>4

LEMMA EffectKeeps ==
  ASSUME Types, Types', Custody, NEW w \in Workers, Effect(w)
  PROVE  Registered' /\ OneHand' /\ Rightful'
<1> USE DEF Types, KernelTypes
<1>0. m_workQueue' = m_workQueue
  BY DEF Effect
<1>1. ASSUME LetsGo(w)
      PROVE  \A fd \in Fds, v \in Workers :
               InHand(v, fd)' => InHand(v, fd) /\ v # w /\ job'[v] = job[v]
  BY <1>1 DEF LetsGo, InHand
<1>2. ASSUME NEW f \in Fds, owner[f] \notin Clients
      PROVE  (\A i : ~InQueue(i, f)) /\ (\A v : ~InHand(v, f))
  BY <1>2 DEF Custody, Rightful, InQueue, InHand, Slots
<1>3. CASE Passes
  <2>1. Registered'
    BY <1>3 DEF Passes, Custody, Registered
  <2>2. \A fd \in Fds, v \in Workers :
          InHand(v, fd)' => InHand(v, fd) /\ job'[v].conn = job[v].conn
    BY <1>3 DEF Passes, SameHands, InHand
  <2> QED BY <1>0, <1>3, <2>1, <2>2, FewerHands DEF Passes, InEpoll
<1>4. CASE Drops(w)
  <2>1. Registered'
    BY <1>4 DEF Drops, Custody, Registered
  <2> QED BY <1>0, <1>1, <1>4, <2>1, FewerHands DEF Drops, InEpoll
<1>5. CASE Rearms(w)
  <2>0. PICK f \in Fds : f = job[w].fd
    BY <1>5 DEF Rearms
  <2>1. owner[f] \in Clients /\ InHand(w, f)
    BY <1>5, <2>0 DEF Rearms, Custody, Rightful, InHand
  <2>2. PICK events \in {"in", "inout"} : interest' = [interest EXCEPT ![f] = events]
    BY <1>5, <2>0 DEF Rearms
  <2>3. Registered'
    BY <1>5, <2>1, <2>2 DEF Rearms, Custody, Registered
  <2>4. (\A i : ~InQueue(i, f)) /\ (\A v : InHand(v, f) => v = w)
    BY <2>1 DEF Custody, OneHand
  <2>5. \A v : ~InHand(v, f)'
    BY <1>1, <1>5, <2>4 DEF Rearms, InHand
  <2>6. \A fd \in Fds : fd # f => (InEpoll(fd)' => InEpoll(fd))
    BY <2>2 DEF InEpoll
  <2>7. owner' = owner /\ LetsGo(w)
    BY <1>5 DEF Rearms
  <2> QED BY <1>0, <1>1, <2>3, <2>4, <2>5, <2>6, <2>7, FewerHands
<1>6. ASSUME NEW f \in Fds, Closes(w, f)
      PROVE  Registered' /\ OneHand' /\ Rightful'
  <2>1. /\ owner' = [owner EXCEPT ![f] = "free"] /\ interest' = [interest EXCEPT ![f] = "none"]
        /\ LetsGo(w)
    BY <1>6 DEF Closes
  <2>2. Registered'
    BY <2>1, ReactorAssumption DEF Custody, Registered
  <2>3. (\A i : ~InQueue(i, f)) /\ (\A v : ~InHand(v, f)')
    <3>1. CASE owner[f] \notin Clients
      BY <1>1, <1>2, <2>1, <3>1 DEF InHand
    <3>2. CASE job[w].held /\ f = job[w].fd
      <4>1. InHand(w, f)
        BY <3>2 DEF InHand
      <4> QED BY <1>1, <2>1, <4>1 DEF Custody, OneHand, InHand
    <3> QED BY <1>6, <3>1, <3>2 DEF Closes
  <2>4. \A fd \in Fds : InEpoll(fd)' => InEpoll(fd)
    BY <2>1 DEF InEpoll
  <2>5. \A fd \in Fds : fd # f => owner'[fd] = owner[fd]
    BY <2>1
  <2> QED BY <1>0, <1>1, <2>1, <2>2, <2>3, <2>4, <2>5, FewerHands
<1>7. ASSUME NEW f \in Fds, Opens(f)
      PROVE  Registered' /\ OneHand' /\ Rightful'
  <2>1. PICK use \in {"file", "dir"} : owner' = [owner EXCEPT ![f] = use]
    BY <1>7 DEF Opens
  <2>2. /\ owner[f] \notin Clients /\ interest' = interest /\ SameHands /\ use \notin Clients
    BY <1>7, ReactorAssumption DEF Opens
  <2>3. Registered'
    BY <2>1, <2>2 DEF Custody, Registered
  <2>4. \A fd \in Fds, v \in Workers :
          InHand(v, fd)' => InHand(v, fd) /\ job'[v].conn = job[v].conn
    BY <2>2 DEF SameHands, InHand
  <2>5. (\A i : ~InQueue(i, f)) /\ (\A v : ~InHand(v, f)')
    BY <1>2, <2>2, <2>4 DEF InHand
  <2>6. \A fd \in Fds : fd # f => owner'[fd] = owner[fd]
    BY <2>1
  <2>7. \A fd \in Fds : InEpoll(fd)' => InEpoll(fd)
    BY <2>2 DEF InEpoll
  <2> QED BY <1>0, <2>3, <2>4, <2>5, <2>6, <2>7, FewerHands
<1>8. ASSUME NEW f \in Fds, NEW c \in Clients, Accepts(w, f, c)
      PROVE  Registered' /\ OneHand' /\ Rightful'
  <2>1. /\ owner[f] \notin Clients /\ LetsGo(w)
        /\ owner' = [owner EXCEPT ![f] = c] /\ interest' = [interest EXCEPT ![f] = "in"]
    BY <1>8, ReactorAssumption DEF Accepts
  <2>2. Registered'
    BY <2>1 DEF Custody, Registered
  <2>3. (\A i : ~InQueue(i, f)) /\ (\A v : ~InHand(v, f)')
    BY <1>1, <1>2, <2>1 DEF InHand
  <2>4. \A fd \in Fds : fd # f => owner'[fd] = owner[fd] /\ (InEpoll(fd)' => InEpoll(fd))
    BY <2>1 DEF InEpoll
  <2> QED BY <1>0, <1>1, <2>1, <2>2, <2>3, <2>4, FewerHands
<1> QED BY <1>3, <1>4, <1>5, <1>6, <1>7, <1>8 DEF Effect

(* A worker takes the first event. *)
LEMMA TakeKeeps ==
  ASSUME Types, Custody, NEW w \in Workers, Take(w)
  PROVE  Registered' /\ OneHand' /\ Rightful'
<1> DEFINE e == Head(m_workQueue)
<1>1. /\ pc[w] = "idle" /\ m_workQueue # <<>> /\ m_workQueue' = Tail(m_workQueue)
      /\ job' = [job EXCEPT ![w] = Job(e.fd, e.conn)]
      /\ UNCHANGED <<owner, interest>>
  BY DEF Take, kernelVars
<1>2. /\ Len(m_workQueue) \in Nat \ {0} /\ Len(Tail(m_workQueue)) = Len(m_workQueue) - 1
      /\ \A i \in 1..Len(Tail(m_workQueue)) : Tail(m_workQueue)[i] = m_workQueue[i + 1]
      /\ e = m_workQueue[1]
  BY <1>1, HeadTailProperties, EmptySeq DEF Types, WorkTypes
<1>3. job[w] = NoJob /\ job \in [Workers -> Jobs]
  BY <1>1 DEF Custody, Phases, Types, WorkTypes
<1>4. \A i, fd : InQueue(i, fd)' => InQueue(i + 1, fd) /\ i + 1 # 1
                                     /\ i \in Nat /\ m_workQueue'[i] = m_workQueue[i + 1]
  BY <1>1, <1>2 DEF InQueue, Slots
<1>5. \A v, fd : InHand(v, fd)' =>
        IF v = w THEN InQueue(1, fd) ELSE InHand(v, fd) /\ job'[v] = job[v]
  BY <1>1, <1>2, <1>3 DEF InHand, Job, InQueue, Slots
<1>6. job'[w].conn = m_workQueue[1].conn
  BY <1>1, <1>2, <1>3 DEF Job
<1>7. Registered'
  BY <1>1 DEF Custody, Registered
<1> HIDE DEF e
<1>8. OneHand'
  <2> SUFFICES ASSUME NEW fd \in Fds
               PROVE  /\ InEpoll(fd)' => (\A i : ~InQueue(i, fd)') /\ (\A u : ~InHand(u, fd)')
                      /\ \A i, j : InQueue(i, fd)' /\ InQueue(j, fd)' => i = j
                      /\ \A i, u : ~(InQueue(i, fd)' /\ InHand(u, fd)')
                      /\ \A v, u : InHand(v, fd)' /\ InHand(u, fd)' => v = u
    BY DEF OneHand
  <2>1. InEpoll(fd)' => InEpoll(fd)
    BY <1>1 DEF InEpoll
  <2>2. \A i, j : InQueue(i, fd)' /\ InQueue(j, fd)' => i = j
    <3> SUFFICES ASSUME NEW i, NEW j, InQueue(i, fd)', InQueue(j, fd)' PROVE i = j
      OBVIOUS
    <3>1. InQueue(i + 1, fd) /\ InQueue(j + 1, fd) /\ i \in Nat /\ j \in Nat
      BY <1>4
    <3>2. i + 1 = j + 1
      BY <3>1 DEF Custody, OneHand
    <3> QED BY <3>1, <3>2
  <2>3. \A i, u : ~(InQueue(i, fd)' /\ InHand(u, fd)')
    <3> SUFFICES ASSUME NEW i, NEW u, InQueue(i, fd)', InHand(u, fd)' PROVE FALSE
      OBVIOUS
    <3>1. InQueue(i + 1, fd) /\ i + 1 # 1
      BY <1>4
    <3>2. CASE u = w
      BY <1>5, <3>1, <3>2 DEF Custody, OneHand
    <3>3. CASE u # w
      BY <1>5, <3>1, <3>3 DEF Custody, OneHand
    <3> QED BY <3>2, <3>3
  <2> QED BY <1>4, <1>5, <2>1, <2>2, <2>3 DEF Custody, OneHand
<1>9. Rightful'
  <2>1. ASSUME NEW fd \in Fds, NEW i, InQueue(i, fd)'
        PROVE  m_workQueue'[i].conn \in Clients /\ owner'[fd] = m_workQueue'[i].conn
    <3>1. InQueue(i + 1, fd) /\ m_workQueue'[i] = m_workQueue[i + 1]
      BY <1>4, <2>1
    <3>2. i + 1 \in Slots
      BY <3>1 DEF InQueue
    <3> QED BY <1>1, <3>1, <3>2 DEF Custody, Rightful
  <2>2. ASSUME NEW fd \in Fds, NEW v \in Workers, InHand(v, fd)'
        PROVE  job'[v].conn \in Clients /\ owner'[fd] = job'[v].conn
    <3>1. CASE v = w
      <4>1. InQueue(1, fd) /\ 1 \in Slots
        BY <1>5, <2>2, <3>1 DEF InQueue
      <4> QED BY <1>1, <1>6, <3>1, <4>1 DEF Custody, Rightful
    <3>2. CASE v # w
      BY <1>1, <1>5, <2>2, <3>2 DEF Custody, Rightful
    <3> QED BY <3>1, <3>2
  <2> QED BY <2>1, <2>2 DEF Rightful
<1> QED BY <1>7, <1>8, <1>9

(* The main loop puts an event at the end. *)
LEMMA ReportKeeps ==
  ASSUME Types, Custody, MainNext
  PROVE  Registered' /\ OneHand' /\ Rightful'
<1> USE DEF Types, WorkTypes, KernelTypes
<1>0. job' = job /\ owner' = owner
  BY DEF MainNext, ReportListen, ReportClient, kernelVars
<1>1. \A v, fd : InHand(v, fd)' <=> InHand(v, fd)
  BY <1>0 DEF InHand
<1> DEFINE n == Len(m_workQueue)
<1>2. CASE ReportListen
  <2>1. m_workQueue' = Append(m_workQueue, Event("AcceptConn", NONE, NONE))
        /\ interest' = interest
    BY <1>2 DEF ReportListen, kernelVars
  <2>2. Event("AcceptConn", NONE, NONE) \in QueuedEvents
    BY DEF Event, QueuedEvents, Entries
  <2>3. /\ n \in Nat /\ Len(m_workQueue') = n + 1
        /\ \A i \in 1..n : m_workQueue'[i] = m_workQueue[i]
        /\ m_workQueue'[n + 1] = Event("AcceptConn", NONE, NONE)
    BY <2>1, <2>2, AppendProperties, LenProperties
  <2>4. \A fd \in Fds : \A i : InQueue(i, fd)' <=> InQueue(i, fd)
    <3> SUFFICES ASSUME NEW fd \in Fds, NEW i PROVE InQueue(i, fd)' <=> InQueue(i, fd)
      OBVIOUS
    <3>1. NONE # fd
      BY ReactorAssumption
    <3> QED BY <2>3, <3>1 DEF InQueue, Slots, Event
  <2>5. \A i \in Slots' : (i \in Slots /\ m_workQueue'[i] = m_workQueue[i]) \/ i = n + 1
    BY <2>3 DEF Slots
  <2>6. \A fd : InEpoll(fd)' <=> InEpoll(fd)
    BY <2>1 DEF InEpoll
  <2>7. Registered'
    BY <1>0, <2>1 DEF Custody, Registered
  <2>8. OneHand'
    BY <1>1, <2>4, <2>6 DEF Custody, OneHand
  <2>9. Rightful'
    <3>1. ASSUME NEW fd \in Fds, NEW i, InQueue(i, fd)'
          PROVE  m_workQueue'[i].conn \in Clients /\ owner'[fd] = m_workQueue'[i].conn
      <4>1. InQueue(i, fd) /\ i \in Slots
        BY <2>4, <3>1 DEF InQueue
      <4>2. m_workQueue'[i] = m_workQueue[i]
        BY <2>3, <4>1 DEF Slots
      <4> QED BY <1>0, <4>1, <4>2 DEF Custody, Rightful
    <3> QED BY <1>0, <1>1, <3>1 DEF Custody, Rightful
  <2> QED BY <2>7, <2>8, <2>9
<1>3. ASSUME NEW f \in Fds, ReportClient(f)
      PROVE  Registered' /\ OneHand' /\ Rightful'
  <2> DEFINE e == Event(IF Input(f) THEN "HandleRecv" ELSE "HandleSend", f, owner[f])
  <2>1. /\ m_workQueue' = Append(m_workQueue, e)
        /\ InEpoll(f) /\ interest' = [interest EXCEPT ![f] = "off"]
    BY <1>3 DEF ReportClient, InEpoll
  <2>2. owner[f] \in Clients
    BY <2>1 DEF InEpoll
  <2>3. e \in QueuedEvents /\ e.fd = f /\ e.conn = owner[f]
    BY <2>2 DEF Event, QueuedEvents, Entries
  <2> HIDE DEF e
  <2>4. /\ n \in Nat /\ Len(m_workQueue') = n + 1
        /\ \A i \in 1..n : m_workQueue'[i] = m_workQueue[i]
        /\ m_workQueue'[n + 1] = e
    BY <2>1, <2>3, AppendProperties, LenProperties
  <2>5. \A fd, i : InQueue(i, fd)' <=> InQueue(i, fd) \/ (i = n + 1 /\ fd = f)
    <3> SUFFICES ASSUME NEW fd, NEW i
                 PROVE  InQueue(i, fd)' <=> InQueue(i, fd) \/ (i = n + 1 /\ fd = f)
      OBVIOUS
    <3>1. CASE i \in 1..n
      BY <2>4, <3>1 DEF InQueue, Slots
    <3>2. CASE i \notin 1..n
      BY <2>3, <2>4, <3>2 DEF InQueue, Slots
    <3> QED BY <3>1, <3>2
  <2>6. (\A i : ~InQueue(i, f)) /\ (\A v : ~InHand(v, f))
    BY <2>1 DEF Custody, OneHand
  <2>7. Registered'
    BY <1>0, <2>1, <2>2 DEF Custody, Registered
  <2>8. \A fd \in Fds : InEpoll(fd)' <=> InEpoll(fd) /\ fd # f
    BY <2>1 DEF InEpoll
  <2>9. OneHand'
    <3> SUFFICES ASSUME NEW fd \in Fds
                 PROVE  /\ InEpoll(fd)' => (\A i : ~InQueue(i, fd)') /\ (\A u : ~InHand(u, fd)')
                        /\ \A i, j : InQueue(i, fd)' /\ InQueue(j, fd)' => i = j
                        /\ \A i, u : ~(InQueue(i, fd)' /\ InHand(u, fd)')
                        /\ \A v, u : InHand(v, fd)' /\ InHand(u, fd)' => v = u
      BY DEF OneHand
    <3>1. CASE fd = f
      BY <1>1, <2>5, <2>6, <2>8, <3>1
    <3>2. CASE fd # f
      BY <1>1, <2>5, <2>8, <3>2 DEF Custody, OneHand
    <3> QED BY <3>1, <3>2
  <2>10. Rightful'
    <3>1. ASSUME NEW fd \in Fds, NEW i, InQueue(i, fd)'
          PROVE  m_workQueue'[i].conn \in Clients /\ owner'[fd] = m_workQueue'[i].conn
      <4>1. CASE InQueue(i, fd)
        <5>1. i \in Slots /\ m_workQueue'[i] = m_workQueue[i]
          BY <2>4, <4>1 DEF InQueue, Slots
        <5> QED BY <1>0, <4>1, <5>1 DEF Custody, Rightful
      <4>2. CASE i = n + 1 /\ fd = f
        BY <1>0, <2>2, <2>3, <2>4, <4>2
      <4> QED BY <2>5, <3>1, <4>1, <4>2
    <3> QED BY <1>0, <1>1, <3>1 DEF Custody, Rightful
  <2> QED BY <2>7, <2>9, <2>10
<1> QED BY <1>2, <1>3 DEF MainNext

LEMMA CustodyStep ==
  ASSUME Types, Custody, [Next]_vars, ClosesOwn \/ \A w \in Workers : ~LateClose(w)
  PROVE  Custody'
<1>1. Types'
  BY TypesStep
<1>2. CASE UNCHANGED <<kernelVars, workVars>>
  BY <1>2 DEF kernelVars, workVars, Custody, Phases, Registered, OneHand, Rightful,
     InHand, InQueue, InEpoll, Slots
<1>3. ASSUME NEW c \in Clients, ClientNext(c) PROVE UNCHANGED <<kernelVars, workVars>>
  BY <1>3 DEF ClientNext, Connect, Ask, SendPiece, Read, Leave
<1>4. CASE Rests
  BY <1>2, <1>4 DEF Rests
<1>5. CASE MainNext
  <2>1. Phases'
    BY <1>5 DEF MainNext, ReportListen, ReportClient, Custody, Phases
  <2> QED BY <1>5, <2>1, ReportKeeps DEF Custody
<1>6. ASSUME NEW w \in Workers, WorkerNext(w) PROVE Custody'
  <2>1. Phases'
    BY <1>6, PhasesStep DEF Custody
  <2>2. CASE Take(w)
    BY <2>1, <2>2, TakeKeeps DEF Custody
  <2>3. CASE ~Take(w)
    <3>1. Effect(w)
      BY <1>6, <2>3, WorkerEffects DEF WorkerNext
    <3> QED BY <1>1, <2>1, <3>1, EffectKeeps DEF Custody
  <2> QED BY <2>2, <2>3
<1> QED BY <1>2, <1>3, <1>4, <1>5, <1>6, NextCases

LEMMA CustodyInit == Init => Custody
<1> SUFFICES ASSUME Init PROVE Custody
  OBVIOUS
<1> USE DEF Init
<1>1. Phases
  BY DEF Phases, HoldingSteps
<1>2. Registered
  BY ReactorAssumption DEF Registered
<1>3. Slots = {} /\ \A w \in Workers : ~job[w].held
  BY DEF Slots, NoJob
<1>4. OneHand /\ Rightful
  BY <1>3 DEF OneHand, Rightful, InQueue, InHand, InEpoll
<1> QED BY <1>1, <1>2, <1>4 DEF Custody

(* Some hand has the connection of fd. *)
HasToken(fd) == InEpoll(fd) \/ (\E i : InQueue(i, fd)) \/ (\E w : InHand(w, fd))

(* It stays in some hand, or comes into one with the connection, unless a  *)
(* handler returns without re-arming it.                                   *)
LEMMA TokenStep ==
  ASSUME Types, Custody, ClosesOwn, [Next]_vars, NEW fd \in Fds,
         HasToken(fd) \/ owner[fd] \notin Clients,
         owner'[fd] \in Clients, ~HasToken(fd)'
  PROVE  \E w \in Workers :
           /\ InHand(w, fd)
           /\ SendNothing(w) \/ (RecvEnd(w) /\ RequestAt(fd).status # "ERROR")
<1> USE DEF Types, WorkTypes, KernelTypes
<1>1. CASE UNCHANGED <<kernelVars, workVars>>
  BY <1>1 DEF kernelVars, workVars, HasToken, InEpoll, InQueue, InHand, Slots
<1>2. ASSUME NEW c \in Clients, ClientNext(c) PROVE UNCHANGED <<kernelVars, workVars>>
  BY <1>2 DEF ClientNext, Connect, Ask, SendPiece, Read, Leave
<1>3. ASSUME MainNext PROVE FALSE
  <2>1. HasToken(fd)
    BY <1>3 DEF MainNext, ReportListen, ReportClient, kernelVars
  <2>2. PICK e \in QueuedEvents : m_workQueue' = Append(m_workQueue, e) /\ job' = job
        /\ \/ interest'[fd] = interest[fd]
           \/ e.fd = fd
    <3>1. CASE ReportListen
      <4>1. Event("AcceptConn", NONE, NONE) \in QueuedEvents
        BY DEF Event, QueuedEvents, Entries
      <4> QED BY <3>1, <4>1 DEF ReportListen, kernelVars
    <3>2. ASSUME NEW f \in Fds, ReportClient(f)
          PROVE  \E e \in QueuedEvents :
                   /\ m_workQueue' = Append(m_workQueue, e) /\ job' = job
                   /\ interest'[fd] = interest[fd] \/ e.fd = fd
      <4>1. owner[f] \in Clients
        BY <3>2 DEF ReportClient
      <4> DEFINE e == Event(IF Input(f) THEN "HandleRecv" ELSE "HandleSend", f, owner[f])
      <4>2. e \in QueuedEvents /\ e.fd = f
        BY <4>1 DEF Event, QueuedEvents, Entries
      <4>3. m_workQueue' = Append(m_workQueue, e) /\ job' = job
            /\ interest' = [interest EXCEPT ![f] = "off"]
        BY <3>2 DEF ReportClient
      <4> HIDE DEF e
      <4> QED BY <4>2, <4>3
    <3> QED BY <1>3, <3>1, <3>2 DEF MainNext
  <2>3. /\ Len(m_workQueue) \in Nat /\ Len(m_workQueue') = Len(m_workQueue) + 1
        /\ \A i \in 1..Len(m_workQueue) : m_workQueue'[i] = m_workQueue[i]
        /\ m_workQueue'[Len(m_workQueue) + 1] = e
    BY <2>2, AppendProperties, LenProperties
  <2>4. \A i : InQueue(i, fd) => InQueue(i, fd)'
    BY <2>3 DEF InQueue, Slots
  <2>6. \A w : InHand(w, fd) => InHand(w, fd)'
    BY <2>2 DEF InHand
  <2>7. e.fd = fd => \E i : InQueue(i, fd)'
    <3>1. Len(m_workQueue) + 1 \in Slots' /\ m_workQueue'[Len(m_workQueue) + 1] = e
      BY <2>3 DEF Slots
    <3> QED BY <3>1 DEF InQueue
  <2> QED BY <2>1, <2>2, <2>4, <2>6, <2>7 DEF HasToken, InEpoll
<1>4. ASSUME NEW w \in Workers, Take(w) PROVE FALSE
  <2> DEFINE e == Head(m_workQueue)
  <2>1. /\ pc[w] = "idle" /\ m_workQueue # <<>> /\ m_workQueue' = Tail(m_workQueue)
        /\ job' = [job EXCEPT ![w] = Job(e.fd, e.conn)]
        /\ UNCHANGED <<owner, interest>>
    BY <1>4 DEF Take, kernelVars
  <2>2. /\ Len(m_workQueue) \in Nat \ {0} /\ Len(m_workQueue') = Len(m_workQueue) - 1
        /\ \A i \in 1..Len(m_workQueue') : m_workQueue'[i] = m_workQueue[i + 1]
        /\ e = m_workQueue[1]
    BY <2>1, HeadTailProperties, EmptySeq
  <2>3. job[w] = NoJob
    BY <2>1 DEF Custody, Phases
  <2>4. HasToken(fd)
    BY <2>1
  <2>5. ASSUME NEW i, InQueue(i, fd) PROVE HasToken(fd)'
    <3>1. CASE i = 1
      <4>1. InHand(w, fd)'
        BY <2>1, <2>2, <2>5, <3>1 DEF InQueue, InHand, Job
      <4> QED BY <4>1 DEF HasToken
    <3>2. CASE i # 1
      <4>1. i \in 1..Len(m_workQueue) /\ m_workQueue[i].fd = fd
        BY <2>5 DEF InQueue, Slots
      <4>2. PICK j \in 1..Len(m_workQueue') : j + 1 = i
        <5>1. i - 1 \in 1..Len(m_workQueue') /\ (i - 1) + 1 = i
          BY <2>2, <3>2, <4>1
        <5> QED BY <5>1
      <4>3. m_workQueue'[j].fd = fd
        BY <2>2, <4>1, <4>2
      <4>4. InQueue(j, fd)'
        BY <4>3 DEF InQueue, Slots
      <4> QED BY <4>4 DEF HasToken
    <3> QED BY <3>1, <3>2
  <2>6. ASSUME NEW v, InHand(v, fd) PROVE InHand(v, fd)'
    BY <2>1, <2>3, <2>6 DEF InHand, NoJob
  <2>7. InEpoll(fd) => InEpoll(fd)'
    BY <2>1 DEF InEpoll
  <2> QED BY <2>4, <2>5, <2>6, <2>7 DEF HasToken
<1>5. ASSUME NEW w \in Workers, Effect(w)
      PROVE  InHand(w, fd) /\ MayDrop(w)
  <2>1. \A i : InQueue(i, fd) => InQueue(i, fd)'
    BY <1>5 DEF Effect, InQueue, Slots
  <2>2. CASE Passes
    <3>1. \A v : InHand(v, fd) => InHand(v, fd)'
      BY <2>2 DEF Passes, SameHands, InHand
    <3> QED BY <2>1, <2>2, <3>1 DEF Passes, HasToken, InEpoll
  <2>3. ASSUME LetsGo(w) PROVE \A v : InHand(v, fd) /\ v # w => InHand(v, fd)'
    BY <2>3 DEF LetsGo, InHand
  <2>4. CASE Drops(w) /\ MayDrop(w)
    BY <2>1, <2>3, <2>4 DEF Drops, HasToken, InEpoll
  <2>5. CASE Rearms(w)
    <3>1. CASE job[w].fd = fd
      <4>1. InEpoll(fd)'
        BY <2>5, <3>1 DEF Rearms, InEpoll
      <4> QED BY <4>1 DEF HasToken
    <3>2. CASE job[w].fd # fd
      <4>1. interest'[fd] = interest[fd] /\ owner' = owner /\ LetsGo(w)
        BY <2>5, <3>2 DEF Rearms
      <4>2. \A v : InHand(v, fd) => v # w
        BY <3>2 DEF InHand
      <4> QED BY <2>1, <2>3, <4>1, <4>2 DEF HasToken, InEpoll
    <3> QED BY <3>1, <3>2
  <2>6. ASSUME NEW f \in Fds, Closes(w, f) PROVE FALSE
    <3>1. f # fd
      BY <2>6, ReactorAssumption DEF Closes
    <3>2. interest'[fd] = interest[fd] /\ owner'[fd] = owner[fd] /\ LetsGo(w)
      BY <2>6, <3>1 DEF Closes
    <3>3. \A v : InHand(v, fd) => v # w
      BY <2>6, <3>1, <3>2 DEF Closes, InHand
    <3> QED BY <2>1, <2>3, <3>2, <3>3 DEF HasToken, InEpoll
  <2>7. ASSUME NEW f \in Fds, Opens(f) PROVE FALSE
    <3>1. f # fd
      BY <2>7, ReactorAssumption DEF Opens
    <3>2. interest'[fd] = interest[fd] /\ owner'[fd] = owner[fd]
      BY <2>7, <3>1 DEF Opens
    <3>3. \A v : InHand(v, fd) => InHand(v, fd)'
      BY <2>7 DEF Opens, SameHands, InHand
    <3> QED BY <2>1, <3>2, <3>3 DEF HasToken, InEpoll
  <2>8. ASSUME NEW f \in Fds, NEW c \in Clients, Accepts(w, f, c) PROVE FALSE
    <3>1. CASE f = fd
      <4>1. InEpoll(fd)'
        BY <2>8, <3>1 DEF Accepts, InEpoll
      <4> QED BY <4>1 DEF HasToken
    <3>2. CASE f # fd
      <4>1. interest'[fd] = interest[fd] /\ owner'[fd] = owner[fd] /\ LetsGo(w)
        BY <2>8, <3>2 DEF Accepts
      <4>2. \A v : InHand(v, fd) => v # w
        <5>1. job[w].fd # fd
          BY <2>8, ReactorAssumption DEF Accepts
        <5> QED BY <5>1 DEF InHand
      <4> QED BY <2>1, <2>3, <4>1, <4>2 DEF HasToken, InEpoll
    <3> QED BY <3>1, <3>2
  <2> QED BY <1>5, <2>2, <2>4, <2>5, <2>6, <2>7, <2>8 DEF Effect
<1>6. ASSUME NEW w \in Workers, WorkerNext(w)
      PROVE  /\ InHand(w, fd)
             /\ SendNothing(w) \/ (RecvEnd(w) /\ RequestAt(fd).status # "ERROR")
  <2>1. InHand(w, fd) /\ MayDrop(w)
    BY <1>4, <1>5, <1>6, WorkerEffects DEF WorkerNext
  <2>2. NONE # fd
    BY ReactorAssumption
  <2> QED BY <2>1, <2>2 DEF MayDrop, InHand
<1>7. CASE Rests
  BY <1>1, <1>7 DEF Rests
<1> QED BY <1>1, <1>2, <1>3, <1>6, <1>7, NextCases

(* In numbers. *)
LEMMA TokensCounted ==
  ASSUME Types, OneHand, NEW fd \in Fds
  PROVE  Tokens(fd) = IF HasToken(fd) THEN 1 ELSE 0
<1>1. Queued(fd) = {i \in Slots : InQueue(i, fd)}
  BY LenProperties DEF Types, WorkTypes, Queued, InQueue, Slots
<1>2. Holders(fd) = {w \in Workers : InHand(w, fd)}
  BY DEF Holders, InHand
<1>3. /\ \A i : InQueue(i, fd) => i \in Slots
      /\ \A w : InHand(w, fd) => w \in Workers
  BY DEF InQueue, InHand
<1>4. \A x : Cardinality({x}) = 1
  BY FS_Singleton
<1>5. Cardinality({}) = 0
  BY FS_EmptySet
<1>6. CASE InEpoll(fd)
  <2>1. Queued(fd) = {} /\ Holders(fd) = {}
    BY <1>1, <1>2, <1>6 DEF OneHand
  <2> QED BY <1>5, <1>6, <2>1 DEF Tokens, InEpoll, HasToken
<1>7. CASE ~InEpoll(fd)
  <2>1. CASE \E i : InQueue(i, fd)
    <3>1. PICK i : InQueue(i, fd)
      BY <2>1
    <3>2. Queued(fd) = {i} /\ Holders(fd) = {}
      BY <1>1, <1>2, <1>3, <3>1 DEF OneHand
    <3>3. Cardinality(Queued(fd)) + Cardinality(Holders(fd)) = 1 /\ HasToken(fd)
      BY <1>4, <1>5, <3>1, <3>2 DEF HasToken
    <3> QED BY <1>4, <1>5, <1>7, <3>2, <3>3 DEF Tokens, InEpoll
  <2>2. CASE \E w : InHand(w, fd)
    <3>1. PICK w : InHand(w, fd)
      BY <2>2
    <3>2. Queued(fd) = {} /\ Holders(fd) = {w}
      BY <1>1, <1>2, <1>3, <3>1 DEF OneHand
    <3>3. Cardinality(Queued(fd)) + Cardinality(Holders(fd)) = 1 /\ HasToken(fd)
      BY <1>4, <1>5, <3>1, <3>2 DEF HasToken
    <3> QED BY <1>4, <1>5, <1>7, <3>2, <3>3 DEF Tokens, InEpoll
  <2>3. CASE ~(\E i : InQueue(i, fd)) /\ ~(\E w : InHand(w, fd))
    <3>1. Queued(fd) = {} /\ Holders(fd) = {}
      BY <1>1, <1>2, <2>3
    <3> QED BY <1>5, <1>7, <2>3, <3>1 DEF Tokens, InEpoll, HasToken
  <2> QED BY <2>1, <2>2, <2>3
<1> QED BY <1>6, <1>7

LEMMA CustodyIsOwnConnection == Types /\ Custody => OwnConnection
<1> SUFFICES ASSUME Types, Custody, NEW w \in Workers, job[w].held, job[w].fd # NONE
             PROVE  owner[job[w].fd] = job[w].conn
  BY DEF OwnConnection
<1>1. job[w].fd \in Fds
  BY DEF Types, WorkTypes, Jobs, Entries
<1> QED BY <1>1 DEF Custody, Rightful, InHand

(* A HandleSend event is due, in the queue, or at its beginning.           *)
ToSend(fd) ==
  \/ interest[fd] = "inout"
  \/ \E i \in Slots : m_workQueue[i].fd = fd /\ m_workQueue[i].kind = "HandleSend"
  \/ \E w \in Workers : job[w].fd = fd /\ pc[w] = "sendBegin"

(* There is a Response, and it says what to send. *)
Named(r) == r # NONE /\ (r.status = "INIT" => r.bodyFileName # NONE)
ResponseReady == \A fd \in Fds : ToSend(fd) => Named(responseStatus[fd])

(* Who sends is the hand that has the connection, and no other. *)
LEMMA SenderAlone ==
  ASSUME Types, Custody, NEW fd \in Fds, ToSend(fd),
         NEW w \in Workers, InHand(w, fd)
  PROVE  pc[w] = "sendBegin"
<1>1. interest[fd] # "inout"
  BY DEF Custody, OneHand, InEpoll
<1>2. ~\E i \in Slots : m_workQueue[i].fd = fd /\ m_workQueue[i].kind = "HandleSend"
  BY DEF Custody, OneHand, InQueue
<1>3. PICK v \in Workers : job[v].fd = fd /\ pc[v] = "sendBegin"
  BY <1>1, <1>2 DEF ToSend
<1>4. InHand(v, fd)
  BY <1>3, HeldSteps DEF HoldingSteps, InHand
<1>5. v = w
  BY <1>4 DEF Custody, OneHand
<1> QED BY <1>3, <1>5

(* Only the end of sending takes such a Response out of the table. *)
LEMMA ResponseStays ==
  ASSUME Types, Custody, [Next]_vars, NEW fd \in Fds,
         Named(responseStatus[fd]), ~Named(responseStatus'[fd])
  PROVE  \E w \in Workers : pc[w] = "sendEnd" /\ InHand(w, fd)
<1> USE DEF Types, TableTypes
<1>1. responseStatus' # responseStatus
  OBVIOUS
<1>2. PICK w \in Workers : WorkerNext(w)
  BY <1>1, NextCases DEF Rests, tableVars, ClientNext, Connect, Ask, SendPiece, Read, Leave,
     MainNext, ReportListen, ReportClient
<1>3. NONE \notin Responses
  BY NoneAssumption
<1>4. ASSUME NEW r \in KeptResponses, NEW f, Named(r) \/ r = ResponseAt(f),
             responseStatus' = [responseStatus EXCEPT ![f] = r]
      PROVE  FALSE
  BY <1>4 DEF ResponseAt, Named
<1>5. pc[w] \notin {"idle", "accept"} => job[w].fd \in Fds
  BY DEF WorkTypes
<1>6. ~Take(w) /\ ~Accept(w)
  BY <1>1 DEF Take, Accept, tableVars
<1>7. ASSUME RecvNext(w) PROVE FALSE
  <2>1. RecvPiece(w)
    BY <1>1, <1>7 DEF RecvNext, RecvBegin, RecvLost, RecvComplate, RecvEnd, RecvErase
  <2> DEFINE f == job[w].fd
             r == Parse(RequestAt(f), Head(inbox[owner[f]]))
  <2>2. /\ f \in Fds
        /\ responseStatus' = [responseStatus EXCEPT ![f] =
             [ResponseAt(f) EXCEPT !.bodyFileName = Resource(r.kind)]]
    BY <1>1, <1>5, <2>1 DEF RecvPiece
  <2>3. [ResponseAt(f) EXCEPT !.bodyFileName = Resource(r.kind)] \in KeptResponses
    BY <2>2, EntriesTyped DEF KeptResponses, Responses, Resource, Entries
  <2>4. Named([ResponseAt(f) EXCEPT !.bodyFileName = Resource(r.kind)])
    BY <1>3, <2>2, <2>3, EntriesTyped, ReactorAssumption
       DEF Named, KeptResponses, Responses, Resource, AllKinds
  <2> QED BY <1>4, <2>2, <2>3, <2>4
<1>8. ASSUME SendNext(w), ~SendEnd(w) PROVE FALSE
  <2> DEFINE f == job[w].fd
  <2>0. /\ f \in Fds /\ ResponseAt(f) \in KeptResponses
        /\ responseStatus[f] \in Entries(KeptResponses)
    <3>1. pc[w] \notin {"idle", "accept"}
      BY <1>8 DEF SendNext, SendNothing, SendBuild, SendPage, SendResume, SendPart,
         SendEmpty, SendEnd, SendRearm, SendTail
    <3> QED BY <1>5, <3>1, EntriesTyped
  <2>1. \A r \in KeptResponses, type \in BodyTypes, file \in Entries(Fds) :
          Built(r, type, file) \in KeptResponses /\ Named(Built(r, type, file))
    BY <1>3 DEF Built, KeptResponses, Responses, Statuses, Entries, Named
  <2>2. /\ [Response EXCEPT !.bodyFileName = "redirect"] \in KeptResponses
        /\ Named([Response EXCEPT !.bodyFileName = "redirect"])
    <3>1. [Response EXCEPT !.bodyFileName = "redirect"] \in KeptResponses
      BY DEF Response, KeptResponses, Responses, Statuses, Entries
    <3> QED BY <1>3, <3>1, ReactorAssumption DEF Named, Response, KeptResponses
  <2>3. CASE SendBuild(w)
    <3>1. responseStatus[f] \in KeptResponses
      BY <2>0, <2>3 DEF SendBuild, Entries
    <3>2. LowestFree \in Fds \/ FreeFds = {}
      BY LowestFreeIsFree DEF FreeFds
    <3>3. {"FILE", "EMPTY"} \subseteq BodyTypes /\ Fds \cup {NONE} = Entries(Fds)
      BY DEF BodyTypes, Entries
    <3>4. \/ responseStatus' = responseStatus
          \/ responseStatus' = [responseStatus EXCEPT ![f] =
               [Response EXCEPT !.bodyFileName = "redirect"]]
          \/ \E type \in BodyTypes, file \in Entries(Fds) :
               responseStatus' = [responseStatus EXCEPT ![f] =
                                    Built(responseStatus[f], type, file)]
      BY <2>3, <3>2, <3>3 DEF SendBuild, Redirect
    <3> QED BY <1>1, <1>4, <2>1, <2>2, <3>1, <3>4
  <2>4. CASE SendPage(w)
    <3>1. "HTML" \in BodyTypes /\ NONE \in Entries(Fds)
      BY DEF BodyTypes, Entries
    <3>2. responseStatus' = [responseStatus EXCEPT ![f] = Built(ResponseAt(f), "HTML", NONE)]
      BY <1>1, <2>4 DEF SendPage
    <3> QED BY <1>4, <2>0, <2>1, <3>1, <3>2
  <2>5. ASSUME NEW s \in {"BODY", "COMPLATE"}, ResponseAt(f).bodyType \in BodyTypes
        PROVE  /\ [ResponseAt(f) EXCEPT !.status = s] \in KeptResponses
               /\ Named([ResponseAt(f) EXCEPT !.status = s])
    BY <1>3, <2>0, <2>5 DEF KeptResponses, Responses, Statuses, Named
  <2>6. CASE SendPart(w)
    <3>1. /\ ResponseAt(f).bodyType \in BodyTypes
          /\ \E s \in {"BODY", "COMPLATE"} :
               responseStatus' = [responseStatus EXCEPT ![f] =
                                    [ResponseAt(f) EXCEPT !.status = s]]
      BY <1>1, <2>0, <2>6 DEF SendPart, KeptResponses
    <3> QED BY <1>4, <2>5, <3>1
  <2>7. CASE SendEmpty(w)
    <3>1. ResponseAt(f).bodyType \in BodyTypes
      BY <2>7 DEF SendEmpty, BodyTypes
    <3> QED BY <1>4, <2>5, <2>7, <3>1 DEF SendEmpty
  <2>8. CASE SendTail(w)
    BY <1>4, <2>0, <2>8 DEF SendTail
  <2> QED BY <1>1, <1>8, <2>3, <2>4, <2>6, <2>7, <2>8
          DEF SendNext, SendNothing, SendResume, SendRearm, tableVars
<1>9. CASE SendEnd(w)
  <2> DEFINE f == job[w].fd
  <2>1. pc[w] = "sendEnd" /\ job[w].held /\ f \in Fds
    BY <1>9, HeldSteps DEF SendEnd, HoldingSteps
  <2>2. responseStatus' = [responseStatus EXCEPT ![f] = NONE]
    BY <1>4, <1>9, <2>1, EntriesTyped DEF SendEnd
  <2>3. f = fd
    BY <2>2
  <2> QED BY <2>1, <2>3 DEF InHand
<1> QED BY <1>2, <1>6, <1>7, <1>8, <1>9 DEF WorkerNext

LEMMA ReadyStep ==
  ASSUME Types, Custody, ResponseReady, [Next]_vars,
         \A w \in Workers : pc[w] = "sendEnd" => ResponseAt(job[w].fd).status # "INIT"
  PROVE  ResponseReady'
<1> SUFFICES ASSUME NEW fd \in Fds, ToSend(fd)', ~Named(responseStatus'[fd]) PROVE FALSE
  BY DEF ResponseReady
<1> USE DEF Types, WorkTypes, KernelTypes, TableTypes
<1>1. CASE ToSend(fd)
  <2>1. Named(responseStatus[fd])
    BY <1>1 DEF ResponseReady
  <2>2. PICK w \in Workers : pc[w] = "sendEnd" /\ InHand(w, fd)
    BY <2>1, ResponseStays
  <2> QED BY <1>1, <2>2, SenderAlone
<1>2. CASE ~ToSend(fd)
  <2>0. NONE \notin Responses
    BY NoneAssumption
  <2>1. ASSUME UNCHANGED <<m_workQueue, pc, job>>, interest'[fd] = "inout" => interest[fd] = "inout"
        PROVE  FALSE
    BY <1>2, <2>1 DEF ToSend, Slots
  <2>2. \A c \in Clients : ~ClientNext(c)
    BY <2>1 DEF ClientNext, Connect, Ask, SendPiece, Read, Leave, kernelVars, workVars
  <2>3. ASSUME NEW e \in QueuedEvents, m_workQueue' = Append(m_workQueue, e),
               UNCHANGED <<pc, job>>, interest'[fd] = "inout" => interest[fd] = "inout",
               ~(e.fd = fd /\ e.kind = "HandleSend")
        PROVE  FALSE
    <3>1. /\ Len(m_workQueue) \in Nat /\ Len(m_workQueue') = Len(m_workQueue) + 1
          /\ \A i \in 1..Len(m_workQueue) : m_workQueue'[i] = m_workQueue[i]
          /\ m_workQueue'[Len(m_workQueue) + 1] = e
      BY <2>3, AppendProperties, LenProperties
    <3>2. \A i \in Slots' : i = Len(m_workQueue) + 1 \/ (i \in Slots /\ m_workQueue'[i] = m_workQueue[i])
      BY <3>1 DEF Slots
    <3>3. \A i \in Slots' : m_workQueue'[i].fd = fd /\ m_workQueue'[i].kind = "HandleSend" =>
            i \in Slots /\ m_workQueue[i].fd = fd /\ m_workQueue[i].kind = "HandleSend"
      BY <2>3, <3>1, <3>2
    <3> QED BY <1>2, <2>3, <3>3 DEF ToSend
  <2>4. ~MainNext
    <3>1. ASSUME ReportListen PROVE FALSE
      <4>1. Event("AcceptConn", NONE, NONE) \in QueuedEvents
        BY DEF Event, QueuedEvents, Entries
      <4>2. Event("AcceptConn", NONE, NONE).kind # "HandleSend"
        BY DEF Event
      <4> QED BY <2>3, <3>1, <4>1, <4>2 DEF ReportListen, kernelVars
    <3>2. ASSUME NEW f \in Fds, ReportClient(f) PROVE FALSE
      <4> DEFINE e == Event(IF Input(f) THEN "HandleRecv" ELSE "HandleSend", f, owner[f])
      <4>1. owner[f] \in Clients
        BY <3>2 DEF ReportClient
      <4>2. e \in QueuedEvents
        BY <4>1 DEF Event, QueuedEvents, Entries
      <4>3. e.fd = fd /\ e.kind = "HandleSend" => FALSE
        <5>1. e.kind = "HandleSend" => interest[f] = "inout"
          BY <3>2 DEF ReportClient, Event
        <5>2. e.fd = f
          BY DEF Event
        <5> QED BY <1>2, <5>1, <5>2 DEF ToSend
      <4>4. /\ m_workQueue' = Append(m_workQueue, e) /\ UNCHANGED <<pc, job>>
            /\ interest' = [interest EXCEPT ![f] = "off"]
        BY <3>2 DEF ReportClient
      <4> HIDE DEF e
      <4> QED BY <2>3, <4>2, <4>3, <4>4
    <3> QED BY <3>1, <3>2 DEF MainNext
  <2>5. \A w \in Workers : ~Take(w)
    <3> SUFFICES ASSUME NEW w \in Workers, Take(w) PROVE FALSE
      OBVIOUS
    <3> DEFINE e == Head(m_workQueue)
    <3>1. /\ pc[w] = "idle" /\ m_workQueue # <<>> /\ m_workQueue' = Tail(m_workQueue)
          /\ job' = [job EXCEPT ![w] = Job(e.fd, e.conn)] /\ interest' = interest
          /\ pc' = [pc EXCEPT ![w] = CASE e.kind = "AcceptConn" -> "accept"
                                        [] e.kind = "HandleRecv" -> "recvBegin"
                                        [] OTHER -> "sendBegin"]
      BY DEF Take, Goto, kernelVars
    <3>2. /\ Len(m_workQueue) \in Nat \ {0} /\ Len(m_workQueue') = Len(m_workQueue) - 1
          /\ \A i \in 1..Len(m_workQueue') : m_workQueue'[i] = m_workQueue[i + 1]
          /\ e = m_workQueue[1] /\ e \in QueuedEvents
      BY <3>1, HeadTailProperties, EmptySeq
    <3>3. \A i \in Slots' : i + 1 \in Slots /\ m_workQueue'[i] = m_workQueue[i + 1]
      BY <3>2 DEF Slots
    <3>4. interest'[fd] # "inout"
      BY <1>2, <3>1 DEF ToSend
    <3>5. ~\E i \in Slots' : m_workQueue'[i].fd = fd /\ m_workQueue'[i].kind = "HandleSend"
      BY <1>2, <3>3 DEF ToSend
    <3>6. PICK v \in Workers : job'[v].fd = fd /\ pc'[v] = "sendBegin"
      BY <3>4, <3>5 DEF ToSend
    <3>7. v = w
      BY <1>2, <3>1, <3>6 DEF ToSend
    <3>8. e.fd = fd /\ e.kind = "HandleSend"
      <4>1. job'[w].fd = e.fd
        BY <3>1 DEF Job
      <4>2. e.kind \notin {"AcceptConn", "HandleRecv"}
        BY <3>1, <3>6, <3>7
      <4> QED BY <3>2, <3>6, <3>7, <4>1, <4>2 DEF QueuedEvents
    <3>9. 1 \in Slots
      BY <3>2 DEF Slots
    <3> HIDE DEF e
    <3> QED BY <1>2, <3>2, <3>8, <3>9 DEF ToSend
  <2>6. ASSUME NEW w \in Workers, m_workQueue' = m_workQueue,
               \E step \in Steps \ {"sendBegin"} : pc' = [pc EXCEPT ![w] = step],
               \A v \in Workers \ {w} : job'[v] = job[v],
               interest'[fd] = "inout" => interest[fd] = "inout"
        PROVE  FALSE
    <3>1. \A v \in Workers : pc'[v] = "sendBegin" => v # w /\ pc[v] = "sendBegin"
      BY <2>6
    <3> QED BY <1>2, <2>6, <3>1 DEF ToSend, Slots
  <2>7. \A w \in Workers : ~Accept(w)
    <3> SUFFICES ASSUME NEW w \in Workers, Accept(w) PROVE FALSE
      OBVIOUS
    <3>1. interest'[fd] = "inout" => interest[fd] = "inout"
      BY DEF Accept, Added, kernelVars
    <3> QED BY <2>6, <3>1 DEF Accept, Return, Steps
  <2>8. \A w \in Workers : ~RecvNext(w)
    <3> SUFFICES ASSUME NEW w \in Workers, RecvNext(w) PROVE FALSE
      OBVIOUS
    <3> USE DEF Goto, Return, Steps, kernelVars, Released
    <3>1. CASE RecvBegin(w) BY <2>6, <3>1 DEF RecvBegin
    <3>2. CASE RecvPiece(w)
      <4>1. CASE job[w].fd = fd /\ interest' # interest
        <5>1. responseStatus' = [responseStatus EXCEPT ![fd] =
                 [ResponseAt(fd) EXCEPT !.bodyFileName =
                    Resource(Parse(RequestAt(fd), Head(inbox[owner[fd]])).kind)]]
          BY <3>2, <4>1 DEF RecvPiece
        <5>2. [ResponseAt(fd) EXCEPT !.bodyFileName =
                    Resource(Parse(RequestAt(fd), Head(inbox[owner[fd]])).kind)] \in Responses
          BY EntriesTyped DEF KeptResponses, Responses, Resource, Entries
        <5> DEFINE name == Resource(Parse(RequestAt(fd), Head(inbox[owner[fd]])).kind)
        <5>3. name # NONE
          BY ReactorAssumption DEF Resource, AllKinds
        <5> HIDE DEF name
        <5>4. [ResponseAt(fd) EXCEPT !.bodyFileName = name].bodyFileName = name
          BY EntriesTyped DEF KeptResponses, Responses
        <5>5. Named(responseStatus'[fd])
          BY <2>0, <5>1, <5>2, <5>3, <5>4 DEF Named, name
        <5> QED BY <5>5
      <4>2. CASE job[w].fd # fd \/ interest' = interest
        <5>1. interest'[fd] = interest[fd]
          BY <3>2, <4>2 DEF RecvPiece, Armed
        <5>2. m_workQueue' = m_workQueue /\ \A v \in Workers \ {w} : job'[v] = job[v]
          BY <3>2 DEF RecvPiece
        <5>3. \E step \in Steps \ {"sendBegin"} : pc' = [pc EXCEPT ![w] = step]
          BY <3>2 DEF RecvPiece
        <5> QED BY <2>6, <5>1, <5>2, <5>3
      <4> QED BY <4>1, <4>2
    <3>3. CASE RecvLost(w) BY <2>6, <3>3 DEF RecvLost
    <3>4. CASE RecvComplate(w) BY <2>6, <3>4 DEF RecvComplate
    <3>5. CASE RecvEnd(w)
      <4>1. interest'[fd] = "inout" => interest[fd] = "inout"
        BY <3>5 DEF RecvEnd, Closed
      <4>2. m_workQueue' = m_workQueue /\ \A v \in Workers \ {w} : job'[v] = job[v]
        BY <3>5 DEF RecvEnd
      <4>3. \E step \in Steps \ {"sendBegin"} : pc' = [pc EXCEPT ![w] = step]
        BY <3>5 DEF RecvEnd
      <4> QED BY <2>6, <4>1, <4>2, <4>3
    <3>6. CASE RecvErase(w) BY <2>6, <3>6 DEF RecvErase
    <3> QED BY <3>1, <3>2, <3>3, <3>4, <3>5, <3>6 DEF RecvNext
  <2>9. \A w \in Workers : ~SendNext(w)
    <3> SUFFICES ASSUME NEW w \in Workers, SendNext(w) PROVE FALSE
      OBVIOUS
    <3> USE DEF Goto, Return, Steps, kernelVars, Released
    <3>1. CASE SendNothing(w) BY <2>6, <3>1 DEF SendNothing
    <3>2. CASE SendBuild(w)
      <4>1. job[w].fd # fd
        BY <1>2, <3>2 DEF SendBuild, ToSend
      <4>2. interest'[fd] = interest[fd]
        BY <3>2, <4>1 DEF SendBuild, Redirect, Armed
      <4>3. m_workQueue' = m_workQueue /\ \A v \in Workers \ {w} : job'[v] = job[v]
        BY <3>2 DEF SendBuild, Redirect
      <4>4. CASE UNCHANGED <<pc, job>>
        BY <2>1, <4>2, <4>3, <4>4
      <4>5. CASE ~UNCHANGED <<pc, job>>
        <5>1. \E step \in Steps \ {"sendBegin"} : pc' = [pc EXCEPT ![w] = step]
          BY <3>2, <4>5 DEF SendBuild, Redirect
        <5> QED BY <2>6, <4>2, <4>3, <5>1
      <4> QED BY <4>4, <4>5
    <3>3. CASE SendPage(w) BY <2>6, <3>3 DEF SendPage
    <3>4. CASE SendResume(w) BY <2>6, <3>4 DEF SendResume
    <3>5. CASE SendPart(w)
      <4>1. m_workQueue' = m_workQueue /\ job' = job /\ interest' = interest
        BY <3>5 DEF SendPart
      <4>2. \E step \in Steps \ {"sendBegin"} : pc' = [pc EXCEPT ![w] = step]
        BY <3>5 DEF SendPart, SendFails
      <4> QED BY <2>6, <4>1, <4>2
    <3>6. CASE SendEmpty(w) BY <2>6, <3>6 DEF SendEmpty
    <3>7. CASE SendEnd(w)
      <4>1. CASE job[w].fd = fd /\ interest' # interest
        <5>1. responseStatus' = [responseStatus EXCEPT ![fd] = ResponseAt(fd)]
          BY <3>7, <4>1 DEF SendEnd
        <5>2. ResponseAt(fd) \in Responses
          BY EntriesTyped DEF KeptResponses
        <5>3. ResponseAt(fd).status # "INIT"
          BY <3>7, <4>1 DEF SendEnd
        <5> QED BY <2>0, <5>1, <5>2, <5>3 DEF Named
      <4>2. CASE job[w].fd # fd \/ interest' = interest
        <5>1. interest'[fd] = interest[fd]
          BY <3>7, <4>2 DEF SendEnd, Armed
        <5>2. m_workQueue' = m_workQueue /\ \A v \in Workers \ {w} : job'[v] = job[v]
          BY <3>7 DEF SendEnd
        <5>3. \E step \in Steps \ {"sendBegin"} : pc' = [pc EXCEPT ![w] = step]
          BY <3>7 DEF SendEnd
        <5> QED BY <2>6, <5>1, <5>2, <5>3
      <4> QED BY <4>1, <4>2
    <3>8. CASE SendRearm(w)
      <4>1. interest'[fd] = "inout" => interest[fd] = "inout"
        BY <3>8 DEF SendRearm, Armed
      <4> QED BY <2>6, <3>8, <4>1 DEF SendRearm
    <3>9. CASE SendTail(w)
      <4>1. interest'[fd] = "inout" => interest[fd] = "inout"
        BY <3>9 DEF SendTail, Closed
      <4>2. m_workQueue' = m_workQueue /\ \A v \in Workers \ {w} : job'[v] = job[v]
        BY <3>9 DEF SendTail
      <4>3. \E step \in Steps \ {"sendBegin"} : pc' = [pc EXCEPT ![w] = step]
        BY <3>9 DEF SendTail
      <4> QED BY <2>6, <4>1, <4>2, <4>3
    <3> QED BY <3>1, <3>2, <3>3, <3>4, <3>5, <3>6, <3>7, <3>8, <3>9 DEF SendNext
  <2>10. ~Rests
    BY <2>1 DEF Rests, kernelVars, workVars
  <2> QED BY <2>2, <2>4, <2>5, <2>7, <2>8, <2>9, <2>10, NextCases DEF WorkerNext
<1> QED BY <1>1, <1>2

LEMMA ReadyInit == Init => ResponseReady
BY DEF Init, ResponseReady, ToSend, Slots

LEMMA ReadyMeansFound == Types /\ Custody /\ ResponseReady => SendFindsResponse
BY HeldSteps DEF SendFindsResponse, ResponseReady, Named, ToSend, HoldingSteps

(***************************************************************************)
(* Part 2: any number of workers.                                          *)
(***************************************************************************)
FewHeld == IsFiniteSet({w \in Workers : job[w].held})

LEMMA FewHeldStep ==
  ASSUME Types, FewHeld, [Next]_vars
  PROVE  FewHeld'
<1> USE DEF Types, WorkTypes
<1>1. \/ job' = job
      \/ \E w \in Workers : {v \in Workers : job'[v].held} \subseteq
                              {v \in Workers : job[v].held} \cup {w}
  <2>1. CASE job' = job
    BY <2>1
  <2>2. CASE job' # job
    <3>1. PICK w \in Workers : WorkerNext(w)
      BY <2>2, NextCases DEF Rests, workVars, ClientNext, Connect, Ask, SendPiece, Read, Leave,
         MainNext, ReportListen, ReportClient
    <3>2. \E j : job' = [job EXCEPT ![w] = j]
      BY <2>2, <3>1 DEF WorkerNext, Take, Accept, RecvNext, RecvBegin, RecvPiece, RecvLost,
         RecvComplate, RecvEnd, RecvErase, SendNext, SendNothing, SendBuild, Redirect, SendPage,
         SendResume, SendPart, SendEmpty, SendEnd, SendRearm, SendTail, Return, Released
    <3> QED BY <3>2
  <2> QED BY <2>1, <2>2
<1>2. CASE job' = job
  BY <1>2 DEF FewHeld
<1>3. ASSUME NEW w \in Workers,
             {v \in Workers : job'[v].held} \subseteq {v \in Workers : job[v].held} \cup {w}
      PROVE  FewHeld'
  <2>1. IsFiniteSet({v \in Workers : job[v].held} \cup {w})
    BY FS_AddElement DEF FewHeld
  <2> QED BY <1>3, <2>1, FS_Subset DEF FewHeld
<1> QED BY <1>1, <1>2, <1>3

LEMMA RegisteredStep ==
  ASSUME Types, Registered, [Next]_vars
  PROVE  Registered'
<1> USE DEF Types, KernelTypes, WorkTypes
<1>1. Types'
  BY TypesStep
<1> SUFFICES ASSUME NEW fd \in Fds, owner'[fd] \in Clients, interest'[fd] = "none" PROVE FALSE
  BY <1>1 DEF Registered
<1>2. ~UNCHANGED kernelVars
  BY DEF kernelVars, Registered
<1>3. ASSUME NEW f, NEW events \in {"in", "inout", "off"}, owner' = owner,
             interest' \in {interest, Armed(f, events)}
      PROVE  FALSE
  BY <1>3 DEF Armed, Registered
<1>4. ASSUME NEW f, Closed(f) PROVE FALSE
  BY <1>4, ReactorAssumption DEF Closed, Registered
<1>5. ~Rests /\ \A c \in Clients : ~ClientNext(c)
  BY <1>2 DEF Rests, ClientNext, Connect, Ask, SendPiece, Read, Leave
<1>6. ~MainNext
  <2>1. ASSUME NEW f \in Fds, ReportClient(f) PROVE FALSE
    BY <2>1 DEF ReportClient, Registered
  <2> QED BY <1>2, <2>1 DEF MainNext, ReportListen
<1>7. PICK w \in Workers : WorkerNext(w)
  BY <1>5, <1>6, NextCases
<1>8. ~Take(w)
  BY <1>2 DEF Take
<1>9. ~Accept(w)
  <2>1. FreeFds # {} => LowestFree \in Fds
    BY LowestFreeIsFree DEF FreeFds
  <2> QED BY <1>2, <2>1 DEF Accept, Added, Registered
<1>10. ~RecvNext(w)
  BY <1>2, <1>3, <1>4 DEF RecvNext, RecvBegin, RecvPiece, RecvLost, RecvComplate, RecvEnd,
     RecvErase, kernelVars
<1>11. ~SendNext(w)
  <2>1. ~SendBuild(w)
    <3> SUFFICES ASSUME SendBuild(w) PROVE FALSE
      OBVIOUS
    <3>1. \/ \E use \in {"file", "dir"} : /\ owner' = [owner EXCEPT ![LowestFree] = use]
                                          /\ interest' = interest
          \/ owner' = owner /\ interest' \in {interest, Armed(job[w].fd, "inout")}
      BY DEF SendBuild, Redirect, kernelVars
    <3> QED BY <1>3, <3>1, ReactorAssumption DEF Registered
  <2> QED BY <1>2, <1>3, <1>4, <2>1 DEF SendNext, SendNothing, SendPage, SendResume, SendPart,
          SendEmpty, SendEnd, SendRearm, SendTail, kernelVars
<1> QED BY <1>7, <1>8, <1>9, <1>10, <1>11 DEF WorkerNext

(* One hand and the right one, counted and told.                           *)
LEMMA HandsCounted ==
  ASSUME Types, FewHeld, InRightHands
  PROVE  OneHand /\ Rightful
<1> USE DEF Types, WorkTypes
<1>1. ASSUME NEW fd \in Fds
      PROVE  /\ IsFiniteSet(Queued(fd)) /\ IsFiniteSet(Holders(fd))
             /\ Queued(fd) = {i \in Slots : InQueue(i, fd)}
             /\ Holders(fd) = {w \in Workers : InHand(w, fd)}
  <2>1. DOMAIN m_workQueue = 1..Len(m_workQueue) /\ Len(m_workQueue) \in Nat
    BY LenProperties
  <2>2. IsFiniteSet(1..Len(m_workQueue))
    BY <2>1, FS_Interval
  <2>3. Queued(fd) = {i \in Slots : InQueue(i, fd)} /\ Queued(fd) \subseteq 1..Len(m_workQueue)
    BY <2>1 DEF Queued, InQueue, Slots
  <2>4. /\ Holders(fd) = {w \in Workers : InHand(w, fd)}
        /\ Holders(fd) \subseteq {w \in Workers : job[w].held}
    BY DEF Holders, InHand
  <2>5. IsFiniteSet(Queued(fd)) /\ IsFiniteSet(Holders(fd))
    BY <2>2, <2>3, <2>4, FS_Subset DEF FewHeld
  <2> QED BY <2>3, <2>4, <2>5
<1>2. ASSUME NEW fd \in Fds
      PROVE  LET q == Cardinality(Queued(fd))
                 h == Cardinality(Holders(fd))
             IN  /\ q \in Nat /\ h \in Nat
                 /\ (IF InEpoll(fd) THEN 1 ELSE 0) + q + h
                      <= IF owner[fd] \in Clients THEN 1 ELSE 0
  BY <1>1, FS_CardinalityType DEF InRightHands, Tokens, InEpoll
<1>3. ASSUME NEW S, IsFiniteSet(S), Cardinality(S) <= 1
      PROVE  \A x, y \in S : x = y
  <2>1. Cardinality(S) \in Nat
    BY <1>3, FS_CardinalityType
  <2>2. Cardinality(S) = 0 => S = {}
    BY <1>3, FS_EmptySet
  <2>3. Cardinality(S) = 1 => \E z : S = {z}
    BY <1>3, FS_Singleton
  <2> QED BY <1>3, <2>1, <2>2, <2>3
<1>4. ASSUME NEW S, IsFiniteSet(S), S # {}
      PROVE  Cardinality(S) >= 1
  <2>1. Cardinality(S) \in Nat
    BY <1>4, FS_CardinalityType
  <2>2. Cardinality(S) # 0
    BY <1>4, FS_EmptySet
  <2> QED BY <2>1, <2>2
<1>5. ASSUME NEW fd \in Fds
      PROVE  /\ Queued(fd) # {} => Cardinality(Queued(fd)) = 1 /\ Holders(fd) = {}
                                     /\ ~InEpoll(fd) /\ owner[fd] \in Clients
             /\ Holders(fd) # {} => Cardinality(Holders(fd)) = 1 /\ Queued(fd) = {}
                                     /\ ~InEpoll(fd) /\ owner[fd] \in Clients
  <2>1. Queued(fd) # {} => Cardinality(Queued(fd)) >= 1
    BY <1>1, <1>4
  <2>2. Holders(fd) # {} => Cardinality(Holders(fd)) >= 1
    BY <1>1, <1>4
  <2> QED BY <1>2, <2>1, <2>2
<1>6. \A fd \in Fds : /\ \A i : InQueue(i, fd) => i \in Queued(fd)
                      /\ \A w : InHand(w, fd) => w \in Holders(fd)
  BY <1>1 DEF InQueue, InHand
<1>7. OneHand
  <2> SUFFICES ASSUME NEW fd \in Fds
               PROVE  /\ InEpoll(fd) => (\A i : ~InQueue(i, fd)) /\ (\A w : ~InHand(w, fd))
                      /\ \A i, j : InQueue(i, fd) /\ InQueue(j, fd) => i = j
                      /\ \A i, w : ~(InQueue(i, fd) /\ InHand(w, fd))
                      /\ \A v, w : InHand(v, fd) /\ InHand(w, fd) => v = w
    BY DEF OneHand
  <2>1. ASSUME NEW i, NEW j, InQueue(i, fd), InQueue(j, fd) PROVE i = j
    <3>1. i \in Queued(fd) /\ j \in Queued(fd)
      BY <1>6, <2>1
    <3>2. Cardinality(Queued(fd)) = 1
      BY <1>5, <3>1
    <3> QED BY <1>1, <1>3, <3>1, <3>2
  <2>2. ASSUME NEW v, NEW w, InHand(v, fd), InHand(w, fd) PROVE v = w
    <3>1. v \in Holders(fd) /\ w \in Holders(fd)
      BY <1>6, <2>2
    <3>2. Cardinality(Holders(fd)) = 1
      BY <1>5, <3>1
    <3> QED BY <1>1, <1>3, <3>1, <3>2
  <2>3. ASSUME NEW i, InQueue(i, fd) PROVE Queued(fd) # {}
    BY <1>6, <2>3
  <2>4. ASSUME NEW w, InHand(w, fd) PROVE Holders(fd) # {}
    BY <1>6, <2>4
  <2> QED BY <1>5, <2>1, <2>2, <2>3, <2>4
<1>8. Rightful
  <2>1. ASSUME NEW fd \in Fds, NEW i \in Slots, InQueue(i, fd)
        PROVE  m_workQueue[i].conn \in Clients /\ owner[fd] = m_workQueue[i].conn
    <3>1. owner[fd] \in Clients
      BY <1>5, <1>6, <2>1
    <3>2. m_workQueue[i].fd = fd /\ fd # NONE /\ i \in DOMAIN m_workQueue
      BY <2>1, LenProperties, ReactorAssumption DEF InQueue, Slots
    <3> QED BY <3>1, <3>2 DEF InRightHands
  <2>2. ASSUME NEW fd \in Fds, NEW w \in Workers, InHand(w, fd)
        PROVE  job[w].conn \in Clients /\ owner[fd] = job[w].conn
    <3>1. owner[fd] \in Clients
      BY <1>5, <1>6, <2>2
    <3>2. job[w].held /\ job[w].fd = fd /\ fd # NONE
      BY <2>2, ReactorAssumption DEF InHand
    <3> QED BY <3>1, <3>2 DEF InRightHands, OwnConnection
  <2> QED BY <2>1, <2>2 DEF Rightful
<1> QED BY <1>7, <1>8

LEMMA HandsTold == Types /\ OneHand /\ Rightful => InRightHands
<1> SUFFICES ASSUME Types, OneHand, Rightful PROVE InRightHands
  OBVIOUS
<1> USE DEF Types, WorkTypes, KernelTypes
<1>1. \A fd \in Fds : Tokens(fd) <= IF owner[fd] \in Clients THEN 1 ELSE 0
  <2> SUFFICES ASSUME NEW fd \in Fds
               PROVE  Tokens(fd) <= IF owner[fd] \in Clients THEN 1 ELSE 0
    OBVIOUS
  <2>1. HasToken(fd) => owner[fd] \in Clients
    BY DEF HasToken, InEpoll, InQueue, InHand, Rightful
  <2> QED BY <2>1, TokensCounted
<1>2. OwnConnection
  <2> SUFFICES ASSUME NEW w \in Workers, job[w].held, job[w].fd # NONE
               PROVE  owner[job[w].fd] = job[w].conn
    BY DEF OwnConnection
  <2>1. job[w].fd \in Fds
    BY DEF Jobs, Entries
  <2> QED BY <2>1 DEF Rightful, InHand
<1>3. ASSUME NEW i \in DOMAIN m_workQueue, m_workQueue[i].fd # NONE
      PROVE  owner[m_workQueue[i].fd] = m_workQueue[i].conn
  <2>1. i \in Slots /\ m_workQueue[i] \in QueuedEvents
    BY LenProperties, ElementOfSeq DEF Slots
  <2>2. m_workQueue[i].fd \in Fds
    BY <1>3, <2>1 DEF QueuedEvents, Entries
  <2> QED BY <2>1, <2>2 DEF Rightful, InQueue
<1> QED BY <1>1, <1>2, <1>3 DEF InRightHands

(* Any number of workers, whatever the clients ask for and however they    *)
(* leave: as long as no worker that has let go of its event closes a       *)
(* connection, each connection stays in at most one hand, and each event   *)
(* and each worker with the connection it is for.                          *)
THEOREM OnlyLateClosesHarm == Spec => HandsKept
<1> DEFINE Base == Types /\ Phases /\ Registered /\ FewHeld
<1>1. Init => Base
  <2> SUFFICES ASSUME Init PROVE Base
    OBVIOUS
  <2>1. {w \in Workers : job[w].held} = {}
    BY DEF Init, NoJob
  <2> QED BY <2>1, TypesInit, CustodyInit, FS_EmptySet DEF Custody, FewHeld
<1>2. Base /\ [Next]_vars => Base'
  <2> SUFFICES ASSUME Base, [Next]_vars PROVE Base'
    OBVIOUS
  <2>1. Phases'
    <3>1. ASSUME NEW w \in Workers, WorkerNext(w) PROVE Phases'
      BY <3>1, PhasesStep
    <3>2. ASSUME UNCHANGED <<pc, job>> PROVE Phases'
      BY <3>2 DEF Phases
    <3> QED BY <3>1, <3>2, NextCases DEF Rests, workVars, ClientNext, Connect, Ask, SendPiece,
            Read, Leave, MainNext, ReportListen, ReportClient
  <2> QED BY <2>1, TypesStep, RegisteredStep, FewHeldStep
<1> DEFINE Told == Types /\ OneHand /\ Rightful
<1>3. Base /\ [Next]_vars
        => (InRightHands => Told' \/ \E w \in Workers : LateClose(w))
  <2> SUFFICES ASSUME Base, [Next]_vars, InRightHands,
                      \A w \in Workers : ~LateClose(w)
               PROVE  Told'
    OBVIOUS
  <2>1. Custody
    BY HandsCounted DEF Custody
  <2> QED BY <2>1, CustodyStep, TypesStep DEF Custody
<1>4. Told => InRightHands
  BY HandsTold
<1> DEFINE Late == \E w \in Workers : LateClose(w)
<1>5. Base /\ [Next]_vars => (InRightHands => Told' \/ Late)
  BY <1>3
<1> HIDE DEF Base, Told, Late
<1>6. Spec => [][InRightHands => InRightHands' \/ Late]_vars
  BY <1>1, <1>2, <1>4, <1>5, PTL DEF Spec
<1> QED BY <1>6 DEF HandsKept, Late
=============================================================================
