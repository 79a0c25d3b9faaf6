--------------------------- MODULE ReactorProofs ---------------------------
(***************************************************************************)
(* Proofs about module Reactor, for any connections, descriptors and       *)
(* kinds of request, and, where nothing else is said, any workers.         *)
(***************************************************************************)
EXTENDS Reactor, FiniteSetTheorems, SequenceTheorems, WellFoundedInduction, TLAPS

(***************************************************************************)
(* Part 1: types.                                                          *)
(***************************************************************************)
LEMMA LeastNatural ==
  ASSUME NEW S \in SUBSET Nat, S # {}
  PROVE  \E x \in S : \A y \in S : x <= y
<1>1. IsWellFoundedOn(OpToRel(<, Nat), Nat)
  BY NatLessThanWellFounded
<1>2. PICK x \in S : \A y \in S : <<y, x>> \notin OpToRel(<, Nat)
  BY <1>1, WFMin
<1>3. \A y \in S : ~(y < x)
  BY <1>2 DEF OpToRel
<1> QED BY <1>3

LEMMA LowestFreeIsFree == FreeFds # {} => LowestFree \in FreeFds
<1> SUFFICES ASSUME FreeFds # {} PROVE LowestFree \in FreeFds
  OBVIOUS
<1>1. FreeFds \in SUBSET Nat
  BY ReactorAssumption DEF FreeFds
<1>2. \E fd \in FreeFds : \A other \in FreeFds : fd <= other
  BY <1>1, LeastNatural
<1> QED BY <1>2 DEF LowestFree

(* What the main loop hands over, and what a worker keeps. *)
QueuedEvents ==
  {e \in [kind : {"AcceptConn", "HandleRecv", "HandleSend"},
          fd : Entries(Fds), conn : Entries(Clients)] :
     IF e.kind = "AcceptConn" THEN e.fd = NONE ELSE e.fd \in Fds}
Jobs == [fd : Entries(Fds), conn : Entries(Clients), held : BOOLEAN, left : Entries(Lefts)]

(* A Response is given a body type when it leaves its first state. *)
KeptResponses == {r \in Responses : r.status # "INIT" => r.bodyType \in BodyTypes}

NetTypes ==
  /\ link \in [Clients -> {"new", "open", "closed", "aborted", "reset", "dropped", "gone"}]
  /\ want \in [Clients -> Entries(Kinds)]
  /\ sent \in [Clients -> 0..3]
  /\ inbox \in [Clients -> Seq(Kinds \X (1..3))]
  /\ stream \in [Clients -> Seq({"head", "body"} \X BodyTypes)]

AcceptTypes == backlog \in Seq(Clients) /\ listenReady \in BOOLEAN

(* Only the sockets of connections are registered with epoll. *)
KernelTypes ==
  /\ owner \in [Fds -> Clients \cup {"free", "file", "dir"}]
  /\ interest \in [Fds -> {"none", "off", "in", "inout"}]
  /\ \A fd \in Fds : interest[fd] # "none" => owner[fd] \in Clients

WorkTypes ==
  /\ m_workQueue \in Seq(QueuedEvents)
  /\ pc \in [Workers -> Steps]
  /\ job \in [Workers -> Jobs]
  /\ \A w \in Workers :
       /\ IF pc[w] \in {"idle", "accept"} THEN job[w].fd = NONE ELSE job[w].fd \in Fds
       /\ pc[w] \in {"sendRearm", "sendTail"} => job[w].left \in Lefts

TableTypes ==
  /\ requestStatus \in [Fds -> Entries(Requests)]
  /\ responseStatus \in [Fds -> Entries(KeptResponses)]

Types ==
  /\ alive \in BOOLEAN /\ filedir \in BOOLEAN
  /\ NetTypes /\ AcceptTypes /\ KernelTypes /\ WorkTypes /\ TableTypes

LEMMA TypesImplyTypeOK == Types => TypeOK
<1> SUFFICES ASSUME Types PROVE TypeOK
  OBVIOUS
<1> USE DEF Types, NetTypes, AcceptTypes, KernelTypes, WorkTypes, TableTypes
<1>1. \A i \in DOMAIN m_workQueue :
        m_workQueue[i] \in [kind : {"AcceptConn", "HandleRecv", "HandleSend"},
                            fd : Entries(Fds), conn : Entries(Clients)]
  <2>1. DOMAIN m_workQueue = 1..Len(m_workQueue)
    BY LenProperties
  <2>2. \A i \in 1..Len(m_workQueue) : m_workQueue[i] \in QueuedEvents
    BY ElementOfSeq
  <2> QED BY <2>1, <2>2 DEF QueuedEvents
<1>2. \A w \in Workers :
        /\ job[w].fd \in Entries(Fds) /\ job[w].conn \in Entries(Clients)
        /\ job[w].held \in BOOLEAN
        /\ pc[w] \notin {"idle", "accept"} => job[w].fd \in Fds
  BY DEF Jobs
<1>3. responseStatus \in [Fds -> Entries(Responses)]
  BY DEF KeptResponses, Entries
<1>4. /\ \A c \in Clients : inbox[c] \in Seq(Kinds \X (1..3))
      /\ \A c \in Clients : stream[c] \in Seq({"head", "body"} \X BodyTypes)
  OBVIOUS
<1> QED BY <1>1, <1>2, <1>3, <1>4 DEF TypeOK

LEMMA TypesInit == Init => Types
<1> SUFFICES ASSUME Init PROVE Types
  OBVIOUS
<1> USE DEF Init
<1>1. alive \in BOOLEAN /\ filedir \in BOOLEAN
  OBVIOUS
<1>2. NetTypes
  <2>1. <<>> \in Seq(Kinds \X (1..3)) /\ <<>> \in Seq({"head", "body"} \X BodyTypes)
    BY EmptySeq
  <2> QED BY <2>1 DEF NetTypes, Entries
<1>3. AcceptTypes
  BY EmptySeq DEF AcceptTypes
<1>4. KernelTypes
  BY DEF KernelTypes
<1>5. WorkTypes
  <2>1. <<>> \in Seq(QueuedEvents)
    BY EmptySeq
  <2>2. NoJob \in Jobs
    BY DEF NoJob, Jobs, Entries
  <2> QED BY <2>1, <2>2 DEF WorkTypes, Steps, NoJob
<1>6. TableTypes
  BY DEF TableTypes, Entries
<1> QED BY <1>1, <1>2, <1>3, <1>4, <1>5, <1>6 DEF Types

(* The entries that operator[] finds or creates. *)
LEMMA EntriesTyped ==
  ASSUME Types, NEW fd \in Fds
  PROVE  RequestAt(fd) \in Requests /\ ResponseAt(fd) \in KeptResponses
BY DEF Types, TableTypes, RequestAt, ResponseAt, Request, Response, Requests,
   Responses, KeptResponses, Entries, Statuses

LEMMA ClosedTyped ==
  ASSUME Types, NEW fd \in Fds, Closed(fd)
  PROVE  /\ KernelTypes'
         /\ link' \in [Clients -> {"new", "open", "closed", "aborted", "reset",
                                   "dropped", "gone"}]
BY DEF Types, NetTypes, KernelTypes, Closed

LEMMA ArmedTyped ==
  ASSUME Types, NEW fd \in Fds, NEW events \in {"in", "inout"},
         interest' = Armed(fd, events), owner' = owner
  PROVE  KernelTypes'
BY DEF Types, KernelTypes, Armed

(* The steps of clients. *)
LEMMA TypesClient ==
  ASSUME Types, NEW c \in Clients, ClientNext(c)
  PROVE  Types'
<1> USE DEF Types, netVars, acceptVars, kernelVars, workVars, tableVars
<1>0. /\ UNCHANGED kernelVars => KernelTypes'
      /\ UNCHANGED workVars => WorkTypes'
      /\ UNCHANGED tableVars => TableTypes'
      /\ UNCHANGED acceptVars => AcceptTypes'
  BY DEF KernelTypes, WorkTypes, TableTypes, AcceptTypes
<1> USE DEF NetTypes
<1>1. CASE Connect(c)
  <2>1. AcceptTypes'
    BY <1>1, AppendProperties DEF Connect, AcceptTypes
  <2> QED BY <1>1, <1>0, <2>1 DEF Connect
<1>2. CASE Ask(c)
  <2>1. PICK k \in Kinds : /\ want' = [want EXCEPT ![c] = k]
                           /\ inbox' = [inbox EXCEPT ![c] = Append(@, <<k, 1>>)]
    BY <1>2 DEF Ask
  <2>2. Append(inbox[c], <<k, 1>>) \in Seq(Kinds \X (1..3))
    <3>1. <<k, 1>> \in Kinds \X (1..3)
      OBVIOUS
    <3> QED BY <3>1, AppendProperties
  <2>3. sent' = [sent EXCEPT ![c] = 1] /\ UNCHANGED <<link, stream>>
    BY <1>2 DEF Ask
  <2>4. NetTypes'
    BY <2>1, <2>2, <2>3 DEF Entries
  <2> QED BY <1>2, <1>0, <2>4 DEF Ask
<1>3. CASE SendPiece(c)
  <2>1. sent[c] + 1 \in 1..3 /\ want[c] \in Kinds
    <3>1. want[c] \in Kinds /\ sent[c] \in 0..3
      BY <1>3 DEF SendPiece, Entries
    <3>2. sent[c] < Pieces(want[c]) /\ Pieces(want[c]) \in {2, 3}
      BY <1>3 DEF SendPiece, Pieces
    <3> HIDE DEF Types, NetTypes
    <3> QED BY <3>1, <3>2
  <2>2. Append(inbox[c], <<want[c], sent[c] + 1>>) \in Seq(Kinds \X (1..3))
    <3>1. <<want[c], sent[c] + 1>> \in Kinds \X (1..3)
      BY <2>1
    <3> QED BY <3>1, AppendProperties
  <2>3. NetTypes'
    BY <1>3, <2>1, <2>2 DEF SendPiece
  <2> QED BY <1>3, <1>0, <2>3 DEF SendPiece
<1>4. CASE Read(c)
  <2>1. <<>> \in Seq({"head", "body"} \X BodyTypes)
    BY EmptySeq
  <2>2. NetTypes'
    BY <1>4, <2>1 DEF Read, Entries
  <2> QED BY <1>4, <1>0, <2>2 DEF Read
<1>5. CASE Leave(c)
  <2>1. <<>> \in Seq({"head", "body"} \X BodyTypes)
    BY EmptySeq
  <2>2. PICK gone \in {"closed", "aborted"} : link' = [link EXCEPT ![c] = gone]
    BY <1>5 DEF Leave
  <2>3. /\ want' = [want EXCEPT ![c] = NONE] /\ sent' = [sent EXCEPT ![c] = 0]
        /\ stream' = [stream EXCEPT ![c] = <<>>] /\ inbox' = inbox
    BY <1>5 DEF Leave
  <2>4. NetTypes'
    BY <2>1, <2>2, <2>3 DEF Entries
  <2> QED BY <1>5, <1>0, <2>4 DEF Leave
<1> QED BY <1>1, <1>2, <1>3, <1>4, <1>5 DEF ClientNext

(* The steps of the main loop. *)
LEMMA TypesMain ==
  ASSUME Types, MainNext
  PROVE  Types'
<1> USE DEF Types, netVars, acceptVars, kernelVars, workVars, tableVars
<1>1. CASE ReportListen
  <2>1. Event("AcceptConn", NONE, NONE) \in QueuedEvents
    BY DEF Event, QueuedEvents, Entries
  <2>2. m_workQueue' \in Seq(QueuedEvents)
    BY <1>1, <2>1, AppendProperties DEF ReportListen, WorkTypes
  <2>3. WorkTypes'
    BY <1>1, <2>2 DEF ReportListen, WorkTypes
  <2> QED BY <1>1, <2>3 DEF ReportListen, NetTypes, AcceptTypes, KernelTypes, TableTypes
<1>2. CASE \E fd \in Fds : ReportClient(fd)
  <2>1. PICK fd \in Fds : ReportClient(fd)
    BY <1>2
  <2>2. owner[fd] \in Clients
    BY <2>1 DEF ReportClient, KernelTypes
  <2>3. Event(IF Input(fd) THEN "HandleRecv" ELSE "HandleSend", fd, owner[fd])
          \in QueuedEvents
    BY <2>2 DEF Event, QueuedEvents, Entries
  <2>4. m_workQueue' \in Seq(QueuedEvents)
    BY <2>1, <2>3, AppendProperties DEF ReportClient, WorkTypes
  <2>5. WorkTypes'
    BY <2>1, <2>4 DEF ReportClient, WorkTypes
  <2>6. KernelTypes'
    BY <2>1, <2>2 DEF ReportClient, KernelTypes
  <2> QED BY <2>1, <2>5, <2>6 DEF ReportClient, NetTypes, AcceptTypes, TableTypes
<1> QED BY <1>1, <1>2 DEF MainNext

(* A worker's next step, with its job unchanged or released, and its last. *)
LEMMA GotoTyped ==
  ASSUME Types, NEW w \in Workers, NEW step \in Steps \ {"idle", "accept", "sendRearm"},
         pc[w] \notin {"idle", "accept"},
         step = "sendTail" => job[w].left \in Lefts,
         Goto(w, step), job' = job \/ Released(w), UNCHANGED m_workQueue
  PROVE  WorkTypes'
<1> USE DEF Types, WorkTypes, Goto
<1>1. pc' \in [Workers -> Steps]
  OBVIOUS
<1>2. /\ job' \in [Workers -> Jobs]
      /\ \A v \in Workers : job'[v].fd = job[v].fd /\ job'[v].left = job[v].left
  <2>1. CASE job' = job
    BY <2>1
  <2>2. CASE Released(w)
    BY <2>2 DEF Released, Jobs
  <2> QED BY <2>1, <2>2
<1>3. \A v \in Workers :
        /\ IF pc'[v] \in {"idle", "accept"} THEN job'[v].fd = NONE ELSE job'[v].fd \in Fds
        /\ pc'[v] \in {"sendRearm", "sendTail"} => job'[v].left \in Lefts
  BY <1>2
<1> QED BY <1>1, <1>2, <1>3

LEMMA ReturnTyped ==
  ASSUME Types, NEW w \in Workers, Return(w), UNCHANGED m_workQueue
  PROVE  WorkTypes'
BY DEF Types, WorkTypes, Return, NoJob, Jobs, Entries, Steps

(* The steps of workers. *)
LEMMA TypesTake ==
  ASSUME Types, NEW w \in Workers, Take(w)
  PROVE  Types'
<1> USE DEF Types, netVars, acceptVars, kernelVars, tableVars
<1> DEFINE e == Head(m_workQueue)
           step == CASE e.kind = "AcceptConn" -> "accept"
                     [] e.kind = "HandleRecv" -> "recvBegin"
                     [] OTHER -> "sendBegin"
<1>1. e \in QueuedEvents /\ Tail(m_workQueue) \in Seq(QueuedEvents)
  BY HeadTailProperties DEF Take, WorkTypes
<1>2. /\ pc' = [pc EXCEPT ![w] = step] /\ job' = [job EXCEPT ![w] = Job(e.fd, e.conn)]
      /\ m_workQueue' = Tail(m_workQueue)
  BY DEF Take, Goto
<1>3. /\ Job(e.fd, e.conn) \in Jobs
      /\ IF step = "accept" THEN e.fd = NONE ELSE e.fd \in Fds
      /\ step \in {"accept", "recvBegin", "sendBegin"}
  BY <1>1 DEF QueuedEvents, Job, Jobs, Entries
<1>4. Job(e.fd, e.conn).fd = e.fd
  BY DEF Job
<1> HIDE DEF e, step
<1>5. WorkTypes'
  BY <1>1, <1>2, <1>3, <1>4 DEF WorkTypes, Steps
<1> QED BY <1>5 DEF Take, NetTypes, AcceptTypes, KernelTypes, TableTypes

LEMMA TypesAccept ==
  ASSUME Types, NEW w \in Workers, Accept(w)
  PROVE  Types'
<1> USE DEF Types, netVars, acceptVars, kernelVars, tableVars
<1>1. WorkTypes'
  BY ReturnTyped DEF Accept
<1>2. KernelTypes' /\ AcceptTypes'
  <2>1. CASE FreeFds = {}
    BY <2>1 DEF Accept, KernelTypes, AcceptTypes
  <2>2. CASE FreeFds # {}
    <3>1. LowestFree \in Fds
      BY <2>2, LowestFreeIsFree DEF FreeFds
    <3>2. Head(backlog) \in Clients /\ Tail(backlog) \in Seq(Clients)
      BY HeadTailProperties DEF Accept, AcceptTypes
    <3>3. /\ owner' = [owner EXCEPT ![LowestFree] = Head(backlog)]
          /\ interest' = [interest EXCEPT ![LowestFree] = "in"]
          /\ backlog' = Tail(backlog) /\ listenReady' = listenReady
      BY <2>2 DEF Accept, Added
    <3> QED BY <3>1, <3>2, <3>3 DEF KernelTypes, AcceptTypes
  <2> QED BY <2>1, <2>2
<1> QED BY <1>1, <1>2 DEF Accept, NetTypes, TableTypes

LEMMA ParseTyped ==
  ASSUME NEW r \in Requests, NEW p \in Kinds \X (1..3)
  PROVE  Parse(r, p) \in Requests
BY ReactorAssumption DEF Requests, Parse, Entries, Statuses, AllKinds

LEMMA TypesRecv ==
  ASSUME Types, NEW w \in Workers, RecvNext(w)
  PROVE  Types'
<1> USE DEF Types, netVars, acceptVars, kernelVars, tableVars
<1> DEFINE fd == job[w].fd
<1>1. pc[w] \notin {"idle", "accept"} => fd \in Fds
  BY DEF WorkTypes
<1>2. CASE RecvBegin(w)
  <2>1. WorkTypes'
    BY <1>2, GotoTyped DEF RecvBegin, Steps
  <2>2. TableTypes'
    BY <1>1, <1>2, EntriesTyped DEF RecvBegin, TableTypes, Entries
  <2> QED BY <1>2, <2>1, <2>2 DEF RecvBegin, NetTypes, AcceptTypes, KernelTypes
<1>3. CASE RecvPiece(w)
  <2> DEFINE c == owner[fd]
             p == Head(inbox[c])
             r == Parse(RequestAt(fd), p)
  <2>1. /\ pc[w] = "recv" /\ c \in Clients /\ inbox[c] # <<>> /\ fd \in Fds
        /\ inbox' = [inbox EXCEPT ![c] = Tail(inbox[c])]
        /\ requestStatus' = [requestStatus EXCEPT ![fd] = r]
        /\ filedir' = (filedir \/ (r.status = "BODY" /\ r.kind = "upload" /\ p[2] = 3
                                    /\ ~Unsavable(r, p)))
    BY <1>1, <1>3 DEF RecvPiece
  <2>2. p \in Kinds \X (1..3) /\ Tail(inbox[c]) \in Seq(Kinds \X (1..3))
    BY <2>1, HeadTailProperties DEF NetTypes
  <2>3. r \in Requests
    BY <2>1, <2>2, EntriesTyped, ParseTyped
  <2>4. NetTypes'
    BY <1>3, <2>1, <2>2 DEF RecvPiece, NetTypes
  <2>5. CASE Answerable(r, p)
    <3>1. /\ responseStatus' = [responseStatus EXCEPT ![fd] =
                 [ResponseAt(fd) EXCEPT !.bodyFileName = Resource(r.kind)]]
          /\ interest' = Armed(fd, "inout")
          /\ Released(w) /\ Goto(w, "complate")
      BY <1>3, <2>5 DEF RecvPiece
    <3>2. WorkTypes'
      BY <1>3, <2>1, <3>1, GotoTyped DEF RecvPiece, Steps
    <3>3. KernelTypes'
      BY <1>3, <2>1, <3>1, ArmedTyped DEF RecvPiece
    <3>4. [ResponseAt(fd) EXCEPT !.bodyFileName = Resource(r.kind)] \in KeptResponses
      BY <2>1, EntriesTyped DEF KeptResponses, Responses, Resource, Entries
    <3>5. TableTypes'
      BY <2>1, <2>3, <3>1, <3>4 DEF TableTypes, Entries
    <3> QED BY <1>3, <2>1, <2>4, <3>2, <3>3, <3>5 DEF RecvPiece, AcceptTypes
  <2>6. CASE ~Answerable(r, p)
    <3>1. /\ UNCHANGED <<interest, job, responseStatus>>
          /\ Goto(w, IF Unsavable(r, p) THEN "recvEnd" ELSE "recv")
      BY <1>3, <2>6 DEF RecvPiece
    <3>2. WorkTypes'
      <4>1. PICK step \in {"recvEnd", "recv"} : Goto(w, step)
        BY <3>1
      <4>2. step \in Steps \ {"idle", "accept", "sendRearm"} /\ step # "sendTail"
        BY DEF Steps
      <4> QED BY <1>3, <2>1, <3>1, <4>1, <4>2, GotoTyped DEF RecvPiece
    <3>3. TableTypes'
      BY <2>1, <2>3, <3>1 DEF TableTypes, Entries
    <3> QED BY <1>3, <2>1, <2>4, <3>1, <3>2, <3>3 DEF RecvPiece, AcceptTypes, KernelTypes
  <2> QED BY <2>5, <2>6
<1>4. CASE RecvLost(w)
  <2>1. WorkTypes'
    BY <1>4, GotoTyped DEF RecvLost, Steps
  <2>2. [RequestAt(fd) EXCEPT !.status = "ERROR"] \in Requests
    BY <1>1, <1>4, EntriesTyped DEF RecvLost, Requests, Statuses
  <2>3. TableTypes'
    BY <1>1, <1>4, <2>2 DEF RecvLost, TableTypes, Entries
  <2> QED BY <1>4, <2>1, <2>3 DEF RecvLost, NetTypes, AcceptTypes, KernelTypes
<1>5. CASE RecvComplate(w)
  <2>1. WorkTypes'
    BY <1>5, GotoTyped DEF RecvComplate, Steps
  <2>2. [RequestAt(fd) EXCEPT !.status = "COMPLATE"] \in Requests
    BY <1>1, <1>5, EntriesTyped DEF RecvComplate, Requests, Statuses
  <2>3. TableTypes'
    BY <1>1, <1>5, <2>2 DEF RecvComplate, TableTypes, Entries
  <2> QED BY <1>5, <2>1, <2>3 DEF RecvComplate, NetTypes, AcceptTypes, KernelTypes
<1>6. CASE RecvEnd(w)
  <2>1. pc[w] = "recvEnd" /\ fd \in Fds
    BY <1>1, <1>6 DEF RecvEnd
  <2>2. TableTypes'
    <3>1. RequestAt(fd) \in Requests
      BY <2>1, EntriesTyped
    <3>2. PICK r \in Entries(Requests) : requestStatus' = [requestStatus EXCEPT ![fd] = r]
      BY <1>6, <3>1 DEF RecvEnd, Entries
    <3> QED BY <1>6, <3>2 DEF RecvEnd, TableTypes
  <2>3. CASE RequestAt(fd).status = "ERROR"
    <3>1. Closed(fd) /\ Released(w) /\ Goto(w, "recvErase")
      BY <1>6, <2>3 DEF RecvEnd
    <3>2. WorkTypes'
      BY <1>6, <2>1, <3>1, GotoTyped DEF RecvEnd, Steps
    <3> QED BY <1>6, <2>1, <2>2, <3>1, <3>2, ClosedTyped DEF RecvEnd, NetTypes, AcceptTypes
  <2>4. CASE RequestAt(fd).status # "ERROR"
    <3>1. Return(w) /\ UNCHANGED <<owner, interest, link>>
      BY <1>6, <2>4 DEF RecvEnd
    <3>2. WorkTypes'
      BY <1>6, <3>1, ReturnTyped DEF RecvEnd
    <3> QED BY <1>6, <2>2, <3>1, <3>2 DEF RecvEnd, NetTypes, AcceptTypes, KernelTypes
  <2> QED BY <2>3, <2>4
<1>7. CASE RecvErase(w)
  <2>1. WorkTypes'
    BY <1>7, ReturnTyped DEF RecvErase
  <2>2. TableTypes'
    BY <1>1, <1>7 DEF RecvErase, TableTypes, Entries
  <2> QED BY <1>7, <2>1, <2>2 DEF RecvErase, NetTypes, AcceptTypes, KernelTypes
<1> QED BY <1>2, <1>3, <1>4, <1>5, <1>6, <1>7 DEF RecvNext

LEMMA TypesSend ==
  ASSUME Types, NEW w \in Workers, SendNext(w)
  PROVE  Types'
<1> USE DEF Types, netVars, acceptVars, kernelVars, tableVars
<1> DEFINE fd == job[w].fd
<1>1. pc[w] \notin {"idle", "accept"} => fd \in Fds
  BY DEF WorkTypes
<1>2. CASE SendNothing(w)
  <2>1. WorkTypes'
    BY <1>2, ReturnTyped DEF SendNothing
  <2> QED BY <1>2, <2>1 DEF SendNothing, NetTypes, AcceptTypes, KernelTypes, TableTypes
<1>3. CASE SendBuild(w)
  <2> DEFINE r == responseStatus[fd]
  <2>0. /\ pc[w] = "sendBegin" /\ fd \in Fds /\ r \in KeptResponses
        /\ UNCHANGED <<netVars, acceptVars, m_workQueue, requestStatus>>
    BY <1>1, <1>3 DEF SendBuild, TableTypes, Entries
  <2>1. UNCHANGED <<interest, owner>> => KernelTypes'
    BY DEF KernelTypes
  <2>2. ASSUME FreeFds # {}, NEW use \in {"file", "dir"}, interest' = interest,
               owner' = [owner EXCEPT ![LowestFree] = use]
        PROVE  LowestFree \in Fds /\ KernelTypes'
    <3>1. LowestFree \in Fds /\ owner[LowestFree] = "free"
      BY <2>2, LowestFreeIsFree DEF FreeFds
    <3>2. interest[LowestFree] = "none"
      BY <3>1, ReactorAssumption DEF KernelTypes
    <3> QED BY <2>2, <3>1, <3>2 DEF KernelTypes
  <2>3. ASSUME Redirect(w, fd) PROVE WorkTypes' /\ TableTypes' /\ (owner' = owner => KernelTypes')
    <3>1. [Response EXCEPT !.bodyFileName = "redirect"] \in KeptResponses
      BY DEF Response, KeptResponses, Responses, Statuses, Entries
    <3>2. TableTypes'
      BY <2>0, <2>3, <3>1 DEF Redirect, TableTypes, Entries
    <3> QED BY <2>0, <2>3, <3>2, ReturnTyped, ArmedTyped DEF Redirect
  <2>4. ASSUME NEW type \in BodyTypes, NEW file \in Entries(Fds),
               responseStatus' = [responseStatus EXCEPT ![fd] = Built(r, type, file)],
               Goto(w, "send"), UNCHANGED <<interest, job>>
        PROVE  WorkTypes' /\ TableTypes'
    <3>1. Built(r, type, file) \in KeptResponses
      BY <2>0 DEF Built, KeptResponses, Responses, Statuses, Entries
    <3>2. TableTypes'
      BY <2>0, <2>4, <3>1 DEF TableTypes, Entries
    <3> QED BY <2>0, <2>4, <3>2, GotoTyped DEF Steps
  <2>5. CASE /\ r.bodyFileName = "list" /\ FreeFds # {}
             /\ owner' = [owner EXCEPT ![LowestFree] = "dir"]
             /\ Goto(w, "page")
             /\ UNCHANGED <<alive, interest, job, responseStatus, filedir>>
    <3>1. WorkTypes'
      BY <2>0, <2>5, GotoTyped DEF Steps
    <3>2. KernelTypes'
      BY <2>2, <2>5
    <3> QED BY <2>0, <2>5, <3>1, <3>2 DEF NetTypes, AcceptTypes, TableTypes
  <2>6. CASE /\ alive' = FALSE
             /\ UNCHANGED <<kernelVars, pc, job, responseStatus, filedir>>
    BY <2>0, <2>6 DEF NetTypes, AcceptTypes, KernelTypes, WorkTypes, TableTypes
  <2>7. CASE /\ FreeFds # {}
             /\ owner' = [owner EXCEPT ![LowestFree] = "file"]
             /\ responseStatus' = [responseStatus EXCEPT ![fd] = Built(r, "FILE", LowestFree)]
             /\ Goto(w, "send")
             /\ UNCHANGED <<interest, job, alive, filedir>>
    <3>1. KernelTypes' /\ LowestFree \in Fds
      BY <2>2, <2>7
    <3>2. WorkTypes' /\ TableTypes'
      BY <2>4, <2>7, <3>1 DEF BodyTypes, Entries
    <3> QED BY <2>0, <2>7, <3>1, <3>2 DEF NetTypes, AcceptTypes
  <2>8. CASE Redirect(w, fd) /\ UNCHANGED <<alive, owner>> /\ filedir' \in BOOLEAN
    BY <2>0, <2>3, <2>8 DEF NetTypes, AcceptTypes
  <2>9. CASE /\ responseStatus' = [responseStatus EXCEPT ![fd] = Built(r, "EMPTY", NONE)]
             /\ Goto(w, "send")
             /\ UNCHANGED <<interest, job, alive, owner, filedir>>
    <3>1. WorkTypes' /\ TableTypes'
      BY <2>4, <2>9 DEF BodyTypes, Entries
    <3> QED BY <2>0, <2>1, <2>9, <3>1 DEF NetTypes, AcceptTypes
  <2> QED BY <1>3, <2>5, <2>6, <2>7, <2>8, <2>9 DEF SendBuild
<1>4. CASE SendPage(w)
  <2>0. /\ pc[w] = "page" /\ fd \in Fds
        /\ UNCHANGED <<alive, netVars, acceptVars, kernelVars, m_workQueue, job,
                 requestStatus, filedir>>
    BY <1>1, <1>4 DEF SendPage
  <2>1. WorkTypes'
    <3>1. PICK step \in {"lost", "send"} : Goto(w, step)
      BY <1>4 DEF SendPage
    <3>2. step \in Steps \ {"idle", "accept", "sendRearm"} /\ step # "sendTail"
      BY DEF Steps
    <3> QED BY <2>0, <3>1, <3>2, GotoTyped
  <2>2. Built(ResponseAt(fd), "HTML", NONE) \in KeptResponses
    <3>1. ResponseAt(fd) \in Responses /\ "HTML" \in BodyTypes
      BY <2>0, EntriesTyped DEF KeptResponses, BodyTypes
    <3> QED BY <3>1 DEF Built, KeptResponses, Responses, Statuses, Entries
  <2>3. TableTypes'
    BY <1>4, <2>0, <2>2 DEF SendPage, TableTypes, Entries
  <2> QED BY <2>0, <2>1, <2>3 DEF NetTypes, AcceptTypes, KernelTypes
<1>5. CASE SendResume(w)
  <2>1. WorkTypes'
    BY <1>5, GotoTyped DEF SendResume, Steps
  <2> QED BY <1>5, <2>1 DEF SendResume, NetTypes, AcceptTypes, KernelTypes, TableTypes
<1>6. CASE SendPart(w)
  <2> DEFINE r == ResponseAt(fd)
             part == IF r.status = "HEAD" THEN "head" ELSE "body"
  <2>0. /\ pc[w] = "send" /\ fd \in Fds
        /\ r \in KeptResponses /\ RequestAt(fd) \in Requests /\ r.bodyType \in BodyTypes
        /\ alive' \in BOOLEAN
        /\ UNCHANGED <<want, sent, inbox, acceptVars, kernelVars, m_workQueue, job, filedir>>
    BY <1>1, <1>6, EntriesTyped DEF SendPart, KeptResponses
  <2>1. link' \in [Clients -> {"new", "open", "closed", "aborted", "reset", "dropped", "gone"}]
    <3>1. link' = link \/ \E later \in BOOLEAN : link' = LinkAfterSend(fd, later)
      BY <1>6 DEF SendPart
    <3> QED BY <3>1 DEF LinkAfterSend, NetTypes
  <2>2. CASE SendFails(w, fd) /\ UNCHANGED <<stream, responseStatus>>
    <3>1. WorkTypes'
      BY <2>0, <2>2, GotoTyped DEF SendFails, Steps
    <3>2. [RequestAt(fd) EXCEPT !.status = "ERROR"] \in Requests
      BY <2>0 DEF Requests, Statuses
    <3>3. TableTypes'
      BY <2>0, <2>2, <3>2 DEF SendFails, TableTypes, Entries
    <3> QED BY <2>0, <2>1, <2>2, <3>1, <3>3 DEF NetTypes, AcceptTypes, KernelTypes
  <2>3. CASE /\ stream' = Delivered(fd, <<part, r.bodyType>>)
             /\ responseStatus' = [responseStatus EXCEPT ![fd] =
                  [r EXCEPT !.status = IF part = "head" THEN "BODY" ELSE "COMPLATE"]]
             /\ Goto(w, IF part = "head" THEN "send" ELSE "sendEnd")
             /\ UNCHANGED requestStatus
    <3>1. WorkTypes'
      <4>1. PICK step \in {"send", "sendEnd"} : Goto(w, step)
        BY <2>3
      <4>2. step \in Steps \ {"idle", "accept", "sendRearm"} /\ step # "sendTail"
        BY DEF Steps
      <4> QED BY <2>0, <4>1, <4>2, GotoTyped
    <3>2. [r EXCEPT !.status = IF part = "head" THEN "BODY" ELSE "COMPLATE"] \in KeptResponses
      BY <2>0 DEF KeptResponses, Responses, Statuses
    <3>3. TableTypes'
      BY <2>0, <2>3, <3>2 DEF TableTypes, Entries
    <3>4. <<part, r.bodyType>> \in {"head", "body"} \X BodyTypes
      BY <2>0
    <3>5. \A c \in Clients : Append(stream[c], <<part, r.bodyType>>)
                               \in Seq({"head", "body"} \X BodyTypes)
      BY <3>4, AppendProperties DEF NetTypes
    <3>6. stream' \in [Clients -> Seq({"head", "body"} \X BodyTypes)]
      BY <2>3, <3>5 DEF Delivered, NetTypes
    <3> QED BY <2>0, <2>1, <2>3, <3>1, <3>3, <3>6 DEF NetTypes, AcceptTypes, KernelTypes
  <2> QED BY <1>6, <2>2, <2>3 DEF SendPart
<1>7. CASE SendEmpty(w)
  <2>1. WorkTypes'
    BY <1>7, GotoTyped DEF SendEmpty, Steps
  <2>2. [ResponseAt(fd) EXCEPT !.status = "COMPLATE"] \in KeptResponses
    BY <1>1, <1>7, EntriesTyped DEF SendEmpty, KeptResponses, Responses, Statuses, BodyTypes
  <2>3. TableTypes'
    BY <1>1, <1>7, <2>2 DEF SendEmpty, TableTypes, Entries
  <2> QED BY <1>7, <2>1, <2>3 DEF SendEmpty, NetTypes, AcceptTypes, KernelTypes
<1>8. CASE SendEnd(w)
  <2> DEFINE r == ResponseAt(fd)
  <2>0. /\ pc[w] = "sendEnd" /\ fd \in Fds /\ r \in KeptResponses
        /\ UNCHANGED <<alive, netVars, acceptVars, owner, m_workQueue, requestStatus, filedir>>
    BY <1>1, <1>8, EntriesTyped DEF SendEnd
  <2>1. CASE r.status = "COMPLATE"
    <3>1. /\ responseStatus' = [responseStatus EXCEPT ![fd] = NONE]
          /\ job' = [job EXCEPT ![w].left = [bodyType |-> r.bodyType,
                                             fileMsgFd |-> r.fileMsgFd]]
          /\ Goto(w, "sendRearm")
          /\ UNCHANGED interest
      BY <1>8, <2>1 DEF SendEnd
    <3>2. [bodyType |-> r.bodyType, fileMsgFd |-> r.fileMsgFd] \in Lefts
      BY <2>0 DEF KeptResponses, Responses, Lefts
    <3>3. job' \in [Workers -> Jobs]
      BY <3>1, <3>2 DEF WorkTypes, Jobs, Entries
    <3>4. WorkTypes'
      BY <2>0, <3>1, <3>2, <3>3 DEF WorkTypes, Goto, Steps, Jobs
    <3> QED BY <2>0, <3>1, <3>4 DEF NetTypes, AcceptTypes, KernelTypes, TableTypes, Entries
  <2>2. CASE r.status # "COMPLATE"
    <3>1. /\ responseStatus' = [responseStatus EXCEPT ![fd] = r]
          /\ interest' = Armed(fd, "inout")
          /\ Return(w)
      BY <1>8, <2>2 DEF SendEnd
    <3>2. WorkTypes' /\ KernelTypes'
      BY <2>0, <3>1, ReturnTyped, ArmedTyped
    <3> QED BY <2>0, <3>1, <3>2 DEF NetTypes, AcceptTypes, TableTypes, Entries
  <2> QED BY <2>1, <2>2
<1>9. CASE SendRearm(w)
  <2>1. /\ pc[w] = "sendRearm" /\ fd \in Fds /\ job[w].left \in Lefts
        /\ interest' = Armed(fd, "in") /\ Released(w) /\ Goto(w, "sendTail")
        /\ UNCHANGED <<alive, netVars, acceptVars, owner, m_workQueue, tableVars, filedir>>
    BY <1>1, <1>9 DEF SendRearm, WorkTypes
  <2>2. WorkTypes' /\ KernelTypes'
    BY <2>1, GotoTyped, ArmedTyped DEF Steps
  <2> QED BY <2>1, <2>2 DEF NetTypes, AcceptTypes, TableTypes
<1>10. CASE SendTail(w)
  <2> DEFINE r == ResponseAt(fd)
             file(m) == IF m.bodyType = "FILE" THEN m.fileMsgFd ELSE NONE
  <2>0. /\ pc[w] = "sendTail" /\ fd \in Fds /\ r \in KeptResponses /\ job[w].left \in Lefts
        /\ responseStatus' = [responseStatus EXCEPT ![fd] = r]
        /\ Return(w)
        /\ UNCHANGED <<alive, want, sent, inbox, stream, acceptVars, m_workQueue,
                       requestStatus, filedir>>
    BY <1>1, <1>10, EntriesTyped DEF SendTail, WorkTypes
  <2>1. PICK m \in IF r.bodyType = NONE THEN Leftovers(w) ELSE {r} :
               IF file(m) = NONE THEN UNCHANGED <<owner, interest, link>> ELSE Closed(file(m))
    BY <1>10 DEF SendTail
  <2>2. file(m) \in Entries(Fds)
    <3>1. \A l \in Leftovers(w) : l.fileMsgFd \in Entries(Fds)
      BY <2>0 DEF Leftovers, Lefts, Entries
    <3>2. r.fileMsgFd \in Entries(Fds)
      BY <2>0 DEF KeptResponses, Responses
    <3> QED BY <2>1, <3>1, <3>2 DEF Entries
  <2>3. WorkTypes'
    BY <2>0, ReturnTyped
  <2>4. TableTypes'
    BY <2>0 DEF TableTypes, Entries
  <2>5. CASE file(m) = NONE
    BY <2>0, <2>1, <2>3, <2>4, <2>5 DEF NetTypes, AcceptTypes, KernelTypes
  <2>6. CASE file(m) # NONE
    <3>1. file(m) \in Fds /\ Closed(file(m))
      BY <2>1, <2>2, <2>6 DEF Entries
    <3>2. /\ KernelTypes'
          /\ link' \in [Clients -> {"new", "open", "closed", "aborted", "reset",
                                    "dropped", "gone"}]
      BY <3>1, ClosedTyped
    <3> QED BY <2>0, <2>3, <2>4, <3>2 DEF NetTypes, AcceptTypes
  <2> QED BY <2>5, <2>6
<1> QED BY <1>2, <1>3, <1>4, <1>5, <1>6, <1>7, <1>8, <1>9, <1>10 DEF SendNext

(* A step that leaves everything but alive as it is: of no one, or one in  *)
(* which a handler is cut off.                                             *)
Rests ==
  /\ alive' \in {alive, FALSE}
  /\ UNCHANGED <<netVars, acceptVars, kernelVars, workVars, tableVars, filedir>>

LEMMA NextCases ==
  ASSUME [Next]_vars
  PROVE  \/ \E c \in Clients : ClientNext(c)
         \/ MainNext
         \/ \E w \in Workers : WorkerNext(w)
         \/ Rests
BY DEF Next, vars, Throws, OutOfMemory, Rests

LEMMA TypesStep == Types /\ [Next]_vars => Types'
<1> SUFFICES ASSUME Types, [Next]_vars PROVE Types'
  OBVIOUS
<1>1. ASSUME NEW c \in Clients, ClientNext(c) PROVE Types'
  BY <1>1, TypesClient
<1>2. CASE MainNext
  BY <1>2, TypesMain
<1>3. ASSUME NEW w \in Workers, WorkerNext(w) PROVE Types'
  BY <1>3, TypesTake, TypesAccept, TypesRecv, TypesSend DEF WorkerNext
<1>4. CASE Rests
  <2>1. alive' \in BOOLEAN
    BY <1>4 DEF Rests, Types
  <2> QED BY <1>4, <2>1 DEF Types, NetTypes, AcceptTypes, KernelTypes, WorkTypes, TableTypes,
     Rests, netVars, acceptVars, kernelVars, workVars, tableVars
<1> QED BY <1>1, <1>2, <1>3, <1>4, NextCases

LEMMA TypesHold == Spec => []Types
<1> QED BY TypesInit, TypesStep, PTL DEF Spec

(* Every variable keeps its type, whatever the order of events: the tables *)
(* hold a Request or a Response or nothing, a worker that handles an event *)
(* of a connection has its descriptor, and a client receives heads and     *)
(* bodies.                                                                 *)
THEOREM TypeCorrect == Spec => []TypeOK
<1> QED BY TypesHold, TypesImplyTypeOK, PTL

(***************************************************************************)
(* Part 2: every report of the listening socket stands for a connection.   *)
(***************************************************************************)

(* The positions of a queue that hold a member of S, and how their number  *)
(* changes when an element is put in or taken out.                         *)
At(q, S) == {i \in 1..Len(q) : q[i] \in S}

LEMMA AtFinite ==
  ASSUME NEW T, NEW q \in Seq(T), NEW S
  PROVE  IsFiniteSet(At(q, S)) /\ Cardinality(At(q, S)) \in Nat
<1>1. IsFiniteSet(1..Len(q))
  BY LenProperties, FS_Interval
<1>2. At(q, S) \in SUBSET (1..Len(q))
  BY DEF At
<1> QED BY <1>1, <1>2, FS_Subset, FS_CardinalityType

LEMMA AtAppend ==
  ASSUME NEW T, NEW q \in Seq(T), NEW S, NEW e \in T
  PROVE  Cardinality(At(Append(q, e), S))
           = Cardinality(At(q, S)) + IF e \in S THEN 1 ELSE 0
<1>1. /\ Len(q) \in Nat /\ Len(Append(q, e)) = Len(q) + 1
      /\ \A i \in 1..Len(q) : Append(q, e)[i] = q[i]
      /\ Append(q, e)[Len(q) + 1] = e
  BY AppendProperties, LenProperties
<1>2. At(Append(q, e), S) = At(q, S) \cup (IF e \in S THEN {Len(q) + 1} ELSE {})
  BY <1>1 DEF At
<1>3. Len(q) + 1 \notin At(q, S)
  BY <1>1 DEF At
<1>4. IsFiniteSet(At(q, S)) /\ Cardinality(At(q, S)) \in Nat
  BY AtFinite
<1>5. CASE e \in S
  BY <1>2, <1>3, <1>4, <1>5, FS_AddElement
<1>6. CASE e \notin S
  BY <1>2, <1>4, <1>6
<1> QED BY <1>5, <1>6

LEMMA AtTail ==
  ASSUME NEW T, NEW q \in Seq(T), NEW S, q # <<>>
  PROVE  Cardinality(At(q, S))
           = Cardinality(At(Tail(q), S)) + IF Head(q) \in S THEN 1 ELSE 0
<1> DEFINE A == At(Tail(q), S)
           B == At(q, S) \ {1}
           f == [i \in A |-> i + 1]
<1>1. /\ Tail(q) \in Seq(T) /\ Len(q) \in Nat \ {0} /\ Len(Tail(q)) = Len(q) - 1
      /\ \A i \in 1..Len(Tail(q)) : Tail(q)[i] = q[i + 1]
  BY HeadTailProperties, EmptySeq
<1>2. Head(q) = q[1]
  BY <1>1
<1>3. f \in Bijection(A, B)
  <2>1. A \subseteq Nat /\ \A i \in A : i + 1 \in B
    BY <1>1 DEF At
  <2>2. f \in [A -> B]
    BY <2>1
  <2>3. \A i, j \in A : f[i] = f[j] => i = j
    BY <2>1
  <2>4. \A j \in B : j - 1 \in A /\ f[j - 1] = j
    BY <1>1 DEF At
  <2> HIDE DEF f, A, B
  <2>5. f \in Injection(A, B)
    BY <2>2, <2>3 DEF Injection, IsInjective
  <2>6. f \in Surjection(A, B)
    BY <2>2, <2>4 DEF Surjection
  <2> QED BY <2>5, <2>6 DEF Bijection
<1>4. IsFiniteSet(A) /\ Cardinality(A) \in Nat /\ IsFiniteSet(At(q, S))
  BY <1>1, AtFinite
<1>5. IsFiniteSet(B) /\ Cardinality(B) = Cardinality(A)
  <2>1. ExistsBijection(A, B)
    BY <1>3 DEF ExistsBijection
  <2> HIDE DEF A, B
  <2> QED BY <1>4, <2>1, FS_Bijection
<1>6. CASE Head(q) \in S
  <2>1. At(q, S) = B \cup {1} /\ 1 \notin B
    BY <1>1, <1>2, <1>6 DEF At
  <2> HIDE DEF B
  <2> QED BY <1>4, <1>5, <1>6, <2>1, FS_AddElement
<1>7. CASE Head(q) \notin S
  <2>1. At(q, S) = B
    BY <1>1, <1>2, <1>7 DEF At
  <2> HIDE DEF B
  <2> QED BY <1>4, <1>5, <1>7, <2>1
<1> QED BY <1>6, <1>7

AcceptReports == {e \in QueuedEvents : e.kind = "AcceptConn"}

LEMMA AcceptEventsAt == Types => AcceptEvents = At(m_workQueue, AcceptReports)
<1> SUFFICES ASSUME Types PROVE AcceptEvents = At(m_workQueue, AcceptReports)
  OBVIOUS
<1>1. DOMAIN m_workQueue = 1..Len(m_workQueue)
  BY LenProperties DEF Types, WorkTypes
<1>2. \A i \in 1..Len(m_workQueue) : m_workQueue[i] \in QueuedEvents
  BY ElementOfSeq DEF Types, WorkTypes
<1> QED BY <1>1, <1>2 DEF AcceptEvents, At, AcceptReports

(* That only finitely many workers are in accept is part of the invariant: *)
(* the pool itself may have any size.                                      *)
Covered == IsFiniteSet(Accepting) /\ AcceptCovered

(* A step that leaves a flag, a queue and the workers in accept as they    *)
(* are keeps the sum.                                                      *)
LEMMA CoveredFrame ==
  ASSUME Covered, listenReady' = listenReady, AcceptEvents' = AcceptEvents,
         Accepting' = Accepting, backlog' = backlog
  PROVE  Covered'
BY DEF Covered, AcceptCovered

(* A worker that is not in accept before or after its step changes nothing *)
(* of it.                                                                  *)
LEMMA NotAccepting ==
  ASSUME Types, NEW w \in Workers, pc[w] # "accept",
         UNCHANGED <<acceptVars, m_workQueue>>,
         \E step \in Steps \ {"accept"} : pc' = [pc EXCEPT ![w] = step],
         Covered
  PROVE  Covered'
<1>1. Accepting' = Accepting
  BY DEF Accepting, Types, WorkTypes
<1>2. AcceptEvents' = AcceptEvents
  BY DEF AcceptEvents
<1> QED BY <1>1, <1>2, CoveredFrame DEF acceptVars

LEMMA CoveredStep == Types /\ Covered /\ [Next]_vars => Covered'
<1> SUFFICES ASSUME Types, Covered, [Next]_vars PROVE Covered'
  OBVIOUS
<1> DEFINE Q == Cardinality(AcceptEvents)
           A == Cardinality(Accepting)
           L == IF listenReady THEN 1 ELSE 0
<1>1. /\ Q \in Nat /\ A \in Nat /\ Len(backlog) \in Nat /\ L + Q + A <= Len(backlog)
      /\ Q = Cardinality(At(m_workQueue, AcceptReports))
      /\ backlog \in Seq(Clients) /\ m_workQueue \in Seq(QueuedEvents)
      /\ IsFiniteSet(Accepting)
  <2>1. m_workQueue \in Seq(QueuedEvents) /\ backlog \in Seq(Clients)
    BY DEF Types, WorkTypes, AcceptTypes
  <2>2. A \in Nat
    BY FS_CardinalityType DEF Covered
  <2>3. Len(backlog) \in Nat
    BY <2>1, LenProperties
  <2>4. Q \in Nat /\ Q = Cardinality(At(m_workQueue, AcceptReports))
    BY <2>1, AtFinite, AcceptEventsAt
  <2> QED BY <2>1, <2>2, <2>3, <2>4 DEF Covered, AcceptCovered
<1>2. Types'
  BY TypesStep
<1>3. AcceptEvents' = At(m_workQueue', AcceptReports)
  <2>1. DOMAIN m_workQueue' = 1..Len(m_workQueue')
    BY <1>2, LenProperties DEF Types, WorkTypes
  <2>2. \A i \in 1..Len(m_workQueue') : m_workQueue'[i] \in QueuedEvents
    BY <1>2, ElementOfSeq DEF Types, WorkTypes
  <2> QED BY <2>1, <2>2 DEF AcceptEvents, At, AcceptReports
<1> SUFFICES /\ IsFiniteSet(Accepting')
             /\ (IF listenReady' THEN 1 ELSE 0)
                  + Cardinality(At(m_workQueue', AcceptReports))
                  + Cardinality(Accepting') <= Len(backlog')
  BY <1>3 DEF Covered, AcceptCovered
<1> DEFINE Goal == /\ IsFiniteSet(Accepting')
                   /\ (IF listenReady' THEN 1 ELSE 0)
                        + Cardinality(At(m_workQueue', AcceptReports))
                        + Cardinality(Accepting') <= Len(backlog')
<1>4. ASSUME Covered' PROVE Goal
  BY <1>3, <1>4 DEF Covered, AcceptCovered
<1>5. ASSUME NEW c \in Clients, ClientNext(c) PROVE Goal
  <2>1. CASE Connect(c)
    <3>1. /\ Len(backlog') = Len(backlog) + 1 /\ listenReady' = TRUE
          /\ m_workQueue' = m_workQueue /\ pc' = pc
      BY <1>1, <2>1, AppendProperties DEF Connect, workVars
    <3>2. Accepting' = Accepting
      BY <3>1 DEF Accepting
    <3> QED BY <1>1, <3>1, <3>2
  <2>2. CASE ~Connect(c)
    <3>1. UNCHANGED <<acceptVars, workVars>>
      BY <1>5, <2>2 DEF ClientNext, Ask, SendPiece, Read, Leave
    <3>2. Covered'
      BY <3>1, CoveredFrame DEF acceptVars, workVars, AcceptEvents, Accepting
    <3> QED BY <1>4, <3>2
  <2> QED BY <2>1, <2>2
<1>6. CASE ReportListen
  <2>1. Event("AcceptConn", NONE, NONE) \in AcceptReports
    BY DEF Event, AcceptReports, QueuedEvents, Entries
  <2>2. Cardinality(At(m_workQueue', AcceptReports)) = Q + 1
    BY <1>1, <1>6, <2>1, AtAppend DEF ReportListen, AcceptReports
  <2>3. Accepting' = Accepting /\ listenReady /\ ~listenReady' /\ backlog' = backlog
    BY <1>6 DEF ReportListen, Accepting
  <2> QED BY <1>1, <2>2, <2>3
<1>7. ASSUME NEW fd \in Fds, ReportClient(fd) PROVE Goal
  <2> DEFINE e == Event(IF Input(fd) THEN "HandleRecv" ELSE "HandleSend", fd, owner[fd])
  <2>1. owner[fd] \in Clients
    BY <1>7 DEF ReportClient, Types, KernelTypes
  <2>2. e \in QueuedEvents /\ e \notin AcceptReports
    BY <2>1 DEF Event, AcceptReports, QueuedEvents, Entries
  <2>3. m_workQueue' = Append(m_workQueue, e)
    BY <1>7 DEF ReportClient
  <2> HIDE DEF e
  <2>4. Cardinality(At(m_workQueue', AcceptReports)) = Q
    BY <1>1, <2>2, <2>3, AtAppend
  <2>5. Accepting' = Accepting /\ UNCHANGED acceptVars
    BY <1>7 DEF ReportClient, Accepting
  <2> QED BY <1>1, <2>4, <2>5 DEF acceptVars
<1>8. ASSUME NEW w \in Workers, Take(w) PROVE Goal
  <2> DEFINE e == Head(m_workQueue)
  <2>1. /\ pc[w] = "idle" /\ m_workQueue # <<>> /\ m_workQueue' = Tail(m_workQueue)
        /\ UNCHANGED acceptVars
        /\ pc' = [pc EXCEPT ![w] = CASE e.kind = "AcceptConn" -> "accept"
                                      [] e.kind = "HandleRecv" -> "recvBegin"
                                      [] OTHER -> "sendBegin"]
    BY <1>8 DEF Take, Goto
  <2>2. e \in QueuedEvents
    BY <1>1, <2>1, HeadTailProperties
  <2>3. Q = Cardinality(At(m_workQueue', AcceptReports))
              + IF e \in AcceptReports THEN 1 ELSE 0
    BY <1>1, <2>1, AtTail
  <2>4. m_workQueue' \in Seq(QueuedEvents)
    BY <1>1, <2>1, HeadTailProperties
  <2>5. Cardinality(At(m_workQueue', AcceptReports)) \in Nat
    BY <2>4, AtFinite
  <2>6. CASE e \in AcceptReports
    <3>1. pc' = [pc EXCEPT ![w] = "accept"]
      BY <2>1, <2>6 DEF AcceptReports
    <3>2. Accepting' = Accepting \cup {w} /\ w \notin Accepting
      BY <2>1, <3>1 DEF Accepting, Types, WorkTypes
    <3>3. IsFiniteSet(Accepting') /\ Cardinality(Accepting') = A + 1
      BY <1>1, <3>2, FS_AddElement
    <3> QED BY <1>1, <2>1, <2>3, <2>5, <2>6, <3>3 DEF acceptVars
  <2>7. CASE e \notin AcceptReports
    <3>1. Accepting' = Accepting
      BY <2>1, <2>2, <2>7 DEF AcceptReports, Accepting, Types, WorkTypes
    <3> QED BY <1>1, <2>1, <2>3, <2>5, <2>7, <3>1 DEF acceptVars
  <2> QED BY <2>6, <2>7
<1>9. ASSUME NEW w \in Workers, Accept(w) PROVE Goal
  <2>1. /\ pc[w] = "accept" /\ backlog # <<>> /\ pc' = [pc EXCEPT ![w] = "idle"]
        /\ backlog' = backlog \/ backlog' = Tail(backlog)
        /\ UNCHANGED <<listenReady, m_workQueue>>
    BY <1>9 DEF Accept, Return
  <2>2. Accepting' = Accepting \ {w} /\ w \in Accepting
    BY <2>1 DEF Accepting, Types, WorkTypes
  <2>3. IsFiniteSet(Accepting') /\ Cardinality(Accepting') = A - 1
    BY <1>1, <2>2, FS_RemoveElement
  <2>4. Len(backlog') \in {Len(backlog), Len(backlog) - 1}
    BY <1>1, <2>1, HeadTailProperties
  <2> QED BY <1>1, <2>1, <2>3, <2>4
<1>10. ASSUME NEW w \in Workers, RecvNext(w) PROVE Goal
  <2>1. /\ UNCHANGED <<acceptVars, m_workQueue>> /\ pc[w] # "accept"
        /\ \E step \in Steps \ {"accept"} : pc' = [pc EXCEPT ![w] = step]
    <3> USE DEF Goto, Return, Steps
    <3>1. CASE RecvBegin(w) BY <3>1 DEF RecvBegin
    <3>2. CASE RecvPiece(w) BY <3>2 DEF RecvPiece
    <3>3. CASE RecvLost(w) BY <3>3 DEF RecvLost
    <3>4. CASE RecvComplate(w) BY <3>4 DEF RecvComplate
    <3>5. CASE RecvEnd(w) BY <3>5 DEF RecvEnd
    <3>6. CASE RecvErase(w) BY <3>6 DEF RecvErase
    <3> QED BY <1>10, <3>1, <3>2, <3>3, <3>4, <3>5, <3>6 DEF RecvNext
  <2> QED BY <1>4, <2>1, NotAccepting
<1>11. ASSUME NEW w \in Workers, SendNext(w) PROVE Goal
  <2>1. /\ UNCHANGED <<acceptVars, m_workQueue>> /\ pc[w] # "accept"
        /\ \E step \in Steps \ {"accept"} : pc' = [pc EXCEPT ![w] = step]
    <3> USE DEF Goto, Return, Steps
    <3>1. CASE SendNothing(w) BY <3>1 DEF SendNothing
    <3>2. CASE SendBuild(w)
      <4>1. pc' = pc => pc' = [pc EXCEPT ![w] = "sendBegin"]
        BY <3>2 DEF SendBuild, Types, WorkTypes
      <4> QED BY <3>2, <4>1 DEF SendBuild, Redirect
    <3>3. CASE SendPage(w) BY <3>3 DEF SendPage
    <3>4. CASE SendResume(w) BY <3>4 DEF SendResume
    <3>5. CASE SendPart(w) BY <3>5 DEF SendPart, SendFails
    <3>6. CASE SendEmpty(w) BY <3>6 DEF SendEmpty
    <3>7. CASE SendEnd(w) BY <3>7 DEF SendEnd
    <3>8. CASE SendRearm(w) BY <3>8 DEF SendRearm
    <3>9. CASE SendTail(w) BY <3>9 DEF SendTail
    <3> QED BY <1>11, <3>1, <3>2, <3>3, <3>4, <3>5, <3>6, <3>7, <3>8, <3>9 DEF SendNext
  <2> QED BY <1>4, <2>1, NotAccepting
<1>12. CASE Rests
  <2>1. Covered'
    BY <1>12, CoveredFrame DEF Rests, acceptVars, workVars, AcceptEvents, Accepting
  <2> QED BY <1>4, <2>1
<1> QED BY <1>5, <1>6, <1>7, <1>8, <1>9, <1>10, <1>11, <1>12, NextCases DEF MainNext, WorkerNext

LEMMA CoveredInit == Init => Covered
<1> SUFFICES ASSUME Init PROVE Covered
  OBVIOUS
<1>1. AcceptEvents = {} /\ Accepting = {} /\ Len(backlog) = 0 /\ ~listenReady
  BY DEF Init, AcceptEvents, Accepting
<1> QED BY <1>1, FS_EmptySet DEF Covered, AcceptCovered

(* However many connections arrive together, and whatever the workers do   *)
(* in the meantime, a worker that calls accept finds one waiting: the      *)
(* reports not yet used up, in the kernel, in the queue or in a worker's   *)
(* hands, are never more than the connections in the accept queue.         *)
THEOREM AcceptNeverBlocks == Spec => []AcceptCovered
<1>1. Covered => AcceptCovered
  BY DEF Covered
<1> QED BY <1>1, TypesHold, CoveredInit, CoveredStep, PTL DEF Spec
=============================================================================
