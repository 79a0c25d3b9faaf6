------------------------- MODULE ReactorSoloProofs -------------------------
(***************************************************************************)
(* Proofs about module Reactor with a single worker, whatever the clients  *)
(* ask for and however they leave: no handler overlaps with another, so    *)
(* that what one leaves behind is what the next one finds.                 *)
(***************************************************************************)
EXTENDS ReactorCustodyProofs

OneWorker == \A v, w \in Workers : v = w

(***************************************************************************)
(* Part 1: custody and files.                                              *)
(***************************************************************************)

(* What a handler has made sure of at each step. *)
SoloAt(w) ==
  LET fd == job[w].fd IN
  /\ pc[w] = "complate" => HasToken(fd)
  /\ pc[w] = "recvEnd" =>
       /\ requestStatus[fd] # NONE
       /\ IF job[w].held THEN requestStatus[fd].status = "ERROR" \/ GivenUp(fd)
                         ELSE requestStatus[fd].status = "COMPLATE" /\ HasToken(fd)
  /\ pc[w] = "recvErase" => owner[fd] = "free"
  /\ pc[w] = "page" => responseStatus[fd] # NONE /\ responseStatus[fd].status = "INIT"
  /\ pc[w] \in {"send", "sendEnd"} =>
       responseStatus[fd] # NONE /\ responseStatus[fd].status # "INIT"
  /\ pc[w] \in {"sendRearm", "sendTail"} => responseStatus[fd] = NONE
  /\ job[w].left # NONE => pc[w] \in {"sendRearm", "sendTail"}
Solo == \A w \in Workers : SoloAt(w)

(* A connection that is in no hand was given up. *)
HeldOrGivenUp == \A fd \in Fds : owner[fd] \in Clients => HasToken(fd) \/ GivenUp(fd)

(* A Response has no body before it is built. *)
FreshResponses ==
  \A fd \in Fds :
    responseStatus[fd] # NONE /\ responseStatus[fd].status = "INIT"
      => responseStatus[fd].bodyType = NONE

(* Every open file has one user, and every user an open file. *)
FileUsers ==
  \A f \in Fds :
    /\ owner[f] = "file" <=> \/ \E fd \in Fds : SendingFile(fd, f)
                             \/ \E w \in Workers : FinishingFile(w, f)
    /\ \A d, e \in Fds : SendingFile(d, f) /\ SendingFile(e, f) => d = e
    /\ \A d \in Fds, w \in Workers : ~(SendingFile(d, f) /\ FinishingFile(w, f))

Alone == Custody /\ ResponseReady /\ Solo /\ HeldOrGivenUp /\ FreshResponses /\ FileUsers

LEMMA AloneClosesOwn ==
  ASSUME Types, Alone, Recycles
  PROVE  ClosesOwn
<1> SUFFICES ASSUME NEW w \in Workers
             PROVE  /\ pc[w] = "recvEnd" /\ RequestAt(job[w].fd).status = "ERROR" => job[w].held
                    /\ pc[w] = "sendTail" =>
                         \A m \in Tails(w) : m.bodyType = "FILE" /\ m.fileMsgFd \in Fds =>
                                               owner[m.fileMsgFd] \notin Clients
  BY DEF ClosesOwn
<1>1. ASSUME pc[w] = "recvEnd", RequestAt(job[w].fd).status = "ERROR" PROVE job[w].held
  BY <1>1 DEF Alone, Solo, SoloAt, RequestAt
<1>2. ASSUME pc[w] = "sendTail", NEW m \in Tails(w), m.bodyType = "FILE", m.fileMsgFd \in Fds
      PROVE  owner[m.fileMsgFd] \notin Clients
  <2>1. m = job[w].left
    BY <1>2 DEF Tails, Leftovers, ResponseAt, Response, Alone, Solo, SoloAt
  <2>2. job[w].left # NONE
    BY <1>2, NoneAssumption DEF Types, WorkTypes
  <2>3. FinishingFile(w, m.fileMsgFd)
    BY <1>2, <2>1, <2>2 DEF FinishingFile
  <2>4. owner[m.fileMsgFd] = "file"
    BY <1>2, <2>3 DEF Alone, FileUsers
  <2> QED BY <2>4, ReactorAssumption
<1> QED BY <1>1, <1>2

(* The hand of a connection is lost only when the upload is given up. *)
LEMMA HandGivenUp ==
  ASSUME Types, Alone, Recycles, [Next]_vars, NEW fd \in Fds,
         HasToken(fd) \/ owner[fd] \notin Clients,
         owner'[fd] \in Clients, ~HasToken(fd)'
  PROVE  GivenUp(fd)'
<1>1. PICK w \in Workers :
        /\ InHand(w, fd)
        /\ SendNothing(w) \/ (RecvEnd(w) /\ RequestAt(fd).status # "ERROR")
  BY AloneClosesOwn, TokenStep DEF Alone
<1>2. CASE SendNothing(w)
  BY <1>1, <1>2 DEF SendNothing, Alone, ResponseReady, Named, ToSend, InHand
<1>3. CASE RecvEnd(w) /\ RequestAt(fd).status # "ERROR"
  <2>1. pc[w] = "recvEnd" /\ job[w].held /\ job[w].fd = fd
    BY <1>1, <1>3 DEF RecvEnd, InHand
  <2>2. GivenUp(fd) /\ RequestAt(fd) = requestStatus[fd]
    BY <1>3, <2>1 DEF Alone, Solo, SoloAt, RequestAt
  <2>3. requestStatus' = [requestStatus EXCEPT ![fd] = requestStatus[fd]]
    BY <1>3, <2>1, <2>2 DEF RecvEnd, GivenUp
  <2> QED BY <2>2, <2>3 DEF GivenUp, Types, TableTypes
<1> QED BY <1>1, <1>2, <1>3

LEMMA HeldOrGivenUpStep ==
  ASSUME Types, Alone, Recycles, [Next]_vars
  PROVE  HeldOrGivenUp'
<1> SUFFICES ASSUME NEW fd \in Fds, owner'[fd] \in Clients, ~HasToken(fd)'
             PROVE  GivenUp(fd)'
  BY DEF HeldOrGivenUp
<1>1. CASE HasToken(fd) \/ owner[fd] \notin Clients
  BY <1>1, HandGivenUp
<1>2. CASE ~HasToken(fd) /\ owner[fd] \in Clients
  <2>1. GivenUp(fd)
    BY <1>2 DEF Alone, HeldOrGivenUp
  <2> SUFFICES requestStatus'[fd] = requestStatus[fd]
    BY <2>1 DEF GivenUp
  <2> SUFFICES ASSUME requestStatus' # requestStatus PROVE requestStatus'[fd] = requestStatus[fd]
    OBVIOUS
  <2>2. PICK w \in Workers : WorkerNext(w)
    BY NextCases DEF Rests, tableVars, ClientNext, Connect, Ask, SendPiece, Read, Leave,
       MainNext, ReportListen, ReportClient
  <2>3. \/ RecvBegin(w) \/ RecvPiece(w) \/ RecvLost(w) \/ RecvComplate(w) \/ RecvEnd(w)
        \/ RecvErase(w) \/ SendPart(w)
    BY <2>2 DEF WorkerNext, RecvNext, SendNext, Take, Accept, SendNothing, SendBuild, SendPage,
       SendResume, SendEmpty, SendEnd, SendRearm, SendTail, tableVars
  <2>4. job[w].fd # fd
    <3> SUFFICES ASSUME job[w].fd = fd PROVE FALSE
      OBVIOUS
    <3>1. ~job[w].held
      BY <1>2 DEF HasToken, InHand
    <3>2. pc[w] \in {"complate", "recvEnd", "recvErase"}
      BY <2>3, <3>1, HeldSteps DEF RecvBegin, RecvPiece, RecvLost, RecvComplate, RecvEnd,
         RecvErase, SendPart, HoldingSteps, Alone
    <3> QED BY <1>2, <3>1, <3>2, ReactorAssumption DEF Alone, Solo, SoloAt
  <2>5. \E r : requestStatus' = [requestStatus EXCEPT ![job[w].fd] = r]
    <3>1. CASE SendPart(w)
      BY <3>1 DEF SendPart, SendFails
    <3> QED BY <2>3, <3>1 DEF RecvBegin, RecvPiece, RecvLost, RecvComplate, RecvEnd, RecvErase
  <2> QED BY <2>4, <2>5 DEF Types, TableTypes
<1> QED BY <1>1, <1>2

LEMMA SoloOthers ==
  ASSUME Types, Alone, Recycles, [Next]_vars,
         UNCHANGED <<pc, job, owner, tableVars>>
  PROVE  Solo'
<1> SUFFICES ASSUME NEW w \in Workers, pc[w] \in {"complate", "recvEnd"}, HasToken(job[w].fd)
             PROVE  HasToken(job[w].fd)'
  BY DEF Alone, Solo, SoloAt, tableVars, GivenUp
<1>1. PICK fd \in Fds : fd = job[w].fd
  BY DEF Types, WorkTypes
<1>2. owner[fd] \in Clients
  BY <1>1 DEF HasToken, InEpoll, InQueue, InHand, Alone, Custody, Registered, Rightful
<1>3. \A v \in Workers : ~SendNothing(v) /\ ~RecvEnd(v)
  <2> SUFFICES ASSUME NEW v \in Workers, SendNothing(v) \/ RecvEnd(v) PROVE FALSE
    OBVIOUS
  <2>1. pc[v] \in {"sendBegin", "recvEnd"} /\ pc'[v] \in {"idle", "recvErase"}
    BY DEF SendNothing, RecvEnd, Return, Goto, Types, WorkTypes
  <2> QED BY <2>1
<1>4. HasToken(fd)'
  BY <1>1, <1>2, <1>3, AloneClosesOwn, TokenStep DEF Alone
<1> QED BY <1>1, <1>4

LEMMA SoloAlone ==
  ASSUME OneWorker, NEW w \in Workers
  PROVE  SoloAt(w)' => Solo'
BY DEF OneWorker, Solo

(* Nothing is to be shown of a worker at the other steps. *)
LEMMA SoloFree ==
  ASSUME Types, NEW w \in Workers, NEW step, pc' = [pc EXCEPT ![w] = step],
         step \in {"idle", "accept", "recvBegin", "recv", "sendBegin", "lost"},
         job'[w].left = NONE
  PROVE  SoloAt(w)'
BY DEF Types, WorkTypes, SoloAt

LEMMA SoloReturn ==
  ASSUME Types, NEW w \in Workers, Return(w)
  PROVE  SoloAt(w)'
<1>1. job'[w].left = NONE
  BY DEF Return, NoJob, Types, WorkTypes
<1> QED BY <1>1, SoloFree DEF Return

LEMMA SoloRecv ==
  ASSUME Types, Alone, Recycles, NEW w \in Workers, RecvNext(w)
  PROVE  SoloAt(w)'
<1> USE DEF Types, WorkTypes, Goto
<1> DEFINE fd == job[w].fd
<1>0. /\ pc[w] \in {"recvBegin", "recv", "complate", "recvEnd", "recvErase"}
      /\ fd \in Fds /\ job[w].left = NONE
  BY DEF RecvNext, RecvBegin, RecvPiece, RecvLost, RecvComplate, RecvEnd, RecvErase,
     Alone, Solo, SoloAt
<1>1. CASE RecvBegin(w)
  BY <1>0, <1>1, SoloFree DEF RecvBegin
<1>2. CASE RecvPiece(w)
  <2> DEFINE p == Head(inbox[owner[fd]])
             r == Parse(RequestAt(fd), p)
  <2>1. /\ pc[w] = "recv" /\ job[w].held
        /\ requestStatus' = [requestStatus EXCEPT ![fd] = r]
    BY <1>2, HeldSteps DEF RecvPiece, Alone, HoldingSteps
  <2>2. CASE Answerable(r, p)
    <3>1. interest' = Armed(fd, "inout") /\ Released(w) /\ Goto(w, "complate")
      BY <1>2, <2>2 DEF RecvPiece
    <3>2. Armed(fd, "inout") = [interest EXCEPT ![fd] = "inout"]
      BY <1>0, <2>1, ArmedWhenHeld DEF Alone
    <3>3. PICK f \in Fds : f = fd
      BY <1>0
    <3>4. job'[w].fd = f /\ job'[w].left = NONE /\ pc'[w] = "complate"
      BY <1>0, <3>1, <3>3 DEF Released, Jobs
    <3>5. HasToken(f)'
      BY <3>1, <3>2, <3>3 DEF HasToken, InEpoll, KernelTypes
    <3> QED BY <3>4, <3>5 DEF SoloAt
  <2>3. CASE ~Answerable(r, p) /\ ~Unsavable(r, p)
    <3>1. pc' = [pc EXCEPT ![w] = "recv"] /\ job' = job
      BY <1>2, <2>3 DEF RecvPiece
    <3> QED BY <1>0, <3>1, SoloFree
  <2>4. CASE ~Answerable(r, p) /\ Unsavable(r, p)
    <3>1. pc' = [pc EXCEPT ![w] = "recvEnd"] /\ job' = job
      BY <1>2, <2>4 DEF RecvPiece
    <3>2. r # NONE
      <4>1. p \in Kinds \X (1..3)
        BY <1>2, HeadTailProperties DEF RecvPiece, NetTypes
      <4>2. r \in Requests
        BY <1>0, <4>1, ParseTyped, EntriesTyped
      <4> QED BY <4>2, NoneAssumption
    <3>3. r.status = "BODY" /\ r.kind \in {"upload", "unsavable"}
      BY <2>4 DEF Unsavable
    <3>4. PICK f \in Fds : f = fd
      BY <1>0
    <3>5. requestStatus'[f] = r
      BY <2>1, <3>4 DEF TableTypes
    <3> HIDE DEF r
    <3>6. GivenUp(f)'
      BY <3>2, <3>3, <3>5 DEF GivenUp
    <3>7. pc'[w] = "recvEnd" /\ job'[w].fd = f /\ job'[w].held /\ job'[w].left = NONE
      BY <1>0, <2>1, <3>1, <3>4
    <3> QED BY <3>2, <3>5, <3>6, <3>7 DEF SoloAt
  <2> QED BY <2>2, <2>3, <2>4
<1>3. CASE RecvLost(w)
  <2>1. pc[w] = "recv" /\ job[w].held /\ pc' = [pc EXCEPT ![w] = "recvEnd"] /\ job' = job
        /\ requestStatus' = [requestStatus EXCEPT ![fd] = [RequestAt(fd) EXCEPT !.status = "ERROR"]]
    BY <1>3, HeldSteps DEF RecvLost, Alone, HoldingSteps
  <2>2. /\ [RequestAt(fd) EXCEPT !.status = "ERROR"] \in Requests
        /\ [RequestAt(fd) EXCEPT !.status = "ERROR"].status = "ERROR"
    BY <1>0, EntriesTyped DEF Requests, Statuses
  <2>3. requestStatus'[fd] # NONE /\ requestStatus'[fd].status = "ERROR"
    BY <1>0, <2>1, <2>2, NoneAssumption DEF TableTypes
  <2> QED BY <1>0, <2>1, <2>3 DEF SoloAt
<1>4. CASE RecvComplate(w)
  <2>1. pc[w] = "complate" /\ ~job[w].held /\ pc' = [pc EXCEPT ![w] = "recvEnd"] /\ job' = job
        /\ requestStatus' = [requestStatus EXCEPT ![fd] = [RequestAt(fd) EXCEPT !.status = "COMPLATE"]]
    BY <1>4 DEF RecvComplate, Alone, Custody, Phases
  <2>2. /\ [RequestAt(fd) EXCEPT !.status = "COMPLATE"] \in Requests
        /\ [RequestAt(fd) EXCEPT !.status = "COMPLATE"].status = "COMPLATE"
    BY <1>0, EntriesTyped DEF Requests, Statuses
  <2>3. requestStatus'[fd] # NONE /\ requestStatus'[fd].status = "COMPLATE"
    BY <1>0, <2>1, <2>2, NoneAssumption DEF TableTypes
  <2>4. PICK f \in Fds : f = fd
    BY <1>0
  <2>5. HasToken(f)
    BY <2>1, <2>4 DEF Alone, Solo, SoloAt
  <2>6. HasToken(f)'
    BY <1>4, <2>5 DEF RecvComplate, HasToken, InEpoll, InQueue, InHand, Slots, kernelVars
  <2> QED BY <1>0, <2>1, <2>3, <2>4, <2>6 DEF SoloAt
<1>5. CASE RecvEnd(w)
  <2>1. CASE RequestAt(fd).status = "ERROR"
    <3>1. Closed(fd) /\ Released(w) /\ pc' = [pc EXCEPT ![w] = "recvErase"]
      BY <1>5, <2>1 DEF RecvEnd
    <3>2. owner'[fd] = "free" /\ job'[w].fd = fd /\ job'[w].left = NONE
      BY <1>0, <3>1 DEF Closed, Released, Jobs, KernelTypes
    <3> QED BY <1>0, <3>1, <3>2 DEF SoloAt
  <2>2. CASE RequestAt(fd).status # "ERROR"
    BY <1>5, <2>2, SoloReturn DEF RecvEnd
  <2> QED BY <2>1, <2>2
<1>6. CASE RecvErase(w)
  BY <1>6, SoloReturn DEF RecvErase
<1> QED BY <1>1, <1>2, <1>3, <1>4, <1>5, <1>6 DEF RecvNext

LEMMA SoloSend ==
  ASSUME Types, Alone, NEW w \in Workers, SendNext(w)
  PROVE  SoloAt(w)'
<1> USE DEF Types, WorkTypes, Goto
<1> DEFINE fd == job[w].fd
<1>0. fd \in Fds
  BY DEF SendNext, SendNothing, SendBuild, SendPage, SendResume, SendPart, SendEmpty, SendEnd,
     SendRearm, SendTail
<1>1. pc[w] \in {"sendBegin", "page", "send", "sendEnd"} => job[w].left = NONE
  BY DEF Alone, Solo, SoloAt
<1>2. CASE SendNothing(w)
  BY <1>2, SoloReturn DEF SendNothing
<1>3. ASSUME NEW step \in {"send", "sendEnd"}, pc' = [pc EXCEPT ![w] = step],
             pc[w] \in {"sendBegin", "page", "send", "sendEnd"},
             NEW r \in Responses, r.status # "INIT", job' = job,
             responseStatus' = [responseStatus EXCEPT ![fd] = r]
      PROVE  SoloAt(w)'
  <2>1. responseStatus'[fd] = r /\ r # NONE
    BY <1>0, <1>3, NoneAssumption DEF TableTypes
  <2> QED BY <1>1, <1>3, <2>1 DEF SoloAt
<1>4. \A r \in KeptResponses, type \in BodyTypes, file \in Entries(Fds) :
        Built(r, type, file) \in Responses /\ Built(r, type, file).status # "INIT"
  BY DEF Built, KeptResponses, Responses, Statuses, Entries
<1>5. CASE SendBuild(w)
  <2>1. /\ pc[w] = "sendBegin" /\ responseStatus[fd] \in KeptResponses
        /\ responseStatus[fd] # NONE /\ responseStatus[fd].status = "INIT"
    BY <1>0, <1>5 DEF SendBuild, TableTypes, Entries
  <2>2. CASE Return(w)
    BY <2>2, SoloReturn
  <2>3. CASE UNCHANGED <<pc, job>>
    BY <1>1, <2>1, <2>3 DEF SoloAt
  <2>4. CASE pc' = [pc EXCEPT ![w] = "page"] /\ UNCHANGED <<job, responseStatus>>
    BY <1>1, <2>1, <2>4 DEF SoloAt
  <2>5. ASSUME NEW type \in BodyTypes, NEW file \in Entries(Fds),
               pc' = [pc EXCEPT ![w] = "send"], job' = job,
               responseStatus' = [responseStatus EXCEPT ![fd] =
                                    Built(responseStatus[fd], type, file)]
        PROVE  SoloAt(w)'
    <3>1. Built(responseStatus[fd], type, file) \in Responses
          /\ Built(responseStatus[fd], type, file).status # "INIT"
      BY <1>4, <2>1
    <3> QED BY <1>3, <2>1, <2>5, <3>1
  <2>6. FreeFds # {} => LowestFree \in Entries(Fds)
    BY LowestFreeIsFree DEF FreeFds, Entries
  <2>7. "FILE" \in BodyTypes /\ "EMPTY" \in BodyTypes /\ NONE \in Entries(Fds)
    BY DEF BodyTypes, Entries
  <2> QED BY <1>5, <2>2, <2>3, <2>4, <2>5, <2>6, <2>7 DEF SendBuild, Redirect
<1>6. CASE SendPage(w)
  <2>1. pc[w] = "page" /\ job' = job
    BY <1>6 DEF SendPage
  <2>2. CASE FreeFds = {}
    <3>1. pc' = [pc EXCEPT ![w] = "lost"]
      BY <1>6, <2>2 DEF SendPage
    <3> QED BY <1>1, <2>1, <3>1, SoloFree
  <2>3. CASE FreeFds # {}
    <3>1. /\ pc' = [pc EXCEPT ![w] = "send"]
          /\ responseStatus' = [responseStatus EXCEPT ![fd] = Built(ResponseAt(fd), "HTML", NONE)]
      BY <1>6, <2>3 DEF SendPage
    <3>2. "HTML" \in BodyTypes /\ NONE \in Entries(Fds) /\ ResponseAt(fd) \in KeptResponses
      BY <1>0, EntriesTyped DEF BodyTypes, Entries
    <3>3. Built(ResponseAt(fd), "HTML", NONE) \in Responses
          /\ Built(ResponseAt(fd), "HTML", NONE).status # "INIT"
      BY <1>4, <3>2
    <3> QED BY <1>3, <2>1, <3>1, <3>3
  <2> QED BY <2>2, <2>3
<1>7. CASE SendResume(w)
  <2>1. /\ pc[w] = "sendBegin" /\ job' = job /\ pc' = [pc EXCEPT ![w] = "send"]
        /\ responseStatus' = responseStatus
        /\ responseStatus[fd] # NONE /\ responseStatus[fd].status # "INIT"
    BY <1>7 DEF SendResume, tableVars
  <2> QED BY <1>1, <2>1 DEF SoloAt
<1>8. CASE SendPart(w)
  <2>1. /\ pc[w] = "send" /\ job' = job /\ responseStatus[fd] # NONE
        /\ responseStatus[fd].status # "INIT" /\ ResponseAt(fd) = responseStatus[fd]
    BY <1>8 DEF SendPart, Alone, Solo, SoloAt, ResponseAt
  <2>2. CASE pc' = [pc EXCEPT ![w] = "sendEnd"] /\ responseStatus' = responseStatus
    BY <1>1, <2>1, <2>2 DEF SoloAt
  <2>3. CASE ~(pc' = [pc EXCEPT ![w] = "sendEnd"] /\ responseStatus' = responseStatus)
    <3>1. PICK s \in {"BODY", "COMPLATE"}, step \in {"send", "sendEnd"} :
            /\ pc' = [pc EXCEPT ![w] = step]
            /\ responseStatus' = [responseStatus EXCEPT ![fd] = [ResponseAt(fd) EXCEPT !.status = s]]
      BY <1>8, <2>3 DEF SendPart, SendFails
    <3>2. /\ [ResponseAt(fd) EXCEPT !.status = s] \in Responses
          /\ [ResponseAt(fd) EXCEPT !.status = s].status # "INIT"
      BY <1>0, EntriesTyped DEF KeptResponses, Responses, Statuses
    <3> QED BY <1>3, <2>1, <3>1, <3>2
  <2> QED BY <2>2, <2>3
<1>9. CASE SendEmpty(w)
  <2>1. /\ pc[w] = "send" /\ job' = job /\ pc' = [pc EXCEPT ![w] = "sendEnd"]
        /\ responseStatus' = [responseStatus EXCEPT ![fd] =
                                [ResponseAt(fd) EXCEPT !.status = "COMPLATE"]]
    BY <1>9 DEF SendEmpty
  <2>2. /\ [ResponseAt(fd) EXCEPT !.status = "COMPLATE"] \in Responses
        /\ [ResponseAt(fd) EXCEPT !.status = "COMPLATE"].status # "INIT"
    BY <1>0, EntriesTyped DEF KeptResponses, Responses, Statuses
  <2> QED BY <1>3, <2>1, <2>2
<1>10. CASE SendEnd(w)
  <2>1. CASE ResponseAt(fd).status = "COMPLATE"
    <3>1. /\ pc' = [pc EXCEPT ![w] = "sendRearm"]
          /\ responseStatus' = [responseStatus EXCEPT ![fd] = NONE]
          /\ \E l : job' = [job EXCEPT ![w].left = l]
      BY <1>10, <2>1 DEF SendEnd
    <3>2. job'[w].fd = fd /\ responseStatus'[fd] = NONE /\ pc'[w] = "sendRearm"
      BY <1>0, <3>1 DEF Jobs, TableTypes
    <3> QED BY <3>2 DEF SoloAt
  <2>2. CASE ResponseAt(fd).status # "COMPLATE"
    BY <1>10, <2>2, SoloReturn DEF SendEnd
  <2> QED BY <2>1, <2>2
<1>11. CASE SendRearm(w)
  <2>1. /\ pc' = [pc EXCEPT ![w] = "sendTail"] /\ Released(w)
        /\ responseStatus' = responseStatus /\ responseStatus[fd] = NONE
    BY <1>11 DEF SendRearm, tableVars, Alone, Solo, SoloAt
  <2>2. job'[w].fd = fd /\ pc'[w] = "sendTail"
    BY <2>1 DEF Released, Jobs
  <2> QED BY <2>1, <2>2 DEF SoloAt
<1>12. CASE SendTail(w)
  BY <1>12, SoloReturn DEF SendTail
<1> QED BY <1>2, <1>5, <1>6, <1>7, <1>8, <1>9, <1>10, <1>11, <1>12 DEF SendNext

LEMMA SoloStep ==
  ASSUME Types, Alone, Recycles, OneWorker, [Next]_vars
  PROVE  Solo'
<1>1. ASSUME NEW c \in Clients, ClientNext(c) PROVE Solo'
  BY <1>1, SoloOthers DEF ClientNext, Connect, Ask, SendPiece, Read, Leave, kernelVars, workVars,
     tableVars
<1>2. CASE MainNext
  BY <1>2, SoloOthers DEF MainNext, ReportListen, ReportClient, kernelVars, tableVars
<1>3. CASE Rests
  BY <1>3, SoloOthers DEF Rests, kernelVars, workVars, tableVars
<1>4. ASSUME NEW w \in Workers, WorkerNext(w) PROVE Solo'
  <2>1. CASE Take(w)
    <3>1. /\ \E step \in {"accept", "recvBegin", "sendBegin"} : pc' = [pc EXCEPT ![w] = step]
          /\ job' = [job EXCEPT ![w] = Job(Head(m_workQueue).fd, Head(m_workQueue).conn)]
      BY <2>1 DEF Take, Goto
    <3>2. job'[w].left = NONE
      BY <3>1 DEF Job, Types, WorkTypes
    <3> QED BY <3>1, <3>2, SoloFree, SoloAlone
  <2>2. CASE Accept(w)
    BY <2>2, SoloReturn, SoloAlone DEF Accept
  <2> QED BY <1>4, <2>1, <2>2, SoloRecv, SoloSend, SoloAlone DEF WorkerNext
<1> QED BY <1>1, <1>2, <1>3, <1>4, NextCases

(* The file a Response, or what is left of one, refers to. *)
FileOf(r) == IF r # NONE /\ r.bodyType = "FILE" THEN r.fileMsgFd ELSE NONE

LEMMA UsesFile ==
  ASSUME NEW f \in Fds
  PROVE  /\ \A fd : SendingFile(fd, f) <=> FileOf(responseStatus[fd]) = f
         /\ \A w : FinishingFile(w, f) <=> FileOf(job[w].left) = f
BY ReactorAssumption DEF SendingFile, FinishingFile, FileOf

LEMMA UsesFileNext ==
  ASSUME NEW f \in Fds
  PROVE  /\ \A fd : SendingFile(fd, f)' <=> FileOf(responseStatus'[fd]) = f
         /\ \A w : FinishingFile(w, f)' <=> FileOf(job'[w].left) = f
BY ReactorAssumption DEF SendingFile, FinishingFile, FileOf

LEMMA FilesSame ==
  ASSUME FileUsers,
         \A fd \in Fds : FileOf(responseStatus'[fd]) = FileOf(responseStatus[fd]),
         \A w \in Workers : FileOf(job'[w].left) = FileOf(job[w].left),
         \A f \in Fds : owner'[f] = "file" <=> owner[f] = "file"
  PROVE  FileUsers'
<1> SUFFICES ASSUME NEW f \in Fds
             PROVE  /\ owner'[f] = "file" <=> \/ \E fd \in Fds : SendingFile(fd, f)'
                                              \/ \E w \in Workers : FinishingFile(w, f)'
                    /\ \A d, e \in Fds : SendingFile(d, f)' /\ SendingFile(e, f)' => d = e
                    /\ \A d \in Fds, w \in Workers : ~(SendingFile(d, f)' /\ FinishingFile(w, f)')
  BY DEF FileUsers
<1>1. /\ \A fd \in Fds : SendingFile(fd, f)' <=> SendingFile(fd, f)
      /\ \A w \in Workers : FinishingFile(w, f)' <=> FinishingFile(w, f)
  BY UsesFile, UsesFileNext
<1> QED BY <1>1 DEF FileUsers

(* An entry of the table is changed, and no file is opened or closed. *)
LEMMA FilesKept ==
  ASSUME Types, Alone, NEW fd \in Fds, NEW r,
         FileOf(r) = FileOf(responseStatus[fd]),
         responseStatus' = [responseStatus EXCEPT ![fd] = r] \/ responseStatus' = responseStatus,
         NEW w \in Workers, pc[w] \notin {"sendRearm", "sendTail"},
         job' = job \/ Return(w) \/ Released(w),
         \A f \in Fds : owner'[f] = "file" <=> owner[f] = "file"
  PROVE  FileUsers'
<1>1. \A f \in Fds : FileOf(responseStatus'[f]) = FileOf(responseStatus[f])
  BY DEF Types, TableTypes
<1>2. \A v \in Workers : job'[v].left = job[v].left
  <2>1. job[w].left = NONE
    BY DEF Alone, Solo, SoloAt
  <2> QED BY <2>1 DEF Return, Released, NoJob, Types, WorkTypes, Jobs
<1> QED BY <1>1, <1>2, FilesSame DEF Alone

LEMMA NoneIsNoFile == FileOf(NONE) = NONE /\ FileOf(Response) = NONE
<1>1. NONE # "FILE"
  BY NoneAssumption DEF BodyTypes
<1> QED BY <1>1 DEF FileOf, Response

LEMMA EntryFile == \A fd : FileOf(ResponseAt(fd)) = FileOf(responseStatus[fd])
BY NoneIsNoFile DEF ResponseAt

LEMMA FilesRecv ==
  ASSUME Types, Alone, NEW w \in Workers, RecvNext(w)
  PROVE  FileUsers'
<1> USE DEF Types, WorkTypes, kernelVars, Goto
<1> DEFINE fd == job[w].fd
<1>0. fd \in Fds /\ pc[w] \notin {"sendRearm", "sendTail"}
  BY DEF RecvNext, RecvBegin, RecvPiece, RecvLost, RecvComplate, RecvEnd, RecvErase
<1>1. CASE RecvPiece(w)
  <2> DEFINE r == [ResponseAt(fd) EXCEPT !.bodyFileName =
                     Resource(Parse(RequestAt(fd), Head(inbox[owner[fd]])).kind)]
  <2>1. ResponseAt(fd) \in Responses
    BY <1>0, EntriesTyped DEF KeptResponses
  <2>2. ResponseAt(fd) # NONE /\ r \in [status : Statuses, bodyFileName : {r.bodyFileName},
           bodyType : {ResponseAt(fd).bodyType}, fileMsgFd : {ResponseAt(fd).fileMsgFd}]
    BY <2>1, NoneAssumption DEF Responses
  <2>3. r # NONE
    <3>1. r \in Responses
      BY <2>1 DEF Responses, Resource, Entries
    <3> QED BY <3>1, NoneAssumption
  <2>4. FileOf(r) = FileOf(responseStatus[fd])
    BY <2>2, <2>3, EntryFile DEF FileOf
  <2>5. responseStatus' = [responseStatus EXCEPT ![fd] = r] \/ responseStatus' = responseStatus
    BY <1>1 DEF RecvPiece
  <2>6. owner' = owner /\ (job' = job \/ Released(w))
    BY <1>1 DEF RecvPiece
  <2> HIDE DEF r
  <2> QED BY <1>0, <2>4, <2>5, <2>6, FilesKept
<1>2. CASE RecvEnd(w)
  <2>1. \A f \in Fds : owner'[f] = "file" <=> owner[f] = "file"
    <3>1. CASE RequestAt(fd).status = "ERROR"
      <4>1. job[w].held
        BY <1>2, <3>1 DEF RecvEnd, Alone, Solo, SoloAt, RequestAt
      <4>2. owner[fd] \in Clients
        BY <1>0, <4>1 DEF Alone, Custody, Rightful, InHand
      <4> QED BY <1>0, <1>2, <3>1, <4>2, ReactorAssumption DEF RecvEnd, Closed, KernelTypes
    <3>2. CASE RequestAt(fd).status # "ERROR"
      BY <1>2, <3>2 DEF RecvEnd
    <3> QED BY <3>1, <3>2
  <2> QED BY <1>0, <1>2, <2>1, FilesKept DEF RecvEnd
<1>3. CASE ~RecvPiece(w) /\ ~RecvEnd(w)
  <2>1. responseStatus' = responseStatus /\ owner' = owner /\ (job' = job \/ Return(w))
    BY <1>3 DEF RecvNext, RecvBegin, RecvLost, RecvComplate, RecvErase
  <2> QED BY <1>0, <2>1, FilesKept
<1> QED BY <1>1, <1>2, <1>3

LEMMA FilesBuild ==
  ASSUME Types, Alone, NEW w \in Workers, SendBuild(w)
  PROVE  FileUsers'
<1> USE DEF Types, WorkTypes, kernelVars, Goto
<1> DEFINE fd == job[w].fd
<1>0. /\ fd \in Fds /\ pc[w] = "sendBegin" /\ job[w].left = NONE
      /\ responseStatus[fd] # NONE /\ responseStatus[fd].status = "INIT"
      /\ responseStatus[fd] \in KeptResponses
  BY DEF SendBuild, Alone, Solo, SoloAt, TableTypes, Entries
<1>1. FileOf(responseStatus[fd]) = NONE
  <2>1. responseStatus[fd].bodyType = NONE /\ NONE # "FILE"
    BY <1>0, NoneAssumption DEF Alone, FreshResponses, BodyTypes
  <2> QED BY <2>1 DEF FileOf
<1>2. FreeFds # {} => LowestFree \in Fds /\ owner[LowestFree] = "free"
  BY LowestFreeIsFree DEF FreeFds
<1>3. CASE /\ \/ owner' = owner
              \/ LowestFree \in Fds /\ owner[LowestFree] = "free"
                 /\ owner' = [owner EXCEPT ![LowestFree] = "dir"]
           /\ responseStatus' = responseStatus \/ Redirect(w, fd)
              \/ responseStatus' = [responseStatus EXCEPT ![fd] = Built(responseStatus[fd], "EMPTY", NONE)]
           /\ job' = job \/ Return(w)
  <2>1. \A f \in Fds : owner'[f] = "file" <=> owner[f] = "file"
    BY <1>3 DEF KernelTypes
  <2>2. FileOf([Response EXCEPT !.bodyFileName = "redirect"]) = NONE
    BY NoneAssumption DEF FileOf, Response, BodyTypes
  <2>3. FileOf(Built(responseStatus[fd], "EMPTY", NONE)) = NONE
    BY <1>0 DEF FileOf, Built, KeptResponses, Responses
  <2> QED BY <1>0, <1>1, <1>3, <2>1, <2>2, <2>3, FilesKept DEF Redirect
<1>4. CASE /\ FreeFds # {} /\ owner' = [owner EXCEPT ![LowestFree] = "file"] /\ job' = job
           /\ responseStatus' = [responseStatus EXCEPT ![fd] =
                                   Built(responseStatus[fd], "FILE", LowestFree)]
  <2> DEFINE new == LowestFree
  <2>1. new \in Fds /\ owner[new] = "free" /\ owner' = [owner EXCEPT ![new] = "file"]
    BY <1>2, <1>4
  <2>2. /\ \A d \in Fds : ~SendingFile(d, new)
        /\ \A v \in Workers : ~FinishingFile(v, new)
    BY <2>1 DEF Alone, FileUsers
  <2>3. FileOf(Built(responseStatus[fd], "FILE", new)) = new
    <3>1. Built(responseStatus[fd], "FILE", new) \in Responses
      BY <1>0, <2>1 DEF Built, KeptResponses, Responses, Statuses, BodyTypes, Entries
    <3>2. Built(responseStatus[fd], "FILE", new) # NONE
      BY <3>1, NoneAssumption
    <3> QED BY <1>0, <3>2 DEF FileOf, Built, KeptResponses, Responses
  <2> HIDE DEF new
  <2>4. responseStatus' = [responseStatus EXCEPT ![fd] = Built(responseStatus[fd], "FILE", new)]
    BY <1>4 DEF new
  <2>5. \A d \in Fds : FileOf(responseStatus'[d]) = IF d = fd THEN new ELSE FileOf(responseStatus[d])
    BY <1>0, <2>3, <2>4 DEF TableTypes
  <2> SUFFICES ASSUME NEW f \in Fds
               PROVE  /\ owner'[f] = "file" <=> \/ \E d \in Fds : SendingFile(d, f)'
                                                \/ \E v \in Workers : FinishingFile(v, f)'
                      /\ \A d, e \in Fds : SendingFile(d, f)' /\ SendingFile(e, f)' => d = e
                      /\ \A d \in Fds, v \in Workers : ~(SendingFile(d, f)' /\ FinishingFile(v, f)')
    BY DEF FileUsers
  <2>6. \A v \in Workers : FinishingFile(v, f)' <=> FinishingFile(v, f)
    BY <1>4 DEF FinishingFile
  <2>7. \A d \in Fds : SendingFile(d, f)' <=> IF d = fd THEN f = new ELSE SendingFile(d, f)
    BY <2>5, UsesFile, UsesFileNext
  <2>8. ~SendingFile(fd, f)
    BY <1>1, UsesFile, ReactorAssumption
  <2>9. owner'[f] = "file" <=> owner[f] = "file" \/ f = new
    BY <2>1 DEF KernelTypes
  <2> QED BY <1>0, <2>2, <2>6, <2>7, <2>8, <2>9 DEF Alone, FileUsers
<1> QED BY <1>0, <1>2, <1>3, <1>4 DEF SendBuild, Redirect

LEMMA FilesEnd ==
  ASSUME Types, Alone, OneWorker, NEW w \in Workers, SendEnd(w)
  PROVE  FileUsers'
<1> USE DEF Types, WorkTypes
<1> DEFINE fd == job[w].fd
           r == ResponseAt(fd)
<1>0. /\ fd \in Fds /\ pc[w] = "sendEnd" /\ job[w].left = NONE /\ owner' = owner
      /\ FileOf(r) = FileOf(responseStatus[fd]) /\ r \in KeptResponses
  BY EntryFile, EntriesTyped DEF SendEnd, Alone, Solo, SoloAt
<1>1. CASE r.status # "COMPLATE"
  <2>1. responseStatus' = [responseStatus EXCEPT ![fd] = r] /\ Return(w)
    BY <1>1 DEF SendEnd
  <2> HIDE DEF r
  <2> QED BY <1>0, <2>1, FilesKept
<1>2. CASE r.status = "COMPLATE"
  <2> DEFINE l == [bodyType |-> r.bodyType, fileMsgFd |-> r.fileMsgFd]
  <2>1. responseStatus' = [responseStatus EXCEPT ![fd] = NONE] /\ job' = [job EXCEPT ![w].left = l]
    BY <1>2 DEF SendEnd
  <2>2. FileOf(l) = FileOf(r)
    <3>1. r # NONE /\ l # NONE
      BY <1>0, NoneAssumption DEF Lefts, KeptResponses, Responses, Entries
    <3> HIDE DEF r
    <3> QED BY <3>1 DEF FileOf
  <2> HIDE DEF l, r
  <2>3. \A d \in Fds : FileOf(responseStatus'[d]) = IF d = fd THEN NONE ELSE FileOf(responseStatus[d])
    BY <1>0, <2>1, NoneIsNoFile DEF TableTypes
  <2>4. \A v \in Workers : FileOf(job'[v].left) = FileOf(responseStatus[fd]) /\ job[v].left = NONE
    BY <1>0, <2>1, <2>2 DEF OneWorker, Jobs
  <2> SUFFICES ASSUME NEW f \in Fds
               PROVE  /\ owner'[f] = "file" <=> \/ \E d \in Fds : SendingFile(d, f)'
                                                \/ \E v \in Workers : FinishingFile(v, f)'
                      /\ \A d, e \in Fds : SendingFile(d, f)' /\ SendingFile(e, f)' => d = e
                      /\ \A d \in Fds, v \in Workers : ~(SendingFile(d, f)' /\ FinishingFile(v, f)')
    BY DEF FileUsers
  <2>5. \A d \in Fds : SendingFile(d, f)' <=> d # fd /\ SendingFile(d, f)
    BY <2>3, UsesFile, UsesFileNext, ReactorAssumption
  <2>6. \A v \in Workers : (FinishingFile(v, f)' <=> SendingFile(fd, f)) /\ ~FinishingFile(v, f)
    BY <2>4, UsesFile, UsesFileNext DEF FinishingFile
  <2> QED BY <1>0, <2>5, <2>6 DEF Alone, FileUsers
<1> QED BY <1>1, <1>2

LEMMA FilesTail ==
  ASSUME Types, Alone, OneWorker, Recycles, NEW w \in Workers, SendTail(w)
  PROVE  FileUsers'
<1> USE DEF Types, WorkTypes
<1> DEFINE fd == job[w].fd
           l == job[w].left
<1>0. /\ fd \in Fds /\ pc[w] = "sendTail" /\ responseStatus[fd] = NONE /\ Return(w)
      /\ l # NONE
  BY NoneAssumption DEF SendTail, Alone, Solo, SoloAt
<1>1. ResponseAt(fd) = Response /\ responseStatus' = [responseStatus EXCEPT ![fd] = Response]
  BY <1>0 DEF SendTail, ResponseAt
<1>2. IF FileOf(l) = NONE THEN UNCHANGED <<owner, interest, link>> ELSE Closed(FileOf(l))
  <2>1. Response.bodyType = NONE /\ Leftovers(w) = {l}
    BY <1>0 DEF Response, Leftovers
  <2> QED BY <1>0, <1>1, <2>1 DEF SendTail, FileOf
<1>3. FileOf(l) \in Entries(Fds)
  BY <1>0 DEF FileOf, Entries, Lefts
<1> HIDE DEF l
<1>4. \A d \in Fds : FileOf(responseStatus'[d]) = FileOf(responseStatus[d])
  BY <1>0, <1>1, NoneIsNoFile DEF TableTypes
<1>5. \A v \in Workers : FileOf(job'[v].left) = NONE /\ job[v].left = l
  BY <1>0, NoneIsNoFile DEF OneWorker, Return, NoJob, l
<1>6. \A f \in Fds : owner'[f] = "file" <=> owner[f] = "file" /\ f # FileOf(l)
  BY <1>2, <1>3, ReactorAssumption DEF Closed, KernelTypes, Entries
<1> SUFFICES ASSUME NEW f \in Fds
             PROVE  /\ owner'[f] = "file" <=> \/ \E d \in Fds : SendingFile(d, f)'
                                              \/ \E v \in Workers : FinishingFile(v, f)'
                    /\ \A d, e \in Fds : SendingFile(d, f)' /\ SendingFile(e, f)' => d = e
                    /\ \A d \in Fds, v \in Workers : ~(SendingFile(d, f)' /\ FinishingFile(v, f)')
  BY DEF FileUsers
<1>7. \A d \in Fds : SendingFile(d, f)' <=> SendingFile(d, f)
  BY <1>4, UsesFile, UsesFileNext
<1>8. \A v \in Workers : ~FinishingFile(v, f)' /\ (FinishingFile(v, f) <=> f = FileOf(l))
  BY <1>5, UsesFile, UsesFileNext, ReactorAssumption
<1> QED BY <1>6, <1>7, <1>8 DEF Alone, FileUsers

LEMMA FileUsersStep ==
  ASSUME Types, Alone, OneWorker, Recycles, [Next]_vars
  PROVE  FileUsers'
<1>1. CASE UNCHANGED <<owner, responseStatus, job>>
  BY <1>1, FilesSame DEF Alone
<1>2. ASSUME NEW c \in Clients, ClientNext(c) PROVE FileUsers'
  BY <1>1, <1>2 DEF ClientNext, Connect, Ask, SendPiece, Read, Leave, kernelVars, workVars,
     tableVars
<1>3. CASE MainNext
  BY <1>1, <1>3 DEF MainNext, ReportListen, ReportClient, kernelVars, tableVars
<1>4. ASSUME NEW w \in Workers, WorkerNext(w) PROVE FileUsers'
  <2> USE DEF Types, WorkTypes
  <2>1. CASE Take(w)
    <3>1. /\ UNCHANGED <<owner, responseStatus>>
          /\ job' = [job EXCEPT ![w] = Job(Head(m_workQueue).fd, Head(m_workQueue).conn)]
          /\ job[w] = NoJob
      BY <2>1 DEF Take, kernelVars, tableVars, Alone, Custody, Phases
    <3>2. \A v \in Workers : job'[v].left = job[v].left
      BY <3>1 DEF Job, NoJob
    <3> QED BY <3>1, <3>2, FilesSame DEF Alone
  <2>2. CASE Accept(w)
    <3>1. responseStatus' = responseStatus /\ Return(w) /\ job[w].left = NONE
      BY <2>2 DEF Accept, tableVars, Alone, Solo, SoloAt
    <3>2. \A v \in Workers : job'[v].left = job[v].left
      BY <3>1 DEF Return, NoJob
    <3>3. \A f \in Fds : owner'[f] = "file" <=> owner[f] = "file"
      <4>1. CASE FreeFds = {}
        BY <2>2, <4>1 DEF Accept, kernelVars
      <4>2. CASE FreeFds # {}
        <5>1. LowestFree \in Fds /\ owner[LowestFree] = "free"
          BY <4>2, LowestFreeIsFree DEF FreeFds
        <5>2. Head(backlog) \in Clients
          BY <2>2, HeadTailProperties DEF Accept, AcceptTypes
        <5> QED BY <2>2, <4>2, <5>1, <5>2, ReactorAssumption DEF Accept, KernelTypes
      <4> QED BY <4>1, <4>2
    <3> QED BY <3>1, <3>2, <3>3, FilesSame DEF Alone
  <2>3. CASE SendNothing(w) \/ SendResume(w)
    <3>1. /\ UNCHANGED <<owner, responseStatus>> /\ (job' = job \/ Return(w))
          /\ pc[w] = "sendBegin"
      BY <2>3 DEF SendNothing, SendResume, kernelVars, tableVars
    <3> QED BY <3>1, FilesKept
  <2>4. CASE SendPage(w) \/ SendPart(w) \/ SendEmpty(w)
    <3> DEFINE fd == job[w].fd
    <3>1. fd \in Fds /\ UNCHANGED <<owner, job>> /\ pc[w] \in {"page", "send"}
      BY <2>4 DEF SendPage, SendPart, SendEmpty, kernelVars
    <3>2. ResponseAt(fd) \in KeptResponses /\ FileOf(ResponseAt(fd)) = FileOf(responseStatus[fd])
      BY <3>1, EntriesTyped, EntryFile
    <3>3. CASE SendPage(w)
      <4>1. FileOf(responseStatus[fd]) = NONE
        <5>1. responseStatus[fd].bodyType = NONE /\ NONE # "FILE"
          BY <3>1, <3>3, NoneAssumption DEF SendPage, Alone, Solo, SoloAt, FreshResponses, BodyTypes
        <5> QED BY <5>1 DEF FileOf
      <4>2. FileOf(Built(ResponseAt(fd), "HTML", NONE)) = NONE
        BY <3>2 DEF FileOf, Built, KeptResponses, Responses
      <4> QED BY <3>1, <3>3, <4>1, <4>2, FilesKept DEF SendPage
    <3>4. ASSUME NEW s \in Statuses
          PROVE  FileOf([ResponseAt(fd) EXCEPT !.status = s]) = FileOf(responseStatus[fd])
      <4>1. /\ ResponseAt(fd) \in Responses /\ ResponseAt(fd) # NONE
            /\ [ResponseAt(fd) EXCEPT !.status = s] \in Responses
        BY <3>2, NoneAssumption DEF KeptResponses, Responses
      <4>2. [ResponseAt(fd) EXCEPT !.status = s] # NONE
        BY <4>1, NoneAssumption
      <4> QED BY <3>2, <4>1, <4>2 DEF FileOf, Responses
    <3>5. CASE SendPart(w) \/ SendEmpty(w)
      <4>1. PICK s \in Statuses :
              \/ responseStatus' = [responseStatus EXCEPT ![fd] = [ResponseAt(fd) EXCEPT !.status = s]]
              \/ responseStatus' = responseStatus
        BY <3>5 DEF SendPart, SendEmpty, Statuses
      <4> QED BY <3>1, <3>4, <4>1, FilesKept
    <3> QED BY <2>4, <3>3, <3>5
  <2>5. CASE SendRearm(w)
    <3>1. UNCHANGED <<owner, responseStatus>> /\ \A v \in Workers : job'[v].left = job[v].left
      BY <2>5 DEF SendRearm, Released, tableVars, Jobs
    <3> QED BY <3>1, FilesSame DEF Alone
  <2> QED BY <1>4, <2>1, <2>2, <2>3, <2>4, <2>5, FilesRecv, FilesBuild, FilesEnd, FilesTail
          DEF WorkerNext, SendNext
<1> QED BY <1>1, <1>2, <1>3, <1>4, NextCases DEF Rests, kernelVars, workVars, tableVars

LEMMA FreshResponsesStep ==
  ASSUME Types, Alone, [Next]_vars
  PROVE  FreshResponses'
<1> USE DEF Types, WorkTypes
<1>1. ASSUME NEW fd \in Fds, NEW r, r # NONE /\ r.status = "INIT" => r.bodyType = NONE,
             responseStatus' = [responseStatus EXCEPT ![fd] = r]
      PROVE  FreshResponses'
  BY <1>1 DEF Alone, FreshResponses, TableTypes
<1>2. CASE responseStatus' = responseStatus
  BY <1>2 DEF Alone, FreshResponses
<1>3. ASSUME responseStatus' # responseStatus PROVE \E w \in Workers : WorkerNext(w)
  BY <1>3, NextCases DEF Rests, tableVars, ClientNext, Connect, Ask, SendPiece, Read, Leave,
     MainNext, ReportListen, ReportClient
<1>4. ASSUME NEW w \in Workers, WorkerNext(w), responseStatus' # responseStatus
      PROVE  FreshResponses'
  <2> DEFINE fd == job[w].fd
             e == ResponseAt(fd)
  <2>1. RecvPiece(w) \/ SendBuild(w) \/ SendPage(w) \/ SendPart(w) \/ SendEmpty(w)
        \/ SendEnd(w) \/ SendTail(w)
    BY <1>4 DEF WorkerNext, Take, Accept, RecvNext, RecvBegin, RecvLost, RecvComplate, RecvEnd,
       RecvErase, SendNext, SendNothing, SendResume, SendRearm, tableVars
  <2>2. fd \in Fds
    BY <2>1 DEF RecvPiece, SendBuild, SendPage, SendPart, SendEmpty, SendEnd, SendTail
  <2>3. e \in KeptResponses /\ (e.status = "INIT" => e.bodyType = NONE)
    BY <2>2, EntriesTyped DEF ResponseAt, Response, Alone, FreshResponses
  <2>4. CASE RecvPiece(w)
    <3> DEFINE r == [e EXCEPT !.bodyFileName =
                       Resource(Parse(RequestAt(fd), Head(inbox[owner[fd]])).kind)]
    <3>1. r.status = "INIT" => r.bodyType = NONE
      BY <2>3 DEF KeptResponses, Responses
    <3>2. responseStatus' = [responseStatus EXCEPT ![fd] = r]
      BY <1>4, <2>4 DEF RecvPiece
    <3> HIDE DEF r
    <3> QED BY <1>1, <2>2, <3>1, <3>2
  <2>5. ASSUME NEW r \in KeptResponses, NEW type, NEW file,
               responseStatus' = [responseStatus EXCEPT ![fd] = Built(r, type, file)]
        PROVE  FreshResponses'
    <3>1. Built(r, type, file).status = "HEAD"
      BY DEF Built, KeptResponses, Responses
    <3> QED BY <1>1, <2>2, <2>5, <3>1
  <2>6. CASE SendBuild(w)
    <3>1. responseStatus[fd] \in KeptResponses
      BY <2>2, <2>6 DEF SendBuild, TableTypes, Entries
    <3>2. [Response EXCEPT !.bodyFileName = "redirect"].bodyType = NONE
      BY DEF Response
    <3> QED BY <1>1, <1>4, <2>2, <2>5, <2>6, <3>1, <3>2 DEF SendBuild, Redirect
  <2>7. CASE SendPage(w)
    BY <1>4, <2>3, <2>5, <2>7 DEF SendPage
  <2>8. CASE SendPart(w) \/ SendEmpty(w)
    <3>1. PICK s \in {"BODY", "COMPLATE"} :
            responseStatus' = [responseStatus EXCEPT ![fd] = [e EXCEPT !.status = s]]
      BY <1>4, <2>8 DEF SendPart, SendEmpty
    <3>2. [e EXCEPT !.status = s].status # "INIT"
      BY <2>3 DEF KeptResponses, Responses
    <3> QED BY <1>1, <2>2, <3>1, <3>2
  <2>9. CASE SendEnd(w) \/ SendTail(w)
    <3>1. PICK r \in {NONE, e} : responseStatus' = [responseStatus EXCEPT ![fd] = r]
      BY <2>9 DEF SendEnd, SendTail
    <3> QED BY <1>1, <2>2, <2>3, <3>1
  <2> QED BY <2>1, <2>4, <2>6, <2>7, <2>8, <2>9
<1> QED BY <1>2, <1>3, <1>4

LEMMA AloneInit == Init => Alone
<1> SUFFICES ASSUME Init PROVE Alone
  OBVIOUS
<1> USE DEF Init
<1>1. Solo /\ HeldOrGivenUp /\ FreshResponses
  BY ReactorAssumption DEF Solo, SoloAt, HeldOrGivenUp, FreshResponses, NoJob
<1>2. FileUsers
  BY DEF FileUsers, SendingFile, FinishingFile, NoJob
<1> QED BY <1>1, <1>2, CustodyInit, ReadyInit DEF Alone

LEMMA AloneStep ==
  ASSUME Types, Alone, OneWorker, Recycles, [Next]_vars
  PROVE  Alone'
<1>1. Custody' /\ ResponseReady'
  <2>1. ASSUME NEW w \in Workers, pc[w] = "sendEnd"
        PROVE  ResponseAt(job[w].fd).status # "INIT"
    BY <2>1 DEF Alone, Solo, SoloAt, ResponseAt
  <2> QED BY <2>1, AloneClosesOwn, CustodyStep, ReadyStep DEF Alone
<1> QED BY <1>1, SoloStep, HeldOrGivenUpStep, FreshResponsesStep, FileUsersStep DEF Alone

LEMMA AloneHolds ==
  ASSUME OneWorker, Recycles
  PROVE  Spec => [](Types /\ Alone)
BY TypesHold, AloneInit, AloneStep, PTL DEF Spec

(* With one worker, and whatever the clients ask for and however they      *)
(* leave, each connection is in exactly one hand, or in none after an      *)
(* upload was given up; no descriptor that is no connection's is in any.   *)
THEOREM OneHandAlone ==
  ASSUME OneWorker, Recycles
  PROVE  Spec => []OneToken
<1>1. Types /\ Alone => OneToken
  <2> SUFFICES ASSUME Types, Alone, NEW fd \in Fds
               PROVE  IF owner[fd] \in Clients
                        THEN Tokens(fd) = 1 \/ (Tokens(fd) = 0 /\ GivenUp(fd))
                        ELSE Tokens(fd) = 0
    BY DEF OneToken
  <2>1. HasToken(fd) => owner[fd] \in Clients
    BY DEF HasToken, InEpoll, InQueue, Alone, Custody, Registered, Rightful, InHand
  <2>2. owner[fd] \in Clients => HasToken(fd) \/ GivenUp(fd)
    BY DEF Alone, HeldOrGivenUp
  <2> QED BY <2>1, <2>2, TokensCounted DEF Alone, Custody
<1> QED BY <1>1, AloneHolds, PTL

(* With one worker, a handler that holds a connection's event works on     *)
(* that connection: its descriptor is not closed, and given to another     *)
(* one, while the event waits or is being handled.                         *)
THEOREM NoStrangersAlone ==
  ASSUME OneWorker, Recycles
  PROVE  Spec => []OwnConnection
<1>1. Types /\ Alone => OwnConnection
  BY CustodyIsOwnConnection DEF Alone
<1> QED BY <1>1, AloneHolds, PTL

(* With one worker, HandleSend is never called without a Response to send. *)
THEOREM SendsAlone ==
  ASSUME OneWorker, Recycles
  PROVE  Spec => []SendFindsResponse
<1>1. Types /\ Alone => SendFindsResponse
  BY ReadyMeansFound DEF Alone
<1> QED BY <1>1, AloneHolds, PTL

(* With one worker, a file opened for a download is open as long as one    *)
(* Response, or the handler that has just erased it, refers to it, and no  *)
(* longer: none is leaked and none is closed for another.                  *)
THEOREM FilesClosed ==
  ASSUME OneWorker, Recycles
  PROVE  Spec => []FilesAccounted
<1>1. ASSUME Types, Alone, OneWorker, NEW f \in Fds
      PROVE  Cardinality(FileUses(f)) = IF owner[f] = "file" THEN 1 ELSE 0
  <2>1. \A x \in FileUses(f), y \in FileUses(f) : x = y
    BY <1>1 DEF FileUses, Alone, FileUsers, OneWorker
  <2>2. CASE owner[f] = "file"
    <3>1. PICK x : x \in FileUses(f)
      BY <1>1, <2>2 DEF FileUses, Alone, FileUsers
    <3>2. FileUses(f) = {x}
      BY <2>1, <3>1
    <3>3. Cardinality({x}) = 1
      BY FS_Singleton
    <3> QED BY <2>2, <3>2, <3>3
  <2>3. CASE owner[f] # "file"
    <3>1. FileUses(f) = {}
      BY <1>1, <2>3 DEF FileUses, Alone, FileUsers
    <3> QED BY <2>3, <3>1, FS_EmptySet
  <2> QED BY <2>2, <2>3
<1>2. Types /\ Alone => FilesAccounted
  BY <1>1 DEF FilesAccounted
<1> QED BY <1>2, AloneHolds, PTL

(* A step that ends the process: a throw, the memory, a directory that     *)
(* could not be opened, or SIGPIPE.                                        *)
LEMMA EndingSteps ==
  ASSUME Next, ~alive'
  PROVE  \E w \in Workers : Throws(w) \/ OutOfMemory(w) \/ SendBuild(w) \/ SendPart(w)
<1> USE DEF Next
<1>1. \A c \in Clients : ~ClientNext(c)
  BY DEF ClientNext, Connect, Ask, SendPiece, Read, Leave
<1>2. ~MainNext
  BY DEF MainNext, ReportListen, ReportClient
<1>3. PICK w \in Workers : WorkerNext(w) \/ Throws(w) \/ OutOfMemory(w)
  BY <1>1, <1>2
<1>4. ~Take(w) /\ ~Accept(w)
  BY DEF Take, Accept
<1>5. ~RecvNext(w)
  BY DEF RecvNext, RecvBegin, RecvPiece, RecvLost, RecvComplate, RecvEnd, RecvErase
<1>6. SendNext(w) => SendBuild(w) \/ SendPart(w)
  BY DEF SendNext, SendNothing, SendPage, SendResume, SendEmpty, SendEnd, SendRearm, SendTail
<1> QED BY <1>3, <1>4, <1>5, <1>6 DEF WorkerNext

LEMMA StaysUpStep ==
  ASSUME Types, Alone, OneWorker, StaysUp, [Next]_vars
  PROVE  StaysUp'
<1> DEFINE Reason == \/ FreeFds = {}
                     \/ \E c \in Clients : link[c] = "reset"
                     \/ \E w \in Workers : pc[w] = "lost" \/ MalformedHeader(w)
                                           \/ EmptyResource(w, "blank")
<1>1. Rests /\ Reason => Reason'
  BY DEF Rests, FreeFds, MalformedHeader, AtHeaders, RequestAt, EmptyResource,
     netVars, kernelVars, workVars, tableVars
<1> SUFFICES ASSUME ~alive' PROVE Reason'
  BY DEF StaysUp
<1>2. CASE ~alive
  <2>1. Rests
    BY <1>2 DEF Next, vars, Rests
  <2> QED BY <1>1, <1>2, <2>1 DEF StaysUp
<1>3. CASE alive
  <2>1. PICK w \in Workers : Throws(w) \/ OutOfMemory(w) \/ SendBuild(w) \/ SendPart(w)
    BY <1>3, EndingSteps DEF vars
  <2> DEFINE fd == job[w].fd
  <2>2. CASE Throws(w)
    <3>1. ~HeadersMixed(w)
      BY DEF HeadersMixed, OneWorker
    <3>2. ~EmptyResource(w, NONE)
      <4> SUFFICES ASSUME EmptyResource(w, NONE) PROVE FALSE
        OBVIOUS
      <4>1. fd \in Fds /\ ToSend(fd)
        BY DEF EmptyResource, Types, WorkTypes, ToSend
      <4> QED BY <4>1 DEF EmptyResource, Alone, ResponseReady, Named
    <3> QED BY <1>1, <2>2, <3>1, <3>2 DEF Throws, Rests
  <2>3. CASE OutOfMemory(w)
    BY <1>1, <2>3 DEF OutOfMemory, Rests
  <2>4. CASE SendBuild(w)
    <3>1. FreeFds = {} /\ UNCHANGED kernelVars
      BY <1>3, <2>4 DEF SendBuild
    <3> QED BY <3>1 DEF FreeFds, kernelVars
  <2>5. CASE SendPart(w)
    <3>1. /\ SendResult(fd) = "pipe"
          /\ \E later \in BOOLEAN : link' = LinkAfterSend(fd, later)
      BY <1>3, <2>5 DEF SendPart
    <3>2. owner[fd] \in Clients /\ link[owner[fd]] = "reset"
      BY <3>1 DEF SendResult
    <3>3. link'[owner[fd]] = "reset"
      BY <3>1, <3>2 DEF LinkAfterSend
    <3> QED BY <3>2, <3>3
  <2> QED BY <2>1, <2>2, <2>3, <2>4, <2>5
<1> QED BY <1>2, <1>3

(* With one worker, nothing ends the process but SIGPIPE, raised on a      *)
(* connection whose client has left before its answer was complete, the    *)
(* want of a descriptor, a malformed header, and an empty resource that a  *)
(* client has sent.                                                        *)
THEOREM EndsOnlyThenAlone ==
  ASSUME OneWorker, Recycles
  PROVE  Spec => []StaysUp
<1>1. Init => StaysUp
  BY DEF Init, StaysUp
<1> QED BY <1>1, AloneHolds, StaysUpStep, PTL DEF Spec

(***************************************************************************)
(* Part 2: answers, when clients do not reset their connections.           *)
(***************************************************************************)
NoResets == Departures \subseteq {"close"}

(* The steps of the handlers that are at work on a descriptor.             *)
StepsAt(fd) == {pc[w] : w \in {v \in Workers : job[v].fd = fd}}
SendingSteps == {"page", "lost", "send", "sendEnd"}

(* The socket holds the pieces of the request that were not received.      *)
Received(c) == sent[c] - Len(inbox[c])
InOrder(c) ==
  /\ Len(inbox[c]) <= sent[c]
  /\ \A i \in 1..Len(inbox[c]) : inbox[c][i] = <<want[c], Received(c) + i>>
  /\ want[c] = NONE => sent[c] = 0 /\ stream[c] = <<>>
  /\ want[c] # NONE => sent[c] \in 1..Pieces(want[c])
Waits(c) == \A d \in Fds : owner[d] # c
Here(c) == link[c] \in {"new", "open"}
Conversations ==
  \A c \in Clients :
    IF Here(c)
      THEN InOrder(c) /\ (Waits(c) => Received(c) = 0 /\ stream[c] = <<>>)
      ELSE stream[c] = <<>>

(* A connection waits in one place of the backlog, or has one descriptor.  *)
Places == 1..Len(backlog)
Connections ==
  /\ \A d, e \in Fds : owner[d] \in Clients /\ owner[d] = owner[e] => d = e
  /\ \A d \in Fds : owner[d] \in Clients =>
       link[owner[d]] \in {"open", "closed", "reset"} /\ \A i \in Places : backlog[i] # owner[d]
  /\ \A i \in Places : link[backlog[i]] \in {"open", "closed"}
  /\ \A i, j \in Places : backlog[i] = backlog[j] => i = j

(* How far the server is with a client's request.                          *)
Unasked(fd) == requestStatus[fd] \in {NONE, Request}
Whole(c) == want[c] # NONE /\ Received(c) = Pieces(want[c])
Listening(fd, c) ==
  /\ stream[c] = <<>>
  /\ \/ Received(c) = 0 /\ Unasked(fd)
     \/ Received(c) = 1 /\ requestStatus[fd] = [status |-> "HEAD", kind |-> want[c]]
     \/ /\ Received(c) \in {2, 3} /\ want[c] \notin Gets
        /\ requestStatus[fd] = [status |-> "BODY", kind |-> want[c]]
Finished(fd, c) ==
  Whole(c) /\ Unasked(fd) /\ \E t \in Fits(want[c]) : stream[c] = Answer(t)

Suits(name, k) == name = Resource(k) \/ (name = "redirect" /\ k \in {"download", "delete"})
Answering(fd, c) ==
  LET r == responseStatus[fd] IN
  /\ Whole(c) /\ r # NONE
  /\ StepsAt(fd) \cap {"complate", "recvEnd"} = {} => Unasked(fd)
  /\ \/ /\ r.status = "INIT" /\ stream[c] = <<>> /\ Suits(r.bodyFileName, want[c])
        /\ "page" \in StepsAt(fd) => r.bodyFileName = "list"
     \/ r.status = "HEAD" /\ stream[c] = <<>> /\ r.bodyType \in Fits(want[c])
     \/ /\ r.status = "BODY" /\ r.bodyType \in Fits(want[c]) \ {"EMPTY"}
        /\ stream[c] = << <<"head", r.bodyType>> >>
Over(fd, c) ==
  LET r == responseStatus[fd] IN
  /\ r # NONE /\ (r.status = "COMPLATE" \/ (r.status = "BODY" /\ r.bodyType = "EMPTY"))
  /\ Listening(fd, c) \/ Finished(fd, c)

Busy(fd) == ToSend(fd) \/ StepsAt(fd) \cap SendingSteps # {}
ServedAt(fd, c) ==
  IF Busy(fd)
    THEN Answering(fd, c) \/ Over(fd, c)
    ELSE (Listening(fd, c) \/ Finished(fd, c)) /\ "complate" \notin StepsAt(fd)
Served ==
  \A fd \in Fds, c \in Clients : owner[fd] = c /\ link[c] = "open" => ServedAt(fd, c)

(* What one connection leaves in the tables is nothing to the next.        *)
TidyAt(fd) ==
  /\ owner[fd] \notin Clients /\ "recvErase" \notin StepsAt(fd) => Unasked(fd)
  /\ responseStatus[fd] # NONE /\ responseStatus[fd].status # "INIT"
       => /\ StepsAt(fd) \cap {"send", "sendEnd"} # {}
          /\ responseStatus[fd].bodyType = "FILE" => responseStatus[fd].fileMsgFd \in Fds
  /\ "sendEnd" \in StepsAt(fd) =>
       responseStatus[fd] # NONE /\ responseStatus[fd].status = "COMPLATE"
  /\ owner[fd] \in Clients /\ requestStatus[fd] # NONE /\ requestStatus[fd].status = "ERROR"
       => link[owner[fd]] # "open"
Tidy == \A fd \in Fds : TidyAt(fd)

Serving == Conversations /\ Connections /\ Served /\ Tidy

(* A step that does not touch the conversation or its entries.             *)
LEMMA ServedSame ==
  ASSUME NEW fd \in Fds, NEW c \in Clients, ServedAt(fd, c),
         requestStatus'[fd] = requestStatus[fd], responseStatus'[fd] = responseStatus[fd],
         want'[c] = want[c], stream'[c] = stream[c], Received(c)' = Received(c),
         ToSend(fd)' <=> ToSend(fd),
         \A s \in SendingSteps \cup {"complate", "recvEnd"} : s \in StepsAt(fd)' <=> s \in StepsAt(fd)
  PROVE  ServedAt(fd, c)'
<1>1. Busy(fd)' <=> Busy(fd)
  BY DEF Busy
<1>2. /\ "page" \in StepsAt(fd)' <=> "page" \in StepsAt(fd)
      /\ "complate" \in StepsAt(fd)' <=> "complate" \in StepsAt(fd)
      /\ "recvEnd" \in StepsAt(fd)' <=> "recvEnd" \in StepsAt(fd)
  BY DEF SendingSteps
<1> QED BY <1>1, <1>2 DEF ServedAt, Answering, Over, Listening, Finished, Whole, Unasked

(* What a step of a single worker leaves of the steps at a descriptor.     *)
LEMMA StepsAlone ==
  ASSUME OneWorker, NEW w \in Workers, NEW fd
  PROVE  /\ StepsAt(fd) = IF job[w].fd = fd THEN {pc[w]} ELSE {}
         /\ StepsAt(fd)' = IF job'[w].fd = fd THEN {pc'[w]} ELSE {}
<1>1. Workers = {w}
  BY DEF OneWorker
<1> QED BY <1>1 DEF StepsAt

LEMMA ServingMeansRight ==
  ASSUME Types, Serving
  PROVE  RightAnswer
<1> SUFFICES ASSUME NEW c \in Clients, stream[c] # <<>>
             PROVE  want[c] # NONE /\ \E t \in Fits(want[c]) : IsPrefix(stream[c], Answer(t))
  BY DEF RightAnswer
<1>1. Here(c) /\ ~Waits(c)
  BY DEF Serving, Conversations
<1>2. PICK fd \in Fds : owner[fd] = c
  BY <1>1 DEF Waits
<1>3. link[c] = "open"
  BY <1>1, <1>2 DEF Serving, Connections, Here
<1>4. ServedAt(fd, c)
  BY <1>2, <1>3 DEF Serving, Served
<1>5. ASSUME NEW t \in Fits(want[c]), want[c] # NONE, stream[c] = Answer(t)
      PROVE  want[c] # NONE /\ \E u \in Fits(want[c]) : IsPrefix(stream[c], Answer(u))
  <2>1. IsPrefix(Answer(t), Answer(t))
    BY DEF IsPrefix, Answer
  <2> QED BY <1>5, <2>1
<1>6. ASSUME NEW t \in Fits(want[c]), want[c] # NONE, stream[c] = << <<"head", t>> >>, t # "EMPTY"
      PROVE  want[c] # NONE /\ \E u \in Fits(want[c]) : IsPrefix(stream[c], Answer(u))
  <2>1. IsPrefix(<< <<"head", t>> >>, Answer(t))
    BY <1>6 DEF IsPrefix, Answer
  <2> QED BY <1>6, <2>1
<1> QED BY <1>4, <1>5, <1>6 DEF ServedAt, Answering, Over, Listening, Finished, Whole

(* Who is dropped has left: the server closes only after recv has failed.  *)
LEMMA DroppedHasLeft ==
  ASSUME Types, Alone, Serving, Recycles, NEW w \in Workers, RecvEnd(w) \/ SendTail(w),
         NEW c \in Clients, link'[c] # link[c]
  PROVE  link[c] \in {"closed", "reset"} /\ link'[c] = "gone" /\ ~Waits(c) /\ Waits(c)'
<1>1. PICK f \in Fds : owner[f] = c /\ Closed(f)
                       /\ RecvEnd(w) /\ f = job[w].fd /\ RequestAt(f).status = "ERROR"
  <2>1. CASE RecvEnd(w)
    BY <2>1 DEF RecvEnd, Closed, Types, NetTypes, WorkTypes
  <2>2. CASE SendTail(w)
    <3>1. PICK m \in Tails(w) : /\ m.bodyType = "FILE" /\ m.fileMsgFd # NONE
                                /\ Closed(m.fileMsgFd) /\ pc[w] = "sendTail"
      BY <2>2 DEF SendTail, Tails
    <3>2. m.fileMsgFd \in Fds
      <4>1. m \in Lefts \cup Responses
        BY <3>1, EntriesTyped DEF Tails, Leftovers, Types, WorkTypes, Lefts, KeptResponses, Entries
      <4> QED BY <3>1, <4>1 DEF Lefts, Responses, Entries
    <3>3. owner[m.fileMsgFd] \notin Clients
      BY <3>1, <3>2, AloneClosesOwn DEF ClosesOwn
    <3> QED BY <3>1, <3>3 DEF Closed
  <2> QED BY <2>1, <2>2
<1>2. pc[w] = "recvEnd" /\ requestStatus[f] # NONE /\ requestStatus[f].status = "ERROR"
  BY <1>1 DEF RecvEnd, RequestAt, Alone, Solo, SoloAt
<1>3. link[c] # "open"
  BY <1>1, <1>2 DEF Serving, Tidy, TidyAt
<1>4. link[c] \in {"open", "closed", "reset"}
  BY <1>1 DEF Serving, Connections
<1>5. link'[c] = "gone"
  BY <1>1, <1>3 DEF Closed, Types, NetTypes
<1>6. \A d \in Fds : owner'[d] # c
  BY <1>1, ReactorAssumption DEF Closed, Types, KernelTypes, Serving, Connections
<1> QED BY <1>1, <1>3, <1>4, <1>5, <1>6 DEF Waits

(* Which steps touch the connections, the descriptors and the backlog.     *)
LEMMA FewStepsMove ==
  ASSUME [Next]_vars
  PROVE  /\ link' = link \/ \/ \E c \in Clients : Connect(c) \/ Leave(c)
                           \/ \E w \in Workers : RecvEnd(w) \/ SendTail(w) \/ SendPart(w)
         /\ owner' = owner \/ \E w \in Workers : Accept(w) \/ RecvEnd(w) \/ SendBuild(w) \/ SendTail(w)
         /\ backlog' = backlog \/ \/ \E c \in Clients : Connect(c)
                                 \/ \E w \in Workers : Accept(w) /\ FreeFds # {}
<1> USE DEF netVars, kernelVars, acceptVars
<1>1. ASSUME NEW c \in Clients, ClientNext(c)
      PROVE  /\ owner' = owner /\ (link' = link \/ Connect(c) \/ Leave(c))
             /\ backlog' = backlog \/ Connect(c)
  BY <1>1 DEF ClientNext, Connect, Ask, SendPiece, Read, Leave
<1>2. MainNext => UNCHANGED <<link, owner, backlog>>
  BY DEF MainNext, ReportListen, ReportClient
<1>3. ASSUME NEW w \in Workers, RecvNext(w)
      PROVE  /\ backlog' = backlog
             /\ RecvEnd(w) \/ UNCHANGED <<link, owner>>
  BY <1>3 DEF RecvNext, RecvBegin, RecvPiece, RecvLost, RecvComplate, RecvEnd, RecvErase
<1>4. ASSUME NEW w \in Workers, SendNext(w)
      PROVE  /\ backlog' = backlog
             /\ link' = link \/ SendTail(w) \/ SendPart(w)
             /\ owner' = owner \/ SendBuild(w) \/ SendTail(w)
  BY <1>4 DEF SendNext, SendNothing, SendBuild, SendPage, SendResume, SendPart, SendEmpty, SendEnd,
     SendRearm, SendTail
<1>5. ASSUME NEW w \in Workers, Take(w) \/ Accept(w)
      PROVE  /\ link' = link /\ (owner' = owner \/ Accept(w))
             /\ backlog' = backlog \/ (Accept(w) /\ FreeFds # {})
  BY <1>5 DEF Take, Accept
<1>6. CASE Rests
  BY <1>6 DEF Rests
<1>7. CASE \E c \in Clients : ClientNext(c)
  BY <1>1, <1>7
<1>8. CASE \E w \in Workers : WorkerNext(w)
  BY <1>3, <1>4, <1>5, <1>8 DEF WorkerNext
<1> QED BY <1>2, <1>6, <1>7, <1>8, NextCases

LEMMA LinkSteps ==
  ASSUME Types, Alone, Serving, Recycles, NoResets, [Next]_vars, NEW c \in Clients
  PROVE  \/ link'[c] = link[c]
         \/ link[c] = "new" /\ link'[c] = "open" /\ Connect(c)
         \/ link[c] = "open" /\ link'[c] = "closed" /\ Leave(c)
         \/ link[c] = "closed" /\ link'[c] = "reset" /\ ~Waits(c)
         \/ link[c] \in {"closed", "reset"} /\ link'[c] = "gone" /\ ~Waits(c) /\ Waits(c)'
<1> SUFFICES ASSUME link'[c] # link[c]
             PROVE  \/ link[c] = "new" /\ link'[c] = "open" /\ Connect(c)
                    \/ link[c] = "open" /\ link'[c] = "closed" /\ Leave(c)
                    \/ link[c] = "closed" /\ link'[c] = "reset" /\ ~Waits(c)
                    \/ link[c] \in {"closed", "reset"} /\ link'[c] = "gone" /\ ~Waits(c) /\ Waits(c)'
  OBVIOUS
<1> USE DEF Types, NetTypes
<1>1. \/ \E d \in Clients : Connect(d) \/ Leave(d)
      \/ \E w \in Workers : RecvEnd(w) \/ SendTail(w) \/ SendPart(w)
  BY FewStepsMove
<1>2. ASSUME NEW d \in Clients, Connect(d) \/ Leave(d)
      PROVE  \/ link[c] = "new" /\ link'[c] = "open" /\ Connect(c)
             \/ link[c] = "open" /\ link'[c] = "closed" /\ Leave(c)
  <2>1. d = c
    BY <1>2 DEF Connect, Leave
  <2> QED BY <1>2, <2>1 DEF Connect, Leave, NoResets
<1>3. ASSUME NEW w \in Workers, SendPart(w)
      PROVE  link[c] = "closed" /\ link'[c] = "reset" /\ ~Waits(c)
  <2>1. PICK later \in BOOLEAN : link' = LinkAfterSend(job[w].fd, later)
    BY <1>3 DEF SendPart
  <2>2. owner[job[w].fd] = c /\ (link[c] = "aborted" \/ link[c] = "closed") /\ link'[c] = "reset"
    BY <2>1 DEF LinkAfterSend
  <2>3. job[w].fd \in Fds
    BY <1>3 DEF SendPart, WorkTypes
  <2>4. link[c] # "aborted"
    BY <2>2, <2>3 DEF Serving, Connections
  <2> QED BY <2>2, <2>3, <2>4 DEF Waits
<1> QED BY <1>1, <1>2, <1>3, DroppedHasLeft

LEMMA OwnerSteps ==
  ASSUME Types, [Next]_vars, NEW fd \in Fds, owner'[fd] # owner[fd], owner'[fd] \in Clients
  PROVE  \E w \in Workers :
           /\ Accept(w) /\ FreeFds # {} /\ fd = LowestFree /\ owner[fd] = "free"
           /\ owner'[fd] = Head(backlog)
<1> USE DEF Types, KernelTypes
<1>1. PICK w \in Workers : Accept(w) \/ RecvEnd(w) \/ SendBuild(w) \/ SendTail(w)
  BY FewStepsMove
<1>2. CASE RecvEnd(w) \/ SendTail(w)
  <2>1. PICK f : owner' = [owner EXCEPT ![f] = "free"]
    BY <1>2 DEF RecvEnd, SendTail, Closed
  <2> QED BY <2>1, ReactorAssumption
<1>3. CASE SendBuild(w)
  <2>1. \/ owner' = [owner EXCEPT ![LowestFree] = "file"]
        \/ owner' = [owner EXCEPT ![LowestFree] = "dir"]
    BY <1>3 DEF SendBuild, kernelVars
  <2> QED BY <2>1, ReactorAssumption
<1>4. CASE Accept(w)
  <2>1. FreeFds # {} /\ owner' = [owner EXCEPT ![LowestFree] = Head(backlog)]
    BY <1>4 DEF Accept, kernelVars
  <2>2. fd = LowestFree
    BY <2>1
  <2>3. owner[fd] = "free"
    BY <2>1, <2>2, LowestFreeIsFree DEF FreeFds
  <2> QED BY <1>4, <2>1, <2>2, <2>3
<1> QED BY <1>1, <1>2, <1>3, <1>4

LEMMA ConnectionsStep ==
  ASSUME Types, Alone, Serving, Recycles, NoResets, [Next]_vars
  PROVE  Connections'
<1> USE DEF Types, AcceptTypes
<1>1. ASSUME NEW c \in Clients, Connect(c) PROVE Connections'
  <2>1. owner' = owner /\ backlog' = Append(backlog, c) /\ link[c] = "new"
        /\ link' = [link EXCEPT ![c] = "open"]
    BY <1>1 DEF Connect, kernelVars
  <2>2. /\ \A d \in Fds : owner[d] # c
        /\ \A i \in Places : backlog[i] \in Clients /\ backlog[i] # c
    BY <2>1 DEF Serving, Connections, Places
  <2>3. /\ Len(backlog) \in Nat /\ Len(backlog') = Len(backlog) + 1
        /\ \A i \in Places : backlog'[i] = backlog[i]
        /\ backlog'[Len(backlog) + 1] = c
    BY <2>1, AppendProperties, LenProperties DEF Places
  <2>4. \A i : i \in Places' <=> i \in Places \/ i = Len(backlog) + 1
    BY <2>3 DEF Places
  <2>5. \A d \in Clients : link'[d] = IF d = c THEN "open" ELSE link[d]
    BY <2>1 DEF NetTypes
  <2>6. \A i, j \in Places' : backlog'[i] = backlog'[j] => i = j
    BY <2>2, <2>3, <2>4 DEF Serving, Connections
  <2>7. \A i \in Places' : link'[backlog'[i]] \in {"open", "closed"}
    BY <1>1, <2>2, <2>3, <2>4, <2>5 DEF Serving, Connections
  <2>8. \A d \in Fds : owner[d] \in Clients =>
          link'[owner[d]] \in {"open", "closed", "reset"} /\ \A i \in Places' : backlog'[i] # owner[d]
    BY <2>2, <2>3, <2>4, <2>5 DEF Serving, Connections
  <2> QED BY <2>1, <2>6, <2>7, <2>8 DEF Connections, Serving
<1>2. ASSUME NEW w \in Workers, Accept(w), FreeFds # {} PROVE Connections'
  <2> DEFINE f == LowestFree
             c == Head(backlog)
  <2>1. /\ backlog # <<>> /\ owner' = [owner EXCEPT ![f] = c] /\ backlog' = Tail(backlog)
        /\ link' = link
    BY <1>2 DEF Accept, netVars
  <2>2. f \in Fds /\ owner[f] = "free"
    BY <1>2, LowestFreeIsFree DEF FreeFds
  <2>3. /\ Len(backlog) \in Nat \ {0} /\ Len(backlog') = Len(backlog) - 1
        /\ \A i \in 1..(Len(backlog) - 1) : backlog'[i] = backlog[i + 1]
        /\ c = backlog[1] /\ c \in Clients
    BY <2>1, HeadTailProperties, LenProperties, EmptySeq
  <2> HIDE DEF f, c
  <2>4. \A i \in Places' : i + 1 \in Places /\ i + 1 # 1 /\ backlog'[i] = backlog[i + 1] /\ i \in Int
    BY <2>3 DEF Places
  <2>5. 1 \in Places
    BY <2>3 DEF Places
  <2>6. \A d \in Fds : owner'[d] = IF d = f THEN c ELSE owner[d]
    BY <2>1, <2>2 DEF KernelTypes
  <2>7. \A d \in Fds : owner[d] # c
    BY <2>3, <2>5 DEF Serving, Connections
  <2>8. \A i \in Places' : backlog'[i] # c /\ link[backlog'[i]] \in {"open", "closed"}
                           /\ \A d \in Fds : owner[d] \in Clients => backlog'[i] # owner[d]
    BY <2>3, <2>4, <2>5 DEF Serving, Connections
  <2>9. \A i, j \in Places' : backlog'[i] = backlog'[j] => i = j
    BY <2>4 DEF Serving, Connections
  <2>10. link[c] \in {"open", "closed"}
    BY <2>3, <2>5 DEF Serving, Connections
  <2>11. \A d \in Fds : owner'[d] \in Clients =>
           link[owner'[d]] \in {"open", "closed", "reset"} /\ \A i \in Places' : backlog'[i] # owner'[d]
    BY <2>6, <2>8, <2>10 DEF Serving, Connections
  <2>12. \A d, e \in Fds : owner'[d] \in Clients /\ owner'[d] = owner'[e] => d = e
    BY <2>6, <2>7 DEF Serving, Connections
  <2> QED BY <2>1, <2>8, <2>9, <2>11, <2>12 DEF Connections
<1>3. ASSUME backlog' = backlog, \A w \in Workers : ~(Accept(w) /\ FreeFds # {}),
             \A c \in Clients : ~Connect(c)
      PROVE  Connections'
  <2>1. \A d \in Fds : owner'[d] \in Clients => owner'[d] = owner[d]
    BY <1>3, OwnerSteps
  <2>2. ASSUME NEW d \in Fds, NEW c \in Clients, owner'[d] = c PROVE ~Waits(c)'
    BY <2>2 DEF Waits
  <2>3. \A i \in Places : backlog[i] \in Clients /\ Waits(backlog[i])
    BY DEF Places, Waits, Serving, Connections
  <2>4. \A c \in Clients : \/ link'[c] = link[c]
                           \/ link[c] = "open" /\ link'[c] = "closed"
                           \/ link[c] = "closed" /\ link'[c] = "reset" /\ ~Waits(c)
                           \/ link'[c] = "gone" /\ ~Waits(c) /\ Waits(c)'
    BY <1>3, LinkSteps
  <2>5. Places' = Places
    BY <1>3 DEF Places
  <2>6. \A d \in Fds : owner'[d] \in Clients => link'[owner'[d]] \in {"open", "closed", "reset"}
    BY <2>1, <2>2, <2>4 DEF Serving, Connections
  <2>7. \A i \in Places : link'[backlog[i]] \in {"open", "closed"}
    BY <2>3, <2>4 DEF Serving, Connections
  <2> QED BY <1>3, <2>1, <2>5, <2>6, <2>7 DEF Connections, Serving
<1>4. \/ backlog' = backlog \/ \E c \in Clients : Connect(c)
      \/ \E w \in Workers : Accept(w) /\ FreeFds # {}
  BY FewStepsMove
<1> QED BY <1>1, <1>2, <1>3, <1>4

LEMMA DroppedIsGone ==
  ASSUME Types, Alone, Serving, Recycles, [Next]_vars, NEW c \in Clients, ~Waits(c), Waits(c)'
  PROVE  link'[c] = "gone"
<1> USE DEF Types, KernelTypes
<1>1. PICK fd \in Fds : owner[fd] = c /\ owner'[fd] # c
  BY DEF Waits
<1>2. PICK w \in Workers : Accept(w) \/ RecvEnd(w) \/ SendBuild(w) \/ SendTail(w)
  BY <1>1, FewStepsMove
<1>3. FreeFds # {} => LowestFree # fd
  BY <1>1, LowestFreeIsFree, ReactorAssumption DEF FreeFds
<1>4. ~Accept(w) /\ ~SendBuild(w)
  BY <1>1, <1>3 DEF Accept, SendBuild, kernelVars
<1>5. \E f : Closed(f)
  BY <1>1, <1>2, <1>4 DEF RecvEnd, SendTail
<1>6. link'[c] # link[c]
  <2>1. Closed(fd)
    BY <1>1, <1>2, <1>4 DEF RecvEnd, SendTail, Closed
  <2>2. link[c] \in {"open", "closed", "reset"}
    BY <1>1 DEF Serving, Connections
  <2> QED BY <1>1, <2>1, <2>2 DEF Closed, NetTypes
<1> QED BY <1>2, <1>4, <1>6, DroppedHasLeft

LEMMA AnswerIsWhole ==
  ASSUME Types, Serving, NEW c \in Clients, link[c] = "open", want[c] # NONE,
         NEW t \in Fits(want[c]), stream[c] = Answer(t)
  PROVE  \E fd \in Fds : owner[fd] = c /\ Finished(fd, c)
<1>1. stream[c] # <<>> /\ \A u : u # "EMPTY" => stream[c] # << <<"head", u>> >>
  BY DEF Answer
<1>2. PICK fd \in Fds : owner[fd] = c
  BY <1>1 DEF Serving, Conversations, Here, Waits
<1>3. ServedAt(fd, c)
  BY <1>2 DEF Serving, Served
<1> QED BY <1>1, <1>2, <1>3 DEF ServedAt, Answering, Over, Listening

(* What is sent is what comes next for the client. *)
LEMMA SendsNext ==
  ASSUME Types, Alone, OneWorker, Serving, NEW w \in Workers, SendPart(w),
         NEW c \in Clients, owner[job[w].fd] = c, link[c] = "open"
  PROVE  LET fd == job[w].fd  r == responseStatus[fd] IN
         /\ fd \in Fds /\ r \in KeptResponses /\ Answering(fd, c)
         /\ \/ /\ r.status = "HEAD" /\ stream' = [stream EXCEPT ![c] = Append(@, <<"head", r.bodyType>>)]
               /\ responseStatus' = [responseStatus EXCEPT ![fd] = [r EXCEPT !.status = "BODY"]]
               /\ pc' = [pc EXCEPT ![w] = "send"]
            \/ /\ r.status = "BODY" /\ r.bodyType # "EMPTY"
               /\ stream' = [stream EXCEPT ![c] = Append(@, <<"body", r.bodyType>>)]
               /\ responseStatus' = [responseStatus EXCEPT ![fd] = [r EXCEPT !.status = "COMPLATE"]]
               /\ pc' = [pc EXCEPT ![w] = "sendEnd"]
         /\ link' = link /\ requestStatus' = requestStatus
<1> DEFINE fd == job[w].fd
           r == responseStatus[fd]
<1>1. /\ pc[w] = "send" /\ fd \in Fds /\ r # NONE /\ ResponseAt(fd) = r
      /\ r.status = "HEAD" \/ (r.status = "BODY" /\ r.bodyType \in {"FILE", "HTML"})
  BY DEF SendPart, Alone, Solo, SoloAt, ResponseAt, Types, WorkTypes
<1>2. r \in KeptResponses
  BY <1>1 DEF Types, TableTypes, Entries
<1>3. ServedAt(fd, c)
  BY <1>1 DEF Serving, Served
<1>4. "send" \in StepsAt(fd)
  BY <1>1 DEF StepsAt
<1>5. Answering(fd, c)
  BY <1>1, <1>3, <1>4 DEF ServedAt, Busy, SendingSteps, Over
<1>6. SendResult(fd) = "ok" /\ \A later \in BOOLEAN : LinkAfterSend(fd, later) = link
  BY DEF SendResult, LinkAfterSend
<1>7. \A part : Delivered(fd, part) = [stream EXCEPT ![c] = Append(@, part)]
  BY DEF Delivered
<1>8. r.bodyType = "FILE" => r.fileMsgFd # NONE /\ owner[r.fileMsgFd] = "file"
  <2> SUFFICES ASSUME r.bodyType = "FILE" PROVE r.fileMsgFd # NONE /\ owner[r.fileMsgFd] = "file"
    OBVIOUS
  <2>1. r.fileMsgFd \in Fds
    BY <1>1 DEF Serving, Tidy, TidyAt
  <2>2. SendingFile(fd, r.fileMsgFd)
    BY <1>1 DEF SendingFile
  <2> QED BY <1>1, <2>1, <2>2, ReactorAssumption DEF Alone, FileUsers
<1>9. CASE r.status = "HEAD"
  <2>1. /\ stream' = Delivered(fd, <<"head", ResponseAt(fd).bodyType>>)
        /\ responseStatus' = [responseStatus EXCEPT ![fd] = [ResponseAt(fd) EXCEPT !.status = "BODY"]]
        /\ pc' = [pc EXCEPT ![w] = "send"] /\ requestStatus' = requestStatus
        /\ \E later \in BOOLEAN : link' = LinkAfterSend(fd, later)
    BY <1>1, <1>6, <1>9 DEF SendPart, Goto
  <2> QED BY <1>1, <1>2, <1>5, <1>6, <1>7, <1>9, <2>1
<1>10. CASE r.status = "BODY" /\ r.bodyType \in {"FILE", "HTML"}
  <2>1. /\ stream' = Delivered(fd, <<"body", ResponseAt(fd).bodyType>>)
        /\ responseStatus' = [responseStatus EXCEPT ![fd] = [ResponseAt(fd) EXCEPT !.status = "COMPLATE"]]
        /\ pc' = [pc EXCEPT ![w] = "sendEnd"] /\ requestStatus' = requestStatus
        /\ \E later \in BOOLEAN : link' = LinkAfterSend(fd, later)
    BY <1>1, <1>6, <1>8, <1>10 DEF SendPart, Goto
  <2>2. link' = link
    BY <1>6, <2>1
  <2>3. stream' = [stream EXCEPT ![c] = Append(@, <<"body", r.bodyType>>)]
    BY <1>1, <1>7, <2>1
  <2>4. r.bodyType # "EMPTY"
    BY <1>10
  <2> QED BY <1>1, <1>2, <1>5, <1>10, <2>1, <2>2, <2>3, <2>4
<1> QED BY <1>1, <1>9, <1>10

LEMMA ReceivedTyped ==
  ASSUME Types, NEW c \in Clients
  PROVE  /\ Received(c) \in Int /\ Len(inbox[c]) \in Nat /\ sent[c] \in 0..3
         /\ inbox[c] \in Seq(Kinds \X (1..3)) /\ stream[c] \in Seq({"head", "body"} \X BodyTypes)
         /\ want[c] \in Entries(Kinds)
BY LenProperties DEF Types, NetTypes, Received

(* How a step changes what has been said on a connection. *)
LEMMA AskStep ==
  ASSUME Types, NEW c \in Clients, InOrder(c), Ask(c)
  PROVE  /\ InOrder(c)' /\ Received(c) = 0 /\ Received(c)' = 0
         /\ want[c] = NONE /\ stream[c] = <<>> /\ stream'[c] = <<>>
<1>1. PICK k \in Kinds : /\ want' = [want EXCEPT ![c] = k]
                         /\ inbox' = [inbox EXCEPT ![c] = Append(@, <<k, 1>>)]
  BY DEF Ask
<1>2. want[c] = NONE /\ sent[c] = 0 /\ stream[c] = <<>> /\ Len(inbox[c]) = 0
  BY ReceivedTyped DEF Ask, InOrder
<1>3. /\ want'[c] = k /\ inbox'[c] = Append(inbox[c], <<k, 1>>) /\ sent'[c] = 1 /\ stream'[c] = <<>>
      /\ k # NONE
  BY <1>1, <1>2, ReactorAssumption DEF Ask, Types, NetTypes
<1>4. <<k, 1>> \in Kinds \X (1..3)
  OBVIOUS
<1>5. Len(inbox'[c]) = 1 /\ inbox'[c][1] = <<k, 1>>
  BY <1>2, <1>3, <1>4, AppendProperties, ReceivedTyped
<1>6. Pieces(k) \in {2, 3}
  BY DEF Pieces
<1>7. Received(c) = 0 /\ Received(c)' = 0
  BY <1>2, <1>3, <1>5 DEF Received
<1> QED BY <1>2, <1>3, <1>5, <1>6, <1>7 DEF InOrder

LEMMA SendPieceStep ==
  ASSUME Types, NEW c \in Clients, InOrder(c), SendPiece(c)
  PROVE  InOrder(c)' /\ Received(c)' = Received(c)
<1> DEFINE piece == <<want[c], sent[c] + 1>>
<1>1. /\ want[c] # NONE /\ sent[c] \in 1..Pieces(want[c]) /\ sent[c] < Pieces(want[c])
      /\ inbox'[c] = Append(inbox[c], piece) /\ sent'[c] = sent[c] + 1
      /\ want'[c] = want[c] /\ stream'[c] = stream[c]
  BY DEF SendPiece, InOrder, Types, NetTypes
<1>2. Pieces(want[c]) \in {2, 3}
  BY DEF Pieces
<1>3. piece \in Kinds \X (1..3)
  BY <1>1, <1>2, ReceivedTyped DEF Entries
<1>4. /\ Len(inbox'[c]) = Len(inbox[c]) + 1 /\ inbox'[c][Len(inbox[c]) + 1] = piece
      /\ \A i \in 1..Len(inbox[c]) : inbox'[c][i] = inbox[c][i]
  BY <1>1, <1>3, AppendProperties, ReceivedTyped
<1>5. Received(c)' = Received(c)
  BY <1>1, <1>4, ReceivedTyped DEF Received
<1>6. \A i \in 1..Len(inbox'[c]) : inbox'[c][i] = <<want[c], Received(c) + i>>
  <2> SUFFICES ASSUME NEW i \in 1..Len(inbox'[c]) PROVE inbox'[c][i] = <<want[c], Received(c) + i>>
    OBVIOUS
  <2>1. CASE i \in 1..Len(inbox[c])
    BY <1>4, <2>1 DEF InOrder
  <2>2. CASE i = Len(inbox[c]) + 1
    <3>1. Received(c) + i = sent[c] + 1
      BY <2>2, ReceivedTyped DEF Received
    <3> QED BY <1>4, <2>2, <3>1
  <2> QED BY <1>4, <2>1, <2>2, ReceivedTyped
<1>7. Len(inbox'[c]) <= sent'[c]
  BY <1>1, <1>4, ReceivedTyped DEF InOrder
<1>8. sent'[c] \in 1..Pieces(want[c])
  BY <1>1, <1>2
<1> QED BY <1>1, <1>5, <1>6, <1>7, <1>8 DEF InOrder

LEMMA ReadStep ==
  ASSUME Types, Serving, NEW c \in Clients, Read(c)
  PROVE  /\ InOrder(c)' /\ Received(c)' = 0 /\ stream'[c] = <<>>
         /\ \E fd \in Fds : owner[fd] = c /\ Finished(fd, c)
<1>1. PICK fd \in Fds : owner[fd] = c /\ Finished(fd, c)
  BY AnswerIsWhole DEF Read
<1>2. InOrder(c)
  BY DEF Read, Here, Serving, Conversations
<1>3. Len(inbox[c]) = 0
  <2>1. Pieces(want[c]) \in {2, 3}
    BY DEF Pieces
  <2> QED BY <1>1, <1>2, <2>1, ReceivedTyped DEF Finished, Whole, InOrder, Received
<1>4. want'[c] = NONE /\ sent'[c] = 0 /\ stream'[c] = <<>> /\ inbox'[c] = inbox[c]
  BY DEF Read, Types, NetTypes
<1>5. Received(c)' = 0
  BY <1>3, <1>4 DEF Received
<1> QED BY <1>1, <1>3, <1>4, <1>5 DEF InOrder

LEMMA RecvPieceStep ==
  ASSUME Types, NEW c \in Clients, InOrder(c), NEW w \in Workers, RecvPiece(w), owner[job[w].fd] = c
  PROVE  /\ InOrder(c)' /\ Received(c)' = Received(c) + 1 /\ want[c] \in Kinds
         /\ Head(inbox[c]) = <<want[c], Received(c) + 1>>
         /\ Received(c) + 1 \in 1..Pieces(want[c])
<1>1. /\ inbox[c] # <<>> /\ inbox'[c] = Tail(inbox[c])
      /\ want'[c] = want[c] /\ sent'[c] = sent[c] /\ stream'[c] = stream[c]
  BY DEF RecvPiece, Types, NetTypes
<1>2. /\ Len(inbox[c]) \in Nat \ {0} /\ Len(inbox'[c]) = Len(inbox[c]) - 1
      /\ \A i \in 1..(Len(inbox[c]) - 1) : inbox'[c][i] = inbox[c][i + 1]
      /\ Head(inbox[c]) = inbox[c][1]
  BY <1>1, ReceivedTyped, HeadTailProperties, EmptySeq
<1>3. Received(c)' = Received(c) + 1
  BY <1>1, <1>2, ReceivedTyped DEF Received
<1>4. \A i \in 1..Len(inbox'[c]) : inbox'[c][i] = <<want[c], Received(c) + 1 + i>>
  <2> SUFFICES ASSUME NEW i \in 1..Len(inbox'[c])
               PROVE  inbox'[c][i] = <<want[c], Received(c) + 1 + i>>
    OBVIOUS
  <2>1. i + 1 \in 1..Len(inbox[c]) /\ inbox'[c][i] = inbox[c][i + 1]
    BY <1>2
  <2>2. inbox[c][i + 1] = <<want[c], Received(c) + (i + 1)>>
    BY <2>1 DEF InOrder
  <2>3. Received(c) + (i + 1) = Received(c) + 1 + i
    BY ReceivedTyped
  <2> QED BY <2>1, <2>2, <2>3
<1>5. 1 \in 1..Len(inbox[c])
  BY <1>2
<1>6. sent[c] # 0 /\ want[c] # NONE /\ sent[c] \in 1..Pieces(want[c])
  BY <1>2, ReceivedTyped DEF InOrder
<1>7. Received(c) + 1 \in 1..Pieces(want[c])
  <2>1. Pieces(want[c]) \in {2, 3}
    BY DEF Pieces
  <2> QED BY <1>2, <1>6, <2>1, ReceivedTyped DEF InOrder, Received
<1>8. Len(inbox'[c]) <= sent[c]
  BY <1>2, ReceivedTyped DEF InOrder
<1> QED BY <1>1, <1>2, <1>3, <1>4, <1>5, <1>6, <1>7, <1>8, ReceivedTyped DEF InOrder, Entries

LEMMA TalkSteps ==
  ASSUME Types, [Next]_vars, NEW c \in Clients
  PROVE  \/ Ask(c) \/ SendPiece(c) \/ Read(c) \/ Leave(c)
         \/ \E w \in Workers : RecvPiece(w) /\ owner[job[w].fd] = c
         \/ \E w \in Workers : SendPart(w) /\ owner[job[w].fd] = c /\ link[c] = "open"
         \/ want'[c] = want[c] /\ sent'[c] = sent[c] /\ inbox'[c] = inbox[c] /\ stream'[c] = stream[c]
<1> DEFINE Same == want'[c] = want[c] /\ sent'[c] = sent[c] /\ inbox'[c] = inbox[c]
                   /\ stream'[c] = stream[c]
<1> USE DEF Types, NetTypes
<1>1. \/ \E d \in Clients : Ask(d) \/ SendPiece(d) \/ Read(d) \/ Leave(d)
      \/ \E w \in Workers : RecvPiece(w) \/ SendPart(w)
      \/ UNCHANGED <<want, sent, inbox, stream>>
  <2>1. ASSUME NEW w \in Workers, RecvNext(w), ~RecvPiece(w) PROVE UNCHANGED <<want, sent, inbox, stream>>
    BY <2>1 DEF netVars, RecvNext, RecvBegin, RecvLost, RecvComplate, RecvEnd, RecvErase
  <2>2. ASSUME NEW w \in Workers, SendNext(w), ~SendPart(w) PROVE UNCHANGED <<want, sent, inbox, stream>>
    BY <2>2 DEF netVars, SendNext, SendNothing, SendBuild, SendPage, SendResume, SendEmpty, SendEnd,
       SendRearm, SendTail
  <2> QED BY <2>1, <2>2, NextCases DEF Rests, netVars, ClientNext, Connect, MainNext, ReportListen,
         ReportClient, WorkerNext, Take, Accept
<1>2. ASSUME NEW d \in Clients, Ask(d) \/ SendPiece(d) \/ Read(d) \/ Leave(d), d # c PROVE Same
  BY <1>2 DEF Ask, SendPiece, Read, Leave
<1>3. ASSUME NEW w \in Workers, RecvPiece(w), owner[job[w].fd] # c PROVE Same
  <2>1. /\ UNCHANGED <<want, sent, stream>>
        /\ inbox' = [inbox EXCEPT ![owner[job[w].fd]] = Tail(@)]
    BY <1>3 DEF RecvPiece
  <2> QED BY <1>3, <2>1
<1>4. ASSUME NEW w \in Workers, SendPart(w), ~(owner[job[w].fd] = c /\ link[c] = "open") PROVE Same
  <2>1. stream' = stream \/ \E part : stream' = Delivered(job[w].fd, part)
    BY <1>4 DEF SendPart
  <2>2. stream'[c] = stream[c]
    BY <1>4, <2>1 DEF Delivered
  <2> QED BY <1>4, <2>2 DEF SendPart
<1> QED BY <1>1, <1>2, <1>3, <1>4

LEMMA ConversationsStep ==
  ASSUME Types, Alone, OneWorker, Serving, Recycles, NoResets, [Next]_vars
  PROVE  Conversations'
<1> SUFFICES ASSUME NEW c \in Clients
             PROVE  IF Here(c)'
                      THEN InOrder(c)' /\ (Waits(c)' => Received(c)' = 0 /\ stream'[c] = <<>>)
                      ELSE stream'[c] = <<>>
  BY DEF Conversations
<1> DEFINE Same == want'[c] = want[c] /\ sent'[c] = sent[c] /\ inbox'[c] = inbox[c]
                   /\ stream'[c] = stream[c]
<1>1. CASE ~Here(c)
  <2>1. ~Here(c)' /\ stream[c] = <<>>
    BY <1>1, LinkSteps DEF Here, Serving, Conversations
  <2>2. stream'[c] = <<>>
    BY <1>1, <2>1, TalkSteps DEF Here, Ask, SendPiece, Read, Leave, RecvPiece
  <2> QED BY <2>1, <2>2
<1>2. CASE Here(c) /\ ~Here(c)'
  <2>1. Leave(c)
    BY <1>2, LinkSteps DEF Here
  <2> QED BY <1>2, <2>1 DEF Leave, Types, NetTypes
<1>3. CASE Here(c) /\ Here(c)'
  <2>1. InOrder(c) /\ (Waits(c) => Received(c) = 0 /\ stream[c] = <<>>)
    BY <1>3 DEF Serving, Conversations
  <2>2. Waits(c)' => Waits(c)
    BY <1>3, DroppedIsGone DEF Here
  <2>3. CASE Ask(c) \/ Read(c)
    BY <1>3, <2>1, <2>3, AskStep, ReadStep
  <2>4. CASE SendPiece(c)
    <3>1. stream'[c] = stream[c]
      BY <2>4 DEF SendPiece
    <3> QED BY <1>3, <2>1, <2>2, <2>4, <3>1, SendPieceStep
  <2>5. ~Leave(c)
    BY <1>3 DEF Leave, Here, Types, NetTypes
  <2>6. ASSUME NEW w \in Workers, RecvPiece(w) \/ SendPart(w), owner[job[w].fd] = c PROVE ~Waits(c)
    BY <2>6 DEF RecvPiece, SendPart, Waits, Types, WorkTypes
  <2>7. ASSUME NEW w \in Workers, RecvPiece(w), owner[job[w].fd] = c
        PROVE  InOrder(c)' /\ ~Waits(c)'
    BY <2>1, <2>2, <2>6, <2>7, RecvPieceStep
  <2>8. ASSUME NEW w \in Workers, SendPart(w), owner[job[w].fd] = c, link[c] = "open"
        PROVE  InOrder(c)' /\ ~Waits(c)'
    <3>1. want[c] # NONE
      BY <2>8, SendsNext DEF Answering, Whole
    <3>2. UNCHANGED <<want, sent, inbox>>
      BY <2>8 DEF SendPart
    <3> QED BY <2>1, <2>2, <2>6, <2>8, <3>1, <3>2 DEF InOrder, Received
  <2>9. CASE Same
    BY <1>3, <2>1, <2>2, <2>9 DEF InOrder, Received
  <2> QED BY <1>3, <2>3, <2>4, <2>5, <2>7, <2>8, <2>9, TalkSteps
<1> QED BY <1>1, <1>2, <1>3

(* What is due to be sent stays due, and nothing else becomes due.         *)
LEMMA ToSendReport ==
  ASSUME Types, NEW fd \in Fds, MainNext, interest[fd] = "inout" => ~Input(fd)
  PROVE  ToSend(fd)' <=> ToSend(fd)
<1> USE DEF Types, WorkTypes
<1>1. UNCHANGED <<pc, job>>
  BY DEF MainNext, ReportListen, ReportClient, kernelVars
<1>2. PICK e \in QueuedEvents :
        /\ m_workQueue' = Append(m_workQueue, e)
        /\ \/ interest'[fd] = interest[fd] /\ e.fd # fd
           \/ /\ e.fd = fd /\ interest'[fd] = "off"
              /\ e.kind = "HandleSend" <=> interest[fd] = "inout"
  <2>1. CASE ReportListen
    <3>1. Event("AcceptConn", NONE, NONE) \in QueuedEvents
      BY DEF Event, QueuedEvents, Entries
    <3> QED BY <2>1, <3>1, ReactorAssumption DEF ReportListen, kernelVars, Event
  <2>2. ASSUME NEW d \in Fds, ReportClient(d)
        PROVE  \E e \in QueuedEvents :
                 /\ m_workQueue' = Append(m_workQueue, e)
                 /\ \/ interest'[fd] = interest[fd] /\ e.fd # fd
                    \/ /\ e.fd = fd /\ interest'[fd] = "off"
                       /\ e.kind = "HandleSend" <=> interest[fd] = "inout"
    <3> DEFINE e == Event(IF Input(d) THEN "HandleRecv" ELSE "HandleSend", d, owner[d])
    <3>1. interest[d] # "none" => owner[d] \in Clients
      BY DEF KernelTypes
    <3>2. e \in QueuedEvents /\ e.fd = d
      BY <2>2, <3>1 DEF Event, QueuedEvents, Entries, ReportClient
    <3>3. m_workQueue' = Append(m_workQueue, e) /\ interest' = [interest EXCEPT ![d] = "off"]
      BY <2>2 DEF ReportClient
    <3>4. d = fd => (e.kind = "HandleSend" <=> interest[fd] = "inout")
      BY <2>2 DEF ReportClient, Event
    <3> HIDE DEF e
    <3> QED BY <3>2, <3>3, <3>4 DEF KernelTypes
  <2> QED BY <2>1, <2>2 DEF MainNext
<1>3. /\ Len(m_workQueue) \in Nat /\ Len(m_workQueue') = Len(m_workQueue) + 1
      /\ \A i \in Slots : m_workQueue'[i] = m_workQueue[i]
      /\ m_workQueue'[Len(m_workQueue) + 1] = e
  BY <1>2, AppendProperties, LenProperties DEF Slots
<1>4. \A i : i \in Slots' <=> i \in Slots \/ i = Len(m_workQueue) + 1
  BY <1>3 DEF Slots
<1>5. ToSend(fd)' <=> \/ interest'[fd] = "inout"
                      \/ \E i \in Slots : m_workQueue[i].fd = fd /\ m_workQueue[i].kind = "HandleSend"
                      \/ e.fd = fd /\ e.kind = "HandleSend"
                      \/ \E w \in Workers : job[w].fd = fd /\ pc[w] = "sendBegin"
  BY <1>1, <1>3, <1>4 DEF ToSend
<1> QED BY <1>2, <1>5 DEF ToSend

(* A connection with an answer due has nothing to be received. *)
LEMMA NoInputWhenDue ==
  ASSUME Types, Alone, Serving, NEW fd \in Fds, NEW c \in Clients, owner[fd] = c,
         link[c] = "open", interest[fd] = "inout"
  PROVE  ~Input(fd)
<1>1. ServedAt(fd, c) /\ Busy(fd)
  BY DEF Serving, Served, Busy, ToSend
<1>2. StepsAt(fd) \cap {"send", "sendEnd"} = {}
  <2> SUFFICES ASSUME NEW w \in Workers, job[w].fd = fd, pc[w] \in {"send", "sendEnd"} PROVE FALSE
    BY DEF StepsAt
  <2>1. InHand(w, fd)
    BY HeldSteps DEF HoldingSteps, InHand, Alone
  <2> QED BY <2>1 DEF Alone, Custody, OneHand, InEpoll
<1>3. ~Over(fd, c)
  BY <1>2 DEF Over, Serving, Tidy, TidyAt
<1>4. Whole(c)
  BY <1>1, <1>3 DEF ServedAt, Answering
<1>5. InOrder(c)
  BY DEF Serving, Conversations, Here
<1>6. Pieces(want[c]) \in {2, 3}
  BY DEF Pieces
<1>7. Len(inbox[c]) = 0
  BY <1>4, <1>5, <1>6, ReceivedTyped DEF Whole, InOrder, Received
<1> QED BY <1>7, ReceivedTyped, EmptySeq DEF Input

LEMMA OutsideStep ==
  ASSUME Types, Alone, Serving, Recycles, NoResets, [Next]_vars,
         \A w \in Workers : ~WorkerNext(w)
  PROVE  Served' /\ Tidy'
<1>1. UNCHANGED <<pc, job, owner, tableVars>>
  BY NextCases DEF Rests, workVars, kernelVars, ClientNext, Connect, Ask, SendPiece, Read, Leave,
     MainNext, ReportListen, ReportClient
<1>2. \A fd : StepsAt(fd)' = StepsAt(fd)
  BY <1>1 DEF StepsAt
<1>3. ASSUME NEW fd \in Fds, NEW c \in Clients, owner[fd] = c, link'[c] = "open"
      PROVE  link[c] = "open"
  <2>1. link[c] # "new"
    BY <1>3 DEF Serving, Connections
  <2> QED BY <1>3, <2>1, LinkSteps
<1>4. Tidy'
  <2> SUFFICES ASSUME NEW fd \in Fds PROVE TidyAt(fd)'
    BY DEF Tidy
  <2>1. TidyAt(fd)
    BY DEF Serving, Tidy
  <2>2. owner[fd] \in Clients /\ link'[owner[fd]] = "open" => link[owner[fd]] = "open"
    BY <1>3
  <2> QED BY <1>1, <1>2, <2>1, <2>2 DEF TidyAt, Unasked, tableVars
<1>5. Served'
  <2> SUFFICES ASSUME NEW fd \in Fds, NEW c \in Clients, owner[fd] = c, link'[c] = "open"
               PROVE  ServedAt(fd, c)'
    BY <1>1 DEF Served
  <2>1. link[c] = "open" /\ ServedAt(fd, c)
    BY <1>3 DEF Serving, Served
  <2>2. ToSend(fd)' <=> ToSend(fd)
    <3>1. CASE MainNext
      BY <2>1, <3>1, ToSendReport, NoInputWhenDue
    <3>2. CASE ~MainNext
      <4>1. UNCHANGED <<interest, m_workQueue, pc, job>>
        BY <1>1, <3>2, NextCases DEF Rests, workVars, kernelVars, ClientNext, Connect, Ask, SendPiece, Read,
           Leave
      <4> QED BY <4>1 DEF ToSend, Slots
    <3> QED BY <3>1, <3>2
  <2>3. requestStatus'[fd] = requestStatus[fd] /\ responseStatus'[fd] = responseStatus[fd]
    BY <1>1 DEF tableVars
  <2>4. InOrder(c)
    BY <2>1 DEF Serving, Conversations, Here
  <2>5. ASSUME want'[c] = want[c], stream'[c] = stream[c], Received(c)' = Received(c)
        PROVE  ServedAt(fd, c)'
    BY <1>2, <2>1, <2>2, <2>3, <2>5, ServedSame
  <2>6. ASSUME ~Answering(fd, c), Unasked(fd), stream'[c] = <<>>, Received(c)' = 0
        PROVE  ServedAt(fd, c)'
    <3>1. Listening(fd, c)'
      BY <2>3, <2>6 DEF Listening, Unasked
    <3> QED BY <1>2, <2>1, <2>2, <2>3, <2>6, <3>1 DEF ServedAt, Busy, Over
  <2>7. CASE Ask(c)
    <3>1. Received(c) = 0 /\ Received(c)' = 0 /\ want[c] = NONE /\ stream'[c] = <<>>
      BY <2>4, <2>7, AskStep
    <3>2. ~Answering(fd, c) /\ Unasked(fd)
      BY <2>1, <3>1 DEF ServedAt, Answering, Over, Listening, Finished, Whole
    <3> QED BY <2>6, <3>1, <3>2
  <2>8. CASE Read(c)
    <3>1. Received(c)' = 0 /\ stream'[c] = <<>>
      BY <2>8, ReadStep
    <3>2. Finished(fd, c)
      BY <2>8, ReadStep DEF Serving, Connections
    <3>3. ~Answering(fd, c)
      BY <3>2 DEF Finished, Answering, Answer
    <3> QED BY <2>6, <3>1, <3>2, <3>3 DEF Finished
  <2>9. CASE SendPiece(c)
    BY <2>4, <2>5, <2>9, SendPieceStep DEF SendPiece, Types, NetTypes
  <2>10. ~Leave(c)
    BY <2>1 DEF Leave, Types, NetTypes
  <2>11. \A w \in Workers : ~RecvPiece(w) /\ ~SendPart(w)
    BY DEF WorkerNext, RecvNext, SendNext
  <2> QED BY <2>5, <2>7, <2>8, <2>9, <2>10, <2>11, TalkSteps DEF Received
<1> QED BY <1>4, <1>5

LEMMA TakeStep ==
  ASSUME Types, Alone, OneWorker, Serving, NEW w \in Workers, Take(w)
  PROVE  Served' /\ Tidy'
<1> USE DEF Types, WorkTypes
<1> DEFINE e == Head(m_workQueue)
           step == CASE e.kind = "AcceptConn" -> "accept"
                     [] e.kind = "HandleRecv" -> "recvBegin"
                     [] OTHER -> "sendBegin"
<1>1. /\ pc[w] = "idle" /\ m_workQueue # <<>> /\ m_workQueue' = Tail(m_workQueue)
      /\ pc' = [pc EXCEPT ![w] = step] /\ job' = [job EXCEPT ![w] = Job(e.fd, e.conn)]
      /\ UNCHANGED <<want, sent, inbox, stream, link, owner, interest, requestStatus, responseStatus>>
  BY DEF Take, Goto, netVars, kernelVars, tableVars
<1>2. /\ Len(m_workQueue) \in Nat \ {0} /\ Len(m_workQueue') = Len(m_workQueue) - 1
      /\ \A i \in 1..(Len(m_workQueue) - 1) : m_workQueue'[i] = m_workQueue[i + 1]
      /\ e = m_workQueue[1] /\ e \in QueuedEvents
  BY <1>1, HeadTailProperties, LenProperties, EmptySeq
<1>3. job[w].fd = NONE /\ job'[w].fd = e.fd /\ pc'[w] = step
  BY <1>1 DEF Job
<1>4. step \in {"accept", "recvBegin", "sendBegin"}
      /\ (step = "sendBegin" <=> e.kind = "HandleSend")
  BY <1>2 DEF QueuedEvents
<1> HIDE DEF e, step
<1>5. \A fd \in Fds : StepsAt(fd) = {} /\ StepsAt(fd)' \subseteq {"accept", "recvBegin", "sendBegin"}
  BY <1>3, <1>4, StepsAlone, ReactorAssumption
<1>6. ASSUME NEW fd \in Fds PROVE ToSend(fd)' <=> ToSend(fd)
  <2> DEFINE Due(i) == m_workQueue[i].fd = fd /\ m_workQueue[i].kind = "HandleSend"
  <2>1. (\E i \in Slots : Due(i)) <=> (e.fd = fd /\ e.kind = "HandleSend") \/ \E i \in Slots' : Due(i)'
    <3>1. ASSUME NEW i \in Slots, Due(i), i # 1 PROVE \E j \in Slots' : Due(j)'
      <4>1. i - 1 \in Slots' /\ i - 1 \in 1..(Len(m_workQueue) - 1) /\ (i - 1) + 1 = i
        BY <1>2, <3>1 DEF Slots
      <4>2. m_workQueue'[i - 1] = m_workQueue[i]
        BY <1>2, <4>1
      <4> QED BY <3>1, <4>1, <4>2
    <3>2. ASSUME NEW i \in Slots', Due(i)' PROVE \E j \in Slots : Due(j)
      <4>1. i + 1 \in Slots /\ i \in 1..(Len(m_workQueue) - 1)
        BY <1>2, <3>2 DEF Slots
      <4>2. m_workQueue'[i] = m_workQueue[i + 1]
        BY <1>2, <4>1
      <4> QED BY <3>2, <4>1, <4>2
    <3>3. 1 \in Slots
      BY <1>2 DEF Slots
    <3> QED BY <1>2, <3>1, <3>2, <3>3
  <2>2. (\E v \in Workers : job'[v].fd = fd /\ pc'[v] = "sendBegin")
          <=> e.fd = fd /\ e.kind = "HandleSend"
    BY <1>3, <1>4 DEF OneWorker
  <2>3. ~\E v \in Workers : job[v].fd = fd /\ pc[v] = "sendBegin"
    BY <1>3, ReactorAssumption DEF OneWorker
  <2> QED BY <1>1, <2>1, <2>2, <2>3 DEF ToSend
<1>7. Tidy'
  <2> SUFFICES ASSUME NEW fd \in Fds PROVE TidyAt(fd)'
    BY DEF Tidy
  <2>1. TidyAt(fd)
    BY DEF Serving, Tidy
  <2> QED BY <1>1, <1>5, <2>1 DEF TidyAt, Unasked
<1>8. ASSUME NEW fd \in Fds, NEW c \in Clients, owner[fd] = c, link[c] = "open"
      PROVE  ServedAt(fd, c)'
  <2>1. ServedAt(fd, c)
    BY <1>8 DEF Serving, Served
  <2>2. \A s \in SendingSteps \cup {"complate", "recvEnd"} :
          s \in StepsAt(fd)' <=> s \in StepsAt(fd)
    BY <1>5 DEF SendingSteps
  <2>3. Received(c)' = Received(c)
    BY <1>1 DEF Received
  <2> QED BY <1>1, <1>6, <2>1, <2>2, <2>3, ServedSame
<1> QED BY <1>1, <1>7, <1>8 DEF Served

LEMMA AcceptStep ==
  ASSUME Types, Alone, OneWorker, Serving, NEW w \in Workers, Accept(w)
  PROVE  Served' /\ Tidy'
<1> USE DEF Types, WorkTypes
<1>1. /\ pc[w] = "accept" /\ pc' = [pc EXCEPT ![w] = "idle"] /\ job' = [job EXCEPT ![w] = NoJob]
      /\ UNCHANGED <<want, sent, inbox, stream, link, m_workQueue, requestStatus, responseStatus>>
  BY DEF Accept, Return, netVars, tableVars
<1>2. job[w].fd = NONE /\ job'[w].fd = NONE
  BY <1>1 DEF NoJob
<1>3. \A fd \in Fds : StepsAt(fd) = {} /\ StepsAt(fd)' = {}
  BY <1>2, StepsAlone, ReactorAssumption
<1>4. ASSUME NEW fd \in Fds, interest'[fd] = interest[fd] PROVE ToSend(fd)' <=> ToSend(fd)
  <2>1. /\ ~\E v \in Workers : job'[v].fd = fd /\ pc'[v] = "sendBegin"
        /\ ~\E v \in Workers : job[v].fd = fd /\ pc[v] = "sendBegin"
    BY <1>2, ReactorAssumption DEF OneWorker
  <2> QED BY <1>1, <1>4, <2>1 DEF ToSend, Slots
<1>5. ASSUME NEW fd \in Fds, owner'[fd] = owner[fd], interest'[fd] = interest[fd]
      PROVE  /\ TidyAt(fd)'
             /\ \A c \in Clients : owner'[fd] = c /\ link'[c] = "open" => ServedAt(fd, c)'
  <2>1. TidyAt(fd)
    BY DEF Serving, Tidy
  <2>2. TidyAt(fd)'
    BY <1>1, <1>3, <1>5, <2>1 DEF TidyAt, Unasked
  <2>3. ASSUME NEW c \in Clients, owner[fd] = c, link[c] = "open" PROVE ServedAt(fd, c)'
    <3>1. ServedAt(fd, c)
      BY <2>3 DEF Serving, Served
    <3>2. Received(c)' = Received(c)
      BY <1>1 DEF Received
    <3> QED BY <1>1, <1>3, <1>4, <1>5, <3>1, <3>2, ServedSame
  <2> QED BY <1>1, <1>5, <2>2, <2>3
<1>6. CASE FreeFds = {}
  BY <1>5, <1>6 DEF Accept, kernelVars, Served, Tidy
<1>7. CASE FreeFds # {}
  <2>1. LowestFree \in Fds /\ owner[LowestFree] = "free"
    BY <1>7, LowestFreeIsFree DEF FreeFds
  <2>2. Head(backlog) \in Clients /\ 1 \in Places /\ Head(backlog) = backlog[1]
    BY HeadTailProperties, LenProperties, EmptySeq DEF Accept, AcceptTypes, Places
  <2>3. PICK f \in Fds, c \in Clients :
          /\ owner[f] = "free" /\ c = backlog[1] /\ 1 \in Places
          /\ owner' = [owner EXCEPT ![f] = c] /\ interest' = [interest EXCEPT ![f] = "in"]
    BY <1>7, <2>1, <2>2 DEF Accept, Added
  <2>4. \A fd \in Fds \ {f} : owner'[fd] = owner[fd] /\ interest'[fd] = interest[fd]
    BY <2>3 DEF KernelTypes
  <2>5. owner'[f] = c /\ interest'[f] = "in"
    BY <2>3 DEF KernelTypes
  <2>6. Unasked(f) /\ Unasked(f)'
    <3>1. TidyAt(f)
      BY DEF Serving, Tidy
    <3> QED BY <1>1, <1>3, <2>3, <3>1, ReactorAssumption DEF TidyAt, Unasked
  <2>7. TidyAt(f)'
    <3>1. TidyAt(f)
      BY DEF Serving, Tidy
    <3> QED BY <1>1, <1>3, <2>3, <2>5, <2>6, <3>1 DEF TidyAt, Unasked, Request
  <2>8. ASSUME link[c] = "open" PROVE ServedAt(f, c)'
    <3>1. Waits(c)
      BY <2>3 DEF Serving, Connections, Waits
    <3>2. Received(c) = 0 /\ stream[c] = <<>>
      BY <2>3, <2>8, <3>1 DEF Serving, Conversations, Here
    <3>3. Listening(f, c)'
      BY <1>1, <2>6, <3>2 DEF Listening, Received
    <3>4. ~ToSend(f)'
      <4>1. \A i \in Slots : m_workQueue[i].fd # f
        BY <2>3, ReactorAssumption DEF Alone, Custody, Rightful, InQueue
      <4>2. ~\E v \in Workers : job'[v].fd = f /\ pc'[v] = "sendBegin"
        BY <1>2, ReactorAssumption DEF OneWorker
      <4> QED BY <1>1, <2>5, <4>1, <4>2 DEF ToSend, Slots
    <3>5. StepsAt(f)' = {}
      BY <1>3
    <3> QED BY <3>3, <3>4, <3>5 DEF ServedAt, Busy
  <2> QED BY <1>1, <1>5, <2>3, <2>4, <2>5, <2>7, <2>8 DEF Served, Tidy
<1> QED BY <1>6, <1>7

(* A handler leaves other descriptors' connections alone. *)
LEMMA HandlerTalk ==
  ASSUME Types, NEW w \in Workers, RecvNext(w) \/ SendNext(w), NEW c \in Clients,
         owner[job[w].fd] # c \/ ~(RecvPiece(w) \/ SendPart(w))
  PROVE  /\ want'[c] = want[c] /\ sent'[c] = sent[c] /\ inbox'[c] = inbox[c]
         /\ stream'[c] = stream[c] /\ Received(c)' = Received(c)
<1> USE DEF Types, NetTypes
<1>1. CASE RecvPiece(w)
  <2>1. /\ UNCHANGED <<want, sent, stream>>
        /\ inbox' = [inbox EXCEPT ![owner[job[w].fd]] = Tail(@)]
    BY <1>1 DEF RecvPiece
  <2>2. inbox'[c] = inbox[c]
    BY <1>1, <2>1
  <2> QED BY <2>1, <2>2 DEF Received
<1>2. CASE SendPart(w)
  <2>1. stream' = stream \/ \E part : stream' = Delivered(job[w].fd, part)
    BY <1>2 DEF SendPart
  <2>2. stream'[c] = stream[c]
    BY <1>2, <2>1 DEF Delivered
  <2> QED BY <1>2, <2>2 DEF SendPart, Received
<1>3. CASE RecvNext(w) /\ ~RecvPiece(w)
  <2>1. UNCHANGED <<want, sent, inbox, stream>>
    BY <1>3 DEF netVars, RecvNext, RecvBegin, RecvLost, RecvComplate, RecvEnd, RecvErase
  <2> QED BY <2>1 DEF Received
<1>4. CASE SendNext(w) /\ ~SendPart(w)
  <2>1. UNCHANGED <<want, sent, inbox, stream>>
    BY <1>4 DEF netVars, SendNext, SendNothing, SendBuild, SendPage, SendResume, SendEmpty, SendEnd,
       SendRearm, SendTail
  <2> QED BY <2>1 DEF Received
<1> QED BY <1>1, <1>2, <1>3, <1>4

LEMMA HandlerEntries ==
  ASSUME Types, NEW w \in Workers, RecvNext(w) \/ SendNext(w)
  PROVE  /\ job[w].fd \in Fds /\ job'[w].fd \in {job[w].fd, NONE}
         /\ \A d \in Fds \ {job[w].fd} : /\ requestStatus'[d] = requestStatus[d]
                                         /\ responseStatus'[d] = responseStatus[d]
<1> USE DEF Types, WorkTypes, TableTypes
<1> DEFINE fd == job[w].fd
           Returns == Return(w) \/ Released(w) \/ job' = job \/ \E l : job' = [job EXCEPT ![w].left = l]
           Requested == requestStatus' = requestStatus
                        \/ \E r : requestStatus' = [requestStatus EXCEPT ![fd] = r]
           Responded == responseStatus' = responseStatus
                        \/ \E r : responseStatus' = [responseStatus EXCEPT ![fd] = r]
<1> HIDE DEF Returns, Requested, Responded
<1>1. fd \in Fds
  <2>1. RecvNext(w) => pc[w] \notin {"idle", "accept"}
    BY DEF RecvNext, RecvBegin, RecvPiece, RecvLost, RecvComplate, RecvEnd, RecvErase
  <2>2. SendNext(w) => pc[w] \notin {"idle", "accept"}
    BY DEF SendNext, SendNothing, SendBuild, SendPage, SendResume, SendPart, SendEmpty, SendEnd,
       SendRearm, SendTail
  <2> QED BY <2>1, <2>2
<1>2. ASSUME RecvNext(w) PROVE Returns /\ Requested /\ Responded
  <2>1. Returns
    BY <1>2 DEF Returns, RecvNext, RecvBegin, RecvPiece, RecvLost, RecvComplate, RecvEnd, RecvErase
  <2>2. Requested
    BY <1>2 DEF Requested, RecvNext, RecvBegin, RecvPiece, RecvLost, RecvComplate, RecvEnd, RecvErase
  <2>3. Responded
    BY <1>2 DEF Responded, RecvNext, RecvBegin, RecvPiece, RecvLost, RecvComplate, RecvEnd, RecvErase
  <2> QED BY <2>1, <2>2, <2>3
<1>3. ASSUME SendNext(w) PROVE Returns /\ Requested /\ Responded
  <2> USE <1>3 DEF SendNext, tableVars
  <2>1. Returns
    BY DEF Returns, SendNothing, SendBuild, SendPage, SendResume, SendPart, SendEmpty, SendEnd, SendRearm,
       SendTail, Redirect
  <2>2. Requested
    BY DEF Requested, SendNothing, SendBuild, SendPage, SendResume, SendPart, SendFails, SendEmpty, SendEnd,
       SendRearm, SendTail
  <2>3. Responded
    BY DEF Responded, SendNothing, SendBuild, SendPage, SendResume, SendPart, SendEmpty, SendEnd, SendRearm,
       SendTail, Redirect
  <2> QED BY <2>1, <2>2, <2>3
<1>4. Returns /\ Requested /\ Responded
  BY <1>2, <1>3
<1>5. job'[w].fd \in {fd, NONE}
  BY <1>4 DEF Returns, Return, Released, NoJob, Jobs
<1>6. \A d \in Fds \ {fd} : requestStatus'[d] = requestStatus[d] /\ responseStatus'[d] = responseStatus[d]
  BY <1>4 DEF Requested, Responded
<1> QED BY <1>1, <1>5, <1>6

(* Which output events there are for a descriptor. *)
Outputs(fd) == {i \in Slots : m_workQueue[i].fd = fd /\ m_workQueue[i].kind = "HandleSend"}
LEMMA ToSendAlone ==
  ASSUME OneWorker, NEW w \in Workers, NEW fd
  PROVE  /\ ToSend(fd) <=> \/ interest[fd] = "inout" \/ Outputs(fd) # {}
                           \/ (job[w].fd = fd /\ pc[w] = "sendBegin")
         /\ ToSend(fd)' <=> \/ interest'[fd] = "inout" \/ Outputs(fd)' # {}
                            \/ (job'[w].fd = fd /\ pc'[w] = "sendBegin")
BY DEF OneWorker, ToSend, Outputs

LEMMA HandlerOwners ==
  ASSUME Types, Alone, Recycles, NEW w \in Workers, RecvNext(w) \/ SendNext(w), NEW d \in Fds
  PROVE  /\ m_workQueue' = m_workQueue /\ Outputs(d)' = Outputs(d)
         /\ owner'[d] \in Clients => owner'[d] = owner[d]
         /\ d # job[w].fd /\ owner[d] \in Clients => owner'[d] = owner[d] /\ interest'[d] = interest[d]
<1> USE DEF Types, KernelTypes
<1>1. Effect(w)
  BY AloneClosesOwn, WorkerEffects DEF Alone
<1>2. job[w].fd # NONE
  BY HandlerEntries, ReactorAssumption
<1>3. m_workQueue' = m_workQueue /\ Outputs(d)' = Outputs(d)
  BY <1>1 DEF Effect, Outputs, Slots
<1>4. CASE Passes \/ Drops(w) \/ Rearms(w)
  BY <1>3, <1>4 DEF Passes, Drops, Rearms
<1>5. ASSUME NEW f \in Fds, Closes(w, f)
      PROVE  /\ owner'[d] \in Clients => owner'[d] = owner[d]
             /\ d # job[w].fd /\ owner[d] \in Clients =>
                  owner'[d] = owner[d] /\ interest'[d] = interest[d]
  BY <1>5, ReactorAssumption DEF Closes
<1>6. ASSUME NEW f \in Fds, Opens(f)
      PROVE  /\ owner'[d] \in Clients => owner'[d] = owner[d]
             /\ d # job[w].fd /\ owner[d] \in Clients =>
                  owner'[d] = owner[d] /\ interest'[d] = interest[d]
  BY <1>6, ReactorAssumption DEF Opens
<1> QED BY <1>1, <1>2, <1>3, <1>4, <1>5, <1>6 DEF Effect, Accepts

LEMMA OthersStep ==
  ASSUME Types, Alone, OneWorker, Serving, Recycles, NoResets, [Next]_vars,
         NEW w \in Workers, RecvNext(w) \/ SendNext(w), NEW fd \in Fds, fd # job[w].fd
  PROVE  /\ TidyAt(fd)'
         /\ \A c \in Clients : owner'[fd] = c /\ link'[c] = "open" => ServedAt(fd, c)'
<1>1. /\ requestStatus'[fd] = requestStatus[fd] /\ responseStatus'[fd] = responseStatus[fd]
      /\ job'[w].fd # fd /\ job[w].fd \in Fds
  BY HandlerEntries, ReactorAssumption
<1>2. StepsAt(fd) = {} /\ StepsAt(fd)' = {}
  BY <1>1, StepsAlone
<1>3. ASSUME NEW c \in Clients, owner[fd] = c, link'[c] = "open" PROVE link[c] = "open"
  <2>1. link[c] # "new"
    BY <1>3 DEF Serving, Connections
  <2> QED BY <1>3, <2>1, LinkSteps
<1>4. TidyAt(fd)'
  <2>1. TidyAt(fd)
    BY DEF Serving, Tidy
  <2>2. owner'[fd] \in Clients <=> owner[fd] \in Clients
    BY HandlerOwners
  <2>3. owner'[fd] \in Clients => owner'[fd] = owner[fd]
    BY HandlerOwners
  <2> QED BY <1>1, <1>2, <1>3, <2>1, <2>2, <2>3 DEF TidyAt, Unasked
<1>5. ASSUME NEW c \in Clients, owner'[fd] = c, link'[c] = "open" PROVE ServedAt(fd, c)'
  <2>1. owner[fd] = c /\ interest'[fd] = interest[fd] /\ Outputs(fd)' = Outputs(fd)
    BY <1>5, HandlerOwners
  <2>2. ServedAt(fd, c)
    BY <1>3, <1>5, <2>1 DEF Serving, Served
  <2>3. ToSend(fd)' <=> ToSend(fd)
    BY <1>1, <2>1, ToSendAlone
  <2>4. owner[job[w].fd] # c
    BY <1>1, <2>1 DEF Serving, Connections
  <2> QED BY <1>1, <1>2, <2>2, <2>3, <2>4, HandlerTalk, ServedSame
<1> QED BY <1>4, <1>5

(* The steps of HandleRecv on its own connection.                          *)
LEMMA RecvHolds ==
  ASSUME Types, Alone, OneWorker, Serving, NEW w \in Workers, NEW fd \in Fds, job[w].fd = fd,
         pc[w] \in HoldingSteps
  PROVE  /\ owner[fd] \in Clients /\ interest[fd] \notin {"in", "inout"} /\ Outputs(fd) = {}
         /\ StepsAt(fd) = {pc[w]} /\ TidyAt(fd)
         /\ pc[w] # "sendBegin" => ~ToSend(fd)
<1>1. InHand(w, fd)
  BY HeldSteps DEF Alone, InHand
<1>2. owner[fd] \in Clients
  BY <1>1 DEF Alone, Custody, Rightful
<1>3. interest[fd] \notin {"in", "inout"}
  BY <1>1 DEF Alone, Custody, OneHand, InEpoll
<1>4. Outputs(fd) = {}
  BY <1>1 DEF Alone, Custody, OneHand, InQueue, Outputs
<1> QED BY <1>2, <1>3, <1>4, StepsAlone, ToSendAlone DEF Serving, Tidy

LEMMA RecvPieceOwn ==
  ASSUME Types, Alone, OneWorker, Serving, NEW w \in Workers, NEW fd \in Fds, job[w].fd = fd,
         NEW c \in Clients, owner[fd] = c, link[c] = "open", RecvPiece(w)
  PROVE  ServedAt(fd, c)'
<1> USE DEF Types, WorkTypes, TableTypes
<1> DEFINE p == Head(inbox[c])
           r == Parse(RequestAt(fd), p)
           k == want[c]
           n == Received(c)
<1>1. /\ pc[w] = "recv" /\ requestStatus' = [requestStatus EXCEPT ![fd] = r]
      /\ job[w].held /\ ~ToSend(fd) /\ StepsAt(fd) = {"recv"} /\ TidyAt(fd)
      /\ interest[fd] # "inout" /\ Outputs(fd)' = {}
  <2>1. pc[w] = "recv" /\ m_workQueue' = m_workQueue
        /\ requestStatus' = [requestStatus EXCEPT ![fd] = r]
    BY DEF RecvPiece
  <2> QED BY <2>1, RecvHolds, HeldSteps DEF HoldingSteps, Alone, Outputs, Slots
<1>2. InOrder(c)
  BY DEF Serving, Conversations, Here
<1>3. /\ p = <<k, n + 1>> /\ k \in Kinds /\ n + 1 \in 1..Pieces(k) /\ Received(c)' = n + 1
  BY <1>2, RecvPieceStep
<1>4. k # NONE /\ k \in AllKinds
  BY <1>3, ReactorAssumption
<1>5. want'[c] = k /\ stream'[c] = stream[c]
  BY DEF RecvPiece
<1>6. Pieces(k) = IF k \in {"upload", "unsavable"} THEN 3 ELSE 2
  BY DEF Pieces
<1>7. Listening(fd, c)
  <2>1. ServedAt(fd, c)
    BY DEF Serving, Served
  <2>2. n # Pieces(k)
    BY <1>3, <1>6, ReceivedTyped
  <2> QED BY <1>1, <2>1, <2>2 DEF ServedAt, Busy, SendingSteps, Finished, Whole
<1>8. requestStatus'[fd] = r
  BY <1>1
<1>9. n \in Int
  BY ReceivedTyped
<1>10. ASSUME ~Answerable(r, p), Listening(fd, c)' PROVE ServedAt(fd, c)'
  <2>1. /\ UNCHANGED <<interest, job>>
        /\ pc' = [pc EXCEPT ![w] = IF Unsavable(r, p) THEN "recvEnd" ELSE "recv"]
    BY <1>10 DEF RecvPiece, Goto
  <2>2. pc'[w] \in {"recvEnd", "recv"} /\ StepsAt(fd)' = {pc'[w]}
    BY <2>1, StepsAlone
  <2>3. ~ToSend(fd)'
    BY <1>1, <2>1, <2>2, ToSendAlone
  <2> QED BY <1>10, <2>2, <2>3 DEF ServedAt, Busy, SendingSteps
<1>11. ASSUME Answerable(r, p), r.kind = k, n + 1 = Pieces(k) PROVE ServedAt(fd, c)'
  <2> HIDE DEF p, n
  <2> DEFINE e == [ResponseAt(fd) EXCEPT !.bodyFileName = Resource(k)]
  <2>1. /\ responseStatus' = [responseStatus EXCEPT ![fd] = e]
        /\ interest' = Armed(fd, "inout") /\ Released(w) /\ pc' = [pc EXCEPT ![w] = "complate"]
    BY <1>11 DEF RecvPiece, Goto, p
  <2>2. e \in Responses /\ e.status = "INIT" /\ e.bodyFileName = Resource(k)
    <3>1. ResponseAt(fd) \in Responses
      BY EntriesTyped DEF KeptResponses
    <3>2. ResponseAt(fd).status = "INIT"
      BY <1>1 DEF TidyAt, ResponseAt, Response
    <3>3. Resource(k) \in Gets \cup {"redirect"}
      BY DEF Resource
    <3> QED BY <3>1, <3>2, <3>3 DEF Responses, Entries
  <2>3. responseStatus'[fd] = e /\ e # NONE
    BY <2>1, <2>2, NoneAssumption
  <2>4. interest'[fd] = "inout"
    <3>1. Armed(fd, "inout") = [interest EXCEPT ![fd] = "inout"]
      BY <1>1, ArmedWhenHeld DEF Alone
    <3> QED BY <2>1, <3>1 DEF KernelTypes
  <2>5. job'[w].fd = fd /\ pc'[w] = "complate"
    BY <2>1 DEF Released, Jobs
  <2>6. ToSend(fd)' /\ StepsAt(fd)' = {"complate"}
    BY <2>4, <2>5, ToSendAlone, StepsAlone
  <2>7. Whole(c)' /\ stream'[c] = <<>>
    BY <1>3, <1>4, <1>5, <1>7, <1>11 DEF Whole, Listening
  <2>8. Suits(e.bodyFileName, k)
    BY <2>2 DEF Suits
  <2> HIDE DEF e
  <2>9. Answering(fd, c)'
    BY <1>5, <2>2, <2>3, <2>6, <2>7, <2>8 DEF Answering
  <2> QED BY <2>6, <2>9 DEF ServedAt, Busy
<1> HIDE DEF n
<1>12. CASE n = 0
  <2>1. RequestAt(fd) = Request
    BY <1>7, <1>12 DEF Listening, Unasked, RequestAt, n
  <2>2. p[1] = k /\ p[2] = 1
    BY <1>3, <1>12
  <2>3. r = [status |-> "HEAD", kind |-> k]
    BY <2>1, <2>2 DEF Parse, Request
  <2>4. ~Answerable(r, p)
    BY <2>3 DEF Answerable
  <2>5. Listening(fd, c)'
    BY <1>3, <1>5, <1>7, <1>8, <1>12, <2>3 DEF Listening, n
  <2> QED BY <1>10, <2>4, <2>5
<1>13. CASE n = 1
  <2>1. RequestAt(fd) = [status |-> "HEAD", kind |-> k]
    <3>1. requestStatus[fd] = [status |-> "HEAD", kind |-> k]
      BY <1>7, <1>13 DEF Listening, n
    <3>2. [status |-> "HEAD", kind |-> k] \in Requests
      BY <1>4 DEF Requests, Statuses, Entries
    <3> QED BY <3>1, <3>2, NoneAssumption DEF RequestAt
  <2>2. p[1] = k /\ p[2] = 2
    BY <1>3, <1>13
  <2>3. r = [status |-> "BODY", kind |-> k]
    <3> HIDE DEF p
    <3> QED BY <2>1, <2>2 DEF Parse
  <2>4. Answerable(r, p) <=> k \in Gets
    BY <2>2, <2>3 DEF Answerable
  <2>5. CASE k \notin Gets
    <3>1. Listening(fd, c)'
      BY <1>3, <1>5, <1>7, <1>8, <1>13, <2>3, <2>5 DEF Listening, n
    <3> QED BY <1>10, <2>4, <2>5, <3>1
  <2>6. CASE k \in Gets
    <3>1. n + 1 = Pieces(k)
      BY <1>6, <1>13, <2>6 DEF Gets
    <3> QED BY <1>11, <2>3, <2>4, <2>6, <3>1
  <2> QED BY <2>5, <2>6
<1>14. CASE n \in {2, 3}
  <2>1. k \in {"upload", "unsavable"} /\ n = 2
    BY <1>3, <1>6, <1>14
  <2>2. requestStatus[fd] = [status |-> "BODY", kind |-> k]
    BY <1>7, <1>14 DEF Listening, n
  <2>3. RequestAt(fd) = [status |-> "BODY", kind |-> k]
    <3>1. [status |-> "BODY", kind |-> k] \in Requests
      BY <1>4 DEF Requests, Statuses, Entries
    <3> QED BY <2>2, <3>1, NoneAssumption DEF RequestAt
  <2>4. p[1] = k /\ p[2] = 3
    BY <1>3, <2>1
  <2>5. r = [status |-> "BODY", kind |-> k]
    <3> HIDE DEF p
    <3> QED BY <2>3, <2>4 DEF Parse
  <2>6. CASE Answerable(r, p)
    BY <1>6, <1>11, <2>1, <2>5, <2>6
  <2>7. CASE ~Answerable(r, p)
    <3>1. Listening(fd, c)'
      BY <1>3, <1>5, <1>7, <1>8, <2>1, <2>5 DEF Listening, n, Gets
    <3> QED BY <1>10, <2>7, <3>1
  <2> QED BY <2>6, <2>7
<1> QED BY <1>7, <1>12, <1>13, <1>14 DEF Listening, n

LEMMA RecvOwn ==
  ASSUME Types, Alone, OneWorker, Serving, Recycles, NoResets, [Next]_vars,
         NEW w \in Workers, NEW fd \in Fds, job[w].fd = fd, RecvNext(w)
  PROVE  /\ TidyAt(fd)'
         /\ \A c \in Clients : owner'[fd] = c /\ link'[c] = "open" => ServedAt(fd, c)'
<1> USE DEF Types, WorkTypes, TableTypes
<1>1. /\ pc[w] \in {"recvBegin", "recv", "complate", "recvEnd", "recvErase"}
      /\ StepsAt(fd) = {pc[w]} /\ TidyAt(fd) /\ Outputs(fd)' = Outputs(fd)
      /\ owner'[fd] \in Clients => owner'[fd] = owner[fd]
  <2>1. pc[w] \in {"recvBegin", "recv", "complate", "recvEnd", "recvErase"}
    BY DEF RecvNext, RecvBegin, RecvPiece, RecvLost, RecvComplate, RecvEnd, RecvErase
  <2>2. StepsAt(fd) = {pc[w]} /\ TidyAt(fd)
    BY StepsAlone DEF Serving, Tidy
  <2>3. Outputs(fd)' = Outputs(fd) /\ (owner'[fd] \in Clients => owner'[fd] = owner[fd])
    BY HandlerOwners
  <2> QED BY <2>1, <2>2, <2>3
<1>2. responseStatus[fd] # NONE => responseStatus[fd].status = "INIT"
  BY <1>1 DEF TidyAt
<1>3. ASSUME NEW c \in Clients, owner[fd] = c, link'[c] = "open"
      PROVE  link[c] = "open" /\ ServedAt(fd, c)
  <2>1. link[c] # "new"
    BY <1>3 DEF Serving, Connections
  <2>2. link[c] = "open"
    BY <1>3, <2>1, LinkSteps
  <2> QED BY <1>3, <2>2 DEF Serving, Served
<1>4. ASSUME pc[w] # "recv", NEW c \in Clients
      PROVE  want'[c] = want[c] /\ stream'[c] = stream[c] /\ Received(c)' = Received(c)
  <2>1. ~RecvPiece(w) /\ ~SendPart(w)
    BY <1>1, <1>4 DEF RecvPiece, SendPart
  <2> QED BY <2>1, HandlerTalk
<1>5. CASE RecvBegin(w)
  <2>1. /\ requestStatus'[fd] = RequestAt(fd) /\ pc'[w] = "recv" /\ job' = job
        /\ UNCHANGED <<responseStatus, owner, interest, link>>
    BY <1>5 DEF RecvBegin, Goto, kernelVars, netVars
  <2>2. StepsAt(fd)' = {"recv"} /\ owner[fd] \in Clients /\ ~ToSend(fd) /\ ~ToSend(fd)'
    BY <1>1, <1>5, <2>1, StepsAlone, ToSendAlone, RecvHolds DEF RecvBegin, HoldingSteps
  <2>3. RequestAt(fd).status = "ERROR" => requestStatus[fd] # NONE /\ RequestAt(fd) = requestStatus[fd]
    BY DEF RequestAt, Request
  <2>4. TidyAt(fd)'
    BY <1>1, <1>2, <2>1, <2>2, <2>3 DEF TidyAt
  <2>5. ASSUME NEW c \in Clients, owner[fd] = c, link'[c] = "open" PROVE ServedAt(fd, c)'
    <3>1. Listening(fd, c) \/ Finished(fd, c)
      BY <1>1, <1>3, <1>5, <2>2, <2>5 DEF ServedAt, Busy, SendingSteps, RecvBegin
    <3>2. /\ want'[c] = want[c] /\ stream'[c] = stream[c] /\ Received(c)' = Received(c)
      BY <1>4, <1>5 DEF RecvBegin
    <3>3. Unasked(fd) => Unasked(fd)'
      BY <2>1 DEF Unasked, RequestAt
    <3>5. ~Unasked(fd) => requestStatus'[fd] = requestStatus[fd]
      BY <2>1 DEF Unasked, RequestAt
    <3>6. /\ requestStatus[fd] = [status |-> "HEAD", kind |-> want[c]] => ~Unasked(fd)
          /\ requestStatus[fd] = [status |-> "BODY", kind |-> want[c]] => ~Unasked(fd)
      <4>1. want[c] \in Entries(AllKinds)
        BY ReceivedTyped, ReactorAssumption DEF Entries
      <4>2. \A s \in Statuses : [status |-> s, kind |-> want[c]] \in Requests
        BY <4>1 DEF Requests
      <4>3. \A s \in Statuses : [status |-> s, kind |-> want[c]] # NONE
        BY <4>2, NoneAssumption
      <4> QED BY <4>3 DEF Statuses, Unasked, Request
    <3>4. (Listening(fd, c) => Listening(fd, c)') /\ (Finished(fd, c) => Finished(fd, c)')
      BY <3>2, <3>3, <3>5, <3>6 DEF Listening, Finished, Whole
    <3> QED BY <2>2, <3>1, <3>4 DEF ServedAt, Busy, SendingSteps
  <2> QED BY <2>1, <2>4, <2>5
<1>6. CASE RecvPiece(w)
  <2>1. /\ owner' = owner /\ link' = link /\ owner[fd] \in Clients
        /\ requestStatus'[fd] = Parse(RequestAt(fd), Head(inbox[owner[fd]]))
        /\ pc'[w] \in {"complate", "recvEnd", "recv"}
        /\ \/ responseStatus' = responseStatus
           \/ \E name : responseStatus' = [responseStatus EXCEPT ![fd] =
                                             [ResponseAt(fd) EXCEPT !.bodyFileName = name]]
        /\ job' = job \/ Released(w)
    BY <1>6 DEF RecvPiece, Goto
  <2>2. job'[w].fd = fd /\ StepsAt(fd)' = {pc'[w]}
    BY <2>1, StepsAlone DEF Released, Jobs
  <2>3. responseStatus'[fd] # NONE => responseStatus'[fd].status = "INIT"
    <3>1. ResponseAt(fd).status = "INIT" /\ ResponseAt(fd) \in KeptResponses
      BY <1>2, EntriesTyped DEF ResponseAt, Response
    <3>2. \A name : [ResponseAt(fd) EXCEPT !.bodyFileName = name].status = "INIT"
      BY <3>1 DEF KeptResponses, Responses
    <3>3. CASE responseStatus' = responseStatus
      BY <1>2, <3>3
    <3>4. ASSUME NEW name, responseStatus' = [responseStatus EXCEPT ![fd] =
                             [ResponseAt(fd) EXCEPT !.bodyFileName = name]]
          PROVE  responseStatus'[fd].status = "INIT"
      <4> DEFINE e == [ResponseAt(fd) EXCEPT !.bodyFileName = name]
      <4>1. responseStatus'[fd] = e
        BY <3>4
      <4> QED BY <3>2, <4>1
    <3> QED BY <2>1, <3>3, <3>4
  <2>4. requestStatus'[fd].status = "ERROR" => requestStatus[fd] # NONE /\ requestStatus[fd].status = "ERROR"
    <3>1. RequestAt(fd) \in Requests
      BY EntriesTyped
    <3> QED BY <2>1, <3>1 DEF Parse, RequestAt, Request, Requests
  <2>5. TidyAt(fd)'
    BY <1>1, <2>1, <2>2, <2>3, <2>4 DEF TidyAt
  <2> QED BY <1>3, <1>6, <2>1, <2>5, RecvPieceOwn
<1>7. CASE RecvLost(w)
  <2>1. /\ UNCHANGED <<owner, link, job, responseStatus>> /\ owner[fd] \in Clients
        /\ link[owner[fd]] # "open" /\ pc'[w] = "recvEnd"
    BY <1>7, RecvHolds DEF RecvLost, Goto, kernelVars, netVars, HoldingSteps
  <2>2. StepsAt(fd)' = {"recvEnd"}
    BY <2>1, StepsAlone
  <2>3. TidyAt(fd)'
    BY <1>1, <1>2, <2>1, <2>2 DEF TidyAt
  <2> QED BY <2>1, <2>3
<1>8. CASE RecvComplate(w)
  <2>1. /\ UNCHANGED <<owner, interest, link, job, responseStatus>> /\ pc[w] = "complate"
        /\ requestStatus' = [requestStatus EXCEPT ![fd] = [RequestAt(fd) EXCEPT !.status = "COMPLATE"]]
        /\ pc'[w] = "recvEnd"
    BY <1>8 DEF RecvComplate, Goto, kernelVars, netVars
  <2>2. StepsAt(fd)' = {"recvEnd"}
    BY <2>1, StepsAlone
  <2>3. owner[fd] \in Clients
    <3>1. HasToken(fd)
      BY <2>1 DEF Alone, Solo, SoloAt
    <3> QED BY <3>1 DEF HasToken, InEpoll, InQueue, InHand, Alone, Custody, Registered, Rightful
  <2>4. requestStatus'[fd].status = "COMPLATE"
    BY <2>1, EntriesTyped DEF Requests
  <2>5. TidyAt(fd)'
    BY <1>1, <1>2, <2>1, <2>2, <2>3, <2>4 DEF TidyAt
  <2>6. ASSUME NEW c \in Clients, owner[fd] = c, link'[c] = "open" PROVE ServedAt(fd, c)'
    <3>1. ToSend(fd) /\ ToSend(fd)' /\ Answering(fd, c)
      BY <1>1, <1>2, <1>3, <2>1, <2>6, ToSendAlone DEF ServedAt, Busy, SendingSteps, Over
    <3>2. /\ want'[c] = want[c] /\ stream'[c] = stream[c] /\ Received(c)' = Received(c)
      BY <1>4, <2>1
    <3>3. Answering(fd, c)'
      BY <2>1, <2>2, <3>1, <3>2 DEF Answering, Whole
    <3> QED BY <3>1, <3>3 DEF ServedAt, Busy
  <2> QED BY <2>1, <2>5, <2>6
<1>9. CASE RecvEnd(w)
  <2>1. /\ pc[w] = "recvEnd" /\ requestStatus[fd] # NONE /\ RequestAt(fd) = requestStatus[fd]
        /\ responseStatus' = responseStatus
        /\ requestStatus'[fd] = IF requestStatus[fd].status = "COMPLATE" THEN NONE ELSE requestStatus[fd]
    BY <1>9 DEF RecvEnd, RequestAt, Alone, Solo, SoloAt
  <2>2. CASE requestStatus[fd].status = "ERROR"
    <3>1. owner'[fd] = "free" /\ pc'[w] = "recvErase" /\ job'[w].fd = fd
      BY <1>9, <2>1, <2>2 DEF RecvEnd, Closed, Released, Goto, KernelTypes, Jobs
    <3>2. StepsAt(fd)' = {"recvErase"}
      BY <3>1, StepsAlone
    <3> QED BY <1>2, <2>1, <3>1, <3>2, ReactorAssumption DEF TidyAt
  <2>3. CASE requestStatus[fd].status # "ERROR"
    <3>1. Return(w) /\ UNCHANGED <<owner, interest, link>>
      BY <1>9, <2>1, <2>3 DEF RecvEnd
    <3>2. StepsAt(fd)' = {} /\ job'[w].fd # fd
      BY <3>1, StepsAlone, ReactorAssumption DEF Return, NoJob
    <3>3. owner[fd] \in Clients
      <4>1. CASE job[w].held
        BY <4>1 DEF Alone, Custody, Rightful, InHand
      <4>2. CASE ~job[w].held
        <5>1. HasToken(fd)
          BY <2>1, <4>2 DEF Alone, Solo, SoloAt
        <5> QED BY <5>1 DEF HasToken, InEpoll, InQueue, InHand, Alone, Custody, Registered, Rightful
      <4> QED BY <4>1, <4>2
    <3>4. TidyAt(fd)'
      BY <1>1, <1>2, <2>1, <2>3, <3>1, <3>2, <3>3 DEF TidyAt
    <3>5. ASSUME NEW c \in Clients, owner[fd] = c, link'[c] = "open" PROVE ServedAt(fd, c)'
      <4>1. /\ want'[c] = want[c] /\ stream'[c] = stream[c] /\ Received(c)' = Received(c)
        BY <1>4, <2>1
      <4>2. ToSend(fd)' <=> ToSend(fd)
        BY <1>1, <2>1, <3>1, <3>2, ToSendAlone
      <4>3. CASE ToSend(fd)
        <5>1. Answering(fd, c)
          BY <1>2, <1>3, <3>5, <4>3 DEF ServedAt, Busy, Over
        <5>2. ~job[w].held
          BY <2>1, <4>3, SenderAlone DEF Alone, InHand
        <5>3. requestStatus'[fd] = NONE
          BY <2>1, <5>2 DEF Alone, Solo, SoloAt
        <5>4. Answering(fd, c)'
          BY <2>1, <3>2, <4>1, <5>1, <5>3 DEF Answering, Whole, Unasked
        <5> QED BY <4>2, <4>3, <5>4 DEF ServedAt, Busy
      <4>4. CASE ~ToSend(fd)
        <5>1. Listening(fd, c) \/ Finished(fd, c)
          BY <1>1, <1>3, <2>1, <3>5, <4>4 DEF ServedAt, Busy, SendingSteps
        <5>2. requestStatus[fd].status # "COMPLATE"
          BY <2>1, <5>1 DEF Listening, Finished, Unasked, Request
        <5>3. Listening(fd, c)' \/ Finished(fd, c)'
          BY <2>1, <4>1, <5>1, <5>2 DEF Listening, Finished, Whole, Unasked
        <5> QED BY <3>2, <4>2, <4>4, <5>3 DEF ServedAt, Busy
      <4> QED BY <4>3, <4>4
    <3> QED BY <3>1, <3>4, <3>5
  <2> QED BY <2>2, <2>3
<1>10. CASE RecvErase(w)
  <2>1. /\ owner[fd] = "free" /\ owner' = owner /\ requestStatus'[fd] = NONE
        /\ responseStatus' = responseStatus /\ Return(w)
    BY <1>10 DEF RecvErase, kernelVars, Alone, Solo, SoloAt
  <2>2. StepsAt(fd)' = {}
    BY <2>1, StepsAlone, ReactorAssumption DEF Return, NoJob
  <2> QED BY <1>2, <2>1, <2>2, ReactorAssumption DEF TidyAt, Unasked
<1> QED BY <1>5, <1>6, <1>7, <1>8, <1>9, <1>10 DEF RecvNext

(* The steps of HandleSend on its own connection.                          *)
LEMMA SendHolds ==
  ASSUME Types, Alone, OneWorker, Serving, Recycles, NoResets, [Next]_vars,
         NEW w \in Workers, NEW fd \in Fds, job[w].fd = fd, SendNext(w)
  PROVE  /\ StepsAt(fd) = {pc[w]} /\ TidyAt(fd)
         /\ owner'[fd] \in Clients => owner'[fd] = owner[fd]
         /\ pc[w] # "sendTail" =>
              /\ owner[fd] \in Clients /\ job[w].held /\ interest[fd] \notin {"in", "inout"}
              /\ Outputs(fd)' = {} /\ (pc[w] # "sendBegin" => ~ToSend(fd))
         /\ \A c \in Clients : owner[fd] = c /\ link'[c] = "open"
              => link[c] = "open" /\ ServedAt(fd, c)
         /\ ~SendPart(w) => \A c \in Clients : want'[c] = want[c] /\ stream'[c] = stream[c]
                                               /\ Received(c)' = Received(c)
<1>1. pc[w] \in {"sendBegin", "page", "send", "sendEnd", "sendRearm", "sendTail"}
  BY DEF SendNext, SendNothing, SendBuild, SendPage, SendResume, SendPart, SendEmpty, SendEnd,
     SendRearm, SendTail
<1>2. StepsAt(fd) = {pc[w]} /\ TidyAt(fd)
  BY StepsAlone DEF Serving, Tidy
<1>3. Outputs(fd)' = Outputs(fd) /\ (owner'[fd] \in Clients => owner'[fd] = owner[fd])
  BY HandlerOwners
<1>4. pc[w] # "sendTail" =>
        /\ owner[fd] \in Clients /\ job[w].held /\ interest[fd] \notin {"in", "inout"}
        /\ Outputs(fd)' = {} /\ (pc[w] # "sendBegin" => ~ToSend(fd))
  BY <1>1, <1>3, RecvHolds, HeldSteps DEF HoldingSteps, Alone
<1>5. ASSUME NEW c \in Clients, owner[fd] = c, link'[c] = "open"
      PROVE  link[c] = "open" /\ ServedAt(fd, c)
  <2>1. link[c] # "new"
    BY <1>5 DEF Serving, Connections
  <2>2. link[c] = "open"
    BY <1>5, <2>1, LinkSteps
  <2> QED BY <1>5, <2>2 DEF Serving, Served
<1>6. ASSUME ~SendPart(w), NEW c \in Clients
      PROVE  want'[c] = want[c] /\ stream'[c] = stream[c] /\ Received(c)' = Received(c)
  <2>1. ~RecvPiece(w)
    BY <1>1 DEF RecvPiece
  <2> QED BY <1>6, <2>1, HandlerTalk
<1> QED BY <1>2, <1>3, <1>4, <1>5, <1>6

(* What a Response may say that has been built, or is to be built anew.    *)
LEMMA AnsweringNext ==
  ASSUME NEW fd \in Fds, NEW c \in Clients, NEW e, e # NONE, Answering(fd, c),
         responseStatus[fd].status = "INIT",
         StepsAt(fd) \cap {"complate", "recvEnd"} = {},
         responseStatus'[fd] = e, requestStatus'[fd] = requestStatus[fd],
         want'[c] = want[c], stream'[c] = stream[c], Received(c)' = Received(c),
         \/ e.status = "HEAD" /\ e.bodyType \in Fits(want[c])
         \/ e.status = "INIT" /\ Suits(e.bodyFileName, want[c])
            /\ ("page" \in StepsAt(fd)' => e.bodyFileName = "list")
  PROVE  Answering(fd, c)'
BY DEF Answering, Whole, Unasked

LEMMA SendBuildOwn ==
  ASSUME Types, Alone, OneWorker, Serving, Recycles, NoResets, [Next]_vars,
         NEW w \in Workers, NEW fd \in Fds, job[w].fd = fd, SendBuild(w)
  PROVE  /\ TidyAt(fd)'
         /\ \A c \in Clients : owner'[fd] = c /\ link'[c] = "open" => ServedAt(fd, c)'
<1> USE DEF Types, WorkTypes, TableTypes, KernelTypes
<1> DEFINE r == responseStatus[fd]
<1>1. /\ pc[w] = "sendBegin" /\ r # NONE /\ r.status = "INIT" /\ r \in KeptResponses
      /\ requestStatus' = requestStatus /\ link' = link
  BY DEF SendBuild, netVars, Entries
<1>2. SendNext(w) /\ ~SendPart(w)
  BY <1>1 DEF SendNext, SendPart
<1>3. /\ StepsAt(fd) = {"sendBegin"} /\ TidyAt(fd) /\ owner[fd] \in Clients /\ job[w].held
      /\ owner'[fd] \in Clients => owner'[fd] = owner[fd]
  <2>1. /\ StepsAt(fd) = {pc[w]} /\ TidyAt(fd)
        /\ owner'[fd] \in Clients => owner'[fd] = owner[fd]
    BY <1>2, SendHolds
  <2>2. pc[w] # "sendTail" => owner[fd] \in Clients /\ job[w].held
    BY <1>2, SendHolds
  <2> QED BY <1>1, <2>1, <2>2
<1>4. ASSUME NEW c \in Clients, owner[fd] = c, link[c] = "open"
      PROVE  /\ Answering(fd, c) /\ Suits(r.bodyFileName, want[c])
             /\ want'[c] = want[c] /\ stream'[c] = stream[c] /\ Received(c)' = Received(c)
  <2>1. ServedAt(fd, c) /\ ToSend(fd)
    BY <1>1, <1>2, <1>4, SendHolds DEF ToSend
  <2>2. Answering(fd, c)
    BY <1>1, <2>1 DEF ServedAt, Busy, Over
  <2> QED BY <1>1, <1>2, <1>4, <2>2, SendHolds DEF Answering
<1>5. ASSUME FreeFds # {}, NEW f, f = LowestFree,
             owner' = [owner EXCEPT ![f] = "file"] \/ owner' = [owner EXCEPT ![f] = "dir"]
      PROVE  owner'[fd] = owner[fd] /\ f \in Fds
  BY <1>3, <1>5, LowestFreeIsFree, ReactorAssumption DEF FreeFds
<1> HIDE DEF r
<1>6. CASE r.bodyFileName = "list" /\ FreeFds # {}
  <2>1. /\ owner' = [owner EXCEPT ![LowestFree] = "dir"] /\ pc' = [pc EXCEPT ![w] = "page"]
        /\ job' = job /\ responseStatus' = responseStatus
    BY <1>6 DEF SendBuild, Goto, r
  <2>2. owner'[fd] = owner[fd] /\ StepsAt(fd)' = {"page"}
    BY <1>5, <1>6, <2>1, StepsAlone
  <2>3. TidyAt(fd)'
    BY <1>1, <1>3, <2>1, <2>2 DEF TidyAt, r
  <2>4. ASSUME NEW c \in Clients, owner[fd] = c, link[c] = "open" PROVE ServedAt(fd, c)'
    <3>1. Answering(fd, c)'
      BY <1>1, <1>3, <1>4, <1>6, <2>1, <2>2, <2>4, AnsweringNext DEF r
    <3> QED BY <2>2, <3>1 DEF ServedAt, Busy, SendingSteps
  <2> QED BY <1>1, <2>2, <2>3, <2>4
<1>7. CASE r.bodyFileName = "list" /\ FreeFds = {}
  <2>1. UNCHANGED <<owner, interest, pc, job, responseStatus>>
    BY <1>7 DEF SendBuild, kernelVars, r
  <2>2. StepsAt(fd)' = {"sendBegin"} /\ ToSend(fd)'
    BY <1>1, <2>1, StepsAlone DEF ToSend
  <2>3. TidyAt(fd)'
    BY <1>1, <1>3, <2>1, <2>2 DEF TidyAt, r
  <2>4. ASSUME NEW c \in Clients, owner[fd] = c, link[c] = "open" PROVE ServedAt(fd, c)'
    <3>1. Answering(fd, c)'
      BY <1>1, <1>3, <1>4, <1>7, <2>1, <2>2, <2>4, AnsweringNext DEF r
    <3> QED BY <2>2, <3>1 DEF ServedAt, Busy
  <2> QED BY <1>1, <2>1, <2>3, <2>4
<1>8. ASSUME NEW type \in BodyTypes, NEW file \in Entries(Fds),
             responseStatus' = [responseStatus EXCEPT ![fd] = Built(r, type, file)],
             pc' = [pc EXCEPT ![w] = "send"], job' = job, owner'[fd] = owner[fd],
             type = "FILE" => file \in Fds,
             \A k : Suits(r.bodyFileName, k) => type \in Fits(k)
      PROVE  /\ TidyAt(fd)'
             /\ \A c \in Clients : owner'[fd] = c /\ link'[c] = "open" => ServedAt(fd, c)'
  <2> DEFINE e == Built(r, type, file)
  <2>1. e \in Responses /\ e.status = "HEAD" /\ e.bodyType = type /\ e.fileMsgFd = file
    BY <1>1 DEF Built, KeptResponses, Responses, Statuses, Entries, r
  <2>2. responseStatus'[fd] = e /\ e # NONE
    BY <1>8, <2>1, NoneAssumption
  <2>3. StepsAt(fd)' = {"send"}
    BY <1>8, StepsAlone
  <2> HIDE DEF e
  <2>4. TidyAt(fd)'
    BY <1>1, <1>3, <1>8, <2>1, <2>2, <2>3 DEF TidyAt
  <2>5. ASSUME NEW c \in Clients, owner[fd] = c, link[c] = "open" PROVE ServedAt(fd, c)'
    <3>1. Answering(fd, c)'
      BY <1>1, <1>3, <1>4, <1>8, <2>1, <2>2, <2>5, AnsweringNext DEF r
    <3> QED BY <2>3, <3>1 DEF ServedAt, Busy, SendingSteps
  <2> QED BY <1>1, <1>8, <2>4, <2>5
<1>9. ASSUME Redirect(w, fd), owner' = owner,
             \A k : Suits(r.bodyFileName, k) => k \in {"download", "delete"}
      PROVE  /\ TidyAt(fd)'
             /\ \A c \in Clients : owner'[fd] = c /\ link'[c] = "open" => ServedAt(fd, c)'
  <2> DEFINE e == [Response EXCEPT !.bodyFileName = "redirect"]
  <2>1. e \in Responses /\ e.status = "INIT" /\ e.bodyFileName = "redirect"
    BY DEF Response, Responses, Statuses, Entries
  <2>2. responseStatus'[fd] = e /\ e # NONE
    BY <1>9, <2>1, NoneAssumption DEF Redirect
  <2>3. interest'[fd] = "inout"
    <3>1. Armed(fd, "inout") = [interest EXCEPT ![fd] = "inout"]
      BY <1>3, ArmedWhenHeld DEF Alone
    <3> QED BY <1>9, <3>1 DEF Redirect
  <2>4. StepsAt(fd)' = {} /\ ToSend(fd)'
    BY <1>9, <2>3, StepsAlone, ReactorAssumption DEF Redirect, Return, NoJob, ToSend
  <2> HIDE DEF e
  <2>5. TidyAt(fd)'
    BY <1>1, <1>3, <1>9, <2>1, <2>2, <2>4 DEF TidyAt
  <2>6. ASSUME NEW c \in Clients, owner[fd] = c, link[c] = "open" PROVE ServedAt(fd, c)'
    <3>1. Suits(e.bodyFileName, want[c])
      BY <1>4, <1>9, <2>1, <2>6 DEF Suits
    <3>2. Answering(fd, c)'
      BY <1>1, <1>3, <1>4, <2>1, <2>2, <2>4, <2>6, <3>1, AnsweringNext DEF r
    <3> QED BY <2>4, <3>2 DEF ServedAt, Busy
  <2> QED BY <1>1, <1>9, <2>5, <2>6
<1>10. CASE r.bodyFileName = "download" /\ filedir /\ FreeFds # {}
  <2>1. PICK f : /\ f = LowestFree /\ owner' = [owner EXCEPT ![f] = "file"]
                 /\ responseStatus' = [responseStatus EXCEPT ![fd] = Built(r, "FILE", f)]
                 /\ pc' = [pc EXCEPT ![w] = "send"] /\ job' = job
    BY <1>10 DEF SendBuild, Goto, r
  <2>2. owner'[fd] = owner[fd] /\ f \in Fds
    BY <1>5, <1>10, <2>1
  <2>3. \A k : Suits(r.bodyFileName, k) => "FILE" \in Fits(k)
    BY <1>10 DEF Suits, Resource, Fits
  <2> QED BY <1>8, <2>1, <2>2, <2>3 DEF BodyTypes, Entries
<1>11. CASE /\ r.bodyFileName \in {"download", "delete"}
            /\ ~(r.bodyFileName = "download" /\ filedir /\ FreeFds # {})
  <2>1. Redirect(w, fd) /\ owner' = owner
    BY <1>11 DEF SendBuild, r
  <2>2. \A k : Suits(r.bodyFileName, k) => k \in {"download", "delete"}
    BY <1>11 DEF Suits, Resource
  <2> QED BY <1>9, <2>1, <2>2
<1>12. CASE r.bodyFileName \notin {"list", "download", "delete"}
  <2>1. /\ responseStatus' = [responseStatus EXCEPT ![fd] = Built(r, "EMPTY", NONE)]
        /\ pc' = [pc EXCEPT ![w] = "send"] /\ job' = job /\ owner' = owner
    BY <1>12 DEF SendBuild, Goto, r
  <2>2. \A k : Suits(r.bodyFileName, k) => "EMPTY" \in Fits(k)
    BY <1>12 DEF Suits, Resource, Fits, Gets
  <2> QED BY <1>8, <2>1, <2>2 DEF BodyTypes, Entries
<1> QED BY <1>6, <1>7, <1>10, <1>11, <1>12

LEMMA SendPageOwn ==
  ASSUME Types, Alone, OneWorker, Serving, Recycles, NoResets, [Next]_vars,
         NEW w \in Workers, NEW fd \in Fds, job[w].fd = fd, SendPage(w)
  PROVE  /\ TidyAt(fd)'
         /\ \A c \in Clients : owner'[fd] = c /\ link'[c] = "open" => ServedAt(fd, c)'
<1> USE DEF Types, WorkTypes, TableTypes
<1> DEFINE r == responseStatus[fd]
           e == Built(r, "HTML", NONE)
<1>1. /\ pc[w] = "page" /\ r # NONE /\ r.status = "INIT" /\ ResponseAt(fd) = r /\ r \in Responses
      /\ UNCHANGED <<requestStatus, link, owner, job>>
  BY DEF SendPage, netVars, kernelVars, Alone, Solo, SoloAt, ResponseAt, Entries, KeptResponses
<1>2. SendNext(w) /\ ~SendPart(w)
  BY <1>1 DEF SendNext, SendPart
<1>3. StepsAt(fd) = {pc[w]} /\ TidyAt(fd) /\ (pc[w] # "sendTail" => owner[fd] \in Clients)
  BY <1>2, SendHolds
<1>4. ASSUME NEW c \in Clients, owner[fd] = c, link[c] = "open"
      PROVE  /\ Answering(fd, c) /\ Suits("list", want[c]) /\ r.bodyFileName = "list"
             /\ want'[c] = want[c] /\ stream'[c] = stream[c] /\ Received(c)' = Received(c)
  <2>1. ServedAt(fd, c)
    BY <1>1, <1>2, <1>4, SendHolds
  <2>2. Answering(fd, c)
    BY <1>1, <1>3, <2>1 DEF ServedAt, Busy, SendingSteps, Over
  <2>3. Suits("list", want[c]) /\ r.bodyFileName = "list"
    BY <1>1, <1>3, <2>2 DEF Answering
  <2> QED BY <1>2, <2>2, <2>3, SendHolds
<1>5. e \in Responses /\ e.status = "HEAD" /\ e.bodyType = "HTML" /\ e # NONE
  <2>1. e \in Responses /\ e.status = "HEAD" /\ e.bodyType = "HTML"
    BY <1>1 DEF Built, Responses, Statuses, Entries, BodyTypes
  <2> QED BY <2>1, NoneAssumption
<1>6. CASE FreeFds = {}
  <2>1. responseStatus' = responseStatus /\ pc'[w] = "lost"
    BY <1>6 DEF SendPage, Goto
  <2>2. StepsAt(fd)' = {"lost"}
    BY <1>1, <2>1, StepsAlone
  <2>3. TidyAt(fd)'
    BY <1>1, <1>3, <2>1, <2>2 DEF TidyAt
  <2>4. ASSUME NEW c \in Clients, owner[fd] = c, link[c] = "open" PROVE ServedAt(fd, c)'
    <3>1. Answering(fd, c)'
      BY <1>1, <1>3, <1>4, <2>1, <2>2, <2>4, AnsweringNext
    <3> QED BY <2>2, <3>1 DEF ServedAt, Busy, SendingSteps
  <2> QED BY <1>1, <2>3, <2>4
<1>7. CASE FreeFds # {}
  <2>1. responseStatus'[fd] = e /\ pc'[w] = "send"
    BY <1>1, <1>7 DEF SendPage, Goto
  <2>2. StepsAt(fd)' = {"send"}
    BY <1>1, <2>1, StepsAlone
  <2> HIDE DEF e
  <2>3. TidyAt(fd)'
    BY <1>1, <1>3, <1>5, <2>1, <2>2 DEF TidyAt
  <2>4. ASSUME NEW c \in Clients, owner[fd] = c, link[c] = "open" PROVE ServedAt(fd, c)'
    <3>1. "HTML" \in Fits(want[c])
      BY <1>4, <2>4 DEF Suits, Resource, Fits
    <3>2. Answering(fd, c)'
      BY <1>1, <1>3, <1>4, <1>5, <2>1, <2>2, <2>4, <3>1, AnsweringNext
    <3> QED BY <2>2, <3>2 DEF ServedAt, Busy, SendingSteps
  <2> QED BY <1>1, <2>3, <2>4
<1> QED BY <1>6, <1>7

LEMMA AppendsToOne ==
  ASSUME NEW x, NEW y
  PROVE  Append(<<x>>, y) = <<x, y>>
<1> DEFINE s == Append(<<x>>, y)
           t == <<x, y>>
<1>1. <<x>> \in Seq({x, y}) /\ t \in Seq({x, y}) /\ y \in {x, y}
  OBVIOUS
<1>2. s \in Seq({x, y}) /\ Len(s) = 2 /\ s[1] = x /\ s[2] = y
  BY <1>1, AppendProperties
<1>3. Len(t) = 2 /\ t[1] = x /\ t[2] = y
  OBVIOUS
<1> HIDE DEF s, t
<1>4. s = t
  BY <1>1, <1>2, <1>3, SeqEqual
<1> QED BY <1>4 DEF s, t

LEMMA SendPartOwn ==
  ASSUME Types, Alone, OneWorker, Serving, Recycles, NoResets, [Next]_vars,
         NEW w \in Workers, NEW fd \in Fds, job[w].fd = fd, SendPart(w)
  PROVE  /\ TidyAt(fd)'
         /\ \A c \in Clients : owner'[fd] = c /\ link'[c] = "open" => ServedAt(fd, c)'
<1> USE DEF Types, WorkTypes, TableTypes
<1> DEFINE r == responseStatus[fd]
           e(status) == [r EXCEPT !.status = status]
<1>1. /\ pc[w] = "send" /\ r # NONE /\ ResponseAt(fd) = r /\ r \in Responses
      /\ r.status = "HEAD" \/ (r.status = "BODY" /\ r.bodyType \in {"FILE", "HTML"})
      /\ UNCHANGED <<owner, interest, job>>
  BY DEF SendPart, kernelVars, Alone, Solo, SoloAt, ResponseAt, Entries, KeptResponses
<1>2. SendNext(w)
  BY DEF SendNext
<1>3. /\ StepsAt(fd) = {pc[w]} /\ TidyAt(fd) /\ (pc[w] # "sendTail" => owner[fd] \in Clients)
      /\ \A c \in Clients : owner[fd] = c /\ link'[c] = "open" => link[c] = "open"
  BY <1>2, SendHolds
<1>4. r.bodyType = "FILE" => r.fileMsgFd # NONE /\ owner[r.fileMsgFd] = "file"
  <2> SUFFICES ASSUME r.bodyType = "FILE" PROVE r.fileMsgFd # NONE /\ owner[r.fileMsgFd] = "file"
    OBVIOUS
  <2>1. r.fileMsgFd \in Fds
    BY <1>1, <1>3 DEF TidyAt
  <2>2. SendingFile(fd, r.fileMsgFd)
    BY <1>1 DEF SendingFile
  <2> QED BY <1>1, <2>1, <2>2, ReactorAssumption DEF Alone, FileUsers
<1>5. SendResult(fd) # "error"
  <2>1. link[owner[fd]] # "aborted" /\ owner[fd] \in Clients
    BY <1>1, <1>3 DEF Serving, Connections
  <2> QED BY <2>1 DEF SendResult
<1>6. \A status \in Statuses :
        /\ e(status) # NONE /\ e(status).status = status
        /\ e(status).bodyType = r.bodyType /\ e(status).fileMsgFd = r.fileMsgFd
  <2>1. \A status \in Statuses :
          /\ e(status) \in Responses /\ e(status).status = status
          /\ e(status).bodyType = r.bodyType /\ e(status).fileMsgFd = r.fileMsgFd
    BY <1>1 DEF Responses
  <2> QED BY <2>1, NoneAssumption
<1>7. \/ /\ r.status = "HEAD" /\ requestStatus' = requestStatus
         /\ responseStatus'[fd] = e("BODY") /\ pc'[w] = "send"
      \/ /\ r.status = "BODY" /\ requestStatus' = requestStatus
         /\ responseStatus'[fd] = e("COMPLATE") /\ pc'[w] = "sendEnd"
  <2>1. CASE r.status = "HEAD"
    BY <1>1, <1>5, <2>1 DEF SendPart, Goto
  <2>2. CASE r.status = "BODY"
    BY <1>1, <1>4, <1>5, <2>2 DEF SendPart, Goto
  <2> QED BY <1>1, <2>1, <2>2
<1> HIDE DEF r, e
<1>8. StepsAt(fd)' = {pc'[w]}
  BY <1>1, StepsAlone
<1>9. TidyAt(fd)'
  <2>1. /\ responseStatus'[fd] # NONE /\ responseStatus'[fd].bodyType = r.bodyType
        /\ responseStatus'[fd].fileMsgFd = r.fileMsgFd
        /\ pc'[w] = "sendEnd" => responseStatus'[fd].status = "COMPLATE"
        /\ pc'[w] \in {"send", "sendEnd"} /\ requestStatus' = requestStatus
    BY <1>6, <1>7 DEF Statuses
  <2>2. r.bodyType = "FILE" => r.fileMsgFd \in Fds
    BY <1>1, <1>3 DEF TidyAt, r
  <2> QED BY <1>1, <1>3, <1>8, <2>1, <2>2 DEF TidyAt
<1>10. ASSUME NEW c \in Clients, owner[fd] = c, link[c] = "open" PROVE ServedAt(fd, c)'
  <2>1. /\ Answering(fd, c)
        /\ r.status = "HEAD" => stream' = [stream EXCEPT ![c] = Append(@, <<"head", r.bodyType>>)]
        /\ r.status = "BODY" => /\ r.bodyType # "EMPTY"
                                /\ stream' = [stream EXCEPT ![c] = Append(@, <<"body", r.bodyType>>)]
    BY <1>10, SendsNext DEF r
  <2>2. want'[c] = want[c] /\ Received(c)' = Received(c)
    BY DEF SendPart, Received
  <2>3. Whole(c) /\ Whole(c)' /\ Unasked(fd) /\ Unasked(fd)'
    BY <1>1, <1>3, <1>7, <2>1, <2>2 DEF Answering, Whole, Unasked
  <2>4. CASE r.status = "HEAD"
    <3>1. stream[c] = <<>> /\ r.bodyType \in Fits(want[c])
      BY <2>1, <2>4 DEF Answering, r
    <3>2. stream'[c] = << <<"head", r.bodyType>> >>
      BY <2>1, <2>4, <3>1 DEF NetTypes
    <3>3. responseStatus'[fd] # NONE /\ responseStatus'[fd].status = "BODY"
          /\ responseStatus'[fd].bodyType = r.bodyType /\ pc'[w] = "send"
      BY <1>6, <1>7, <2>4 DEF Statuses
    <3>4. CASE r.bodyType = "EMPTY"
      <4>1. Finished(fd, c)'
        BY <2>2, <2>3, <3>1, <3>2, <3>4 DEF Finished, Answer
      <4> QED BY <1>8, <3>3, <3>4, <4>1 DEF ServedAt, Busy, SendingSteps, Over
    <3>5. CASE r.bodyType # "EMPTY"
      <4>1. Answering(fd, c)'
        BY <2>2, <2>3, <3>1, <3>2, <3>3, <3>5 DEF Answering
      <4> QED BY <1>8, <3>3, <4>1 DEF ServedAt, Busy, SendingSteps
    <3> QED BY <3>4, <3>5
  <2>5. CASE r.status = "BODY"
    <3>1. stream[c] = << <<"head", r.bodyType>> >> /\ r.bodyType \in Fits(want[c])
      BY <2>1, <2>5 DEF Answering, r
    <3>2. stream'[c] = << <<"head", r.bodyType>>, <<"body", r.bodyType>> >>
      <4>1. stream'[c] = Append(stream[c], <<"body", r.bodyType>>)
        BY <2>1, <2>5 DEF NetTypes
      <4> QED BY <3>1, <4>1, AppendsToOne
    <3>3. responseStatus'[fd] # NONE /\ responseStatus'[fd].status = "COMPLATE" /\ pc'[w] = "sendEnd"
      BY <1>6, <1>7, <2>5 DEF Statuses
    <3>4. Finished(fd, c)'
      BY <2>1, <2>2, <2>3, <2>5, <3>1, <3>2 DEF Finished, Answer
    <3> QED BY <1>8, <3>3, <3>4 DEF ServedAt, Busy, SendingSteps, Over
  <2> QED BY <1>7, <2>4, <2>5
<1> QED BY <1>1, <1>3, <1>9, <1>10

LEMMA SendRestOwn ==
  ASSUME Types, Alone, OneWorker, Serving, Recycles, NoResets, [Next]_vars,
         NEW w \in Workers, NEW fd \in Fds, job[w].fd = fd,
         SendEmpty(w) \/ SendEnd(w) \/ SendRearm(w)
  PROVE  /\ TidyAt(fd)'
         /\ \A c \in Clients : owner'[fd] = c /\ link'[c] = "open" => ServedAt(fd, c)'
<1> USE DEF Types, WorkTypes, TableTypes
<1> DEFINE r == responseStatus[fd]
<1>1. /\ pc[w] \in {"send", "sendEnd", "sendRearm"} /\ UNCHANGED <<requestStatus, owner, link>>
      /\ SendNext(w) /\ ~SendPart(w)
  BY DEF SendNext, SendEmpty, SendEnd, SendRearm, SendPart, netVars, kernelVars, tableVars
<1>2. /\ StepsAt(fd) = {pc[w]} /\ TidyAt(fd) /\ owner[fd] \in Clients /\ job[w].held
      /\ interest[fd] \notin {"in", "inout"} /\ Outputs(fd)' = {} /\ ~ToSend(fd)
  <2>1. pc[w] # "sendTail" /\ pc[w] # "sendBegin"
    BY <1>1
  <2>2. StepsAt(fd) = {pc[w]} /\ TidyAt(fd)
    BY <1>1, SendHolds
  <2>3. pc[w] # "sendTail" =>
          /\ owner[fd] \in Clients /\ job[w].held /\ interest[fd] \notin {"in", "inout"}
          /\ Outputs(fd)' = {} /\ (pc[w] # "sendBegin" => ~ToSend(fd))
    BY <1>1, SendHolds
  <2> QED BY <2>1, <2>2, <2>3
<1>3. ASSUME NEW c \in Clients, owner[fd] = c, link[c] = "open"
      PROVE  /\ ServedAt(fd, c)
             /\ want'[c] = want[c] /\ stream'[c] = stream[c] /\ Received(c)' = Received(c)
             /\ (Listening(fd, c) => Listening(fd, c)') /\ (Finished(fd, c) => Finished(fd, c)')
  <2>1. ServedAt(fd, c)
    BY <1>1, <1>3, SendHolds
  <2>2. want'[c] = want[c] /\ stream'[c] = stream[c] /\ Received(c)' = Received(c)
    BY <1>1, SendHolds
  <2> QED BY <1>1, <2>1, <2>2 DEF Listening, Finished, Whole, Unasked
<1>4. CASE SendEmpty(w)
  <2> DEFINE e == [r EXCEPT !.status = "COMPLATE"]
  <2>1. /\ pc[w] = "send" /\ r # NONE /\ r = ResponseAt(fd) /\ r \in Responses
        /\ r.status = "BODY" /\ r.bodyType = "EMPTY"
        /\ responseStatus'[fd] = e /\ pc'[w] = "sendEnd" /\ job' = job
    BY <1>4 DEF SendEmpty, Goto, Alone, Solo, SoloAt, ResponseAt, Entries, KeptResponses
  <2>2. e # NONE /\ e.status = "COMPLATE" /\ e.bodyType = "EMPTY"
    <3>1. e \in Responses /\ e.status = "COMPLATE" /\ e.bodyType = "EMPTY"
      BY <2>1 DEF Responses, Statuses
    <3> QED BY <3>1, NoneAssumption
  <2>3. StepsAt(fd)' = {"sendEnd"}
    BY <2>1, StepsAlone
  <2> HIDE DEF e
  <2>4. TidyAt(fd)'
    BY <1>1, <1>2, <2>1, <2>2, <2>3 DEF TidyAt
  <2>5. ASSUME NEW c \in Clients, owner[fd] = c, link[c] = "open" PROVE ServedAt(fd, c)'
    <3>1. ~Answering(fd, c) /\ Busy(fd)
      BY <1>2, <2>1 DEF Answering, Busy, SendingSteps
    <3>2. Listening(fd, c)' \/ Finished(fd, c)'
      BY <1>3, <2>5, <3>1 DEF ServedAt, Over
    <3> QED BY <2>1, <2>2, <2>3, <3>2 DEF ServedAt, Busy, SendingSteps, Over
  <2> QED BY <1>1, <2>4, <2>5
<1>5. CASE SendEnd(w)
  <2>1. pc[w] = "sendEnd" /\ r # NONE /\ r.status = "COMPLATE" /\ r = ResponseAt(fd)
    BY <1>2, <1>5 DEF SendEnd, TidyAt, ResponseAt
  <2>2. /\ responseStatus'[fd] = NONE /\ pc'[w] = "sendRearm" /\ job'[w].fd = fd
        /\ interest' = interest
    BY <1>5, <2>1 DEF SendEnd, Goto, Jobs
  <2>3. StepsAt(fd)' = {"sendRearm"} /\ ~ToSend(fd)'
    BY <1>2, <2>2, StepsAlone, ToSendAlone
  <2>4. TidyAt(fd)'
    BY <1>1, <1>2, <2>2, <2>3 DEF TidyAt
  <2>5. ASSUME NEW c \in Clients, owner[fd] = c, link[c] = "open" PROVE ServedAt(fd, c)'
    <3>1. ~Answering(fd, c) /\ Busy(fd)
      BY <1>2, <2>1 DEF Answering, Busy, SendingSteps
    <3>2. Listening(fd, c)' \/ Finished(fd, c)'
      BY <1>3, <2>5, <3>1 DEF ServedAt, Over
    <3> QED BY <2>3, <3>2 DEF ServedAt, Busy, SendingSteps
  <2> QED BY <1>1, <2>4, <2>5
<1>6. CASE SendRearm(w)
  <2>1. /\ pc[w] = "sendRearm" /\ responseStatus' = responseStatus
        /\ pc'[w] = "sendTail" /\ job'[w].fd = fd
    BY <1>6 DEF SendRearm, Goto, Released, Jobs, tableVars
  <2>2. interest'[fd] = "in"
    <3>1. Armed(fd, "in") = [interest EXCEPT ![fd] = "in"]
      BY <1>2, ArmedWhenHeld DEF Alone
    <3> QED BY <1>6, <3>1 DEF SendRearm, KernelTypes
  <2>3. StepsAt(fd)' = {"sendTail"} /\ ~ToSend(fd)'
    BY <1>2, <2>1, <2>2, StepsAlone, ToSendAlone
  <2>4. TidyAt(fd)'
    BY <1>1, <1>2, <2>1, <2>3 DEF TidyAt
  <2>5. ASSUME NEW c \in Clients, owner[fd] = c, link[c] = "open" PROVE ServedAt(fd, c)'
    <3>1. ~Busy(fd)
      BY <1>2, <2>1 DEF Busy, SendingSteps
    <3>2. Listening(fd, c)' \/ Finished(fd, c)'
      BY <1>3, <2>5, <3>1 DEF ServedAt
    <3> QED BY <2>3, <3>2 DEF ServedAt, Busy, SendingSteps
  <2> QED BY <1>1, <2>4, <2>5
<1> QED BY <1>4, <1>5, <1>6

LEMMA SendTailOwn ==
  ASSUME Types, Alone, OneWorker, Serving, Recycles, NoResets, [Next]_vars,
         NEW w \in Workers, NEW fd \in Fds, job[w].fd = fd, SendTail(w)
  PROVE  /\ TidyAt(fd)'
         /\ \A c \in Clients : owner'[fd] = c /\ link'[c] = "open" => ServedAt(fd, c)'
<1> USE DEF Types, WorkTypes, TableTypes, KernelTypes
<1>1. /\ pc[w] = "sendTail" /\ requestStatus' = requestStatus /\ Return(w)
      /\ responseStatus' = [responseStatus EXCEPT ![fd] = ResponseAt(fd)]
      /\ SendNext(w) /\ ~SendPart(w)
  BY DEF SendNext, SendTail, SendPart
<1>2. /\ StepsAt(fd) = {"sendTail"} /\ TidyAt(fd)
      /\ owner'[fd] \in Clients => owner'[fd] = owner[fd]
  <2>1. /\ StepsAt(fd) = {pc[w]} /\ TidyAt(fd)
        /\ owner'[fd] \in Clients => owner'[fd] = owner[fd]
    BY <1>1, SendHolds
  <2> QED BY <1>1, <2>1
<1>3. responseStatus[fd] = NONE /\ ~job[w].held
  BY <1>1 DEF Alone, Solo, SoloAt, Custody, Phases
<1>4. responseStatus'[fd] = Response
  BY <1>1, <1>3 DEF ResponseAt
<1>5. owner[fd] \in Clients => owner'[fd] = owner[fd]
  <2> SUFFICES ASSUME owner[fd] \in Clients PROVE owner'[fd] = owner[fd]
    OBVIOUS
  <2>1. Effect(w)
    BY <1>1, AloneClosesOwn, WorkerEffects DEF Alone
  <2>2. job[w].fd # NONE
    BY ReactorAssumption
  <2> QED BY <1>3, <2>1, <2>2, ReactorAssumption DEF Effect, Passes, Drops, Rearms, Closes, Opens, Accepts
<1>6. ~ToSend(fd) /\ ~ToSend(fd)'
  <2>1. ~ToSend(fd)
    BY <1>3 DEF Alone, ResponseReady, Named
  <2>2. Outputs(fd)' = Outputs(fd)
    BY <1>1, HandlerOwners
  <2>3. interest'[fd] # "inout"
    <3>1. interest[fd] # "inout"
      BY <2>1, ToSendAlone
    <3>2. interest' = interest \/ \E f : interest' = [interest EXCEPT ![f] = "none"]
      BY DEF SendTail, Closed
    <3> QED BY <3>1, <3>2
  <2>4. job'[w].fd = NONE
    BY <1>1 DEF Return, NoJob
  <2> QED BY <2>1, <2>2, <2>3, <2>4, ToSendAlone, ReactorAssumption
<1>7. StepsAt(fd)' = {}
  BY <1>1, StepsAlone, ReactorAssumption DEF Return, NoJob
<1>8. \A c \in Clients : owner[fd] = c /\ link'[c] = "open" => link[c] = "open" /\ ServedAt(fd, c)
  BY <1>1, SendHolds
<1>9. TidyAt(fd)'
  BY <1>1, <1>2, <1>4, <1>5, <1>7, <1>8 DEF TidyAt, Unasked, Response
<1>10. ASSUME NEW c \in Clients, owner[fd] = c, link'[c] = "open" PROVE ServedAt(fd, c)'
  <2>1. Listening(fd, c) \/ Finished(fd, c)
    BY <1>2, <1>6, <1>8, <1>10 DEF ServedAt, Busy, SendingSteps
  <2>2. want'[c] = want[c] /\ stream'[c] = stream[c] /\ Received(c)' = Received(c)
    BY <1>1, SendHolds
  <2>3. Listening(fd, c)' \/ Finished(fd, c)'
    BY <1>1, <2>1, <2>2 DEF Listening, Finished, Whole, Unasked
  <2> QED BY <1>6, <1>7, <2>3 DEF ServedAt, Busy
<1> QED BY <1>2, <1>9, <1>10

LEMMA SendOwn ==
  ASSUME Types, Alone, OneWorker, Serving, Recycles, NoResets, [Next]_vars,
         NEW w \in Workers, NEW fd \in Fds, job[w].fd = fd, SendNext(w)
  PROVE  /\ TidyAt(fd)'
         /\ \A c \in Clients : owner'[fd] = c /\ link'[c] = "open" => ServedAt(fd, c)'
<1>1. ~SendNothing(w)
  BY DEF SendNothing, Alone, ResponseReady, Named, ToSend
<1>2. ~SendResume(w)
  <2> SUFFICES ASSUME SendResume(w) PROVE FALSE
    OBVIOUS
  <2>1. StepsAt(fd) = {"sendBegin"} /\ TidyAt(fd)
    BY SendHolds DEF SendResume
  <2> QED BY <2>1 DEF SendResume, TidyAt
<1> QED BY <1>1, <1>2, SendBuildOwn, SendPageOwn, SendPartOwn, SendRestOwn, SendTailOwn DEF SendNext

LEMMA ServingStep ==
  ASSUME Types, Alone, OneWorker, Serving, Recycles, NoResets, [Next]_vars
  PROVE  Serving'
<1>1. ASSUME NEW w \in Workers, RecvNext(w) \/ SendNext(w) PROVE Served' /\ Tidy'
  <2>1. ASSUME NEW fd \in Fds
        PROVE  /\ TidyAt(fd)'
               /\ \A c \in Clients : owner'[fd] = c /\ link'[c] = "open" => ServedAt(fd, c)'
    BY <1>1, OthersStep, RecvOwn, SendOwn
  <2> QED BY <2>1 DEF Served, Tidy
<1>2. Served' /\ Tidy'
  BY <1>1, OutsideStep, TakeStep, AcceptStep DEF WorkerNext
<1> QED BY <1>2, ConversationsStep, ConnectionsStep DEF Serving

LEMMA ServingInit == Init => Serving
<1> SUFFICES ASSUME Init PROVE Serving
  OBVIOUS
<1> USE DEF Init
<1>1. Conversations
  BY DEF Conversations, Here, InOrder, Received
<1>2. Connections
  BY ReactorAssumption DEF Connections, Places
<1>3. \A fd \in Fds : owner[fd] \notin Clients /\ StepsAt(fd) = {}
  BY ReactorAssumption DEF StepsAt, NoJob
<1>4. Served /\ Tidy
  BY <1>3 DEF Served, Tidy, TidyAt, Unasked
<1> QED BY <1>1, <1>2, <1>4 DEF Serving

(* With one worker, and clients that close but do not reset their          *)
(* connections, what a client has received is always the beginning of the  *)
(* answer to the request it waits for: no part is left out, repeated, sent *)
(* to another client or kept for a later request.                          *)
THEOREM OwnAnswerAlone ==
  ASSUME OneWorker, Recycles, NoResets
  PROVE  Spec => []RightAnswer
<1>1. Types /\ Alone /\ Serving /\ [Next]_vars => Serving'
  BY ServingStep
<1>2. Types /\ Serving => RightAnswer
  BY ServingMeansRight
<1> QED BY <1>1, <1>2, ServingInit, AloneHolds, PTL DEF Spec
=============================================================================
