------------------------------ MODULE Reactor ------------------------------
(***************************************************************************)
(* The server as a whole: the main loop WebServer::waitEpoll               *)
(* (fileserver/fileserver.cpp), the three event handlers AcceptConn,       *)
(* HandleRecv and HandleSend (event/myevent.cpp), the tables requestStatus *)
(* and responseStatus they share, and what they use of the kernel: the     *)
(* accept queue, the descriptor table, the epoll registrations and the     *)
(* sockets.  Clients connect, send requests, read the answers and leave.   *)
(*                                                                         *)
(* The thread pool appears as the queue of module EventQueue, which module *)
(* ThreadPool implements.  A handler is cut into several actions wherever  *)
(* another worker may look at what it has done so far: after each system   *)
(* call and before each later access to the tables.                        *)
(*                                                                         *)
(* setNonBlocking (utils/utils.cpp 108-117) asks F_GETFL twice and sets    *)
(* nothing: every socket stays blocking.  So recv waits for input, send    *)
(* returns when all is sent or the connection is broken, and no call       *)
(* returns EAGAIN; the branches for EAGAIN are not part of the model.      *)
(***************************************************************************)
EXTENDS Integers, Sequences, FiniteSets, SequencesExt

CONSTANTS
  Clients,     (* each element is one connection, made at most once *)
  Workers,     (* the threads of the pool *)
  Fds,         (* the descriptors the process may still open *)
  Kinds,       (* the kinds of request the clients send *)
  Departures,  (* how a client may leave: "close" (FIN), "abort" (RST) *)
  Recycles,    (* a worker that creates a Response gets the memory of the    *)
               (* one it has just erased                                     *)
  NONE         (* no entry, no request, no descriptor *)

(* list: GET /.  download, delete: GET of an operation and a file name.    *)
(* other: any other resource, answered by a redirection.  upload: POST of  *)
(* a file; unsavable: POST of a file that cannot be opened for writing.    *)
(* unknown: a method that is neither GET nor POST.  blank: a GET whose     *)
(* line has no resource; malformed: a request with a header that           *)
(* addHeaderOpt cannot take.                                               *)
Gets == {"list", "download", "delete", "other", "blank"}
AllKinds == Gets \cup {"upload", "unsavable", "unknown", "malformed"}

ASSUME ReactorAssumption ==
  /\ Fds \subseteq Nat /\ IsFiniteSet(Fds)
  /\ Kinds \subseteq AllKinds
  /\ Departures \subseteq {"close", "abort"}
  /\ Recycles \in BOOLEAN
  /\ NONE \notin Clients \cup Workers /\ NONE \notin Fds
  /\ NONE \notin AllKinds \cup {"redirect"}
  /\ {"free", "file", "dir"} \cap Clients = {}

VARIABLES
  alive,           (* FALSE when the process has ended *)
  link,            (* link[c]: the state of c's connection *)
  want,            (* want[c]: the request c waits for the answer to, or NONE *)
  sent,            (* sent[c]: how many pieces of it c has sent *)
  inbox,           (* inbox[c]: the pieces the server has not received yet *)
  stream,          (* stream[c]: the parts of the answer c has received *)
  backlog,         (* the connections waiting for accept *)
  listenReady,     (* the listening socket has an edge to report *)
  owner,           (* owner[fd]: "free", the client connected by fd, "file" *)
                   (* (open for a download) or "dir" (open for a list)      *)
  interest,        (* interest[fd]: the epoll registration of fd *)
  m_workQueue,     (* the events waiting for a worker *)
  pc,              (* pc[w]: the next step of worker w *)
  job,             (* job[w]: the event w handles, and what it has done *)
  requestStatus,   (* requestStatus[fd]: a Request, or NONE *)
  responseStatus,  (* responseStatus[fd]: a Response, or NONE *)
  filedir          (* there is a file to download *)

netVars == <<link, want, sent, inbox, stream>>
acceptVars == <<backlog, listenReady>>
kernelVars == <<owner, interest>>
workVars == <<m_workQueue, pc, job>>
tableVars == <<requestStatus, responseStatus>>
vars == <<alive, netVars, acceptVars, kernelVars, workVars, tableVars, filedir>>

(* A piece of a request is a run of whole lines: the request line; the     *)
(* headers with the empty line; for an upload, the body.  A recv returns   *)
(* one piece: one that returns several is the same as several in a row.    *)
Pieces(k) == IF k \in {"upload", "unsavable"} THEN 3 ELSE 2

Statuses == {"INIT", "HEAD", "BODY", "COMPLATE", "ERROR"}
BodyTypes == {"FILE", "HTML", "EMPTY"}

(* The parts an answer of each type consists of on the wire. *)
Answer(t) ==
  IF t = "EMPTY" THEN << <<"head", t>> >> ELSE << <<"head", t>>, <<"body", t>> >>

(* The types of answer that fit a request; a download of a file that is    *)
(* not there is answered by the redirection.                               *)
Fits(k) ==
  CASE k = "list" -> {"HTML"}
    [] k = "download" -> {"FILE", "EMPTY"}
    [] OTHER -> {"EMPTY"}

Request == [status |-> "INIT", kind |-> NONE]
Response == [status |-> "INIT", bodyFileName |-> NONE,
             bodyType |-> NONE, fileMsgFd |-> NONE]

(* operator[] of the two tables: the entry, created when it is missing.    *)
RequestAt(fd) == IF requestStatus[fd] = NONE THEN Request ELSE requestStatus[fd]
ResponseAt(fd) == IF responseStatus[fd] = NONE THEN Response ELSE responseStatus[fd]

Event(kind, fd, c) == [kind |-> kind, fd |-> fd, conn |-> c]

(* A worker's job: the event's descriptor; conn, the connection it was     *)
(* reported for, and held, whether the worker has not re-armed or closed   *)
(* it yet (both only for the properties); left, the fields of the Response *)
(* the worker has erased.                                                  *)
Job(fd, c) == [fd |-> fd, conn |-> c, held |-> TRUE, left |-> NONE]
NoJob == [fd |-> NONE, conn |-> NONE, held |-> FALSE, left |-> NONE]

Init ==
  /\ alive = TRUE
  /\ link = [c \in Clients |-> "new"]
  /\ want = [c \in Clients |-> NONE]
  /\ sent = [c \in Clients |-> 0]
  /\ inbox = [c \in Clients |-> <<>>]
  /\ stream = [c \in Clients |-> <<>>]
  /\ backlog = <<>>
  /\ listenReady = FALSE
  /\ owner = [fd \in Fds |-> "free"]
  /\ interest = [fd \in Fds |-> "none"]
  /\ m_workQueue = <<>>
  /\ pc = [w \in Workers |-> "idle"]
  /\ job = [w \in Workers |-> NoJob]
  /\ requestStatus = [fd \in Fds |-> NONE]
  /\ responseStatus = [fd \in Fds |-> NONE]
  /\ filedir \in BOOLEAN

(***************************************************************************)
(* The kernel.                                                             *)
(***************************************************************************)
FreeFds == {fd \in Fds : owner[fd] = "free"}
LowestFree == CHOOSE fd \in FreeFds : \A other \in FreeFds : fd <= other

(* epoll_ctl MOD: an error, without effect, on what is not registered.     *)
Armed(fd, events) ==
  IF interest[fd] = "none" THEN interest ELSE [interest EXCEPT ![fd] = events]

(* close(fd) takes the descriptor out of the table and out of epoll; a     *)
(* client still there is dropped.                                          *)
Closed(fd) ==
  /\ owner' = [owner EXCEPT ![fd] = "free"]
  /\ interest' = [interest EXCEPT ![fd] = "none"]
  /\ link' = IF owner[fd] \in Clients
               THEN [link EXCEPT ![owner[fd]] = IF @ = "open" THEN "dropped" ELSE "gone"]
               ELSE link

(* addWaitFd: one-shot, for input. *)
Added(fd) == [interest EXCEPT ![fd] = "in"]

Input(fd) == owner[fd] \in Clients
             /\ (inbox[owner[fd]] # <<>> \/ link[owner[fd]] # "open")

(***************************************************************************)
(* The clients.  None sends a request before the answer to the one before  *)
(* is complete.                                                            *)
(***************************************************************************)
Connect(c) ==
  /\ link[c] = "new"
  /\ link' = [link EXCEPT ![c] = "open"]
  /\ backlog' = Append(backlog, c)
  /\ listenReady' = TRUE
  /\ UNCHANGED <<alive, want, sent, inbox, stream, kernelVars, workVars,
                 tableVars, filedir>>

Ask(c) ==
  /\ link[c] = "open" /\ want[c] = NONE
  /\ \E k \in Kinds :
       /\ want' = [want EXCEPT ![c] = k]
       /\ inbox' = [inbox EXCEPT ![c] = Append(@, <<k, 1>>)]
  /\ sent' = [sent EXCEPT ![c] = 1]
  /\ UNCHANGED <<alive, link, stream, acceptVars, kernelVars, workVars,
                 tableVars, filedir>>

SendPiece(c) ==
  /\ link[c] = "open" /\ want[c] # NONE
  /\ sent[c] < Pieces(want[c])
  /\ inbox' = [inbox EXCEPT ![c] = Append(@, <<want[c], sent[c] + 1>>)]
  /\ sent' = [sent EXCEPT ![c] = @ + 1]
  /\ UNCHANGED <<alive, link, want, stream, acceptVars, kernelVars, workVars,
                 tableVars, filedir>>

(* The client has the whole answer and may ask again. *)
Read(c) ==
  /\ link[c] = "open" /\ want[c] # NONE
  /\ \E t \in Fits(want[c]) : stream[c] = Answer(t)
  /\ want' = [want EXCEPT ![c] = NONE]
  /\ sent' = [sent EXCEPT ![c] = 0]
  /\ stream' = [stream EXCEPT ![c] = <<>>]
  /\ UNCHANGED <<alive, link, inbox, acceptVars, kernelVars, workVars,
                 tableVars, filedir>>

Leave(c) ==
  /\ link[c] = "open"
  /\ \/ "close" \in Departures /\ link' = [link EXCEPT ![c] = "closed"]
     \/ "abort" \in Departures /\ link' = [link EXCEPT ![c] = "aborted"]
  /\ want' = [want EXCEPT ![c] = NONE]
  /\ sent' = [sent EXCEPT ![c] = 0]
  /\ stream' = [stream EXCEPT ![c] = <<>>]
  /\ UNCHANGED <<alive, inbox, acceptVars, kernelVars, workVars, tableVars, filedir>>

(***************************************************************************)
(* The main loop: one reported descriptor, one event.                      *)
(***************************************************************************)

(* Slip: the listening socket is level triggered. *)
ReportListenLevel ==
  /\ listenReady
  /\ m_workQueue' = Append(m_workQueue, Event("AcceptConn", NONE, NONE))
  /\ UNCHANGED <<alive, netVars, acceptVars, kernelVars, pc, job, tableVars, filedir>>

(* The listening socket is edge triggered: connections that arrive before  *)
(* the main thread looks make one report together.                         *)
ReportListen ==
  /\ listenReady
  /\ listenReady' = FALSE
  /\ m_workQueue' = Append(m_workQueue, Event("AcceptConn", NONE, NONE))
  /\ UNCHANGED <<alive, netVars, backlog, kernelVars, pc, job, tableVars, filedir>>

(* Slip: the client's socket is registered without EPOLLONESHOT. *)
ReportClientAgain(fd) ==
  /\ interest[fd] = "inout" \/ (interest[fd] = "in" /\ Input(fd))
  /\ m_workQueue' = Append(m_workQueue,
                      Event(IF Input(fd) THEN "HandleRecv" ELSE "HandleSend",
                            fd, owner[fd]))
  /\ UNCHANGED <<alive, netVars, acceptVars, kernelVars, pc, job, tableVars, filedir>>

(* A client's socket is registered one-shot: the report disarms it. Input  *)
(* goes before output, and a connection can always take output.            *)
ReportClient(fd) ==
  /\ interest[fd] = "inout" \/ (interest[fd] = "in" /\ Input(fd))
  /\ interest' = [interest EXCEPT ![fd] = "off"]
  /\ m_workQueue' = Append(m_workQueue,
                      Event(IF Input(fd) THEN "HandleRecv" ELSE "HandleSend",
                            fd, owner[fd]))
  /\ UNCHANGED <<alive, netVars, acceptVars, owner, pc, job, tableVars, filedir>>

(***************************************************************************)
(* The workers.                                                            *)
(***************************************************************************)
Goto(w, step) == pc' = [pc EXCEPT ![w] = step]
Return(w) ==
  /\ pc' = [pc EXCEPT ![w] = "idle"]
  /\ job' = [job EXCEPT ![w] = NoJob]
Released(w) == job' = [job EXCEPT ![w].held = FALSE]

Take(w) ==
  /\ pc[w] = "idle" /\ m_workQueue # <<>>
  /\ LET e == Head(m_workQueue) IN
       /\ Goto(w, CASE e.kind = "AcceptConn" -> "accept"
                    [] e.kind = "HandleRecv" -> "recvBegin"
                    [] OTHER -> "sendBegin")
       /\ job' = [job EXCEPT ![w] = Job(e.fd, e.conn)]
  /\ m_workQueue' = Tail(m_workQueue)
  /\ UNCHANGED <<alive, netVars, acceptVars, kernelVars, tableVars, filedir>>

(* AcceptConn::process: one accept, whatever the number of connections     *)
(* that wait; it fails when no descriptor is left.                         *)
Accept(w) ==
  /\ pc[w] = "accept" /\ backlog # <<>>
  /\ IF FreeFds = {}
       THEN UNCHANGED <<backlog, kernelVars>>
       ELSE /\ owner' = [owner EXCEPT ![LowestFree] = Head(backlog)]
            /\ interest' = Added(LowestFree)
            /\ backlog' = Tail(backlog)
  /\ Return(w)
  /\ UNCHANGED <<alive, netVars, listenReady, m_workQueue, tableVars, filedir>>

(***************************************************************************)
(* HandleRecv::process.                                                    *)
(***************************************************************************)

(* What one received piece makes of a Request.  A request whose line was   *)
(* dropped has its first header taken for the line: an unknown method.     *)
Parse(r, p) ==
  CASE r.status = "INIT" /\ p[2] = 1 -> [status |-> "HEAD", kind |-> p[1]]
    [] r.status = "INIT" /\ p[2] # 1 -> [status |-> "BODY", kind |-> "unknown"]
    [] r.status = "HEAD" /\ p[2] # 1 -> [r EXCEPT !.status = "BODY"]
    [] OTHER -> r

(* Whether the Request r, after the piece p, can be answered: a GET at     *)
(* once, a POST when its body has come (or what came instead does not      *)
(* start with the boundary).                                               *)
Answerable(r, p) ==
  /\ r.status = "BODY"
  /\ \/ r.kind \in Gets
     \/ /\ r.kind \in {"upload", "unsavable"} /\ p[2] # 2
        /\ ~(p[2] = 3 /\ (r.kind = "unsavable" \/ FreeFds = {}))

(* The file of an upload cannot be opened, for itself or for want of a     *)
(* descriptor: the handler gives up.  (It closes the file before it waits  *)
(* again, so that the descriptor it needs is free afterwards.)             *)
Unsavable(r, p) ==
  /\ r.status = "BODY" /\ p[2] = 3
  /\ r.kind = "unsavable" \/ (r.kind = "upload" /\ FreeFds = {})

(* Slip: the resource of the request, whatever its method. *)
OwnResource(k) == k

(* What the handler hands over to HandleSend: the resource of a GET, and   *)
(* the redirection after a POST.                                           *)
Resource(k) == IF k \in Gets THEN k ELSE "redirect"

RecvBegin(w) ==
  LET fd == job[w].fd IN
  /\ pc[w] = "recvBegin"
  /\ requestStatus' = [requestStatus EXCEPT ![fd] = RequestAt(fd)]
  /\ Goto(w, "recv")
  /\ UNCHANGED <<alive, netVars, acceptVars, kernelVars, m_workQueue, job,
                 responseStatus, filedir>>

(* A turn of the loop, from recv to the next recv or, when the request is  *)
(* complete, to the modifyWaitFd that asks for a HandleSend event.  It     *)
(* waits in recv while there is no input.  (Throws has the turn that does  *)
(* not come to its end.)                                                   *)
RecvPiece(w) ==
  LET fd == job[w].fd
      c == owner[fd]
      p == Head(inbox[c])
      r == Parse(RequestAt(fd), p)
  IN
  /\ pc[w] = "recv" /\ c \in Clients /\ inbox[c] # <<>>
  /\ ~(p[1] = "malformed" /\ RequestAt(fd).status = "HEAD")
  /\ inbox' = [inbox EXCEPT ![c] = Tail(@)]
  /\ requestStatus' = [requestStatus EXCEPT ![fd] = r]
  /\ filedir' = (filedir \/ (r.status = "BODY" /\ r.kind = "upload" /\ p[2] = 3
                              /\ ~Unsavable(r, p)))
  /\ IF Answerable(r, p)
       THEN /\ responseStatus' = [responseStatus EXCEPT ![fd] =
                 [ResponseAt(fd) EXCEPT !.bodyFileName = Resource(r.kind)]]
            /\ interest' = Armed(fd, "inout")
            /\ Released(w)
            /\ Goto(w, "complate")
       ELSE /\ Goto(w, IF Unsavable(r, p) THEN "recvEnd" ELSE "recv")
            /\ UNCHANGED <<interest, job, responseStatus>>
  /\ UNCHANGED <<alive, link, want, sent, stream, acceptVars, owner, m_workQueue>>

(* Slip: the end of the connection is taken for an empty buffer. *)
RecvLostIgnored(w) ==
  LET fd == job[w].fd IN
  /\ pc[w] = "recv"
  /\ owner[fd] \in Clients => inbox[owner[fd]] = <<>> /\ link[owner[fd]] # "open"
  /\ Goto(w, "recvEnd")
  /\ UNCHANGED <<alive, netVars, acceptVars, kernelVars, m_workQueue, job,
                 tableVars, filedir>>

(* recv returns 0, or an error that is not EAGAIN. *)
RecvLost(w) ==
  LET fd == job[w].fd IN
  /\ pc[w] = "recv"
  /\ owner[fd] \in Clients => inbox[owner[fd]] = <<>> /\ link[owner[fd]] # "open"
  /\ requestStatus' = [requestStatus EXCEPT ![fd] =
                         [RequestAt(fd) EXCEPT !.status = "ERROR"]]
  /\ Goto(w, "recvEnd")
  /\ UNCHANGED <<alive, netVars, acceptVars, kernelVars, m_workQueue, job,
                 responseStatus, filedir>>

(* Slip: the assignment is missing. *)
RecvNotComplate(w) ==
  /\ pc[w] = "complate"
  /\ Goto(w, "recvEnd")
  /\ UNCHANGED <<alive, netVars, acceptVars, kernelVars, m_workQueue, job,
                 tableVars, filedir>>

(* The assignment after modifyWaitFd. *)
RecvComplate(w) ==
  LET fd == job[w].fd IN
  /\ pc[w] = "complate"
  /\ requestStatus' = [requestStatus EXCEPT ![fd] =
                         [RequestAt(fd) EXCEPT !.status = "COMPLATE"]]
  /\ Goto(w, "recvEnd")
  /\ UNCHANGED <<alive, netVars, acceptVars, kernelVars, m_workQueue, job,
                 responseStatus, filedir>>

(* Slip: the complete request is erased from the wrong table. *)
RecvEndWrongTable(w) ==
  LET fd == job[w].fd
      status == RequestAt(fd).status
  IN
  /\ pc[w] = "recvEnd"
  /\ requestStatus' = [requestStatus EXCEPT ![fd] = RequestAt(fd)]
  /\ responseStatus' = IF status = "COMPLATE"
                         THEN [responseStatus EXCEPT ![fd] = NONE] ELSE responseStatus
  /\ IF status = "ERROR"
       THEN Closed(fd) /\ Released(w) /\ Goto(w, "recvErase")
       ELSE Return(w) /\ UNCHANGED <<owner, interest, link>>
  /\ UNCHANGED <<alive, want, sent, inbox, stream, acceptVars, m_workQueue, filedir>>

(* After the loop: a complete request is erased; on an error the socket is *)
(* taken out of epoll and closed; any other request is left as it is.      *)
RecvEnd(w) ==
  LET fd == job[w].fd
      status == RequestAt(fd).status
  IN
  /\ pc[w] = "recvEnd"
  /\ requestStatus' = [requestStatus EXCEPT ![fd] =
                         IF status = "COMPLATE" THEN NONE ELSE RequestAt(fd)]
  /\ IF status = "ERROR"
       THEN Closed(fd) /\ Released(w) /\ Goto(w, "recvErase")
       ELSE Return(w) /\ UNCHANGED <<owner, interest, link>>
  /\ UNCHANGED <<alive, want, sent, inbox, stream, acceptVars, m_workQueue,
                 responseStatus, filedir>>

RecvErase(w) ==
  /\ pc[w] = "recvErase"
  /\ requestStatus' = [requestStatus EXCEPT ![job[w].fd] = NONE]
  /\ Return(w)
  /\ UNCHANGED <<alive, netVars, acceptVars, kernelVars, m_workQueue,
                 responseStatus, filedir>>

(***************************************************************************)
(* HandleSend::process.                                                    *)
(***************************************************************************)

(* Slip: the handler returns without re-arming the socket. *)
RedirectNotArmed(w, fd) ==
  /\ responseStatus' = [responseStatus EXCEPT ![fd] =
                          [Response EXCEPT !.bodyFileName = "redirect"]]
  /\ Return(w)
  /\ UNCHANGED interest

(* The Response is replaced by a new one that redirects, and the handler   *)
(* returns: the next HandleSend event sends it.                            *)
Redirect(w, fd) ==
  /\ responseStatus' = [responseStatus EXCEPT ![fd] =
                          [Response EXCEPT !.bodyFileName = "redirect"]]
  /\ interest' = Armed(fd, "inout")
  /\ Return(w)

Built(r, type, file) ==
  [r EXCEPT !.status = "HEAD", !.bodyType = type, !.fileMsgFd = file]

SendNothing(w) ==
  /\ pc[w] = "sendBegin"
  /\ responseStatus[job[w].fd] = NONE
  /\ Return(w)
  /\ UNCHANGED <<alive, netVars, acceptVars, kernelVars, m_workQueue,
                 tableVars, filedir>>

(* The Response is in its first state: the operation is carried out and    *)
(* the head of the answer built.  For a list, getFileVec opens filedir and *)
(* never closes it; without a descriptor it reads a null DIR, and the      *)
(* process ends.  (For an empty resource see Throws.)                      *)
SendBuild(w) ==
  LET fd == job[w].fd
      r == responseStatus[fd]
      Build(type, file) ==
        /\ responseStatus' = [responseStatus EXCEPT ![fd] = Built(r, type, file)]
        /\ Goto(w, "send")
        /\ UNCHANGED <<interest, job>>
  IN
  /\ pc[w] = "sendBegin" /\ r # NONE /\ r.status = "INIT"
  /\ \/ /\ r.bodyFileName = "list" /\ FreeFds # {}
        /\ owner' = [owner EXCEPT ![LowestFree] = "dir"]
        /\ Goto(w, "page")
        /\ UNCHANGED <<alive, interest, job, responseStatus, filedir>>
     \/ /\ r.bodyFileName = "list" /\ FreeFds = {}
        /\ alive' = FALSE
        /\ UNCHANGED <<kernelVars, pc, job, responseStatus, filedir>>
     \/ /\ r.bodyFileName = "download" /\ filedir /\ FreeFds # {}
        /\ owner' = [owner EXCEPT ![LowestFree] = "file"]
        /\ Build("FILE", LowestFree)
        /\ UNCHANGED <<alive, filedir>>
     \/ /\ r.bodyFileName = "download" /\ ~(filedir /\ FreeFds # {})
        /\ Redirect(w, fd)
        /\ UNCHANGED <<alive, owner, filedir>>
     \/ /\ r.bodyFileName = "delete"
        /\ filedir' = FALSE
        /\ Redirect(w, fd)
        /\ UNCHANGED <<alive, owner>>
     \/ /\ r.bodyFileName \notin {"list", "download", "delete", "blank", NONE}
        /\ Build("EMPTY", NONE)
        /\ UNCHANGED <<alive, owner, filedir>>
  /\ UNCHANGED <<netVars, acceptVars, m_workQueue, requestStatus>>

(* getFileListPage reads html/filelist.html up to the place of the list.   *)
(* Without a descriptor it cannot open it, reads nothing, and never finds  *)
(* the place: the worker is lost.                                          *)
SendPage(w) ==
  LET fd == job[w].fd IN
  /\ pc[w] = "page"
  /\ IF FreeFds = {}
       THEN Goto(w, "lost") /\ UNCHANGED responseStatus
       ELSE /\ responseStatus' = [responseStatus EXCEPT ![fd] =
                                    Built(ResponseAt(fd), "HTML", NONE)]
            /\ Goto(w, "send")
  /\ UNCHANGED <<alive, netVars, acceptVars, kernelVars, m_workQueue, job,
                 requestStatus, filedir>>

(* The Response was built by an earlier event: sending goes on. *)
SendResume(w) ==
  LET r == responseStatus[job[w].fd] IN
  /\ pc[w] = "sendBegin" /\ r # NONE /\ r.status # "INIT"
  /\ Goto(w, "send")
  /\ UNCHANGED <<alive, netVars, acceptVars, kernelVars, m_workQueue, job,
                 tableVars, filedir>>

(* Slip: a client that has closed its end counts as one that has reset. *)
SendResultClosed(fd) ==
  IF owner[fd] \notin Clients THEN "error"
  ELSE CASE link[owner[fd]] = "aborted" -> "error"
         [] link[owner[fd]] \in {"reset", "closed"} -> "pipe"
         [] OTHER -> "ok"

(* What the peer of a socket makes of a send: "ok", "error" (-1), or       *)
(* "pipe", the signal SIGPIPE, which nothing handles or ignores.  A client *)
(* that has closed answers the first data with a reset, so that the next   *)
(* send raises the signal; one that has reset the connection is reported   *)
(* once as an error before that.                                           *)
SendResult(fd) ==
  IF owner[fd] \notin Clients THEN "error"
  ELSE CASE link[owner[fd]] = "aborted" -> "error"
         [] link[owner[fd]] = "reset" -> "pipe"
         [] OTHER -> "ok"

LinkAfterSend(fd, later) ==
  LET c == owner[fd] IN
  IF c \in Clients /\ (link[c] = "aborted" \/ (link[c] = "closed" /\ later))
    THEN [link EXCEPT ![c] = "reset"] ELSE link

Delivered(fd, part) ==
  LET c == owner[fd] IN
  IF c \in Clients /\ link[c] = "open"
    THEN [stream EXCEPT ![c] = Append(@, part)] ELSE stream

(* One turn of the sending loop after a failed send: the error is recorded *)
(* in requestStatus, and the loop ends.                                    *)
SendFails(w, fd) ==
  /\ requestStatus' = [requestStatus EXCEPT ![fd] =
                         [RequestAt(fd) EXCEPT !.status = "ERROR"]]
  /\ Goto(w, "sendEnd")

(* The parts that are sent by a call: the head, and a body that is not     *)
(* empty.                                                                  *)
SendPart(w) ==
  LET fd == job[w].fd
      r == ResponseAt(fd)
      part == IF r.status = "HEAD" THEN "head" ELSE "body"
      fileGone == part = "body" /\ r.bodyType = "FILE"
                  /\ (r.fileMsgFd = NONE \/ owner[r.fileMsgFd] # "file")
      result == IF fileGone THEN "error" ELSE SendResult(fd)
  IN
  /\ pc[w] = "send"
  /\ r.status = "HEAD" \/ (r.status = "BODY" /\ r.bodyType \in {"FILE", "HTML"})
  /\ alive' = (result # "pipe")
  /\ IF fileGone THEN link' = link
     ELSE \E later \in BOOLEAN : link' = LinkAfterSend(fd, later)
  /\ IF result = "error"
       THEN SendFails(w, fd) /\ UNCHANGED <<stream, responseStatus>>
       ELSE /\ stream' = Delivered(fd, <<part, r.bodyType>>)
            /\ responseStatus' = [responseStatus EXCEPT ![fd] =
                 [r EXCEPT !.status = IF part = "head" THEN "BODY" ELSE "COMPLATE"]]
            /\ Goto(w, IF part = "head" THEN "send" ELSE "sendEnd")
            /\ UNCHANGED requestStatus
  /\ UNCHANGED <<want, sent, inbox, acceptVars, kernelVars, m_workQueue, job, filedir>>

(* A body that is empty needs no call. *)
SendEmpty(w) ==
  LET fd == job[w].fd
      r == ResponseAt(fd)
  IN
  /\ pc[w] = "send" /\ r.status = "BODY" /\ r.bodyType = "EMPTY"
  /\ responseStatus' = [responseStatus EXCEPT ![fd] = [r EXCEPT !.status = "COMPLATE"]]
  /\ Goto(w, "sendEnd")
  /\ UNCHANGED <<alive, netVars, acceptVars, kernelVars, m_workQueue, job,
                 requestStatus, filedir>>

(* After the loop: a complete Response is erased; any other is kept and    *)
(* the socket re-armed for output.  No code sets the status of a Response  *)
(* to HANDLE_ERROR, so the branch for it is never taken.                   *)
SendEnd(w) ==
  LET fd == job[w].fd
      r == ResponseAt(fd)
  IN
  /\ pc[w] = "sendEnd"
  /\ IF r.status = "COMPLATE"
       THEN /\ responseStatus' = [responseStatus EXCEPT ![fd] = NONE]
            /\ job' = [job EXCEPT ![w].left = [bodyType |-> r.bodyType,
                                               fileMsgFd |-> r.fileMsgFd]]
            /\ Goto(w, "sendRearm")
            /\ UNCHANGED interest
       ELSE /\ responseStatus' = [responseStatus EXCEPT ![fd] = r]
            /\ interest' = Armed(fd, "inout")
            /\ Return(w)
  /\ UNCHANGED <<alive, netVars, acceptVars, owner, m_workQueue, requestStatus, filedir>>

SendRearm(w) ==
  /\ pc[w] = "sendRearm"
  /\ interest' = Armed(job[w].fd, "in")
  /\ Released(w)
  /\ Goto(w, "sendTail")
  /\ UNCHANGED <<alive, netVars, acceptVars, owner, m_workQueue, tableVars, filedir>>

(* What bodyType and fileMsgFd can hold in a Response where nothing has    *)
(* set them.  An entry this worker creates now gets the memory of the one  *)
(* it has just erased, and with it the fields, when the allocator hands    *)
(* it out again, as glibc's per-thread cache does.  Of an entry another    *)
(* worker has created nothing is known: zeroed memory means FILE, and any  *)
(* descriptor may be closed.  (NONE: one outside Fds, or none.)            *)
Leftovers(w) ==
  IF Recycles /\ responseStatus[job[w].fd] = NONE THEN {job[w].left}
  ELSE [bodyType : BodyTypes, fileMsgFd : Fds \cup {NONE}]

(* Slip: the file is not closed. *)
SendTailLeaks(w) ==
  LET fd == job[w].fd IN
  /\ pc[w] = "sendTail"
  /\ responseStatus' = [responseStatus EXCEPT ![fd] = ResponseAt(fd)]
  /\ Return(w)
  /\ UNCHANGED <<alive, netVars, acceptVars, kernelVars, m_workQueue,
                 requestStatus, filedir>>

(* Slip: the client's socket is closed instead of the file. *)
SendTailClosesClient(w) ==
  LET fd == job[w].fd IN
  /\ pc[w] = "sendTail"
  /\ responseStatus' = [responseStatus EXCEPT ![fd] = ResponseAt(fd)]
  /\ Closed(fd)
  /\ Return(w)
  /\ UNCHANGED <<alive, want, sent, inbox, stream, acceptVars, m_workQueue,
                 requestStatus, filedir>>

(* The test and the close after the Response was erased: operator[] finds  *)
(* the Response of a newer request or creates an empty one.                *)
SendTail(w) ==
  LET fd == job[w].fd
      r == ResponseAt(fd)
      file(m) == IF m.bodyType = "FILE" THEN m.fileMsgFd ELSE NONE
  IN
  /\ pc[w] = "sendTail"
  /\ responseStatus' = [responseStatus EXCEPT ![fd] = r]
  /\ \E m \in IF r.bodyType = NONE THEN Leftovers(w) ELSE {r} :
       IF file(m) = NONE
         THEN UNCHANGED <<owner, interest, link>>
         ELSE Closed(file(m))
  /\ Return(w)
  /\ UNCHANGED <<alive, want, sent, inbox, stream, acceptVars, m_workQueue,
                 requestStatus, filedir>>

(***************************************************************************)
(* The exceptions: nothing catches one, and the process ends in the middle *)
(* of the handler.                                                         *)
(***************************************************************************)

(* addHeaderOpt is called for the lines of the next piece. *)
AtHeaders(w) ==
  LET c == owner[job[w].fd] IN
  /\ pc[w] = "recv" /\ c \in Clients /\ inbox[c] # <<>>
  /\ Head(inbox[c])[2] # 1 /\ RequestAt(job[w].fd).status \in {"INIT", "HEAD"}

(* stoll, substr and pop_back fail on a malformed line, and so they may    *)
(* when two workers are at it: they share the stream the line is read      *)
(* from.  (Module HeaderLines has that stream, and the options that get    *)
(* the wrong values; Reactor's kinds stand for what was understood.)       *)
MalformedHeader(w) == AtHeaders(w) /\ Head(inbox[owner[job[w].fd]])[1] = "malformed"
HeadersMixed(w) == AtHeaders(w) /\ \E v \in Workers \ {w} : AtHeaders(v)

(* substr(1) of an empty resource: the client's, or that of a Response     *)
(* nobody has given one.                                                   *)
EmptyResource(w, name) ==
  LET r == responseStatus[job[w].fd] IN
  /\ pc[w] = "sendBegin" /\ r # NONE
  /\ r.status = "INIT" /\ r.bodyFileName = name

Throws(w) ==
  /\ \/ MalformedHeader(w)
     \/ HeadersMixed(w)
     \/ EmptyResource(w, "blank")
     \/ EmptyResource(w, NONE)
  /\ alive' = FALSE
  /\ UNCHANGED <<netVars, acceptVars, kernelVars, workVars, tableVars, filedir>>

(* The page of a worker that never finds the place of the list grows until *)
(* there is no memory left.                                                *)
OutOfMemory(w) ==
  /\ pc[w] = "lost"
  /\ alive' = FALSE
  /\ UNCHANGED <<netVars, acceptVars, kernelVars, workVars, tableVars, filedir>>

(***************************************************************************)
(* The whole.                                                              *)
(***************************************************************************)
ClientNext(c) == Connect(c) \/ Ask(c) \/ SendPiece(c) \/ Read(c) \/ Leave(c)

MainNext == ReportListen \/ \E fd \in Fds : ReportClient(fd)

RecvNext(w) == RecvBegin(w) \/ RecvPiece(w) \/ RecvLost(w) \/ RecvComplate(w)
               \/ RecvEnd(w) \/ RecvErase(w)

SendNext(w) == SendNothing(w) \/ SendBuild(w) \/ SendPage(w) \/ SendResume(w)
               \/ SendPart(w) \/ SendEmpty(w) \/ SendEnd(w) \/ SendRearm(w)
               \/ SendTail(w)

WorkerNext(w) == Take(w) \/ Accept(w) \/ RecvNext(w) \/ SendNext(w)

Next ==
  /\ alive
  /\ \/ \E c \in Clients : ClientNext(c)
     \/ MainNext
     \/ \E w \in Workers : WorkerNext(w) \/ Throws(w) \/ OutOfMemory(w)

Spec == Init /\ [][Next]_vars

(* Main thread and workers keep running, and a client reads what it gets.  *)
(* That a client ever sends the rest of a request is an assumption of its  *)
(* own, and that it asks, or leaves, is none at all; nor is it one that    *)
(* the memory runs out.                                                    *)
Fairness ==
  /\ WF_vars(alive /\ ReportListen)
  /\ \A fd \in Fds : WF_vars(alive /\ ReportClient(fd))
  /\ \A w \in Workers : WF_vars(alive /\ (WorkerNext(w) \/ Throws(w)))
  /\ \A c \in Clients : WF_vars(alive /\ Read(c))

FairSpec == Spec /\ Fairness
PromptSpec == FairSpec /\ \A c \in Clients : WF_vars(alive /\ SendPiece(c))
-----------------------------------------------------------------------------
(***************************************************************************)
(* Properties.                                                             *)
(***************************************************************************)
Entries(T) == T \cup {NONE}
Requests == [status : Statuses, kind : Entries(AllKinds)]
Responses == [status : Statuses, bodyFileName : Entries(Gets \cup {"redirect"}),
              bodyType : Entries(BodyTypes), fileMsgFd : Entries(Fds)]
Lefts == [bodyType : Entries(BodyTypes), fileMsgFd : Entries(Fds)]

(* That there is no entry differs from every entry there can be. *)
ASSUME NoneAssumption == NONE \notin Requests \cup Responses \cup Lefts \cup BodyTypes

Steps == {"idle", "accept", "recvBegin", "recv", "complate", "recvEnd",
          "recvErase", "sendBegin", "page", "lost", "send", "sendEnd", "sendRearm", "sendTail"}

(* Every variable keeps its type. *)
TypeOK ==
  /\ alive \in BOOLEAN
  /\ link \in [Clients -> {"new", "open", "closed", "aborted", "reset", "dropped", "gone"}]
  /\ want \in [Clients -> Entries(Kinds)]
  /\ sent \in [Clients -> 0..3]
  /\ \A c \in Clients : inbox[c] \in Seq(Kinds \X (1..3))
  /\ \A c \in Clients : stream[c] \in Seq({"head", "body"} \X BodyTypes)
  /\ backlog \in Seq(Clients)
  /\ listenReady \in BOOLEAN
  /\ owner \in [Fds -> Clients \cup {"free", "file", "dir"}]
  /\ interest \in [Fds -> {"none", "off", "in", "inout"}]
  /\ \A i \in DOMAIN m_workQueue :
       m_workQueue[i] \in [kind : {"AcceptConn", "HandleRecv", "HandleSend"},
                           fd : Entries(Fds), conn : Entries(Clients)]
  /\ pc \in [Workers -> Steps]
  /\ \A w \in Workers :
       /\ job[w].fd \in Entries(Fds) /\ job[w].conn \in Entries(Clients)
       /\ job[w].held \in BOOLEAN
       /\ pc[w] \notin {"idle", "accept"} => job[w].fd \in Fds
  /\ requestStatus \in [Fds -> Entries(Requests)]
  /\ responseStatus \in [Fds -> Entries(Responses)]
  /\ filedir \in BOOLEAN

(* The right to handle a connection is in one place: in epoll, armed; in   *)
(* an event of the queue; or with a worker that has not re-armed yet.      *)
Queued(fd) == {i \in DOMAIN m_workQueue : m_workQueue[i].fd = fd}
Holders(fd) == {w \in Workers : job[w].fd = fd /\ job[w].held}
Tokens(fd) == (IF interest[fd] \in {"in", "inout"} THEN 1 ELSE 0)
              + Cardinality(Queued(fd)) + Cardinality(Holders(fd))

(* An upload that was not brought to an end. *)
GivenUp(fd) ==
  /\ requestStatus[fd] # NONE /\ requestStatus[fd].status = "BODY"
  /\ requestStatus[fd].kind \in {"upload", "unsavable"}

(* EPOLLONESHOT and the re-arming of the handlers keep every connection in *)
(* exactly one hand: no two workers receive or send on it at a time, and   *)
(* it is never forgotten, neither armed nor queued nor being handled,      *)
(* except after an upload whose file could not be opened.                  *)
OneToken ==
  \A fd \in Fds :
    IF owner[fd] \in Clients
      THEN Tokens(fd) = 1 \/ (Tokens(fd) = 0 /\ GivenUp(fd))
      ELSE Tokens(fd) = 0

(* A worker that holds a connection's event works on that connection: its  *)
(* descriptor was not closed and given to another one in the meantime.     *)
OwnConnection ==
  \A w \in Workers :
    job[w].held /\ job[w].fd # NONE => owner[job[w].fd] = job[w].conn

(* accept never blocks a worker although the listening socket is blocking: *)
(* every report of the socket stands for a connection of its own.          *)
AcceptEvents == {i \in DOMAIN m_workQueue : m_workQueue[i].kind = "AcceptConn"}
Accepting == {w \in Workers : pc[w] = "accept"}
AcceptCovered ==
  (IF listenReady THEN 1 ELSE 0) + Cardinality(AcceptEvents)
    + Cardinality(Accepting) <= Len(backlog)

(* What a client has received is the beginning of the answer to the        *)
(* request it waits for: no answer goes to another client, comes twice, or *)
(* belongs to an earlier request.                                          *)
RightAnswer ==
  \A c \in Clients :
    stream[c] # <<>> =>
      want[c] # NONE /\ \E t \in Fits(want[c]) : IsPrefix(stream[c], Answer(t))

(* A file that was opened for a download is closed once the download is    *)
(* over, and never before: it is open as long as one Response that is      *)
(* being sent, or the worker that has just erased it, refers to it.        *)
SendingFile(fd, f) ==
  /\ responseStatus[fd] # NONE
  /\ responseStatus[fd].bodyType = "FILE" /\ responseStatus[fd].fileMsgFd = f
FinishingFile(w, f) ==
  /\ job[w].left # NONE
  /\ job[w].left.bodyType = "FILE" /\ job[w].left.fileMsgFd = f
FileUses(f) == {fd \in Fds : SendingFile(fd, f)} \cup {w \in Workers : FinishingFile(w, f)}
FilesAccounted ==
  \A f \in Fds : Cardinality(FileUses(f)) = IF owner[f] = "file" THEN 1 ELSE 0

(* HandleSend is called for a connection only when there is a Response to  *)
(* send: the return that finds none, and would leave the connection        *)
(* disarmed, is never taken.                                               *)
SendFindsResponse ==
  \A w \in Workers : pc[w] = "sendBegin" => responseStatus[job[w].fd] # NONE

(* With one worker the process ends only when a client has left before its *)
(* answer was complete, when no descriptor is left, or at a request with a *)
(* malformed header or an empty resource: no order of events, of its own   *)
(* or of clients, ends it otherwise.  In particular HandleSend never meets *)
(* one of the empty Responses that line 656 leaves behind.                 *)
StaysUp ==
  ~alive =>
    \/ FreeFds = {}
    \/ \E c \in Clients : link[c] = "reset"
    \/ \E w \in Workers :
         pc[w] = "lost" \/ MalformedHeader(w) \/ EmptyResource(w, "blank")

(* Any number of workers: each connection is in at most one hand, and each *)
(* hand has the connection its event was reported for.                     *)
InRightHands ==
  /\ \A fd \in Fds : Tokens(fd) <= IF owner[fd] \in Clients THEN 1 ELSE 0
  /\ OwnConnection
  /\ \A i \in DOMAIN m_workQueue :
       m_workQueue[i].fd # NONE => owner[m_workQueue[i].fd] = m_workQueue[i].conn

(* A connection is closed by a worker that has let go of its event: in     *)
(* line 339 when another worker has set the status to HANDLE_ERROR         *)
(* meanwhile, in line 658 by what it finds in the table.                   *)
LateClose(w) ==
  /\ ~job[w].held /\ pc[w] \in {"recvEnd", "sendTail"} /\ pc'[w] # pc[w]
  /\ \E fd \in Fds : owner[fd] \in Clients /\ owner'[fd] = "free"

(* Whatever the workers do between re-arming and returning, and however    *)
(* the clients leave: EPOLLONESHOT and the order of the handlers' steps    *)
(* keep every connection in one hand and every event with its connection,  *)
(* and only these two late closes can break that.                          *)
HandsKept == [][InRightHands => InRightHands' \/ \E w \in Workers : LateClose(w)]_vars

(* Clients that send their requests to the end and stay get them answered, *)
(* once their connection is accepted, unless the process ends.             *)
Accepted(c) == \E fd \in Fds : owner[fd] = c
Answered ==
  \A c \in Clients :
    (Accepted(c) /\ want[c] # NONE) ~> (want[c] = NONE \/ ~alive)

(* A connection whose client has left is closed: no descriptor is leaked.  *)
LeftClosed ==
  \A c \in Clients :
    (Accepted(c) /\ link[c] # "open") ~> (link[c] = "gone" \/ ~alive)

(* myevent.cpp:58: "如果是缓冲区为空，表示需要等待数据发送 ... 再退出循环":  *)
(* when the socket has no more data the handler leaves its loop, to be     *)
(* called again when there is some.                                        *)
RecvReturns == \A w \in Workers : pc[w] = "recv" ~> pc[w] # "recv"

(* README.md:44: "当客户端向服务端发起新的请求（事件）时，主线程（主调函数   *)
(* main）就会从线程池中取出一个线程来执行任务": a client that connects is     *)
(* served by a thread of the pool.                                         *)
ConnectionAccepted ==
  \A c \in Clients : link[c] = "open" ~> (Accepted(c) \/ link[c] # "open")

(* myevent.cpp:327: "如果请求处理完成，将该套接字对应的请求删除": only the       *)
(* request that was completed is erased, so that the next one on the same  *)
(* connection is answered too, unless the server closes the connection.    *)
NextRequestAnswered ==
  \A c \in Clients :
    (Accepted(c) /\ want[c] # NONE) ~> (want[c] = NONE \/ link[c] # "open" \/ ~alive)

(* README.md:22: "以HTML页面形式返回服务器指定目录文件夹下的所有文件": a client  *)
(* that asks for the list gets it, however often it was asked for before.  *)
ListAnswered == Answered
=============================================================================
