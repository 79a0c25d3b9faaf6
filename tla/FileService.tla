---------------------------- MODULE FileService ----------------------------
(***************************************************************************)
(* What the workers do to the files in filedir, and to each other through  *)
(* them: HandleSend::process (event/myevent.cpp 344-660) with its resource *)
(* split, its lengths and its counts, getFileListPage and getFileVec, and  *)
(* the saving of an upload in HandleRecv::process (227-296).  Each job is  *)
(* one request on a connection of its own, and every job has a worker, so  *)
(* that any two of their system calls may come in any order.  How a job    *)
(* gets to a worker, and the tables, are the matter of module Reactor.     *)
(*                                                                         *)
(* A file consists of pieces <<writer, number>>; an open file is an inode, *)
(* which stays as long as it is open, whatever becomes of its name.        *)
(***************************************************************************)
EXTENDS Integers, Sequences, FiniteSets, SequencesExt

CONSTANTS
  Jobs,         (* the requests *)
  Names,        (* the names of files *)
  Asks,         (* Asks[j]: what j may be: the GET of a resource, a sequence  *)
                (* of words, or the upload of a name                          *)
  Pieces,       (* how many pieces an upload is received in *)
  MaxSize,      (* the longest file at the start, in pieces *)
  MaxChunk,     (* sendfile sends so much in one call, at most *)
  Descriptors,  (* how many descriptors the process may still open *)
  NONE          (* no inode, no file, no head *)

ASSUME ServiceAssumption ==
  /\ IsFiniteSet(Jobs) /\ IsFiniteSet(Names)
  /\ Pieces \in Nat \ {0} /\ MaxSize \in Nat /\ MaxChunk \in Nat \ {0}
  /\ Descriptors \in Nat
  /\ NONE \notin Jobs \cup Names \cup Nat
  /\ {"/", "download", "delete", "redirect", ".", ".."} \cap Names = {}
  /\ DOMAIN Asks = Jobs

(* A resource is empty or begins with "/", as a browser sends it: the code *)
(* passes over the first character without looking at it.  A word is "/"   *)
(* or the text between two of them.                                        *)
Words == Names \cup {"/", "download", "delete", "redirect", "other"}
Resources == {s \in Seq(Words) : s = <<>> \/ s[1] = "/"}

ASSUME ResourceAssumption == \A j \in Jobs : Asks[j] \subseteq Names \cup Resources

VARIABLES
  alive,     (* FALSE when an exception, a null DIR or SIGPIPE has ended the process *)
  dir,       (* dir[n]: the inode with the name n, or NONE *)
  data,      (* data[i]: the content of inode i *)
  free,      (* how many descriptors are free *)
  pc,        (* pc[j]: the next step of job j *)
  bodyFileName, (* bodyFileName[j]: the resource its Response is to send *)
  upload,    (* upload[j]: the name it uploads and the number of the next piece *)
  file,      (* file[j]: the inode it has open, or NONE *)
  scan,      (* scan[j]: its reading of the directory, or NONE *)
  response,  (* response[j]: the answer that was built, or NONE *)
  original,  (* original[j]: the body the answer was built for *)
  link,      (* link[j]: "up" or "broken" *)
  head, got  (* the head, or NONE, and the body its client has received *)

fileVars == <<dir, data, free>>
answerVars == <<response, original>>
clientVars == <<link, head, got>>
vars == <<alive, fileVars, pc, bodyFileName, upload, file, scan,
          answerVars, clientVars>>

(***************************************************************************)
(* The resource of a GET: "/", or "/operation/file".                       *)
(***************************************************************************)

(* Where the search for a second "/" ends, counted from 0. *)
SearchEnd(s) ==
  LET slashes == {i \in 2..Len(s) : s[i] = "/"} IN
  IF slashes # {} THEN Min(slashes) - 1 ELSE Len(s)

(* Slip: a "/" at the very end counts as one that a file follows. *)
HasFileOrEnds(s) == SearchEnd(s) < Len(s)

(* Something follows the second "/". *)
HasFile(s) == SearchEnd(s) < Len(s) - 1

(* For an empty resource the unsigned size() - 1 wraps round: the branch   *)
(* with a file is taken, and substr(1) of an empty string throws.          *)
Operation(s) ==
  IF s = <<>> THEN "exception"
  ELSE IF s = <<"/">> THEN "list"
  ELSE IF HasFile(s) /\ SubSeq(s, 2, SearchEnd(s)) \in {<<"download">>, <<"delete">>}
    THEN s[2] ELSE "redirect"

FileName(s) == SubSeq(s, SearchEnd(s) + 2, Len(s))

(* The names of files that a resource has: one or none. *)
Named(s) == {n \in Names : FileName(s) = <<n>>}
Existing(s) == {n \in Named(s) : dir[n] # NONE}

redirect == <<"/", "redirect">>

(* getMessageHeader: the fields of a head that a client reads.             *)
MessageHeader(contentLength, contentType) ==
  [contentLength |-> contentLength, contentType |-> contentType]

Response(bodyType, msgBody, length, beforeBodyMsg) ==
  [bodyType |-> bodyType, msgBody |-> msgBody, msgBodyLen |-> length,
   beforeBodyMsg |-> beforeBodyMsg, curStatusHasSendLen |-> 0]

(***************************************************************************)
(* Initially the files have any content, and no request has been handled.  *)
(***************************************************************************)
Files == SetToSeq(Names)
Initial(size) == [i \in 1..size |-> <<NONE, i>>]

Init ==
  /\ alive = TRUE
  /\ \E size \in [Names -> {NONE} \cup 0..MaxSize] :
       /\ dir = [n \in Names |-> IF size[n] = NONE THEN NONE
                                ELSE CHOOSE i \in 1..Len(Files) : Files[i] = n]
       /\ data = [i \in 1..Len(Files) |->
                    IF size[Files[i]] = NONE THEN <<>> ELSE Initial(size[Files[i]])]
  /\ free = Descriptors
  /\ \E job \in {a \in [Jobs -> UNION {Asks[j] : j \in Jobs}] : \A j \in Jobs : a[j] \in Asks[j]} :
       /\ pc = [j \in Jobs |-> IF job[j] \in Names THEN "receive" ELSE "begin"]
       /\ bodyFileName = [j \in Jobs |-> IF job[j] \in Names THEN NONE ELSE job[j]]
       /\ upload = [j \in Jobs |-> IF job[j] \in Names
                                     THEN [name |-> job[j], next |-> 1] ELSE NONE]
  /\ file = [j \in Jobs |-> NONE]
  /\ scan = [j \in Jobs |-> NONE]
  /\ response = [j \in Jobs |-> NONE]
  /\ original = [j \in Jobs |-> <<>>]
  /\ link = [j \in Jobs |-> "up"]
  /\ head = [j \in Jobs |-> NONE]
  /\ got = [j \in Jobs |-> <<>>]

Goto(j, step) == pc' = [pc EXCEPT ![j] = step]

(* The Response of j is replaced by one that redirects, which the next     *)
(* HandleSend event builds.                                                *)
Redirect(j) ==
  /\ bodyFileName' = [bodyFileName EXCEPT ![j] = redirect]
  /\ Goto(j, "begin")

(* The answer of j is built, for the body that its client shall get. *)
Build(j, answer, body) ==
  /\ response' = [response EXCEPT ![j] = answer]
  /\ original' = [original EXCEPT ![j] = body]
  /\ Goto(j, "head")

Begins(j, operation) ==
  pc[j] = "begin" /\ Operation(bodyFileName[j]) = operation

(***************************************************************************)
(* The list: getFileVec reads the directory while others change it.        *)
(* readdir returns every entry that is there all the time, once, and may   *)
(* or may not return one that comes or goes meanwhile.                     *)
(***************************************************************************)
Dots == {".", ".."}
Present(d) == {n \in Names : d[n] # NONE}

(* What the directory d means to those who are reading it. *)
Watched(d) ==
  [j \in Jobs |-> IF pc[j] # "scan" THEN scan[j]
                  ELSE [scan[j] EXCEPT !.always = @ \cap Present(d),
                                       !.ever = @ \cup Present(d)]]

(* opendir takes a descriptor that nothing gives back.  Without one the    *)
(* null DIR is read, and the process ends.                                 *)
OpenDir(j) ==
  /\ Begins(j, "list")
  /\ IF free = 0
       THEN alive' = FALSE /\ UNCHANGED <<free, pc, scan>>
       ELSE /\ free' = free - 1
            /\ scan' = [scan EXCEPT ![j] = [read |-> {}, resVec |-> <<>>,
                          always |-> Present(dir), ever |-> Present(dir)]]
            /\ Goto(j, "scan")
            /\ UNCHANGED alive
  /\ UNCHANGED <<dir, data, bodyFileName, upload, file, answerVars, clientVars>>

ReadDir(j) ==
  /\ pc[j] = "scan"
  /\ \E entry \in (scan[j].ever \cup Dots) \ scan[j].read :
       scan' = [scan EXCEPT ![j].read = @ \cup {entry},
                            ![j].resVec = IF entry \in Dots THEN @ ELSE Append(@, entry)]
  /\ UNCHANGED <<alive, fileVars, pc, bodyFileName, upload, file, answerVars, clientVars>>

(* Slip: the loop ends at an entry that is not to be listed. *)
ReadToDot(s) == s.read \cap Dots # {}

(* readdir has returned null. *)
ReadAll(s) == s.always \cup Dots \subseteq s.read

(* getFileListPage: without a descriptor for html/filelist.html its loop   *)
(* never finds the mark where the list belongs.                            *)
BuildPage(j) ==
  LET page == <<"frame">> \o scan[j].resVec IN
  /\ pc[j] = "scan" /\ ReadAll(scan[j])
  /\ IF free = 0
       THEN Goto(j, "lost") /\ UNCHANGED answerVars
       ELSE Build(j, Response("HTML", page, Len(page),
                              MessageHeader(Len(page), "html")), page)
  /\ UNCHANGED <<alive, fileVars, bodyFileName, upload, file, scan, clientVars>>

(***************************************************************************)
(* The download, the delete and the redirection.                           *)
(***************************************************************************)
OpenFile(j) ==
  /\ Begins(j, "download")
  /\ IF Existing(bodyFileName[j]) = {} \/ free = 0
       THEN Redirect(j) /\ UNCHANGED <<free, file>>
       ELSE /\ \E n \in Existing(bodyFileName[j]) :
                 file' = [file EXCEPT ![j] = dir[n]]
            /\ free' = free - 1
            /\ Goto(j, "stat")
            /\ UNCHANGED bodyFileName
  /\ UNCHANGED <<alive, dir, data, upload, scan, answerVars, clientVars>>

(* The length is the file's at this moment.                                *)
StatFile(j) ==
  LET length == Len(data[file[j]]) IN
  /\ pc[j] = "stat"
  /\ Build(j, Response("FILE", <<>>, length, MessageHeader(length, "file")),
           data[file[j]])
  /\ UNCHANGED <<alive, fileVars, bodyFileName, upload, file, scan, clientVars>>

RemoveFile(j) ==
  /\ Begins(j, "delete")
  /\ dir' = [n \in Names |-> IF n \in Named(bodyFileName[j]) THEN NONE ELSE dir[n]]
  /\ scan' = Watched(dir')
  /\ Redirect(j)
  /\ UNCHANGED <<alive, data, free, upload, file, answerVars, clientVars>>

BuildRedirect(j) ==
  /\ Begins(j, "redirect")
  /\ Build(j, Response("EMPTY", <<>>, 0, MessageHeader(0, "html")), <<>>)
  /\ UNCHANGED <<alive, fileVars, bodyFileName, upload, file, scan, clientVars>>

(* Nothing catches out_of_range. *)
Throw(j) ==
  /\ Begins(j, "exception")
  /\ alive' = FALSE
  /\ UNCHANGED <<fileVars, pc, bodyFileName, upload, file, scan, answerVars, clientVars>>

(***************************************************************************)
(* The sending.                                                            *)
(***************************************************************************)
SendHead(j) ==
  /\ pc[j] = "head" /\ link[j] = "up"
  /\ head' = [head EXCEPT ![j] = response[j].beforeBodyMsg]
  /\ Goto(j, "body")
  /\ UNCHANGED <<alive, fileVars, bodyFileName, upload, file, scan, answerVars, link, got>>

(* Slip: sendfile is asked for all that the file has. *)
ToTheEnd(r, content) == Len(content) - r.curStatusHasSendLen

(* How much send or sendfile is asked for. *)
Rest(r, content) == Min({r.msgBodyLen, Len(content)}) - r.curStatusHasSendLen

(* send on a blocking socket takes all; sendfile takes what it likes, and  *)
(* nothing at the end of the file.                                         *)
Counts(r, content) ==
  LET rest == Rest(r, content) IN
  IF r.bodyType = "HTML" \/ rest <= 0 THEN {Max({rest, 0})} ELSE 1..Min({rest, MaxChunk})

SendBody(j) ==
  LET r == response[j]
      content == IF r.bodyType = "FILE" THEN data[file[j]] ELSE r.msgBody
  IN
  /\ pc[j] = "body" /\ r.bodyType # "EMPTY" /\ link[j] = "up"
  /\ \E sentLen \in Counts(r, content) :
       LET total == r.curStatusHasSendLen + sentLen IN
       /\ response' = [response EXCEPT ![j].curStatusHasSendLen = total]
       /\ got' = [got EXCEPT ![j] =
                    @ \o SubSeq(content, r.curStatusHasSendLen + 1, total)]
       /\ Goto(j, IF total >= r.msgBodyLen THEN "sent" ELSE "body")
  /\ UNCHANGED <<alive, fileVars, bodyFileName, upload, file, scan, original, link, head>>

SendEmpty(j) ==
  /\ pc[j] = "body" /\ response[j].bodyType = "EMPTY"
  /\ Goto(j, "sent")
  /\ UNCHANGED <<alive, fileVars, bodyFileName, upload, file, scan, answerVars, clientVars>>

(* The Response stays in the table, and its file open; or SIGPIPE ends the *)
(* process.                                                                *)
SendFails(j) ==
  /\ pc[j] = "head" \/ (pc[j] = "body" /\ response[j].bodyType # "EMPTY")
  /\ link[j] = "broken"
  /\ alive' \in BOOLEAN
  /\ Goto(j, "failed")
  /\ UNCHANGED <<fileVars, bodyFileName, upload, file, scan, answerVars, clientVars>>

(* Slip: the file is not closed. *)
FinishLeaks(j) ==
  /\ pc[j] = "sent"
  /\ file' = [file EXCEPT ![j] = NONE]
  /\ Goto(j, "done")
  /\ UNCHANGED <<alive, fileVars, bodyFileName, upload, scan, answerVars, clientVars>>

(* Slip: a descriptor is closed whatever the type of the answer. *)
FinishClosesAlways(j) ==
  /\ pc[j] = "sent"
  /\ free' = free + 1
  /\ file' = [file EXCEPT ![j] = NONE]
  /\ Goto(j, "done")
  /\ UNCHANGED <<alive, dir, data, bodyFileName, upload, scan, answerVars, clientVars>>

(* The end of an answer (module Reactor has the table's part in it). *)
Finish(j) ==
  /\ pc[j] = "sent"
  /\ free' = IF file[j] = NONE THEN free ELSE free + 1
  /\ file' = [file EXCEPT ![j] = NONE]
  /\ Goto(j, "done")
  /\ UNCHANGED <<alive, dir, data, bodyFileName, upload, scan, answerVars, clientVars>>

(***************************************************************************)
(* The upload.  Each turn of the handler opens the file anew, for          *)
(* appending, and creates it when there is none.                           *)
(***************************************************************************)

(* Slip: the file is opened without ios::app, which makes it empty. *)
OpenedTruncated(name) ==
  /\ dir' = [dir EXCEPT ![name] = IF @ = NONE THEN Len(data) + 1 ELSE @]
  /\ data' = IF dir[name] = NONE THEN Append(data, <<>>)
             ELSE [data EXCEPT ![dir[name]] = <<>>]

Opened(name) ==
  /\ dir' = [dir EXCEPT ![name] = IF @ = NONE THEN Len(data) + 1 ELSE @]
  /\ data' = IF dir[name] = NONE THEN Append(data, <<>>) ELSE data

(* Without a descriptor the handler gives up, and with it the connection. *)
Receive(j) ==
  /\ pc[j] = "receive"
  /\ IF free = 0
       THEN Goto(j, "stranded") /\ UNCHANGED <<fileVars, file, scan>>
       ELSE /\ Opened(upload[j].name)
            /\ file' = [file EXCEPT ![j] = dir'[upload[j].name]]
            /\ free' = free - 1
            /\ scan' = Watched(dir')
            /\ Goto(j, "write")
  /\ UNCHANGED <<alive, bodyFileName, upload, answerVars, clientVars>>

Write(j) ==
  /\ pc[j] = "write"
  /\ data' = [data EXCEPT ![file[j]] = Append(@, <<j, upload[j].next>>)]
  /\ file' = [file EXCEPT ![j] = NONE]
  /\ free' = free + 1
  /\ upload' = [upload EXCEPT ![j].next = @ + 1]
  /\ IF upload[j].next = Pieces
       THEN Redirect(j)
       ELSE Goto(j, "receive") /\ UNCHANGED bodyFileName
  /\ UNCHANGED <<alive, dir, scan, answerVars, clientVars>>

(* recv returns 0 or an error; what was saved stays. *)
ReceiveLost(j) ==
  /\ pc[j] = "receive" /\ link[j] = "broken"
  /\ Goto(j, "failed")
  /\ UNCHANGED <<alive, fileVars, bodyFileName, upload, file, scan, answerVars, clientVars>>

(* A client goes away before it has its answer. *)
Ended == {"done", "failed", "stranded", "lost"}
Break(j) ==
  /\ link[j] = "up" /\ pc[j] \notin Ended
  /\ link' = [link EXCEPT ![j] = "broken"]
  /\ UNCHANGED <<alive, fileVars, pc, bodyFileName, upload, file, scan, answerVars, head, got>>

SendNext(j) ==
  \/ OpenDir(j) \/ ReadDir(j) \/ BuildPage(j)
  \/ OpenFile(j) \/ StatFile(j) \/ RemoveFile(j) \/ BuildRedirect(j) \/ Throw(j)
  \/ SendHead(j) \/ SendBody(j) \/ SendEmpty(j) \/ SendFails(j) \/ Finish(j)
RecvNext(j) == Receive(j) \/ Write(j) \/ ReceiveLost(j)

Next == alive /\ \E j \in Jobs : SendNext(j) \/ RecvNext(j) \/ Break(j)

Spec == Init /\ [][Next]_vars
-----------------------------------------------------------------------------
(***************************************************************************)
(* Properties.                                                             *)
(***************************************************************************)
Steps == {"begin", "scan", "stat", "head", "body", "sent", "receive", "write"} \cup Ended
PiecesOf(content) == {content[i] : i \in DOMAIN content}

(* A piece of a file; what a body consists of, a file or a page.           *)
Piece == (Jobs \cup {NONE}) \X (1..(MaxSize + Pieces))
Items == Piece \cup Names \cup {"frame"}
Uploads == [name : Names, next : 1..(Pieces + 1)]
Scans == [read : SUBSET (Names \cup Dots), resVec : Seq(Names),
          always : SUBSET Names, ever : SUBSET Names]
Heads == [contentLength : Nat, contentType : {"html", "file"}]
Answers == [bodyType : {"HTML", "FILE", "EMPTY"}, msgBody : Seq(Items), msgBodyLen : Nat,
            beforeBodyMsg : Heads, curStatusHasSendLen : Nat]

ASSUME NoneAssumption == NONE \notin Uploads \cup Scans \cup Heads \cup Answers

(* Every variable keeps its type: a job has an inode open exactly where    *)
(* the code needs one, and a Response from the time it is built.           *)
TypeOK ==
  /\ alive \in BOOLEAN
  /\ data \in Seq(Seq(Piece))
  /\ dir \in [Names -> DOMAIN data \cup {NONE}]
  /\ free \in 0..Descriptors
  /\ pc \in [Jobs -> Steps] /\ link \in [Jobs -> {"up", "broken"}]
  /\ upload \in [Jobs -> Uploads \cup {NONE}]
  /\ file \in [Jobs -> DOMAIN data \cup {NONE}]
  /\ scan \in [Jobs -> Scans \cup {NONE}]
  /\ response \in [Jobs -> Answers \cup {NONE}]
  /\ head \in [Jobs -> Heads \cup {NONE}]
  /\ original \in [Jobs -> Seq(Items)] /\ got \in [Jobs -> Seq(Items)]
  /\ \A j \in Jobs :
       /\ pc[j] \in {"receive", "write"} => upload[j] # NONE /\ upload[j].next <= Pieces
       /\ pc[j] \in {"stat", "write"} => file[j] # NONE
       /\ pc[j] = "scan" => scan[j] # NONE
       /\ pc[j] \in {"head", "body", "sent", "done"} => response[j] # NONE
       /\ pc[j] \in {"head", "body"} /\ response[j].bodyType = "FILE" => file[j] # NONE

(* A download gives its client the file as it was when its length was      *)
(* taken, whatever others upload to it or delete meanwhile; a list gives   *)
(* the page that was built; and the head announces that length.            *)
AnswersWhole ==
  \A j \in Jobs :
    /\ IsPrefix(got[j], original[j])
    /\ head[j] # NONE => head[j].contentLength = Len(original[j])
    /\ pc[j] = "done" => got[j] = original[j]

(* Uploads to one name mix, but lose nothing: each piece that was received *)
(* is in one file, and those of one upload are in order in each file.      *)
IsWritten(j, k) == upload[j] # NONE /\ k < upload[j].next
Places(piece) == {x \in UNION {{i} \X DOMAIN data[i] : i \in DOMAIN data} :
                    data[x[1]][x[2]] = piece}
PiecesKept ==
  /\ \A j \in Jobs : \A k \in 1..Pieces :
       Cardinality(Places(<<j, k>>)) = IF IsWritten(j, k) THEN 1 ELSE 0
  /\ \A i \in DOMAIN data : \A p, q \in DOMAIN data[i] :
       p < q /\ data[i][p][1] = data[i][q][1] => data[i][p][2] < data[i][q][2]

(* A list has each file once that was there while it was made, and none    *)
(* that was not there at any time.                                         *)
ListsFiles ==
  \A j \in Jobs :
    response[j] # NONE /\ response[j].bodyType = "HTML" =>
      LET listed == PiecesOf(scan[j].resVec) IN
      /\ Cardinality(listed) = Len(scan[j].resVec)
      /\ scan[j].always \subseteq listed /\ listed \subseteq scan[j].ever

(* What a descriptor is used up for: the file of a job that is at work on  *)
(* it; and, given back by nobody, the directory of each list that was      *)
(* made (line 722) and the file of each download that could not be sent to *)
(* its end (lines 592 and 647: the failure is recorded in the wrong table, *)
(* and the handler returns without closing, although the comment in line   *)
(* 651 says that the file has to be closed then).  Nothing else takes one  *)
(* for good.  (Module Reactor has what can still become of the file: it is *)
(* closed if another client's connection gets the same number and takes    *)
(* the Response up.)                                                       *)
InUse == {j \in Jobs : file[j] # NONE /\ pc[j] \in {"stat", "head", "body", "sent", "write"}}
ListsMade == {j \in Jobs : scan[j] # NONE}
FailedDownloads ==
  {j \in Jobs : pc[j] = "failed" /\ response[j] # NONE /\ response[j].bodyType = "FILE"}
DescriptorsAccounted ==
  Descriptors - free =
    Cardinality(InUse) + Cardinality(ListsMade) + Cardinality(FailedDownloads)

(* The split of the resource: an operation is carried out if and only if   *)
(* the resource is "/", the operation, "/" and a name that is not empty.   *)
Meant(s) ==
  LET named == {o \in {"download", "delete"} :
                  Len(s) > 3 /\ SubSeq(s, 1, 3) = <<"/", o, "/">>}
  IN CASE s = <<"/">> -> "list" [] named # {} -> CHOOSE o \in named : TRUE
       [] OTHER -> "redirect"
SplitRight ==
  \A j \in Jobs :
    bodyFileName[j] \notin {NONE, <<>>} => Operation(bodyFileName[j]) = Meant(bodyFileName[j])

(* sendfile always has something to send: the file of an answer is never   *)
(* shorter than the length that was announced, so that the sending loop,   *)
(* which would go round for ever otherwise, comes to its end.              *)
NeverPastTheEnd ==
  \A j \in Jobs :
    pc[j] \in {"head", "body"} /\ response[j].bodyType = "FILE" =>
      Len(data[file[j]]) >= response[j].msgBodyLen

(* To its client each job is a delivery as module Delivery specifies it. *)
DeliveryState(j) ==
  CASE link[j] = "broken" -> "broken"
    [] link[j] # "broken" /\ pc[j] = "done" -> "complete"
    [] link[j] # "broken" /\ pc[j] # "done" /\ head[j] # NONE -> "announced"
    [] OTHER -> "asked"
ToClients == INSTANCE Delivery WITH
  length <- [j \in Jobs |-> IF head[j] = NONE THEN 0 ELSE head[j].contentLength],
  received <- [j \in Jobs |-> Len(got[j])],
  state <- [j \in Jobs |-> DeliveryState(j)]
DeliversAnswers == ToClients!Spec
=============================================================================
