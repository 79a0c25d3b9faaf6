--------------------------- MODULE RequestParser ---------------------------
(***************************************************************************)
(* The state machine of HandleRecv::process (event/myevent.cpp 25-342),    *)
(* byte by byte: what one connection's Request and the file it uploads go  *)
(* through while recv returns the bytes of the request in pieces of any    *)
(* length.  Module Reactor has the same handler with whole lines and many  *)
(* connections; here one connection is looked at closely.  It may break    *)
(* off, and the client may then send the request again; and the client may *)
(* send the next request before it has the answer to the one before, so    *)
(* that recv returns bytes of both.                                        *)
(*                                                                         *)
(* A byte that the code compares with nothing is "d".  The others: "r" and *)
(* "n" for CR and LF, and a symbol for each text it looks for: "g" and "p" *)
(* (the request line of a GET, of a POST), "h" (a header), "m" (the header *)
(* multipart/form-data with the boundary), "b" ("--" and the boundary),    *)
(* "e" ("--"), "f" (the header of a part that has filename="...").         *)
(***************************************************************************)
EXTENDS Integers, Sequences, FiniteSets, SequencesExt

CONSTANTS
  Kinds,       (* the kinds of request the client may send *)
  MaxContent,  (* the longest file that is uploaded, in symbols *)
  MaxRepeated, (* the longest that is sent more than once *)
  Attempts,    (* how many times the client sends it, at most *)
  Pipelined    (* whether it may send the next before it has an answer *)

AllKinds == {"get", "form", "upload", "preamble", "unsavable"}

ASSUME ParserAssumption ==
  /\ Kinds \subseteq AllKinds
  /\ MaxContent \in Nat \ {0, 1} /\ MaxRepeated \in Nat /\ Attempts \in Nat \ {0}
  /\ Pipelined \in BOOLEAN

CRLF == <<"r", "n">>
Terminator == CRLF \o <<"b", "e">> \o CRLF

VARIABLES
  kind, content,  (* the client's request and the content of its file *)
  attempt,        (* how many requests the handler has begun with *)
  framed,         (* whether it began where this request begins *)
  ahead,          (* whether the client has sent the next one already *)
  before,         (* the content of the file when this attempt began *)
  file,           (* the content of the file in filedir *)
  rest,           (* the bytes that recv has not returned yet *)
  request,        (* requestStatus[m_clientFd] *)
  bodyFileName,   (* what responseStatus[m_clientFd] is to send, or "" *)
  pc              (* the part of the loop the handler is in *)

clientVars == <<kind, content, attempt, framed, ahead, before>>
vars == <<clientVars, file, rest, request, bodyFileName, pc>>

(* The position of the first t in s from position i on, 0 when there is    *)
(* none: std::string::find.                                                *)
FindFrom(s, t, i) ==
  LET found == {j \in i..(Len(s) - Len(t) + 1) : SubSeq(s, j, j + Len(t) - 1) = t}
  IN IF found = {} THEN 0 ELSE Min(found)
Find(s, t) == FindFrom(s, t, 1)

Header(k) == IF k = "get" THEN <<"g">> \o CRLF \o <<"h">> \o CRLF \o CRLF
             ELSE <<"p">> \o CRLF
                  \o (IF k = "form" THEN <<"h">> ELSE <<"m">>) \o CRLF \o CRLF
PartHead == <<"b">> \o CRLF \o <<"f">> \o CRLF \o <<"h">> \o CRLF \o CRLF
Message(k, data) ==
  CASE k = "get" -> Header(k)
    [] k = "form" -> Header(k) \o <<"d">>
    [] k = "preamble" -> Header(k) \o <<"d">> \o CRLF \o PartHead \o data \o Terminator
    [] OTHER -> Header(k) \o PartHead \o data \o Terminator

(* The files: a client chooses a boundary the content does not contain.    *)
(* The longest begin with a CR and are made of the terminator's bytes.     *)
Texts(bytes, lengths) == UNION {[1..n -> bytes] : n \in lengths}
Contents ==
  {s \in Texts({"r", "n", "b", "e", "d"}, 0..(MaxContent - 2))
        \cup {<<"r">> \o t : t \in Texts({"r", "n", "b", "e"},
                                          {MaxContent - 2, MaxContent - 1})} :
     Find(s \o Terminator, Terminator) = Len(s) + 1}

NewRequest == [status |-> "INIT", method |-> "", multipart |-> FALSE, recvMsg |-> <<>>,
               fileMsgStatus |-> "", recvFileName |-> <<>>]

Init ==
  /\ kind \in Kinds
  /\ content \in (IF kind = "upload" THEN Contents ELSE {<<>>})
  /\ attempt = 1 /\ framed = TRUE /\ ahead = FALSE
  /\ before = <<>> /\ file = <<>>
  /\ rest = Message(kind, content)
  /\ request = NewRequest
  /\ bodyFileName = ""
  /\ pc = "recv"

Goto(step) == pc' = step

(* The line at the front of recvMsg, and the request without it. *)
recvMsg == request.recvMsg
HasLine == Find(recvMsg, CRLF) # 0
Line == SubSeq(recvMsg, 1, Find(recvMsg, CRLF) - 1)
WithoutLine == [request EXCEPT !.recvMsg = SubSeq(@, Find(@, CRLF) + 2, Len(@))]

(* The response is set and the socket re-armed; the loop ends. *)
Complate(resource) ==
  /\ bodyFileName' = resource
  /\ request' = [request EXCEPT !.status = "COMPLATE"]
  /\ Goto("end")

(***************************************************************************)
(* The loop, from one recv to the next.                                    *)
(***************************************************************************)
Recv ==
  /\ pc = "recv"
  /\ \E n \in 1..Len(rest) :
       /\ request' = [request EXCEPT !.recvMsg = @ \o SubSeq(rest, 1, n)]
       /\ rest' = SubSeq(rest, n + 1, Len(rest))
  /\ Goto("line")
  /\ UNCHANGED <<clientVars, file, bodyFileName>>

(* The client is gone and the bytes it had not sent with it: recv returns  *)
(* 0 or an error.                                                          *)
RecvLost ==
  /\ pc = "recv"
  /\ rest' = <<>> /\ ahead' = FALSE
  /\ request' = [request EXCEPT !.status = "ERROR"]
  /\ Goto("end")
  /\ UNCHANGED <<kind, content, attempt, framed, before, file, bodyFileName>>

RequestLine ==
  /\ pc = "line"
  /\ IF request.status = "INIT" /\ HasLine
       THEN request' = [WithoutLine EXCEPT !.status = "HEAD",
                          !.method = CASE Line = <<"g">> -> "GET"
                                       [] Line = <<"p">> -> "POST"
                                       [] OTHER -> "other"]
       ELSE UNCHANGED request
  /\ Goto("head")
  /\ UNCHANGED <<clientVars, file, rest, bodyFileName>>

HeadLine ==
  /\ pc = "head"
  /\ IF request.status = "HEAD" /\ HasLine
       THEN IF Line = <<>>
              THEN /\ request' = [WithoutLine EXCEPT !.status = "BODY",
                        !.fileMsgStatus = IF request.multipart THEN "BEGIN_FLAG" ELSE @]
                   /\ Goto("body")
              ELSE /\ request' = [WithoutLine EXCEPT
                                    !.multipart = @ \/ Line = <<"m">>]
                   /\ UNCHANGED pc
       ELSE Goto("body") /\ UNCHANGED request
  /\ UNCHANGED <<clientVars, file, rest, bodyFileName>>

(* What to do with the body follows from the method and the type; nothing  *)
(* is done with the request of any other method.                           *)
Body ==
  /\ pc = "body"
  /\ \/ /\ request.status # "BODY" \/ request.method = "other"
        /\ Goto("recv")
        /\ UNCHANGED <<request, bodyFileName>>
     \/ /\ request.status = "BODY" /\ request.method = "GET"
        /\ Complate("resource")
     \/ /\ request.status = "BODY" /\ request.method = "POST" /\ ~request.multipart
        /\ Complate("/redirect")
     \/ /\ request.status = "BODY" /\ request.method = "POST" /\ request.multipart
        /\ Goto("flag")
        /\ UNCHANGED <<request, bodyFileName>>
  /\ UNCHANGED <<clientVars, file, rest>>

(* The line before the file's headers has to be the boundary. *)
BeginFlag ==
  /\ pc = "flag"
  /\ IF request.fileMsgStatus = "BEGIN_FLAG" /\ HasLine
       THEN IF Line = <<"b">>
              THEN /\ request' = [WithoutLine EXCEPT !.fileMsgStatus = "FILE_HEAD"]
                   /\ Goto("fileHead")
                   /\ UNCHANGED bodyFileName
              ELSE Complate("redirect")
       ELSE Goto("fileHead") /\ UNCHANGED <<request, bodyFileName>>
  /\ UNCHANGED <<clientVars, file, rest>>

(* One line of the headers of the file. *)
FileHead ==
  /\ pc = "fileHead"
  /\ IF request.fileMsgStatus = "FILE_HEAD" /\ HasLine
       THEN /\ request' =
                 IF Line = <<>> THEN [WithoutLine EXCEPT !.fileMsgStatus = "CONTENT"]
                 ELSE [WithoutLine EXCEPT !.recvFileName =
                         IF Line = <<"f">> THEN Append(@, "f") ELSE @]
            /\ Goto(IF Line = <<>> THEN "open" ELSE "fileHead")
       ELSE Goto("open") /\ UNCHANGED request
  /\ UNCHANGED <<clientVars, file, rest, bodyFileName>>

(* The file is opened for appending; when that fails the loop ends.        *)
Open ==
  /\ pc = "open"
  /\ Goto(CASE request.fileMsgStatus # "CONTENT" -> "recv"
            [] request.fileMsgStatus = "CONTENT" /\ kind = "unsavable" -> "end"
            [] OTHER -> "content")
  /\ UNCHANGED <<clientVars, file, rest, request, bodyFileName>>
(***************************************************************************)
(* The content of the file.  The first CR of what has been received may be *)
(* where the terminator begins.                                            *)
(***************************************************************************)
FirstCR == Find(recvMsg, <<"r">>)
SecondCR == FindFrom(recvMsg, <<"r">>, FirstCR + 1)

(* There are enough bytes from the first CR on to tell. *)
CanTell == Len(recvMsg) - (FirstCR - 1) >= Len(Terminator)

(* Slip: the last line end of the terminator is not compared. *)
AtTerminatorNoCRLF ==
  SubSeq(recvMsg, FirstCR, FirstCR + 3) = SubSeq(Terminator, 1, 4)

AtTerminator ==
  SubSeq(recvMsg, FirstCR, FirstCR + Len(Terminator) - 1) = Terminator

(* Slip: the test for the bytes in front of the terminator is dropped. *)
TerminatorAnywhere == FirstCR # 0 /\ CanTell /\ AtTerminator

AllSaved == FirstCR = 1 /\ CanTell /\ AtTerminator

(* Slip: a CR at the very front is not waited at. *)
WaitWhenEmpty == recvMsg = <<>>

MustWait == recvMsg = <<>> \/ (FirstCR = 1 /\ ~CanTell)

(* Slip: bytes too few to tell are saved like bytes that are no terminator. *)
SaveLenNoTell ==
  CASE FirstCR # 0 /\ CanTell /\ AtTerminator -> FirstCR - 1
    [] FirstCR # 0 /\ ~(CanTell /\ AtTerminator) /\ SecondCR # 0 -> SecondCR - 1
    [] OTHER -> Len(recvMsg)

(* How many bytes are certainly content: up to a CR that may begin the     *)
(* terminator, or, when it does not, up to the one after it.               *)
SaveLen ==
  CASE FirstCR # 0 /\ (~CanTell \/ AtTerminator) -> FirstCR - 1
    [] FirstCR # 0 /\ CanTell /\ ~AtTerminator /\ SecondCR # 0 -> SecondCR - 1
    [] OTHER -> Len(recvMsg)

(* Slip: the bytes are erased before they are written. *)
SaveErased ==
  /\ request' = [request EXCEPT !.recvMsg = SubSeq(@, SaveLen + 1, Len(@))]
  /\ file' = file \o SubSeq(request'.recvMsg, 1, Min({SaveLen, Len(request'.recvMsg)}))

Save ==
  /\ file' = file \o SubSeq(recvMsg, 1, SaveLen)
  /\ request' = [request EXCEPT !.recvMsg = SubSeq(@, SaveLen + 1, Len(@))]

(* One turn of the loop that writes. *)
FileContent ==
  /\ pc = "content"
  /\ \/ /\ MustWait
        /\ Goto("recv")
        /\ UNCHANGED <<file, request>>
     \/ /\ ~MustWait /\ AllSaved
        /\ request' = [request EXCEPT !.fileMsgStatus = "COMPLATE"]
        /\ Goto("fileEnd")
        /\ UNCHANGED file
     \/ /\ ~MustWait /\ ~AllSaved
        /\ Save
        /\ UNCHANGED pc
  /\ UNCHANGED <<clientVars, rest, bodyFileName>>

FileEnd ==
  /\ pc = "fileEnd"
  /\ Complate("/redirect")
  /\ UNCHANGED <<clientVars, file, rest>>

(* Slip: the Request is used again, with its status reset. *)
EndResetsStatus ==
  /\ pc = "end"
  /\ request' = IF request.status \in {"COMPLATE", "ERROR"}
                  THEN [request EXCEPT !.status = "INIT"] ELSE request
  /\ Goto("returned")
  /\ UNCHANGED <<clientVars, file, rest, bodyFileName>>

(* After the loop the Request is erased, unless its file was not opened.   *)
End ==
  /\ pc = "end"
  /\ request' = IF request.status \in {"COMPLATE", "ERROR"} THEN NewRequest ELSE request
  /\ Goto("returned")
  /\ UNCHANGED <<clientVars, file, rest, bodyFileName>>

(* The client sends the next request while the handler is at work.         *)
SendAhead ==
  /\ Pipelined /\ ~ahead /\ attempt < Attempts /\ Len(content) <= MaxRepeated
  /\ pc # "returned" /\ request.status # "ERROR"
  /\ rest' = rest \o Message(kind, content)
  /\ ahead' = TRUE
  /\ UNCHANGED <<kind, content, attempt, framed, before, file, request, bodyFileName, pc>>

(* The handler begins again with what the socket still holds: the bytes of *)
(* the next request that End has not erased, if it was sent ahead; else    *)
(* the client sends it now, behind what is unread of the one before, or    *)
(* over a new connection with the same descriptor if this one was lost.    *)
Again ==
  /\ pc = "returned" /\ attempt < Attempts /\ Len(content) <= MaxRepeated
  /\ request.status # "BODY"
  /\ ahead => rest # <<>>
  /\ attempt' = attempt + 1
  /\ rest' = IF ahead THEN rest ELSE rest \o Message(kind, content)
  /\ framed' = (rest' = Message(kind, content))
  /\ ahead' = FALSE
  /\ before' = file
  /\ bodyFileName' = ""
  /\ Goto("recv")
  /\ UNCHANGED <<kind, content, file, request>>

Handle == Recv \/ RequestLine \/ HeadLine \/ Body \/ BeginFlag \/ FileHead \/ Open
          \/ FileContent \/ FileEnd \/ End

Next == Handle \/ RecvLost \/ SendAhead \/ Again

Spec == Init /\ [][Next]_vars

(* The worker runs, and the client sends what it has to send. *)
FairSpec == Spec /\ WF_vars(Handle)
-----------------------------------------------------------------------------
(***************************************************************************)
(* Properties.                                                             *)
(***************************************************************************)
Bytes == {"r", "n", "g", "p", "h", "m", "b", "e", "f", "d"}

(* Every variable keeps its type; a file has one name, received once. *)
TypeOK ==
  /\ kind \in Kinds /\ content \in Contents /\ attempt \in 1..Attempts
  /\ framed \in BOOLEAN /\ ahead \in BOOLEAN
  /\ before \in Seq(Bytes) /\ file \in Seq(Bytes) /\ rest \in Seq(Bytes)
  /\ request.status \in {"INIT", "HEAD", "BODY", "COMPLATE", "ERROR"}
  /\ request.method \in {"", "GET", "POST", "other"}
  /\ request.multipart \in BOOLEAN
  /\ request.recvMsg \in Seq(Bytes)
  /\ request.fileMsgStatus \in {"", "BEGIN_FLAG", "FILE_HEAD", "CONTENT", "COMPLATE"}
  /\ request.recvFileName \in {<<>>, <<"f">>}
  /\ bodyFileName \in {"", "resource", "redirect", "/redirect"}
  /\ pc \in {"recv", "line", "head", "body", "flag", "fileHead", "open", "content",
             "fileEnd", "end", "returned"}

(* While the content is received no byte is lost, doubled or reordered:    *)
(* what is in the file, in recvMsg and still to come is what was in the    *)
(* file before, the content, the terminator and the next request, if that  *)
(* was sent already.                                                       *)
SentAhead == IF ahead THEN Message(kind, content) ELSE <<>>
Conserved ==
  request.status = "BODY" /\ request.fileMsgStatus = "CONTENT" =>
    file \o recvMsg \o rest = before \o content \o Terminator \o SentAhead

(* However the bytes are cut into pieces, only content is written: never a *)
(* byte of the terminator, although its beginning may look like content    *)
(* and the content may look like its beginning.                            *)
SavesOnlyContent == IsPrefix(file, before \o content)

(* An upload that is answered has all of its content in the file, behind   *)
(* what the file held before.                                              *)
AnsweredIsSaved ==
  kind = "upload" /\ bodyFileName # "" => file = before \o content

(* Requests keep their frame: a GET or an upload that is answered has been *)
(* read to its last byte and no further: what is unread, in recvMsg and in *)
(* the socket, is the next request, if it has been sent, and nothing else; *)
(* and nothing but a whole request is answered.  So the handler always     *)
(* begins where a request begins, if the client waits for its answers; if  *)
(* it does not, what recv (line 38) has returned of the next request is    *)
(* erased with this one (329), although event/myevent.h:7 says that the    *)
(* next event goes on with a message that has not been received whole.  (A *)
(* POST that is redirected for its type or its first line leaves its body  *)
(* unread.)                                                                *)
FrameKept ==
  kind \in {"get", "upload"} =>
    /\ ~Pipelined => framed
    /\ bodyFileName # "" =>
         /\ framed
         /\ pc # "returned" =>
              \E done \in {<<>>, Terminator} : recvMsg \o rest = done \o SentAhead
         /\ pc = "returned" /\ ~ahead => rest = <<>>

(* Every request whose file can be opened and that comes in its frame is   *)
(* answered unless the connection is lost: the loops of the handler end,   *)
(* and it never waits for a byte more when it has all of the request.      *)
Answered ==
  (kind # "unsavable" /\ framed /\ rest # <<>>)
    ~> (bodyFileName # "" \/ request.status = "ERROR")
=============================================================================
