------------------------ MODULE RequestParserProofs ------------------------
(***************************************************************************)
(* Proofs about module RequestParser: at each step of the handler what is  *)
(* unread is a known end of the request, or the handler has lost the frame *)
(* and answers nothing any more.                                           *)
(* All of them are about a client that waits for its answer before it      *)
(* sends the next request (~Pipelined): the steps of one that does not are *)
(* left to TLC, and FrameKept is false of them.                            *)
(***************************************************************************)
EXTENDS RequestParser, SequenceTheorems, WellFoundedInduction, TLAPS

(***************************************************************************)
(* Part 1: the inductive invariant.                                        *)
(***************************************************************************)

(* A request is a list of lines: x is the first, y is what follows it.     *)
Ended(x, y) == x \o (CRLF \o y)

(* What is unread at each place of a request, from its end to its front.   *)
Text == content \o Terminator
Head3 == Ended(<<>>, Text)
Head2 == Ended(<<"h">>, Head3)
Head1 == Ended(<<"f">>, Head2)
Part == Ended(<<"b">>, Head1)
BodyText == CASE kind = "get" -> <<>>
              [] kind = "form" -> <<"d">>
              [] kind = "preamble" -> Ended(<<"d">>, Part)
              [] OTHER -> Part
InParts == kind \notin {"get", "form"}
Asked == IF kind = "get" THEN "GET" ELSE "POST"
FirstLine == IF kind = "get" THEN <<"g">> ELSE <<"p">>
TypeLine == IF InParts THEN <<"m">> ELSE <<"h">>
AfterType == Ended(<<>>, BodyText)
AfterFirst == Ended(TypeLine, AfterType)
Whole == Ended(FirstLine, AfterFirst)

Unread == recvMsg \o rest

(* The bytes no request begins with. *)
Plain == Bytes \ {"g", "p"}

Fields == [status : {"INIT", "HEAD", "BODY", "COMPLATE", "ERROR"},
           method : {"", "GET", "POST", "other"}, multipart : BOOLEAN,
           recvMsg : Seq(Bytes),
           fileMsgStatus : {"", "BEGIN_FLAG", "FILE_HEAD", "CONTENT", "COMPLATE"},
           recvFileName : {<<>>, <<"f">>}]
Types ==
  /\ kind \in Kinds /\ content \in Contents /\ attempt \in 1..Attempts
  /\ framed \in BOOLEAN /\ ahead = FALSE
  /\ before \in Seq(Bytes) /\ file \in Seq(Bytes) /\ rest \in Seq(Bytes)
  /\ request \in Fields
  /\ bodyFileName \in {"", "resource", "redirect", "/redirect"}
  /\ pc \in {"recv", "line", "head", "body", "flag", "fileHead", "open", "content",
             "fileEnd", "end", "returned"}
  /\ kind # "upload" => content = <<>>
  /\ kind \in {"get", "upload"} => framed

(* The places of the handler in the request. *)
NoFile == request.recvFileName = <<>> /\ file = before
InRequestLine ==
  /\ request.status = "INIT" /\ ~request.multipart /\ request.fileMsgStatus = "" /\ NoFile
  /\ Unread = Whole
InHead ==
  /\ request.status = "HEAD" /\ request.method = Asked
  /\ request.fileMsgStatus = "" /\ NoFile
  /\ \/ ~request.multipart /\ Unread = AfterFirst
     \/ request.multipart = InParts /\ Unread = AfterType
AtBody ==
  /\ request.status = "BODY" /\ request.method = Asked /\ request.multipart = InParts
  /\ request.fileMsgStatus = (IF InParts THEN "BEGIN_FLAG" ELSE "") /\ NoFile
  /\ Unread = BodyText
InPart ==
  /\ kind \in {"upload", "unsavable"}
  /\ request.status = "BODY" /\ request.method = "POST" /\ request.multipart
InPartHead ==
  /\ InPart /\ request.fileMsgStatus = "FILE_HEAD" /\ file = before
  /\ \/ request.recvFileName = <<>> /\ Unread = Head1
     \/ request.recvFileName = <<"f">> /\ Unread \in {Head2, Head3}
SavedSome(n) == file = before \o SubSeq(content, 1, n)
Left(n) == SubSeq(content, n + 1, Len(content))
InContent ==
  /\ InPart /\ request.fileMsgStatus = "CONTENT" /\ request.recvFileName = <<"f">>
  /\ \E n \in 0..Len(content) : SavedSome(n) /\ Unread = Left(n) \o Terminator
AtFileEnd ==
  /\ InPart /\ kind = "upload"
  /\ request.fileMsgStatus = "COMPLATE" /\ request.recvFileName = <<"f">>
  /\ file = before \o content /\ recvMsg = Terminator /\ rest = <<>>

(* The handler takes what a redirected POST has left for a request: what   *)
(* it reads first is no request line, and it does nothing with a request   *)
(* of an unknown method.                                                   *)
Astray ==
  /\ kind \notin {"get", "upload"} /\ NoFile
  /\ \/ /\ request.status = "INIT" /\ ~request.multipart /\ request.fileMsgStatus = ""
        /\ Unread # <<>> /\ Unread[1] \in Plain
     \/ /\ request.status \in {"HEAD", "BODY"} /\ request.method = "other"
        /\ request.fileMsgStatus \in {"", "BEGIN_FLAG"}

(* What is left when the loop has ended: nothing, or plain bytes.          *)
Remainder ==
  /\ rest \in Seq(Plain)
  /\ kind \in {"get", "upload"} => rest = <<>> /\ recvMsg \in {<<>>, Terminator}
Over ==
  /\ request.status = "COMPLATE" => bodyFileName # "" /\ Remainder
  /\ request.status = "ERROR" => bodyFileName = "" /\ rest = <<>>

OnTheWay == InRequestLine \/ InHead \/ AtBody \/ InPartHead \/ InContent \/ Astray
Place ==
  /\ pc \notin {"end", "returned"} => bodyFileName = ""
  /\ pc \in {"recv", "line", "head", "body"} => OnTheWay
  /\ pc \in {"flag", "fileHead", "open"} => InParts /\ (AtBody \/ InPartHead \/ InContent)
  /\ pc = "content" => kind = "upload" /\ InContent
  /\ pc = "fileEnd" => AtFileEnd
  /\ pc = "end" =>
       \/ request.status \in {"COMPLATE", "ERROR"} /\ Over
       \/ kind = "unsavable" /\ bodyFileName = "" /\ InContent
  /\ pc = "returned" =>
       \/ request = NewRequest /\ Remainder
       \/ kind = "unsavable" /\ bodyFileName = "" /\ InContent

Saved ==
  /\ \E n \in 0..Len(content) : SavedSome(n)
  /\ AnsweredIsSaved

Inv == Types /\ Place /\ Saved
-----------------------------------------------------------------------------
(***************************************************************************)
(* Part 2: searching and cutting.                                          *)
(***************************************************************************)
LEMMA LeastNumber ==
  ASSUME NEW S \in SUBSET Nat, S # {}
  PROVE  Min(S) \in S /\ \A y \in S : Min(S) <= y
<1>1. IsWellFoundedOn(OpToRel(<, Nat), Nat)
  BY NatLessThanWellFounded
<1>2. PICK x \in S : \A y \in S : <<y, x>> \notin OpToRel(<, Nat)
  BY <1>1, WFMin
<1>3. \A y \in S : ~(y < x)
  BY <1>2 DEF OpToRel
<1>4. \A y \in S : x <= y
  BY <1>3
<1> QED BY <1>4 DEF Min

(* What a search from i on returns: the first occurrence, or 0.            *)
Occurs(s, t, j) == SubSeq(s, j, j + Len(t) - 1) = t
IsFirst(p, s, t, i) ==
  /\ p \in Nat
  /\ p # 0 => /\ p \in i..(Len(s) - Len(t) + 1)
              /\ Occurs(s, t, p)
  /\ \A j \in i..(Len(s) - Len(t) + 1) : Occurs(s, t, j) => p # 0 /\ p <= j

LEMMA FindFirst ==
  ASSUME NEW s, NEW t, NEW i \in Nat \ {0}, Len(s) \in Nat, Len(t) \in Nat
  PROVE  IsFirst(FindFrom(s, t, i), s, t, i)
<1> DEFINE found == {j \in i..(Len(s) - Len(t) + 1) : Occurs(s, t, j)}
           p == FindFrom(s, t, i)
<1>1. p = IF found = {} THEN 0 ELSE Min(found)
  BY DEF FindFrom, Occurs
<1>2. found \in SUBSET Nat
  OBVIOUS
<1>3. \A j \in i..(Len(s) - Len(t) + 1) : Occurs(s, t, j) <=> j \in found
  OBVIOUS
<1>4. \A j \in found : j \in i..(Len(s) - Len(t) + 1) /\ j # 0
  OBVIOUS
<1> HIDE DEF found, p
<1>5. CASE found = {}
  BY <1>1, <1>3, <1>5 DEF IsFirst, p
<1>6. CASE found # {}
  <2>1. p \in found /\ \A j \in found : p <= j
    BY <1>1, <1>2, <1>6, LeastNumber
  <2> QED BY <2>1, <1>2, <1>3, <1>4 DEF IsFirst, p
<1> QED BY <1>5, <1>6

(* The same, symbol by symbol, for the two texts that are searched for.    *)
LEMMA FindCR ==
  ASSUME NEW m \in Seq(Bytes), NEW i \in Nat \ {0}, NEW p, p = FindFrom(m, <<"r">>, i)
  PROVE  /\ p \in Nat
         /\ p # 0 => p \in i..Len(m) /\ m[p] = "r"
         /\ \A j \in i..Len(m) : m[j] = "r" => p # 0 /\ p <= j
<1>1. Len(m) \in Nat /\ Len(<<"r">>) = 1
  BY LenProperties
<1>2. ASSUME NEW j \in 1..Len(m) PROVE SubSeq(m, j, j + 1 - 1) = <<"r">> <=> m[j] = "r"
  <2>1. /\ SubSeq(m, j, j) \in Seq(Bytes) /\ Len(SubSeq(m, j, j)) = 1
        /\ SubSeq(m, j, j)[1] = m[j]
    BY <1>1, SubSeqProperties, ElementOfSeq
  <2>2. <<"r">> \in Seq(Bytes) /\ <<"r">>[1] = "r"
    BY DEF Bytes
  <2>3. m[j] = "r" => SubSeq(m, j, j) = <<"r">>
    <3> HAVE m[j] = "r"
    <3>1. \A k \in 1..Len(SubSeq(m, j, j)) : SubSeq(m, j, j)[k] = <<"r">>[k]
      BY <2>1, <2>2
    <3> QED BY <2>1, <2>2, <3>1, <1>1, SeqEqual
  <2>4. j + 1 - 1 = j
    OBVIOUS
  <2> QED BY <2>1, <2>2, <2>3, <2>4
<1>3. IsFirst(p, m, <<"r">>, i)
  BY <1>1, FindFirst
<1>4. \A j \in 1..Len(m) : Occurs(m, <<"r">>, j) <=> m[j] = "r"
  BY <1>1, <1>2 DEF Occurs
<1>5. Len(m) - Len(<<"r">>) + 1 = Len(m)
  BY <1>1
<1> QED BY <1>1, <1>3, <1>4, <1>5 DEF IsFirst

LEMMA FindLineEnd ==
  ASSUME NEW m \in Seq(Bytes), NEW p, p = Find(m, CRLF)
  PROVE  /\ p \in Nat
         /\ p # 0 => p \in 1..(Len(m) - 1) /\ m[p] = "r" /\ m[p + 1] = "n"
         /\ \A j \in 1..(Len(m) - 1) : m[j] = "r" /\ m[j + 1] = "n" => p # 0 /\ p <= j
<1>1. Len(m) \in Nat /\ Len(CRLF) = 2
  BY LenProperties DEF CRLF
<1>2. ASSUME NEW j \in 1..(Len(m) - 1)
      PROVE  SubSeq(m, j, j + 2 - 1) = CRLF <=> m[j] = "r" /\ m[j + 1] = "n"
  <2>0. \A i \in j..(j + 1) : m[i] \in Bytes
    BY <1>1, ElementOfSeq
  <2>1. /\ SubSeq(m, j, j + 1) \in Seq(Bytes) /\ Len(SubSeq(m, j, j + 1)) = 2
        /\ SubSeq(m, j, j + 1)[1] = m[j] /\ SubSeq(m, j, j + 1)[2] = m[j + 1]
    BY <1>1, <2>0, SubSeqProperties
  <2>2. CRLF \in Seq(Bytes) /\ CRLF[1] = "r" /\ CRLF[2] = "n"
    BY DEF Bytes, CRLF
  <2>3. m[j] = "r" /\ m[j + 1] = "n" => SubSeq(m, j, j + 1) = CRLF
    <3> HAVE m[j] = "r" /\ m[j + 1] = "n"
    <3>1. \A i \in 1..Len(SubSeq(m, j, j + 1)) : SubSeq(m, j, j + 1)[i] = CRLF[i]
      BY <2>1, <2>2
    <3> QED BY <2>1, <2>2, <3>1, <1>1, SeqEqual
  <2>4. j + 2 - 1 = j + 1
    OBVIOUS
  <2> QED BY <2>1, <2>2, <2>3, <2>4, <1>1
<1>3. IsFirst(p, m, CRLF, 1)
  BY <1>1, FindFirst DEF Find
<1>4. \A j \in 1..(Len(m) - 1) : Occurs(m, CRLF, j) <=> m[j] = "r" /\ m[j + 1] = "n"
  BY <1>1, <1>2 DEF Occurs
<1>5. Len(m) - Len(CRLF) + 1 = Len(m) - 1
  BY <1>1
<1> QED BY <1>1, <1>3, <1>4, <1>5 DEF IsFirst

LEMMA EndedSymbols ==
  ASSUME NEW x \in Seq(Bytes), NEW y \in Seq(Bytes)
  PROVE  LET u == Ended(x, y) IN
         /\ u \in Seq(Bytes) /\ Len(u) = Len(x) + 2 + Len(y)
         /\ \A i \in 1..Len(x) : u[i] = x[i]
         /\ u[Len(x) + 1] = "r" /\ u[Len(x) + 2] = "n"
         /\ \A i \in 1..Len(y) : u[Len(x) + 2 + i] = y[i]
<1>1. /\ CRLF \in Seq(Bytes) /\ Len(CRLF) = 2 /\ CRLF[1] = "r" /\ CRLF[2] = "n"
      /\ Len(x) \in Nat /\ Len(y) \in Nat
  BY LenProperties DEF CRLF, Bytes
<1> DEFINE v == CRLF \o y
           u == Ended(x, y)
<1>2. /\ v \in Seq(Bytes) /\ Len(v) = 2 + Len(y)
      /\ \A i \in 1..(2 + Len(y)) : v[i] = IF i <= 2 THEN CRLF[i] ELSE y[i - 2]
  <2>1. /\ v \in Seq(Bytes) /\ Len(v) = Len(CRLF) + Len(y)
        /\ \A i \in 1..(Len(CRLF) + Len(y)) :
             v[i] = IF i <= Len(CRLF) THEN CRLF[i] ELSE y[i - Len(CRLF)]
    BY <1>1, ConcatProperties
  <2> HIDE DEF v
  <2> QED BY <2>1, <1>1
<1> HIDE DEF v, u
<1>3. /\ u \in Seq(Bytes) /\ Len(u) = Len(x) + Len(v)
      /\ \A i \in 1..(Len(x) + Len(v)) : u[i] = IF i <= Len(x) THEN x[i] ELSE v[i - Len(x)]
  BY <1>2, ConcatProperties DEF Ended, v, u
<1>4. v[1] = "r" /\ v[2] = "n" /\ \A i \in 1..Len(y) : v[2 + i] = y[i]
  <2>1. 1 \in 1..(2 + Len(y)) /\ 2 \in 1..(2 + Len(y))
    BY <1>1
  <2>2. \A i \in 1..Len(y) : 2 + i \in 1..(2 + Len(y)) /\ ~(2 + i <= 2) /\ 2 + i - 2 = i
    BY <1>1
  <2> QED BY <1>1, <1>2, <2>1, <2>2
<1>5. \A i \in 1..Len(v) : u[Len(x) + i] = v[i]
  <2>1. \A i \in 1..Len(v) : /\ Len(x) + i \in 1..(Len(x) + Len(v))
                             /\ ~(Len(x) + i <= Len(x)) /\ Len(x) + i - Len(x) = i
    BY <1>1, <1>2
  <2> QED BY <1>3, <2>1
<1>6. \A i \in 1..Len(y) : 2 + i \in 1..Len(v) /\ Len(x) + 2 + i = Len(x) + (2 + i)
  BY <1>1, <1>2
<1>7. \A i \in 1..Len(y) : u[Len(x) + 2 + i] = y[i]
  BY <1>4, <1>5, <1>6
<1>8. u[Len(x) + 1] = "r" /\ u[Len(x) + 2] = "n"
  BY <1>1, <1>2, <1>4, <1>5
<1>9. \A i \in 1..Len(x) : u[i] = x[i]
  BY <1>1, <1>2, <1>3
<1> QED BY <1>1, <1>2, <1>3, <1>7, <1>8, <1>9 DEF u

(* What is received and what is not: cutting a piece off the front.        *)
LEMMA CutFront ==
  ASSUME NEW m \in Seq(Bytes), NEW z \in Seq(Bytes), NEW n \in 0..Len(m)
  PROVE  /\ SubSeq(m, 1, n) \in Seq(Bytes) /\ Len(SubSeq(m, 1, n)) = n
         /\ \A i \in 1..n : SubSeq(m, 1, n)[i] = m[i]
         /\ SubSeq(m, n + 1, Len(m)) \in Seq(Bytes)
         /\ SubSeq(m, n + 1, Len(m)) \o z \in Seq(Bytes)
         /\ Len(SubSeq(m, n + 1, Len(m)) \o z) = Len(m \o z) - n
         /\ \A i \in 1..(Len(m \o z) - n) :
              (SubSeq(m, n + 1, Len(m)) \o z)[i] = (m \o z)[n + i]
<1>1. Len(m) \in Nat /\ Len(z) \in Nat /\ \A i \in 1..Len(m) : m[i] \in Bytes
  BY LenProperties, ElementOfSeq
<1>2. /\ SubSeq(m, 1, n) \in Seq(Bytes) /\ Len(SubSeq(m, 1, n)) = n
      /\ \A i \in 1..n : SubSeq(m, 1, n)[i] = m[i]
  <2>1. \A i \in 1..n : m[i] \in Bytes
    BY <1>1
  <2>2. /\ SubSeq(m, 1, n) \in Seq(Bytes)
        /\ Len(SubSeq(m, 1, n)) = IF 1 <= n THEN n - 1 + 1 ELSE 0
        /\ \A i \in 1..(n - 1 + 1) : SubSeq(m, 1, n)[i] = m[1 + i - 1]
    BY <2>1, <1>1, SubSeqProperties
  <2> QED BY <2>2, <1>1
<1> DEFINE t == SubSeq(m, n + 1, Len(m))
<1>3. /\ t \in Seq(Bytes) /\ Len(t) = Len(m) - n
      /\ \A i \in 1..(Len(m) - n) : t[i] = m[n + i]
  <2>1. \A i \in (n + 1)..Len(m) : m[i] \in Bytes
    BY <1>1
  <2>2. /\ t \in Seq(Bytes)
        /\ Len(t) = IF n + 1 <= Len(m) THEN Len(m) - (n + 1) + 1 ELSE 0
        /\ \A i \in 1..(Len(m) - (n + 1) + 1) : t[i] = m[n + 1 + i - 1]
    BY <2>1, <1>1, SubSeqProperties
  <2> HIDE DEF t
  <2>3. Len(t) = Len(m) - n
    BY <2>2, <1>1
  <2>4. \A i \in 1..(Len(m) - n) :
          i \in 1..(Len(m) - (n + 1) + 1) /\ n + 1 + i - 1 = n + i
    BY <1>1
  <2> QED BY <2>2, <2>3, <2>4
<1> HIDE DEF t
<1>4. /\ t \o z \in Seq(Bytes) /\ Len(t \o z) = Len(t) + Len(z)
      /\ \A i \in 1..(Len(t) + Len(z)) :
           (t \o z)[i] = IF i <= Len(t) THEN t[i] ELSE z[i - Len(t)]
  BY <1>3, ConcatProperties
<1>5. /\ Len(m \o z) = Len(m) + Len(z)
      /\ \A i \in 1..(Len(m) + Len(z)) :
           (m \o z)[i] = IF i <= Len(m) THEN m[i] ELSE z[i - Len(m)]
  BY ConcatProperties
<1>6. ASSUME NEW i \in 1..(Len(m \o z) - n) PROVE (t \o z)[i] = (m \o z)[n + i]
  <2>1. i \in 1..(Len(t) + Len(z)) /\ n + i \in 1..(Len(m) + Len(z))
    BY <1>1, <1>3, <1>5
  <2>2. CASE i <= Len(t)
    BY <2>1, <2>2, <1>1, <1>3, <1>4, <1>5
  <2>3. CASE ~(i <= Len(t))
    <3>1. ~(n + i <= Len(m)) /\ n + i - Len(m) = i - Len(t)
      BY <2>1, <2>3, <1>1, <1>3
    <3> QED BY <3>1, <2>1, <2>3, <1>4, <1>5
  <2> QED BY <2>2, <2>3
<1>7. Len(t \o z) = Len(m \o z) - n
  BY <1>1, <1>3, <1>4, <1>5
<1> QED BY <1>2, <1>3, <1>4, <1>6, <1>7 DEF t

(* When what is unread begins with the line x, and a line end has been     *)
(* received, the code finds the line x, and y is what remains.             *)
LEMMA TakeLine ==
  ASSUME NEW m \in Seq(Bytes), NEW z \in Seq(Bytes), NEW x \in Seq(Bytes), NEW y \in Seq(Bytes),
         \A i \in 1..Len(x) : x[i] # "r",
         m \o z = Ended(x, y),
         Find(m, CRLF) # 0
  PROVE  LET p == Find(m, CRLF) IN
         /\ SubSeq(m, 1, p - 1) = x
         /\ SubSeq(m, p + 2, Len(m)) \in Seq(Bytes)
         /\ SubSeq(m, p + 2, Len(m)) \o z = y
<1> DEFINE u == m \o z
           p == Find(m, CRLF)
<1>1. /\ Len(m) \in Nat /\ Len(z) \in Nat /\ Len(x) \in Nat /\ Len(y) \in Nat
  BY LenProperties
<1>2. /\ Len(u) = Len(m) + Len(z)
      /\ \A i \in 1..Len(m) : u[i] = m[i]
  BY <1>1, ConcatProperties
<1>3. /\ Len(u) = Len(x) + 2 + Len(y)
      /\ \A i \in 1..Len(x) : u[i] = x[i]
      /\ u[Len(x) + 1] = "r" /\ u[Len(x) + 2] = "n"
      /\ \A i \in 1..Len(y) : u[Len(x) + 2 + i] = y[i]
  <2>1. u = Ended(x, y)
    OBVIOUS
  <2>2. /\ Len(Ended(x, y)) = Len(x) + 2 + Len(y)
        /\ \A i \in 1..Len(x) : Ended(x, y)[i] = x[i]
        /\ Ended(x, y)[Len(x) + 1] = "r" /\ Ended(x, y)[Len(x) + 2] = "n"
        /\ \A i \in 1..Len(y) : Ended(x, y)[Len(x) + 2 + i] = y[i]
    BY EndedSymbols
  <2> HIDE DEF u
  <2> QED BY <2>1, <2>2
<1>4. /\ p \in 1..(Len(m) - 1) /\ m[p] = "r"
      /\ \A j \in 1..(Len(m) - 1) : m[j] = "r" /\ m[j + 1] = "n" => p <= j
  BY FindLineEnd
<1> HIDE DEF u, p
<1>5. p = Len(x) + 1
  <2>1. p >= Len(x) + 1
    <3>1. SUFFICES ASSUME p <= Len(x) PROVE FALSE
      BY <1>1, <1>4
    <3>2. p \in 1..Len(x) /\ p \in 1..Len(m)
      BY <3>1, <1>1, <1>4
    <3>3. u[p] = "r" /\ u[p] = x[p]
      BY <3>2, <1>2, <1>3, <1>4
    <3> QED BY <3>2, <3>3
  <2>2. Len(x) + 1 \in 1..(Len(m) - 1) /\ Len(x) + 1 \in 1..Len(m) /\ Len(x) + 2 \in 1..Len(m)
    BY <2>1, <1>1, <1>4
  <2>3. m[Len(x) + 1] = "r" /\ m[Len(x) + 2] = "n" /\ Len(x) + 2 = Len(x) + 1 + 1
    BY <2>2, <1>1, <1>2, <1>3
  <2>4. p <= Len(x) + 1
    BY <2>2, <2>3, <1>4
  <2> QED BY <2>1, <2>4, <1>1, <1>4
<1>6. SubSeq(m, 1, p - 1) = x
  <2>1. p - 1 = Len(x) /\ Len(x) \in 0..Len(m)
    BY <1>1, <1>4, <1>5
  <2>2. /\ SubSeq(m, 1, Len(x)) \in Seq(Bytes) /\ Len(SubSeq(m, 1, Len(x))) = Len(x)
        /\ \A i \in 1..Len(x) : SubSeq(m, 1, Len(x))[i] = m[i]
    BY <2>1, CutFront
  <2>3. \A i \in 1..Len(SubSeq(m, 1, Len(x))) : SubSeq(m, 1, Len(x))[i] = x[i]
    BY <2>1, <2>2, <1>1, <1>2, <1>3
  <2>4. SubSeq(m, 1, Len(x)) = x
    BY <2>2, <2>3, SeqEqual
  <2> QED BY <2>1, <2>4
<1>7. /\ SubSeq(m, p + 2, Len(m)) \in Seq(Bytes)
      /\ SubSeq(m, p + 2, Len(m)) \o z = y
  <2> DEFINE n == Len(x) + 2
             t == SubSeq(m, n + 1, Len(m))
  <2>1. n \in 0..Len(m) /\ p + 2 = n + 1 /\ Len(u) - n = Len(y)
    BY <1>1, <1>3, <1>4, <1>5
  <2>2. /\ t \in Seq(Bytes) /\ t \o z \in Seq(Bytes)
        /\ Len(t \o z) = Len(u) - n
        /\ \A i \in 1..(Len(u) - n) : (t \o z)[i] = u[n + i]
    <3>1. n \in 0..Len(m)
      BY <2>1
    <3> HIDE DEF n
    <3>2. /\ SubSeq(m, n + 1, Len(m)) \in Seq(Bytes) /\ SubSeq(m, n + 1, Len(m)) \o z \in Seq(Bytes)
          /\ Len(SubSeq(m, n + 1, Len(m)) \o z) = Len(m \o z) - n
          /\ \A i \in 1..(Len(m \o z) - n) :
               (SubSeq(m, n + 1, Len(m)) \o z)[i] = (m \o z)[n + i]
      BY <3>1, CutFront
    <3> QED BY <3>2 DEF u, t
  <2>3. \A i \in 1..Len(y) : u[n + i] = y[i]
    BY <1>3
  <2> HIDE DEF n, t
  <2>4. Len(t \o z) = Len(y) /\ \A i \in 1..Len(t \o z) : (t \o z)[i] = y[i]
    BY <2>1, <2>2, <2>3
  <2>5. t \o z = y
    BY <2>2, <2>4, SeqEqual
  <2> QED BY <2>1, <2>2, <2>5 DEF t
<1> QED BY <1>6, <1>7 DEF p

-----------------------------------------------------------------------------
(***************************************************************************)
(* Part 3: the content and its terminator.                                 *)
(***************************************************************************)
LEMMA TerminatorSymbols ==
  /\ Terminator \in Seq(Bytes) /\ Len(Terminator) = 6
  /\ Terminator = <<"r", "n", "b", "e", "r", "n">>
<1> DEFINE be == <<"b", "e">>
           be2 == be \o CRLF
           t == <<"r", "n", "b", "e", "r", "n">>
<1>1. /\ CRLF \in Seq(Bytes) /\ Len(CRLF) = 2 /\ CRLF[1] = "r" /\ CRLF[2] = "n"
      /\ be \in Seq(Bytes) /\ Len(be) = 2 /\ be[1] = "b" /\ be[2] = "e"
      /\ t \in Seq(Bytes) /\ Len(t) = 6
      /\ t[1] = "r" /\ t[2] = "n" /\ t[3] = "b" /\ t[4] = "e" /\ t[5] = "r" /\ t[6] = "n"
  BY DEF CRLF, Bytes
<1> HIDE DEF be, t
<1> DEFINE u == CRLF \o be
<1>2. /\ u \in Seq(Bytes) /\ Len(u) = 4
      /\ u[1] = "r" /\ u[2] = "n" /\ u[3] = "b" /\ u[4] = "e"
  <2>1. /\ u \in Seq(Bytes) /\ Len(u) = Len(CRLF) + Len(be)
        /\ \A i \in 1..(Len(CRLF) + Len(be)) :
             u[i] = IF i <= Len(CRLF) THEN CRLF[i] ELSE be[i - Len(CRLF)]
    BY <1>1, ConcatProperties
  <2> HIDE DEF u
  <2> QED BY <1>1, <2>1
<1> HIDE DEF u
<1> DEFINE v == u \o CRLF
<1>3. /\ v \in Seq(Bytes) /\ Len(v) = 6
      /\ v[1] = "r" /\ v[2] = "n" /\ v[3] = "b" /\ v[4] = "e" /\ v[5] = "r" /\ v[6] = "n"
  <2>1. /\ v \in Seq(Bytes) /\ Len(v) = Len(u) + Len(CRLF)
        /\ \A i \in 1..(Len(u) + Len(CRLF)) :
             v[i] = IF i <= Len(u) THEN u[i] ELSE CRLF[i - Len(u)]
    BY <1>1, <1>2, ConcatProperties
  <2> HIDE DEF v
  <2> QED BY <1>1, <1>2, <2>1
<1>4. v = Terminator
  BY <1>1, ConcatAssociative DEF Terminator, u, be
<1> HIDE DEF v
<1>5. \A i \in 1..Len(v) : v[i] = t[i]
  <2>1. \A i \in 1..6 : i = 1 \/ i = 2 \/ i = 3 \/ i = 4 \/ i = 5 \/ i = 6
    OBVIOUS
  <2> QED BY <2>1, <1>1, <1>3
<1>6. v = t
  BY <1>1, <1>3, <1>5, SeqEqual
<1> QED BY <1>1, <1>4, <1>6 DEF t

(* A content is a text that does not contain the terminator.               *)
LEMMA ContentIsText ==
  ASSUME NEW c \in Contents
  PROVE  /\ c \in Seq(Bytes)
         /\ \A j \in 1..Len(c) : SubSeq(c \o Terminator, j, j + 5) # Terminator
<1>1. c \in Seq(Bytes)
  <2>1. \A B \in SUBSET Bytes, N \in SUBSET Nat : Texts(B, N) \subseteq Seq(Bytes)
    BY DEF Texts
  <2>2. /\ {"r", "n", "b", "e", "d"} \in SUBSET Bytes /\ {"r", "n", "b", "e"} \in SUBSET Bytes
        /\ <<"r">> \in Seq(Bytes)
    BY DEF Bytes
  <2>3. 0..(MaxContent - 2) \in SUBSET Nat /\ {MaxContent - 2, MaxContent - 1} \in SUBSET Nat
    BY ParserAssumption
  <2>4. CASE c \in Texts({"r", "n", "b", "e", "d"}, 0..(MaxContent - 2))
    BY <2>1, <2>2, <2>3, <2>4
  <2>5. ASSUME NEW t \in Texts({"r", "n", "b", "e"}, {MaxContent - 2, MaxContent - 1}),
               c = <<"r">> \o t
        PROVE  c \in Seq(Bytes)
    <3>1. t \in Seq(Bytes)
      BY <2>1, <2>2, <2>3
    <3> QED BY <2>2, <2>5, <3>1, ConcatProperties
  <2> QED BY <2>4, <2>5 DEF Contents
<1> DEFINE u == c \o Terminator
<1>2. /\ Len(c) \in Nat /\ Len(Terminator) = 6 /\ Len(u) = Len(c) + 6
  BY <1>1, TerminatorSymbols, ConcatProperties, LenProperties
<1>3. FindFrom(u, Terminator, 1) = Len(c) + 1
  BY DEF Contents, Find
<1> HIDE DEF u
<1>4. IsFirst(Len(c) + 1, u, Terminator, 1)
  BY <1>2, <1>3, FindFirst
<1>5. ASSUME NEW j \in 1..Len(c), SubSeq(u, j, j + 5) = Terminator PROVE FALSE
  <2>1. /\ j \in 1..(Len(u) - Len(Terminator) + 1) /\ ~(Len(c) + 1 <= j)
        /\ j + Len(Terminator) - 1 = j + 5
    BY <1>2
  <2> QED BY <2>1, <1>4, <1>5 DEF IsFirst, Occurs
<1> QED BY <1>1, <1>5 DEF u

LEMMA EmptyContent == <<>> \in Contents
<1>1. <<>> \in Texts({"r", "n", "b", "e", "d"}, 0..(MaxContent - 2))
  <2>1. 0 \in 0..(MaxContent - 2)
    BY ParserAssumption
  <2>2. <<>> \in [1..0 -> {"r", "n", "b", "e", "d"}]
    OBVIOUS
  <2> QED BY <2>1, <2>2 DEF Texts
<1>2. <<>> \o Terminator = Terminator /\ Len(Terminator) = 6 /\ Len(<<>>) = 0
  BY TerminatorSymbols, ConcatEmptySeq
<1> DEFINE p == Find(Terminator, Terminator)
<1>3. IsFirst(p, Terminator, Terminator, 1)
  BY <1>2, FindFirst DEF Find
<1>4. Occurs(Terminator, Terminator, 1)
  <2>1. Terminator \in Seq(Bytes)
    BY TerminatorSymbols
  <2>2. SubSeq(Terminator, 1, Len(Terminator)) = Terminator
    BY <2>1, SubSeqFull
  <2> QED BY <1>2, <2>2 DEF Occurs
<1> HIDE DEF p
<1>5. p # 0 /\ p <= 1 /\ p \in Nat
  BY <1>2, <1>3, <1>4 DEF IsFirst
<1>6. p = Len(<<>>) + 1
  BY <1>2, <1>5
<1> QED BY <1>1, <1>2, <1>6 DEF Contents, p

(* A turn of the writing loop saves content and nothing else: of the       *)
(* content c that is left it takes at most all, and it finds the           *)
(* terminator only behind it.                                              *)
LEMMA SavesContent ==
  ASSUME recvMsg \in Seq(Bytes), rest \in Seq(Bytes), NEW c \in Seq(Bytes),
         recvMsg \o rest = c \o Terminator,
         ~MustWait, ~AllSaved
  PROVE  SaveLen \in 0..Len(c) /\ SaveLen <= Len(recvMsg)
<1> DEFINE m == recvMsg
           L == Len(c)
           F == FirstCR
           S == SecondCR
           u == m \o rest
<1>1. /\ Len(m) \in Nat /\ Len(rest) \in Nat /\ L \in Nat
      /\ Terminator \in Seq(Bytes) /\ Len(Terminator) = 6
  BY LenProperties, TerminatorSymbols
<1>2. /\ u \in Seq(Bytes) /\ Len(u) = Len(m) + Len(rest)
      /\ \A i \in 1..Len(m) : u[i] = m[i]
  BY <1>1, ConcatProperties
<1>3. /\ Len(u) = L + 6
      /\ \A i \in 1..6 : u[L + i] = Terminator[i]
  <2>1. /\ Len(c \o Terminator) = Len(c) + Len(Terminator)
        /\ \A i \in 1..(Len(c) + Len(Terminator)) :
             (c \o Terminator)[i] = IF i <= Len(c) THEN c[i] ELSE Terminator[i - Len(c)]
    BY <1>1, ConcatProperties
  <2>2. \A i \in 1..6 : /\ L + i \in 1..(Len(c) + Len(Terminator))
                        /\ ~(L + i <= Len(c)) /\ L + i - Len(c) = i
    BY <1>1
  <2> QED BY <2>1, <2>2, <1>1
<1>4. /\ F \in Nat
      /\ F # 0 => F \in 1..Len(m) /\ m[F] = "r"
      /\ \A j \in 1..Len(m) : m[j] = "r" => F # 0 /\ F <= j
  BY FindCR DEF FirstCR, Find
<1>5. /\ S \in Nat
      /\ S # 0 => S \in (F + 1)..Len(m) /\ m[S] = "r"
      /\ \A j \in (F + 1)..Len(m) : m[j] = "r" => S # 0 /\ S <= j
  <2>1. F + 1 \in Nat \ {0}
    BY <1>4
  <2> QED BY <2>1, FindCR DEF SecondCR
<1>6. CanTell <=> Len(m) - (F - 1) >= 6
  BY <1>1 DEF CanTell
<1>7. AtTerminator <=> SubSeq(m, F, F + 5) = Terminator
  <2>1. F + 6 - 1 = F + 5
    BY <1>4
  <2> QED BY <1>1, <2>1 DEF AtTerminator
<1>8. /\ F # 0 /\ (~CanTell \/ AtTerminator) => SaveLen = F - 1
      /\ F # 0 /\ CanTell /\ ~AtTerminator /\ S # 0 => SaveLen = S - 1
      /\ F = 0 => SaveLen = Len(m)
      /\ F # 0 /\ CanTell /\ ~AtTerminator /\ S = 0 => SaveLen = Len(m)
  BY DEF SaveLen
<1> HIDE DEF m, L, F, S, u
<1>9. L + 1 \in 1..Len(m) => m[L + 1] = "r"
  <2>1. Terminator[1] = "r"
    BY TerminatorSymbols
  <2> QED BY <2>1, <1>1, <1>2, <1>3
<1>10. ASSUME F = L + 1, CanTell PROVE AtTerminator
  <2>1. /\ \A i \in F..(F + 5) : i \in 1..Len(m)
        /\ \A i \in 1..6 : F + i - 1 \in 1..Len(m) /\ F + i - 1 = L + i
    BY <1>10, <1>1, <1>4, <1>6
  <2>2. \A i \in F..(F + 5) : m[i] \in Bytes
    BY <2>1, ElementOfSeq DEF m
  <2>3. /\ SubSeq(m, F, F + 5) \in Seq(Bytes) /\ Len(SubSeq(m, F, F + 5)) = 6
        /\ \A i \in 1..6 : SubSeq(m, F, F + 5)[i] = m[F + i - 1]
    <3>1. /\ SubSeq(m, F, F + 5) \in Seq(Bytes)
          /\ Len(SubSeq(m, F, F + 5)) = IF F <= F + 5 THEN F + 5 - F + 1 ELSE 0
          /\ \A i \in 1..(F + 5 - F + 1) : SubSeq(m, F, F + 5)[i] = m[F + i - 1]
      BY <2>2, <1>4, SubSeqProperties
    <3>2. F + 5 - F + 1 = 6 /\ F <= F + 5
      BY <1>4
    <3> QED BY <3>1, <3>2
  <2>4. \A i \in 1..6 : m[F + i - 1] = Terminator[i]
    BY <2>1, <1>2, <1>3
  <2>5. \A i \in 1..Len(SubSeq(m, F, F + 5)) : SubSeq(m, F, F + 5)[i] = Terminator[i]
    BY <2>3, <2>4
  <2>6. SubSeq(m, F, F + 5) = Terminator
    BY <1>1, <2>3, <2>5, SeqEqual
  <2> QED BY <1>7, <2>6
<1>11. CASE F = 0
  BY <1>11, <1>1, <1>4, <1>8, <1>9 DEF L, m
<1>12. CASE F # 0 /\ (~CanTell \/ AtTerminator)
  <2>1. F <= L + 1
    BY <1>12, <1>1, <1>4, <1>9
  <2> QED BY <2>1, <1>12, <1>1, <1>4, <1>8 DEF L, m
<1>13. CASE F # 0 /\ CanTell /\ ~AtTerminator
  <2>1. L + 1 \in 1..Len(m) => L + 1 \in (F + 1)..Len(m)
    BY <1>13, <1>1, <1>4, <1>9, <1>10
  <2>2. CASE S # 0
    <3>1. S <= L + 1 /\ S \in 1..Len(m)
      BY <2>1, <2>2, <1>13, <1>1, <1>4, <1>5, <1>9
    <3> QED BY <3>1, <1>13, <2>2, <1>1, <1>8 DEF L, m
  <2>3. CASE S = 0
    <3>1. Len(m) <= L
      BY <2>1, <2>3, <1>1, <1>5, <1>9
    <3> QED BY <3>1, <1>13, <2>3, <1>1, <1>8 DEF L, m
  <2> QED BY <2>2, <2>3
<1> QED BY <1>11, <1>12, <1>13 DEF L, m

LEMMA FindsTerminator ==
  ASSUME recvMsg \in Seq(Bytes), rest \in Seq(Bytes), NEW c \in Seq(Bytes),
         recvMsg \o rest = c \o Terminator,
         c # <<>> => SubSeq(c \o Terminator, 1, 6) # Terminator,
         AllSaved
  PROVE  c = <<>> /\ recvMsg = Terminator /\ rest = <<>>
<1> DEFINE m == recvMsg
           u == m \o rest
<1>1. /\ Len(m) \in Nat /\ Len(rest) \in Nat /\ Len(c) \in Nat
      /\ Terminator \in Seq(Bytes) /\ Len(Terminator) = 6
  BY LenProperties, TerminatorSymbols
<1>2. Len(m) >= 6 /\ SubSeq(m, 1, 6) = Terminator
  <2>1. FirstCR = 1 /\ Len(m) - (FirstCR - 1) >= Len(Terminator)
        /\ SubSeq(m, FirstCR, FirstCR + Len(Terminator) - 1) = Terminator
    BY DEF AllSaved, CanTell, AtTerminator
  <2> QED BY <1>1, <2>1
<1>3. SubSeq(u, 1, 6) = SubSeq(m, 1, 6)
  <2>1. 1 \in 1..Len(m) /\ 6 \in 1..Len(m)
    BY <1>1, <1>2
  <2> QED BY <2>1, SubSeqOfConcat1
<1>4. c = <<>>
  BY <1>2, <1>3
<1>5. u = Terminator
  BY <1>1, <1>4, ConcatEmptySeq
<1>6. Len(u) = Len(m) + Len(rest)
  BY ConcatProperties
<1>7. Len(m) = 6 /\ Len(rest) = 0
  <2> HIDE DEF m, u
  <2>1. Len(u) = 6
    BY <1>1, <1>5
  <2> DEFINE a == Len(m)
             b == Len(rest)
  <2>2. a \in Nat /\ b \in Nat /\ a >= 6 /\ a + b = 6
    BY <2>1, <1>1, <1>2, <1>6
  <2> HIDE DEF a, b
  <2>3. a = 6 /\ b = 0
    BY <2>2
  <2> QED BY <2>3 DEF a, b
<1>8. rest = <<>>
  BY <1>7, EmptySeq
<1>9. m = Terminator
  BY <1>2, <1>7, SubSeqFull
<1> QED BY <1>4, <1>8, <1>9

(* The same piece is cut off the front of what is unread and of the        *)
(* content it begins with.                                                 *)
LEMMA CutsContent ==
  ASSUME NEW m \in Seq(Bytes), NEW z \in Seq(Bytes), NEW c \in Seq(Bytes),
         m \o z = c \o Terminator,
         NEW k \in 0..Len(c), k <= Len(m)
  PROVE  /\ SubSeq(m, 1, k) = SubSeq(c, 1, k)
         /\ SubSeq(m, k + 1, Len(m)) \in Seq(Bytes)
         /\ SubSeq(m, k + 1, Len(m)) \o z = SubSeq(c, k + 1, Len(c)) \o Terminator
<1>1. /\ Len(m) \in Nat /\ Len(c) \in Nat /\ k \in 0..Len(m)
      /\ Terminator \in Seq(Bytes)
  BY LenProperties, TerminatorSymbols
<1> DEFINE u == m \o z
           tm == SubSeq(m, k + 1, Len(m)) \o z
           tc == SubSeq(c, k + 1, Len(c)) \o Terminator
<1>2. /\ SubSeq(m, 1, k) \in Seq(Bytes) /\ Len(SubSeq(m, 1, k)) = k
      /\ \A i \in 1..k : SubSeq(m, 1, k)[i] = m[i]
      /\ SubSeq(m, k + 1, Len(m)) \in Seq(Bytes)
      /\ tm \in Seq(Bytes) /\ Len(tm) = Len(u) - k
      /\ \A i \in 1..(Len(u) - k) : tm[i] = u[k + i]
  BY <1>1, CutFront
<1>3. /\ SubSeq(c, 1, k) \in Seq(Bytes) /\ Len(SubSeq(c, 1, k)) = k
      /\ \A i \in 1..k : SubSeq(c, 1, k)[i] = c[i]
      /\ tc \in Seq(Bytes) /\ Len(tc) = Len(u) - k
      /\ \A i \in 1..(Len(u) - k) : tc[i] = u[k + i]
  <2> DEFINE w == c \o Terminator
  <2>1. /\ SubSeq(c, 1, k) \in Seq(Bytes) /\ Len(SubSeq(c, 1, k)) = k
        /\ \A i \in 1..k : SubSeq(c, 1, k)[i] = c[i]
        /\ tc \in Seq(Bytes) /\ Len(tc) = Len(w) - k
        /\ \A i \in 1..(Len(w) - k) : tc[i] = w[k + i]
    BY <1>1, CutFront
  <2>2. w = u
    OBVIOUS
  <2> HIDE DEF w, u, tc
  <2> QED BY <2>1, <2>2
<1>4. \A i \in 1..k : m[i] = c[i]
  <2>1. /\ \A i \in 1..(Len(m) + Len(z)) : u[i] = IF i <= Len(m) THEN m[i] ELSE z[i - Len(m)]
        /\ \A i \in 1..(Len(c) + Len(Terminator)) :
             u[i] = IF i <= Len(c) THEN c[i] ELSE Terminator[i - Len(c)]
        /\ Len(z) \in Nat /\ Len(Terminator) \in Nat
    BY <1>1, ConcatProperties, LenProperties
  <2> HIDE DEF u
  <2>2. \A i \in 1..k : /\ i \in 1..(Len(m) + Len(z)) /\ i <= Len(m)
                        /\ i \in 1..(Len(c) + Len(Terminator)) /\ i <= Len(c)
    BY <1>1, <2>1
  <2> QED BY <2>1, <2>2
<1> HIDE DEF u, tm, tc
<1>5. tm = tc
  <2>1. Len(tm) = Len(tc) /\ \A i \in 1..Len(tm) : tm[i] = tc[i]
    BY <1>2, <1>3
  <2> QED BY <2>1, <1>2, <1>3, SeqEqual
<1>6. SubSeq(m, 1, k) = SubSeq(c, 1, k)
  <2>1. \A i \in 1..Len(SubSeq(m, 1, k)) : SubSeq(m, 1, k)[i] = SubSeq(c, 1, k)[i]
    BY <1>2, <1>3, <1>4
  <2> QED BY <2>1, <1>2, <1>3, SeqEqual
<1> QED BY <1>2, <1>5, <1>6 DEF tm, tc

(* What is left of the content when n symbols are saved.                   *)
LEMMA LeftOver ==
  ASSUME content \in Contents, NEW n \in 0..Len(content)
  PROVE  /\ Left(n) \in Seq(Bytes) /\ Len(Left(n)) = Len(content) - n
         /\ Left(n) # <<>> => SubSeq(Left(n) \o Terminator, 1, 6) # Terminator
         /\ \A k \in 0..Len(Left(n)) :
              /\ n + k \in 0..Len(content)
              /\ SubSeq(content, 1, n) \o SubSeq(Left(n), 1, k) = SubSeq(content, 1, n + k)
              /\ SubSeq(Left(n), k + 1, Len(Left(n))) = Left(n + k)
<1> DEFINE c == content
           u == c \o Terminator
           v == Left(n) \o Terminator
<1>1. /\ c \in Seq(Bytes) /\ Len(c) \in Nat
      /\ Terminator \in Seq(Bytes) /\ Len(Terminator) = 6
      /\ \A i \in 1..Len(c) : c[i] \in Bytes
  BY ContentIsText, TerminatorSymbols, LenProperties, ElementOfSeq
<1>2. /\ Left(n) \in Seq(Bytes) /\ v \in Seq(Bytes) /\ Len(v) = Len(u) - n
      /\ \A i \in 1..(Len(u) - n) : v[i] = u[n + i]
      /\ SubSeq(c, 1, n) \in Seq(Bytes) /\ Len(SubSeq(c, 1, n)) = n
      /\ \A i \in 1..n : SubSeq(c, 1, n)[i] = c[i]
  <2>1. /\ SubSeq(c, n + 1, Len(c)) \in Seq(Bytes)
        /\ SubSeq(c, n + 1, Len(c)) \o Terminator \in Seq(Bytes)
        /\ Len(SubSeq(c, n + 1, Len(c)) \o Terminator) = Len(u) - n
        /\ \A i \in 1..(Len(u) - n) :
             (SubSeq(c, n + 1, Len(c)) \o Terminator)[i] = u[n + i]
    BY <1>1, CutFront
  <2>2. /\ SubSeq(c, 1, n) \in Seq(Bytes) /\ Len(SubSeq(c, 1, n)) = n
        /\ \A i \in 1..n : SubSeq(c, 1, n)[i] = c[i]
    BY <1>1, CutFront
  <2>3. Left(n) = SubSeq(c, n + 1, Len(c))
    BY DEF Left
  <2> HIDE DEF u
  <2> QED BY <2>1, <2>2, <2>3
<1>3. /\ Len(Left(n)) = Len(c) - n
      /\ \A i \in 1..(Len(c) - n) : Left(n)[i] = c[n + i]
  <2>1. \A i \in (n + 1)..Len(c) : c[i] \in Bytes
    BY <1>1
  <2>2. /\ Len(Left(n)) = IF n + 1 <= Len(c) THEN Len(c) - (n + 1) + 1 ELSE 0
        /\ \A i \in 1..(Len(c) - (n + 1) + 1) : Left(n)[i] = c[n + 1 + i - 1]
    BY <1>1, <2>1, SubSeqProperties DEF Left
  <2>3. /\ Len(c) - (n + 1) + 1 = Len(c) - n
        /\ \A i \in 1..(Len(c) - n) : n + 1 + i - 1 = n + i
    BY <1>1
  <2>4. Len(Left(n)) = Len(c) - n
    BY <1>1, <2>2
  <2> QED BY <2>2, <2>3, <2>4
<1>4. ASSUME Left(n) # <<>> PROVE SubSeq(v, 1, 6) # Terminator
  <2>1. Len(c) - n >= 1
    BY <1>1, <1>2, <1>3, <1>4, EmptySeq
  <2>2. SubSeq(u, n + 1, n + 6) # Terminator
    <3>1. n + 1 \in 1..Len(c) /\ n + 1 + 5 = n + 6
      BY <1>1, <2>1
    <3>2. \A j \in 1..Len(c) : SubSeq(u, j, j + 5) # Terminator
      BY ContentIsText
    <3> HIDE DEF u
    <3>3. SubSeq(u, n + 1, n + 1 + 5) # Terminator
      BY <3>1, <3>2
    <3> QED BY <3>1, <3>3
  <2>3. Len(u) = Len(c) + 6 /\ u \in Seq(Bytes)
    <3>1. Len(u) = Len(c) + Len(Terminator) /\ u \in Seq(Bytes)
      BY <1>1, ConcatProperties
    <3> HIDE DEF u
    <3> QED BY <3>1, <1>1
  <2> HIDE DEF u, v
  <2>4. /\ SubSeq(v, 1, 6) \in Seq(Bytes) /\ Len(SubSeq(v, 1, 6)) = 6
        /\ \A i \in 1..6 : SubSeq(v, 1, 6)[i] = v[i]
    <3>1. \A i \in 1..6 : v[i] \in Bytes
      BY <1>1, <1>2, <2>1, <2>3, ElementOfSeq
    <3> QED BY <3>1, SubSeqProperties
  <2>5. /\ SubSeq(u, n + 1, n + 6) \in Seq(Bytes) /\ Len(SubSeq(u, n + 1, n + 6)) = 6
        /\ \A i \in 1..6 : SubSeq(u, n + 1, n + 6)[i] = u[n + i]
    <3>1. \A i \in (n + 1)..(n + 6) : u[i] \in Bytes
      BY <1>1, <2>1, <2>3, ElementOfSeq
    <3>2. /\ SubSeq(u, n + 1, n + 6) \in Seq(Bytes)
          /\ Len(SubSeq(u, n + 1, n + 6)) = IF n + 1 <= n + 6 THEN n + 6 - (n + 1) + 1 ELSE 0
          /\ \A i \in 1..(n + 6 - (n + 1) + 1) : SubSeq(u, n + 1, n + 6)[i] = u[n + 1 + i - 1]
      BY <3>1, SubSeqProperties
    <3>3. n + 6 - (n + 1) + 1 = 6 /\ n + 1 <= n + 6 /\ \A i \in 1..6 : n + 1 + i - 1 = n + i
      OBVIOUS
    <3> QED BY <3>2, <3>3
  <2>6. \A i \in 1..6 : v[i] = u[n + i]
    <3>1. \A i \in 1..6 : i \in 1..(Len(u) - n)
      BY <1>1, <2>1, <2>3
    <3> QED BY <3>1, <1>2
  <2>7. \A i \in 1..Len(SubSeq(v, 1, 6)) : SubSeq(v, 1, 6)[i] = SubSeq(u, n + 1, n + 6)[i]
    BY <2>4, <2>5, <2>6
  <2>8. SubSeq(v, 1, 6) = SubSeq(u, n + 1, n + 6)
    BY <2>4, <2>5, <2>7, SeqEqual
  <2> QED BY <2>2, <2>8
<1>5. ASSUME NEW k \in 0..Len(Left(n))
      PROVE  /\ n + k \in 0..Len(content)
             /\ SubSeq(content, 1, n) \o SubSeq(Left(n), 1, k) = SubSeq(content, 1, n + k)
             /\ SubSeq(Left(n), k + 1, Len(Left(n))) = Left(n + k)
  <2>1. n + k \in 0..Len(c) /\ k \in 0..(Len(c) - n) /\ n + k \in n..Len(c)
    BY <1>1, <1>3
  <2>2. SubSeq(Left(n), 1, k) = SubSeq(c, n + 1, n + k)
    <3>1. /\ SubSeq(Left(n), 1, k) \in Seq(Bytes) /\ Len(SubSeq(Left(n), 1, k)) = k
          /\ \A i \in 1..k : SubSeq(Left(n), 1, k)[i] = Left(n)[i]
      BY <1>2, <1>1, CutFront
    <3>2. /\ SubSeq(c, n + 1, n + k) \in Seq(Bytes) /\ Len(SubSeq(c, n + 1, n + k)) = k
          /\ \A i \in 1..k : SubSeq(c, n + 1, n + k)[i] = c[n + i]
      <4>1. \A i \in (n + 1)..(n + k) : c[i] \in Bytes
        BY <1>1, <2>1
      <4>2. /\ SubSeq(c, n + 1, n + k) \in Seq(Bytes)
            /\ Len(SubSeq(c, n + 1, n + k)) = IF n + 1 <= n + k THEN n + k - (n + 1) + 1 ELSE 0
            /\ \A i \in 1..(n + k - (n + 1) + 1) : SubSeq(c, n + 1, n + k)[i] = c[n + 1 + i - 1]
        BY <2>1, <4>1, SubSeqProperties
      <4>3. /\ n + k - (n + 1) + 1 = k /\ (n + 1 <= n + k <=> k # 0)
            /\ \A i \in 1..k : n + 1 + i - 1 = n + i
        BY <2>1
      <4> QED BY <4>2, <4>3
    <3>3. \A i \in 1..Len(SubSeq(Left(n), 1, k)) :
             SubSeq(Left(n), 1, k)[i] = SubSeq(c, n + 1, n + k)[i]
      <4>1. \A i \in 1..k : i \in 1..(Len(c) - n)
        BY <2>1, <1>1
      <4> QED BY <4>1, <3>1, <3>2, <1>3
    <3> QED BY <3>1, <3>2, <3>3, SeqEqual
  <2>3. SubSeq(c, 1, n) \o SubSeq(c, n + 1, n + k) = SubSeq(c, 1, n + k)
    <3>1. 1 \in 1..(Len(c) + 1) /\ n \in (1 - 1)..Len(c)
      BY <1>1
    <3> QED BY <3>1, <2>1, <1>1, ConcatAdjacentSubSeq
  <2>4. SubSeq(Left(n), k + 1, Len(Left(n))) = Left(n + k)
    <3> DEFINE s == SubSeq(Left(n), k + 1, Len(Left(n)))
               t == Left(n + k)
    <3>1. /\ s \in Seq(Bytes) /\ s \o <<>> = s /\ t \in Seq(Bytes) /\ t \o <<>> = t
          /\ Left(n) \o <<>> = Left(n) /\ c \o <<>> = c /\ <<>> \in Seq(Bytes)
      <4>1. s \in Seq(Bytes) /\ t \in Seq(Bytes) /\ <<>> \in Seq(Bytes)
        BY <1>1, <1>2, <2>1, CutFront, EmptySeq DEF Left
      <4> QED BY <4>1, <1>1, <1>2, ConcatEmptySeq
    <3>2. /\ Len(s) = Len(Left(n)) - k
          /\ \A i \in 1..(Len(Left(n)) - k) : s[i] = Left(n)[k + i]
      BY <3>1, <1>2, CutFront
    <3>3. Len(t) = Len(c) - (n + k) /\ \A i \in 1..(Len(c) - (n + k)) : t[i] = c[n + k + i]
      BY <3>1, <1>1, <2>1, CutFront DEF Left
    <3> HIDE DEF s, t
    <3>4. \A i \in 1..Len(s) : s[i] = t[i]
      <4> TAKE i \in 1..Len(s)
      <4>1. /\ i \in 1..(Len(Left(n)) - k) /\ i \in 1..(Len(c) - (n + k))
            /\ k + i \in 1..(Len(c) - n) /\ n + (k + i) = n + k + i
        BY <2>1, <3>2, <1>1, <1>3
      <4> QED BY <4>1, <3>2, <3>3, <1>3
    <3>5. Len(s) = Len(t)
      BY <2>1, <3>2, <3>3, <1>1, <1>3
    <3>6. s = t
      BY <3>1, <3>4, <3>5, SeqEqual
    <3> QED BY <3>6 DEF s, t
  <2> QED BY <2>1, <2>2, <2>3, <2>4
<1> QED BY <1>2, <1>3, <1>4, <1>5

-----------------------------------------------------------------------------
(***************************************************************************)
(* Part 4: the lines of a request.                                         *)
(***************************************************************************)
Lines == {<<>>, <<"g">>, <<"p">>, <<"h">>, <<"m">>, <<"d">>, <<"b">>, <<"f">>}

LEMMA LineSymbols ==
  ASSUME NEW x \in Lines
  PROVE  x \in Seq(Bytes) /\ \A i \in 1..Len(x) : x[i] # "r"
<1>1. CASE x = <<>>
  BY <1>1
<1>2. ASSUME NEW d \in Bytes, d # "r", x = <<d>>
      PROVE  x \in Seq(Bytes) /\ \A i \in 1..Len(x) : x[i] # "r"
  BY <1>2
<1> QED BY <1>1, <1>2 DEF Lines, Bytes

LEMMA Associates ==
  \A s, t, u \in Seq(Bytes) : (s \o t) \o u = s \o (t \o u)
BY ConcatAssociative

LEMMA EndedType ==
  ASSUME NEW S, {"r", "n"} \subseteq S, NEW x \in Seq(S), NEW y \in Seq(S)
  PROVE  Ended(x, y) \in Seq(S)
<1>1. CRLF \in Seq(S)
  BY DEF CRLF
<1> QED BY <1>1, ConcatProperties DEF Ended

LEMMA EndedConcat ==
  ASSUME NEW x \in Seq(Bytes), NEW y \in Seq(Bytes), NEW w \in Seq(Bytes)
  PROVE  Ended(x, y) \o w = Ended(x, y \o w)
<1>1. CRLF \in Seq(Bytes)
  BY DEF CRLF, Bytes
<1>2. CRLF \o y \in Seq(Bytes)
  BY <1>1, ConcatProperties
<1>3. (x \o (CRLF \o y)) \o w = x \o ((CRLF \o y) \o w)
  BY <1>2, Associates
<1>4. (CRLF \o y) \o w = CRLF \o (y \o w)
  BY <1>1, Associates
<1> QED BY <1>3, <1>4 DEF Ended

LEMMA EmptyLine ==
  ASSUME NEW y \in Seq(Bytes)
  PROVE  CRLF \o y = Ended(<<>>, y)
<1>1. CRLF \in Seq(Bytes)
  BY DEF CRLF, Bytes
<1>2. CRLF \o y \in Seq(Bytes)
  BY <1>1, ConcatProperties
<1> QED BY <1>2, ConcatEmptySeq DEF Ended

(* Two lines and an empty one, as Message puts them together.              *)
LEMMA TwoLines ==
  ASSUME NEW x \in Seq(Bytes), NEW y \in Seq(Bytes)
  PROVE  x \o CRLF \o y \o CRLF \o CRLF = Ended(x, Ended(y, CRLF))
<1> DEFINE C == CRLF
<1>1. C \in Seq(Bytes)
  BY DEF CRLF, Bytes
<1> HIDE DEF C
<1>2. C \o C \in Seq(Bytes) /\ C \o y \in Seq(Bytes) /\ y \o C \in Seq(Bytes)
      /\ x \o C \in Seq(Bytes)
  BY <1>1, ConcatProperties
<1>3. y \o (C \o C) \in Seq(Bytes)
  BY <1>1, <1>2, ConcatProperties
<1>4. C \o (y \o (C \o C)) \in Seq(Bytes) /\ (x \o C) \o y \in Seq(Bytes)
  BY <1>1, <1>2, <1>3, ConcatProperties
<1>5. (((x \o C) \o y) \o C) \o C = ((x \o C) \o y) \o (C \o C)
  BY <1>1, <1>4, Associates
<1>6. ((x \o C) \o y) \o (C \o C) = (x \o C) \o (y \o (C \o C))
  BY <1>2, Associates
<1>7. (x \o C) \o (y \o (C \o C)) = x \o (C \o (y \o (C \o C)))
  BY <1>1, <1>3, Associates
<1> QED BY <1>5, <1>6, <1>7 DEF Ended, C

LEMMA PartHeadLines ==
  ASSUME NEW w \in Seq(Bytes)
  PROVE  /\ PartHead \in Seq(Bytes)
         /\ PartHead \o w = Ended(<<"b">>, Ended(<<"f">>, Ended(<<"h">>, Ended(<<>>, w))))
<1> DEFINE b == <<"b">>
           f == <<"f">>
           h == <<"h">>
<1>1. b \in Seq(Bytes) /\ f \in Seq(Bytes) /\ h \in Seq(Bytes) /\ CRLF \in Seq(Bytes)
      /\ {"r", "n"} \subseteq Bytes
  BY DEF Bytes, CRLF
<1>2. PartHead = ((b \o CRLF) \o f) \o CRLF \o h \o CRLF \o CRLF
  BY DEF PartHead
<1> HIDE DEF b, f, h
<1> DEFINE E == Ended(h, CRLF)
<1>3. E \in Seq(Bytes) /\ Ended(f, E) \in Seq(Bytes) /\ (b \o CRLF) \o f \in Seq(Bytes)
      /\ b \o CRLF \in Seq(Bytes) /\ CRLF \o E \in Seq(Bytes) /\ Ended(b, Ended(f, E)) \in Seq(Bytes)
  BY <1>1, EndedType, ConcatProperties
<1>4. PartHead = Ended((b \o CRLF) \o f, E)
  BY <1>1, <1>2, <1>3, TwoLines
<1> HIDE DEF E
<1>5. ((b \o CRLF) \o f) \o (CRLF \o E) = (b \o CRLF) \o (f \o (CRLF \o E))
  <2> DEFINE bc == b \o CRLF
             ce == CRLF \o E
  <2>1. bc \in Seq(Bytes) /\ f \in Seq(Bytes) /\ ce \in Seq(Bytes)
    BY <1>1, <1>3
  <2> HIDE DEF bc, ce
  <2>2. (bc \o f) \o ce = bc \o (f \o ce)
    BY <2>1, Associates
  <2> QED BY <2>2 DEF bc, ce
<1>6. f \o (CRLF \o E) = Ended(f, E)
  BY DEF Ended
<1>7. (b \o CRLF) \o Ended(f, E) = b \o (CRLF \o Ended(f, E))
  <2>1. b \in Seq(Bytes) /\ CRLF \in Seq(Bytes) /\ Ended(f, E) \in Seq(Bytes)
    BY <1>1, <1>3
  <2> QED BY <2>1, Associates
<1>8. PartHead = Ended(b, Ended(f, E))
  BY <1>4, <1>5, <1>6, <1>7 DEF Ended
<1>9. PartHead \o w = Ended(b, Ended(f, E \o w))
  <2> DEFINE fe == Ended(f, E)
  <2>0. b \in Seq(Bytes) /\ f \in Seq(Bytes) /\ E \in Seq(Bytes) /\ fe \in Seq(Bytes)
    BY <1>1, <1>3
  <2>2. Ended(f, E) \o w = Ended(f, E \o w)
    BY <2>0, EndedConcat
  <2> HIDE DEF fe
  <2>3. Ended(b, fe) \o w = Ended(b, fe \o w)
    <3>1. b \in Seq(Bytes) /\ fe \in Seq(Bytes)
      BY <2>0
    <3> QED BY <3>1, EndedConcat
  <2>1. Ended(b, Ended(f, E)) \o w = Ended(b, Ended(f, E) \o w)
    BY <2>3 DEF fe
  <2> QED BY <2>1, <2>2, <1>8
<1>10. E \o w = Ended(h, Ended(<<>>, w))
  <2>1. E \o w = Ended(h, CRLF \o w)
    BY <1>1, EndedConcat DEF E
  <2> QED BY <2>1, EmptyLine
<1> QED BY <1>3, <1>8, <1>9, <1>10 DEF b, f, h

(* A request is its two lines, an empty one, and its body.                 *)
LEMMA HeaderLines ==
  ASSUME NEW w \in Seq(Bytes)
  PROVE  /\ Header(kind) \in Seq(Bytes)
         /\ Header(kind) \o w = Ended(FirstLine, Ended(TypeLine, Ended(<<>>, w)))
<1> DEFINE x == FirstLine
           y == TypeLine
<1>1. x \in Seq(Bytes) /\ y \in Seq(Bytes) /\ CRLF \in Seq(Bytes) /\ {"r", "n"} \subseteq Bytes
  <2>1. /\ <<"g">> \in Seq(Bytes) /\ <<"p">> \in Seq(Bytes) /\ <<"h">> \in Seq(Bytes)
        /\ <<"m">> \in Seq(Bytes) /\ CRLF \in Seq(Bytes) /\ {"r", "n"} \subseteq Bytes
    BY DEF Bytes, CRLF
  <2> QED BY <2>1 DEF FirstLine, TypeLine
<1>2. Header(kind) = x \o CRLF \o y \o CRLF \o CRLF
  <2>1. CASE kind = "get"
    BY <2>1 DEF Header, FirstLine, TypeLine, InParts
  <2>2. CASE kind = "form"
    BY <2>2 DEF Header, FirstLine, TypeLine, InParts
  <2>3. CASE kind \notin {"get", "form"}
    BY <2>3 DEF Header, FirstLine, TypeLine, InParts
  <2> QED BY <2>1, <2>2, <2>3
<1>3. Header(kind) = Ended(x, Ended(y, CRLF))
  BY <1>1, <1>2, TwoLines
<1>4. Ended(y, CRLF) \in Seq(Bytes)
  BY <1>1, EndedType
<1>5. Header(kind) \in Seq(Bytes)
  BY <1>1, <1>3, <1>4, EndedType
<1>6. Ended(x, Ended(y, CRLF)) \o w = Ended(x, Ended(y, CRLF) \o w)
  BY <1>1, <1>4, EndedConcat
<1>7. Ended(y, CRLF) \o w = Ended(y, Ended(<<>>, w))
  <2>1. Ended(y, CRLF) \o w = Ended(y, CRLF \o w)
    BY <1>1, EndedConcat
  <2> QED BY <2>1, EmptyLine
<1> QED BY <1>3, <1>5, <1>6, <1>7

LEMMA PlacesType ==
  ASSUME content \in Contents
  PROVE  /\ Text \in Seq(Bytes) /\ Head3 \in Seq(Bytes) /\ Head2 \in Seq(Bytes)
         /\ Head1 \in Seq(Bytes) /\ Part \in Seq(Bytes) /\ BodyText \in Seq(Bytes)
         /\ AfterType \in Seq(Bytes) /\ AfterFirst \in Seq(Bytes) /\ Whole \in Seq(Bytes)
<1>1. {"r", "n"} \subseteq Bytes
  BY DEF Bytes
<1>2. /\ <<>> \in Seq(Bytes) /\ <<"h">> \in Seq(Bytes) /\ <<"f">> \in Seq(Bytes)
      /\ <<"b">> \in Seq(Bytes) /\ <<"d">> \in Seq(Bytes)
      /\ TypeLine \in Seq(Bytes) /\ FirstLine \in Seq(Bytes)
  <2>1. \A x \in Lines : x \in Seq(Bytes)
    BY LineSymbols
  <2> QED BY <2>1 DEF Lines, TypeLine, FirstLine
<1>3. Text \in Seq(Bytes)
  BY ContentIsText, TerminatorSymbols, ConcatProperties DEF Text
<1>4. Head3 \in Seq(Bytes)
  BY <1>1, <1>2, <1>3, EndedType DEF Head3
<1>5. Head2 \in Seq(Bytes)
  BY <1>1, <1>2, <1>4, EndedType DEF Head2
<1>6. Head1 \in Seq(Bytes)
  BY <1>1, <1>2, <1>5, EndedType DEF Head1
<1>7. Part \in Seq(Bytes)
  BY <1>1, <1>2, <1>6, EndedType DEF Part
<1>8. BodyText \in Seq(Bytes)
  BY <1>1, <1>2, <1>7, EndedType DEF BodyText
<1>9. AfterType \in Seq(Bytes)
  BY <1>1, <1>2, <1>8, EndedType DEF AfterType
<1>10. AfterFirst \in Seq(Bytes)
  BY <1>1, <1>2, <1>9, EndedType DEF AfterFirst
<1>11. Whole \in Seq(Bytes)
  BY <1>1, <1>2, <1>10, EndedType DEF Whole
<1> QED BY <1>3, <1>4, <1>5, <1>6, <1>7, <1>8, <1>9, <1>10, <1>11

LEMMA MessageLines ==
  ASSUME content \in Contents, kind \in AllKinds
  PROVE  Message(kind, content) = Whole
<1> DEFINE H == Header(kind)
           d == <<"d">>
<1>1. /\ H \in Seq(Bytes) /\ PartHead \in Seq(Bytes) /\ CRLF \in Seq(Bytes)
      /\ content \in Seq(Bytes) /\ Terminator \in Seq(Bytes) /\ <<>> \in Seq(Bytes)
      /\ d \in Seq(Bytes)
  <2>1. <<>> \in Seq(Bytes) /\ CRLF \in Seq(Bytes) /\ d \in Seq(Bytes)
    BY DEF Bytes, CRLF
  <2> QED BY <2>1, HeaderLines, PartHeadLines, ContentIsText, TerminatorSymbols
<1>2. \A w \in Seq(Bytes) : w = BodyText => H \o w = Whole
  BY HeaderLines DEF Whole, AfterFirst, AfterType
<1>3. Text \in Seq(Bytes) /\ Part \in Seq(Bytes) /\ PartHead \o Text = Part
  BY PlacesType, PartHeadLines DEF Part, Head1, Head2, Head3
<1> HIDE DEF H, d
<1>4. \A G \in Seq(Bytes) : G \o PartHead \o content \o Terminator = G \o Part
  <2> TAKE G \in Seq(Bytes)
  <2>1. G \o PartHead \in Seq(Bytes) /\ PartHead \o content \in Seq(Bytes)
    BY <1>1, ConcatProperties
  <2> DEFINE GP == G \o PartHead
  <2>2. GP \in Seq(Bytes) /\ content \in Seq(Bytes) /\ Terminator \in Seq(Bytes)
    BY <1>1, <2>1
  <2>3. G \in Seq(Bytes) /\ PartHead \in Seq(Bytes) /\ Text \in Seq(Bytes)
    BY <1>1, <1>3
  <2>4. (G \o PartHead) \o Text = G \o (PartHead \o Text)
    BY <2>3, Associates
  <2> HIDE DEF GP
  <2>5. (GP \o content) \o Terminator = GP \o (content \o Terminator)
    BY <2>2, Associates
  <2> QED BY <2>4, <2>5, <1>3 DEF Text, GP
<1>5. CASE kind = "get"
  <2>1. H \o <<>> = H
    BY <1>1, ConcatEmptySeq
  <2> QED BY <2>1, <1>1, <1>2, <1>5 DEF Message, BodyText, H
<1>6. CASE kind = "form"
  BY <1>1, <1>2, <1>6 DEF Message, BodyText, H, d
<1>7. CASE kind = "preamble"
  <2>1. H \o d \o CRLF \in Seq(Bytes) /\ CRLF \o Part \in Seq(Bytes) /\ H \o d \in Seq(Bytes)
    BY <1>1, <1>3, ConcatProperties
  <2>2. Message(kind, content) = (H \o d \o CRLF) \o Part
    BY <2>1, <1>4, <1>7 DEF Message, H, d
  <2> DEFINE Hd == H \o d
             CP == CRLF \o Part
  <2>7. Hd \in Seq(Bytes) /\ CRLF \in Seq(Bytes) /\ Part \in Seq(Bytes)
    BY <2>1, <1>1, <1>3
  <2>10. H \in Seq(Bytes) /\ d \in Seq(Bytes) /\ CP \in Seq(Bytes)
    BY <2>1, <1>1
  <2> HIDE DEF Hd, CP
  <2>8. (Hd \o CRLF) \o Part = Hd \o (CRLF \o Part)
    BY <2>7, Associates
  <2>9. (H \o d) \o CP = H \o (d \o CP)
    BY <2>10, Associates
  <2>3. ((H \o d) \o CRLF) \o Part = (H \o d) \o (CRLF \o Part)
    BY <2>8 DEF Hd
  <2>4. (H \o d) \o (CRLF \o Part) = H \o (d \o (CRLF \o Part))
    BY <2>9 DEF CP
  <2>5. d \o (CRLF \o Part) = BodyText
    BY <1>7 DEF BodyText, Ended, d
  <2>6. BodyText \in Seq(Bytes)
    BY PlacesType
  <2> QED BY <2>2, <2>3, <2>4, <2>5, <2>6, <1>2
<1>8. CASE kind \in {"upload", "unsavable"}
  <2>1. BodyText = Part
    BY <1>8 DEF BodyText
  <2>2. Message(kind, content) = H \o Part
    BY <1>1, <1>4, <1>8 DEF Message, H
  <2> QED BY <2>1, <2>2, <1>2, <1>3
<1> QED BY <1>5, <1>6, <1>7, <1>8 DEF AllKinds

-----------------------------------------------------------------------------
(***************************************************************************)
(* Part 5: the steps.                                                      *)
(***************************************************************************)
LEMMA TypesImplyTypeOK == Types => TypeOK
BY DEF Types, TypeOK, Fields, recvMsg

LEMMA Received ==
  ASSUME Types
  PROVE  /\ recvMsg \in Seq(Bytes) /\ rest \in Seq(Bytes) /\ content \in Seq(Bytes)
         /\ kind \in AllKinds
BY ParserAssumption, ContentIsText DEF Types, Fields, recvMsg

LEMMA EndOfPlain ==
  ASSUME NEW S, NEW m \in Seq(Bytes), NEW z \in Seq(Bytes), m \o z \in Seq(S)
  PROVE  z \in Seq(S)
<1> DEFINE u == m \o z
<1>1. Len(m) \in Nat /\ Len(z) \in Nat /\ z \in [1..Len(z) -> Bytes]
  BY LenProperties
<1>2. /\ Len(u) = Len(m) + Len(z)
      /\ \A i \in 1..(Len(m) + Len(z)) : u[i] = IF i <= Len(m) THEN m[i] ELSE z[i - Len(m)]
  BY ConcatProperties
<1> HIDE DEF u
<1>3. ASSUME NEW i \in 1..Len(z) PROVE z[i] \in S
  <2>1. /\ Len(m) + i \in 1..(Len(m) + Len(z)) /\ ~(Len(m) + i <= Len(m))
        /\ Len(m) + i - Len(m) = i
    BY <1>1
  <2>2. u[Len(m) + i] = z[i]
    BY <1>2, <2>1
  <2>3. u[Len(m) + i] \in S
    BY <1>2, <2>1, ElementOfSeq DEF u
  <2> QED BY <2>2, <2>3
<1> QED BY <1>1, <1>3

(* What a redirected POST may leave in the socket is no request line.      *)
LEMMA BodyIsPlain ==
  ASSUME content = <<>>
  PROVE  BodyText \in Seq(Plain)
<1>1. {"r", "n"} \subseteq Plain
  BY DEF Plain, Bytes
<1>2. /\ <<>> \in Seq(Plain) /\ <<"h">> \in Seq(Plain) /\ <<"f">> \in Seq(Plain)
      /\ <<"b">> \in Seq(Plain) /\ <<"d">> \in Seq(Plain)
      /\ <<"r", "n", "b", "e", "r", "n">> \in Seq(Plain)
  BY DEF Plain, Bytes
<1>3. Text \in Seq(Plain)
  BY <1>2, TerminatorSymbols, ConcatEmptySeq DEF Text
<1>4. Head3 \in Seq(Plain)
  BY <1>1, <1>2, <1>3, EndedType DEF Head3
<1>5. Head2 \in Seq(Plain)
  BY <1>1, <1>2, <1>4, EndedType DEF Head2
<1>6. Head1 \in Seq(Plain)
  BY <1>1, <1>2, <1>5, EndedType DEF Head1
<1>7. Part \in Seq(Plain)
  BY <1>1, <1>2, <1>6, EndedType DEF Part
<1>8. CASE kind \in {"get", "form", "preamble"}
  <2>1. Ended(<<"d">>, Part) \in Seq(Plain)
    BY <1>1, <1>2, <1>7, EndedType
  <2> QED BY <2>1, <1>2, <1>8 DEF BodyText
<1> QED BY <1>7, <1>8 DEF BodyText

LEMMA LineTyped ==
  ASSUME Types, HasLine
  PROVE  \E t \in Seq(Bytes) :
           /\ t = SubSeq(recvMsg, Find(recvMsg, CRLF) + 2, Len(recvMsg))
           /\ WithoutLine = [request EXCEPT !.recvMsg = t]
<1> DEFINE p == Find(recvMsg, CRLF)
           t == SubSeq(recvMsg, p + 2, Len(recvMsg))
<1>1. recvMsg \in Seq(Bytes)
  BY Received
<1>2. p \in 1..(Len(recvMsg) - 1) /\ Len(recvMsg) \in Nat
  BY <1>1, FindLineEnd, LenProperties DEF HasLine
<1>3. t \in Seq(Bytes)
  <2>1. p + 1 \in 0..Len(recvMsg) /\ p + 1 + 1 = p + 2
    BY <1>2
  <2>2. SubSeq(recvMsg, p + 1 + 1, Len(recvMsg)) \in Seq(Bytes)
    BY <1>1, <2>1, CutFront
  <2> QED BY <2>1, <2>2
<1>4. WithoutLine = [request EXCEPT !.recvMsg = t]
  BY DEF WithoutLine, recvMsg
<1> HIDE DEF t
<1> QED BY <1>3, <1>4 DEF t

(* A step that finds a line finds the one the request has there.           *)
LEMMA LineTaken ==
  ASSUME Types, HasLine, NEW x \in Lines, NEW y \in Seq(Bytes), Unread = Ended(x, y)
  PROVE  /\ Line = x
         /\ \E t \in Seq(Bytes) : WithoutLine = [request EXCEPT !.recvMsg = t] /\ t \o rest = y
<1> DEFINE p == Find(recvMsg, CRLF)
<1>1. /\ recvMsg \in Seq(Bytes) /\ rest \in Seq(Bytes) /\ x \in Seq(Bytes)
      /\ \A i \in 1..Len(x) : x[i] # "r"
  BY Received, LineSymbols
<1>2. p # 0 /\ recvMsg \o rest = Ended(x, y)
  BY DEF HasLine, Unread
<1>3. /\ SubSeq(recvMsg, 1, p - 1) = x
      /\ SubSeq(recvMsg, p + 2, Len(recvMsg)) \o rest = y
  BY <1>1, <1>2, TakeLine
<1>4. PICK t \in Seq(Bytes) : /\ t = SubSeq(recvMsg, p + 2, Len(recvMsg))
                              /\ WithoutLine = [request EXCEPT !.recvMsg = t]
  BY LineTyped
<1> QED BY <1>3, <1>4 DEF Line

(* A line that begins with a plain byte is no request line.                *)
LEMMA StrayLine ==
  ASSUME Types, HasLine, Unread # <<>>, Unread[1] \in Plain
  PROVE  Line # <<"g">> /\ Line # <<"p">>
<1> DEFINE p == Find(recvMsg, CRLF)
           s == SubSeq(recvMsg, 1, p - 1)
<1>1. recvMsg \in Seq(Bytes) /\ rest \in Seq(Bytes) /\ Len(recvMsg) \in Nat /\ Len(rest) \in Nat
  BY Received, LenProperties
<1>2. p \in 1..(Len(recvMsg) - 1)
  BY <1>1, FindLineEnd DEF HasLine
<1>3. p - 1 \in 0..Len(recvMsg) /\ 1 \in 1..Len(recvMsg)
  BY <1>1, <1>2
<1>4. Unread[1] = recvMsg[1]
  <2>1. 1 \in 1..(Len(recvMsg) + Len(rest)) /\ 1 <= Len(recvMsg)
    BY <1>1, <1>3
  <2> QED BY <2>1, <1>1, ConcatProperties DEF Unread
<1>5. Len(s) = p - 1 /\ \A i \in 1..(p - 1) : s[i] = recvMsg[i]
  BY <1>1, <1>3, CutFront
<1>6. SUFFICES ASSUME s = <<"g">> \/ s = <<"p">> PROVE FALSE
  BY DEF Line
<1> HIDE DEF s
<1>7. Len(s) = 1 /\ s[1] \notin Plain
  BY <1>6 DEF Plain
<1> HIDE DEF p
<1>8. 1 \in 1..(p - 1)
  BY <1>2, <1>5, <1>7
<1> QED BY <1>4, <1>5, <1>7, <1>8

(* The places depend on the request's fields and on what is unread only.   *)
LEMMA SamePlace ==
  ASSUME kind' = kind, content' = content, before' = before, file' = file,
         request'.status = request.status, request'.method = request.method,
         request'.multipart = request.multipart,
         request'.fileMsgStatus = request.fileMsgStatus,
         request'.recvFileName = request.recvFileName,
         Unread' = Unread
  PROVE  /\ OnTheWay' <=> OnTheWay
         /\ AtBody' <=> AtBody
         /\ InPartHead' <=> InPartHead
         /\ InContent' <=> InContent
         /\ InParts' <=> InParts
<1>1. /\ Text' = Text /\ Head3' = Head3 /\ Head2' = Head2 /\ Head1' = Head1 /\ Part' = Part
      /\ BodyText' = BodyText /\ (InParts' <=> InParts)
  BY DEF Text, Head3, Head2, Head1, Part, BodyText, InParts
<1>2. /\ AfterType' = AfterType /\ AfterFirst' = AfterFirst /\ Whole' = Whole /\ Asked' = Asked
  BY <1>1 DEF AfterType, AfterFirst, Whole, Asked, TypeLine, FirstLine
<1>3. NoFile' <=> NoFile
  BY DEF NoFile
<1>4. InRequestLine' <=> InRequestLine
  BY <1>2, <1>3 DEF InRequestLine
<1>5. InHead' <=> InHead
  BY <1>1, <1>2, <1>3 DEF InHead
<1>6. AtBody' <=> AtBody
  BY <1>1, <1>2, <1>3 DEF AtBody
<1>7. InPartHead' <=> InPartHead
  BY <1>1 DEF InPartHead, InPart
<1>8. InContent' <=> InContent
  BY DEF InContent, InPart, SavedSome, Left
<1>9. Astray' <=> Astray
  BY <1>3 DEF Astray
<1> QED BY <1>1, <1>4, <1>5, <1>6, <1>7, <1>8, <1>9 DEF OnTheWay

LEMMA InvInit == Init => Inv
<1> SUFFICES ASSUME Init PROVE Inv
  OBVIOUS
<1>1. /\ kind \in Kinds /\ kind \in AllKinds /\ attempt \in 1..Attempts /\ framed = TRUE /\ ahead = FALSE
      /\ before = <<>> /\ file = <<>> /\ request = NewRequest /\ bodyFileName = "" /\ pc = "recv"
  <2>1. kind \in Kinds /\ kind \in AllKinds
    BY ParserAssumption DEF Init
  <2>2. 1 \in 1..Attempts
    BY ParserAssumption
  <2> QED BY <2>1, <2>2 DEF Init
<1>2. content \in Contents /\ (kind # "upload" => content = <<>>)
  BY EmptyContent DEF Init
<1>3. rest = Whole /\ Whole \in Seq(Bytes) /\ content \in Seq(Bytes)
  BY <1>1, <1>2, MessageLines, PlacesType, ContentIsText DEF Init
<1>4. request \in Fields /\ recvMsg = <<>> /\ <<>> \in Seq(Bytes)
  <2>1. <<>> \in Seq(Bytes)
    BY EmptySeq
  <2> QED BY <1>1, <2>1 DEF Fields, NewRequest, recvMsg
<1>5. Types
  BY <1>1, <1>2, <1>3, <1>4 DEF Types
<1>6. Unread = Whole
  BY <1>3, <1>4, ConcatEmptySeq DEF Unread
<1>7. InRequestLine
  BY <1>1, <1>6 DEF InRequestLine, NoFile, NewRequest
<1>8. Saved
  <2>1. 0 \in 0..Len(content) /\ SubSeq(content, 1, 0) = <<>>
    BY <1>3, LenProperties, SubSeqEmpty
  <2>2. <<>> \o <<>> = <<>>
    BY <1>4, ConcatEmptySeq
  <2> QED BY <1>1, <2>1, <2>2 DEF Saved, SavedSome, AnsweredIsSaved
<1> QED BY <1>1, <1>5, <1>7, <1>8 DEF Inv, Place, OnTheWay

(* A step that leaves the file and the answer alone.                       *)
LEMMA SavedSame ==
  ASSUME Saved, UNCHANGED <<kind, content, before, file>>, bodyFileName' \in {bodyFileName, ""}
  PROVE  Saved'
BY DEF Saved, SavedSome, AnsweredIsSaved

LEMMA RecvStep ==
  ASSUME Inv, Recv
  PROVE  Inv'
<1> DEFINE m == recvMsg
<1>1. PICK n \in 1..Len(rest) :
        /\ request' = [request EXCEPT !.recvMsg = m \o SubSeq(rest, 1, n)]
        /\ rest' = SubSeq(rest, n + 1, Len(rest))
  BY DEF Recv, recvMsg
<1>2. /\ pc = "recv" /\ pc' = "line" /\ bodyFileName' = bodyFileName /\ bodyFileName = ""
      /\ UNCHANGED <<kind, content, attempt, framed, ahead, before, file>>
      /\ OnTheWay
  BY DEF Recv, Goto, clientVars, Inv, Place
<1>3. m \in Seq(Bytes) /\ rest \in Seq(Bytes) /\ Len(rest) \in Nat
  BY Received, LenProperties DEF Inv
<1> DEFINE s == SubSeq(rest, 1, n)
           t == SubSeq(rest, n + 1, Len(rest))
<1>4. s \in Seq(Bytes) /\ t \in Seq(Bytes) /\ s \o t = rest
  <2>1. n \in 0..Len(rest)
    BY <1>3
  <2>2. s \in Seq(Bytes) /\ t \in Seq(Bytes)
    BY <1>3, <2>1, CutFront
  <2>3. 1 \in 1..(Len(rest) + 1) /\ n \in (1 - 1)..Len(rest) /\ Len(rest) \in n..Len(rest)
    BY <1>3
  <2>4. s \o t = SubSeq(rest, 1, Len(rest))
    BY <1>3, <2>3, ConcatAdjacentSubSeq
  <2> QED BY <1>3, <2>2, <2>4, SubSeqFull
<1> HIDE DEF s, t
<1>5. request' = [request EXCEPT !.recvMsg = m \o s] /\ rest' = t
  BY <1>1 DEF s, t
<1>6. request \in Fields /\ m \o s \in Seq(Bytes)
  BY <1>3, <1>4, ConcatProperties DEF Inv, Types
<1> HIDE DEF m
<1>7. recvMsg' = m \o s /\ request' \in Fields
  BY <1>5, <1>6 DEF recvMsg, Fields
<1>8. Unread' = Unread
  <2>1. (m \o s) \o t = m \o (s \o t)
    BY <1>3, <1>4, Associates
  <2> QED BY <2>1, <1>4, <1>5, <1>7 DEF Unread, m
<1>9. OnTheWay'
  BY <1>2, <1>5, <1>6, <1>8, SamePlace DEF Fields
<1>10. Types'
  BY <1>2, <1>4, <1>5, <1>7 DEF Inv, Types
<1> QED BY <1>2, <1>9, <1>10, SavedSame DEF Inv, Place

LEMMA RecvLostStep ==
  ASSUME Inv, RecvLost
  PROVE  Inv'
<1>1. /\ pc' = "end" /\ bodyFileName' = "" /\ bodyFileName = "" /\ rest' = <<>>
      /\ request' = [request EXCEPT !.status = "ERROR"]
      /\ ahead' = FALSE /\ UNCHANGED <<kind, content, attempt, framed, before, file>>
  BY DEF RecvLost, Goto, clientVars, Inv, Place
<1>2. request \in Fields /\ <<>> \in Seq(Bytes)
  BY EmptySeq DEF Inv, Types
<1>3. request'.status = "ERROR" /\ request' \in Fields
  BY <1>1, <1>2 DEF Fields
<1>4. Types'
  BY <1>1, <1>2, <1>3 DEF Inv, Types
<1> QED BY <1>1, <1>3, <1>4, SavedSame DEF Inv, Place, Over

(* A step within the request that changes nothing but the place.           *)
LEMMA Onward ==
  ASSUME Inv, UNCHANGED <<clientVars, file, rest, request, bodyFileName>>,
         pc' \in {"recv", "line", "head", "body", "flag", "fileHead", "open", "content"}
  PROVE  /\ Types' /\ Saved'
         /\ OnTheWay' <=> OnTheWay
         /\ AtBody' <=> AtBody
         /\ InPartHead' <=> InPartHead
         /\ InContent' <=> InContent
         /\ InParts' <=> InParts
<1>1. /\ UNCHANGED <<kind, content, attempt, framed, ahead, before, file, rest, request>>
      /\ bodyFileName' = bodyFileName
  BY DEF clientVars
<1>2. Types'
  BY <1>1 DEF Inv, Types
<1>3. Saved'
  BY <1>1, SavedSame DEF Inv
<1>4. Unread' = Unread
  BY <1>1 DEF Unread, recvMsg
<1> QED BY <1>1, <1>2, <1>3, <1>4, SamePlace

LEMMA RequestLineStep ==
  ASSUME Inv, RequestLine
  PROVE  Inv'
<1>1. /\ pc' = "head" /\ OnTheWay /\ bodyFileName = "" /\ Types /\ Saved
      /\ UNCHANGED <<clientVars, file, rest, bodyFileName>>
      /\ UNCHANGED <<kind, content, attempt, framed, ahead, before>>
  BY DEF RequestLine, Goto, clientVars, Inv, Place
<1>2. CASE ~(request.status = "INIT" /\ HasLine)
  <2>1. UNCHANGED request
    BY <1>2 DEF RequestLine
  <2> QED BY <1>1, <2>1, Onward DEF Inv, Place
<1>3. CASE request.status = "INIT" /\ HasLine
  <2> DEFINE method == CASE Line = <<"g">> -> "GET" [] Line = <<"p">> -> "POST"
                         [] OTHER -> "other"
  <2>1. request' = [WithoutLine EXCEPT !.status = "HEAD", !.method = method]
    BY <1>3 DEF RequestLine
  <2>2. method \in {"GET", "POST", "other"}
    OBVIOUS
  <2> HIDE DEF method
  <2>3. request \in Fields
    BY <1>1 DEF Types
  <2>4. ASSUME NEW t \in Seq(Bytes), WithoutLine = [request EXCEPT !.recvMsg = t]
        PROVE  /\ Types' /\ request'.status = "HEAD" /\ request'.method = method
               /\ request'.multipart = request.multipart
               /\ request'.fileMsgStatus = request.fileMsgStatus
               /\ request'.recvFileName = request.recvFileName
               /\ recvMsg' = t
    <3>1. request' = [request EXCEPT !.recvMsg = t, !.status = "HEAD", !.method = method]
      BY <2>1, <2>3, <2>4 DEF Fields
    <3>2. request' \in Fields
      BY <2>2, <2>3, <3>1 DEF Fields
    <3>3. Types'
      BY <1>1, <3>2 DEF Types
    <3> QED BY <2>3, <3>1, <3>3 DEF Fields, recvMsg
  <2>5. Saved'
    BY <1>1, SavedSame
  <2>6. CASE InRequestLine
    <3>1. FirstLine \in Lines /\ AfterFirst \in Seq(Bytes) /\ Unread = Ended(FirstLine, AfterFirst)
      BY <1>1, <2>6, PlacesType DEF Types, FirstLine, Lines, InRequestLine, Whole
    <3>2. /\ Line = FirstLine
          /\ \E t \in Seq(Bytes) : /\ WithoutLine = [request EXCEPT !.recvMsg = t]
                                   /\ t \o rest = AfterFirst
      BY <1>1, <1>3, <3>1, LineTaken
    <3>3. PICK t \in Seq(Bytes) : /\ WithoutLine = [request EXCEPT !.recvMsg = t]
                                  /\ t \o rest = AfterFirst
      BY <3>2
    <3>4. /\ Types' /\ request'.status = "HEAD" /\ request'.method = method
          /\ request'.multipart = request.multipart
          /\ request'.fileMsgStatus = request.fileMsgStatus
          /\ request'.recvFileName = request.recvFileName
          /\ recvMsg' = t
      BY <2>4, <3>3
    <3>5. method = Asked /\ Asked' = Asked
      BY <1>1, <3>2 DEF method, FirstLine, Asked
    <3>6. AfterFirst' = AfterFirst
      BY <1>1 DEF AfterFirst, TypeLine, AfterType, BodyText, InParts, Part, Head1, Head2, Head3, Text
    <3>7. Unread' = AfterFirst'
      BY <1>1, <3>3, <3>4, <3>6 DEF Unread
    <3>8. InHead'
      BY <1>1, <2>6, <3>4, <3>5, <3>7 DEF InHead, InRequestLine, NoFile
    <3> QED BY <1>1, <2>5, <3>4, <3>8 DEF Inv, Place, OnTheWay
  <2>7. CASE Astray
    <3>1. Line # <<"g">> /\ Line # <<"p">>
      BY <1>1, <1>3, <2>7, StrayLine DEF Astray
    <3>2. PICK t \in Seq(Bytes) : WithoutLine = [request EXCEPT !.recvMsg = t]
      BY <1>1, <1>3, LineTyped
    <3>3. /\ Types' /\ request'.status = "HEAD" /\ request'.method = method
          /\ request'.recvFileName = request.recvFileName
          /\ request'.fileMsgStatus = request.fileMsgStatus
      BY <2>4, <3>2
    <3>4. method = "other"
      BY <3>1 DEF method
    <3>5. Astray'
      BY <1>1, <1>3, <2>7, <3>3, <3>4 DEF Astray, NoFile
    <3> QED BY <1>1, <2>5, <3>3, <3>5 DEF Inv, Place, OnTheWay
  <2> QED BY <1>1, <1>3, <2>6, <2>7
        DEF OnTheWay, InHead, AtBody, InPartHead, InContent, InPart
<1> QED BY <1>2, <1>3

LEMMA PlacesSame ==
  ASSUME kind' = kind, content' = content
  PROVE  /\ Text' = Text /\ Head3' = Head3 /\ Head2' = Head2 /\ Head1' = Head1 /\ Part' = Part
         /\ BodyText' = BodyText /\ (InParts' <=> InParts) /\ Asked' = Asked
         /\ AfterType' = AfterType
BY DEF Text, Head3, Head2, Head1, Part, BodyText, InParts, Asked, AfterType

LEMMA HeadLineStep ==
  ASSUME Inv, HeadLine
  PROVE  Inv'
<1>1. /\ pc = "head" /\ OnTheWay /\ bodyFileName = "" /\ Types /\ Saved
      /\ UNCHANGED <<clientVars, file, rest, bodyFileName>>
      /\ UNCHANGED <<kind, content, attempt, framed, ahead, before>>
  BY DEF HeadLine, clientVars, Inv, Place
<1>2. CASE ~(request.status = "HEAD" /\ HasLine)
  <2>1. UNCHANGED request /\ pc' = "body"
    BY <1>2 DEF HeadLine, Goto
  <2> QED BY <1>1, <2>1, Onward DEF Inv, Place
<1>3. CASE request.status = "HEAD" /\ HasLine
  <2>1. request \in Fields
    BY <1>1 DEF Types
  <2>2. Saved'
    BY <1>1, SavedSame
  (* The step, for a line with the rest t behind it. *)
  <2>3. ASSUME NEW t \in Seq(Bytes), WithoutLine = [request EXCEPT !.recvMsg = t]
        PROVE  /\ Types' /\ pc' \in {"head", "body"}
               /\ request'.method = request.method
               /\ request'.recvFileName = request.recvFileName
               /\ recvMsg' = t
               /\ Line = <<>> => /\ request'.status = "BODY"
                                 /\ request'.multipart = request.multipart
                                 /\ request'.fileMsgStatus = IF request.multipart THEN "BEGIN_FLAG"
                                                             ELSE request.fileMsgStatus
               /\ Line # <<>> => /\ request'.status = "HEAD"
                                 /\ request'.multipart = (request.multipart \/ Line = <<"m">>)
                                 /\ request'.fileMsgStatus = request.fileMsgStatus
    <3>1. CASE Line = <<>>
      <4> DEFINE st == IF request.multipart THEN "BEGIN_FLAG" ELSE request.fileMsgStatus
      <4>1. request' = [WithoutLine EXCEPT !.status = "BODY",
                          !.fileMsgStatus = IF request.multipart THEN "BEGIN_FLAG" ELSE @]
            /\ pc' = "body"
        BY <1>3, <3>1 DEF HeadLine, Goto
      <4>2. st \in {"", "BEGIN_FLAG", "FILE_HEAD", "CONTENT", "COMPLATE"}
        BY <2>1 DEF Fields
      <4>3. request' = [request EXCEPT !.recvMsg = t, !.status = "BODY", !.fileMsgStatus = st]
        BY <2>1, <2>3, <4>1 DEF Fields
      <4> HIDE DEF st
      <4>4. request' \in Fields /\ recvMsg' = t
        BY <2>1, <4>2, <4>3 DEF Fields, recvMsg
      <4>5. Types'
        BY <1>1, <4>1, <4>4 DEF Types
      <4>6. /\ request'.method = request.method /\ request'.recvFileName = request.recvFileName
            /\ request'.status = "BODY" /\ request'.multipart = request.multipart
            /\ request'.fileMsgStatus = st
        BY <2>1, <4>3 DEF Fields
      <4> QED BY <3>1, <4>1, <4>4, <4>5, <4>6 DEF st
    <3>2. CASE Line # <<>>
      <4> DEFINE mp == request.multipart \/ Line = <<"m">>
      <4>1. request' = [WithoutLine EXCEPT !.multipart = @ \/ Line = <<"m">>] /\ pc' = "head"
        BY <1>1, <1>3, <3>2 DEF HeadLine
      <4>2. mp \in BOOLEAN
        OBVIOUS
      <4>3. WithoutLine.multipart = request.multipart
        BY <2>1, <2>3 DEF Fields
      <4>4. request' = [WithoutLine EXCEPT !.multipart = mp]
        BY <4>1, <4>3
      <4> HIDE DEF mp
      <4>5. request' = [request EXCEPT !.recvMsg = t, !.multipart = mp]
        BY <2>1, <2>3, <4>4 DEF Fields
      <4>6. request' \in Fields /\ recvMsg' = t
        BY <2>1, <4>2, <4>5 DEF Fields, recvMsg
      <4>7. Types'
        BY <1>1, <4>1, <4>6 DEF Types
      <4>8. /\ request'.method = request.method /\ request'.recvFileName = request.recvFileName
            /\ request'.status = request.status /\ request'.multipart = mp
            /\ request'.fileMsgStatus = request.fileMsgStatus
        BY <2>1, <4>5 DEF Fields
      <4> QED BY <1>3, <3>2, <4>1, <4>6, <4>7, <4>8 DEF mp
    <3> QED BY <3>1, <3>2
  <2>4. CASE InHead /\ ~request.multipart /\ Unread = AfterFirst
    <3>1. TypeLine \in Lines /\ AfterType \in Seq(Bytes) /\ Unread = Ended(TypeLine, AfterType)
      BY <1>1, <2>4, PlacesType DEF Types, TypeLine, Lines, AfterFirst
    <3>2. /\ Line = TypeLine
          /\ \E t \in Seq(Bytes) : /\ WithoutLine = [request EXCEPT !.recvMsg = t]
                                   /\ t \o rest = AfterType
      BY <1>1, <1>3, <3>1, LineTaken
    <3>3. PICK t \in Seq(Bytes) : /\ WithoutLine = [request EXCEPT !.recvMsg = t]
                                  /\ t \o rest = AfterType
      BY <3>2
    <3>4. Line # <<>> /\ (Line = <<"m">> <=> InParts)
      BY <3>2 DEF TypeLine
    <3>5. /\ Types' /\ pc' \in {"head", "body"}
          /\ request'.method = request.method
          /\ request'.recvFileName = request.recvFileName
          /\ recvMsg' = t
          /\ request'.status = "HEAD"
          /\ request'.multipart = (request.multipart \/ Line = <<"m">>)
          /\ request'.fileMsgStatus = request.fileMsgStatus
      BY <2>3, <3>3, <3>4
    <3>6. request'.multipart = InParts
      <4>1. (request.multipart \/ Line = <<"m">>) <=> InParts
        BY <2>4, <3>4
      <4>2. InParts \in BOOLEAN
        BY DEF InParts
      <4> QED BY <3>5, <4>1, <4>2
    <3>7. Unread' = AfterType
      BY <1>1, <3>3, <3>5 DEF Unread
    <3>8. request'.multipart = InParts'
      <4>1. InParts' = InParts
        BY <1>1 DEF InParts
      <4> QED BY <3>6, <4>1
    <3>9. InHead'
      BY <1>1, <2>4, <3>5, <3>7, <3>8, PlacesSame DEF InHead, NoFile
    <3> QED BY <1>1, <2>2, <3>5, <3>9 DEF Inv, Place, OnTheWay
  <2>5. CASE InHead /\ request.multipart = InParts /\ Unread = AfterType
    <3>1. <<>> \in Lines /\ BodyText \in Seq(Bytes) /\ Unread = Ended(<<>>, BodyText)
      BY <1>1, <2>5, PlacesType DEF Types, Lines, AfterType
    <3>2. /\ Line = <<>>
          /\ \E t \in Seq(Bytes) : /\ WithoutLine = [request EXCEPT !.recvMsg = t]
                                   /\ t \o rest = BodyText
      BY <1>1, <1>3, <3>1, LineTaken
    <3>3. PICK t \in Seq(Bytes) : /\ WithoutLine = [request EXCEPT !.recvMsg = t]
                                  /\ t \o rest = BodyText
      BY <3>2
    <3>4. /\ Types' /\ pc' \in {"head", "body"}
          /\ request'.method = request.method
          /\ request'.recvFileName = request.recvFileName
          /\ recvMsg' = t
          /\ request'.status = "BODY"
          /\ request'.multipart = request.multipart
          /\ request'.fileMsgStatus = IF request.multipart THEN "BEGIN_FLAG"
                                      ELSE request.fileMsgStatus
      BY <2>3, <3>2, <3>3
    <3>5. Unread' = BodyText
      BY <1>1, <3>3, <3>4 DEF Unread
    <3>6. InParts' = InParts
      BY <1>1 DEF InParts
    <3>7. request'.fileMsgStatus = IF InParts THEN "BEGIN_FLAG" ELSE ""
      BY <2>5, <3>4 DEF InHead
    <3>8. request'.multipart = InParts'
      BY <2>5, <3>4, <3>6
    <3>9. AtBody'
      BY <1>1, <2>5, <3>4, <3>5, <3>6, <3>7, <3>8, PlacesSame DEF AtBody, InHead, NoFile
    <3> QED BY <1>1, <2>2, <3>4, <3>9 DEF Inv, Place, OnTheWay
  <2>6. CASE Astray
    <3>1. PICK t \in Seq(Bytes) : WithoutLine = [request EXCEPT !.recvMsg = t]
      BY <1>1, <1>3, LineTyped
    <3>2. /\ Types' /\ pc' \in {"head", "body"}
          /\ request'.method = request.method
          /\ request'.recvFileName = request.recvFileName
          /\ request'.status \in {"HEAD", "BODY"}
          /\ request'.fileMsgStatus \in {request.fileMsgStatus, "BEGIN_FLAG"}
      BY <2>3, <3>1
    <3>3. Astray'
      BY <1>1, <1>3, <2>6, <3>2 DEF Astray, NoFile
    <3> QED BY <1>1, <2>2, <3>2, <3>3 DEF Inv, Place, OnTheWay
  <2>7. InHead \/ Astray
    BY <1>1, <1>3 DEF OnTheWay, InRequestLine, AtBody, InPartHead, InContent, InPart
  <2>8. InHead => \/ ~request.multipart /\ Unread = AfterFirst
                  \/ request.multipart = InParts /\ Unread = AfterType
    BY DEF InHead
  <2> QED BY <2>4, <2>5, <2>6, <2>7, <2>8
<1> QED BY <1>2, <1>3

(* The loop ends with an answer.                                           *)
LEMMA Complated ==
  ASSUME Inv, NEW resource \in {"resource", "redirect", "/redirect"}, Complate(resource),
         UNCHANGED <<clientVars, file, rest>>, Remainder,
         kind = "upload" => file = before \o content
  PROVE  Inv'
<1>1. /\ bodyFileName' = resource /\ resource # "" /\ pc' = "end"
      /\ request' = [request EXCEPT !.status = "COMPLATE"]
      /\ UNCHANGED <<kind, content, attempt, framed, ahead, before, file, rest>>
  BY DEF Complate, Goto, clientVars
<1>2. request' \in Fields /\ request'.status = "COMPLATE" /\ recvMsg' = recvMsg
  BY <1>1 DEF Inv, Types, Fields, recvMsg
<1>3. Types'
  BY <1>1, <1>2 DEF Inv, Types
<1>4. Remainder'
  BY <1>1, <1>2 DEF Remainder
<1>5. Saved'
  BY <1>1 DEF Inv, Saved, SavedSome, AnsweredIsSaved
<1> QED BY <1>1, <1>2, <1>3, <1>4, <1>5 DEF Inv, Place, Over

LEMMA BodyStep ==
  ASSUME Inv, Body
  PROVE  Inv'
<1>1. /\ OnTheWay /\ bodyFileName = "" /\ Types /\ Saved
      /\ UNCHANGED <<clientVars, file, rest>>
  BY DEF Body, Inv, Place
<1>2. /\ recvMsg \in Seq(Bytes) /\ rest \in Seq(Bytes) /\ kind \in AllKinds
  BY <1>1, Received
<1>3. CASE request.status # "BODY" \/ request.method = "other"
  <2>1. UNCHANGED <<request, bodyFileName>> /\ pc' = "recv"
    BY <1>3 DEF Body, Goto
  <2> QED BY <1>1, <2>1, Onward DEF Inv, Place
<1>4. CASE request.status = "BODY" /\ request.method = "GET"
  <2>1. Complate("resource")
    BY <1>4 DEF Body
  <2>2. AtBody
    BY <1>1, <1>4 DEF OnTheWay, InRequestLine, InHead, InPartHead, InContent, InPart, Astray
  <2>3. kind = "get"
    BY <1>4, <2>2 DEF AtBody, Asked
  <2>4. recvMsg \o rest = <<>>
    BY <2>2, <2>3 DEF AtBody, BodyText, Unread
  <2>5. recvMsg = <<>> /\ rest = <<>>
    BY <1>2, <2>4, ConcatSimplifications!concIsEmpty
  <2>6. Remainder
    BY <2>5, EmptySeq DEF Remainder
  <2> QED BY <1>1, <2>1, <2>3, <2>6, Complated
<1>5. CASE request.status = "BODY" /\ request.method = "POST" /\ ~request.multipart
  <2>1. Complate("/redirect")
    BY <1>5 DEF Body
  <2>2. AtBody
    BY <1>1, <1>5 DEF OnTheWay, InRequestLine, InHead, InPartHead, InContent, InPart, Astray
  <2>3. kind = "form"
    BY <1>5, <2>2 DEF AtBody, Asked, InParts
  <2>4. content = <<>>
    BY <1>1, <2>3 DEF Types
  <2>5. recvMsg \o rest \in Seq(Plain)
    BY <2>2, <2>4, BodyIsPlain DEF AtBody, Unread
  <2>6. rest \in Seq(Plain)
    BY <1>2, <2>5, EndOfPlain
  <2>7. Remainder
    BY <2>3, <2>6 DEF Remainder
  <2> QED BY <1>1, <2>1, <2>3, <2>7, Complated
<1>6. CASE request.status = "BODY" /\ request.method = "POST" /\ request.multipart
  <2>1. UNCHANGED <<request, bodyFileName>> /\ pc' = "flag"
    BY <1>6 DEF Body, Goto
  <2>2. InParts /\ (AtBody \/ InPartHead \/ InContent)
    BY <1>1, <1>6 DEF OnTheWay, InRequestLine, InHead, AtBody, InPartHead, InContent, InPart,
       Astray, InParts
  <2> QED BY <1>1, <2>1, <2>2, Onward DEF Inv, Place
<1> QED BY <1>3, <1>4, <1>5, <1>6 DEF Body

LEMMA BeginFlagStep ==
  ASSUME Inv, BeginFlag
  PROVE  Inv'
<1>1. /\ InParts /\ (AtBody \/ InPartHead \/ InContent) /\ bodyFileName = "" /\ Types /\ Saved
      /\ UNCHANGED <<clientVars, file, rest>>
      /\ UNCHANGED <<kind, content, attempt, framed, ahead, before>>
  BY DEF BeginFlag, clientVars, Inv, Place
<1>2. CASE ~(request.fileMsgStatus = "BEGIN_FLAG" /\ HasLine)
  <2>1. UNCHANGED <<request, bodyFileName>> /\ pc' = "fileHead"
    BY <1>2 DEF BeginFlag, Goto
  <2> QED BY <1>1, <2>1, Onward DEF Inv, Place
<1>3. CASE request.fileMsgStatus = "BEGIN_FLAG" /\ HasLine
  <2>1. AtBody
    BY <1>1, <1>3 DEF InPartHead, InContent
  <2>2. /\ Part \in Seq(Bytes) /\ Head1 \in Seq(Bytes) /\ kind \in AllKinds /\ request \in Fields
        /\ <<"b">> \in Lines /\ <<"d">> \in Lines
        /\ recvMsg \in Seq(Bytes) /\ rest \in Seq(Bytes)
    BY <1>1, PlacesType, Received DEF Types, Lines
  <2>3. CASE kind = "preamble"
    <3>1. Unread = Ended(<<"d">>, Part)
      BY <2>1, <2>3 DEF AtBody, BodyText
    <3>2. Line = <<"d">>
      BY <1>1, <1>3, <2>2, <3>1, LineTaken
    <3>3. Complate("redirect")
      BY <1>3, <3>2 DEF BeginFlag
    <3>4. content = <<>>
      BY <1>1, <2>3 DEF Types
    <3>5. recvMsg \o rest \in Seq(Plain)
      BY <2>1, <3>4, BodyIsPlain DEF AtBody, Unread
    <3>6. rest \in Seq(Plain)
      BY <2>2, <3>5, EndOfPlain
    <3>7. Remainder
      BY <2>3, <3>6 DEF Remainder
    <3> QED BY <1>1, <2>3, <3>3, <3>7, Complated
  <2>4. CASE kind \in {"upload", "unsavable"}
    <3>1. Unread = Ended(<<"b">>, Head1)
      BY <2>1, <2>4 DEF AtBody, BodyText, Part
    <3>2. /\ Line = <<"b">>
          /\ \E t \in Seq(Bytes) : /\ WithoutLine = [request EXCEPT !.recvMsg = t]
                                   /\ t \o rest = Head1
      BY <1>1, <1>3, <2>2, <3>1, LineTaken
    <3>3. PICK t \in Seq(Bytes) : /\ WithoutLine = [request EXCEPT !.recvMsg = t]
                                  /\ t \o rest = Head1
      BY <3>2
    <3>4. /\ request' = [WithoutLine EXCEPT !.fileMsgStatus = "FILE_HEAD"]
          /\ pc' = "fileHead" /\ UNCHANGED bodyFileName
      BY <1>3, <3>2 DEF BeginFlag, Goto
    <3>5. request' = [request EXCEPT !.recvMsg = t, !.fileMsgStatus = "FILE_HEAD"]
      BY <2>2, <3>3, <3>4 DEF Fields
    <3>6. request' \in Fields /\ recvMsg' = t
      BY <2>2, <3>5 DEF Fields, recvMsg
    <3>7. Types'
      BY <1>1, <3>4, <3>6 DEF Types
    <3>8. /\ request'.status = request.status /\ request'.method = request.method
          /\ request'.multipart = request.multipart
          /\ request'.recvFileName = request.recvFileName
          /\ request'.fileMsgStatus = "FILE_HEAD"
      BY <2>2, <3>5 DEF Fields
    <3>9. Unread' = Head1
      BY <1>1, <3>3, <3>6 DEF Unread
    <3>10. request'.multipart /\ request'.method = "POST"
      BY <1>1, <2>1, <2>4, <3>8 DEF AtBody, Asked
    <3>11. InPartHead'
      BY <1>1, <2>1, <2>4, <3>8, <3>9, <3>10, PlacesSame DEF InPartHead, InPart, AtBody, NoFile
    <3>12. Saved'
      BY <1>1, <3>4, SavedSame
    <3>13. InParts'
      BY <1>1 DEF InParts
    <3> QED BY <1>1, <3>4, <3>7, <3>11, <3>12, <3>13 DEF Inv, Place
  <2> QED BY <1>1, <2>2, <2>3, <2>4 DEF AllKinds, InParts
<1> QED BY <1>2, <1>3

LEMMA FileHeadStep ==
  ASSUME Inv, FileHead
  PROVE  Inv'
<1>1. /\ InParts /\ (AtBody \/ InPartHead \/ InContent) /\ bodyFileName = "" /\ Types /\ Saved
      /\ UNCHANGED <<clientVars, file, rest, bodyFileName>>
      /\ UNCHANGED <<kind, content, attempt, framed, ahead, before>>
  BY DEF FileHead, clientVars, Inv, Place
<1>2. CASE ~(request.fileMsgStatus = "FILE_HEAD" /\ HasLine)
  <2>1. UNCHANGED request /\ pc' = "open"
    BY <1>2 DEF FileHead, Goto
  <2> QED BY <1>1, <2>1, Onward DEF Inv, Place
<1>3. CASE request.fileMsgStatus = "FILE_HEAD" /\ HasLine
  <2>1. InPartHead
    BY <1>1, <1>3 DEF AtBody, InContent
  <2>2. /\ Head1 \in Seq(Bytes) /\ Head2 \in Seq(Bytes) /\ Head3 \in Seq(Bytes)
        /\ Text \in Seq(Bytes) /\ request \in Fields /\ content \in Seq(Bytes)
        /\ <<"f">> \in Lines /\ <<"h">> \in Lines /\ <<>> \in Lines
    BY <1>1, PlacesType, Received DEF Types, Lines
  <2>3. Saved'
    BY <1>1, SavedSame
  <2>4. InParts'
    BY <1>1 DEF InParts
  (* A line of the part's head. *)
  <2>5. ASSUME NEW x \in {<<"f">>, <<"h">>}, NEW y \in Seq(Bytes), Unread = Ended(x, y)
        PROVE  /\ Types' /\ pc' = "fileHead"
               /\ InPart' /\ request'.fileMsgStatus = "FILE_HEAD" /\ Unread' = y
               /\ request'.recvFileName = IF x = <<"f">> THEN Append(request.recvFileName, "f")
                                          ELSE request.recvFileName
    <3>0. x \in Lines /\ x # <<>>
      BY <2>2, <2>5
    <3>1. /\ Line = x
          /\ \E t \in Seq(Bytes) : /\ WithoutLine = [request EXCEPT !.recvMsg = t]
                                   /\ t \o rest = y
      BY <1>1, <1>3, <2>5, <3>0, LineTaken
    <3>2. PICK t \in Seq(Bytes) : /\ WithoutLine = [request EXCEPT !.recvMsg = t]
                                  /\ t \o rest = y
      BY <3>1
    <3> DEFINE names == IF x = <<"f">> THEN Append(request.recvFileName, "f")
                        ELSE request.recvFileName
    <3>3. /\ request' = [WithoutLine EXCEPT !.recvFileName =
                           IF Line = <<"f">> THEN Append(@, "f") ELSE @]
          /\ pc' = "fileHead"
      BY <1>3, <3>0, <3>1 DEF FileHead, Goto
    <3>4. WithoutLine.recvFileName = request.recvFileName
      BY <2>2, <3>2 DEF Fields
    <3>5. request' = [WithoutLine EXCEPT !.recvFileName = names]
      BY <3>1, <3>3, <3>4
    <3>6. names \in {<<>>, <<"f">>}
      <4>1. CASE x = <<"f">>
        <5>1. Unread = Head1
          <6>1. SUFFICES ASSUME Unread \in {Head2, Head3} PROVE FALSE
            BY <2>1 DEF InPartHead
          <6>2. CASE Unread = Head2
            BY <1>1, <1>3, <2>2, <3>1, <4>1, <6>2, LineTaken DEF Head2
          <6>3. CASE Unread = Head3
            BY <1>1, <1>3, <2>2, <3>1, <4>1, <6>3, LineTaken DEF Head3
          <6> QED BY <6>1, <6>2, <6>3
        <5>2. request.recvFileName = <<>> \/ Unread \in {Head2, Head3}
          BY <2>1 DEF InPartHead
        <5>3. request.recvFileName = <<>>
          <6>1. CASE Unread = Head2
            BY <1>1, <1>3, <2>2, <3>1, <4>1, <6>1, LineTaken DEF Head2
          <6>2. CASE Unread = Head3
            BY <1>1, <1>3, <2>2, <3>1, <4>1, <6>2, LineTaken DEF Head3
          <6> QED BY <5>2, <6>1, <6>2
        <5> QED BY <4>1, <5>3
      <4>2. CASE x # <<"f">>
        BY <2>2, <4>2 DEF Fields
      <4> QED BY <4>1, <4>2
    <3> HIDE DEF names
    <3>7. request' = [request EXCEPT !.recvMsg = t, !.recvFileName = names]
      BY <2>2, <3>2, <3>5 DEF Fields
    <3>8. request' \in Fields /\ recvMsg' = t
      BY <2>2, <3>6, <3>7 DEF Fields, recvMsg
    <3>9. Types'
      BY <1>1, <3>3, <3>8 DEF Types
    <3>10. /\ request'.status = request.status /\ request'.method = request.method
           /\ request'.multipart = request.multipart
           /\ request'.recvFileName = names
           /\ request'.fileMsgStatus = request.fileMsgStatus
      BY <2>2, <3>7 DEF Fields
    <3>11. Unread' = y
      BY <1>1, <3>2, <3>8 DEF Unread
    <3>12. InPart'
      BY <1>1, <2>1, <3>10 DEF InPartHead, InPart
    <3> QED BY <1>3, <3>3, <3>9, <3>10, <3>11, <3>12 DEF names
  <2>6. ASSUME InPartHead', Types', pc' = "fileHead" PROVE Inv'
    BY <1>1, <2>3, <2>4, <2>6 DEF Inv, Place
  <2>7. CASE request.recvFileName = <<>> /\ Unread = Head1
    <3>1. /\ Types' /\ pc' = "fileHead" /\ InPart'
          /\ request'.fileMsgStatus = "FILE_HEAD" /\ Unread' = Head2
          /\ request'.recvFileName = Append(request.recvFileName, "f")
      BY <2>2, <2>5, <2>7 DEF Head1
    <3>2. request'.recvFileName = <<"f">>
      BY <2>7, <3>1
    <3>3. InPartHead'
      BY <1>1, <2>1, <3>1, <3>2, PlacesSame DEF InPartHead
    <3> QED BY <2>6, <3>1, <3>3
  <2>8. CASE request.recvFileName = <<"f">> /\ Unread = Head2
    <3>0. <<"h">> # <<"f">> /\ Unread = Ended(<<"h">>, Head3)
      BY <2>8 DEF Head2
    <3>1. /\ Types' /\ pc' = "fileHead" /\ InPart'
          /\ request'.fileMsgStatus = "FILE_HEAD" /\ Unread' = Head3
          /\ request'.recvFileName = request.recvFileName
      BY <2>2, <2>5, <3>0
    <3>2. InPartHead'
      BY <1>1, <2>1, <2>8, <3>1, PlacesSame DEF InPartHead
    <3> QED BY <2>6, <3>1, <3>2
  <2>9. CASE request.recvFileName = <<"f">> /\ Unread = Head3
    <3>1. /\ Line = <<>>
          /\ \E t \in Seq(Bytes) : /\ WithoutLine = [request EXCEPT !.recvMsg = t]
                                   /\ t \o rest = Text
      BY <1>1, <1>3, <2>2, <2>9, LineTaken DEF Head3
    <3>2. PICK t \in Seq(Bytes) : /\ WithoutLine = [request EXCEPT !.recvMsg = t]
                                  /\ t \o rest = Text
      BY <3>1
    <3>3. request' = [WithoutLine EXCEPT !.fileMsgStatus = "CONTENT"] /\ pc' = "open"
      BY <1>3, <3>1 DEF FileHead, Goto
    <3>4. request' = [request EXCEPT !.recvMsg = t, !.fileMsgStatus = "CONTENT"]
      BY <2>2, <3>2, <3>3 DEF Fields
    <3>5. request' \in Fields /\ recvMsg' = t
      BY <2>2, <3>4 DEF Fields, recvMsg
    <3>6. Types'
      BY <1>1, <3>3, <3>5 DEF Types
    <3>7. /\ request'.status = request.status /\ request'.method = request.method
          /\ request'.multipart = request.multipart
          /\ request'.recvFileName = request.recvFileName
          /\ request'.fileMsgStatus = "CONTENT"
      BY <2>2, <3>4 DEF Fields
    <3>8. 0 \in 0..Len(content) /\ Left(0) = content /\ SubSeq(content, 1, 0) = <<>>
      BY <2>2, LenProperties, SubSeqFull, SubSeqEmpty DEF Left
    <3>9. SavedSome(0)
      <4>1. before \in Seq(Bytes) /\ file = before
        BY <1>1, <2>1 DEF Types, InPartHead
      <4> QED BY <3>8, <4>1, ConcatEmptySeq DEF SavedSome
    <3>10. SavedSome(0)' /\ Left(0)' = Left(0) /\ Len(content)' = Len(content)
      BY <1>1, <3>9 DEF SavedSome, Left
    <3>11. Unread' = Left(0)' \o Terminator
      BY <1>1, <3>2, <3>5, <3>8, <3>10 DEF Unread, Text
    <3>12. InContent'
      BY <1>1, <2>1, <2>9, <3>7, <3>8, <3>10, <3>11 DEF InContent, InPart, InPartHead
    <3> QED BY <1>1, <2>3, <2>4, <3>3, <3>6, <3>12 DEF Inv, Place
  <2> QED BY <2>1, <2>7, <2>8, <2>9 DEF InPartHead
<1> QED BY <1>2, <1>3

LEMMA OpenStep ==
  ASSUME Inv, Open
  PROVE  Inv'
<1>1. /\ InParts /\ (AtBody \/ InPartHead \/ InContent) /\ bodyFileName = "" /\ Types /\ Saved
      /\ UNCHANGED <<clientVars, file, rest, request, bodyFileName>>
  BY DEF Open, Inv, Place
<1>2. CASE request.fileMsgStatus # "CONTENT"
  <2>1. pc' = "recv"
    BY <1>2 DEF Open, Goto
  <2> QED BY <1>1, <2>1, Onward DEF Inv, Place, OnTheWay
<1>3. CASE request.fileMsgStatus = "CONTENT" /\ kind = "unsavable"
  <2>1. pc' = "end"
    BY <1>3 DEF Open, Goto
  <2>2. InContent
    BY <1>1, <1>3 DEF AtBody, InPartHead
  <2>3. UNCHANGED <<kind, content, attempt, framed, ahead, before, file, rest, request, bodyFileName>>
    BY <1>1 DEF clientVars
  <2>4. Unread' = Unread
    BY <2>3 DEF Unread, recvMsg
  <2>5. InContent'
    BY <2>2, <2>3, <2>4, SamePlace
  <2>6. Types'
    BY <1>1, <2>1, <2>3 DEF Types
  <2>7. Saved'
    BY <1>1, <2>3, SavedSame
  <2> QED BY <1>1, <1>3, <2>1, <2>3, <2>5, <2>6, <2>7 DEF Inv, Place
<1>4. CASE request.fileMsgStatus = "CONTENT" /\ kind # "unsavable"
  <2>1. pc' = "content"
    BY <1>4 DEF Open, Goto
  <2>2. InContent
    BY <1>1, <1>4 DEF AtBody, InPartHead
  <2>3. kind = "upload"
    BY <1>4, <2>2 DEF InContent, InPart
  <2>4. kind' = kind
    BY <1>1 DEF clientVars
  <2> QED BY <1>1, <2>1, <2>2, <2>3, <2>4, Onward DEF Inv, Place
<1> QED BY <1>2, <1>3, <1>4

(* The content of the file: what is saved is content, what stays is the    *)
(* rest of it and the terminator.                                          *)
LEMMA FileContentStep ==
  ASSUME Inv, FileContent
  PROVE  Inv'
<1>1. /\ kind = "upload" /\ InContent /\ bodyFileName = "" /\ Types /\ Saved /\ pc = "content"
      /\ UNCHANGED <<clientVars, rest, bodyFileName>>
      /\ UNCHANGED <<kind, content, attempt, framed, ahead, before>>
  BY DEF FileContent, clientVars, Inv, Place
<1>2. /\ recvMsg \in Seq(Bytes) /\ rest \in Seq(Bytes) /\ content \in Seq(Bytes)
      /\ content \in Contents /\ before \in Seq(Bytes) /\ file \in Seq(Bytes)
      /\ request \in Fields
  BY <1>1, Received DEF Types
<1>3. PICK n \in 0..Len(content) : SavedSome(n) /\ Unread = Left(n) \o Terminator
  BY <1>1 DEF InContent
<1>4. /\ Left(n) \in Seq(Bytes) /\ Len(Left(n)) = Len(content) - n
      /\ Left(n) # <<>> => SubSeq(Left(n) \o Terminator, 1, 6) # Terminator
      /\ \A k \in 0..Len(Left(n)) :
           /\ n + k \in 0..Len(content)
           /\ SubSeq(content, 1, n) \o SubSeq(Left(n), 1, k) = SubSeq(content, 1, n + k)
           /\ SubSeq(Left(n), k + 1, Len(Left(n))) = Left(n + k)
  BY <1>2, LeftOver
<1>5. recvMsg \o rest = Left(n) \o Terminator
  BY <1>3 DEF Unread
<1>6. CASE MustWait
  <2>1. pc' = "recv" /\ UNCHANGED <<file, request>>
    BY <1>6 DEF FileContent, Goto
  <2> QED BY <1>1, <2>1, Onward DEF Inv, Place, OnTheWay
<1>7. CASE ~MustWait /\ AllSaved
  <2>1. /\ request' = [request EXCEPT !.fileMsgStatus = "COMPLATE"]
        /\ pc' = "fileEnd" /\ file' = file
    BY <1>7 DEF FileContent, Goto
  <2>2. Left(n) = <<>> /\ recvMsg = Terminator /\ rest = <<>>
    BY <1>2, <1>4, <1>5, <1>7, FindsTerminator
  <2>3. n = Len(content)
    BY <1>2, <1>4, <2>2, LenProperties
  <2>4. file = before \o content
    BY <1>2, <1>3, <2>3, SubSeqFull DEF SavedSome
  <2>5. /\ request' \in Fields /\ recvMsg' = recvMsg
        /\ request'.status = request.status /\ request'.method = request.method
        /\ request'.multipart = request.multipart
        /\ request'.recvFileName = request.recvFileName
        /\ request'.fileMsgStatus = "COMPLATE"
    BY <1>2, <2>1 DEF Fields, recvMsg
  <2>6. Types'
    BY <1>1, <2>1, <2>5 DEF Types
  <2>7. Terminator' = Terminator
    BY DEF Terminator, CRLF
  <2>8. AtFileEnd'
    BY <1>1, <2>1, <2>2, <2>4, <2>5 DEF AtFileEnd, InContent, InPart
  <2>9. Saved'
    BY <1>1, <2>1, SavedSame
  <2> QED BY <1>1, <2>1, <2>6, <2>8, <2>9 DEF Inv, Place
<1>8. CASE ~MustWait /\ ~AllSaved
  <2> DEFINE k == SaveLen
             t == SubSeq(recvMsg, k + 1, Len(recvMsg))
             s == SubSeq(recvMsg, 1, k)
  <2>1. /\ file' = file \o s
        /\ request' = [request EXCEPT !.recvMsg = t]
        /\ pc' = "content"
    <3>1. Save /\ UNCHANGED pc
      BY <1>8 DEF FileContent
    <3> QED BY <1>1, <3>1 DEF Save, recvMsg
  <2>2. k \in 0..Len(Left(n)) /\ k <= Len(recvMsg)
    BY <1>2, <1>4, <1>5, <1>8, SavesContent
  <2> HIDE DEF k
  <2>3. /\ s = SubSeq(Left(n), 1, k) /\ t \in Seq(Bytes)
        /\ t \o rest = SubSeq(Left(n), k + 1, Len(Left(n))) \o Terminator
    <3> HIDE DEF s, t
    <3> DEFINE m == recvMsg
               c == Left(n)
    <3>1. /\ m \in Seq(Bytes) /\ rest \in Seq(Bytes) /\ c \in Seq(Bytes)
          /\ m \o rest = c \o Terminator
          /\ k \in 0..Len(c) /\ k <= Len(m)
      BY <1>2, <1>4, <1>5, <2>2
    <3> HIDE DEF m, c
    <3>2. /\ SubSeq(m, 1, k) = SubSeq(c, 1, k)
          /\ SubSeq(m, k + 1, Len(m)) \in Seq(Bytes)
          /\ SubSeq(m, k + 1, Len(m)) \o rest = SubSeq(c, k + 1, Len(c)) \o Terminator
      BY <3>1, CutsContent
    <3> QED BY <3>2 DEF s, t, m, c
  <2>4. s \in Seq(Bytes)
    BY <1>2, <2>2, CutFront
  <2>5. /\ n + k \in 0..Len(content)
        /\ SubSeq(content, 1, n) \o s = SubSeq(content, 1, n + k)
        /\ t \o rest = Left(n + k) \o Terminator
    BY <1>4, <2>2, <2>3
  <2> HIDE DEF s, t
  <2>6. SubSeq(content, 1, n) \in Seq(Bytes)
    BY <1>2, CutFront
  <2>7. file' = before \o SubSeq(content, 1, n + k)
    <3> DEFINE x == SubSeq(content, 1, n)
    <3>1. before \in Seq(Bytes) /\ x \in Seq(Bytes) /\ s \in Seq(Bytes)
      BY <1>2, <2>4, <2>6
    <3> HIDE DEF x
    <3>2. (before \o x) \o s = before \o (x \o s)
      BY <3>1, Associates
    <3> QED BY <1>3, <2>1, <2>5, <3>2 DEF SavedSome, x
  <2>8. /\ request' \in Fields /\ recvMsg' = t
        /\ request'.status = request.status /\ request'.method = request.method
        /\ request'.multipart = request.multipart
        /\ request'.recvFileName = request.recvFileName
        /\ request'.fileMsgStatus = request.fileMsgStatus
    BY <1>2, <2>1, <2>3 DEF Fields, recvMsg
  <2>9. file' \in Seq(Bytes)
    BY <1>2, <2>1, <2>4, ConcatProperties
  <2>10. Types'
    BY <1>1, <2>1, <2>8, <2>9 DEF Types
  <2>11. PICK j \in 0..Len(content) :
           file' = before \o SubSeq(content, 1, j) /\ t \o rest = Left(j) \o Terminator
    BY <2>5, <2>7
  <2>12. SavedSome(j)' /\ Left(j)' = Left(j) /\ Len(content)' = Len(content)
    BY <1>1, <2>11 DEF SavedSome, Left
  <2>13. Unread' = Left(j)' \o Terminator
    BY <1>1, <2>8, <2>11, <2>12 DEF Unread
  <2>14. InContent'
    BY <1>1, <2>8, <2>12, <2>13 DEF InContent, InPart
  <2>15. Saved'
    BY <1>1, <2>12 DEF Saved, AnsweredIsSaved
  <2> QED BY <1>1, <2>1, <2>10, <2>14, <2>15 DEF Inv, Place
<1> QED BY <1>6, <1>7, <1>8

LEMMA FileEndStep ==
  ASSUME Inv, FileEnd
  PROVE  Inv'
<1>1. AtFileEnd /\ Complate("/redirect") /\ UNCHANGED <<clientVars, file, rest>>
  BY DEF FileEnd, Inv, Place
<1>2. Remainder
  BY <1>1, EmptySeq DEF AtFileEnd, Remainder
<1> QED BY <1>1, <1>2, Complated DEF AtFileEnd

LEMMA EndStep ==
  ASSUME Inv, End
  PROVE  Inv'
<1>1. /\ pc = "end" /\ pc' = "returned" /\ Types /\ Saved
      /\ UNCHANGED <<clientVars, file, rest, bodyFileName>>
      /\ UNCHANGED <<kind, content, attempt, framed, ahead, before>>
  BY DEF End, Goto, clientVars, Inv
<1>2. Saved'
  BY <1>1, SavedSame
<1>3. CASE request.status \in {"COMPLATE", "ERROR"} /\ Over
  <2>1. request' = NewRequest
    BY <1>3 DEF End
  <2>2. NewRequest \in Fields /\ NewRequest.recvMsg = <<>>
    BY EmptySeq DEF NewRequest, Fields
  <2>3. Types'
    BY <1>1, <2>1, <2>2 DEF Types
  <2>4. rest \in Seq(Plain) /\ (kind \in {"get", "upload"} => rest = <<>>)
    BY <1>3, EmptySeq DEF Over, Remainder
  <2>5. Remainder' /\ NewRequest' = NewRequest
    BY <1>1, <2>1, <2>2, <2>4 DEF Remainder, recvMsg, NewRequest
  <2> QED BY <1>1, <1>2, <2>1, <2>3, <2>5 DEF Inv, Place
<1>4. CASE kind = "unsavable" /\ bodyFileName = "" /\ InContent
  <2>1. request.status = "BODY"
    BY <1>4 DEF InContent, InPart
  <2>2. request' = request
    BY <2>1 DEF End
  <2>3. Types'
    BY <1>1, <2>2 DEF Types
  <2>4. Unread' = Unread
    BY <1>1, <2>2 DEF Unread, recvMsg
  <2>5. InContent'
    BY <1>1, <1>4, <2>2, <2>4, SamePlace
  <2> QED BY <1>1, <1>2, <1>4, <2>3, <2>5 DEF Inv, Place
<1> QED BY <1>1, <1>3, <1>4 DEF Inv, Place

(* The client sends the request again, behind what was left unread.        *)
LEMMA AgainStep ==
  ASSUME Inv, Again
  PROVE  Inv'
<1>1. /\ pc = "returned" /\ pc' = "recv" /\ Types /\ Saved
      /\ attempt' = attempt + 1 /\ attempt < Attempts /\ framed' \in BOOLEAN
      /\ framed' = (rest' = Message(kind, content)) /\ ahead' = FALSE
      /\ before' = file /\ bodyFileName' = ""
      /\ rest' = rest \o Message(kind, content)
      /\ UNCHANGED <<kind, content, file, request>> /\ request.status # "BODY"
  BY DEF Again, Goto, Inv, Types
<1>2. request = NewRequest /\ Remainder
  BY <1>1 DEF Inv, Place, InContent, InPart
<1>3. /\ recvMsg \in Seq(Bytes) /\ rest \in Seq(Bytes) /\ content \in Seq(Bytes)
      /\ kind \in AllKinds /\ content \in Contents /\ file \in Seq(Bytes)
  BY <1>1, Received DEF Types
<1>4. Whole \in Seq(Bytes) /\ rest' = rest \o Whole /\ (framed' <=> rest' = Whole)
  BY <1>1, <1>3, PlacesType, MessageLines
<1>5. recvMsg' = <<>> /\ Unread' = rest \o Whole
  <2>1. recvMsg' = <<>>
    BY <1>1, <1>2 DEF recvMsg, NewRequest
  <2>2. rest \o Whole \in Seq(Bytes)
    BY <1>3, <1>4, ConcatProperties
  <2> QED BY <1>4, <2>1, <2>2, ConcatEmptySeq DEF Unread
<1>6. Types'
  <2>1. attempt' \in 1..Attempts
    <3>1. attempt \in 1..Attempts
      BY <1>1 DEF Types
    <3>2. Attempts \in Nat
      BY ParserAssumption
    <3>3. attempt < Attempts /\ attempt' = attempt + 1
      BY <1>1
    <3> QED BY <3>1, <3>2, <3>3
  <2>2. kind \in {"get", "upload"} => framed'
    BY <1>2, <1>4, ConcatEmptySeq DEF Remainder
  <2>3. rest' \in Seq(Bytes)
    BY <1>3, <1>4, ConcatProperties
  <2> QED BY <1>1, <1>3, <2>1, <2>2, <2>3 DEF Types
<1>7. Saved'
  <2>1. 0 \in 0..Len(content) /\ SubSeq(content, 1, 0) = <<>>
    BY <1>3, LenProperties, SubSeqEmpty
  <2>2. file \o <<>> = file
    BY <1>3, ConcatEmptySeq
  <2>3. SavedSome(0)' /\ Len(content)' = Len(content)
    BY <1>1, <2>1, <2>2 DEF SavedSome
  <2> QED BY <1>1, <2>1, <2>3 DEF Saved, AnsweredIsSaved
<1>8. NoFile'
  BY <1>1, <1>2 DEF NoFile, NewRequest
<1>9. CASE rest = <<>>
  <2>1. Unread' = Whole
    BY <1>4, <1>5, <1>9, ConcatEmptySeq
  <2>2. Whole' = Whole
    BY <1>1 DEF Whole, FirstLine, AfterFirst, TypeLine, AfterType, BodyText, InParts, Part, Head1,
       Head2, Head3, Text
  <2>3. InRequestLine'
    BY <1>1, <1>2, <1>8, <2>1, <2>2 DEF InRequestLine, NewRequest
  <2> QED BY <1>1, <1>6, <1>7, <2>3 DEF Inv, Place, OnTheWay
<1>10. CASE rest # <<>>
  <2>1. kind \notin {"get", "upload"} /\ rest \in Seq(Plain)
    BY <1>2, <1>10 DEF Remainder
  <2>2. Len(rest) \in Nat /\ Len(rest) # 0 /\ Len(Whole) \in Nat
    BY <1>3, <1>4, <1>10, LenProperties, EmptySeq
  <2>3. (rest \o Whole)[1] = rest[1] /\ Len(rest \o Whole) # 0
    BY <1>3, <1>4, <2>2, ConcatProperties
  <2>4. rest[1] \in Plain
    BY <2>1, <2>2, ElementOfSeq
  <2>5. Unread' # <<>> /\ Unread'[1] \in Plain
    BY <1>5, <2>3, <2>4
  <2>6. Astray'
    BY <1>1, <1>2, <1>8, <2>1, <2>5 DEF Astray, NewRequest
  <2> QED BY <1>1, <1>6, <1>7, <2>6 DEF Inv, Place, OnTheWay
<1> QED BY <1>9, <1>10

LEMMA InvStep ==
  ASSUME ~Pipelined, Inv, [Next]_vars
  PROVE  Inv'
<1>1. CASE UNCHANGED vars
  <2>1. UNCHANGED <<kind, content, attempt, framed, ahead, before, file, rest, request, bodyFileName, pc>>
    BY <1>1 DEF vars, clientVars
  <2>2. Unread' = Unread
    BY <2>1 DEF Unread, recvMsg
  <2>3. Types' /\ Saved'
    BY <2>1, SavedSame DEF Inv, Types
  <2>4. /\ OnTheWay' <=> OnTheWay
        /\ AtBody' <=> AtBody
        /\ InPartHead' <=> InPartHead
        /\ InContent' <=> InContent
        /\ InParts' <=> InParts
    BY <2>1, <2>2, SamePlace
  <2>5. /\ AtFileEnd' <=> AtFileEnd
        /\ Remainder' <=> Remainder
        /\ Over' <=> Over
        /\ NewRequest' = NewRequest
    BY <2>1 DEF AtFileEnd, InPart, Remainder, Over, recvMsg, NewRequest
  <2> QED BY <2>1, <2>3, <2>4, <2>5 DEF Inv, Place
<1>2. CASE Next
  BY <1>2, RecvStep, RecvLostStep, RequestLineStep, HeadLineStep, BodyStep, BeginFlagStep,
     FileHeadStep, OpenStep, FileContentStep, FileEndStep, EndStep, AgainStep DEF Next, Handle, SendAhead
<1> QED BY <1>1, <1>2

LEMMA InvHolds == ASSUME ~Pipelined PROVE Spec => []Inv
<1>1. Inv /\ [Next]_vars => Inv'
  BY InvStep
<1> QED BY <1>1, InvInit, PTL DEF Spec
-----------------------------------------------------------------------------
(***************************************************************************)
(* Part 6: what the invariant says.                                        *)
(***************************************************************************)

(* The variables keep their types; in particular a file has one name: its  *)
(* header is read once, wherever the pieces end.                           *)
THEOREM TypeCorrect == ASSUME ~Pipelined PROVE Spec => []TypeOK
<1>1. Inv => TypeOK
  BY TypesImplyTypeOK DEF Inv
<1> QED BY <1>1, InvHolds, PTL

(* While the handler receives a file's content, the file, recvMsg and what *)
(* is still to come are together what they were at the beginning: however  *)
(* long the content, whatever its bytes and wherever the pieces end.       *)
THEOREM ContentConserved == ASSUME ~Pipelined PROVE Spec => []Conserved
<1>1. ASSUME Inv, request.status = "BODY", request.fileMsgStatus = "CONTENT"
      PROVE  file \o recvMsg \o rest = before \o content \o Terminator \o SentAhead
  <2>1. InContent
    <3>1. OnTheWay => InContent
      <4>1. InParts => ~(request.fileMsgStatus = "CONTENT" /\ AtBody)
        BY DEF AtBody
      <4>2. ~InParts => ~(request.fileMsgStatus = "CONTENT" /\ AtBody)
        BY DEF AtBody
      <4>3. Astray => FALSE
        BY <1>1 DEF Astray
      <4> QED BY <1>1, <4>1, <4>2, <4>3 DEF OnTheWay, InRequestLine, InHead, InPartHead
    <3>2. AtFileEnd => FALSE
      BY <1>1 DEF AtFileEnd
    <3>3. AtBody \/ InPartHead => FALSE
      BY <1>1 DEF AtBody, InPartHead
    <3>4. request # NewRequest
      <4>1. NewRequest.status = "INIT"
        BY DEF NewRequest
      <4> QED BY <1>1, <4>1
    <3>5. pc \in {"recv", "line", "head", "body", "flag", "fileHead", "open", "content",
                 "fileEnd", "end", "returned"}
      BY <1>1 DEF Inv, Types
    <3> QED BY <1>1, <3>1, <3>2, <3>3, <3>4, <3>5 DEF Inv, Place
  <2>2. /\ recvMsg \in Seq(Bytes) /\ rest \in Seq(Bytes) /\ content \in Seq(Bytes)
        /\ content \in Contents /\ before \in Seq(Bytes) /\ file \in Seq(Bytes)
        /\ Terminator \in Seq(Bytes)
    BY <1>1, Received, TerminatorSymbols DEF Inv, Types
  <2>3. PICK n \in 0..Len(content) : SavedSome(n) /\ Unread = Left(n) \o Terminator
    BY <2>1 DEF InContent
  <2> DEFINE s == SubSeq(content, 1, n)
  <2>4. s \in Seq(Bytes) /\ Left(n) \in Seq(Bytes) /\ s \o Left(n) = content
    <3>1. /\ Left(n) \in Seq(Bytes) /\ Len(Left(n)) = Len(content) - n
          /\ \A k \in 0..Len(Left(n)) :
               SubSeq(content, 1, n) \o SubSeq(Left(n), 1, k) = SubSeq(content, 1, n + k)
      BY <2>2, LeftOver
    <3>2. Len(content) \in Nat /\ Len(Left(n)) \in 0..Len(Left(n)) /\ n + Len(Left(n)) = Len(content)
      BY <2>2, <3>1, LenProperties
    <3>3. SubSeq(content, 1, n) \o SubSeq(Left(n), 1, Len(Left(n))) = SubSeq(content, 1, Len(content))
      BY <3>1, <3>2
    <3>4. SubSeq(Left(n), 1, Len(Left(n))) = Left(n) /\ SubSeq(content, 1, Len(content)) = content
      BY <2>2, <3>1, SubSeqFull
    <3>5. SubSeq(content, 1, n) \in Seq(Bytes)
      BY <2>2, CutFront
    <3> QED BY <3>1, <3>3, <3>4, <3>5
  <2>5. file = before \o s
    BY <2>3 DEF SavedSome
  <2> HIDE DEF s
  <2>6. (file \o recvMsg) \o rest = file \o (recvMsg \o rest)
    BY <2>2, Associates
  <2> DEFINE u == Left(n) \o Terminator
  <2>7. recvMsg \o rest = u /\ u \in Seq(Bytes)
    <3>1. Left(n) \o Terminator \in Seq(Bytes)
      BY <2>2, <2>4, ConcatProperties
    <3> QED BY <2>3, <3>1 DEF Unread
  <2> HIDE DEF u
  <2>8. (before \o s) \o u = before \o (s \o u)
    <3>1. before \in Seq(Bytes) /\ s \in Seq(Bytes) /\ u \in Seq(Bytes)
      BY <2>2, <2>4, <2>7
    <3> QED BY <3>1, Associates
  <2>9. s \o u = content \o Terminator
    <3> DEFINE l == Left(n)
    <3>1. l \in Seq(Bytes) /\ s \in Seq(Bytes) /\ Terminator \in Seq(Bytes)
      BY <2>2, <2>4
    <3> HIDE DEF l
    <3>2. (s \o l) \o Terminator = s \o (l \o Terminator)
      BY <3>1, Associates
    <3> QED BY <2>4, <3>2 DEF u, l
  <2>10. before \o (content \o Terminator) = (before \o content) \o Terminator
    BY <2>2, Associates
  <2> DEFINE all == before \o content \o Terminator
  <2>11. all \in Seq(Bytes)
    <3>1. before \o content \in Seq(Bytes)
      BY <2>2, ConcatProperties
    <3> QED BY <2>2, <3>1, ConcatProperties
  <2>12. file \o recvMsg \o rest = all
    BY <2>4, <2>5, <2>6, <2>7, <2>8, <2>9, <2>10
  <2> HIDE DEF all
  <2>13. all \o SentAhead = all
    BY <1>1, <2>11, ConcatEmptySeq DEF SentAhead, Inv, Types
  <2> QED BY <2>12, <2>13 DEF all
<1>2. Inv => Conserved
  BY <1>1 DEF Conserved
<1> QED BY <1>2, InvHolds, PTL

(* Nothing but content is ever written to a file.                          *)
THEOREM SavesContentOnly == ASSUME ~Pipelined PROVE Spec => []SavesOnlyContent
<1>1. ASSUME Inv PROVE SavesOnlyContent
  <2>1. content \in Seq(Bytes) /\ before \in Seq(Bytes)
    BY <1>1, Received DEF Inv, Types
  <2>2. PICK n \in 0..Len(content) : file = before \o SubSeq(content, 1, n)
    BY <1>1 DEF Inv, Saved, SavedSome
  <2>3. Len(content) \in Nat /\ Len(before) \in Nat /\ before \o content \in Seq(Bytes)
    BY <2>1, LenProperties, ConcatProperties
  <2>4. SubSeq(content, 1, n) \in Seq(Bytes) /\ Len(SubSeq(content, 1, n)) = n
        /\ \A i \in 1..n : SubSeq(content, 1, n)[i] = content[i]
    BY <2>1, <2>3, SubSeqProperties
  <2> DEFINE s == SubSeq(content, 1, n)
             m == Len(before) + n
  <2> HIDE DEF s
  <2>5. /\ file \in Seq(Bytes) /\ Len(file) = m
        /\ \A i \in 1..m : file[i] = IF i <= Len(before) THEN before[i] ELSE s[i - Len(before)]
    BY <2>1, <2>2, <2>4, ConcatProperties DEF s
  <2>6. /\ Len(before \o content) = Len(before) + Len(content)
        /\ \A i \in 1..(Len(before) + Len(content)) :
             (before \o content)[i] = IF i <= Len(before) THEN before[i]
                                      ELSE content[i - Len(before)]
    BY <2>1, ConcatProperties
  <2>7. \A i \in 1..m : file[i] = (before \o content)[i]
    BY <2>3, <2>4, <2>5, <2>6 DEF s
  <2> DEFINE all == before \o content
  <2>8. all \in Seq(Bytes) /\ m \in Nat /\ m <= Len(all)
    BY <2>2, <2>3, <2>6
  <2>9. \A i \in 1..m : file[i] = all[i]
    BY <2>7
  <2> HIDE DEF all, m
  <2>10. SubSeq(file, 1, m) = SubSeq(all, 1, m)
    <3>1. /\ SubSeq(file, 1, m) \in Seq(Bytes) /\ Len(SubSeq(file, 1, m)) = m
          /\ \A i \in 1..m : SubSeq(file, 1, m)[i] = file[i]
      BY <2>5, <2>8, SubSeqProperties
    <3>2. /\ SubSeq(all, 1, m) \in Seq(Bytes) /\ Len(SubSeq(all, 1, m)) = m
          /\ \A i \in 1..m : SubSeq(all, 1, m)[i] = all[i]
      BY <2>8, SubSeqProperties
    <3> QED BY <2>8, <2>9, <3>1, <3>2, SeqEqual
  <2>11. Len(file) = m /\ m <= Len(before \o content)
         /\ SubSeq(file, 1, m) = SubSeq(before \o content, 1, m)
    BY <2>5, <2>8, <2>10 DEF all
  <2> QED BY <2>11 DEF SavesOnlyContent, IsPrefix
<1> QED BY <1>1, InvHolds, PTL

(* An upload that is answered is in its file, all of it and in order.      *)
THEOREM AnswersAreSaved == ASSUME ~Pipelined PROVE Spec => []AnsweredIsSaved
<1>1. Inv => AnsweredIsSaved
  BY DEF Inv, Saved
<1> QED BY <1>1, InvHolds, PTL

(* The request of a client that waits for its answers always begins where  *)
(* a request line is expected: a GET and an upload that are answered have  *)
(* been read to their last byte, however often they are sent and wherever  *)
(* the pieces end, and what is left in recvMsg when they are answered is   *)
(* at most the terminator of the upload itself.  (A client that does not   *)
(* wait can lose bytes of its next request: see FrameKept.)                *)
THEOREM RequestsReadToTheEnd == ASSUME ~Pipelined PROVE Spec => []FrameKept
<1>1. ASSUME Inv, kind \in {"get", "upload"}, bodyFileName # ""
      PROVE  /\ framed /\ rest = <<>>
             /\ \E done \in {<<>>, Terminator} : recvMsg \o rest = done \o SentAhead
  <2>1. framed /\ SentAhead = <<>>
    BY <1>1 DEF Inv, Types, SentAhead
  <2>2. rest = <<>> /\ recvMsg \in {<<>>, Terminator}
    BY <1>1 DEF Inv, Place, Over, Remainder
  <2>3. recvMsg \o rest = recvMsg \o SentAhead
    BY <2>1, <2>2
  <2> QED BY <2>1, <2>2, <2>3
<1>2. Inv /\ kind \in {"get", "upload"} => framed
  BY DEF Inv, Types
<1>3. Inv => FrameKept
  BY <1>1, <1>2 DEF FrameKept
<1> QED BY <1>3, InvHolds, PTL
=============================================================================
