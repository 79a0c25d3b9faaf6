------------------------- MODULE FileServiceProofs -------------------------
(***************************************************************************)
(* Proofs about module FileService, for any number of jobs, names, pieces  *)
(* and descriptors, whatever the jobs ask for.                             *)
(***************************************************************************)
EXTENDS FileService, FiniteSetTheorems, SequenceTheorems, WellFoundedInduction, TLAPS

(***************************************************************************)
(* Part 1: beginnings of sequences.                                        *)
(***************************************************************************)
Beginning(s, t) == Len(s) <= Len(t) /\ \A i \in 1..Len(s) : s[i] = t[i]

LEMMA BeginningIsPrefix ==
  ASSUME NEW S, NEW s \in Seq(S), NEW t \in Seq(S), Beginning(s, t)
  PROVE  IsPrefix(s, t)
<1>1. Len(s) \in Nat /\ Len(t) \in Nat /\ Len(s) <= Len(t)
  BY LenProperties DEF Beginning
<1>2. \A i \in 1..Len(s) : s[i] \in S /\ t[i] \in S
  BY <1>1, ElementOfSeq
<1>3. /\ SubSeq(t, 1, Len(s)) \in Seq(S) /\ Len(SubSeq(t, 1, Len(s))) = Len(s)
      /\ \A i \in 1..Len(s) : SubSeq(t, 1, Len(s))[i] = t[i]
  <2>1. 1 \in Int /\ Len(s) \in Int
    BY <1>1
  <2>2. /\ SubSeq(t, 1, Len(s)) \in Seq(S)
        /\ Len(SubSeq(t, 1, Len(s))) = IF 1 <= Len(s) THEN Len(s) - 1 + 1 ELSE 0
        /\ \A i \in 1..(Len(s) - 1 + 1) : SubSeq(t, 1, Len(s))[i] = t[1 + i - 1]
    BY <2>1, <1>2, SubSeqProperties
  <2> QED BY <2>2, <1>1
<1>4. SubSeq(s, 1, Len(s)) = s
  BY SubSeqFull
<1>5. s = SubSeq(t, 1, Len(s))
  BY <1>1, <1>3, SeqEqual DEF Beginning
<1> QED BY <1>1, <1>4, <1>5 DEF IsPrefix

(* What a send adds to what the client has is what comes next, if it is    *)
(* taken from anything that begins with the body.                          *)
LEMMA SendsWhatComesNext ==
  ASSUME NEW S, NEW g \in Seq(S), NEW body \in Seq(S), NEW content \in Seq(S),
         Beginning(g, body), Beginning(body, content),
         NEW total \in Nat, Len(g) <= total, total <= Len(body)
  PROVE  LET more == g \o SubSeq(content, Len(g) + 1, total) IN
         more \in Seq(S) /\ Len(more) = total /\ Beginning(more, body)
<1> DEFINE tail == SubSeq(content, Len(g) + 1, total)
<1>1. /\ Len(g) \in Nat /\ Len(body) \in Nat /\ Len(content) \in Nat
      /\ Len(body) <= Len(content)
  BY LenProperties DEF Beginning
<1>2. \A i \in (Len(g) + 1)..total : content[i] \in S
  BY <1>1, ElementOfSeq
<1>3. Len(g) + 1 \in Int /\ total \in Int
  BY <1>1
<1>4. /\ tail \in Seq(S)
      /\ Len(tail) = IF Len(g) + 1 <= total THEN total - (Len(g) + 1) + 1 ELSE 0
      /\ \A i \in 1..(total - (Len(g) + 1) + 1) : tail[i] = content[Len(g) + 1 + i - 1]
  BY <1>2, <1>3, SubSeqProperties
<1>5. Len(tail) = total - Len(g) /\ \A i \in 1..Len(tail) : tail[i] = content[Len(g) + i]
  BY <1>1, <1>4
<1>6. /\ g \o tail \in Seq(S) /\ Len(g \o tail) = Len(g) + Len(tail)
      /\ \A i \in 1..(Len(g) + Len(tail)) :
           (g \o tail)[i] = IF i <= Len(g) THEN g[i] ELSE tail[i - Len(g)]
  BY <1>4, ConcatProperties
<1>7. \A i \in 1..total : (g \o tail)[i] = body[i]
  <2> SUFFICES ASSUME NEW i \in 1..total PROVE (g \o tail)[i] = body[i]
    OBVIOUS
  <2>1. CASE i <= Len(g)
    BY <2>1, <1>1, <1>5, <1>6 DEF Beginning
  <2>2. CASE ~(i <= Len(g))
    <3>1. i - Len(g) \in 1..Len(tail) /\ Len(g) + (i - Len(g)) = i
      BY <2>2, <1>1, <1>5
    <3>2. (g \o tail)[i] = content[i]
      BY <2>2, <3>1, <1>1, <1>5, <1>6
    <3> QED BY <3>2, <1>1 DEF Beginning
  <2> QED BY <2>1, <2>2
<1> QED BY <1>1, <1>5, <1>6, <1>7 DEF Beginning

LEMMA BeginningTransitive ==
  ASSUME NEW S, NEW s \in Seq(S), NEW t \in Seq(S), NEW u \in Seq(S),
         Beginning(s, t), Beginning(t, u)
  PROVE  Beginning(s, u)
BY LenProperties DEF Beginning

LEMMA BeginningReflexive == ASSUME NEW S, NEW s \in Seq(S) PROVE Beginning(s, s)
BY LenProperties DEF Beginning

LEMMA BeginningWhole ==
  ASSUME NEW S, NEW s \in Seq(S), NEW t \in Seq(S), Beginning(s, t), Len(s) = Len(t)
  PROVE  s = t
BY SeqEqual DEF Beginning

(***************************************************************************)
(* Part 2: the invariant.  What a client has been sent and what is still   *)
(* to be sent is bound to the body the answer was built for, and that is a *)
(* beginning of the file for as long as the file is needed: files only     *)
(* grow.  The descriptors are counted along with it, since the type of     *)
(* free depends on the count.                                              *)
(***************************************************************************)
Unanswered == {"begin", "scan", "stat", "receive", "write"}

(* The Response of job j, its body and what the client has. *)
AnswerOf(j) ==
  LET r == response[j] IN
  /\ pc[j] \in {"head", "body", "sent"} =>
       /\ r.msgBodyLen = Len(original[j])
       /\ r.beforeBodyMsg.contentLength = Len(original[j])
       /\ r.curStatusHasSendLen = Len(got[j])
       /\ r.bodyType = "HTML" => r.msgBody = original[j]
       /\ r.bodyType = "EMPTY" => original[j] = <<>>
  /\ pc[j] \in {"head", "body"} /\ r.bodyType = "FILE" =>
       Beginning(original[j], data[file[j]])

SentTo(j) ==
  /\ pc[j] \in Unanswered \cup {"head"} => head[j] = NONE /\ got[j] = <<>>
  /\ pc[j] \in {"body", "sent", "done"} => head[j] # NONE
  /\ head[j] # NONE => head[j].contentLength = Len(original[j])
  /\ Beginning(got[j], original[j])
  /\ pc[j] \in {"sent", "done"} => Len(got[j]) = Len(original[j])

(* A job takes a descriptor only when it has none. *)
NotOpenYet(j) ==
  /\ pc[j] \in Unanswered \ {"scan"} => scan[j] = NONE
  /\ pc[j] \in {"begin", "scan", "receive"} => file[j] = NONE

JobInv == \A j \in Jobs : AnswerOf(j) /\ SentTo(j) /\ NotOpenYet(j)

(* The descriptors that are missing, by the jobs that hold them.           *)
Opening == {j \in Jobs : file[j] # NONE}
Listing == {j \in Jobs : scan[j] # NONE}
Balanced == Descriptors - free = Cardinality(Opening) + Cardinality(Listing)

Inv == TypeOK /\ JobInv /\ Balanced

Step(j) == SendNext(j) \/ RecvNext(j) \/ Break(j)

LEMMA PieceIsItem == Seq(Piece) \subseteq Seq(Items)
<1> SUFFICES ASSUME NEW s \in Seq(Piece) PROVE s \in Seq(Items)
  OBVIOUS
<1> QED BY SeqMonotonic DEF Items

(* Watching the directory changes what readers know, not who reads.        *)
LEMMA WatchedReaders ==
  ASSUME TypeOK, NEW d
  PROVE  /\ Watched(d) \in [Jobs -> Scans \cup {NONE}]
         /\ \A j \in Jobs : Watched(d)[j] = NONE <=> scan[j] = NONE
<1>1. Present(d) \subseteq Names
  BY DEF Present
<1>2. ASSUME NEW j \in Jobs, pc[j] = "scan"
      PROVE  /\ scan[j] \in Scans
             /\ [scan[j] EXCEPT !.always = @ \cap Present(d),
                                !.ever = @ \cup Present(d)] \in Scans
  BY <1>1, <1>2 DEF TypeOK, Scans
<1> QED BY <1>2, NoneAssumption DEF Watched, TypeOK

(* There is room for the descriptor that a job with an open file returns.  *)
LEMMA CanReturn ==
  ASSUME Inv, NEW j \in Jobs, file[j] # NONE
  PROVE  free + 1 \in 0..Descriptors
<1>1. IsFiniteSet(Opening) /\ IsFiniteSet(Listing) /\ Opening # {}
  BY ServiceAssumption, FS_Subset DEF Opening, Listing
<1>2. /\ Cardinality(Opening) \in Nat /\ Cardinality(Listing) \in Nat
      /\ Cardinality(Opening) # 0
  BY <1>1, FS_CardinalityType, FS_EmptySet
<1>3. Descriptors - free = Cardinality(Opening) + Cardinality(Listing)
  BY DEF Inv, Balanced
<1> QED BY <1>2, <1>3, ServiceAssumption DEF Inv, TypeOK

(* An answer that is built fits the types.                                 *)
LEMMA BuildTypes ==
  ASSUME TypeOK, NEW j \in Jobs, NEW answer \in Answers, NEW body \in Seq(Items),
         Build(j, answer, body), answer.bodyType = "FILE" => file[j] # NONE,
         UNCHANGED <<alive, fileVars, bodyFileName, upload, file, scan, clientVars>>
  PROVE  TypeOK'
<1> USE DEF TypeOK, Build, Goto, fileVars, clientVars, Steps
<1>1. /\ response' \in [Jobs -> Answers \cup {NONE}]
      /\ original' \in [Jobs -> Seq(Items)] /\ pc' \in [Jobs -> Steps]
  OBVIOUS
<1>2. answer # NONE
  BY NoneAssumption
<1>3. ASSUME NEW k \in Jobs
      PROVE  /\ pc'[k] \in {"receive", "write"} => upload[k] # NONE /\ upload[k].next <= Pieces
             /\ pc'[k] \in {"stat", "write"} => file[k] # NONE
             /\ pc'[k] = "scan" => scan[k] # NONE
             /\ pc'[k] \in {"head", "body", "sent", "done"} => response'[k] # NONE
             /\ pc'[k] \in {"head", "body"} /\ response'[k].bodyType = "FILE" => file[k] # NONE
  BY <1>2
<1> QED BY <1>1, <1>3

LEMMA MinOfTwo ==
  ASSUME NEW a \in Int, NEW b \in Int
  PROVE  Min({a, b}) = IF a <= b THEN a ELSE b
<1>1. PICK m \in {a, b} : \A y \in {a, b} : m <= y
  OBVIOUS
<1>2. Min({a, b}) \in {a, b} /\ \A y \in {a, b} : Min({a, b}) <= y
  BY <1>1 DEF Min
<1> QED BY <1>2

(* Whatever the counts of send and sendfile, what a client has is the next *)
(* piece longer, and never longer than the answer.                         *)
LEMMA SendBodySends ==
  ASSUME Inv, NEW j \in Jobs, SendBody(j)
  PROVE  \E total \in Nat, more \in Seq(Items) :
           /\ Len(got[j]) <= total /\ total <= Len(original[j])
           /\ Len(more) = total /\ Beginning(more, original[j])
           /\ response' = [response EXCEPT ![j].curStatusHasSendLen = total]
           /\ got' = [got EXCEPT ![j] = more]
           /\ pc' = [pc EXCEPT ![j] = IF total >= Len(original[j]) THEN "sent" ELSE "body"]
<1> DEFINE r == response[j]
           content == IF r.bodyType = "FILE" THEN data[file[j]] ELSE r.msgBody
<1>1. /\ pc[j] = "body" /\ r \in Answers /\ r.bodyType \in {"FILE", "HTML"}
      /\ original[j] \in Seq(Items) /\ got[j] \in Seq(Items)
  BY DEF Inv, TypeOK, SendBody, Answers
<1>2. /\ r.msgBodyLen = Len(original[j]) /\ r.curStatusHasSendLen = Len(got[j])
      /\ Beginning(got[j], original[j])
  BY <1>1 DEF Inv, JobInv, AnswerOf, SentTo
<1>3. content \in Seq(Items) /\ Beginning(original[j], content)
  <2>1. CASE r.bodyType = "FILE"
    <3>1. file[j] \in DOMAIN data
      BY <1>1, <2>1 DEF Inv, TypeOK
    <3>2. data[file[j]] \in Seq(Items)
      BY <3>1, ElementOfSeq, LenProperties, PieceIsItem DEF Inv, TypeOK
    <3> QED BY <1>1, <2>1, <3>2 DEF Inv, JobInv, AnswerOf
  <2>2. CASE r.bodyType = "HTML"
    BY <1>1, <2>2, BeginningReflexive DEF Inv, JobInv, AnswerOf
  <2> QED BY <1>1, <2>1, <2>2
<1>4. /\ Len(got[j]) \in Nat /\ Len(original[j]) \in Nat /\ Len(content) \in Nat
      /\ Len(got[j]) <= Len(original[j]) /\ Len(original[j]) <= Len(content)
  BY <1>1, <1>2, <1>3, LenProperties DEF Beginning
<1>5. Rest(r, content) = Len(original[j]) - Len(got[j])
  <2>1. Min({Len(original[j]), Len(content)}) = Len(original[j])
    <3> HIDE DEF r, content
    <3>1. Len(original[j]) \in Int /\ Len(content) \in Int
      BY <1>4
    <3>2. Min({Len(original[j]), Len(content)})
            = IF Len(original[j]) <= Len(content) THEN Len(original[j]) ELSE Len(content)
      BY <3>1, MinOfTwo
    <3> QED BY <1>4, <3>2
  <2>2. Rest(r, content) = Min({r.msgBodyLen, Len(content)}) - r.curStatusHasSendLen
    BY DEF Rest
  <2> HIDE DEF r, content
  <2> QED BY <1>2, <2>1, <2>2
<1>6. ASSUME NEW sentLen \in Counts(r, content)
      PROVE  sentLen \in 0..(Len(original[j]) - Len(got[j]))
  <2> DEFINE left == Len(original[j]) - Len(got[j])
  <2>1. left \in Nat /\ MaxChunk \in Nat \ {0}
    BY <1>4, ServiceAssumption
  <2>2. Max({left, 0}) = left
    <3>1. PICK m \in {left, 0} : \A y \in {left, 0} : m >= y
      BY <2>1
    <3>2. Max({left, 0}) \in {left, 0} /\ \A y \in {left, 0} : Max({left, 0}) >= y
      BY <3>1 DEF Max
    <3> HIDE DEF left
    <3> QED BY <2>1, <3>2
  <2>3. Min({left, MaxChunk}) \in Int /\ Min({left, MaxChunk}) <= left
    <3> HIDE DEF left
    <3> QED BY <2>1, MinOfTwo
  <2>4. Counts(r, content) \subseteq {Max({left, 0})} \cup 1..Min({left, MaxChunk})
    BY <1>5 DEF Counts
  <2>5. sentLen = left \/ sentLen \in 1..Min({left, MaxChunk})
    BY <1>6, <2>2, <2>4
  <2> HIDE DEF left
  <2>6. sentLen \in 0..left
    BY <2>1, <2>3, <2>5
  <2> QED BY <2>6 DEF left
<1>7. PICK sentLen \in Counts(r, content) :
        LET total == r.curStatusHasSendLen + sentLen IN
        /\ response' = [response EXCEPT ![j].curStatusHasSendLen = total]
        /\ got' = [got EXCEPT ![j] =
                     @ \o SubSeq(content, r.curStatusHasSendLen + 1, total)]
        /\ pc' = [pc EXCEPT ![j] = IF total >= r.msgBodyLen THEN "sent" ELSE "body"]
  BY DEF SendBody, Goto
<1> DEFINE total == Len(got[j]) + sentLen
           more == got[j] \o SubSeq(content, Len(got[j]) + 1, total)
<1>8. total \in Nat /\ Len(got[j]) <= total /\ total <= Len(original[j])
  <2>1. sentLen \in 0..(Len(original[j]) - Len(got[j]))
    BY <1>6
  <2> QED BY <1>4, <2>1
<1>9. more \in Seq(Items) /\ Len(more) = total /\ Beginning(more, original[j])
  <2> HIDE DEF content, total
  <2> QED BY <1>1, <1>2, <1>3, <1>8, SendsWhatComesNext
<1>10. /\ response' = [response EXCEPT ![j].curStatusHasSendLen = total]
       /\ got' = [got EXCEPT ![j] = more]
       /\ pc' = [pc EXCEPT ![j] = IF total >= Len(original[j]) THEN "sent" ELSE "body"]
  BY <1>1, <1>2, <1>7 DEF Inv, TypeOK
<1> QED BY <1>8, <1>9, <1>10

(* Files only grow.                                                        *)
Growing ==
  \A i \in DOMAIN data : i \in DOMAIN data' /\ Beginning(data[i], data'[i])

LEMMA ReceiveGrows ==
  ASSUME Inv, NEW j \in Jobs, Receive(j), free # 0
  PROVE  /\ data' \in Seq(Seq(Piece)) /\ Growing
         /\ dir' \in [Names -> DOMAIN data' \cup {NONE}]
         /\ file' = [file EXCEPT ![j] = dir'[upload[j].name]]
         /\ dir'[upload[j].name] \in DOMAIN data'
<1> DEFINE name == upload[j].name
<1>1. name \in Names /\ data \in Seq(Seq(Piece))
  BY DEF Inv, TypeOK, Receive, Uploads
<1>2. DOMAIN data = 1..Len(data) /\ Len(data) \in Nat
  BY <1>1, LenProperties
<1>3. \A i \in DOMAIN data : data[i] \in Seq(Piece)
  BY <1>1, <1>2, ElementOfSeq
<1>4. /\ dir' = [dir EXCEPT ![name] = IF @ = NONE THEN Len(data) + 1 ELSE @]
      /\ data' = IF dir[name] = NONE THEN Append(data, <<>>) ELSE data
      /\ file' = [file EXCEPT ![j] = dir'[name]]
  BY DEF Receive, Opened
<1>5. CASE dir[name] = NONE
  <2>1. <<>> \in Seq(Piece)
    BY EmptySeq
  <2>2. /\ data' \in Seq(Seq(Piece)) /\ Len(data') = Len(data) + 1
        /\ \A i \in 1..Len(data) : data'[i] = data[i]
    BY <1>1, <1>4, <1>5, <2>1, AppendProperties
  <2>3. DOMAIN data' = 1..(Len(data) + 1)
    BY <2>2, LenProperties
  <2>4. Growing
    BY <1>2, <1>3, <2>2, <2>3, BeginningReflexive DEF Growing
  <2>5. dir' \in [Names -> DOMAIN data' \cup {NONE}] /\ dir'[name] = Len(data) + 1
    BY <1>1, <1>2, <1>4, <1>5, <2>3 DEF Inv, TypeOK
  <2> QED BY <1>2, <1>4, <2>2, <2>3, <2>4, <2>5
<1>6. CASE dir[name] # NONE
  <2>1. data' = data /\ dir' = dir
    BY <1>1, <1>4, <1>6 DEF Inv, TypeOK
  <2>2. Growing
    BY <1>3, <2>1, BeginningReflexive DEF Growing
  <2> QED BY <1>1, <1>4, <1>6, <2>1, <2>2 DEF Inv, TypeOK
<1> QED BY <1>5, <1>6

LEMMA WriteGrows ==
  ASSUME Inv, NEW j \in Jobs, Write(j)
  PROVE  data' \in Seq(Seq(Piece)) /\ DOMAIN data' = DOMAIN data /\ Growing
<1> DEFINE piece == <<j, upload[j].next>>
<1>1. /\ data \in Seq(Seq(Piece)) /\ file[j] \in DOMAIN data
      /\ upload[j] \in Uploads /\ upload[j].next <= Pieces
  BY DEF Inv, TypeOK, Write
<1>2. piece \in Piece
  BY <1>1, ServiceAssumption DEF Uploads, Piece
<1>3. DOMAIN data = 1..Len(data) /\ Len(data) \in Nat
  BY <1>1, LenProperties
<1>4. \A i \in DOMAIN data : data[i] \in Seq(Piece)
  BY <1>1, <1>3, ElementOfSeq
<1>5. /\ Append(data[file[j]], piece) \in Seq(Piece)
      /\ Beginning(data[file[j]], Append(data[file[j]], piece))
  BY <1>1, <1>2, <1>4, AppendProperties, LenProperties DEF Beginning
<1>6. data' = [data EXCEPT ![file[j]] = Append(data[file[j]], piece)]
  BY DEF Write
<1>7. /\ data' \in Seq(Seq(Piece)) /\ Len(data') = Len(data)
      /\ \A i \in 1..Len(data) :
           data'[i] = IF i = file[j] THEN Append(data[file[j]], piece) ELSE data[i]
  BY <1>1, <1>3, <1>5, <1>6, ExceptSeq
<1>8. DOMAIN data' = DOMAIN data
  BY <1>3, <1>7, LenProperties
<1> QED BY <1>3, <1>4, <1>5, <1>7, <1>8, BeginningReflexive DEF Growing

LEMMA TypesStep ==
  ASSUME Inv, NEW j \in Jobs, Step(j)
  PROVE  TypeOK'
<1> USE DEF Inv, Goto, Steps, Redirect, Begins
<1>1. CASE OpenDir(j)
  <2>1. free # 0 => free - 1 \in 0..Descriptors
    BY ServiceAssumption DEF TypeOK
  <2>2. [read |-> {}, resVec |-> <<>>, always |-> Present(dir), ever |-> Present(dir)]
          \in Scans
    BY EmptySeq DEF Scans, Present
  <2>3. CASE free = 0
    BY <1>1, <2>3 DEF OpenDir, TypeOK, answerVars, clientVars
  <2>4. CASE free # 0
    <3> DEFINE new == [read |-> {}, resVec |-> <<>>,
                       always |-> Present(dir), ever |-> Present(dir)]
    <3>a. scan' = [scan EXCEPT ![j] = new]
      BY <1>1, <2>4 DEF OpenDir
    <3>b. new \in Scans /\ new # NONE
      BY <2>2, NoneAssumption
    <3> HIDE DEF new
    <3>1. scan' \in [Jobs -> Scans \cup {NONE}] /\ scan'[j] # NONE
          /\ \A k \in Jobs \ {j} : scan'[k] = scan[k]
      BY <3>a, <3>b DEF TypeOK
    <3>2. pc' = [pc EXCEPT ![j] = "scan"] /\ free' \in 0..Descriptors
      BY <1>1, <2>1, <2>4 DEF OpenDir
    <3> QED BY <1>1, <2>4, <3>1, <3>2 DEF OpenDir, TypeOK, answerVars, clientVars
  <2> QED BY <2>3, <2>4
<1>2. CASE ReadDir(j)
  <2>1. scan[j] \in Scans
    BY <1>2 DEF ReadDir, TypeOK
  <2>2. scan' \in [Jobs -> Scans \cup {NONE}] /\ \A k \in Jobs : scan'[k] = NONE <=> scan[k] = NONE
    <3>1. PICK entry \in (scan[j].ever \cup Dots) \ scan[j].read :
            scan' = [scan EXCEPT ![j].read = @ \cup {entry},
                                 ![j].resVec = IF entry \in Dots THEN @ ELSE Append(@, entry)]
      BY <1>2 DEF ReadDir
    <3>2. entry \in Dots \cup Names
      BY <2>1, <3>1 DEF Scans
    <3>3. scan[j].read \cup {entry} \in SUBSET (Names \cup Dots)
      BY <2>1, <3>2 DEF Scans
    <3>4. (IF entry \in Dots THEN scan[j].resVec ELSE Append(scan[j].resVec, entry)) \in Seq(Names)
      BY <2>1, <3>2, AppendProperties DEF Scans
    <3>5. scan'[j] = [scan[j] EXCEPT !.read = @ \cup {entry},
                        !.resVec = IF entry \in Dots THEN @ ELSE Append(@, entry)]
      BY <2>1, <3>1 DEF TypeOK
    <3>6. scan'[j] \in Scans
      BY <2>1, <3>3, <3>4, <3>5 DEF Scans
    <3> QED BY <2>1, <3>1, <3>6, NoneAssumption DEF TypeOK
  <2> QED BY <1>2, <2>2 DEF ReadDir, TypeOK, fileVars, answerVars, clientVars
<1>3. CASE BuildPage(j)
  <2> DEFINE page == <<"frame">> \o scan[j].resVec
  <2>1. scan[j] \in Scans
    BY <1>3 DEF BuildPage, TypeOK
  <2>2. page \in Seq(Items)
    <3>1. scan[j].resVec \in Seq(Items)
      BY <2>1, SeqMonotonic DEF Scans, Items
    <3>2. <<"frame">> \in Seq(Items)
      BY DEF Items
    <3> QED BY <3>1, <3>2, ConcatProperties
  <2>3. CASE free = 0
    BY <1>3, <2>3 DEF BuildPage, TypeOK, Ended, fileVars, answerVars, clientVars
  <2>4. CASE free # 0
    <3>1. Response("HTML", page, Len(page), MessageHeader(Len(page), "html")) \in Answers
      BY <2>2, LenProperties DEF Response, MessageHeader, Answers, Heads
    <3>2. Response("HTML", page, Len(page), MessageHeader(Len(page), "html")).bodyType # "FILE"
      BY DEF Response
    <3> QED BY <1>3, <2>2, <2>4, <3>1, <3>2, BuildTypes DEF BuildPage
  <2> QED BY <2>3, <2>4
<1>4. CASE OpenFile(j)
  <2>1. ASSUME NEW n \in Existing(bodyFileName[j]) PROVE dir[n] \in DOMAIN data
    BY <2>1 DEF Existing, Named, TypeOK
  <2>2. free # 0 => free - 1 \in 0..Descriptors
    BY ServiceAssumption DEF TypeOK
  <2>3. DOMAIN data \subseteq Nat
    BY LenProperties DEF TypeOK
  <2>4. CASE Existing(bodyFileName[j]) = {} \/ free = 0
    BY <1>4, <2>4 DEF OpenFile, TypeOK, answerVars, clientVars
  <2>5. CASE ~(Existing(bodyFileName[j]) = {} \/ free = 0)
    <3>1. PICK n \in Existing(bodyFileName[j]) : file' = [file EXCEPT ![j] = dir[n]]
      BY <1>4, <2>5 DEF OpenFile
    <3>2. dir[n] \in DOMAIN data /\ dir[n] # NONE
      BY <2>1, <2>3, ServiceAssumption
    <3>3. file' \in [Jobs -> DOMAIN data \cup {NONE}] /\ file'[j] # NONE
          /\ \A k \in Jobs \ {j} : file'[k] = file[k]
      BY <3>1, <3>2 DEF TypeOK
    <3>4. pc' = [pc EXCEPT ![j] = "stat"] /\ free' \in 0..Descriptors
      BY <1>4, <2>2, <2>5 DEF OpenFile
    <3> QED BY <1>4, <2>5, <3>3, <3>4 DEF OpenFile, TypeOK, answerVars, clientVars
  <2> QED BY <2>4, <2>5
<1>5. CASE StatFile(j)
  <2>1. file[j] \in DOMAIN data /\ file[j] # NONE
    BY <1>5 DEF StatFile, TypeOK
  <2>2. data[file[j]] \in Seq(Items)
    BY <2>1, ElementOfSeq, LenProperties, PieceIsItem DEF TypeOK
  <2>3. Response("FILE", <<>>, Len(data[file[j]]), MessageHeader(Len(data[file[j]]), "file"))
          \in Answers
    BY <2>2, LenProperties, EmptySeq DEF Response, MessageHeader, Answers, Heads
  <2> QED BY <1>5, <2>1, <2>2, <2>3, BuildTypes DEF StatFile
<1>6. CASE RemoveFile(j)
  BY <1>6, WatchedReaders DEF RemoveFile, TypeOK, answerVars, clientVars
<1>7. CASE BuildRedirect(j)
  <2>1. Response("EMPTY", <<>>, 0, MessageHeader(0, "html")) \in Answers
    BY EmptySeq DEF Response, MessageHeader, Answers, Heads
  <2>2. Response("EMPTY", <<>>, 0, MessageHeader(0, "html")).bodyType # "FILE"
    BY DEF Response
  <2> QED BY <1>7, <2>1, <2>2, EmptySeq, BuildTypes DEF BuildRedirect
<1>8. CASE Throw(j)
  BY <1>8 DEF Throw, TypeOK, fileVars, answerVars, clientVars
<1>9. CASE SendHead(j)
  <2>1. response[j] \in Answers
    BY <1>9 DEF SendHead, TypeOK
  <2> QED BY <1>9, <2>1 DEF SendHead, TypeOK, Answers, fileVars, answerVars
<1>10. CASE SendBody(j)
  <2>1. PICK total \in Nat, more \in Seq(Items) :
          /\ response' = [response EXCEPT ![j].curStatusHasSendLen = total]
          /\ got' = [got EXCEPT ![j] = more]
          /\ pc' = [pc EXCEPT ![j] = IF total >= Len(original[j]) THEN "sent" ELSE "body"]
    BY <1>10, SendBodySends
  <2>2. response[j] \in Answers
    BY <1>10 DEF SendBody, TypeOK
  <2>3. /\ response' \in [Jobs -> Answers \cup {NONE}] /\ response'[j] # NONE
        /\ response'[j].bodyType = response[j].bodyType
        /\ \A k \in Jobs \ {j} : response'[k] = response[k]
    <3>1. [response[j] EXCEPT !.curStatusHasSendLen = total] \in Answers
      BY <2>2 DEF Answers
    <3> QED BY <2>1, <2>2, <3>1, NoneAssumption DEF TypeOK, Answers
  <2>4. pc' \in [Jobs -> Steps] /\ got' \in [Jobs -> Seq(Items)]
    BY <2>1 DEF TypeOK
  <2>5. pc[j] = "body" /\ pc'[j] \in {"sent", "body"} /\ \A k \in Jobs \ {j} : pc'[k] = pc[k]
    BY <1>10, <2>1 DEF SendBody, TypeOK
  <2>6. UNCHANGED <<alive, dir, data, free, bodyFileName, upload, file, scan, original, link, head>>
    BY <1>10 DEF SendBody, fileVars
  <2>7. response[j].bodyType # "EMPTY"
    BY <1>10 DEF SendBody
  <2>8. ASSUME NEW k \in Jobs
        PROVE  /\ pc'[k] \in {"receive", "write"} => upload'[k] # NONE /\ upload'[k].next <= Pieces
               /\ pc'[k] \in {"stat", "write"} => file'[k] # NONE
               /\ pc'[k] = "scan" => scan'[k] # NONE
               /\ pc'[k] \in {"head", "body", "sent", "done"} => response'[k] # NONE
               /\ pc'[k] \in {"head", "body"} /\ response'[k].bodyType = "FILE" => file'[k] # NONE
    <3>1. CASE k = j
      BY <2>3, <2>5, <2>6, <3>1 DEF TypeOK
    <3>2. CASE k # j
      BY <2>3, <2>5, <2>6, <3>2 DEF TypeOK
    <3> QED BY <3>1, <3>2
  <2> QED BY <2>3, <2>4, <2>6, <2>8 DEF TypeOK
<1>11. CASE SendEmpty(j)
  BY <1>11 DEF SendEmpty, TypeOK, fileVars, answerVars, clientVars
<1>12. CASE SendFails(j)
  BY <1>12 DEF SendFails, TypeOK, Ended, fileVars, answerVars, clientVars
<1>13. CASE Finish(j)
  BY <1>13, CanReturn DEF Finish, TypeOK, Ended, answerVars, clientVars
<1>14. CASE Receive(j)
  <2>1. CASE free = 0
    BY <1>14, <2>1 DEF Receive, TypeOK, Ended, fileVars, answerVars, clientVars
  <2>2. CASE free # 0
    <3>1. free' \in 0..Descriptors /\ pc' = [pc EXCEPT ![j] = "write"]
      BY <1>14, <2>2, ServiceAssumption DEF Receive, TypeOK
    <3>2. /\ data' \in Seq(Seq(Piece)) /\ DOMAIN data \subseteq DOMAIN data'
          /\ dir' \in [Names -> DOMAIN data' \cup {NONE}]
          /\ file' = [file EXCEPT ![j] = dir'[upload[j].name]]
          /\ dir'[upload[j].name] \in DOMAIN data'
      BY <1>14, <2>2, ReceiveGrows DEF Growing
    <3>3. dir'[upload[j].name] # NONE
      BY <3>2, LenProperties, ServiceAssumption
    <3>4. file' \in [Jobs -> DOMAIN data' \cup {NONE}] /\ file'[j] # NONE
          /\ \A k \in Jobs \ {j} : file'[k] = file[k]
      BY <3>2, <3>3 DEF TypeOK
    <3>5. scan' \in [Jobs -> Scans \cup {NONE}] /\ \A k \in Jobs : scan'[k] = NONE <=> scan[k] = NONE
      BY <1>14, <2>2, WatchedReaders DEF Receive
    <3> QED BY <1>14, <3>1, <3>2, <3>4, <3>5 DEF Receive, TypeOK, answerVars, clientVars
  <2> QED BY <2>1, <2>2
<1>15. CASE Write(j)
  <2>1. /\ data' \in Seq(Seq(Piece)) /\ DOMAIN data' = DOMAIN data
    BY <1>15, WriteGrows
  <2>2. free' \in 0..Descriptors /\ file' = [file EXCEPT ![j] = NONE]
    BY <1>15, CanReturn DEF Write, TypeOK
  <2>3. upload[j] \in Uploads /\ upload[j].next <= Pieces
    BY <1>15 DEF Write, TypeOK
  <2>4. /\ upload' \in [Jobs -> Uploads \cup {NONE}]
        /\ upload'[j] # NONE /\ upload'[j].next = upload[j].next + 1
        /\ \A k \in Jobs \ {j} : upload'[k] = upload[k]
    <3>1. /\ [upload[j] EXCEPT !.next = @ + 1] \in Uploads
          /\ [upload[j] EXCEPT !.next = @ + 1].next = upload[j].next + 1
      BY <2>3, ServiceAssumption DEF Uploads
    <3> QED BY <1>15, <3>1, NoneAssumption DEF Write, TypeOK
  <2>5. pc' = [pc EXCEPT ![j] = IF upload[j].next = Pieces THEN "begin" ELSE "receive"]
    BY <1>15 DEF Write
  <2>6. upload[j].next # Pieces => upload[j].next + 1 <= Pieces
    BY <2>3, ServiceAssumption DEF Uploads
  <2>7. UNCHANGED <<alive, dir, scan, response, original, link, head, got>>
    BY <1>15 DEF Write, answerVars, clientVars
  <2>8. /\ pc' \in [Jobs -> Steps] /\ pc'[j] \in {"begin", "receive"}
        /\ pc'[j] = "receive" => upload[j].next # Pieces
        /\ \A k \in Jobs \ {j} : pc'[k] = pc[k] /\ file'[k] = file[k]
    BY <2>2, <2>5 DEF TypeOK
  <2>9. ASSUME NEW k \in Jobs
        PROVE  /\ pc'[k] \in {"receive", "write"} => upload'[k] # NONE /\ upload'[k].next <= Pieces
               /\ pc'[k] \in {"stat", "write"} => file'[k] # NONE
               /\ pc'[k] = "scan" => scan'[k] # NONE
               /\ pc'[k] \in {"head", "body", "sent", "done"} => response'[k] # NONE
               /\ pc'[k] \in {"head", "body"} /\ response'[k].bodyType = "FILE" => file'[k] # NONE
    <3>1. CASE k = j
      BY <2>4, <2>6, <2>8, <3>1
    <3>2. CASE k # j
      BY <2>4, <2>7, <2>8, <3>2 DEF TypeOK
    <3> QED BY <3>1, <3>2
  <2>10. file' \in [Jobs -> DOMAIN data' \cup {NONE}] /\ dir' \in [Names -> DOMAIN data' \cup {NONE}]
    BY <2>1, <2>2, <2>7 DEF TypeOK
  <2> QED BY <2>1, <2>2, <2>4, <2>7, <2>8, <2>9, <2>10 DEF TypeOK
<1>16. CASE ReceiveLost(j)
  BY <1>16 DEF ReceiveLost, TypeOK, Ended, fileVars, answerVars, clientVars
<1>17. CASE Break(j)
  BY <1>17 DEF Break, TypeOK, fileVars, answerVars
<1> QED BY <1>1, <1>2, <1>3, <1>4, <1>5, <1>6, <1>7, <1>8, <1>9, <1>10, <1>11, <1>12, <1>13,
           <1>14, <1>15, <1>16, <1>17 DEF Step, SendNext, RecvNext

(***************************************************************************)
(* Part 3: every step keeps the rest of the invariant.                     *)
(***************************************************************************)

(* What a step may do to the jobs that do not take it.                     *)
Untouched(k) ==
  /\ UNCHANGED <<pc[k], file[k], response[k], original[k], link[k], head[k], got[k]>>
  /\ scan'[k] = NONE <=> scan[k] = NONE

LEMMA DataGrows ==
  ASSUME Inv, NEW j \in Jobs, Step(j)
  PROVE  Growing
<1>1. ASSUME data' = data PROVE Growing
  <2>1. \A i \in DOMAIN data : data[i] \in Seq(Piece)
    BY ElementOfSeq, LenProperties DEF Inv, TypeOK
  <2> QED BY <1>1, <2>1, BeginningReflexive DEF Growing
<1>2. CASE Receive(j)
  <2>1. CASE free = 0
    BY <1>1, <1>2, <2>1 DEF Receive, fileVars
  <2> QED BY <1>2, <2>1, ReceiveGrows
<1>3. CASE Write(j)
  BY <1>3, WriteGrows
<1>4. CASE SendNext(j)
  BY <1>1, <1>4 DEF SendNext, OpenDir, ReadDir, BuildPage, OpenFile, StatFile, RemoveFile,
     BuildRedirect, Throw, SendHead, SendBody, SendEmpty, SendFails, Finish, fileVars
<1>5. CASE ReceiveLost(j) \/ Break(j)
  BY <1>1, <1>5 DEF ReceiveLost, Break, fileVars
<1> QED BY <1>2, <1>3, <1>4, <1>5 DEF Step, RecvNext

LEMMA OthersUntouched ==
  ASSUME Inv, NEW j \in Jobs, Step(j), NEW k \in Jobs, k # j
  PROVE  Untouched(k)
<1> USE DEF Inv, TypeOK, Untouched, Goto, Redirect, Build, fileVars, answerVars, clientVars
<1>1. CASE OpenDir(j) BY <1>1 DEF OpenDir
<1>2. CASE ReadDir(j) BY <1>2 DEF ReadDir
<1>3. CASE BuildPage(j) BY <1>3 DEF BuildPage
<1>4. CASE OpenFile(j) BY <1>4 DEF OpenFile
<1>5. CASE StatFile(j) BY <1>5 DEF StatFile
<1>6. CASE RemoveFile(j)
  <2>1. scan'[k] = NONE <=> scan[k] = NONE
    BY <1>6, WatchedReaders DEF RemoveFile
  <2> QED BY <1>6, <2>1 DEF RemoveFile
<1>7. CASE BuildRedirect(j) BY <1>7 DEF BuildRedirect
<1>8. CASE Throw(j) BY <1>8 DEF Throw
<1>9. CASE SendHead(j) BY <1>9 DEF SendHead
<1>10. CASE SendBody(j) BY <1>10 DEF SendBody
<1>11. CASE SendEmpty(j) BY <1>11 DEF SendEmpty
<1>12. CASE SendFails(j) BY <1>12 DEF SendFails
<1>13. CASE Finish(j) BY <1>13 DEF Finish
<1>14. CASE Receive(j)
  <2>1. scan'[k] = NONE <=> scan[k] = NONE
    BY <1>14, WatchedReaders DEF Receive
  <2> QED BY <1>14, <2>1 DEF Receive
<1>15. CASE Write(j) BY <1>15 DEF Write
<1>16. CASE ReceiveLost(j) BY <1>16 DEF ReceiveLost
<1>17. CASE Break(j) BY <1>17 DEF Break
<1> QED BY <1>1, <1>2, <1>3, <1>4, <1>5, <1>6, <1>7, <1>8, <1>9, <1>10, <1>11, <1>12, <1>13,
           <1>14, <1>15, <1>16, <1>17 DEF Step, SendNext, RecvNext

(* A job that is left alone keeps its part, though its file may grow.      *)
LEMMA UntouchedKeeps ==
  ASSUME Inv, TypeOK', Growing, NEW k \in Jobs, Untouched(k)
  PROVE  AnswerOf(k)' /\ SentTo(k)' /\ NotOpenYet(k)'
<1>1. /\ pc'[k] = pc[k] /\ file'[k] = file[k] /\ response'[k] = response[k]
      /\ original'[k] = original[k] /\ head'[k] = head[k] /\ got'[k] = got[k]
      /\ scan'[k] = NONE <=> scan[k] = NONE
  BY DEF Untouched
<1>2. AnswerOf(k) /\ SentTo(k) /\ NotOpenYet(k)
  BY DEF Inv, JobInv
<1>3. ASSUME pc[k] \in {"head", "body"}, response[k].bodyType = "FILE"
      PROVE  Beginning(original[k], data'[file[k]])
  <2>1. file[k] \in DOMAIN data
    BY <1>3 DEF Inv, TypeOK
  <2>2. Beginning(original[k], data[file[k]]) /\ Beginning(data[file[k]], data'[file[k]])
    BY <1>2, <1>3, <2>1 DEF AnswerOf, Growing
  <2>3. /\ data[file[k]] \in Seq(Items) /\ data'[file[k]] \in Seq(Items)
        /\ original[k] \in Seq(Items)
    <3>1. file[k] \in DOMAIN data'
      BY <2>1 DEF Growing
    <3> QED BY <2>1, <3>1, ElementOfSeq, LenProperties, PieceIsItem DEF Inv, TypeOK
  <2> QED BY <2>2, <2>3, BeginningTransitive
<1>4. AnswerOf(k)'
  BY <1>1, <1>2, <1>3 DEF AnswerOf
<1>5. SentTo(k)'
  BY <1>1, <1>2 DEF SentTo, Beginning
<1>6. NotOpenYet(k)'
  BY <1>1, <1>2 DEF NotOpenYet
<1> QED BY <1>4, <1>5, <1>6

(* The answer that is built is an answer for its body.                     *)
LEMMA BuildKeeps ==
  ASSUME Inv, TypeOK', NEW j \in Jobs, NEW answer \in Answers, NEW body \in Seq(Items),
         Build(j, answer, body), pc[j] \in Unanswered,
         answer.msgBodyLen = Len(body), answer.beforeBodyMsg.contentLength = Len(body),
         answer.curStatusHasSendLen = 0,
         answer.bodyType = "HTML" => answer.msgBody = body,
         answer.bodyType = "EMPTY" => body = <<>>,
         answer.bodyType = "FILE" => Beginning(body, data[file[j]]),
         UNCHANGED <<fileVars, file, scan, clientVars>>
  PROVE  AnswerOf(j)' /\ SentTo(j)' /\ NotOpenYet(j)'
<1>1. pc'[j] = "head" /\ response'[j] = answer /\ original'[j] = body
  BY DEF Build, Goto, Inv, TypeOK
<1>2. head'[j] = NONE /\ got'[j] = <<>> /\ Len(<<>>) = 0
  BY EmptySeq DEF Inv, JobInv, SentTo, clientVars
<1>3. Len(body) \in Nat
  BY LenProperties
<1>4. AnswerOf(j)'
  <2>1. data'[file'[j]] = data[file[j]]
    BY DEF fileVars
  <2> QED BY <1>1, <1>2, <2>1 DEF AnswerOf
<1>5. SentTo(j)'
  BY <1>1, <1>2, <1>3 DEF SentTo, Beginning, Unanswered
<1>6. NotOpenYet(j)'
  BY <1>1 DEF NotOpenYet, Unanswered
<1> QED BY <1>4, <1>5, <1>6

LEMMA SendHeadKeeps ==
  ASSUME Inv, TypeOK', NEW j \in Jobs, SendHead(j)
  PROVE  AnswerOf(j)' /\ SentTo(j)' /\ NotOpenYet(j)'
<1>1. /\ pc[j] = "head" /\ pc'[j] = "body" /\ head'[j] = response[j].beforeBodyMsg
      /\ UNCHANGED <<data, file, scan, response, original, got>>
  BY DEF SendHead, Goto, Inv, TypeOK, fileVars, answerVars
<1>2. response[j] \in Answers
  BY <1>1 DEF Inv, TypeOK
<1>3. head'[j] # NONE
  BY <1>1, <1>2, NoneAssumption DEF Answers
<1>4. AnswerOf(j) /\ SentTo(j)
  BY DEF Inv, JobInv
<1>5. AnswerOf(j)'
  BY <1>1, <1>4 DEF AnswerOf
<1>6. SentTo(j)'
  BY <1>1, <1>3, <1>4 DEF SentTo, AnswerOf, Unanswered
<1>7. NotOpenYet(j)'
  BY <1>1 DEF NotOpenYet, Unanswered
<1> QED BY <1>5, <1>6, <1>7

LEMMA SendBodyKeeps ==
  ASSUME Inv, TypeOK', NEW j \in Jobs, SendBody(j)
  PROVE  AnswerOf(j)' /\ SentTo(j)' /\ NotOpenYet(j)'
<1>1. PICK total \in Nat, more \in Seq(Items) :
        /\ Len(got[j]) <= total /\ total <= Len(original[j])
        /\ Len(more) = total /\ Beginning(more, original[j])
        /\ response' = [response EXCEPT ![j].curStatusHasSendLen = total]
        /\ got' = [got EXCEPT ![j] = more]
        /\ pc' = [pc EXCEPT ![j] = IF total >= Len(original[j]) THEN "sent" ELSE "body"]
  BY SendBodySends
<1>2. /\ pc[j] = "body" /\ pc'[j] \in {"body", "sent"} /\ got'[j] = more
      /\ pc'[j] = "sent" => total >= Len(original[j])
      /\ UNCHANGED <<data, file, scan, original, head>>
  BY <1>1 DEF SendBody, Inv, TypeOK, fileVars
<1>3. response[j] \in Answers
  BY <1>2 DEF Inv, TypeOK
<1>4. /\ response'[j].msgBodyLen = response[j].msgBodyLen
      /\ response'[j].beforeBodyMsg = response[j].beforeBodyMsg
      /\ response'[j].bodyType = response[j].bodyType
      /\ response'[j].msgBody = response[j].msgBody
      /\ response'[j].curStatusHasSendLen = total
  BY <1>1, <1>3 DEF Inv, TypeOK, Answers
<1>5. AnswerOf(j) /\ SentTo(j)
  BY DEF Inv, JobInv
<1>6. AnswerOf(j)'
  BY <1>1, <1>2, <1>4, <1>5 DEF AnswerOf
<1>7. SentTo(j)'
  <2>1. pc'[j] = "sent" => Len(got'[j]) = Len(original[j])
    BY <1>1, <1>2, LenProperties DEF Inv, TypeOK
  <2> QED BY <1>1, <1>2, <1>5, <2>1 DEF SentTo, Unanswered
<1>8. NotOpenYet(j)'
  BY <1>2 DEF NotOpenYet, Unanswered
<1> QED BY <1>6, <1>7, <1>8

LEMMA ActorKeeps ==
  ASSUME Inv, TypeOK', NEW j \in Jobs, Step(j)
  PROVE  AnswerOf(j)' /\ SentTo(j)' /\ NotOpenYet(j)'
<1> USE DEF Goto, Redirect, Begins
<1>0. AnswerOf(j) /\ SentTo(j) /\ NotOpenYet(j)
  BY DEF Inv, JobInv
<1>a. ASSUME pc[j] \in Unanswered \cup Ended, pc'[j] \in Unanswered \cup Ended,
             pc'[j] \in Unanswered => pc[j] \in Unanswered, pc'[j] # "done",
             UNCHANGED <<original, head, got>>
      PROVE  AnswerOf(j)' /\ SentTo(j)'
  BY <1>0, <1>a DEF AnswerOf, SentTo, Unanswered, Ended
<1>1. CASE OpenDir(j)
  <2>1. pc[j] = "begin" /\ pc'[j] \in {"begin", "scan"} /\ UNCHANGED <<file, original, head, got>>
    BY <1>1 DEF OpenDir, Inv, TypeOK, answerVars, clientVars
  <2>2. pc'[j] = "begin" => scan'[j] = scan[j]
    BY <1>1, <2>1 DEF OpenDir, Inv, TypeOK
  <2>3. AnswerOf(j)' /\ SentTo(j)'
    BY <1>a, <2>1 DEF Unanswered
  <2> QED BY <1>0, <2>1, <2>2, <2>3 DEF NotOpenYet, Unanswered
<1>2. CASE ReadDir(j)
  <2>1. pc[j] = "scan" /\ pc'[j] = "scan" /\ UNCHANGED <<file, original, head, got>>
    BY <1>2 DEF ReadDir, answerVars, clientVars
  <2>3. AnswerOf(j)' /\ SentTo(j)'
    BY <1>a, <2>1 DEF Unanswered
  <2> QED BY <1>0, <2>1, <2>3 DEF NotOpenYet, Unanswered
<1>3. CASE BuildPage(j)
  <2> DEFINE page == <<"frame">> \o scan[j].resVec
             answer == Response("HTML", page, Len(page), MessageHeader(Len(page), "html"))
  <2>1. CASE free = 0
    <3>1. pc[j] = "scan" /\ pc'[j] = "lost" /\ UNCHANGED <<original, head, got>>
      BY <1>3, <2>1 DEF BuildPage, Inv, TypeOK, answerVars, clientVars
    <3>2. AnswerOf(j)' /\ SentTo(j)'
      BY <1>a, <3>1 DEF Unanswered, Ended
    <3> QED BY <3>1, <3>2 DEF NotOpenYet, Unanswered
  <2>2. CASE free # 0
    <3>1. page \in Seq(Items)
      <4>1. scan[j] \in Scans
        BY <1>3 DEF BuildPage, Inv, TypeOK
      <4>2. scan[j].resVec \in Seq(Items)
        BY <4>1, SeqMonotonic DEF Scans, Items
      <4>3. <<"frame">> \in Seq(Items)
        BY DEF Items
      <4> QED BY <4>2, <4>3, ConcatProperties
    <3>2. answer \in Answers
      BY <3>1, LenProperties DEF Response, MessageHeader, Answers, Heads
    <3>3. /\ answer.msgBodyLen = Len(page) /\ answer.beforeBodyMsg.contentLength = Len(page)
          /\ answer.curStatusHasSendLen = 0 /\ answer.bodyType = "HTML" /\ answer.msgBody = page
      BY DEF Response, MessageHeader
    <3>4. /\ Build(j, answer, page) /\ pc[j] \in Unanswered
          /\ UNCHANGED <<fileVars, file, scan, clientVars>>
      BY <1>3, <2>2 DEF BuildPage, Unanswered
    <3> HIDE DEF answer, page
    <3> QED BY <3>1, <3>2, <3>3, <3>4, BuildKeeps
  <2> QED BY <2>1, <2>2
<1>4. CASE OpenFile(j)
  <2>1. /\ pc[j] = "begin" /\ pc'[j] \in {"begin", "stat"}
        /\ pc'[j] = "begin" => file' = file
        /\ UNCHANGED <<scan, original, head, got>>
    BY <1>4 DEF OpenFile, Inv, TypeOK, answerVars, clientVars
  <2>2. AnswerOf(j)' /\ SentTo(j)'
    BY <1>a, <2>1 DEF Unanswered
  <2> QED BY <1>0, <2>1, <2>2 DEF NotOpenYet, Unanswered
<1>5. CASE StatFile(j)
  <2> DEFINE body == data[file[j]]
             answer == Response("FILE", <<>>, Len(body), MessageHeader(Len(body), "file"))
  <2>1. body \in Seq(Items)
    <3>1. file[j] \in DOMAIN data
      BY <1>5 DEF StatFile, Inv, TypeOK
    <3> QED BY <3>1, ElementOfSeq, LenProperties, PieceIsItem DEF Inv, TypeOK
  <2>2. answer \in Answers
    BY <2>1, LenProperties, EmptySeq DEF Response, MessageHeader, Answers, Heads
  <2>3. /\ answer.msgBodyLen = Len(body) /\ answer.beforeBodyMsg.contentLength = Len(body)
        /\ answer.curStatusHasSendLen = 0 /\ answer.bodyType = "FILE"
    BY DEF Response, MessageHeader
  <2>4. /\ Build(j, answer, body) /\ pc[j] \in Unanswered
        /\ UNCHANGED <<fileVars, file, scan, clientVars>>
    BY <1>5 DEF StatFile, Unanswered
  <2>5. Beginning(body, data[file[j]])
    BY <2>1, BeginningReflexive
  <2> HIDE DEF answer, body
  <2> QED BY <2>1, <2>2, <2>3, <2>4, <2>5, BuildKeeps
<1>6. CASE RemoveFile(j)
  <2>1. pc[j] = "begin" /\ pc'[j] = "begin" /\ UNCHANGED <<file, original, head, got>>
    BY <1>6 DEF RemoveFile, Inv, TypeOK, answerVars, clientVars
  <2>2. scan'[j] = NONE <=> scan[j] = NONE
    BY <1>6, WatchedReaders DEF RemoveFile, Inv
  <2>3. AnswerOf(j)' /\ SentTo(j)'
    BY <1>a, <2>1 DEF Unanswered
  <2> QED BY <1>0, <2>1, <2>2, <2>3 DEF NotOpenYet, Unanswered
<1>7. CASE BuildRedirect(j)
  <2> DEFINE answer == Response("EMPTY", <<>>, 0, MessageHeader(0, "html"))
  <2>1. answer \in Answers /\ <<>> \in Seq(Items) /\ Len(<<>>) = 0
    BY EmptySeq DEF Response, MessageHeader, Answers, Heads
  <2>2. /\ answer.msgBodyLen = 0 /\ answer.beforeBodyMsg.contentLength = 0
        /\ answer.curStatusHasSendLen = 0 /\ answer.bodyType = "EMPTY"
    BY DEF Response, MessageHeader
  <2>3. /\ Build(j, answer, <<>>) /\ pc[j] \in Unanswered
        /\ UNCHANGED <<fileVars, file, scan, clientVars>>
    BY <1>7 DEF BuildRedirect, Unanswered
  <2> HIDE DEF answer
  <2> QED BY <2>1, <2>2, <2>3, BuildKeeps
<1>8. CASE Throw(j)
  BY <1>0, <1>8 DEF Throw, AnswerOf, SentTo, NotOpenYet, fileVars, answerVars, clientVars
<1>9. CASE SendHead(j)
  BY <1>9, SendHeadKeeps
<1>10. CASE SendBody(j)
  BY <1>10, SendBodyKeeps
<1>11. CASE SendEmpty(j)
  <2>1. /\ pc[j] = "body" /\ pc'[j] = "sent" /\ response[j].bodyType = "EMPTY"
        /\ UNCHANGED <<data, file, scan, response, original, head, got>>
    BY <1>11 DEF SendEmpty, Inv, TypeOK, fileVars, answerVars, clientVars
  <2>2. Len(got[j]) = Len(original[j])
    <3>1. original[j] = <<>> /\ Beginning(got[j], original[j]) /\ got[j] \in Seq(Items)
      BY <1>0, <2>1 DEF AnswerOf, SentTo, Inv, TypeOK
    <3>2. Len(original[j]) = 0 /\ Len(got[j]) \in Nat /\ Len(got[j]) <= Len(original[j])
      BY <3>1, EmptySeq, LenProperties DEF Beginning
    <3> QED BY <3>2
  <2> QED BY <1>0, <2>1, <2>2 DEF AnswerOf, SentTo, NotOpenYet, Unanswered
<1>12. CASE SendFails(j)
  <2>1. /\ pc[j] \in {"head", "body"} /\ pc'[j] = "failed"
        /\ UNCHANGED <<original, head, got>>
    BY <1>12 DEF SendFails, Inv, TypeOK, answerVars, clientVars
  <2> QED BY <1>0, <2>1 DEF AnswerOf, SentTo, NotOpenYet, Unanswered
<1>13. CASE Finish(j)
  <2>1. /\ pc[j] = "sent" /\ pc'[j] = "done" /\ UNCHANGED <<original, head, got>>
    BY <1>13 DEF Finish, Inv, TypeOK, answerVars, clientVars
  <2> QED BY <1>0, <2>1 DEF AnswerOf, SentTo, NotOpenYet, Unanswered
<1>14. CASE Receive(j)
  <2>1. /\ pc[j] = "receive" /\ pc'[j] \in {"stranded", "write"}
        /\ UNCHANGED <<original, head, got>>
    BY <1>14 DEF Receive, Inv, TypeOK, answerVars, clientVars
  <2>2. scan'[j] = NONE <=> scan[j] = NONE
    BY <1>14, WatchedReaders DEF Receive, Inv
  <2>3. AnswerOf(j)' /\ SentTo(j)'
    BY <1>a, <2>1 DEF Unanswered, Ended
  <2> QED BY <1>0, <2>1, <2>2, <2>3 DEF NotOpenYet, Unanswered
<1>15. CASE Write(j)
  <2>1. /\ pc[j] = "write" /\ pc'[j] \in {"begin", "receive"} /\ file'[j] = NONE
        /\ UNCHANGED <<scan, original, head, got>>
    BY <1>15 DEF Write, Inv, TypeOK, answerVars, clientVars
  <2>2. AnswerOf(j)' /\ SentTo(j)'
    BY <1>a, <2>1 DEF Unanswered
  <2> QED BY <1>0, <2>1, <2>2 DEF NotOpenYet, Unanswered
<1>16. CASE ReceiveLost(j)
  <2>1. pc[j] = "receive" /\ pc'[j] = "failed" /\ UNCHANGED <<original, head, got>>
    BY <1>16 DEF ReceiveLost, Inv, TypeOK, answerVars, clientVars
  <2>2. AnswerOf(j)' /\ SentTo(j)'
    BY <1>a, <2>1 DEF Unanswered, Ended
  <2> QED BY <2>1, <2>2 DEF NotOpenYet, Unanswered
<1>17. CASE Break(j)
  BY <1>0, <1>17 DEF Break, AnswerOf, SentTo, NotOpenYet, fileVars, answerVars
<1> QED BY <1>1, <1>2, <1>3, <1>4, <1>5, <1>6, <1>7, <1>8, <1>9, <1>10, <1>11, <1>12, <1>13,
           <1>14, <1>15, <1>16, <1>17 DEF Step, SendNext, RecvNext

(***************************************************************************)
(* Part 4: the descriptors.                                                *)
(***************************************************************************)
LEMMA HoldersFinite ==
  /\ IsFiniteSet(Opening) /\ Cardinality(Opening) \in Nat
  /\ IsFiniteSet(Listing) /\ Cardinality(Listing) \in Nat
BY ServiceAssumption, FS_Subset, FS_CardinalityType DEF Opening, Listing

LEMMA SameHolders ==
  ASSUME Inv, free' = free, Opening' = Opening, Listing' = Listing
  PROVE  Balanced'
BY DEF Inv, Balanced

(* A descriptor goes to a job that has none for this purpose.              *)
LEMMA TakesOne ==
  ASSUME Inv, NEW j \in Jobs, free' = free - 1,
         \/ Opening' = Opening \cup {j} /\ j \notin Opening /\ Listing' = Listing
         \/ Listing' = Listing \cup {j} /\ j \notin Listing /\ Opening' = Opening
  PROVE  Balanced'
<1>1. Descriptors - free = Cardinality(Opening) + Cardinality(Listing)
  BY DEF Inv, Balanced
<1>2. j \notin Opening => Cardinality(Opening \cup {j}) = Cardinality(Opening) + 1
  BY HoldersFinite, FS_AddElement
<1>3. j \notin Listing => Cardinality(Listing \cup {j}) = Cardinality(Listing) + 1
  BY HoldersFinite, FS_AddElement
<1>4. Cardinality(Opening') + Cardinality(Listing') = Cardinality(Opening) + Cardinality(Listing) + 1
  <2>1. CASE Opening' = Opening \cup {j} /\ j \notin Opening /\ Listing' = Listing
    <3>1. /\ Cardinality(Opening') = Cardinality(Opening) + 1
          /\ Cardinality(Listing') = Cardinality(Listing)
      BY <1>2, <2>1
    <3> QED BY <3>1, HoldersFinite
  <2>2. CASE Listing' = Listing \cup {j} /\ j \notin Listing /\ Opening' = Opening
    <3>1. /\ Cardinality(Listing') = Cardinality(Listing) + 1
          /\ Cardinality(Opening') = Cardinality(Opening)
      BY <1>3, <2>2
    <3> QED BY <3>1, HoldersFinite
  <2> QED BY <2>1, <2>2
<1>5. free \in Int /\ Descriptors \in Int
  BY ServiceAssumption DEF Inv, TypeOK
<1>6. Descriptors - free' = Cardinality(Opening') + Cardinality(Listing')
  BY <1>1, <1>4, <1>5, HoldersFinite
<1> QED BY <1>6 DEF Balanced

LEMMA GivesOne ==
  ASSUME Inv, NEW j \in Jobs, free' = free + 1, j \in Opening,
         Opening' = Opening \ {j}, Listing' = Listing
  PROVE  Balanced'
<1>1. Descriptors - free = Cardinality(Opening) + Cardinality(Listing)
  BY DEF Inv, Balanced
<1>2. Cardinality(Opening \ {j}) = Cardinality(Opening) - 1
  BY HoldersFinite, FS_RemoveElement
<1>3. free \in Int /\ Descriptors \in Int
  BY ServiceAssumption DEF Inv, TypeOK
<1>4. Descriptors - free' = Cardinality(Opening') + Cardinality(Listing')
  BY <1>1, <1>2, <1>3, HoldersFinite
<1> QED BY <1>4 DEF Balanced

LEMMA DescriptorsStep ==
  ASSUME Inv, TypeOK', NEW j \in Jobs, Step(j)
  PROVE  Balanced'
<1> USE DEF Goto, Redirect, Begins, Build
<1>0. NotOpenYet(j)
  BY DEF Inv, JobInv
<1>a. ASSUME \A k \in Jobs \ {j} : file'[k] = file[k]
      PROVE  /\ (file'[j] = NONE <=> file[j] = NONE) => Opening' = Opening
             /\ file[j] = NONE /\ file'[j] # NONE => Opening' = Opening \cup {j} /\ j \notin Opening
             /\ file[j] # NONE /\ file'[j] = NONE => Opening' = Opening \ {j} /\ j \in Opening
  BY <1>a DEF Opening
<1>b. ASSUME \A k \in Jobs : scan'[k] = NONE <=> scan[k] = NONE PROVE Listing' = Listing
  BY <1>b DEF Listing
<1>1. CASE OpenDir(j)
  <2>1. file' = file
    BY <1>1 DEF OpenDir
  <2>2. CASE free = 0
    BY <1>1, <2>1, <2>2, <1>a, <1>b, SameHolders DEF OpenDir
  <2>3. CASE free # 0
    <3> DEFINE new == [read |-> {}, resVec |-> <<>>,
                       always |-> Present(dir), ever |-> Present(dir)]
    <3>1. scan[j] = NONE /\ scan' = [scan EXCEPT ![j] = new] /\ free' = free - 1
      BY <1>0, <1>1, <2>3 DEF OpenDir, NotOpenYet, Unanswered
    <3>2. new \in Scans
      BY EmptySeq DEF Scans, Present
    <3>3. new # NONE
      BY <3>2, NoneAssumption
    <3> HIDE DEF new
    <3>4. Listing' = Listing \cup {j} /\ j \notin Listing
      BY <3>1, <3>3 DEF Listing, Inv, TypeOK
    <3> QED BY <2>1, <3>1, <3>4, <1>a, TakesOne
  <2> QED BY <2>2, <2>3
<1>2. CASE ReadDir(j)
  <2>1. scan[j] \in Scans /\ scan[j] # NONE
    BY <1>2, NoneAssumption DEF ReadDir, Inv, TypeOK
  <2>2. PICK entry \in (scan[j].ever \cup Dots) \ scan[j].read :
          scan' = [scan EXCEPT ![j].read = @ \cup {entry},
                               ![j].resVec = IF entry \in Dots THEN @ ELSE Append(@, entry)]
    BY <1>2 DEF ReadDir
  <2>3. \A k \in Jobs \ {j} : scan'[k] = scan[k]
    BY <2>2 DEF Inv, TypeOK
  <2>4. scan'[j] # NONE
    BY <1>2 DEF ReadDir, TypeOK
  <2>5. Listing' = Listing
    BY <2>1, <2>3, <2>4 DEF Listing
  <2> QED BY <1>2, <2>5, <1>a, SameHolders DEF ReadDir, fileVars
<1>3. CASE BuildPage(j) BY <1>3, <1>a, <1>b, SameHolders DEF BuildPage, fileVars
<1>4. CASE OpenFile(j)
  <2>1. scan' = scan /\ pc[j] = "begin"
    BY <1>4 DEF OpenFile
  <2>2. CASE Existing(bodyFileName[j]) = {} \/ free = 0
    BY <1>4, <2>1, <2>2, <1>a, <1>b, SameHolders DEF OpenFile
  <2>3. CASE ~(Existing(bodyFileName[j]) = {} \/ free = 0)
    <3>1. free' = free - 1 /\ pc'[j] = "stat" /\ \A k \in Jobs \ {j} : file'[k] = file[k]
      BY <1>4, <2>3 DEF OpenFile, Inv, TypeOK
    <3>2. file[j] = NONE /\ file'[j] # NONE
      BY <1>0, <2>1, <3>1 DEF NotOpenYet, TypeOK
    <3> QED BY <2>1, <3>1, <3>2, <1>a, <1>b, TakesOne
  <2> QED BY <2>2, <2>3
<1>5. CASE StatFile(j) BY <1>5, <1>a, <1>b, SameHolders DEF StatFile, fileVars
<1>6. CASE RemoveFile(j)
  <2>1. \A k \in Jobs : scan'[k] = NONE <=> scan[k] = NONE
    BY <1>6, WatchedReaders DEF RemoveFile, Inv
  <2> QED BY <1>6, <2>1, <1>a, <1>b, SameHolders DEF RemoveFile
<1>7. CASE BuildRedirect(j) BY <1>7, <1>a, <1>b, SameHolders DEF BuildRedirect, fileVars
<1>8. CASE Throw(j) BY <1>8, <1>a, <1>b, SameHolders DEF Throw, fileVars
<1>9. CASE SendHead(j) BY <1>9, <1>a, <1>b, SameHolders DEF SendHead, fileVars
<1>10. CASE SendBody(j) BY <1>10, <1>a, <1>b, SameHolders DEF SendBody, fileVars
<1>11. CASE SendEmpty(j) BY <1>11, <1>a, <1>b, SameHolders DEF SendEmpty, fileVars
<1>12. CASE SendFails(j) BY <1>12, <1>a, <1>b, SameHolders DEF SendFails, fileVars
<1>13. CASE Finish(j)
  <2>1. /\ scan' = scan /\ file'[j] = NONE /\ \A k \in Jobs \ {j} : file'[k] = file[k]
        /\ free' = IF file[j] = NONE THEN free ELSE free + 1
    BY <1>13 DEF Finish, Inv, TypeOK
  <2>2. CASE file[j] = NONE
    BY <2>1, <2>2, <1>a, <1>b, SameHolders
  <2>3. CASE file[j] # NONE
    BY <2>1, <2>3, <1>a, <1>b, GivesOne
  <2> QED BY <2>2, <2>3
<1>14. CASE Receive(j)
  <2>1. CASE free = 0
    BY <1>14, <2>1, <1>a, <1>b, SameHolders DEF Receive, fileVars
  <2>2. CASE free # 0
    <3>1. \A k \in Jobs : scan'[k] = NONE <=> scan[k] = NONE
      BY <1>14, <2>2, WatchedReaders DEF Receive, Inv
    <3>2. /\ free' = free - 1 /\ pc[j] = "receive" /\ pc'[j] = "write"
          /\ \A k \in Jobs \ {j} : file'[k] = file[k]
      BY <1>14, <2>2 DEF Receive, Inv, TypeOK
    <3>3. file[j] = NONE /\ file'[j] # NONE
      BY <1>0, <3>2 DEF NotOpenYet, TypeOK
    <3> QED BY <3>1, <3>2, <3>3, <1>a, <1>b, TakesOne
  <2> QED BY <2>1, <2>2
<1>15. CASE Write(j)
  <2>1. /\ scan' = scan /\ file[j] # NONE /\ file'[j] = NONE /\ free' = free + 1
        /\ \A k \in Jobs \ {j} : file'[k] = file[k]
    BY <1>15 DEF Write, Inv, TypeOK
  <2> QED BY <2>1, <1>a, <1>b, GivesOne
<1>16. CASE ReceiveLost(j) BY <1>16, <1>a, <1>b, SameHolders DEF ReceiveLost, fileVars
<1>17. CASE Break(j) BY <1>17, <1>a, <1>b, SameHolders DEF Break, fileVars
<1> QED BY <1>1, <1>2, <1>3, <1>4, <1>5, <1>6, <1>7, <1>8, <1>9, <1>10, <1>11, <1>12, <1>13,
           <1>14, <1>15, <1>16, <1>17 DEF Step, SendNext, RecvNext

(***************************************************************************)
(* Part 5: the invariant holds, and what follows from it.                  *)
(***************************************************************************)

(* Every name has an inode of its own at the start.                        *)
LEMMA FilesNumbered ==
  /\ Files \in Seq(Names)
  /\ \A n \in Names : \E i \in 1..Len(Files) : Files[i] = n
<1> DEFINE N == 1..Cardinality(Names)
<1>1. Cardinality(Names) \in Nat /\ ExistsBijection(N, Names)
  BY ServiceAssumption, FS_CardinalityType
<1>2. PICK g \in Bijection(N, Names) : TRUE
  BY <1>1 DEF ExistsBijection
<1>3. g \in [N -> Names] /\ \A a, b \in N : g[a] = g[b] => a = b
  BY <1>2 DEF Bijection, Injection, IsInjective
<1>4. DOMAIN g = N
  BY <1>3
<1>5. \E f \in [N -> Names] : IsInjective(f)
  BY <1>3, <1>4 DEF IsInjective
<1>6. Files \in [N -> Names] /\ IsInjective(Files)
  BY <1>5 DEF Files, SetToSeq
<1>7. Files \in Seq(Names) /\ Len(Files) = Cardinality(Names)
  BY <1>1, <1>6, SeqDef, LenProperties
<1>8. Files \in Injection(N, Names)
  BY <1>6 DEF Injection, IsInjective
<1>9. Cardinality(N) = Cardinality(Names)
  BY <1>1, FS_Interval
<1>10. Files \in Surjection(N, Names)
  BY <1>8, <1>9, ServiceAssumption, FS_Injection
<1> QED BY <1>7, <1>10 DEF Surjection

LEMMA InvInit == Init => Inv
<1> SUFFICES ASSUME Init PROVE Inv
  OBVIOUS
<1>1. PICK size \in [Names -> {NONE} \cup 0..MaxSize] :
        /\ dir = [n \in Names |-> IF size[n] = NONE THEN NONE
                                 ELSE CHOOSE i \in 1..Len(Files) : Files[i] = n]
        /\ data = [i \in 1..Len(Files) |->
                     IF size[Files[i]] = NONE THEN <<>> ELSE Initial(size[Files[i]])]
  BY DEF Init
<1>2. PICK job : /\ \A j \in Jobs : job[j] \in UNION {Asks[k] : k \in Jobs}
                 /\ pc = [j \in Jobs |-> IF job[j] \in Names THEN "receive" ELSE "begin"]
                 /\ upload = [j \in Jobs |-> IF job[j] \in Names
                                               THEN [name |-> job[j], next |-> 1] ELSE NONE]
  BY DEF Init
<1>3. Len(Files) \in Nat /\ \A i \in 1..Len(Files) : Files[i] \in Names
  BY FilesNumbered, LenProperties, ElementOfSeq
<1>4. ASSUME NEW s \in Nat, s <= MaxSize PROVE Initial(s) \in Seq(Piece)
  <2>1. \A i \in 1..s : <<NONE, i>> \in Piece
    BY <1>4, ServiceAssumption DEF Piece
  <2> QED BY <1>4, <2>1, SeqDef DEF Initial
<1>5. \A i \in 1..Len(Files) :
        (IF size[Files[i]] = NONE THEN <<>> ELSE Initial(size[Files[i]])) \in Seq(Piece)
  BY <1>3, <1>4, EmptySeq, ServiceAssumption
<1>6. data \in Seq(Seq(Piece)) /\ DOMAIN data = 1..Len(Files)
  BY <1>1, <1>3, <1>5, SeqDef
<1>7. dir \in [Names -> DOMAIN data \cup {NONE}]
  <2>1. \A n \in Names : (CHOOSE i \in 1..Len(Files) : Files[i] = n) \in 1..Len(Files)
    BY FilesNumbered
  <2> QED BY <1>1, <1>6, <2>1
<1>8. \A n \in Names : [name |-> n, next |-> 1] \in Uploads
  BY ServiceAssumption DEF Uploads
<1>9. /\ upload \in [Jobs -> Uploads \cup {NONE}] /\ pc \in [Jobs -> {"receive", "begin"}]
      /\ \A j \in Jobs : pc[j] = "receive" => upload[j] # NONE /\ upload[j].next <= Pieces
  BY <1>2, <1>8, NoneAssumption, ServiceAssumption DEF Uploads
<1>10. /\ alive = TRUE /\ free = Descriptors
       /\ file = [j \in Jobs |-> NONE] /\ scan = [j \in Jobs |-> NONE]
       /\ response = [j \in Jobs |-> NONE] /\ original = [j \in Jobs |-> <<>>]
       /\ link = [j \in Jobs |-> "up"] /\ head = [j \in Jobs |-> NONE]
       /\ got = [j \in Jobs |-> <<>>]
  BY DEF Init
<1>11. TypeOK
  BY <1>6, <1>7, <1>9, <1>10, EmptySeq, ServiceAssumption DEF TypeOK, Steps
<1>12. JobInv
  BY <1>9, <1>10, EmptySeq DEF JobInv, AnswerOf, SentTo, NotOpenYet, Beginning, Unanswered
<1>13. Balanced
  <2>1. Opening = {} /\ Listing = {}
    BY <1>10 DEF Opening, Listing
  <2>2. Descriptors - free = 0
    BY <1>10, ServiceAssumption
  <2> QED BY <2>1, <2>2, FS_EmptySet DEF Balanced
<1> QED BY <1>11, <1>12, <1>13 DEF Inv

LEMMA InvStep == Inv /\ [Next]_vars => Inv'
<1> SUFFICES ASSUME Inv, [Next]_vars PROVE Inv'
  OBVIOUS
<1>1. CASE UNCHANGED vars
  BY <1>1 DEF vars, fileVars, answerVars, clientVars, Inv, TypeOK, JobInv, AnswerOf, SentTo,
     NotOpenYet, Balanced, Opening, Listing
<1>2. CASE Next
  <2>1. PICK j \in Jobs : Step(j)
    BY <1>2 DEF Next, Step
  <2>2. TypeOK'
    BY <2>1, TypesStep
  <2>3. JobInv'
    <3> SUFFICES ASSUME NEW k \in Jobs PROVE AnswerOf(k)' /\ SentTo(k)' /\ NotOpenYet(k)'
      BY DEF JobInv
    <3>1. CASE k = j
      BY <2>1, <2>2, <3>1, ActorKeeps
    <3>2. CASE k # j
      BY <2>1, <2>2, <3>2, DataGrows, OthersUntouched, UntouchedKeeps
    <3> QED BY <3>1, <3>2
  <2>4. Balanced'
    BY <2>1, <2>2, DescriptorsStep
  <2> QED BY <2>2, <2>3, <2>4 DEF Inv
<1> QED BY <1>1, <1>2

THEOREM Invariance == Spec => []Inv
BY InvInit, InvStep, PTL DEF Spec

(* Every variable keeps its type: a job has an inode open wherever the     *)
(* code reads or writes one, and a Response from the time it is built.     *)
THEOREM TypeCorrect == Spec => []TypeOK
<1>1. Inv => TypeOK BY DEF Inv
<1> QED BY <1>1, Invariance, PTL

(* Every download is the file as it was when its length was taken, and     *)
(* every list the page that was built, whatever the counts of sendfile and *)
(* whatever the other jobs do to the files.                                *)
THEOREM AnswersAreWhole == Spec => []AnswersWhole
<1>1. Inv => AnswersWhole
  <2> SUFFICES ASSUME Inv, NEW j \in Jobs
               PROVE  /\ IsPrefix(got[j], original[j])
                      /\ head[j] # NONE => head[j].contentLength = Len(original[j])
                      /\ pc[j] = "done" => got[j] = original[j]
    BY DEF AnswersWhole
  <2>1. SentTo(j) /\ got[j] \in Seq(Items) /\ original[j] \in Seq(Items)
    BY DEF Inv, JobInv, TypeOK
  <2> QED BY <2>1, BeginningIsPrefix, BeginningWhole DEF SentTo
<1> QED BY <1>1, Invariance, PTL

(* sendfile is never asked for what the file does not have: the loop that  *)
(* sends a download has something to send in each of its turns.            *)
THEOREM SendfileHasMore == Spec => []NeverPastTheEnd
<1>1. Inv => NeverPastTheEnd
  <2> SUFFICES ASSUME Inv, NEW j \in Jobs, pc[j] \in {"head", "body"},
                      response[j].bodyType = "FILE"
               PROVE  Len(data[file[j]]) >= response[j].msgBodyLen
    BY DEF NeverPastTheEnd
  <2>1. AnswerOf(j) /\ file[j] \in DOMAIN data /\ original[j] \in Seq(Items)
    BY DEF Inv, JobInv, TypeOK
  <2>2. data[file[j]] \in Seq(Items)
    BY <2>1, ElementOfSeq, LenProperties, PieceIsItem DEF Inv, TypeOK
  <2> QED BY <2>1, <2>2, LenProperties DEF AnswerOf, Beginning
<1> QED BY <1>1, Invariance, PTL

(* A job holds a file while it is at work on it, and when the sending of a *)
(* download has failed; this rests on the invariant, and is inductive.     *)
HeldBy(j) ==
  /\ pc[j] \in Unanswered => response[j] = NONE
  /\ pc[j] \in {"head", "body", "sent"} /\ response[j].bodyType # "FILE" => file[j] = NONE
  /\ pc[j] \in {"begin", "scan", "receive", "done", "stranded", "lost"} => file[j] = NONE
  /\ pc[j] = "failed" =>
       (file[j] # NONE <=> response[j] # NONE /\ response[j].bodyType = "FILE")

Held == \A j \in Jobs : HeldBy(j)

LEMMA HeldStep ==
  ASSUME Inv, NEW j \in Jobs, HeldBy(j), Step(j)
  PROVE  HeldBy(j)'
<1> USE DEF Inv, TypeOK, HeldBy, Unanswered, Goto, Redirect, Begins, Build,
        fileVars, answerVars, clientVars
<1>0. NotOpenYet(j)
  BY DEF JobInv
<1>a. ASSUME NEW answer, response'[j] = answer, answer # NONE, file'[j] = file[j],
             pc'[j] = "head", answer.bodyType # "FILE" => file[j] = NONE
      PROVE  HeldBy(j)'
  BY <1>a
<1>b. \A answer \in Answers : answer # NONE
  BY NoneAssumption
<1>1. CASE OpenDir(j) BY <1>1 DEF OpenDir
<1>2. CASE ReadDir(j) BY <1>2 DEF ReadDir
<1>3. CASE BuildPage(j) BY <1>3 DEF BuildPage, Response
<1>4. CASE OpenFile(j) BY <1>4 DEF OpenFile
<1>5. CASE StatFile(j) BY <1>5 DEF StatFile, Response
<1>6. CASE RemoveFile(j) BY <1>6 DEF RemoveFile
<1>7. CASE BuildRedirect(j) BY <1>7 DEF BuildRedirect, Response
<1>8. CASE Throw(j) BY <1>8 DEF Throw
<1>9. CASE SendHead(j) BY <1>9 DEF SendHead
<1>10. CASE SendBody(j)
  <2>1. /\ pc[j] = "body" /\ pc'[j] \in {"body", "sent"} /\ file'[j] = file[j]
        /\ response[j] \in Answers /\ response'[j].bodyType = response[j].bodyType
    BY <1>10 DEF SendBody, Answers
  <2> QED BY <2>1
<1>11. CASE SendEmpty(j) BY <1>11 DEF SendEmpty
<1>12. CASE SendFails(j)
  <2>1. /\ pc[j] \in {"head", "body"} /\ pc'[j] = "failed"
        /\ UNCHANGED <<file, response>>
    BY <1>12 DEF SendFails
  <2>2. response[j] # NONE /\ (response[j].bodyType = "FILE" <=> file[j] # NONE)
    BY <2>1
  <2> QED BY <2>1, <2>2
<1>13. CASE Finish(j) BY <1>13 DEF Finish
<1>14. CASE Receive(j) BY <1>14 DEF Receive
<1>15. CASE Write(j) BY <1>15 DEF Write
<1>16. CASE ReceiveLost(j) BY <1>0, <1>16 DEF ReceiveLost
<1>17. CASE Break(j) BY <1>17 DEF Break
<1> QED BY <1>1, <1>2, <1>3, <1>4, <1>5, <1>6, <1>7, <1>8, <1>9, <1>10, <1>11, <1>12, <1>13,
           <1>14, <1>15, <1>16, <1>17 DEF Step, SendNext, RecvNext

LEMMA HeldAlways == Spec => []Held
<1>1. Init => Held
  <2> SUFFICES ASSUME Init, NEW j \in Jobs PROVE HeldBy(j)
    BY DEF Held
  <2>1. pc[j] \in {"receive", "begin"} /\ file[j] = NONE /\ response[j] = NONE
    BY DEF Init
  <2> QED BY <2>1 DEF HeldBy
<1>2. Inv /\ Held /\ [Next]_vars => Held'
  <2> SUFFICES ASSUME Inv, Held, [Next]_vars, NEW k \in Jobs PROVE HeldBy(k)'
    BY DEF Held
  <2>1. HeldBy(k)
    BY DEF Held
  <2>2. CASE UNCHANGED vars
    BY <2>1, <2>2 DEF vars, answerVars, HeldBy
  <2>3. CASE Next
    <3>1. PICK j \in Jobs : Step(j)
      BY <2>3 DEF Next, Step
    <3>2. CASE k = j
      BY <2>1, <3>1, <3>2, HeldStep
    <3>3. CASE k # j
      BY <2>1, <3>1, <3>3, OthersUntouched DEF Untouched, HeldBy
    <3> QED BY <3>2, <3>3
  <2> QED BY <2>2, <2>3
<1> QED BY <1>1, <1>2, Invariance, PTL DEF Spec

(* The descriptors that are missing are those of the jobs at work on a     *)
(* file, of the lists that were made and of the downloads that failed: a   *)
(* list costs one descriptor for good, and so does a download that breaks  *)
(* off; an upload costs none, and neither does a download that is sent to  *)
(* its end.                                                                *)
THEOREM ListsAndFailuresLeak == Spec => []DescriptorsAccounted
<1>1. Inv /\ Held => DescriptorsAccounted
  <2> SUFFICES ASSUME Inv, Held PROVE DescriptorsAccounted
    OBVIOUS
  <2>1. ASSUME NEW j \in Jobs PROVE j \in Opening <=> j \in InUse \/ j \in FailedDownloads
    BY DEF Inv, TypeOK, Held, HeldBy, Opening, InUse, FailedDownloads, Steps, Ended
  <2>2. Opening = InUse \cup FailedDownloads
    BY <2>1 DEF Opening, InUse, FailedDownloads
  <2>3. InUse \cap FailedDownloads = {}
    BY DEF InUse, FailedDownloads
  <2>4. IsFiniteSet(InUse) /\ IsFiniteSet(FailedDownloads)
    BY ServiceAssumption, FS_Subset DEF InUse, FailedDownloads
  <2>5. /\ Cardinality(InUse) \in Nat /\ Cardinality(FailedDownloads) \in Nat
        /\ Cardinality(ListsMade) \in Nat
    BY <2>4, ServiceAssumption, FS_Subset, FS_CardinalityType DEF ListsMade
  <2>6. Cardinality(Opening) = Cardinality(InUse) + Cardinality(FailedDownloads)
    <3>1. Cardinality(InUse \cap FailedDownloads) = 0
      BY <2>3, FS_EmptySet
    <3>2. Cardinality(InUse \cup FailedDownloads) =
            Cardinality(InUse) + Cardinality(FailedDownloads)
              - Cardinality(InUse \cap FailedDownloads)
      BY <2>4, FS_Union
    <3> QED BY <2>2, <2>5, <3>1, <3>2
  <2>7. Listing = ListsMade
    BY DEF Listing, ListsMade
  <2> QED BY <2>5, <2>6, <2>7 DEF Inv, Balanced, DescriptorsAccounted
<1> QED BY <1>1, Invariance, HeldAlways, PTL

(***************************************************************************)
(* Part 6: to its client each job is a delivery.                           *)
(***************************************************************************)
Announced(k) == IF head[k] = NONE THEN 0 ELSE head[k].contentLength
Received(k) == Len(got[k])

(* What is left as it is for every job but one is left as it is in the     *)
(* abstract state.                                                         *)
LEMMA OthersDelivered ==
  ASSUME Inv, NEW j \in Jobs, Step(j), NEW k \in Jobs, k # j
  PROVE  /\ Announced(k)' = Announced(k) /\ Received(k)' = Received(k)
         /\ DeliveryState(k)' = DeliveryState(k)
BY OthersUntouched DEF Untouched, Announced, Received, DeliveryState

LEMMA Stutter ==
  ASSUME Inv, NEW j \in Jobs, Step(j),
         Announced(j)' = Announced(j), Received(j)' = Received(j),
         DeliveryState(j)' = DeliveryState(j)
  PROVE  UNCHANGED ToClients!vars
<1>1. \A k \in Jobs : /\ Announced(k)' = Announced(k) /\ Received(k)' = Received(k)
                      /\ DeliveryState(k)' = DeliveryState(k)
  BY OthersDelivered
<1>2. /\ [k \in Jobs |-> Announced(k)]' = [k \in Jobs |-> Announced(k)]
      /\ [k \in Jobs |-> Received(k)]' = [k \in Jobs |-> Received(k)]
      /\ [k \in Jobs |-> DeliveryState(k)]' = [k \in Jobs |-> DeliveryState(k)]
  BY <1>1
<1> QED BY <1>2 DEF ToClients!vars, Announced, Received

LEMMA AnnounceStep ==
  ASSUME Inv, Inv', NEW j \in Jobs, SendHead(j)
  PROVE  ToClients!Announce(j)
<1>1. /\ pc[j] = "head" /\ pc'[j] = "body" /\ link[j] = "up" /\ link'[j] = "up"
      /\ got' = got
  BY DEF SendHead, Goto, Inv, TypeOK
<1>2. head[j] = NONE /\ head'[j] # NONE /\ head'[j] \in Heads
  BY <1>1 DEF Inv, JobInv, SentTo, TypeOK
<1>3. DeliveryState(j) = "asked" /\ DeliveryState(j)' = "announced"
  BY <1>1, <1>2 DEF DeliveryState
<1>4. Announced(j)' \in Nat
  BY <1>2 DEF Announced, Heads
<1>5. Step(j)
  BY DEF Step, SendNext
<1>6. /\ [k \in Jobs |-> Announced(k)]'
           = [[k \in Jobs |-> Announced(k)] EXCEPT ![j] = Announced(j)']
      /\ [k \in Jobs |-> Received(k)]' = [k \in Jobs |-> Received(k)]
      /\ [k \in Jobs |-> DeliveryState(k)]'
           = [[k \in Jobs |-> DeliveryState(k)] EXCEPT ![j] = "announced"]
  BY <1>1, <1>3, <1>5, OthersDelivered DEF Received
<1>7. [k \in Jobs |-> Announced(k)]'[j] = Announced(j)'
  OBVIOUS
<1> QED BY <1>3, <1>4, <1>6, <1>7 DEF ToClients!Announce, Announced, Received

LEMMA DeliverStep ==
  ASSUME Inv, NEW j \in Jobs, SendBody(j)
  PROVE  ToClients!Deliver(j) \/ UNCHANGED ToClients!vars
<1>1. PICK total \in Nat, more \in Seq(Items) :
        /\ Len(got[j]) <= total /\ total <= Len(original[j])
        /\ Len(more) = total /\ Beginning(more, original[j])
        /\ response' = [response EXCEPT ![j].curStatusHasSendLen = total]
        /\ got' = [got EXCEPT ![j] = more]
        /\ pc' = [pc EXCEPT ![j] = IF total >= Len(original[j]) THEN "sent" ELSE "body"]
  BY SendBodySends
<1>2. /\ pc[j] = "body" /\ pc'[j] \in {"body", "sent"} /\ link[j] = "up"
      /\ got'[j] = more /\ UNCHANGED <<head, link>>
  BY <1>1 DEF SendBody, Inv, TypeOK
<1>3. head[j] # NONE /\ head[j].contentLength = Len(original[j])
  BY <1>2 DEF Inv, JobInv, SentTo
<1>4. DeliveryState(j) = "announced" /\ DeliveryState(j)' = "announced"
  BY <1>2, <1>3 DEF DeliveryState
<1>5. /\ Announced(j) = Len(original[j]) /\ Announced(j)' = Announced(j)
      /\ Received(j) = Len(got[j]) /\ Received(j)' = total
  BY <1>1, <1>2, <1>3 DEF Announced, Received
<1>6. Step(j)
  BY DEF Step, SendNext
<1>7. CASE total = Len(got[j])
  BY <1>4, <1>5, <1>6, <1>7, Stutter
<1>8. CASE total # Len(got[j])
  <2>1. total \in (Received(j) + 1)..Announced(j)
    BY <1>1, <1>5, <1>8, LenProperties DEF Inv, TypeOK
  <2>2. /\ [k \in Jobs |-> Announced(k)]' = [k \in Jobs |-> Announced(k)]
        /\ [k \in Jobs |-> Received(k)]' = [[k \in Jobs |-> Received(k)] EXCEPT ![j] = total]
        /\ [k \in Jobs |-> DeliveryState(k)]' = [k \in Jobs |-> DeliveryState(k)]
    BY <1>4, <1>5, <1>6, OthersDelivered
  <2> QED BY <1>4, <2>1, <2>2 DEF ToClients!Deliver, Announced, Received
<1> QED BY <1>7, <1>8

LEMMA CompleteStep ==
  ASSUME Inv, NEW j \in Jobs, Finish(j), link[j] = "up"
  PROVE  ToClients!Complete(j)
<1>1. pc[j] = "sent" /\ pc'[j] = "done" /\ UNCHANGED <<link, head, got>>
  BY DEF Finish, Goto, clientVars, Inv, TypeOK
<1>2. /\ head[j] # NONE /\ head[j].contentLength = Len(original[j])
      /\ Len(got[j]) = Len(original[j])
  BY <1>1 DEF Inv, JobInv, SentTo
<1>3. DeliveryState(j) = "announced" /\ DeliveryState(j)' = "complete"
  BY <1>1, <1>2 DEF DeliveryState
<1>4. Received(j) = Announced(j)
  BY <1>2 DEF Received, Announced
<1>5. Step(j)
  BY DEF Step, SendNext
<1>6. /\ [k \in Jobs |-> Announced(k)]' = [k \in Jobs |-> Announced(k)]
      /\ [k \in Jobs |-> Received(k)]' = [k \in Jobs |-> Received(k)]
      /\ [k \in Jobs |-> DeliveryState(k)]'
           = [[k \in Jobs |-> DeliveryState(k)] EXCEPT ![j] = "complete"]
  BY <1>1, <1>3, <1>5, OthersDelivered DEF Announced, Received
<1> QED BY <1>3, <1>4, <1>6 DEF ToClients!Complete, Announced, Received

LEMMA BreakStep ==
  ASSUME Inv, NEW j \in Jobs, Break(j)
  PROVE  ToClients!BreakOff(j)
<1>1. /\ link[j] = "up" /\ link'[j] = "broken" /\ pc[j] # "done"
      /\ UNCHANGED <<pc, head, got>>
  BY DEF Break, Ended, Inv, TypeOK
<1>2. DeliveryState(j) \in {"asked", "announced"} /\ DeliveryState(j)' = "broken"
  BY <1>1 DEF DeliveryState
<1>3. Step(j)
  BY DEF Step
<1>4. /\ [k \in Jobs |-> Announced(k)]' = [k \in Jobs |-> Announced(k)]
      /\ [k \in Jobs |-> Received(k)]' = [k \in Jobs |-> Received(k)]
      /\ [k \in Jobs |-> DeliveryState(k)]'
           = [[k \in Jobs |-> DeliveryState(k)] EXCEPT ![j] = "broken"]
  BY <1>1, <1>2, <1>3, OthersDelivered DEF Announced, Received
<1> QED BY <1>2, <1>4 DEF ToClients!BreakOff, Announced, Received

(* A step that neither sends nor ends anything is none to the client.      *)
LEMMA SilentStep ==
  ASSUME Inv, NEW j \in Jobs, Step(j), UNCHANGED <<link, head, got>>,
         link[j] = "broken" \/ (pc[j] # "done" /\ pc'[j] # "done")
  PROVE  UNCHANGED ToClients!vars
<1>1. DeliveryState(j)' = DeliveryState(j)
  BY DEF DeliveryState
<1> QED BY <1>1, Stutter DEF Announced, Received

LEMMA StepDelivers ==
  ASSUME Inv, Inv', NEW j \in Jobs, Step(j)
  PROVE  ToClients!Next \/ UNCHANGED ToClients!vars
<1> USE DEF Goto, Redirect, Begins, Build, clientVars
<1>1. CASE SendHead(j) BY <1>1, AnnounceStep DEF ToClients!Next
<1>2. CASE SendBody(j) BY <1>2, DeliverStep DEF ToClients!Next
<1>3. CASE Finish(j)
  <2>1. CASE link[j] = "up" BY <1>3, <2>1, CompleteStep DEF ToClients!Next
  <2>2. CASE link[j] = "broken" BY <1>3, <2>2, SilentStep DEF Finish
  <2> QED BY <2>1, <2>2 DEF Inv, TypeOK
<1>4. CASE Break(j) BY <1>4, BreakStep DEF ToClients!Next
<1>5. CASE Throw(j) BY <1>5, SilentStep DEF Throw
<1>6. CASE OpenDir(j) \/ OpenFile(j) \/ RemoveFile(j)
  <2>1. /\ pc[j] = "begin" /\ pc'[j] \in {"begin", "scan", "stat"}
        /\ UNCHANGED <<link, head, got>>
    BY <1>6 DEF OpenDir, OpenFile, RemoveFile, Inv, TypeOK
  <2> QED BY <2>1, SilentStep
<1>7. CASE ReadDir(j) \/ BuildPage(j) \/ StatFile(j) \/ BuildRedirect(j)
  <2>1. /\ pc[j] \in {"begin", "scan", "stat"} /\ pc'[j] \in {"scan", "head", "lost"}
        /\ UNCHANGED <<link, head, got>>
    BY <1>7 DEF ReadDir, BuildPage, StatFile, BuildRedirect, Inv, TypeOK
  <2> QED BY <2>1, SilentStep
<1>8. CASE SendEmpty(j) \/ SendFails(j)
  <2>1. /\ pc[j] \in {"head", "body"} /\ pc'[j] \in {"sent", "failed"}
        /\ UNCHANGED <<link, head, got>>
    BY <1>8 DEF SendEmpty, SendFails, Inv, TypeOK
  <2> QED BY <2>1, SilentStep
<1>9. CASE Receive(j) \/ Write(j) \/ ReceiveLost(j)
  <2>1. /\ pc[j] \in {"receive", "write"}
        /\ pc'[j] \in {"stranded", "write", "begin", "receive", "failed"}
        /\ UNCHANGED <<link, head, got>>
    BY <1>9 DEF Receive, Write, ReceiveLost, Inv, TypeOK
  <2> QED BY <2>1, SilentStep
<1> QED BY <1>1, <1>2, <1>3, <1>4, <1>5, <1>6, <1>7, <1>8, <1>9 DEF Step, SendNext, RecvNext

LEMMA DeliveryInit == Init => ToClients!Init
<1> SUFFICES ASSUME Init PROVE ToClients!Init
  OBVIOUS
<1>1. \A j \in Jobs : head[j] = NONE /\ got[j] = <<>> /\ link[j] = "up" /\ pc[j] # "done"
  BY DEF Init
<1>2. \A j \in Jobs : Len(got[j]) = 0 /\ DeliveryState(j) = "asked"
  BY <1>1, EmptySeq DEF DeliveryState
<1> QED BY <1>1, <1>2 DEF ToClients!Init

(* What a client sees of its job is a delivery: a head that announces a    *)
(* length, no more bytes than that, and an end that is only reached when   *)
(* all of them have come, unless the connection breaks.                    *)
THEOREM ImplementsDelivery == Spec => DeliversAnswers
<1>1. Inv /\ Inv' /\ [Next]_vars => [ToClients!Next]_(ToClients!vars)
  <2> SUFFICES ASSUME Inv, Inv', [Next]_vars
               PROVE  ToClients!Next \/ UNCHANGED ToClients!vars
    OBVIOUS
  <2>1. CASE UNCHANGED vars
    BY <2>1 DEF vars, clientVars, ToClients!vars, DeliveryState
  <2>2. CASE Next
    <3>1. PICK j \in Jobs : Step(j)
      BY <2>2 DEF Next, Step
    <3> QED BY <3>1, StepDelivers
  <2> QED BY <2>1, <2>2
<1> QED BY <1>1, DeliveryInit, Invariance, PTL DEF Spec, DeliversAnswers, ToClients!Spec

-----------------------------------------------------------------------------
(***************************************************************************)
(* Part 7: the split of the resource.                                      *)
(***************************************************************************)
LEMMA LeastNumber ==
  ASSUME NEW S \in SUBSET Nat, S # {}
  PROVE  Min(S) \in S /\ \A y \in S : Min(S) <= y
<1>1. IsWellFoundedOn(OpToRel(<, Nat), Nat)
  BY NatLessThanWellFounded
<1>2. PICK x \in S : \A y \in S : <<y, x>> \notin OpToRel(<, Nat)
  BY <1>1, WFMin
<1>3. \A y \in S : ~(y < x)
  BY <1>2 DEF OpToRel
<1>4. \A y \in S : x <= y
  BY <1>3
<1> QED BY <1>4 DEF Min

(* The operation is found exactly where it stands: the search ends before  *)
(* the third word, and a name follows it.                                  *)
LEMMA FindsOperation ==
  ASSUME NEW s \in Seq(Words), NEW o \in {"download", "delete"}, Len(s) # 0, s[1] = "/"
  PROVE  HasFile(s) /\ SubSeq(s, 2, SearchEnd(s)) = <<o>>
           <=> Len(s) > 3 /\ SubSeq(s, 1, 3) = <<"/", o, "/">>
<1> DEFINE slashes == {i \in 2..Len(s) : s[i] = "/"}
           e == SearchEnd(s)
<1>1. Len(s) \in Nat /\ \A i \in 1..Len(s) : s[i] \in Words
  BY LenProperties, ElementOfSeq
<1>2. /\ slashes = {} => e = Len(s)
      /\ slashes # {} => e = Min(slashes) - 1 /\ Min(slashes) \in slashes
                         /\ \A i \in slashes : Min(slashes) <= i
  <2>1. slashes \in SUBSET Nat
    BY <1>1
  <2>2. e = IF slashes # {} THEN Min(slashes) - 1 ELSE Len(s)
    BY DEF SearchEnd
  <2> HIDE DEF slashes, e
  <2>3. slashes # {} => Min(slashes) \in slashes /\ \A i \in slashes : Min(slashes) <= i
    BY <2>1, LeastNumber
  <2> QED BY <2>2, <2>3
<1>3. e \in 1..Len(s)
  BY <1>1, <1>2
<1>4. /\ Len(SubSeq(s, 2, e)) = e - 1
      /\ \A i \in 1..(e - 1) : SubSeq(s, 2, e)[i] = s[1 + i]
  <2>1. \A i \in 2..e : s[i] \in Words
    BY <1>1, <1>3
  <2>2. /\ Len(SubSeq(s, 2, e)) = IF 2 <= e THEN e - 2 + 1 ELSE 0
        /\ \A i \in 1..(e - 2 + 1) : SubSeq(s, 2, e)[i] = s[2 + i - 1]
    BY <1>3, <2>1, SubSeqProperties
  <2> QED BY <1>3, <2>2
<1>5. Len(s) > 3 => SubSeq(s, 1, 3) = <<s[1], s[2], s[3]>>
  <2> SUFFICES ASSUME Len(s) > 3 PROVE SubSeq(s, 1, 3) = <<s[1], s[2], s[3]>>
    OBVIOUS
  <2>1. \A i \in 1..3 : s[i] \in Words
    BY <1>1
  <2>2. /\ SubSeq(s, 1, 3) \in Seq(Words) /\ Len(SubSeq(s, 1, 3)) = 3
        /\ \A i \in 1..3 : SubSeq(s, 1, 3)[i] = s[i]
    BY <2>1, SubSeqProperties
  <2> DEFINE t == <<s[1], s[2], s[3]>>
  <2>3. t \in Seq(Words) /\ Len(t) = 3 /\ t[1] = s[1] /\ t[2] = s[2] /\ t[3] = s[3]
    BY <2>1
  <2> HIDE DEF t
  <2>4. \A i \in 1..3 : t[i] = s[i]
    BY <2>3
  <2>5. SubSeq(s, 1, 3) = t
    BY <2>2, <2>3, <2>4, SeqEqual
  <2> QED BY <2>5 DEF t
<1> HIDE DEF e
<1>6. ASSUME HasFile(s), SubSeq(s, 2, e) = <<o>>
      PROVE  Len(s) > 3 /\ SubSeq(s, 1, 3) = <<"/", o, "/">>
  <2>1. e = 2 /\ s[2] = o
    <3>1. Len(<<o>>) = 1 /\ <<o>>[1] = o
      OBVIOUS
    <3>2. Len(SubSeq(s, 2, e)) = 1 /\ SubSeq(s, 2, e)[1] = o
      BY <1>6, <3>1
    <3>3. e - 1 = 1
      BY <1>4, <3>2
    <3>4. e = 2
      BY <1>3, <3>3
    <3> QED BY <1>4, <3>2, <3>4
  <2>2. e < Len(s) - 1
    BY <1>6 DEF HasFile, e
  <2>3. slashes # {} /\ Min(slashes) = 3
    BY <1>1, <1>2, <2>1, <2>2
  <2>4. s[3] = "/"
    BY <1>2, <2>3
  <2> QED BY <1>1, <1>5, <2>1, <2>2, <2>4
<1>7. ASSUME Len(s) > 3, SubSeq(s, 1, 3) = <<"/", o, "/">>
      PROVE  HasFile(s) /\ SubSeq(s, 2, e) = <<o>>
  <2>1. s[2] = o /\ s[3] = "/" /\ o # "/"
    BY <1>5, <1>7
  <2>2. 3 \in slashes /\ 2 \notin slashes
    BY <1>1, <1>7, <2>1
  <2>3. e = 2
    <3>1. Min(slashes) \in 2..3 /\ Min(slashes) # 2
      BY <1>1, <1>2, <2>2
    <3> QED BY <1>2, <2>2, <3>1
  <2>4. HasFile(s)
    BY <1>1, <1>7, <2>3 DEF HasFile, e
  <2>5. SubSeq(s, 2, 2) = <<s[2]>>
    <3>1. /\ SubSeq(s, 2, 2) \in Seq(Words) /\ Len(SubSeq(s, 2, 2)) = 1
          /\ SubSeq(s, 2, 2)[1] = s[2]
      <4>1. \A i \in 2..2 : s[i] \in Words
        BY <1>1, <1>7
      <4>2. /\ SubSeq(s, 2, 2) \in Seq(Words)
            /\ Len(SubSeq(s, 2, 2)) = IF 2 <= 2 THEN 2 - 2 + 1 ELSE 0
            /\ \A i \in 1..(2 - 2 + 1) : SubSeq(s, 2, 2)[i] = s[2 + i - 1]
        BY <4>1, SubSeqProperties
      <4> QED BY <4>2
    <3> DEFINE t == <<s[2]>>
    <3>2. t \in Seq(Words) /\ Len(t) = 1 /\ t[1] = s[2]
      BY <1>1, <1>7
    <3> HIDE DEF t
    <3>3. \A i \in 1..1 : SubSeq(s, 2, 2)[i] = t[i]
      BY <3>1, <3>2
    <3>4. SubSeq(s, 2, 2) = t
      BY <3>1, <3>2, <3>3, SeqEqual
    <3> QED BY <3>4 DEF t
  <2> QED BY <2>1, <2>3, <2>4, <2>5
<1> QED BY <1>6, <1>7 DEF e

LEMMA SplitsWhatIsMeant ==
  ASSUME NEW s \in Resources, s # <<>>
  PROVE  Operation(s) = Meant(s)
<1>1. s \in Seq(Words) /\ s[1] = "/" /\ Len(s) \in Nat /\ Len(s) # 0
  BY LenProperties, EmptySeq DEF Resources
<1> DEFINE Stands(o) == Len(s) > 3 /\ SubSeq(s, 1, 3) = <<"/", o, "/">>
           named == {o \in {"download", "delete"} : Stands(o)}
<1>2. Meant(s) = CASE s = <<"/">> -> "list" [] named # {} -> CHOOSE o \in named : TRUE
                   [] OTHER -> "redirect"
  BY DEF Meant
<1>3. \A o \in {"download", "delete"} :
        HasFile(s) /\ SubSeq(s, 2, SearchEnd(s)) = <<o>> <=> Stands(o)
  BY <1>1, FindsOperation
<1>4. \A o \in {"download", "delete"} : Stands(o) => s[2] = o
  <2> SUFFICES ASSUME NEW o \in {"download", "delete"}, Stands(o) PROVE s[2] = o
    OBVIOUS
  <2>1. \A i \in 1..3 : s[i] \in Words
    BY <1>1, ElementOfSeq
  <2>2. \A i \in 1..3 : SubSeq(s, 1, 3)[i] = s[i]
    BY <2>1, SubSeqProperties
  <2>3. SubSeq(s, 1, 3)[2] = s[2]
    BY <2>2
  <2>4. <<"/", o, "/">>[2] = o
    OBVIOUS
  <2> QED BY <2>3, <2>4
<1>5. CASE s = <<"/">>
  <2>1. Len(s) = 1
    BY <1>5
  <2>2. named = {}
    BY <2>1
  <2> QED BY <1>2, <1>5, <2>2 DEF Operation
<1>6. CASE s # <<"/">> /\ \E o \in {"download", "delete"} : Stands(o)
  <2>1. PICK o \in {"download", "delete"} : Stands(o)
    BY <1>6
  <2>2. s[2] = o /\ named = {o}
    BY <1>4, <2>1
  <2> HIDE DEF named
  <2>3. Meant(s) = o
    BY <1>2, <1>6, <2>2
  <2>4. HasFile(s) /\ SubSeq(s, 2, SearchEnd(s)) \in {<<"download">>, <<"delete">>}
    BY <1>3, <2>1
  <2>5. Operation(s) = s[2]
    BY <1>6, <2>4 DEF Operation
  <2> QED BY <2>2, <2>3, <2>5
<1>7. CASE s # <<"/">> /\ \A o \in {"download", "delete"} : ~Stands(o)
  <2>1. named = {}
    BY <1>7
  <2>2. ~(HasFile(s) /\ SubSeq(s, 2, SearchEnd(s)) \in {<<"download">>, <<"delete">>})
    BY <1>3, <1>7
  <2> HIDE DEF named
  <2> QED BY <1>2, <1>7, <2>1, <2>2 DEF Operation
<1> QED BY <1>5, <1>6, <1>7

(* Every Response has the resource of a request or the redirection.        *)
Resourceful == bodyFileName \in [Jobs -> Resources \cup {NONE}]

LEMMA RedirectIsResource == redirect \in Resources
<1>1. redirect \in Seq(Words)
  BY DEF redirect, Words
<1> QED BY <1>1 DEF redirect, Resources

LEMMA ResourceInit == Init => Resourceful
<1> SUFFICES ASSUME Init PROVE Resourceful
  OBVIOUS
<1>1. PICK job : /\ \A k \in Jobs : job[k] \in Asks[k]
                 /\ bodyFileName = [k \in Jobs |-> IF job[k] \in Names THEN NONE ELSE job[k]]
  BY DEF Init
<1>2. \A k \in Jobs : job[k] \in Names \cup Resources
  BY <1>1, ResourceAssumption
<1> QED BY <1>1, <1>2 DEF Resourceful

LEMMA ResourceStep == Resourceful /\ [Next]_vars => Resourceful'
<1> SUFFICES ASSUME Resourceful, [Next]_vars PROVE Resourceful'
  OBVIOUS
<1>1. CASE UNCHANGED vars
  BY <1>1 DEF vars, Resourceful
<1>2. ASSUME NEW j \in Jobs, Redirect(j) PROVE Resourceful'
  BY <1>2, RedirectIsResource DEF Redirect, Resourceful
<1>3. ASSUME UNCHANGED bodyFileName PROVE Resourceful'
  BY <1>3 DEF Resourceful
<1>4. CASE Next
  <2>1. PICK j \in Jobs : SendNext(j) \/ RecvNext(j) \/ Break(j)
    BY <1>4 DEF Next
  <2>2. CASE OpenFile(j) \/ RemoveFile(j) \/ Write(j)
    BY <1>2, <1>3, <2>2 DEF OpenFile, RemoveFile, Write
  <2>3. CASE OpenDir(j) \/ ReadDir(j) \/ BuildPage(j) \/ StatFile(j) \/ BuildRedirect(j) \/ Throw(j)
    BY <1>3, <2>3 DEF OpenDir, ReadDir, BuildPage, StatFile, BuildRedirect, Throw
  <2>4. CASE SendHead(j) \/ SendBody(j) \/ SendEmpty(j) \/ SendFails(j) \/ Finish(j)
    BY <1>3, <2>4 DEF SendHead, SendBody, SendEmpty, SendFails, Finish
  <2>5. CASE Receive(j) \/ ReceiveLost(j) \/ Break(j)
    BY <1>3, <2>5 DEF Receive, ReceiveLost, Break
  <2> QED BY <2>1, <2>2, <2>3, <2>4, <2>5 DEF SendNext, RecvNext
<1> QED BY <1>1, <1>4

(* The code looks for the second "/" and compares what is before it; that  *)
(* is right for every resource: an operation is carried out if and only if *)
(* the resource is made of "/", the operation, "/" and a name.             *)
THEOREM SplitsRight == Spec => []SplitRight
<1>1. Spec => []Resourceful
  BY ResourceInit, ResourceStep, PTL DEF Spec
<1>2. Resourceful => SplitRight
  BY SplitsWhatIsMeant DEF Resourceful, SplitRight
<1> QED BY <1>1, <1>2, PTL
=============================================================================
