------------------------- MODULE FileContentsProofs -------------------------
(***************************************************************************)
(* More proofs about module FileService: what lists contain, and what      *)
(* becomes of uploaded pieces.                                             *)
(***************************************************************************)
EXTENDS FileServiceProofs

(***************************************************************************)
(* Part 1: the lists.  While a directory is read, what was returned is     *)
(* what is listed, but for "." and ".."; whoever changes the directory     *)
(* only makes the set of files that were there all the time smaller, and   *)
(* the set of those that were there at any time larger.                    *)
(***************************************************************************)
ReadingOf(s) ==
  /\ s.always \subseteq s.ever
  /\ s.read \subseteq s.ever \cup Dots
  /\ PiecesOf(s.resVec) = s.read \ Dots
  /\ \A a, b \in DOMAIN s.resVec : s.resVec[a] = s.resVec[b] => a = b

ListOf(j) ==
  /\ pc[j] \in Unanswered => response[j] = NONE
  /\ scan[j] # NONE => ReadingOf(scan[j])
  /\ response[j] # NONE /\ response[j].bodyType = "HTML" =>
       scan[j] # NONE /\ scan[j].always \subseteq PiecesOf(scan[j].resVec)

ListInv == \A j \in Jobs : ListOf(j)

(* A list has as many files as entries when no entry is there twice.       *)
LEMMA OnceEach ==
  ASSUME NEW S, NEW s \in Seq(S), \A a, b \in DOMAIN s : s[a] = s[b] => a = b
  PROVE  Cardinality(PiecesOf(s)) = Len(s)
<1>1. Len(s) \in Nat /\ DOMAIN s = 1..Len(s)
  BY LenProperties
<1>2. s \in [1..Len(s) -> PiecesOf(s)]
  BY <1>1, LenProperties DEF PiecesOf
<1>3. s \in Surjection(1..Len(s), PiecesOf(s))
  BY <1>1, <1>2 DEF Surjection, PiecesOf
<1>4. s \in Injection(1..Len(s), PiecesOf(s))
  BY <1>1, <1>2 DEF Injection, IsInjective
<1>5. ExistsBijection(1..Len(s), PiecesOf(s))
  BY <1>3, <1>4 DEF ExistsBijection, Bijection
<1>6. IsFiniteSet(1..Len(s)) /\ Cardinality(1..Len(s)) = Len(s)
  BY <1>1, FS_Interval
<1> QED BY <1>5, <1>6, FS_Bijection

LEMMA DotsApart == Names \cap Dots = {}
BY ServiceAssumption DEF Dots

LEMMA ReadDirLists ==
  ASSUME Inv, ListInv, NEW j \in Jobs, ReadDir(j)
  PROVE  ReadingOf(scan'[j])
<1>1. PICK entry \in (scan[j].ever \cup Dots) \ scan[j].read :
        scan' = [scan EXCEPT ![j].read = @ \cup {entry},
                             ![j].resVec = IF entry \in Dots THEN @ ELSE Append(@, entry)]
  BY DEF ReadDir
<1>2. scan[j] \in Scans /\ scan[j] # NONE
  BY DEF ReadDir, Inv, TypeOK
<1>3. ReadingOf(scan[j]) /\ scan[j].resVec \in Seq(Names)
  BY <1>2 DEF ListInv, ListOf, Scans
<1> DEFINE list == IF entry \in Dots THEN scan[j].resVec ELSE Append(scan[j].resVec, entry)
<1>4. /\ scan'[j].read = scan[j].read \cup {entry} /\ scan'[j].resVec = list
      /\ scan'[j].always = scan[j].always /\ scan'[j].ever = scan[j].ever
  BY <1>1, <1>2 DEF Inv, TypeOK, Scans
<1>5. PiecesOf(list) = scan'[j].read \ Dots
      /\ \A a, b \in DOMAIN list : list[a] = list[b] => a = b
  <2>1. CASE entry \in Dots
    BY <1>3, <1>4, <2>1 DEF ReadingOf
  <2>2. CASE entry \notin Dots
    <3>1. entry \in Names
      BY <1>2, <2>2 DEF Scans
    <3>2. /\ Len(scan[j].resVec) \in Nat
          /\ DOMAIN scan[j].resVec = 1..Len(scan[j].resVec)
      BY <1>3, LenProperties
    <3>3. /\ list \in Seq(Names) /\ Len(list) = Len(scan[j].resVec) + 1
          /\ \A a \in 1..Len(scan[j].resVec) : list[a] = scan[j].resVec[a]
          /\ list[Len(scan[j].resVec) + 1] = entry
      BY <1>3, <2>2, <3>1, AppendProperties
    <3>4. DOMAIN list = 1..(Len(scan[j].resVec) + 1)
      BY <3>3, LenProperties
    <3>5. PiecesOf(list) = PiecesOf(scan[j].resVec) \cup {entry}
      <4> HIDE DEF list
      <4>1. DOMAIN list = DOMAIN scan[j].resVec \cup {Len(scan[j].resVec) + 1}
        BY <3>2, <3>4
      <4> QED BY <3>2, <3>3, <4>1 DEF PiecesOf
    <3>6. \A a \in DOMAIN scan[j].resVec : scan[j].resVec[a] # entry
      BY <1>1, <1>3 DEF ReadingOf, PiecesOf
    <3>7. \A a, b \in DOMAIN list : list[a] = list[b] => a = b
      <4> HIDE DEF list
      <4>1. DOMAIN list = DOMAIN scan[j].resVec \cup {Len(scan[j].resVec) + 1}
        BY <3>2, <3>4
      <4> QED BY <1>3, <3>2, <3>3, <3>6, <4>1 DEF ReadingOf
    <3>8. PiecesOf(scan[j].resVec) \cup {entry} = (scan[j].read \cup {entry}) \ Dots
      BY <1>3, <2>2 DEF ReadingOf
    <3> QED BY <1>4, <3>5, <3>7, <3>8
  <2> QED BY <2>1, <2>2
<1> HIDE DEF list
<1>6. entry \in scan[j].ever \cup Dots
  BY <1>1
<1> QED BY <1>3, <1>4, <1>5, <1>6 DEF ReadingOf

(* Who is told of a change of the directory has read no more and no less.  *)
LEMMA WatchedLists ==
  ASSUME Inv, ListInv, NEW d, NEW k \in Jobs, scan' = Watched(d),
         pc'[k] = pc[k] \/ pc'[k] \notin Unanswered \/ pc[k] \in Unanswered,
         response'[k] = response[k]
  PROVE  ListOf(k)'
<1>1. ListOf(k)
  BY DEF ListInv
<1>2. scan'[k] = NONE <=> scan[k] = NONE
  BY WatchedReaders DEF Inv
<1>3. CASE pc[k] # "scan"
  <2>1. scan'[k] = scan[k]
    BY <1>3 DEF Watched
  <2> QED BY <1>1, <2>1 DEF ListOf
<1>4. CASE pc[k] = "scan"
  <2>1. scan[k] \in Scans /\ scan[k] # NONE /\ response'[k] = NONE
    BY <1>1, <1>4 DEF Inv, TypeOK, ListOf, Unanswered
  <2>2. /\ scan'[k].read = scan[k].read /\ scan'[k].resVec = scan[k].resVec
        /\ scan'[k].always = scan[k].always \cap Present(d)
        /\ scan'[k].ever = scan[k].ever \cup Present(d)
    BY <1>4, <2>1 DEF Watched, Scans
  <2>3. ReadingOf(scan'[k])
    BY <1>1, <2>1, <2>2 DEF ListOf, ReadingOf
  <2> QED BY <2>1, <2>3 DEF ListOf
<1> QED BY <1>3, <1>4

LEMMA ListStep ==
  ASSUME Inv, ListInv, Inv', NEW j \in Jobs, Step(j)
  PROVE  ListInv'
<1> USE DEF Goto, Redirect, Begins, Build
<1> SUFFICES ASSUME NEW k \in Jobs PROVE ListOf(k)'
  BY DEF ListInv
<1>0. ListOf(k) /\ ListOf(j) /\ (k # j => Untouched(k))
  BY OthersUntouched DEF ListInv
<1>a. ASSUME scan'[k] = scan[k], response'[k] = response[k],
             pc'[k] \in Unanswered => pc[k] \in Unanswered
      PROVE  ListOf(k)'
  BY <1>0, <1>a DEF ListOf
<1>b. ASSUME scan' = scan, k # j PROVE ListOf(k)'
  BY <1>0, <1>a, <1>b DEF Untouched
<1>1. CASE RemoveFile(j)
  <2>1. pc[j] = "begin" /\ response'[k] = response[k]
    BY <1>1 DEF RemoveFile, answerVars
  <2>2. pc'[k] = pc[k] \/ pc[k] \in Unanswered
    BY <1>0, <2>1 DEF Untouched, Unanswered
  <2> QED BY <1>1, <2>1, <2>2, WatchedLists DEF RemoveFile
<1>2. CASE Receive(j)
  <2>1. pc[j] = "receive" /\ response'[k] = response[k]
    BY <1>2 DEF Receive, answerVars
  <2>2. pc'[k] = pc[k] \/ pc[k] \in Unanswered
    BY <1>0, <2>1 DEF Untouched, Unanswered
  <2>3. CASE free = 0
    BY <1>2, <2>1, <2>2, <2>3, <1>a DEF Receive
  <2>4. CASE free # 0
    BY <1>2, <2>1, <2>2, <2>4, WatchedLists DEF Receive
  <2> QED BY <2>3, <2>4
<1>3. CASE ReadDir(j)
  <2>1. pc[j] = "scan" /\ pc' = pc /\ response' = response /\ \A i \in Jobs \ {j} : scan'[i] = scan[i]
    BY <1>3 DEF ReadDir, answerVars, Inv, TypeOK
  <2>2. CASE k # j
    BY <2>1, <2>2, <1>a
  <2>3. CASE k = j
    BY <1>0, <1>3, <2>1, <2>3, ReadDirLists DEF ListOf, Unanswered
  <2> QED BY <2>2, <2>3
<1>4. CASE OpenDir(j)
  <2>1. pc[j] = "begin" /\ response' = response
    BY <1>4 DEF OpenDir, answerVars
  <2>2. CASE free = 0 \/ k # j
    <3>1. scan'[k] = scan[k] /\ pc'[k] = pc[k]
      BY <1>4, <2>2 DEF OpenDir, Inv, TypeOK
    <3> QED BY <2>1, <3>1, <1>a
  <2>3. CASE free # 0 /\ k = j
    <3> DEFINE new == [read |-> {}, resVec |-> <<>>,
                       always |-> Present(dir), ever |-> Present(dir)]
    <3>1. scan'[j] = new
      BY <1>4, <2>3 DEF OpenDir, Inv, TypeOK
    <3>2. new.read = {} /\ new.resVec = <<>> /\ new.always = new.ever
      OBVIOUS
    <3>3. DOMAIN new.resVec = {}
      BY <3>2, EmptySeq, LenProperties
    <3> HIDE DEF new
    <3>4. ReadingOf(new)
      BY <3>2, <3>3 DEF ReadingOf, PiecesOf
    <3> QED BY <1>0, <2>1, <2>3, <3>1, <3>4 DEF ListOf, Unanswered
  <2> QED BY <2>2, <2>3
<1>5. CASE BuildPage(j)
  <2>1. pc[j] = "scan" /\ scan' = scan /\ scan[j] # NONE /\ scan[j] \in Scans
    BY <1>5 DEF BuildPage, Inv, TypeOK
  <2>2. CASE k # j
    BY <2>1, <2>2, <1>b
  <2>3. CASE k = j /\ free = 0
    <3>1. response' = response /\ pc'[j] = "lost"
      BY <1>5, <2>3 DEF BuildPage, answerVars, Inv, TypeOK
    <3> QED BY <2>1, <2>3, <3>1, <1>a DEF Unanswered
  <2>4. CASE k = j /\ free # 0
    <3>1. pc'[j] = "head"
      BY <1>5, <2>4 DEF BuildPage, Inv, TypeOK
    <3>2. scan[j].always \subseteq PiecesOf(scan[j].resVec)
      <4>1. scan[j].always \cup Dots \subseteq scan[j].read /\ scan[j].always \subseteq Names
        BY <1>5, <2>1 DEF BuildPage, ReadAll, Scans
      <4> QED BY <1>0, <2>1, <4>1, DotsApart DEF ListOf, ReadingOf
    <3> QED BY <1>0, <2>1, <2>4, <3>1, <3>2 DEF ListOf, Unanswered
  <2> QED BY <2>2, <2>3, <2>4
<1>6. CASE StatFile(j) \/ BuildRedirect(j)
  <2>1. scan' = scan /\ pc'[j] = "head" /\ response'[j].bodyType \in {"FILE", "EMPTY"}
    BY <1>6 DEF StatFile, BuildRedirect, Response, Inv, TypeOK
  <2>2. CASE k # j
    BY <2>1, <2>2, <1>b
  <2>3. CASE k = j
    BY <1>0, <2>1, <2>3 DEF ListOf, Unanswered
  <2> QED BY <2>2, <2>3
<1>7. CASE SendBody(j)
  <2>1. scan' = scan /\ pc[j] = "body" /\ pc'[j] \in {"body", "sent"}
    BY <1>7 DEF SendBody, Inv, TypeOK
  <2>2. CASE k # j
    BY <2>1, <2>2, <1>b
  <2>3. CASE k = j
    <3>1. response'[j].bodyType = response[j].bodyType /\ response[j] # NONE
      <4>1. response[j] \in Answers /\ response[j] # NONE
        BY <2>1 DEF Inv, TypeOK
      <4> QED BY <1>7, <4>1 DEF SendBody, Inv, TypeOK, Answers
    <3> QED BY <1>0, <2>1, <2>3, <3>1 DEF ListOf, Unanswered
  <2> QED BY <2>2, <2>3
<1>8. CASE OpenFile(j) \/ Write(j) \/ ReceiveLost(j)
  <2>1. scan' = scan /\ response' = response /\ pc[j] \in Unanswered
    BY <1>8 DEF OpenFile, Write, ReceiveLost, answerVars, Unanswered
  <2> QED BY <2>1, <1>a, <1>b
<1>9. CASE SendHead(j) \/ SendEmpty(j) \/ SendFails(j) \/ Finish(j)
  <2>1. scan' = scan /\ response' = response /\ pc'[j] \notin Unanswered
    BY <1>9 DEF SendHead, SendEmpty, SendFails, Finish, answerVars, Unanswered, Inv, TypeOK
  <2> QED BY <2>1, <1>a, <1>b
<1>10. CASE Throw(j) \/ Break(j)
  BY <1>10, <1>a DEF Throw, Break, answerVars
<1> QED BY <1>1, <1>2, <1>3, <1>4, <1>5, <1>6, <1>7, <1>8, <1>9, <1>10
        DEF Step, SendNext, RecvNext

THEOREM ListInvariance == Spec => []ListInv
<1>1. Init => ListInv
  BY DEF Init, ListInv, ListOf
<1>2. Inv /\ Inv' /\ ListInv /\ [Next]_vars => ListInv'
  <2> SUFFICES ASSUME Inv, Inv', ListInv, [Next]_vars PROVE ListInv'
    OBVIOUS
  <2>1. CASE UNCHANGED vars
    BY <2>1 DEF vars, answerVars, ListInv, ListOf
  <2>2. CASE Next
    BY <2>2, ListStep DEF Next, Step
  <2> QED BY <2>1, <2>2
<1> QED BY <1>1, <1>2, Invariance, PTL DEF Spec

(* A list has each file once that was there while it was made, and none    *)
(* that was not there at any time, whatever the others delete or upload.   *)
THEOREM ListsAreRight == Spec => []ListsFiles
<1>1. Inv /\ ListInv => ListsFiles
  <2> SUFFICES ASSUME Inv, ListInv, NEW j \in Jobs,
                      response[j] # NONE, response[j].bodyType = "HTML"
               PROVE  /\ Cardinality(PiecesOf(scan[j].resVec)) = Len(scan[j].resVec)
                      /\ scan[j].always \subseteq PiecesOf(scan[j].resVec)
                      /\ PiecesOf(scan[j].resVec) \subseteq scan[j].ever
    BY DEF ListsFiles
  <2>1. /\ scan[j].always \subseteq PiecesOf(scan[j].resVec) /\ ReadingOf(scan[j])
        /\ scan[j] \in Scans
    BY DEF Inv, TypeOK, ListInv, ListOf
  <2>2. scan[j].resVec \in Seq(Names)
    BY <2>1 DEF Scans
  <2> QED BY <2>1, <2>2, OnceEach DEF ReadingOf
<1> QED BY <1>1, Invariance, ListInvariance, PTL

(***************************************************************************)
(* Part 2: the uploads.  A piece is in a file if and only if it was        *)
(* written, in one place; a piece that is written comes behind all that    *)
(* its upload has written before, since its number is the next one.        *)
(***************************************************************************)
OnlyWritten ==
  \A i \in DOMAIN data : \A p \in DOMAIN data[i] :
    data[i][p][1] \in Jobs => IsWritten(data[i][p][1], data[i][p][2])

InOrder ==
  \A i \in DOMAIN data : \A p, q \in DOMAIN data[i] :
    p < q /\ data[i][p][1] = data[i][q][1] => data[i][p][2] < data[i][q][2]

OnePlace ==
  \A i, h \in DOMAIN data : \A p \in DOMAIN data[i], q \in DOMAIN data[h] :
    data[i][p][1] \in Jobs /\ data[i][p] = data[h][q] => i = h /\ p = q

Kept ==
  \A j \in Jobs, k \in 1..Pieces : IsWritten(j, k) =>
    \E i \in DOMAIN data : \E p \in DOMAIN data[i] : data[i][p] = <<j, k>>

UploadInv == OnlyWritten /\ InOrder /\ OnePlace /\ Kept

(* A step that writes nothing, though it may create an empty file.         *)
LEMMA NothingWritten ==
  ASSUME UploadInv, upload' = upload, DOMAIN data \subseteq DOMAIN data',
         \A i \in DOMAIN data : data'[i] = data[i],
         \A i \in DOMAIN data' \ DOMAIN data : DOMAIN data'[i] = {}
  PROVE  UploadInv'
<1>1. \A j, k : IsWritten(j, k)' <=> IsWritten(j, k)
  BY DEF IsWritten
<1>2. \A i \in DOMAIN data' : \A p \in DOMAIN data'[i] :
        i \in DOMAIN data /\ p \in DOMAIN data[i] /\ data'[i][p] = data[i][p]
  OBVIOUS
<1>3. OnlyWritten'
  BY <1>1, <1>2 DEF UploadInv, OnlyWritten
<1>4. InOrder'
  BY <1>2 DEF UploadInv, InOrder
<1>5. OnePlace'
  BY <1>2 DEF UploadInv, OnePlace
<1>6. Kept'
  <2> SUFFICES ASSUME NEW j \in Jobs, NEW k \in 1..Pieces, IsWritten(j, k)'
               PROVE  \E i \in DOMAIN data' : \E p \in DOMAIN data'[i] : data'[i][p] = <<j, k>>
    BY DEF Kept
  <2>1. PICK i \in DOMAIN data : \E p \in DOMAIN data[i] : data[i][p] = <<j, k>>
    BY <1>1 DEF UploadInv, Kept
  <2> QED BY <2>1
<1> QED BY <1>3, <1>4, <1>5, <1>6 DEF UploadInv

LEMMA PieceWritten ==
  ASSUME Inv, UploadInv, NEW j \in Jobs, Write(j)
  PROVE  UploadInv'
<1> DEFINE f == file[j]
           n == Len(data[f])
           next == upload[j].next
<1>1. /\ data \in Seq(Seq(Piece)) /\ f \in DOMAIN data
      /\ upload[j] \in Uploads /\ upload[j] # NONE /\ next <= Pieces
  BY DEF Write, Inv, TypeOK
<1>2. next \in Nat /\ next \in 1..Pieces
  BY <1>1, ServiceAssumption DEF Uploads
<1>3. \A i \in DOMAIN data : data[i] \in Seq(Piece)
  BY <1>1, ElementOfSeq, LenProperties
<1>4. \A i \in DOMAIN data : \A p \in DOMAIN data[i] :
        data[i][p] \in Piece /\ data[i][p][2] \in Nat
  <2> SUFFICES ASSUME NEW i \in DOMAIN data, NEW p \in DOMAIN data[i]
               PROVE  data[i][p] \in Piece /\ data[i][p][2] \in Nat
    OBVIOUS
  <2>1. data[i][p] \in Piece
    BY <1>3, ElementOfSeq, LenProperties
  <2> QED BY <2>1, ServiceAssumption DEF Piece
<1>5. n \in Nat /\ DOMAIN data[f] = 1..n
  BY <1>1, <1>3, LenProperties
<1>6. data' = [data EXCEPT ![f] = Append(@, <<j, next>>)]
  BY DEF Write
<1>7. <<j, next>> \in Piece
  BY <1>2, ServiceAssumption DEF Piece
<1>8. /\ DOMAIN data' = DOMAIN data
      /\ \A i \in DOMAIN data : i # f => data'[i] = data[i]
      /\ data'[f] = Append(data[f], <<j, next>>)
  BY <1>1, <1>6
<1>9. /\ DOMAIN data'[f] = 1..(n + 1) /\ data'[f][n + 1] = <<j, next>>
      /\ \A p \in 1..n : data'[f][p] = data[f][p]
  BY <1>1, <1>3, <1>7, <1>8, AppendProperties, LenProperties
<1>10. /\ upload'[j] # NONE /\ upload'[j].next = next + 1
       /\ \A i \in Jobs : i # j => upload'[i] = upload[i]
  <2>0. upload[j] \in Uploads /\ upload[j].next <= Pieces
    BY <1>1
  <2>1. /\ [upload[j] EXCEPT !.next = @ + 1] \in Uploads
        /\ [upload[j] EXCEPT !.next = @ + 1].next = upload[j].next + 1
    BY <2>0, ServiceAssumption DEF Uploads
  <2> QED BY <2>1, NoneAssumption DEF Write, Inv, TypeOK
<1> HIDE DEF f, n, next
<1>11. \A i \in Jobs, k \in Nat : IsWritten(i, k)' <=> IsWritten(i, k) \/ (i = j /\ k = next)
  <2> SUFFICES ASSUME NEW i \in Jobs, NEW k \in Nat
               PROVE  IsWritten(i, k)' <=> IsWritten(i, k) \/ (i = j /\ k = next)
    OBVIOUS
  <2>1. CASE i = j
    BY <1>1, <1>2, <1>10, <2>1 DEF IsWritten, next
  <2>2. CASE i # j
    BY <1>10, <2>2 DEF IsWritten
  <2> QED BY <2>1, <2>2
<1>12. ~IsWritten(j, next)
  BY <1>2 DEF IsWritten, next
(* A place of a piece is an old one, or the end of f. *)
<1>13. ASSUME NEW i \in DOMAIN data', NEW p \in DOMAIN data'[i]
       PROVE  \/ p \in DOMAIN data[i] /\ data'[i][p] = data[i][p]
              \/ i = f /\ p = n + 1 /\ data'[i][p] = <<j, next>>
  <2>1. CASE i # f
    BY <1>8, <2>1
  <2>2. CASE i = f
    <3>1. p \in 1..(n + 1)
      BY <1>9, <1>13, <2>2
    <3>2. CASE p = n + 1
      BY <1>9, <2>2, <3>2
    <3>3. CASE p # n + 1
      <4>1. p \in 1..n
        BY <1>5, <3>1, <3>3
      <4> QED BY <1>5, <1>9, <2>2, <4>1
    <3> QED BY <3>2, <3>3
  <2> QED BY <2>1, <2>2
<1>14. \A i \in DOMAIN data : \A p \in DOMAIN data[i] :
         data[i][p][1] = j => data[i][p][2] < next /\ data[i][p] # <<j, next>>
  <2> SUFFICES ASSUME NEW i \in DOMAIN data, NEW p \in DOMAIN data[i], data[i][p][1] = j
               PROVE  data[i][p][2] < next
    BY <1>2, <1>4
  <2>1. IsWritten(j, data[i][p][2])
    BY DEF UploadInv, OnlyWritten
  <2> QED BY <2>1 DEF IsWritten, next
<1>15. OnlyWritten'
  <2>1. ASSUME NEW i \in DOMAIN data', NEW p \in DOMAIN data'[i],
               NEW a, NEW b, data'[i][p][1] = a, data'[i][p][2] = b, a \in Jobs
        PROVE  IsWritten(a, b)'
    <3>1. CASE p \in DOMAIN data[i] /\ data'[i][p] = data[i][p]
      <4>1. i \in DOMAIN data /\ data[i][p][1] = a /\ data[i][p][2] = b
        BY <1>8, <2>1, <3>1
      <4>2. IsWritten(a, b) /\ b \in Nat
        BY <1>4, <2>1, <3>1, <4>1 DEF UploadInv, OnlyWritten
      <4> QED BY <1>11, <2>1, <4>2
    <3>2. CASE data'[i][p] = <<j, next>>
      <4>1. a = j /\ b = next
        BY <2>1, <3>2
      <4> QED BY <1>2, <1>11, <4>1
    <3> QED BY <1>13, <3>1, <3>2
  <2> QED BY <2>1 DEF OnlyWritten
<1>16. InOrder'
  <2> SUFFICES ASSUME NEW i \in DOMAIN data', NEW p \in DOMAIN data'[i],
                      NEW q \in DOMAIN data'[i], p < q, data'[i][p][1] = data'[i][q][1]
               PROVE  data'[i][p][2] < data'[i][q][2]
    BY DEF InOrder
  <2>1. CASE i # f
    BY <1>8, <2>1 DEF UploadInv, InOrder
  <2>2. CASE i = f /\ q # n + 1
    <3>1. p \in DOMAIN data[f] /\ data'[f][p] = data[f][p]
      <4>1. p \in Nat /\ q \in Nat /\ p <= n + 1 /\ q <= n + 1 /\ p >= 1
        BY <1>5, <1>9, <2>2
      <4>2. p \in 1..n
        BY <1>5, <2>2, <4>1
      <4> QED BY <1>5, <1>9, <4>2
    <3>2. q \in DOMAIN data[f] /\ data'[f][q] = data[f][q]
      <4>1. q \in 1..n
        BY <1>5, <1>9, <2>2
      <4> QED BY <1>5, <1>9, <4>1
    <3>3. data[f][p][2] < data[f][q][2]
      BY <1>1, <2>2, <3>1, <3>2 DEF UploadInv, InOrder
    <3> QED BY <2>2, <3>1, <3>2, <3>3
  <2>3. CASE i = f /\ q = n + 1
    <3>1. p \in DOMAIN data[f] /\ data'[i][p] = data[f][p]
      BY <1>5, <1>9, <2>3
    <3>2. data'[i][q] = <<j, next>>
      BY <1>9, <2>3
    <3> QED BY <1>1, <1>14, <3>1, <3>2
  <2> QED BY <2>1, <2>2, <2>3
<1>17. OnePlace'
  <2> SUFFICES ASSUME NEW i \in DOMAIN data', NEW h \in DOMAIN data',
                      NEW p \in DOMAIN data'[i], NEW q \in DOMAIN data'[h],
                      data'[i][p][1] \in Jobs, data'[i][p] = data'[h][q]
               PROVE  i = h /\ p = q
    BY DEF OnePlace
  <2>0. i \in DOMAIN data /\ h \in DOMAIN data
    BY <1>8
  <2>1. CASE /\ p \in DOMAIN data[i] /\ data'[i][p] = data[i][p]
             /\ q \in DOMAIN data[h] /\ data'[h][q] = data[h][q]
    <3>1. data[i][p][1] \in Jobs /\ data[i][p] = data[h][q]
      BY <2>1
    <3> QED BY <2>0, <2>1, <3>1 DEF UploadInv, OnePlace
  <2>2. CASE /\ p \in DOMAIN data[i] /\ data'[i][p] = data[i][p]
             /\ data'[h][q] = <<j, next>>
    <3>1. data[i][p] = <<j, next>>
      BY <2>2
    <3>2. data[i][p][1] = j
      BY <3>1
    <3> QED BY <1>14, <2>0, <2>2, <3>1, <3>2
  <2>3. CASE /\ q \in DOMAIN data[h] /\ data'[h][q] = data[h][q]
             /\ data'[i][p] = <<j, next>>
    <3>1. data[h][q] = <<j, next>>
      BY <2>3
    <3>2. data[h][q][1] = j
      BY <3>1
    <3> QED BY <1>14, <2>0, <2>3, <3>1, <3>2
  <2>4. CASE i = f /\ p = n + 1 /\ h = f /\ q = n + 1
    BY <2>4
  <2> QED BY <1>13, <2>1, <2>2, <2>3, <2>4
<1>18. Kept'
  <2> SUFFICES ASSUME NEW i \in Jobs, NEW k \in 1..Pieces, IsWritten(i, k)'
               PROVE  \E h \in DOMAIN data' : \E p \in DOMAIN data'[h] : data'[h][p] = <<i, k>>
    BY DEF Kept
  <2>1. CASE i = j /\ k = next
    <3>1. f \in DOMAIN data' /\ n + 1 \in DOMAIN data'[f] /\ data'[f][n + 1] = <<i, k>>
      BY <1>1, <1>5, <1>8, <1>9, <2>1
    <3> QED BY <3>1
  <2>2. CASE IsWritten(i, k)
    <3>1. PICK h \in DOMAIN data : \E p \in DOMAIN data[h] : data[h][p] = <<i, k>>
      BY <2>2 DEF UploadInv, Kept
    <3>2. PICK p \in DOMAIN data[h] : data[h][p] = <<i, k>>
      BY <3>1
    <3>3. p \in DOMAIN data'[h] /\ data'[h][p] = data[h][p] /\ h \in DOMAIN data'
      BY <1>5, <1>8, <1>9
    <3> QED BY <3>2, <3>3
  <2> QED BY <1>11, <2>1, <2>2
<1> QED BY <1>15, <1>16, <1>17, <1>18 DEF UploadInv

LEMMA UploadStep ==
  ASSUME Inv, UploadInv, NEW j \in Jobs, Step(j)
  PROVE  UploadInv'
<1>1. ASSUME data' = data, upload' = upload PROVE UploadInv'
  BY <1>1, NothingWritten
<1>2. CASE Receive(j)
  <2>1. CASE free = 0
    BY <1>1, <1>2, <2>1 DEF Receive, fileVars
  <2>2. CASE free # 0
    <3> DEFINE name == upload[j].name
    <3>1. /\ upload' = upload
          /\ data' = IF dir[name] = NONE THEN Append(data, <<>>) ELSE data
      BY <1>2, <2>2 DEF Receive, Opened
    <3>2. CASE dir[name] # NONE
      BY <1>1, <3>1, <3>2
    <3>3. CASE dir[name] = NONE
      <4>1. data \in Seq(Seq(Piece)) /\ <<>> \in Seq(Piece)
        BY EmptySeq DEF Inv, TypeOK
      <4>2. /\ data' \in Seq(Seq(Piece)) /\ Len(data') = Len(data) + 1
            /\ \A i \in 1..Len(data) : data'[i] = data[i]
            /\ data'[Len(data) + 1] = <<>>
        BY <3>1, <3>3, <4>1, AppendProperties
      <4>3. /\ DOMAIN data = 1..Len(data) /\ Len(data) \in Nat
            /\ DOMAIN data' = 1..(Len(data) + 1)
        BY <4>1, <4>2, LenProperties
      <4>4. \A i \in DOMAIN data' \ DOMAIN data : data'[i] = <<>>
        BY <4>2, <4>3
      <4>5. DOMAIN <<>> = {}
        BY EmptySeq, LenProperties
      <4> QED BY <3>1, <4>2, <4>3, <4>4, <4>5, NothingWritten
    <3> QED BY <3>2, <3>3
  <2> QED BY <2>1, <2>2
<1>3. CASE Write(j)
  BY <1>3, PieceWritten
<1>4. CASE SendNext(j)
  BY <1>1, <1>4 DEF SendNext, OpenDir, ReadDir, BuildPage, OpenFile, StatFile, RemoveFile,
     BuildRedirect, Throw, SendHead, SendBody, SendEmpty, SendFails, Finish, fileVars
<1>5. CASE ReceiveLost(j) \/ Break(j)
  BY <1>1, <1>5 DEF ReceiveLost, Break, fileVars
<1> QED BY <1>2, <1>3, <1>4, <1>5 DEF Step, RecvNext

LEMMA UploadInit == Init => UploadInv
<1> SUFFICES ASSUME Init PROVE UploadInv
  OBVIOUS
<1>1. PICK size \in [Names -> {NONE} \cup 0..MaxSize] :
        data = [i \in 1..Len(Files) |->
                  IF size[Files[i]] = NONE THEN <<>> ELSE Initial(size[Files[i]])]
  BY DEF Init
<1>2. \A i \in DOMAIN data : \A p \in DOMAIN data[i] : p \in Nat /\ data[i][p] = <<NONE, p>>
  <2> SUFFICES ASSUME NEW i \in DOMAIN data, NEW p \in DOMAIN data[i]
               PROVE  p \in Nat /\ data[i][p] = <<NONE, p>>
    OBVIOUS
  <2>1. i \in 1..Len(Files) /\ Files[i] \in Names
    BY <1>1, FilesNumbered, ElementOfSeq, LenProperties
  <2>2. DOMAIN <<>> = {}
    BY EmptySeq, LenProperties
  <2>3. size[Files[i]] # NONE /\ data[i] = Initial(size[Files[i]])
    BY <1>1, <2>1, <2>2
  <2>4. size[Files[i]] \in Nat
    BY <2>1, <2>3, ServiceAssumption
  <2> QED BY <2>3, <2>4 DEF Initial
<1>3. NONE \notin Jobs
  BY ServiceAssumption
<1>4. OnlyWritten /\ OnePlace
  BY <1>2, <1>3 DEF OnlyWritten, OnePlace
<1>5. InOrder
  BY <1>2 DEF InOrder
<1>6. Kept
  <2> SUFFICES ASSUME NEW j \in Jobs, NEW k \in 1..Pieces PROVE ~IsWritten(j, k)
    BY DEF Kept
  <2>1. upload[j] = NONE \/ upload[j].next = 1
    BY DEF Init
  <2> QED BY <2>1, ServiceAssumption DEF IsWritten
<1> QED BY <1>4, <1>5, <1>6 DEF UploadInv

THEOREM UploadInvariance == Spec => []UploadInv
<1>1. Inv /\ UploadInv /\ [Next]_vars => UploadInv'
  <2> SUFFICES ASSUME Inv, UploadInv, [Next]_vars PROVE UploadInv'
    OBVIOUS
  <2>1. CASE UNCHANGED vars
    BY <2>1, NothingWritten DEF vars, fileVars
  <2>2. CASE Next
    BY <2>2, UploadStep DEF Next, Step
  <2> QED BY <2>1, <2>2
<1> QED BY <1>1, UploadInit, Invariance, PTL DEF Spec

(* Uploads to one name mix, but lose nothing and double nothing: each      *)
(* piece that was received is in one place of one file, and those of one   *)
(* upload are in order wherever they are.                                  *)
THEOREM UploadsKept == Spec => []PiecesKept
<1>1. UploadInv => PiecesKept
  <2> SUFFICES ASSUME UploadInv, NEW j \in Jobs, NEW k \in 1..Pieces
               PROVE  Cardinality(Places(<<j, k>>)) = IF IsWritten(j, k) THEN 1 ELSE 0
    BY DEF PiecesKept, UploadInv, InOrder
  <2>1. \A x : x \in Places(<<j, k>>) <=>
               \E i \in DOMAIN data : \E p \in DOMAIN data[i] :
                 x = <<i, p>> /\ data[i][p] = <<j, k>>
    BY DEF Places
  <2>2. CASE IsWritten(j, k)
    <3>1. PICK i \in DOMAIN data : \E p \in DOMAIN data[i] : data[i][p] = <<j, k>>
      BY <2>2 DEF UploadInv, Kept
    <3>2. PICK p \in DOMAIN data[i] : data[i][p] = <<j, k>>
      BY <3>1
    <3>3. \A h \in DOMAIN data : \A q \in DOMAIN data[h] :
            data[h][q] = <<j, k>> => h = i /\ q = p
      BY <3>2 DEF UploadInv, OnePlace
    <3>4. Places(<<j, k>>) = {<<i, p>>}
      BY <2>1, <3>2, <3>3
    <3> QED BY <2>2, <3>4, FS_Singleton
  <2>3. CASE ~IsWritten(j, k)
    <3>1. Places(<<j, k>>) = {}
      BY <2>1, <2>3 DEF UploadInv, OnlyWritten
    <3> QED BY <2>3, <3>1, FS_EmptySet
  <2> QED BY <2>2, <2>3
<1> QED BY <1>1, UploadInvariance, PTL
=============================================================================
