---------------------------- MODULE HeaderLines ----------------------------
(***************************************************************************)
(* Request::addHeaderOpt (message/message.h 84-126): one header line is    *)
(* taken apart with a std::istringstream that is static, and so shared by  *)
(* all workers.  Each worker adds the lines of its own request, one after  *)
(* the other; every call on the stream is a step of its own.               *)
(*                                                                         *)
(* The real calls may also overlap, which is undefined.  Here each of them *)
(* is atomic: what goes wrong goes wrong even so.                          *)
(***************************************************************************)
EXTENDS Integers, Sequences, SequencesExt

CONSTANTS
  Workers,
  Lines    (* how many header lines a request has, at least one *)

VARIABLES
  alive,      (* FALSE after undefined behaviour: pop_back of an empty string *)
  lineStream, (* the static stream: what is left to read, and good() *)
  pc,         (* pc[w]: the next call of worker w *)
  line,       (* line[w]: the number of the line it is adding *)
  key, value, (* key[w], value[w]: its local strings, as sequences of words *)
  msgHeader   (* msgHeader[w]: the options of its Request *)

locals == <<pc, line, key, value>>
vars == <<alive, lineStream, locals, msgHeader>>

(* A line is a key (with its colon), a blank, a value and its two ends. *)
Word(w, n, part) == [worker |-> w, line |-> n, part |-> part]
HeadLine(w, n) == [i \in 1..5 |-> Word(w, n, <<"key", "blank", "value", "cr", "lf">>[i])]
IsSpace(word) == word.part \in {"blank", "cr", "lf"}

Init ==
  /\ alive = TRUE
  /\ lineStream = [left |-> <<>>, good |-> TRUE]
  /\ pc = [w \in Workers |-> "str"]
  /\ line = [w \in Workers |-> 1]
  /\ key = [w \in Workers |-> <<>>]
  /\ value = [w \in Workers |-> <<>>]
  /\ msgHeader = [w \in Workers |-> {}]

Goto(w, step) == pc' = [pc EXCEPT ![w] = step]

(* str() sets the text and leaves the state of the stream as it is. *)
Str(w) ==
  /\ pc[w] = "str" /\ line[w] <= Lines
  /\ lineStream' = [lineStream EXCEPT !.left = HeadLine(w, line[w])]
  /\ Goto(w, "key")
  /\ UNCHANGED <<alive, line, key, value, msgHeader>>

(* Every call on a stream that is not good takes nothing; one that finds   *)
(* nothing to take makes it bad.                                           *)
Take(words, rest) ==
  lineStream' = IF lineStream.good /\ words # <<>>
                  THEN [lineStream EXCEPT !.left = rest]
                  ELSE [lineStream EXCEPT !.good = FALSE]
Taken(words) == IF lineStream.good THEN words ELSE <<>>

(* operator>> skips spaces and takes a word; pop_back takes its last       *)
(* character, the colon.                                                   *)
ReadKey(w) ==
  LET left == lineStream.left
      found == {i \in DOMAIN left : ~IsSpace(left[i])}
      words == IF found = {} THEN <<>> ELSE <<left[Min(found)]>>
  IN
  /\ pc[w] = "key"
  /\ Take(words, IF found = {} THEN <<>> ELSE SubSeq(left, Min(found) + 1, Len(left)))
  /\ key' = [key EXCEPT ![w] = Taken(words)]
  /\ alive' = (Taken(words) # <<>>)
  /\ Goto(w, "get")
  /\ UNCHANGED <<line, value, msgHeader>>

(* get() takes one character: the blank, or the first of what is there. *)
Get(w) ==
  LET left == lineStream.left IN
  /\ pc[w] = "get"
  /\ IF left = <<>> \/ IsSpace(left[1])
       THEN Take(left, SubSeq(left, 2, Len(left)))
       ELSE Take(left, <<[left[1] EXCEPT !.part = "cut"]>> \o Tail(left))
  /\ Goto(w, "getline")
  /\ UNCHANGED <<alive, line, key, value, msgHeader>>

(* getline takes the rest of the line; pop_back takes the last character,  *)
(* the carriage return.                                                    *)
GetLine(w) ==
  LET left == lineStream.left
      text == Taken(SelectSeq(left, LAMBDA word : word.part # "lf"))
  IN
  /\ pc[w] = "getline"
  /\ Take(left, <<>>)
  /\ alive' = (text # <<>>)
  /\ value' = [value EXCEPT ![w] = IF text = <<>> THEN <<>> ELSE Front(text)]
  /\ Goto(w, "store")
  /\ UNCHANGED <<line, key, msgHeader>>

(* The option is stored under its key.  (Content-Length is stored as a     *)
(* number, and Content-Type as two options.)                               *)
Store(w) ==
  /\ pc[w] = "store"
  /\ msgHeader' = [msgHeader EXCEPT ![w] = @ \cup {<<key[w], value[w]>>}]
  /\ line' = [line EXCEPT ![w] = @ + 1]
  /\ Goto(w, "str")
  /\ UNCHANGED <<alive, lineStream, key, value>>

Next ==
  /\ alive
  /\ \E w \in Workers : Str(w) \/ ReadKey(w) \/ Get(w) \/ GetLine(w) \/ Store(w)

Spec == Init /\ [][Next]_vars
-----------------------------------------------------------------------------
(* message/message.h:83: "根据传入的一行首部字符串，向首部保存选项": every         *)
(* option that is saved comes from one line that was passed in, a line of  *)
(* the request it is saved in.                                             *)
OptionsFromOwnLines ==
  \A w \in Workers : \A option \in msgHeader[w] :
    \E n \in 1..Lines :
      option = << <<Word(w, n, "key")>>, <<Word(w, n, "value")>> >>
=============================================================================
