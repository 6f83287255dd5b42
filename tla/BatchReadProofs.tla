--------------------------- MODULE BatchReadProofs ----------------------------
(***************************************************************************)
(* Theorems about BatchRead, for any keys, names, contents and lists of     *)
(* keys: the invariants its run checks, and that an error stays.  A step     *)
(* empties the result, files one entry, passes over one, or leaves the       *)
(* result alone; each invariant is proved over these kinds of step.          *)
(***************************************************************************)
EXTENDS BatchRead, TLAPS

\* One of the results that getMany has taken could not be converted.
Failure == call.method = "getMany" /\ \E p \in 1 .. at - 1 : answer[p].data \in Unreadable

\* As long as results are taken there is an error exactly if there was a failure,
\* and a call that had one ends with it.
ErrorTells ==
    /\ pc \in {"asked", "results"} => (error # "OK" <=> Failure)
    /\ pc = "returned" /\ Failure => status # "OK"

\* A call asks for some keys and takes nothing before all is answered; getMany returns
\* OK after all is taken.
InPlace ==
    /\ pc \in {"asked", "results"} => call.keys # <<>>
    /\ pc = "asked" => at = 1 /\ DOMAIN result = {}
    /\ pc = "results" => \A p \in DOMAIN answer : answer[p].result # "NONE"
    /\ pc = "returned" /\ call.method = "getMany" /\ status = "OK" =>
           at = Len(call.keys) + 1

\* The index way of getMany files an entry for each result.
EachFiled ==
    call.method = "getMany" /\ call.index =>
        Len(result) = at - 1 /\ \A n \in 1 .. Len(result) : result[n].of = n

\* An entry is of a result that was taken.
OfTaken == \A n \in DOMAIN result : result[n].of < at

\* getMany: the entries that were released are those from the first record on that
\* could not be converted; the ones before it can be used.
FreedFromFailure ==
    \A n \in DOMAIN result :
        result[n].freed <=>
            /\ call.method = "getMany"
            /\ \E p \in 1 .. result[n].of : answer[p].data \in Unreadable

\* What was read of a record, it held in the course of the call; it holds now what
\* it was last seen to hold.
AnswersSeen ==
    \A p \in DOMAIN answer :
        answer[p].result \in {"OK", "RECORD_NOT_FOUND"} =>
            answer[p].data \in seen[call.keys[p]]
SeenNow == pc = "asked" => \A k \in DOMAIN seen : record[k] \in seen[k]

\* The error of a call is not taken back: each conversion that succeeds sets the
\* error to OK, whatever it was.
ErrorStays == [][error # "OK" /\ error' = "OK" => pc = "returned"]_vars

BatchInv ==
    /\ TypeOK /\ ErrorTells /\ InPlace /\ EachFiled /\ OfTaken /\ AnswersSeen /\ SeenNow
    /\ LastOfName /\ TellsWhatWas /\ FreedFromFailure

-----------------------------------------------------------------------------
(* The kinds of step.                                                      *)

Empties == at' = 1 /\ result' = <<>>

\* The result is left alone, and so is what it is judged by.
Leaves == UNCHANGED <<call, answer, at, result, seen>>

\* Nothing was filed yet.
Waits == pc = "asked" /\ UNCHANGED <<call, at, result>>

Files(freed) ==
    /\ pc = "results" /\ at <= Len(call.keys)
    /\ result' = Filed(Made(answer[at].data, freed)) /\ at' = at + 1
    /\ UNCHANGED <<call, answer, seen>>
    /\ call.method = "existsMany" => ~freed /\ answer[at].result # "OTHER"
    /\ call.method = "getMany" =>
           (freed <=> \E p \in 1 .. at : answer[p].data \in Unreadable)

Passes ==
    /\ call.method = "existsMany" /\ call.index /\ at <= Len(call.keys)
    /\ answer[at].result = "OTHER" /\ at' = at + 1
    /\ UNCHANGED <<call, answer, seen, result>>

\* A call that has just begun: it asks, it has ended, or the process has.
Begun(c) ==
    /\ Called(c)
    /\ released' \subseteq Key \cup {Absent}
    /\ \/ pc' = "asked" /\ error' = "OK" /\ status' = "OK" /\ c.keys # <<>>
       \/ pc' = "returned" /\ error' = "PARAM"
          /\ status' = IF OwnStatus(c) THEN "OK" ELSE "PARAM"
       \/ pc' = "returned" /\ error' = "OK" /\ status' = "OK" /\ c.keys = <<>>
       \/ pc' = "crashed" /\ error' = "OK" /\ status' = "OK"

\* The steps of Begin, in the form of Begun.
LEMMA Begins ==
  ASSUME Begin
  PROVE  \E method \in Method, index \in BOOLEAN, keys \in Batch :
             Begun([method |-> method, index |-> index, keys |-> keys])
  <1>1. PICK method \in Method, index \in BOOLEAN, keys \in Batch :
             LET c == [method |-> method, index |-> index, keys |-> keys]
             IN  \/ RefuseOptions(c) \/ NoKeys(c) \/ Ask(c)
                 \/ \E p \in DOMAIN keys : RefuseKey(c, p)
    BY DEF Begin
  <1> DEFINE c == [method |-> method, index |-> index, keys |-> keys]
  <1>2. c.keys \in Seq(Key) /\ c.keys = keys
    BY BatchAssumption
  <1>3. ASSUME NEW p \in DOMAIN keys, RefuseKey(c, p)  PROVE Begun(c)
    <2>1. c.keys[p] \in Key
      BY <1>2
    <2> HIDE DEF c
    <2> QED  BY <1>3, <2>1 DEF RefuseKey, Exit, Begun
  <1>4. ASSUME RefuseOptions(c) \/ NoKeys(c) \/ Ask(c)  PROVE Begun(c)
    <2> HIDE DEF c
    <2>1. CASE RefuseOptions(c)
      BY <2>1 DEF RefuseOptions, Exit, Crashes, Begun
    <2>2. CASE NoKeys(c)
      BY <2>2 DEF NoKeys, OwnStatus, Exit, Crashes, Begun
    <2>3. CASE Ask(c)
      BY <2>3 DEF Ask, Begun
    <2> QED  BY <1>4, <2>1, <2>2, <2>3
  <1> QED  BY <1>1, <1>3, <1>4

\* Every step is of one of the kinds.
LEMMA StepKinds ==
  ASSUME TypeOK, ErrorTells, [Next]_vars
  PROVE  Empties \/ Leaves \/ Waits \/ Passes \/ \E freed \in BOOLEAN : Files(freed)
  <1>1. CASE Begin
    BY <1>1, Begins DEF Begun, Called, Empties
  <1>2. CASE RequestFails \/ RequestSucceeds \/ Return \/ FreedTwice \/ Halt \/ UNCHANGED vars
    BY <1>2 DEF RequestFails, RequestSucceeds, Return, FreedTwice, Halt, vars, Leaves, Exit
  <1>3. ASSUME NEW k \in Key, NEW data \in Content \cup {Absent}, Change(k, data)
        PROVE  Leaves \/ Waits
    BY <1>3 DEF Change, Leaves, Waits
  <1>4. ASSUME NEW p \in DOMAIN answer, NodeReads(p) \/ NodeRefuses(p)
        PROVE  Waits
    BY <1>4 DEF NodeReads, NodeRefuses, Answers, Waits
  <1>5. CASE FillEntry
    <2>1. Files(FALSE)
      <3>1. ~Failure /\ answer[at].data \notin Unreadable
        BY <1>5 DEF FillEntry, Taking, ErrorTells
      <3>2. ~\E p \in 1 .. at : answer[p].data \in Unreadable
        BY <3>1, <1>5 DEF Failure, FillEntry, Taking, TypeOK
      <3> QED  BY <3>2, <1>5 DEF FillEntry, Taking, Take, Files, Method
    <2> QED  BY <2>1
  <1>6. CASE FillFails
    <2>1. Files(TRUE)
      <3>1. \E p \in 1 .. at : answer[p].data \in Unreadable
        BY <1>6 DEF FillFails, Taking, TypeOK
      <3> QED  BY <3>1, <1>6 DEF FillFails, Taking, Take, Files, Method
    <2> QED  BY <2>1
  <1>7. CASE FillAfterError
    <2>1. Files(TRUE)
      <3>1. \E p \in 1 .. at : answer[p].data \in Unreadable
        BY <1>7 DEF FillAfterError, Taking, ErrorTells, Failure, TypeOK
      <3> QED  BY <3>1, <1>7 DEF FillAfterError, Taking, Take, Files, Method
    <2> QED  BY <2>1
  <1>8. CASE FileMetadata
    <2>1. Files(FALSE)
      BY <1>8 DEF FileMetadata, Taking, Take, Files
    <2> QED  BY <2>1
  <1>9. CASE PassOver
    BY <1>9 DEF PassOver, Taking, Take, Passes
  <1> QED  BY <1>1, <1>2, <1>3, <1>4, <1>5, <1>6, <1>7, <1>8, <1>9 DEF Next, TakeResult

\* What is filed is appended, or takes the place that its name has.
LEMMA FiledIndex ==
  ASSUME TypeOK, call.index, NEW e \in Entry
  PROVE  /\ Filed(e) \in Seq(Entry) /\ Len(Filed(e)) = Len(result) + 1
         /\ DOMAIN Filed(e) = 1 .. Len(result) + 1 /\ DOMAIN result = 1 .. Len(result)
         /\ Len(result) \in Nat
         /\ \A n \in 1 .. Len(result) : Filed(e)[n] = result[n]
         /\ Filed(e)[Len(result) + 1] = e
  BY DEF TypeOK, Filed

LEMMA FiledDirect ==
  ASSUME ~call.index, NEW e
  PROVE  /\ DOMAIN Filed(e) = DOMAIN result \cup {Under}
         /\ Filed(e)[Under] = e
         /\ \A n \in DOMAIN result : n # Under => Filed(e)[n] = result[n]
  BY DEF Filed

\* Filing adds one entry, and changes no other.
LEMMA FiledEntries ==
  ASSUME TypeOK, NEW e \in Entry
  PROVE  \A n \in DOMAIN Filed(e) :
             Filed(e)[n] = e \/ (n \in DOMAIN result /\ Filed(e)[n] = result[n])
  <1> SUFFICES ASSUME NEW n \in DOMAIN Filed(e)
               PROVE  Filed(e)[n] = e \/ (n \in DOMAIN result /\ Filed(e)[n] = result[n])
    OBVIOUS
  <1>1. CASE call.index
    <2>1. n \in 1 .. Len(result) + 1 /\ Len(result) \in Nat
      BY <1>1, FiledIndex
    <2>2. CASE n = Len(result) + 1
      BY <1>1, <2>2, FiledIndex
    <2>3. CASE n \in 1 .. Len(result)
      BY <1>1, <2>3, FiledIndex
    <2> QED  BY <2>1, <2>2, <2>3
  <1>2. CASE ~call.index
    <2> QED  BY <1>2 DEF Filed
  <1> QED  BY <1>1, <1>2

\* The entry that is filed, and the name it goes by, are of their types.
LEMMA MadeType ==
  ASSUME TypeOK, at <= Len(call.keys), NEW freed \in BOOLEAN
  PROVE  /\ at \in 1 .. Len(call.keys) /\ at \in Nat \ {0} /\ answer[at] \in Answer
         /\ Made(answer[at].data, freed) \in Entry
         /\ Under \in {Name[k] : k \in Key}
  <1>1. at \in 1 .. Len(call.keys) /\ Len(call.keys) \in Nat
    BY DEF TypeOK
  <1>2. answer[at] \in Answer /\ call.keys[at] \in Key
    BY <1>1 DEF TypeOK
  <1> QED  BY <1>1, <1>2 DEF Made, Entry, Answer, Under

\* The empty array.
LEMMA EmptyResult == DOMAIN <<>> = {} /\ <<>> \in Seq(Entry) /\ Len(<<>>) = 0
  OBVIOUS

-----------------------------------------------------------------------------
(* The types.                                                              *)

ResultType ==
    IF call.index THEN result \in Seq(Entry)
    ELSE \A n \in DOMAIN result : n \in {Name[k] : k \in Key} /\ result[n] \in Entry

LEMMA BeginTyped ==
  ASSUME TypeOK, Begin
  PROVE  TypeOK'
  <1>1. PICK method \in Method, index \in BOOLEAN, keys \in Batch :
             Begun([method |-> method, index |-> index, keys |-> keys])
    BY Begins
  <1> DEFINE c == [method |-> method, index |-> index, keys |-> keys]
  <1>2. /\ c.method \in Method /\ c.index \in BOOLEAN /\ c.keys \in Seq(Key)
        /\ Begun(c)
    BY <1>1, BatchAssumption
  <1> HIDE DEF c
  <1>3. /\ call' = c /\ at' = 1 /\ result' = <<>> /\ record' = record
        /\ answer' = [p \in DOMAIN c.keys |-> [result |-> "NONE", data |-> Absent]]
        /\ seen' = [k \in {c.keys[p] : p \in DOMAIN c.keys} |-> {record[k]}]
    BY <1>2 DEF Begun, Called
  <1>4. record' \in [Key -> Content \cup {Absent}]
    BY <1>3 DEF TypeOK
  <1>5. /\ DOMAIN seen' = {c.keys[p] : p \in DOMAIN c.keys}
        /\ \A k \in DOMAIN seen' : seen'[k] \subseteq Content \cup {Absent}
    <2>1. \A p \in DOMAIN c.keys : c.keys[p] \in Key
      BY <1>2
    <2> QED  BY <1>3, <2>1 DEF TypeOK
  <1>6. answer' \in [1 .. Len(c.keys) -> Answer]
    <2>1. [result |-> "NONE", data |-> Absent] \in Answer
      BY DEF Answer
    <2> QED  BY <1>2, <1>3, <2>1
  <1>7. at' \in 1 .. Len(c.keys) + 1
    BY <1>2, <1>3
  <1>8. ResultType'
    BY <1>3, EmptyResult DEF ResultType
  <1>9. /\ pc' \in {"asked", "results", "returned", "crashed"}
        /\ error' \in Codes /\ status' \in Codes /\ released' \subseteq Key \cup {Absent}
    BY <1>2 DEF Begun, Codes
  <1> QED  BY <1>2, <1>3, <1>4, <1>5, <1>6, <1>7, <1>8, <1>9 DEF TypeOK, ResultType

LEMMA ChangeTyped ==
  ASSUME TypeOK, NEW k \in Key, NEW data \in Content \cup {Absent}, Change(k, data)
  PROVE  TypeOK'
  <1>1. UNCHANGED <<call, pc, answer, at, result, error, status, released>>
    BY DEF Change
  <1>2. record' \in [Key -> Content \cup {Absent}]
    BY DEF TypeOK, Change
  <1>3. /\ DOMAIN seen' = DOMAIN seen
        /\ \A j \in DOMAIN seen : seen'[j] = seen[j] \/ seen'[j] = seen[j] \cup {data}
    BY DEF Change
  <1>4. \A j \in DOMAIN seen' : seen'[j] \subseteq Content \cup {Absent}
    BY <1>3 DEF TypeOK
  <1> QED  BY <1>1, <1>2, <1>3, <1>4 DEF TypeOK

LEMMA AnswersTyped ==
  ASSUME TypeOK, NEW p \in DOMAIN answer, NodeReads(p) \/ NodeRefuses(p)
  PROVE  TypeOK'
  <1>1. \E a \in Answer : Answers(p, a)
    <2>1. call.keys[p] \in Key
      BY DEF TypeOK
    <2>2. record[call.keys[p]] \in Content \cup {Absent}
      BY <2>1 DEF TypeOK
    <2>3. CASE NodeReads(p)
      BY <2>2, <2>3 DEF NodeReads, Answer
    <2>4. CASE NodeRefuses(p)
      BY <2>4 DEF NodeRefuses, Answer
    <2> QED  BY <2>3, <2>4
  <1>2. PICK a \in Answer : Answers(p, a)
    BY <1>1
  <1>3. answer' \in [1 .. Len(call.keys) -> Answer]
    BY <1>2 DEF TypeOK, Answers
  <1> QED  BY <1>2, <1>3 DEF TypeOK, Answers

\* What is filed keeps the type of the result.
LEMMA FilesTyped ==
  ASSUME TypeOK, NEW freed \in BOOLEAN, Files(freed)
  PROVE  ResultType' /\ at' \in 1 .. Len(call.keys) + 1
  <1> DEFINE e == Made(answer[at].data, freed)
  <1>1. e \in Entry /\ at \in 1 .. Len(call.keys) /\ Under \in {Name[k] : k \in Key}
    BY MadeType DEF Files
  <1>2. result' = Filed(e) /\ call' = call /\ at' = at + 1
    BY DEF Files
  <1> HIDE DEF e
  <1>3. CASE call.index
    <2>1. Filed(e) \in Seq(Entry)
      BY <1>1, <1>3, FiledIndex
    <2> QED  BY <1>1, <1>2, <1>3, <2>1 DEF ResultType, TypeOK
  <1>4. CASE ~call.index
    <2>1. \A n \in DOMAIN Filed(e) : n \in {Name[k] : k \in Key} /\ Filed(e)[n] \in Entry
      <3> SUFFICES ASSUME NEW n \in DOMAIN Filed(e)
                   PROVE  n \in {Name[k] : k \in Key} /\ Filed(e)[n] \in Entry
        OBVIOUS
      <3>1. n \in DOMAIN result \cup {Under}
        BY <1>4 DEF Filed
      <3>2. n \in {Name[k] : k \in Key}
        BY <1>1, <1>4, <3>1 DEF TypeOK
      <3>3. Filed(e)[n] \in Entry
        BY <1>1, <1>4, FiledEntries DEF TypeOK
      <3> QED  BY <3>2, <3>3
    <2> QED  BY <1>1, <1>2, <1>4, <2>1 DEF ResultType, TypeOK
  <1> QED  BY <1>3, <1>4

LEMMA TakeTyped ==
  ASSUME TypeOK, ErrorTells, TakeResult
  PROVE  TypeOK'
  <1>1. /\ UNCHANGED <<record, seen, call, answer, released>>
        /\ pc' \in {"asked", "results", "returned", "crashed"}
        /\ error' \in Codes /\ status' \in Codes
    BY DEF TakeResult, FillEntry, FillFails, FillAfterError, FreedTwice, FileMetadata,
           PassOver, Halt, Take, TypeOK, Codes
  <1>2. Leaves \/ Passes \/ \E freed \in BOOLEAN : Files(freed)
    <2>1. Empties \/ Leaves \/ Waits \/ Passes \/ \E freed \in BOOLEAN : Files(freed)
      BY StepKinds DEF Next
    <2>2. pc = "results"
      BY DEF TakeResult, FillEntry, FillFails, FillAfterError, FreedTwice,
             FileMetadata, PassOver, Halt, Taking
    <2>3. Take(result', error') \/ Leaves
      BY DEF TakeResult, FillEntry, FillFails, FillAfterError, FreedTwice,
             FileMetadata, PassOver, Halt, Take, Leaves
    <2>4. at' = 1 => Leaves
      BY <2>3 DEF Take, Leaves, TypeOK
    <2> QED  BY <2>1, <2>2, <2>4 DEF Empties, Waits
  <1>3. ResultType' /\ at' \in 1 .. Len(call.keys) + 1
    <2>1. CASE Leaves
      BY <2>1 DEF Leaves, TypeOK, ResultType
    <2>2. CASE Passes
      BY <2>2 DEF Passes, TypeOK, ResultType
    <2>3. CASE \E freed \in BOOLEAN : Files(freed)
      BY <2>3, FilesTyped
    <2> QED  BY <1>2, <2>1, <2>2, <2>3
  <1> QED  BY <1>1, <1>3 DEF TypeOK, ResultType

\* A request that was made has a last key.
LEMMA LastKey ==
  ASSUME TypeOK, InPlace, pc \in {"asked", "results"}
  PROVE  call.keys[Len(call.keys)] \in Key
  BY DEF TypeOK, InPlace

LEMMA StepTyped ==
  ASSUME TypeOK, InPlace, ErrorTells, [Next]_vars
  PROVE  TypeOK'
  <1>1. CASE Begin
    BY <1>1, BeginTyped
  <1>2. CASE RequestFails
    <2>1. released' \subseteq Key \cup {Absent}
      BY <1>2, LastKey DEF RequestFails
    <2> QED  BY <1>2, <2>1 DEF RequestFails, TypeOK, Codes
  <1>3. CASE RequestSucceeds
    BY <1>3 DEF RequestSucceeds, TypeOK
  <1>4. CASE TakeResult
    BY <1>4, TakeTyped
  <1>5. CASE Return
    <2>1. released' \subseteq Key \cup {Absent}
      BY <1>5, LastKey DEF Return, Exit
    <2> QED  BY <1>5, <2>1 DEF Return, Exit, TypeOK, Codes
  <1>6. CASE UNCHANGED vars
    BY <1>6 DEF vars, TypeOK
  <1> QED  BY <1>1, <1>2, <1>3, <1>4, <1>5, <1>6, ChangeTyped, AnswersTyped DEF Next

-----------------------------------------------------------------------------
(* The course of a call.                                                   *)

\* The steps of other clients and of the nodes.
Others ==
    \/ \E k \in Key, data \in Content \cup {Absent} : Change(k, data)
    \/ \E p \in DOMAIN answer : NodeReads(p) \/ NodeRefuses(p)

\* They leave the failures of a call as they are.
LEMMA SameFailure ==
  ASSUME TypeOK, InPlace, Others
  PROVE  UNCHANGED <<pc, error, status, call, at, result>> /\ (Failure' <=> Failure)
  <1>1. UNCHANGED <<pc, error, status, call, at, result>>
    BY DEF Others, Change, NodeReads, NodeRefuses, Answers
  <1>2. CASE pc = "asked"
    BY <1>1, <1>2 DEF InPlace, Failure
  <1>3. CASE pc # "asked"
    <2>1. answer' = answer
      BY <1>3 DEF Others, Change, NodeReads, NodeRefuses, Answers
    <2> QED  BY <1>1, <2>1 DEF Failure
  <1> QED  BY <1>2, <1>3, <1>1

\* What taking a result does to the failures.
LEMMA TakenFailure ==
  ASSUME TypeOK, at' = at + 1, UNCHANGED <<call, answer>>
  PROVE  Failure' <=> \/ Failure
                      \/ call.method = "getMany" /\ answer[at].data \in Unreadable
  <1>1. at \in Nat \ {0}
    BY DEF TypeOK
  <1>2. \A p : p \in 1 .. at <=> p \in 1 .. at - 1 \/ p = at
    BY <1>1
  <1> QED  BY <1>1, <1>2 DEF Failure

\* The error stands for a failed conversion, and nothing else, after any step.
LEMMA ErrorTellsKept ==
  ASSUME TypeOK, InPlace, ErrorTells, [Next]_vars
  PROVE  ErrorTells'
  <1>1. CASE Begin
    <2>1. ~Failure'
      <3>1. at' = 1
        BY <1>1, Begins DEF Begun, Called
      <3> QED  BY <3>1 DEF Failure
    <2>2. pc' \in {"asked", "results"} => error' = "OK"
      BY <1>1, Begins DEF Begun
    <2> QED  BY <2>1, <2>2 DEF ErrorTells
  <1>2. CASE RequestFails
    BY <1>2 DEF RequestFails, ErrorTells, InPlace, Failure
  <1>3. CASE RequestSucceeds
    BY <1>3 DEF RequestSucceeds, ErrorTells, Failure
  <1>4. CASE FillEntry
    BY <1>4, TakenFailure DEF FillEntry, Taking, Take, ErrorTells
  <1>5. CASE FillFails
    BY <1>5, TakenFailure DEF FillFails, Taking, Take, ErrorTells
  <1>6. CASE FillAfterError
    BY <1>6, TakenFailure DEF FillAfterError, Taking, Take, ErrorTells
  <1>7. CASE FileMetadata \/ PassOver
    BY <1>7, TakenFailure DEF FileMetadata, PassOver, Taking, Take, ErrorTells
  <1>8. CASE FreedTwice
    BY <1>8 DEF FreedTwice, ErrorTells
  <1>9. CASE Halt
    BY <1>9 DEF Halt, Taking, ErrorTells, Failure
  <1>10. CASE Return
    <2>1. call.method = "getMany" => status' = error
      BY <1>10 DEF Return, Exit, OwnStatus
    <2> QED  BY <1>10, <2>1 DEF Return, Exit, ErrorTells, Failure
  <1>11. CASE UNCHANGED vars
    BY <1>11 DEF vars, ErrorTells, Failure
  <1>12. CASE Others
    BY <1>12, SameFailure DEF ErrorTells
  <1> QED  BY <1>1, <1>2, <1>3, <1>4, <1>5, <1>6, <1>7, <1>8, <1>9, <1>10, <1>11, <1>12
           DEF Next, TakeResult, Others

\* The course of a call, after any step.
LEMMA InPlaceKept ==
  ASSUME TypeOK, InPlace, ErrorTells, [Next]_vars
  PROVE  InPlace'
  <1>1. CASE Begin
    <2>1. PICK method \in Method, index \in BOOLEAN, keys \in Batch :
               Begun([method |-> method, index |-> index, keys |-> keys])
      BY <1>1, Begins
    <2> DEFINE c == [method |-> method, index |-> index, keys |-> keys]
    <2>2. Begun(c)
      BY <2>1
    <2> HIDE DEF c
    <2>3. call' = c /\ at' = 1 /\ result' = <<>>
      BY <2>2 DEF Begun, Called
    <2>4. pc' = "returned" /\ c.method = "getMany" /\ status' = "OK" => c.keys = <<>>
      BY <2>2 DEF Begun, OwnStatus
    <2>5. pc' # "results" /\ (pc' = "asked" => c.keys # <<>>)
      BY <2>2 DEF Begun
    <2> QED  BY <2>3, <2>4, <2>5 DEF InPlace
  <1>2. CASE RequestFails
    BY <1>2 DEF RequestFails, InPlace
  <1>3. CASE RequestSucceeds
    BY <1>3 DEF RequestSucceeds, InPlace
  <1>4. CASE FillEntry \/ FillFails \/ FillAfterError \/ FileMetadata \/ PassOver
    BY <1>4 DEF FillEntry, FillFails, FillAfterError, FileMetadata, PassOver, Taking,
                Take, InPlace
  <1>5. CASE FreedTwice
    BY <1>5 DEF FreedTwice, InPlace
  <1>6. CASE Halt
    BY <1>6 DEF Halt, Taking, InPlace
  <1>7. CASE Return
    <2>1. at = Len(call.keys) + 1
      BY <1>7 DEF Return, TypeOK
    <2> QED  BY <1>7, <2>1 DEF Return, Exit, InPlace
  <1>8. CASE Others
    <2>1. pc # "asked" => answer' = answer
      BY <1>8 DEF Others, Change, NodeReads, NodeRefuses, Answers
    <2> QED  BY <1>8, <2>1, SameFailure DEF InPlace
  <1>9. CASE UNCHANGED vars
    BY <1>9 DEF vars, InPlace
  <1> QED  BY <1>1, <1>2, <1>3, <1>4, <1>5, <1>6, <1>7, <1>8, <1>9
           DEF Next, TakeResult, Others

\* What the nodes answer is what the call has seen of the records.
LEMMA SeenKept ==
  ASSUME TypeOK, AnswersSeen, SeenNow, [Next]_vars
  PROVE  AnswersSeen' /\ SeenNow'
  <1>1. CASE Begin
    <2>1. PICK method \in Method, index \in BOOLEAN, keys \in Batch :
               Begun([method |-> method, index |-> index, keys |-> keys])
      BY <1>1, Begins
    <2> DEFINE c == [method |-> method, index |-> index, keys |-> keys]
    <2>2. Begun(c)
      BY <2>1
    <2> HIDE DEF c
    <2>3. /\ \A p \in DOMAIN answer' : answer'[p].result = "NONE"
          /\ \A k \in DOMAIN seen' : record'[k] \in seen'[k]
      BY <2>2 DEF Begun, Called
    <2> QED  BY <2>3 DEF AnswersSeen, SeenNow
  <1>2. ASSUME NEW k \in Key, NEW data \in Content \cup {Absent}, Change(k, data)
        PROVE  AnswersSeen' /\ SeenNow'
    <2>1. /\ UNCHANGED <<pc, call, answer>> /\ DOMAIN seen' = DOMAIN seen
          /\ \A j \in DOMAIN seen : seen[j] \subseteq seen'[j]
      BY <1>2 DEF Change
    <2>2. AnswersSeen'
      <3>1. \A p \in DOMAIN answer : call.keys[p] \in DOMAIN seen
        BY DEF TypeOK
      <3> QED  BY <2>1, <3>1 DEF AnswersSeen
    <2>3. pc = "asked" => \A j \in DOMAIN seen : record'[j] \in seen'[j]
      <3> SUFFICES ASSUME pc = "asked", NEW j \in DOMAIN seen
                   PROVE  record'[j] \in seen'[j]
        OBVIOUS
      <3>1. j \in Key
        BY DEF TypeOK
      <3>2. CASE j = k
        BY <1>2, <3>1, <3>2 DEF Change, TypeOK
      <3>3. CASE j # k
        BY <1>2, <3>1, <3>3 DEF Change, TypeOK, SeenNow
      <3> QED  BY <3>2, <3>3
    <2> QED  BY <2>1, <2>2, <2>3 DEF SeenNow
  <1>3. ASSUME NEW p \in DOMAIN answer, NodeReads(p) \/ NodeRefuses(p)
        PROVE  AnswersSeen' /\ SeenNow'
    <2>1. UNCHANGED <<record, seen, call, pc>> /\ pc = "asked"
      BY <1>3 DEF NodeReads, NodeRefuses, Answers
    <2>2. /\ DOMAIN answer' = DOMAIN answer
          /\ \A q \in DOMAIN answer : q # p => answer'[q] = answer[q]
      BY <1>3 DEF NodeReads, NodeRefuses, Answers
    <2>3. \/ answer'[p].result = "OTHER"
          \/ answer'[p].data = record[call.keys[p]]
      BY <1>3 DEF NodeReads, NodeRefuses, Answers
    <2>4. record[call.keys[p]] \in seen[call.keys[p]]
      BY <2>1 DEF SeenNow, TypeOK
    <2> QED  BY <2>1, <2>2, <2>3, <2>4 DEF AnswersSeen, SeenNow
  <1>4. CASE UNCHANGED <<record, seen, call, answer>> /\ (pc' = "asked" => pc = "asked")
    BY <1>4 DEF AnswersSeen, SeenNow
  <1>5. RequestFails \/ RequestSucceeds \/ TakeResult \/ Return \/ UNCHANGED vars =>
            UNCHANGED <<record, seen, call, answer>> /\ (pc' = "asked" => pc = "asked")
    BY DEF RequestFails, RequestSucceeds, TakeResult, FillEntry, FillFails,
           FillAfterError, FreedTwice, FileMetadata, PassOver, Halt, Take, Return, Exit, vars
  <1> QED  BY <1>1, <1>2, <1>3, <1>4, <1>5 DEF Next

-----------------------------------------------------------------------------
(* The entries, over the kinds of step.                                    *)

\* The entries of the array, whichever way the call goes.
LEMMA EntriesTyped ==
  ASSUME TypeOK
  PROVE  \A n \in DOMAIN result : result[n] \in Entry /\ result[n].of \in Nat \ {0}
  <1>1. \A n \in DOMAIN result : result[n] \in Entry
    <2>1. CASE call.index
      BY <2>1 DEF TypeOK
    <2>2. CASE ~call.index
      BY <2>2 DEF TypeOK
    <2> QED  BY <2>1, <2>2
  <1> QED  BY <1>1 DEF Entry

\* The invariants about the entries, each after any step.
LEMMA OfTakenKept ==
  ASSUME TypeOK, InPlace, ErrorTells, OfTaken, [Next]_vars
  PROVE  OfTaken'
  <1>1. CASE Empties
    BY <1>1, EmptyResult DEF Empties, OfTaken
  <1>2. CASE Leaves
    BY <1>2 DEF Leaves, OfTaken
  <1>3. CASE Waits
    BY <1>3 DEF Waits, InPlace, OfTaken
  <1>4. CASE Passes
    <2>1. \A n \in DOMAIN result : result[n].of \in Nat
      BY EntriesTyped
    <2> QED  BY <1>4, <2>1 DEF Passes, OfTaken, TypeOK
  <1>5. ASSUME NEW freed \in BOOLEAN, Files(freed)
        PROVE  OfTaken'
    <2> DEFINE e == Made(answer[at].data, freed)
    <2>1. e \in Entry /\ e.of = at /\ at \in Nat
      BY <1>5, MadeType DEF Files, Made
    <2>2. result' = Filed(e) /\ at' = at + 1
      BY <1>5 DEF Files
    <2> HIDE DEF e
    <2>3. \A n \in DOMAIN result : result[n].of \in Nat
      BY EntriesTyped
    <2> QED  BY <2>1, <2>2, <2>3, FiledEntries DEF OfTaken
  <1> QED  BY <1>1, <1>2, <1>3, <1>4, <1>5, StepKinds

LEMMA EachFiledKept ==
  ASSUME TypeOK, InPlace, ErrorTells, EachFiled, [Next]_vars
  PROVE  EachFiled'
  <1>1. CASE Empties
    BY <1>1, EmptyResult DEF Empties, EachFiled
  <1>2. CASE Leaves \/ Waits
    BY <1>2 DEF Leaves, Waits, EachFiled
  <1>3. CASE Passes
    BY <1>3 DEF Passes, EachFiled
  <1>4. ASSUME NEW freed \in BOOLEAN, Files(freed)
        PROVE  EachFiled'
    <2> DEFINE e == Made(answer[at].data, freed)
    <2>1. e \in Entry /\ e.of = at /\ at \in Nat
      BY <1>4, MadeType DEF Files, Made
    <2>2. result' = Filed(e) /\ at' = at + 1 /\ call' = call
      BY <1>4 DEF Files
    <2> HIDE DEF e
    <2>3. SUFFICES ASSUME call.method = "getMany", call.index
                   PROVE  /\ Len(result') = at' - 1
                          /\ \A n \in 1 .. Len(result') : result'[n].of = n
      BY <2>2 DEF EachFiled
    <2>4. /\ Len(Filed(e)) = Len(result) + 1
          /\ Len(result) \in Nat
          /\ \A n \in 1 .. Len(result) : Filed(e)[n] = result[n]
          /\ Filed(e)[Len(result) + 1] = e
      BY <2>1, <2>3, FiledIndex
    <2>5. Len(result) = at - 1 /\ \A n \in 1 .. Len(result) : result[n].of = n
      BY <2>3 DEF EachFiled
    <2>6. Len(result') = at' - 1
      BY <2>1, <2>2, <2>4, <2>5
    <2>7. ASSUME NEW n \in 1 .. Len(result')
          PROVE  result'[n].of = n
      <3>1. n \in 1 .. Len(result) \/ n = Len(result) + 1
        BY <2>2, <2>4
      <3>2. CASE n \in 1 .. Len(result)
        BY <3>2, <2>2, <2>4, <2>5
      <3>3. CASE n = Len(result) + 1
        BY <3>3, <2>1, <2>2, <2>4, <2>5
      <3> QED  BY <3>1, <3>2, <3>3
    <2> QED  BY <2>6, <2>7
  <1> QED  BY <1>1, <1>2, <1>3, <1>4, StepKinds

\* What LastOfName says of the entry under n.
LastHere(n) ==
    LET last == result[n].of
    IN  /\ last < at /\ Name[call.keys[last]] = n
        /\ \A p \in last + 1 .. at - 1 : Name[call.keys[p]] # n

LEMMA LastOfNameKept ==
  ASSUME TypeOK, InPlace, ErrorTells, LastOfName, [Next]_vars
  PROVE  LastOfName'
  <1>1. CASE Empties
    BY <1>1, EmptyResult DEF Empties, LastOfName
  <1>2. CASE Leaves \/ Waits
    BY <1>2 DEF Leaves, Waits, LastOfName
  <1>3. CASE Passes
    BY <1>3 DEF Passes, LastOfName
  <1>4. ASSUME NEW freed \in BOOLEAN, Files(freed)
        PROVE  LastOfName'
    <2> DEFINE e == Made(answer[at].data, freed)
    <2>1. e \in Entry /\ e.of = at /\ at \in Nat \ {0}
      BY <1>4, MadeType DEF Files, Made
    <2>2. result' = Filed(e) /\ at' = at + 1 /\ call' = call
      BY <1>4 DEF Files
    <2> HIDE DEF e
    <2>3. SUFFICES ASSUME ~call.index
                   PROVE  /\ \A p \in 1 .. at' - 1 : Name[call.keys[p]] \in DOMAIN result'
                          /\ \A n \in DOMAIN result' : LastHere(n)'
      BY <2>2 DEF LastOfName, LastHere
    <2>4. /\ DOMAIN result' = DOMAIN result \cup {Under}
          /\ result'[Under] = e
          /\ \A n \in DOMAIN result : n # Under => result'[n] = result[n]
      BY <2>2, <2>3, FiledDirect
    <2>5. ASSUME NEW p \in 1 .. at' - 1
          PROVE  Name[call.keys[p]] \in DOMAIN result'
      <3>1. p \in 1 .. at - 1 \/ p = at
        BY <2>1, <2>2
      <3>2. CASE p \in 1 .. at - 1
        BY <2>3, <2>4, <3>2 DEF LastOfName
      <3>3. CASE p = at
        BY <2>4, <3>3 DEF Under
      <3> QED  BY <3>1, <3>2, <3>3
    <2>6. ASSUME NEW n \in DOMAIN result', n = Under
          PROVE  LastHere(n)'
      <3>1. result'[n].of = at /\ Name[call'.keys[at]] = n
        BY <2>1, <2>2, <2>4, <2>6 DEF Under
      <3>2. at < at' /\ at + 1 .. at' - 1 = {}
        BY <2>1, <2>2
      <3> QED  BY <3>1, <3>2 DEF LastHere
    <2>7. ASSUME NEW n \in DOMAIN result, n # Under
          PROVE  LastHere(n)'
      <3> DEFINE last == result[n].of
      <3>1. last \in Nat /\ result'[n].of = last
        BY <2>4, <2>7, EntriesTyped
      <3>2. /\ last < at /\ Name[call.keys[last]] = n
            /\ \A p \in last + 1 .. at - 1 : Name[call.keys[p]] # n
        BY <2>3 DEF LastOfName
      <3> HIDE DEF last
      <3>3. ASSUME NEW p \in last + 1 .. at
            PROVE  Name[call.keys[p]] # n
        <4>1. p \in last + 1 .. at - 1 \/ p = at
          BY <2>1, <3>1
        <4> QED  BY <2>7, <3>2, <4>1 DEF Under
      <3> QED  BY <2>1, <2>2, <3>1, <3>2, <3>3 DEF LastHere
    <2> QED  BY <2>4, <2>5, <2>6, <2>7
  <1> QED  BY <1>1, <1>2, <1>3, <1>4, StepKinds

\* What TellsWhatWas says of the entry under n.
TellsHere(n) ==
    \/ result[n].data \in seen[call.keys[result[n].of]]
    \/ call.method = "getMany" /\ answer[result[n].of].result = "OTHER"

LEMMA TellsWhatWasKept ==
  ASSUME TypeOK, InPlace, ErrorTells, AnswersSeen, TellsWhatWas, [Next]_vars
  PROVE  TellsWhatWas'
  <1>1. CASE Empties
    BY <1>1, EmptyResult DEF Empties, TellsWhatWas
  <1>2. CASE Leaves
    BY <1>2 DEF Leaves, TellsWhatWas
  <1>3. CASE Waits
    BY <1>3 DEF Waits, InPlace, TellsWhatWas
  <1>4. CASE Passes
    BY <1>4 DEF Passes, TellsWhatWas
  <1>5. ASSUME NEW freed \in BOOLEAN, Files(freed)
        PROVE  TellsWhatWas'
    <2> DEFINE e == Made(answer[at].data, freed)
    <2>1. /\ e \in Entry /\ e.of = at /\ e.data = answer[at].data
          /\ answer[at] \in Answer /\ at \in DOMAIN answer
      BY <1>5, MadeType DEF Files, Made, TypeOK
    <2>2. result' = Filed(e) /\ UNCHANGED <<call, answer, seen>>
      BY <1>5 DEF Files
    <2> HIDE DEF e
    <2>3. answer[at].result \in {"OK", "RECORD_NOT_FOUND", "OTHER"}
      BY <1>5, <2>1 DEF Files, InPlace, Answer
    <2>4. answer[at].result = "OTHER" => call.method = "getMany"
      BY <1>5 DEF Files, TypeOK, Method
    <2>5. answer[at].result # "OTHER" => e.data \in seen[call.keys[at]]
      BY <2>1, <2>3 DEF AnswersSeen
    <2>6. ASSUME NEW n \in DOMAIN result'
          PROVE  TellsHere(n)'
      <3>1. CASE result'[n] = e
        BY <2>1, <2>2, <2>4, <2>5, <3>1 DEF TellsHere
      <3>2. CASE n \in DOMAIN result /\ result'[n] = result[n]
        BY <2>2, <3>2 DEF TellsHere, TellsWhatWas
      <3> QED  BY <2>1, <2>2, <3>1, <3>2, FiledEntries
    <2> QED  BY <2>6 DEF TellsWhatWas, TellsHere
  <1> QED  BY <1>1, <1>2, <1>3, <1>4, <1>5, StepKinds

\* What FreedFromFailure says of the entry under n.
FreedHere(n) ==
    result[n].freed <=>
        /\ call.method = "getMany"
        /\ \E p \in 1 .. result[n].of : answer[p].data \in Unreadable

LEMMA FreedKept ==
  ASSUME TypeOK, InPlace, ErrorTells, FreedFromFailure, [Next]_vars
  PROVE  FreedFromFailure'
  <1>1. CASE Empties
    BY <1>1, EmptyResult DEF Empties, FreedFromFailure
  <1>2. CASE Leaves
    BY <1>2 DEF Leaves, FreedFromFailure
  <1>3. CASE Waits
    BY <1>3 DEF Waits, InPlace, FreedFromFailure
  <1>4. CASE Passes
    BY <1>4 DEF Passes, FreedFromFailure
  <1>5. ASSUME NEW freed \in BOOLEAN, Files(freed)
        PROVE  FreedFromFailure'
    <2> DEFINE e == Made(answer[at].data, freed)
    <2>1. e \in Entry /\ e.of = at /\ e.freed = freed
      BY <1>5, MadeType DEF Files, Made
    <2>2. result' = Filed(e) /\ UNCHANGED <<call, answer>>
      BY <1>5 DEF Files
    <2> HIDE DEF e
    <2>3. e.freed <=> /\ call.method = "getMany"
                      /\ \E p \in 1 .. at : answer[p].data \in Unreadable
      BY <1>5, <2>1 DEF Files, TypeOK, Method
    <2>4. ASSUME NEW n \in DOMAIN result'
          PROVE  FreedHere(n)'
      <3>1. CASE result'[n] = e
        BY <2>1, <2>2, <2>3, <3>1 DEF FreedHere
      <3>2. CASE n \in DOMAIN result /\ result'[n] = result[n]
        BY <2>2, <3>2 DEF FreedHere, FreedFromFailure
      <3> QED  BY <2>1, <2>2, <3>1, <3>2, FiledEntries
    <2> QED  BY <2>4 DEF FreedFromFailure, FreedHere
  <1> QED  BY <1>1, <1>2, <1>3, <1>4, <1>5, StepKinds

-----------------------------------------------------------------------------
(* The theorems.                                                           *)

\* Before the first call.
LEMMA InitBatch ==
  ASSUME Init
  PROVE  BatchInv
  <1>1. /\ call.method = "getMany" /\ call.index = TRUE /\ call.keys = <<>>
        /\ record \in [Key -> Content \cup {Absent}] /\ seen = <<>> /\ answer = <<>>
        /\ at = 1 /\ result = <<>> /\ pc = "returned"
        /\ error = "OK" /\ status = "OK" /\ released = {}
    BY DEF Init
  <1>2. DOMAIN result = {} /\ DOMAIN seen = {} /\ DOMAIN answer = {}
    BY <1>1
  <1>3. TypeOK
    <2>1. answer \in [1 .. Len(call.keys) -> Answer]
      BY <1>1
    <2>2. DOMAIN seen = {call.keys[p] : p \in DOMAIN call.keys}
      BY <1>1, <1>2
    <2>3. call.keys \in Seq(Key) /\ at \in 1 .. Len(call.keys) + 1
      BY <1>1
    <2>4. ResultType
      BY <1>1, <1>2, EmptyResult DEF ResultType
    <2>5. /\ call.method \in Method /\ call.index \in BOOLEAN /\ error \in Codes
          /\ status \in Codes /\ released \subseteq Key \cup {Absent}
          /\ pc \in {"asked", "results", "returned", "crashed"}
      BY <1>1 DEF Method, Codes
    <2>6. record \in [Key -> Content \cup {Absent}]
      BY <1>1
    <2> QED  BY <1>2, <2>1, <2>2, <2>3, <2>4, <2>5, <2>6 DEF TypeOK, ResultType
  <1>4. ErrorTells /\ InPlace
    BY <1>1 DEF ErrorTells, InPlace, Failure
  <1>5. EachFiled /\ OfTaken /\ LastOfName
    BY <1>1, <1>2 DEF EachFiled, OfTaken, LastOfName
  <1>6. AnswersSeen /\ SeenNow /\ TellsWhatWas /\ FreedFromFailure
    BY <1>1, <1>2 DEF AnswersSeen, SeenNow, TellsWhatWas, FreedFromFailure
  <1> QED  BY <1>3, <1>4, <1>5, <1>6 DEF BatchInv

\* BatchInv is inductive.
THEOREM BatchHolds == Spec => []BatchInv
  <1>1. Init => BatchInv
    BY InitBatch
  <1>2. BatchInv /\ [Next]_vars => BatchInv'
    BY StepTyped, ErrorTellsKept, InPlaceKept, SeenKept, EachFiledKept, OfTakenKept,
       LastOfNameKept, TellsWhatWasKept, FreedKept DEF BatchInv
  <1> QED  BY <1>1, <1>2, PTL DEF Spec

\* getMany and existsMany keep their data of its types: the place of the result that is
\* taken next stays within the keys or right after them, the index way files entries
\* one after the other, the direct way under names of keys.
THEOREM BatchTypes == Spec => []TypeOK
  <1>1. BatchInv => TypeOK
    BY DEF BatchInv
  <1> QED  BY <1>1, BatchHolds, PTL

\* Two keys of one name share an entry of the direct way
\* (populate_result_for_get_exists_many), and the last of them has it.
THEOREM NamesShareEntries == Spec => []LastOfName
  <1>1. BatchInv => LastOfName
    BY DEF BatchInv
  <1> QED  BY <1>1, BatchHolds, PTL

\* However the nodes and the other clients take turns, an entry holds what its own
\* record held while the call was under way; NULL, from getMany, may stand for a
\* record that its node refused.
THEOREM EntriesTellWhatWas == Spec => []TellsWhatWas
  <1>1. BatchInv => TellsWhatWas
    BY DEF BatchInv
  <1> QED  BY <1>1, BatchHolds, PTL

\* getMany: an entry is released while it is in the array of the script exactly if its
\* record, or one before it, could not be converted.
THEOREM FreedAfterFailure == Spec => []FreedFromFailure
  <1>1. BatchInv => FreedFromFailure
    BY DEF BatchInv
  <1> QED  BY <1>1, BatchHolds, PTL

\* getMany, either way: OK is returned with an entry for each key, all of them fit for
\* use, whatever the order of the records that convert and those that do not.
THEOREM GetManyIsWhole == Spec => []OkIsWhole
  <1>1. BatchInv => OkIsWhole
    <2> SUFFICES ASSUME BatchInv, pc = "returned", call.method = "getMany", status = "OK"
                 PROVE  /\ \A n \in DOMAIN result : ~result[n].freed
                        /\ \A p \in DOMAIN call.keys :
                              IF call.index
                              THEN p \in DOMAIN result /\ result[p].of = p
                              ELSE /\ Name[call.keys[p]] \in DOMAIN result
                                   /\ result[Name[call.keys[p]]].of >= p
      BY DEF OkIsWhole
    <2>1. /\ at = Len(call.keys) + 1 /\ Len(call.keys) \in Nat
          /\ DOMAIN call.keys = 1 .. Len(call.keys)
      BY DEF BatchInv, InPlace, TypeOK
    <2>2. ~\E p \in 1 .. at - 1 : answer[p].data \in Unreadable
      BY DEF BatchInv, ErrorTells, Failure
    <2>3. ASSUME NEW n \in DOMAIN result
          PROVE  ~result[n].freed
      <3>1. result[n].of \in Nat /\ result[n].of < at
        BY EntriesTyped DEF BatchInv, OfTaken
      <3>2. 1 .. result[n].of \subseteq 1 .. at - 1
        BY <2>1, <3>1
      <3> QED  BY <2>2, <3>2 DEF BatchInv, FreedFromFailure
    <2>4. ASSUME NEW p \in DOMAIN call.keys, call.index
          PROVE  p \in DOMAIN result /\ result[p].of = p
      <3>1. /\ Len(result) = at - 1 /\ \A n \in 1 .. Len(result) : result[n].of = n
            /\ DOMAIN result = 1 .. Len(result)
        BY <2>4 DEF BatchInv, EachFiled, TypeOK
      <3> QED  BY <2>1, <3>1
    <2>5. ASSUME NEW p \in DOMAIN call.keys, ~call.index
          PROVE  /\ Name[call.keys[p]] \in DOMAIN result
                 /\ result[Name[call.keys[p]]].of >= p
      <3> DEFINE n == Name[call.keys[p]]
      <3>1. p \in 1 .. at - 1
        BY <2>1
      <3>2. n \in DOMAIN result /\ result[n].of \in Nat
        BY <2>5, <3>1, EntriesTyped DEF BatchInv, LastOfName
      <3>3. p \notin result[n].of + 1 .. at - 1
        BY <2>5, <3>2 DEF BatchInv, LastOfName
      <3> QED  BY <2>1, <3>1, <3>2, <3>3
    <2> QED  BY <2>3, <2>4, <2>5
  <1> QED  BY <1>1, BatchHolds, PTL

\* Once a record could not be converted, no record after it takes the error back,
\* though each conversion that succeeds begins with setting it to OK.
THEOREM ErrorKept == Spec => ErrorStays
  <1>1. BatchInv /\ [Next]_vars => [error # "OK" /\ error' = "OK" => pc = "returned"]_vars
    <2> SUFFICES ASSUME BatchInv, Next, error # "OK", error' = "OK", pc # "returned"
                 PROVE  FALSE
      BY DEF vars
    <2>1. CASE Begin
      <3>1. PICK c \in [method : Method, index : BOOLEAN, keys : Batch] :
                \/ RefuseOptions(c) \/ NoKeys(c) \/ Ask(c)
                \/ \E p \in DOMAIN c.keys : RefuseKey(c, p)
        BY <2>1 DEF Begin
      <3>2. Called(c)
        BY <3>1 DEF RefuseOptions, NoKeys, Ask, RefuseKey
      <3> QED  BY <3>2 DEF Called
    <2>2. CASE RequestFails \/ RequestSucceeds
      BY <2>2 DEF RequestFails, RequestSucceeds
    <2>3. CASE Others
      BY <2>3 DEF Others, Change, NodeReads, NodeRefuses, Answers
    <2>4. CASE TakeResult /\ ~Halt
      BY <2>4 DEF TakeResult, FillEntry, FillFails, FillAfterError, FreedTwice,
                  FileMetadata, PassOver, Take
    <2>5. CASE Halt
      BY <2>5 DEF Halt, Taking, BatchInv, ErrorTells, Failure
    <2>6. CASE Return
      BY <2>6 DEF Return, Exit
    <2> QED  BY <2>1, <2>2, <2>3, <2>4, <2>5, <2>6 DEF Next, Others
  <1> QED  BY <1>1, BatchHolds, PTL DEF Spec, ErrorStays
=============================================================================
