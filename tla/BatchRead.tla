------------------------------ MODULE BatchRead -------------------------------
(***************************************************************************)
(* aerospike_batch_operations.c: getMany() and existsMany(), which read the *)
(* records of a list of keys in one call.                                   *)
(*                                                                         *)
(* Each method has two ways: batch index, where the functions that end in   *)
(* _new walk the records the C client has filled, and batch direct, where    *)
(* the C client calls back with all results.  Either takes the results in    *)
(* the order of the keys and files an entry for each in the array of the     *)
(* script: the index way at the next index, the direct way under the key of  *)
(* the record.  The nodes answer for their keys one by one, while other      *)
(* clients write.                                                           *)
(***************************************************************************)
EXTENDS Integers, Sequences, FiniteSets

CONSTANTS
    Key,          \* the keys of records: namespace, set and user key or digest
    Name,         \* of each key: its user key or digest, as a key of a PHP array
    Content,      \* what a record may hold
    Unreadable,   \* those with a bin that AS_DEFAULT_GET cannot convert
    Absent,       \* no record
    Batch         \* the lists of keys that scripts pass

ASSUME BatchAssumption ==
    /\ DOMAIN Name = Key
    /\ Unreadable \subseteq Content /\ Absent \notin Content
    /\ Batch \subseteq Seq(Key)

VARIABLES
    record,     \* on the server: of each key, what its record holds
    seen,       \* history: what those of the call's keys held while it was under way
    call,       \* the method, whether it goes the index way, the keys
    pc,         \* "asked", "results", "returned" or "crashed"
    answer,     \* of each place in the keys: the result of the C client
    at,         \* the place of the result that is taken next
    result,     \* records_p or metadata_p, the array of the script
    error,      \* the code of the as_error
    status,     \* what the method returns
    released    \* the keys of which the call took a reference from the script

vars == <<record, seen, call, pc, answer, at, result, error, status, released>>

Method == {"getMany", "existsMany"}
Codes == {"OK", "PARAM", "SERVER", "CLIENT"}

\* An as_batch_read: "OTHER" is any code but these two.
Answer ==
    [result : {"OK"}, data : Content] \cup
    [result : {"NONE", "RECORD_NOT_FOUND", "OTHER"}, data : {Absent}]

\* An entry was made of the result at place of; freed, it is still in the array.
Entry == [of : Nat \ {0}, data : Content \cup {Absent}, freed : BOOLEAN]

Init ==
    /\ record \in [Key -> Content \cup {Absent}]
    /\ seen = <<>>
    /\ call = [method |-> "getMany", index |-> TRUE, keys |-> <<>>]
    /\ pc = "returned" /\ answer = <<>> /\ at = 1 /\ result = <<>>
    /\ error = "OK" /\ status = "OK" /\ released = {}

-----------------------------------------------------------------------------
(* The head of the methods.                                                *)

\* aerospike_batch_operations_exists_many returns a status of its own, the others
\* the code of the error.
OwnStatus(c) == c.method = "existsMany" /\ ~c.index

\* aerospike_batch_operations_get_many releases key_entry on its way out: the last
\* key it looked at, which the script still has in its array, or NULL.
ReleasesKey(c) == c.method = "getMany" /\ ~c.index

\* The exit with this error, k being the last key looked at.
Exit(c, code, k) ==
    /\ pc' = "returned" /\ error' = code
    /\ status' = IF OwnStatus(c) THEN "OK" ELSE code
    /\ released' = IF ReleasesKey(c) THEN {k} ELSE {}

Crashes == pc' = "crashed" /\ error' = "OK" /\ status' = "OK" /\ released' = {}

\* Mutant: the walk starts where the last one ended.
CalledAgain(c) ==
    /\ pc = "returned"
    /\ call' = c /\ at' = at /\ result' = <<>>
    /\ answer' = [p \in DOMAIN c.keys |-> [result |-> "NONE", data |-> Absent]]
    /\ seen' = [k \in {c.keys[p] : p \in DOMAIN c.keys} |-> {record[k]}]
    /\ UNCHANGED record

\* The methods empty the variable of the script before anything else.
Called(c) ==
    /\ pc = "returned"
    /\ call' = c /\ at' = 1 /\ result' = <<>>
    /\ answer' = [p \in DOMAIN c.keys |-> [result |-> "NONE", data |-> Absent]]
    /\ seen' = [k \in {c.keys[p] : p \in DOMAIN c.keys} |-> {record[k]}]
    /\ UNCHANGED record

\* The index way destroys records it has not initialised, which may end the process,
\* the direct way of getMany releases NULL, which does.
RefuseOptions(c) ==
    /\ Called(c)
    /\ \/ ~ReleasesKey(c) /\ Exit(c, "PARAM", Absent)
       \/ ~OwnStatus(c) /\ Crashes

NoKeys(c) ==
    /\ Called(c) /\ c.keys = <<>>
    /\ IF ReleasesKey(c) THEN Crashes ELSE Exit(c, "OK", Absent)

\* The key at p is none: no namespace, no set, a value of a wrong type.
RefuseKey(c, p) ==
    Called(c) /\ Exit(c, "PARAM", c.keys[p])

Ask(c) ==
    /\ Called(c) /\ c.keys # <<>>
    /\ pc' = "asked" /\ error' = "OK" /\ status' = "OK" /\ released' = {}

Begin ==
    \E method \in Method, index \in BOOLEAN, keys \in Batch :
        LET c == [method |-> method, index |-> index, keys |-> keys]
        IN  \/ RefuseOptions(c) \/ NoKeys(c) \/ Ask(c)
            \/ \E p \in DOMAIN keys : RefuseKey(c, p)

-----------------------------------------------------------------------------
(* The server and the C client.                                            *)

\* Another client writes or removes a record.
Change(k, data) ==
    /\ data # record[k]
    /\ record' = [record EXCEPT ![k] = data]
    /\ seen' = IF pc = "asked" THEN [j \in DOMAIN seen |-> IF j = k THEN seen[j] \cup {data} ELSE seen[j]] ELSE seen
    /\ UNCHANGED <<call, pc, answer, at, result, error, status, released>>

Answers(p, a) ==
    /\ pc = "asked" /\ answer[p].result = "NONE"
    /\ answer' = [answer EXCEPT ![p] = a]
    /\ UNCHANGED <<record, seen, call, pc, at, result, error, status, released>>

\* The node of the key at p reads its record, or answers with another code for it.
NodeReads(p) ==
    LET data == record[call.keys[p]]
    IN  Answers(p, [result |-> IF data = Absent THEN "RECORD_NOT_FOUND" ELSE "OK",
                    data |-> data])
NodeRefuses(p) == Answers(p, [result |-> "OTHER", data |-> Absent])

\* The request as a whole fails.
RequestFails ==
    /\ pc = "asked"
    /\ LET code == IF call.method = "getMany" /\ call.index THEN "PARAM" ELSE "SERVER"
       IN  /\ pc' = "returned" /\ error' = code /\ status' = code
           /\ released' = IF ReleasesKey(call)
                          THEN {call.keys[Len(call.keys)]} ELSE {}
    /\ UNCHANGED <<record, seen, call, answer, at, result>>

RequestSucceeds ==
    /\ pc = "asked" /\ \A p \in DOMAIN answer : answer[p].result # "NONE"
    /\ pc' = "results"
    /\ UNCHANGED <<record, seen, call, answer, at, result, error, status, released>>

-----------------------------------------------------------------------------
(* The results, one after the other.                                       *)

Taking(method) == pc = "results" /\ call.method = method /\ at <= Len(call.keys)

\* What the direct way files an entry under.
Under == Name[call.keys[at]]

\* Mutant: the first entry of a name stays.
FiledOnce(e) ==
    IF call.index THEN Append(result, e)
    ELSE [n \in DOMAIN result \cup {Under} |-> IF n \in DOMAIN result THEN result[n] ELSE e]

\* add_next_index_zval, and the functions that take the place of an entry.
Filed(e) ==
    IF call.index THEN Append(result, e)
    ELSE [n \in DOMAIN result \cup {Under} |-> IF n = Under THEN e ELSE result[n]]

Made(data, freed) == [of |-> at, data |-> data, freed |-> freed]

Take(r, code) ==
    /\ result' = r /\ error' = code /\ at' = at + 1
    /\ UNCHANGED <<record, seen, call, pc, answer, status, released>>

\* Mutant: the error of an earlier record is not looked at, and the conversion of the
\* bins of this one sets it to OK.
FillEntryUnheeded ==
    /\ Taking("getMany") /\ answer[at].data \notin Unreadable
    /\ Take(Filed(Made(answer[at].data, FALSE)),
            IF answer[at].result = "OK" THEN "OK" ELSE error)

\* The entry is filed before its key, its metadata and its bins are put into it.  For
\* any result but OK both are NULL.
FillEntry ==
    /\ Taking("getMany") /\ error = "OK" /\ answer[at].data \notin Unreadable
    /\ Take(Filed(Made(answer[at].data, FALSE)), "OK")

\* A bin cannot be converted: the entry is released where it is.
FillFails ==
    /\ Taking("getMany") /\ error = "OK" /\ answer[at].data \in Unreadable
    /\ Take(Filed(Made(answer[at].data, TRUE)), IF call.index THEN "PARAM" ELSE "SERVER")

\* The entry is filed, the error of an earlier record found, the entry released.
FillAfterError ==
    /\ Taking("getMany") /\ error # "OK"
    /\ Take(Filed(Made(answer[at].data, TRUE)), IF call.index THEN "PARAM" ELSE error)

\* The entry that makes room for this one was released before, which may end the
\* process.
FreedTwice ==
    /\ Taking("getMany") /\ ~call.index /\ Under \in DOMAIN result /\ result[Under].freed
    /\ pc' = "crashed"
    /\ UNCHANGED <<record, seen, call, answer, at, result, error, status, released>>

\* Mutant: a key with any other code is taken for one without a record.
FileAnyMetadata ==
    /\ Taking("existsMany")
    /\ Take(Filed(Made(answer[at].data, FALSE)), error)

\* existsMany, either way: NULL, or an entry with NULL in it, for what is not found.
FileMetadata ==
    /\ Taking("existsMany") /\ answer[at].result # "OTHER"
    /\ Take(Filed(Made(answer[at].data, FALSE)), error)

\* The index way goes to the next result, and sets no error.
PassOver ==
    /\ Taking("existsMany") /\ call.index /\ answer[at].result = "OTHER"
    /\ Take(result, error)

\* The callback of the direct way returns false, which the C client makes an error of
\* or not.
Halt ==
    /\ Taking("existsMany") /\ ~call.index /\ answer[at].result = "OTHER"
    /\ pc' = "returned"
    /\ \E code \in {"OK", "CLIENT"} : error' = code /\ status' = code
    /\ UNCHANGED <<record, seen, call, answer, at, result, released>>

Return ==
    /\ pc = "results" /\ at > Len(call.keys)
    /\ Exit(call, error, call.keys[Len(call.keys)])
    /\ UNCHANGED <<record, seen, call, answer, at, result>>

TakeResult ==
    \/ FillEntry \/ FillFails \/ FillAfterError \/ FreedTwice
    \/ FileMetadata \/ PassOver \/ Halt

Next ==
    \/ Begin \/ RequestFails \/ RequestSucceeds \/ TakeResult \/ Return
    \/ \E k \in Key, data \in Content \cup {Absent} : Change(k, data)
    \/ \E p \in DOMAIN answer : NodeReads(p) \/ NodeRefuses(p)

Spec == Init /\ [][Next]_vars

-----------------------------------------------------------------------------
(* Properties.                                                             *)

TypeOK ==
    /\ record \in [Key -> Content \cup {Absent}]
    /\ DOMAIN seen = {call.keys[p] : p \in DOMAIN call.keys}
    /\ \A k \in DOMAIN seen : seen[k] \subseteq Content \cup {Absent}
    /\ call.method \in Method /\ call.index \in BOOLEAN /\ call.keys \in Seq(Key)
    /\ pc \in {"asked", "results", "returned", "crashed"}
    /\ answer \in [1 .. Len(call.keys) -> Answer]
    /\ at \in 1 .. Len(call.keys) + 1
    /\ IF call.index THEN result \in Seq(Entry)
       ELSE \A n \in DOMAIN result : n \in {Name[k] : k \in Key} /\ result[n] \in Entry
    /\ error \in Codes /\ status \in Codes
    /\ released \subseteq Key \cup {Absent}

\* getMany: the call that returns OK returns an entry for each key, with what was
\* read of it, that can be used: in the order of the keys the index way, under its
\* name the direct way (populate_result_for_get_exists_many).
OkIsWhole ==
    pc = "returned" /\ call.method = "getMany" /\ status = "OK" =>
        /\ \A n \in DOMAIN result : ~result[n].freed
        /\ \A p \in DOMAIN call.keys :
              IF call.index
              THEN p \in DOMAIN result /\ result[p].of = p
              ELSE /\ Name[call.keys[p]] \in DOMAIN result
                   /\ result[Name[call.keys[p]]].of >= p

\* The direct way, in which two keys of one name share an entry, at any time
\* (populate_result_for_get_exists_many): each result that was taken is filed, and what
\* is filed under a name is of the last result that goes by it.
LastOfName ==
    ~call.index =>
        /\ \A p \in 1 .. at - 1 : Name[call.keys[p]] \in DOMAIN result
        /\ \A n \in DOMAIN result :
              LET last == result[n].of
              IN  /\ last < at /\ Name[call.keys[last]] = n
                  /\ \A p \in last + 1 .. at - 1 : Name[call.keys[p]] # n

\* doc/aerospike_existsmany.md:12-14 has "an indexed array matching the order of the
\* keys": what existsMany returns with OK at an index, the index way, is of the key
\* there.  It is not, where the code goes past a key without an entry
\* (aerospike_batch_operations.c:306).
MatchesKeys ==
    pc = "returned" /\ call.method = "existsMany" /\ call.index /\ status = "OK" =>
        /\ DOMAIN result = DOMAIN call.keys
        /\ \A p \in DOMAIN result : result[p].of = p

\* An entry tells what its record was at some time of the call, that there was none
\* too; but getMany tells of a record that was refused as of one that is not there.
TellsWhatWas ==
    \A n \in DOMAIN result :
        \/ result[n].data \in seen[call.keys[result[n].of]]
        \/ call.method = "getMany" /\ answer[result[n].of].result = "OTHER"

=============================================================================
