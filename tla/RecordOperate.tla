---------------------------- MODULE RecordOperate ----------------------------
(***************************************************************************)
(* operate() and operateOrdered(): a list of operations on one record.      *)
(*                                                                         *)
(* Both walk the list with one set of local variables, from which an        *)
(* operation takes its value.  operate() collects all operations in one     *)
(* as_operations and sends one request; operateOrdered() sends a request    *)
(* for each and gathers a result for each.  The server applies a request    *)
(* as a whole; requests of other PHP processes come between, answers are    *)
(* lost, and a request its caller gave up, or sent again under             *)
(* OPT_POLICY_RETRY, may be applied later.                                  *)
(***************************************************************************)
EXTENDS Integers, Sequences, FiniteSets

CONSTANTS
    Process,    \* PHP processes that work on the record
    OpLists,    \* the operations arrays their scripts pass
    Options,    \* the options arrays
    Index,      \* list indexes
    IntBound,   \* a C int holds -IntBound .. IntBound - 1
    MaxCalls,   \* model bound: calls made in all
    None

Method == {"operate", "operateOrdered"}
Call   == Process \X (1 .. MaxCalls)

\* A value of the script: "numeral" is a numeric string, "array" one of values that
\* convert, "other" a type the walk does not know.
Value == [type : {"long", "double", "string", "numeral", "array", "other"}, v : Int]

\* An element of the array, val its last field; "items" is OP_LIST_INSERT_ITEMS,
\* "range" stands for the list operations that remove or pop by an index and a count, form
\* "scalar" for an element that is no array.
OpRecord == [form : {"array", "scalar"},
             op : {"read", "write", "incr", "items", "range", "unknown"},
             val : Value \cup {None}, index : Index \cup {None}]

\* POLICY_GEN_EQ with a generation, POLICY_RETRY_ONCE, and which option has a wrong
\* type; "policy" is one that set_policy finds.
OptRecord == [gen : Nat \cup {None}, retry : BOOLEAN, bad : {"nothing", "policy", "gen", "ttl"}]

ASSUME OperateAssumption ==
    /\ IsFiniteSet(Process)
    /\ OpLists \subseteq Seq(OpRecord) /\ Options \subseteq OptRecord
    /\ Index # {} /\ Index \subseteq Int
    /\ IntBound \in Nat \ {0} /\ MaxCalls \in Nat
    /\ None \notin Nat /\ None \notin Index /\ None \notin Value

VARIABLES
    log,         \* of the record: the operations applied to it, in order
    generation,  \* of the record
    inflight,    \* the requests on their way to the server
    asked,       \* of each call: its method, list and options
    answered,    \* of each call: what it returned
    calls,       \* of each process: calls made
    pc,          \* of each process: where its call is
    local,       \* of each process: the local variables of the call
    iterator     \* of each process: the static of operater_ordered_callback

vars == <<log, generation, inflight, asked, answered, calls, pc, local, iterator>>

NoCall == [method |-> "none", list |-> <<>>,
           opts |-> [gen |-> None, retry |-> FALSE, bad |-> "nothing"]]
NoAnswer == [status |-> "none", error |-> "none", results |-> <<>>]

Fresh(index) ==
    [pos |-> 1, offset |-> 0, double_offset |-> 0, index |-> index, ops |-> <<>>,
     status |-> "OK", error |-> "OK", rec |-> FALSE, results |-> <<>>]

Status == {"OK", "PARAM", "CLIENT", "SERVER"}
Arg    == [type : {"none", "long", "double", "string", "numeral", "items", "range"},
           v : Int, index : Int]
Entry  == [call : Call, pos : Nat, write : BOOLEAN, arg : Arg]
\* Under an index of the results array, the entry of an operation or, bare, the
\* value it read.
Result == [key : Nat, pos : Nat, bare : BOOLEAN]

TypeOK ==
    /\ log \in Seq(Entry) /\ generation \in Nat
    /\ inflight \subseteq
          [call : Call, pos : Nat, copy : {1, 2}, gen : Nat \cup {None}, ops : Seq(Entry)]
    /\ asked \in [Call -> [method : Method \cup {"none"}, list : OpLists \cup {<<>>},
                           opts : OptRecord]]
    /\ answered \in [Call -> [status : Status \cup {"none"}, error : Status \cup {"none"},
                              results : Seq(Result)]]
    /\ calls \in [Process -> 0 .. MaxCalls]
    /\ pc \in [Process -> {"idle", "walk", "send", "sent", "resent", "succeeded",
                          "failed", "exit"}]
    /\ local \in [Process -> [pos : Nat \ {0}, offset : Int, double_offset : Int, index : Int,
                              ops : Seq(Entry), status : Status, error : Status,
                              rec : BOOLEAN, results : Seq(Result)]]
    /\ iterator \in [Process -> Nat]

Init ==
    /\ log = <<>> /\ generation = 0 /\ inflight = {}
    /\ asked = [c \in Call |-> NoCall]
    /\ answered = [c \in Call |-> NoAnswer]
    /\ calls = [p \in Process |-> 0]
    /\ pc = [p \in Process |-> "idle"]
    /\ \E index \in Index : local = [p \in Process |-> Fresh(index)]
    /\ iterator = [p \in Process |-> 0]

Current(p) == <<p, calls[p]>>
Asked(p)   == asked[Current(p)]
Ordered(p) == Asked(p).method = "operateOrdered"
NextOp(p)  == Asked(p).list[local[p].pos]
Walking(p) == pc[p] = "walk" /\ local[p].pos <= Len(Asked(p).list)
MayCall(p) == /\ pc[p] = "idle"
              /\ Cardinality({c \in Call : asked[c] # NoCall}) < MaxCalls

-----------------------------------------------------------------------------
(* The methods.                                                            *)

\* Parameters or key of the wrong type.
Rejected(p, method, list, opts) ==
    /\ MayCall(p)
    /\ calls' = [calls EXCEPT ![p] = @ + 1]
    /\ asked' = [asked EXCEPT ![<<p, calls[p] + 1>>] =
                    [method |-> method, list |-> list, opts |-> opts]]
    /\ answered' = [answered EXCEPT ![<<p, calls[p] + 1>>] =
                       [status |-> "PARAM", error |-> "PARAM", results |-> <<>>]]
    /\ UNCHANGED <<log, generation, inflight, pc, local, iterator>>

\* The first lines of the two functions.  operate() leaves index to what is on
\* the stack.
Begin(p, method, list, opts) ==
    /\ MayCall(p)
    /\ calls' = [calls EXCEPT ![p] = @ + 1]
    /\ asked' = [asked EXCEPT ![<<p, calls[p] + 1>>] =
                    [method |-> method, list |-> list, opts |-> opts]]
    /\ \E index \in Index :
          local' = [local EXCEPT ![p] =
             CASE opts.bad = "policy" ->
                      [Fresh(index) EXCEPT !.status = "PARAM", !.error = "PARAM"]
               [] opts.bad = "gen" /\ method = "operate" ->
                      [Fresh(index) EXCEPT !.error = "PARAM"]
               [] OTHER -> Fresh(index)]
    /\ pc' = [pc EXCEPT ![p] = IF local'[p].error = "OK" THEN "walk" ELSE "exit"]
    /\ UNCHANGED <<log, generation, inflight, answered, iterator>>

-----------------------------------------------------------------------------
(* The walk over the list.                                                 *)

\* The value has a type the walk has no branch for; operateOrdered has none
\* for a double.
UnknownType(p, e) ==
    /\ e.val # None
    /\ e.val.type = "other" \/ (Ordered(p) /\ e.val.type = "double")

NoNumber(e) == e.op = "incr" /\ e.val # None /\ e.val.type = "string"

\* Mutant: an element that is no array ends the call without a status.
RefusedSilently(p) ==
    LET e == NextOp(p)
    IN  CASE e.form = "scalar" \/ UnknownType(p, e) -> local[p]
          [] NoNumber(e) -> [local[p] EXCEPT !.status = "PARAM", !.error = "PARAM"]
          [] OTHER -> [local[p] EXCEPT !.status = "CLIENT", !.error = "CLIENT"]

\* What a goto exit of the walk leaves in status and in the as_error: no error
\* for what is no array or of no known type.
Refused(p) ==
    LET e == NextOp(p)
    IN  CASE e.form = "scalar" \/ UnknownType(p, e) ->
                [local[p] EXCEPT !.status = "CLIENT"]
          [] NoNumber(e) -> [local[p] EXCEPT !.status = "PARAM", !.error = "PARAM"]
          [] OTHER -> [local[p] EXCEPT !.status = "CLIENT", !.error = "CLIENT"]

Taken(p) ==
    LET e == NextOp(p)
    IN  e.form = "array" /\ ~UnknownType(p, e) /\ ~NoNumber(e) /\ e.op # "unknown"

\* Mutant: the error is not looked at before the next element.
StoppedByGeneration(p) == Ordered(p) /\ Asked(p).opts.bad = "gen"

\* operateOrdered reads the generation again for every element, and then looks at the
\* error, which may be that of the result before.
Stopped(p) == Ordered(p) /\ (Asked(p).opts.bad = "gen" \/ local[p].error # "OK")

\* Mutant: what operate() cannot take only ends the list.
RefuseBreaks(p) ==
    /\ Walking(p) /\ ~Stopped(p) /\ ~Taken(p)
    /\ local' = [local EXCEPT ![p] = Refused(p)]
    /\ pc' = [pc EXCEPT ![p] = IF Ordered(p) THEN "exit" ELSE "send"]
    /\ UNCHANGED <<log, generation, inflight, asked, answered, calls, iterator>>

Refuse(p) ==
    /\ Walking(p) /\ ~Stopped(p) /\ ~Taken(p)
    /\ local' = [local EXCEPT ![p] = Refused(p)]
    /\ pc' = [pc EXCEPT ![p] = "exit"]
    /\ UNCHANGED <<log, generation, inflight, asked, answered, calls, iterator>>

Stop(p) ==
    /\ Walking(p) /\ Stopped(p)
    /\ local' = [local EXCEPT ![p].error = IF Asked(p).opts.bad = "gen" THEN "PARAM" ELSE @]
    /\ pc' = [pc EXCEPT ![p] = "exit"]
    /\ UNCHANGED <<log, generation, inflight, asked, answered, calls, iterator>>

\* A PHP integer goes through a C int.
AsInt(v) == ((v + IntBound) % (2 * IntBound)) - IntBound

\* Mutant: index takes what the element has, whatever its type.
LocalsAfterUnchecked(p, e) ==
    [local[p] EXCEPT !.index = IF Ordered(p) THEN 0 ELSE e.index]

\* The locals after the fields of an element: an element without a value, or
\* with one of another type, leaves what the elements before it have set.
LocalsAfter(p, e) ==
    [local[p] EXCEPT
        !.offset = IF e.val # None /\ e.val.type = "long" THEN AsInt(e.val.v) ELSE @,
        !.double_offset = IF e.val # None /\ e.val.type = "double" THEN e.val.v ELSE @,
        !.index = IF e.index # None THEN e.index ELSE IF Ordered(p) THEN 0 ELSE @]

\* Items that are no array put nothing into the as_operations, nor does an element of
\* a list append, insert or set whose value came to nothing.
Adds(e) == e.op = "items" => e.val # None /\ e.val.type = "array"

\* aerospike_record_operations_ops: what an element puts into the as_operations.
ArgOf(e, l) ==
    CASE e.op = "read" -> [type |-> "none", v |-> 0, index |-> 0]
      [] e.op = "range" -> [type |-> "range", v |-> l.offset, index |-> l.index]
      [] e.op = "items" -> [type |-> "items", v |-> e.val.v, index |-> 0]
      [] e.op = "write" /\ e.val # None /\ e.val.type \in {"string", "numeral"} ->
            [type |-> e.val.type, v |-> e.val.v, index |-> 0]
      [] OTHER -> IF l.offset # 0
                  THEN [type |-> "long", v |-> l.offset, index |-> 0]
                  ELSE [type |-> "double", v |-> l.double_offset, index |-> 0]

\* Mutant: the as_operations is not started anew.
CollectedAll(p, entries) == local[p].ops \o entries

\* operateOrdered starts a new as_operations for each element.
Collected(p, entries) == IF Ordered(p) THEN entries ELSE local[p].ops \o entries

TakeOp(p) ==
    /\ Walking(p) /\ ~Stopped(p) /\ Taken(p)
    /\ LET e == NextOp(p)
           l == LocalsAfter(p, e)
           entry == [call |-> Current(p), pos |-> local[p].pos,
                     write |-> e.op # "read", arg |-> ArgOf(e, l)]
       IN  local' = [local EXCEPT ![p] =
                        [l EXCEPT !.ops = Collected(p, IF Adds(e) THEN <<entry>> ELSE <<>>),
                                  !.pos = local[p].pos + 1, !.error = "OK"]]
    /\ pc' = [pc EXCEPT ![p] = IF Ordered(p) THEN "send" ELSE "walk"]
    /\ UNCHANGED <<log, generation, inflight, asked, answered, calls, iterator>>

EndOfList(p) ==
    /\ pc[p] = "walk" /\ local[p].pos > Len(Asked(p).list)
    /\ pc' = [pc EXCEPT ![p] = IF Ordered(p) THEN "exit" ELSE "send"]
    /\ UNCHANGED <<log, generation, inflight, asked, answered, calls, local, iterator>>

-----------------------------------------------------------------------------
(* The request.                                                            *)

\* Mutant: the generation goes with the first request only.
GenerationOfFirst(p) == IF local[p].rec THEN None ELSE Asked(p).opts.gen

\* ops.gen is set again for each as_operations.
GenerationOf(p) == Asked(p).opts.gen

\* The request as it was sent last, known by where the walk is.
Request(p) == [call |-> Current(p), pos |-> local[p].pos,
               copy |-> IF pc[p] = "resent" THEN 2 ELSE 1,
               gen |-> GenerationOf(p), ops |-> local[p].ops]

\* A ttl of a wrong type is found after the walk, or after each element.
BadTtl(p) ==
    /\ pc[p] = "send" /\ Asked(p).opts.bad = "ttl"
    /\ local' = [local EXCEPT ![p].error = "PARAM"]
    /\ pc' = [pc EXCEPT ![p] = "exit"]
    /\ UNCHANGED <<log, generation, inflight, asked, answered, calls, iterator>>

Send(p) ==
    /\ pc[p] = "send" /\ Asked(p).opts.bad # "ttl"
    /\ inflight' = inflight \cup {Request(p)}
    /\ pc' = [pc EXCEPT ![p] = "sent"]
    /\ UNCHANGED <<log, generation, asked, answered, calls, local, iterator>>

\* The policy lets aerospike_key_operate send it once more, the first on its way or not.
Resend(p) ==
    /\ pc[p] = "sent" /\ Asked(p).opts.retry
    /\ pc' = [pc EXCEPT ![p] = "resent"]
    /\ inflight' = inflight \cup {[Request(p) EXCEPT !.copy = 2]}
    /\ UNCHANGED <<log, generation, asked, answered, calls, local, iterator>>

IsWrite(r) == \E i \in DOMAIN r.ops : r.ops[i].write

\* The answer to r reaches the call that waits for it, or it is lost.
Answer(r, what) ==
    \/ UNCHANGED pc
    \/ \E p \in Process : /\ pc[p] \in {"sent", "resent"} /\ Request(p) = r
                          /\ pc' = [pc EXCEPT ![p] = what]

\* The server applies a request as a whole, a write under POLICY_GEN_EQ only
\* at the generation it names.
Apply(r) ==
    /\ r \in inflight
    /\ IsWrite(r) /\ r.gen # None => r.gen = generation
    /\ log' = log \o r.ops
    /\ generation' = IF IsWrite(r) THEN generation + 1 ELSE generation
    /\ inflight' = inflight \ {r}
    /\ Answer(r, "succeeded")
    /\ UNCHANGED <<asked, answered, calls, local, iterator>>

\* It refuses the request, or the request is lost.
Drop(r) ==
    /\ r \in inflight
    /\ inflight' = inflight \ {r}
    /\ Answer(r, "failed")
    /\ UNCHANGED <<log, generation, asked, answered, calls, local, iterator>>

\* aerospike_key_operate gives up; the request may still be on its way.
Timeout(p) ==
    /\ pc[p] \in {"sent", "resent"}
    /\ pc' = [pc EXCEPT ![p] = "failed"]
    /\ UNCHANGED <<log, generation, inflight, asked, answered, calls, local, iterator>>

-----------------------------------------------------------------------------
(* The results.                                                            *)

\* operate() turns the record into the returned array, which may fail.
OperateSucceeded(p) ==
    /\ pc[p] = "succeeded" /\ ~Ordered(p)
    /\ \E converts \in BOOLEAN :
          local' = [local EXCEPT ![p].error = IF converts THEN "OK" ELSE "CLIENT"]
    /\ pc' = [pc EXCEPT ![p] = "exit"]
    /\ UNCHANGED <<log, generation, inflight, asked, answered, calls, iterator>>

\* The index PHP gives to what is appended to the results array.
NextIndex(results) == IF results = <<>> THEN 0 ELSE results[Len(results)].key + 1

EntryOf(p) == [key |-> iterator[p], pos |-> local[p].pos - 1, bare |-> FALSE]

\* Mutant: the static is not advanced.
WithResultStay(p) ==
    /\ local' = [local EXCEPT ![p].results = Append(@, EntryOf(p)), ![p].rec = TRUE]
    /\ UNCHANGED iterator

\* operater_ordered_callback: an entry at the index the static has reached.
WithResult(p) ==
    /\ local' = [local EXCEPT ![p].results = Append(@, EntryOf(p)), ![p].rec = TRUE]
    /\ iterator' = [iterator EXCEPT ![p] = @ + 1]

\* A double that was read is appended to the results array and not to its entry,
\* which takes its place where the index is the same.
WithDouble(p) ==
    LET results == local[p].results
        bare    == [EntryOf(p) EXCEPT !.key = NextIndex(results), !.bare = TRUE]
    IN  /\ local' = [local EXCEPT ![p].rec = TRUE, ![p].results =
                        Append(IF bare.key = iterator[p] THEN results
                               ELSE Append(results, bare), EntryOf(p))]
        /\ iterator' = [iterator EXCEPT ![p] = @ + 1]

\* The operation whose request was answered may return a value: it reads, or pops.
Reads(p) == Asked(p).list[local[p].pos - 1].op \in {"read", "range"}

\* A value that was read and does not convert gets no entry, and an error; what is
\* not read is an entry of NULL.
OrderedSucceeded(p) ==
    /\ pc[p] = "succeeded" /\ Ordered(p)
    /\ \/ WithResult(p)
       \/ Reads(p) /\ WithDouble(p)
       \/ /\ Reads(p)
          /\ local' = [local EXCEPT ![p].error = "CLIENT", ![p].rec = TRUE]
          /\ UNCHANGED iterator
    /\ pc' = [pc EXCEPT ![p] = "walk"]
    /\ UNCHANGED <<log, generation, inflight, asked, answered, calls>>

\* Mutant: the as_error is not set when the request fails.
OperateFailedSilently(p) ==
    /\ pc[p] = "failed" /\ ~Ordered(p)
    /\ local' = [local EXCEPT ![p].status = "SERVER"]
    /\ pc' = [pc EXCEPT ![p] = "exit"]
    /\ UNCHANGED <<log, generation, inflight, asked, answered, calls, iterator>>

OperateFailed(p) ==
    /\ pc[p] = "failed" /\ ~Ordered(p)
    /\ local' = [local EXCEPT ![p].status = "SERVER", ![p].error = "SERVER"]
    /\ pc' = [pc EXCEPT ![p] = "exit"]
    /\ UNCHANGED <<log, generation, inflight, asked, answered, calls, iterator>>

\* The operation that failed has an entry of NULL too.
OrderedFailed(p) ==
    /\ pc[p] = "failed" /\ Ordered(p)
    /\ local' = [local EXCEPT ![p].status = "SERVER", ![p].error = "SERVER",
                              ![p].results = Append(@, EntryOf(p))]
    /\ iterator' = [iterator EXCEPT ![p] = @ + 1]
    /\ pc' = [pc EXCEPT ![p] = "exit"]
    /\ UNCHANGED <<log, generation, inflight, asked, answered, calls>>

Returned(p, status, error, results) ==
    /\ answered' = [answered EXCEPT ![Current(p)] =
                       [status |-> status, error |-> error, results |-> results]]
    /\ pc' = [pc EXCEPT ![p] = "idle"]
    /\ UNCHANGED <<log, generation, inflight, asked, calls, local, iterator>>

OperateExit(p) ==
    /\ pc[p] = "exit" /\ ~Ordered(p)
    /\ Returned(p, local[p].status, local[p].error, <<>>)

\* The exit of operateOrdered replaces the status by that of reading the
\* metadata of the last record an operation returned, if any did.
OrderedExit(p) ==
    /\ pc[p] = "exit" /\ Ordered(p)
    /\ IF local[p].rec
       THEN Returned(p, "OK", local[p].error, local[p].results)
       ELSE Returned(p, "CLIENT", "PARAM", <<>>)

Walk(p) == Stop(p) \/ Refuse(p) \/ TakeOp(p) \/ EndOfList(p)

Finish(p) ==
    \/ OperateSucceeded(p) \/ OperateFailed(p) \/ OperateExit(p)
    \/ OrderedSucceeded(p) \/ OrderedFailed(p) \/ OrderedExit(p)

Next ==
    \/ \E p \in Process :
          \/ \E method \in Method, list \in OpLists, opts \in Options :
                Rejected(p, method, list, opts) \/ Begin(p, method, list, opts)
          \/ Walk(p) \/ BadTtl(p) \/ Send(p) \/ Resend(p) \/ Timeout(p) \/ Finish(p)
    \/ \E r \in inflight : Apply(r) \/ Drop(r)

Spec == Init /\ [][Next]_vars

-----------------------------------------------------------------------------
(* Properties.                                                             *)

\* The positions of the log at which operations of call c were applied.
Applied(c) == {i \in DOMAIN log : log[i].call = c}

\* Where the list of call c has operations that put something into a request.
Work(c) == {k \in DOMAIN asked[c].list : Adds(asked[c].list[k])}

\* A list given to operate() is applied at once, in order and with nothing of another
\* process inside, but for items that are no array: the walk passes over them.  A
\* request that is sent again may be applied twice.
OperateIsAtomic ==
    \A c \in Call : asked[c].method = "operate" /\ ~asked[c].opts.retry /\ Applied(c) # {} =>
        /\ \A i, j \in Applied(c) : i < j => log[i].pos < log[j].pos
        /\ \A i, j \in Applied(c) : i .. j \subseteq Applied(c)
        /\ {log[i].pos : i \in Applied(c)} = Work(c)

\* What operateOrdered() has applied is a beginning of its list, however many answers
\* were lost and requests came late, and each operation once and in order, if none is
\* sent again.
OrderedIsPrefix ==
    \A c \in Call : \A i \in Applied(c) :
        /\ \A j \in Applied(c) : i < j => log[i].pos < log[j].pos \/ asked[c].opts.retry
        /\ \A k \in Work(c) : k < log[i].pos => \E j \in Applied(c) : log[j].pos = k

\* The entries operateOrdered() returns keep the order of the operations, and their
\* indexes never meet those of an earlier call of the process; a double that was left
\* bare in the results is before the entry of its operation, at any index.
ResultsInOrder ==
    \A p \in Process, n \in 1 .. MaxCalls :
        LET results == answered[<<p, n>>].results
        IN  /\ \A i, j \in DOMAIN results : i < j =>
                  /\ results[i].key < results[j].key
                  /\ results[i].pos < results[j].pos \/ results[i].bare
            /\ \A m \in 1 .. (n - 1) : \A i \in DOMAIN results,
                     j \in DOMAIN answered[<<p, m>>].results :
                  \/ answered[<<p, m>>].results[j].key < results[i].key
                  \/ results[i].bare

Applications == INSTANCE RecordLog

\* However its requests and answers are lost or late, a call does to the record what
\* RecordLog says: its list in whole portions, each in its place, and, but for a retry,
\* none twice and none once the call has returned without an error; a result only for
\* what was applied, and no error only with a result for all of it.
ImplementsLog == Applications!RSpec

-----------------------------------------------------------------------------
(* What the repository says of the code, and the code does not do.         *)

\* doc/aerospike_operate.md: val is the value to store in the bin.
ValueIsGiven ==
    \A i \in DOMAIN log :
        LET e == asked[log[i].call].list[log[i].pos]
        IN  e.op = "write" /\ e.val # None =>
               log[i].arg.type = e.val.type /\ log[i].arg.v = e.val.v

=============================================================================
