---------------------------- MODULE RecordStream -----------------------------
(***************************************************************************)
(* scan() and query(): records that C client threads stream from the nodes  *)
(* of the cluster into a function of the script.                           *)
(*                                                                         *)
(* The method blocks the PHP thread inside the C client, whose workers     *)
(* call aerospike_helper_record_stream_callback.  PHP is not thread safe:  *)
(* query_cb_mutex lets one worker at a time build the PHP array of its     *)
(* record and run the script's function, which all workers of a stream     *)
(* call through one userland_callback.  The function may itself stream.    *)
(***************************************************************************)
EXTENDS Integers, FiniteSets

CONSTANTS
    Worker,      \* the C client's threads, one per node of the cluster
    Depth,       \* model bound: streams that run one inside the other
    MaxRecords,  \* model bound: records each node streams
    None

Stream == 1 .. Depth
Thread == Stream \X Worker     \* worker w of stream s

ASSUME StreamAssumption ==
    /\ Worker # {} /\ IsFiniteSet(Worker)
    /\ Depth \in Nat \ {0} /\ MaxRecords \in [Worker -> Nat] /\ None \notin Thread

VARIABLES
    call,       \* of each stream: where the method is
    status,     \* of each stream: what the C client made of it
    pc,         \* of each thread: where the worker is
    left,       \* of each thread: records its node still has
    query_cb_mutex,
    fci,        \* of each stream: the worker whose retval fci.retval points to
    retval,     \* of each thread: the retval in the frame of its callback
    answer,     \* of each thread: what its own call of the function returned
    exception,  \* the interpreter has a PHP exception to deliver
    halted,     \* of each stream: a callback returned false
    late        \* of each stream: calls of the function since then

vars == <<call, status, pc, left, query_cb_mutex, fci, retval, answer, exception,
          halted, late>>

Answer == {"false", "other"}

TypeOK ==
    /\ call \in [Stream -> {"none", "running", "returned"}]
    /\ status \in [Stream -> {"OK", "error"}]
    /\ pc \in [Thread -> {"reading", "locking", "building", "calling", "called", "ended"}]
    /\ left \in [Thread -> Nat]
    /\ query_cb_mutex \in Thread \cup {None}
    /\ fci \in [Stream -> Worker \cup {None}]
    /\ retval \in [Thread -> Answer \cup {None}]
    /\ answer \in [Thread -> Answer \cup {None}]
    /\ exception \in BOOLEAN
    /\ halted \in [Stream -> BOOLEAN]
    /\ late \in [Stream -> Nat]

Init ==
    /\ call = [s \in Stream |-> "none"]
    /\ status = [s \in Stream |-> "OK"]
    /\ pc = [t \in Thread |-> "ended"]
    /\ left = [t \in Thread |-> 0]
    /\ query_cb_mutex = None
    /\ fci = [s \in Stream |-> None]
    /\ retval = [t \in Thread |-> None]
    /\ answer = [t \in Thread |-> None]
    /\ exception = FALSE
    /\ halted = [s \in Stream |-> FALSE]
    /\ late = [s \in Stream |-> 0]

-----------------------------------------------------------------------------
(* The method, on the PHP thread or inside a function a worker calls.      *)

\* The script, or the function worker w of stream s - 1 is in, calls scan().
StartedBy(s, w) ==
    IF s = 1 THEN call[1] = "none"
    ELSE call[s] = "none" /\ pc[<<s - 1, w>>] = "calling" /\ ~exception

\* The method gives up before it reaches the C client.
Rejected(s, w) ==
    /\ StartedBy(s, w)
    /\ call' = [call EXCEPT ![s] = "returned"]
    /\ status' = [status EXCEPT ![s] = "error"]
    /\ UNCHANGED <<pc, left, query_cb_mutex, fci, retval, answer, exception,
                   halted, late>>

\* aerospike_scan_foreach, aerospike_query_foreach: a thread for each node.
Start(s, w) ==
    /\ StartedBy(s, w)
    /\ call' = [call EXCEPT ![s] = "running"]
    /\ \E records \in [Worker -> UNION {0 .. MaxRecords[n] : n \in Worker}] :
          /\ \A n \in Worker : records[n] <= MaxRecords[n]
          /\ left' = [t \in Thread |-> IF t[1] = s THEN records[t[2]] ELSE left[t]]
    /\ pc' = [t \in Thread |-> IF t[1] = s THEN "reading" ELSE pc[t]]
    /\ fci' = [fci EXCEPT ![s] = None]
    /\ UNCHANGED <<status, query_cb_mutex, retval, answer, exception, halted, late>>

\* They return when every thread is done.
Return(s) ==
    /\ call[s] = "running" /\ \A w \in Worker : pc[<<s, w>>] = "ended"
    /\ call' = [call EXCEPT ![s] = "returned"]
    /\ UNCHANGED <<status, pc, left, query_cb_mutex, fci, retval, answer, exception,
                   halted, late>>

-----------------------------------------------------------------------------
(* The C client's side of a worker.                                        *)

\* Mutant: a false does not reach the other threads.
StoppingOnError(s) == status[s] = "error"

\* Another thread's failure, or a callback's false, stops a thread here.
Stopping(s) == halted[s] \/ status[s] = "error"

\* Mutant: a thread hands over a record its node does not have.
DeliverBeyond(s, w) ==
    /\ pc[<<s, w>>] = "reading" /\ ~Stopping(s)
    /\ pc' = [pc EXCEPT ![<<s, w>>] = "locking"]
    /\ left' = [left EXCEPT ![<<s, w>>] = @ - 1]
    /\ UNCHANGED <<call, status, query_cb_mutex, fci, retval, answer, exception,
                   halted, late>>

Deliver(s, w) ==
    /\ pc[<<s, w>>] = "reading" /\ left[<<s, w>>] > 0 /\ ~Stopping(s)
    /\ pc' = [pc EXCEPT ![<<s, w>>] = "locking"]
    /\ left' = [left EXCEPT ![<<s, w>>] = @ - 1]
    /\ UNCHANGED <<call, status, query_cb_mutex, fci, retval, answer, exception,
                   halted, late>>

NodeDone(s, w) ==
    /\ pc[<<s, w>>] = "reading" /\ (left[<<s, w>>] = 0 \/ Stopping(s))
    /\ pc' = [pc EXCEPT ![<<s, w>>] = "ended"]
    /\ UNCHANGED <<call, status, left, query_cb_mutex, fci, retval, answer, exception,
                   halted, late>>

NodeFails(s, w) ==
    /\ pc[<<s, w>>] = "reading" /\ ~Stopping(s)
    /\ pc' = [pc EXCEPT ![<<s, w>>] = "ended"]
    /\ status' = [status EXCEPT ![s] = "error"]
    /\ UNCHANGED <<call, left, query_cb_mutex, fci, retval, answer, exception,
                   halted, late>>

-----------------------------------------------------------------------------
(* aerospike_helper_record_stream_callback.                                *)

\* Mutant: the lock is one a thread may take again under a stream it started.
LockAgain(s, w) ==
    /\ pc[<<s, w>>] = "locking"
    /\ query_cb_mutex # None => query_cb_mutex[1] < s
    /\ query_cb_mutex' = <<s, w>>
    /\ pc' = [pc EXCEPT ![<<s, w>>] = "building"]
    /\ UNCHANGED <<call, status, left, fci, retval, answer, exception, halted, late>>

Lock(s, w) ==
    /\ pc[<<s, w>>] = "locking" /\ query_cb_mutex = None
    /\ query_cb_mutex' = <<s, w>>
    /\ pc' = [pc EXCEPT ![<<s, w>>] = "building"]
    /\ UNCHANGED <<call, status, left, fci, retval, answer, exception, halted, late>>

\* The callback unlocks and returns; false ends the worker and the stream.
Unlock(s, w, do_continue) ==
    /\ query_cb_mutex' = None
    /\ pc' = [pc EXCEPT ![<<s, w>>] = IF do_continue THEN "reading" ELSE "ended"]
    /\ halted' = [halted EXCEPT ![s] = @ \/ ~do_continue]

\* Mutant: an early return that forgets the lock.
PassOverLocked(s, w) ==
    /\ pc[<<s, w>>] = "building"
    /\ pc' = [pc EXCEPT ![<<s, w>>] = "reading"]
    /\ UNCHANGED <<call, status, left, query_cb_mutex, fci, retval, answer, exception,
                   halted, late>>

\* The bins, the key or the metadata do not convert, or the function cannot be
\* called, as it cannot while an exception is pending: the record is passed over.
PassOver(s, w) ==
    /\ pc[<<s, w>>] = "building"
    /\ Unlock(s, w, TRUE)
    /\ UNCHANGED <<call, status, left, fci, retval, answer, exception, late>>

\* Mutant: the lock is left before the function is called.
InvokeUnlocked(s, w) ==
    /\ pc[<<s, w>>] = "building" /\ ~exception
    /\ query_cb_mutex' = None
    /\ fci' = [fci EXCEPT ![s] = w]
    /\ retval' = [retval EXCEPT ![<<s, w>>] = None]
    /\ answer' = [answer EXCEPT ![<<s, w>>] = None]
    /\ pc' = [pc EXCEPT ![<<s, w>>] = "calling"]
    /\ UNCHANGED <<call, status, left, exception, halted, late>>

\* fci, which the workers of the stream share, is aimed at this frame, and
\* zend_call_function enters the function.
Invoke(s, w) ==
    /\ pc[<<s, w>>] = "building" /\ ~exception
    /\ fci' = [fci EXCEPT ![s] = w]
    /\ retval' = [retval EXCEPT ![<<s, w>>] = None]
    /\ answer' = [answer EXCEPT ![<<s, w>>] = None]
    /\ pc' = [pc EXCEPT ![<<s, w>>] = "calling"]
    /\ UNCHANGED <<call, status, left, query_cb_mutex, exception, halted, late>>

\* The function returns, or throws and returns nothing.  It cannot return while
\* a stream it started runs, nor normally once that stream has thrown.
UserReturns(s, w) ==
    /\ pc[<<s, w>>] = "calling"
    /\ s < Depth => call[s + 1] # "running"
    /\ pc' = [pc EXCEPT ![<<s, w>>] = "called"]
    /\ \/ /\ ~exception
          /\ \E v \in Answer :
                /\ answer' = [answer EXCEPT ![<<s, w>>] = v]
                /\ retval' = [retval EXCEPT ![<<s, fci[s]>>] = v]
          /\ UNCHANGED exception
       \/ exception' = TRUE /\ UNCHANGED <<answer, retval>>
    /\ late' = [late EXCEPT ![s] = IF halted[s] THEN @ + 1 ELSE @]
    /\ UNCHANGED <<call, status, left, query_cb_mutex, fci, halted>>

\* Mutant: anything that is not true stops the stream.
DecideStrictly(s, w) ==
    /\ pc[<<s, w>>] = "called"
    /\ Unlock(s, w, retval[<<s, w>>] = "other")
    /\ UNCHANGED <<call, status, left, fci, retval, answer, exception, late>>

\* Only an explicit false stops the stream.
Decide(s, w) ==
    /\ pc[<<s, w>>] = "called"
    /\ Unlock(s, w, retval[<<s, w>>] # "false")
    /\ UNCHANGED <<call, status, left, fci, retval, answer, exception, late>>

Callback(s, w) ==
    \/ Lock(s, w) \/ PassOver(s, w) \/ Invoke(s, w) \/ UserReturns(s, w) \/ Decide(s, w)

Next ==
    \E s \in Stream :
        \/ \E w \in Worker :
              \/ Start(s, w) \/ Rejected(s, w)
              \/ Deliver(s, w) \/ NodeDone(s, w) \/ NodeFails(s, w)
              \/ Callback(s, w)
        \/ Return(s)

Spec == Init /\ [][Next]_vars

\* The threads run, the nodes stream or fail, and the script's functions return.
Fairness ==
    \A s \in Stream :
        /\ WF_vars(Return(s))
        /\ \A w \in Worker :
              /\ WF_vars(Deliver(s, w) \/ NodeDone(s, w))
              /\ WF_vars(Callback(s, w))

FairSpec == Spec /\ Fairness

-----------------------------------------------------------------------------
(* Properties.                                                             *)

\* The thread runs PHP: it builds an array, or the function that it called and
\* that does not wait for a stream of its own, or it looks at the answer.
InPhp(t) ==
    \/ pc[t] \in {"building", "called"}
    \/ pc[t] = "calling" /\ (t[1] < Depth => call[t[1] + 1] # "running")

\* However the workers of a stream and of the streams inside it interleave, at
\* most one thread is in the interpreter, which is not thread safe.
OneInPhp == \A t, u \in Thread : InPhp(t) /\ InPhp(u) => t = u

\* A worker goes on or stops by what its own call of the function returned,
\* although all workers of the stream pass their retval through one fci.
AnswerIsOwn == \A t \in Thread : pc[t] = "called" => retval[t] = answer[t]

\* A stream halts only by an explicit false, never by an exception, another
\* value or a record that was passed over.
OnlyFalseHalts ==
    \A s \in Stream : halted[s] =>
        \E w \in Worker : pc[<<s, w>>] = "ended" /\ answer[<<s, w>>] = "false"

\* After that false the function sees at most the record each other worker
\* had received already.
FewAfterHalt == \A s \in Stream : late[s] < Cardinality(Worker)

\* No worker of a stream that a function of another stream started ever enters
\* its function: the mutex is held below it.
NestedNeverRuns == \A t \in Thread : t[1] > 1 => pc[t] \in {"reading", "locking", "ended"}

\* A thread waits for the mutex that the function which started its stream holds.
Nested(s) ==
    /\ s < Depth /\ call[s + 1] = "running"
    /\ \E w \in Worker : pc[<<s + 1, w>>] = "locking"

\* A stream returns, with the mutex free, unless a function it calls starts a
\* stream of its own that finds a record.
StreamReturns ==
    call[1] = "running" ~>
        (call[1] = "returned" /\ query_cb_mutex = None) \/ (\E s \in Stream : Nested(s))

=============================================================================
