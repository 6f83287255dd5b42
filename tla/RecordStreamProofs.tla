------------------------- MODULE RecordStreamProofs --------------------------
(***************************************************************************)
(* That the mutex of the record streams does its work for any number of     *)
(* workers, records and nested streams.                                    *)
(***************************************************************************)
EXTENDS RecordStream, FiniteSetTheorems, TLAPS

\* The threads between the lock and the unlock of the callback.
Inside(t) == pc[t] \in {"building", "calling", "called"}

\* query_cb_mutex is held by the one thread inside.
MutexHeld == \A t \in Thread : Inside(t) <=> query_cb_mutex = t

\* While the function runs, fci is aimed at the frame that called it.
FciAimed ==
    \A t \in Thread :
        /\ pc[t] = "calling" => fci[t[1]] = t[2] /\ retval[t] = None /\ answer[t] = None
        /\ pc[t] = "called" => retval[t] = answer[t]

\* A stream that runs inside another was started by a function that still runs,
\* and a stream that does not run has no thread at work.
NestedUnderCall ==
    \A s \in Stream :
        /\ s > 1 /\ call[s] = "running" => \E t \in Thread : t[1] = s - 1 /\ pc[t] = "calling"
        /\ call[s] # "running" => \A t \in Thread : t[1] = s => pc[t] = "ended"

StreamInv == TypeOK /\ MutexHeld /\ FciAimed /\ NestedUnderCall /\ NestedNeverRuns

LEMMA ThreadPairs ==
  /\ \A s \in Stream, w \in Worker : <<s, w>> \in Thread
  /\ \A t \in Thread : t = <<t[1], t[2]>> /\ t[1] \in Stream /\ t[2] \in Worker
  /\ \A s, q \in Stream, w, v \in Worker : <<s, w>> = <<q, v>> <=> s = q /\ w = v
  /\ Stream \subseteq Nat
  BY StreamAssumption DEF Thread, Stream

LEMMA ThreadOf ==
  \A s \in Stream, w \in Worker : \E r \in Thread : r = <<s, w>> /\ r[1] = s /\ r[2] = w
  <1> SUFFICES ASSUME NEW s \in Stream, NEW w \in Worker
               PROVE  <<s, w>> \in Thread /\ <<s, w>>[1] = s /\ <<s, w>>[2] = w
    OBVIOUS
  <1> QED  BY DEF Thread

-----------------------------------------------------------------------------
(* Type correctness.                                                       *)

LEMMA TypeNext == TypeOK /\ [Next]_vars => TypeOK'
  <1> SUFFICES ASSUME TypeOK, [Next]_vars PROVE TypeOK'
    OBVIOUS
  <1> USE DEF TypeOK
  <1>0. Stream \subseteq Nat /\ \A n \in Worker : 0 .. MaxRecords[n] \subseteq Nat
    BY StreamAssumption DEF Stream
  <1>1. ASSUME NEW s \in Stream, NEW w \in Worker, Start(s, w) PROVE TypeOK'
    <2>1. PICK records \in [Worker -> UNION {0 .. MaxRecords[n] : n \in Worker}] :
            left' = [t \in Thread |-> IF t[1] = s THEN records[t[2]] ELSE left[t]]
      BY <1>1 DEF Start
    <2>2. records \in [Worker -> Nat]
      BY <1>0, <2>1
    <2>3. left' \in [Thread -> Nat]
      BY <2>1, <2>2, ThreadPairs
    <2> QED  BY <1>1, <2>3 DEF Start
  <1>2. ASSUME NEW s \in Stream, NEW w \in Worker, Rejected(s, w) PROVE TypeOK'
    BY <1>2 DEF Rejected
  <1>3. ASSUME NEW s \in Stream, NEW w \in Worker, Deliver(s, w) PROVE TypeOK'
    <2>1. left' \in [Thread -> Nat]
      BY <1>0, <1>3, ThreadPairs DEF Deliver
    <2> QED  BY <1>3, <2>1 DEF Deliver
  <1>4. ASSUME NEW s \in Stream, NEW w \in Worker, NodeDone(s, w) \/ NodeFails(s, w)
        PROVE  TypeOK'
    BY <1>4 DEF NodeDone, NodeFails
  <1>5. ASSUME NEW s \in Stream, NEW w \in Worker, Lock(s, w) PROVE TypeOK'
    BY <1>5, ThreadPairs DEF Lock
  <1>6. ASSUME NEW s \in Stream, NEW w \in Worker, PassOver(s, w) \/ Decide(s, w)
        PROVE  TypeOK'
    BY <1>6 DEF PassOver, Decide, Unlock
  <1>7. ASSUME NEW s \in Stream, NEW w \in Worker, Invoke(s, w) PROVE TypeOK'
    BY <1>7 DEF Invoke
  <1>8. ASSUME NEW s \in Stream, NEW w \in Worker, UserReturns(s, w) PROVE TypeOK'
    <2>1. late' \in [Stream -> Nat] /\ exception' \in BOOLEAN
      <3>1. \A q \in Stream : late[q] \in Nat /\ late[q] + 1 \in Nat
        OBVIOUS
      <3> QED  BY <1>8, <3>1 DEF UserReturns
    <2>2. /\ retval' \in [Thread -> Answer \cup {None}]
          /\ answer' \in [Thread -> Answer \cup {None}]
      <3>1. CASE UNCHANGED <<answer, retval>>
        BY <3>1
      <3>2. CASE ~UNCHANGED <<answer, retval>>
        <4>1. PICK v \in Answer : /\ answer' = [answer EXCEPT ![<<s, w>>] = v]
                                 /\ retval' = [retval EXCEPT ![<<s, fci[s]>>] = v]
          BY <1>8, <3>2 DEF UserReturns
        <4> QED  BY <4>1
      <3> QED  BY <3>1, <3>2
    <2> QED  BY <1>8, <2>1, <2>2 DEF UserReturns
  <1>9. ASSUME NEW s \in Stream, Return(s) PROVE TypeOK'
    BY <1>9 DEF Return
  <1>10. CASE UNCHANGED vars
    BY <1>10 DEF vars
  <1> QED
    BY <1>1, <1>2, <1>3, <1>4, <1>5, <1>6, <1>7, <1>8, <1>9, <1>10 DEF Next, Callback

LEMMA StreamTypeInit == Init => TypeOK
  <1> SUFFICES ASSUME Init PROVE TypeOK
    OBVIOUS
  <1>1. left \in [Thread -> Nat]
    BY DEF Init
  <1> QED  BY <1>1 DEF Init, TypeOK

\* Every reachable state of the streams has the types of TypeOK.
THEOREM StreamTypeCorrect == Spec => []TypeOK
  BY StreamTypeInit, TypeNext, PTL DEF Spec

-----------------------------------------------------------------------------
(* The mutex.                                                              *)

LEMMA StreamNext == StreamInv /\ TypeOK' /\ [Next]_vars => StreamInv'
  <1> SUFFICES ASSUME StreamInv, TypeOK', [Next]_vars PROVE StreamInv'
    OBVIOUS
  <1>0. /\ call \in [Stream -> {"none", "running", "returned"}]
        /\ pc \in [Thread -> {"reading", "locking", "building", "calling", "called", "ended"}]
        /\ fci \in [Stream -> Worker \cup {None}]
        /\ retval \in [Thread -> Answer \cup {None}]
        /\ answer \in [Thread -> Answer \cup {None}]
        /\ TypeOK' /\ MutexHeld /\ FciAimed /\ NestedUnderCall /\ NestedNeverRuns
    BY DEF StreamInv, TypeOK
  <1>1. ASSUME NEW s \in Stream, NEW w \in Worker, Start(s, w) PROVE StreamInv'
    <2>1. /\ \A t \in Thread : pc'[t] = IF t[1] = s THEN "reading" ELSE pc[t]
          /\ call' = [call EXCEPT ![s] = "running"] /\ call[s] = "none"
          /\ fci' = [fci EXCEPT ![s] = None]
          /\ UNCHANGED <<query_cb_mutex, retval, answer>>
      BY <1>1 DEF Start, StartedBy
    <2>2. \A t \in Thread : t[1] = s => pc[t] = "ended"
      BY <1>0, <2>1 DEF NestedUnderCall
    <2>3. MutexHeld'
      BY <1>0, <2>1, <2>2 DEF MutexHeld, Inside
    <2>4. FciAimed'
      BY <1>0, <2>1, <2>2, ThreadPairs DEF FciAimed
    <2>5. NestedUnderCall'
      <3> SUFFICES ASSUME NEW q \in Stream
                   PROVE  /\ q > 1 /\ call'[q] = "running" =>
                                \E t \in Thread : t[1] = q - 1 /\ pc'[t] = "calling"
                          /\ call'[q] # "running" =>
                                \A t \in Thread : t[1] = q => pc'[t] = "ended"
        BY DEF NestedUnderCall
      <3>1. CASE q = s
        <4>1. s > 1 => /\ <<s - 1, w>> \in Thread /\ pc[<<s - 1, w>>] = "calling"
                       /\ <<s - 1, w>>[1] = s - 1 /\ s - 1 # s
          BY <1>1, ThreadPairs, StreamAssumption DEF Start, StartedBy, Stream, Thread
        <4> QED  BY <1>0, <2>1, <3>1, <4>1
      <3>2. CASE q # s
        <4>1. call'[q] = call[q]
          BY <1>0, <2>1, <3>2
        <4> QED  BY <1>0, <2>1, <2>2, <3>2, <4>1 DEF NestedUnderCall
      <3> QED  BY <3>1, <3>2
    <2>6. NestedNeverRuns'
      BY <1>0, <2>1 DEF NestedNeverRuns
    <2> QED  BY <1>0, <2>3, <2>4, <2>5, <2>6 DEF StreamInv
  <1>2. ASSUME NEW s \in Stream, NEW w \in Worker, Rejected(s, w) PROVE StreamInv'
    <2>1. /\ call' = [call EXCEPT ![s] = "returned"] /\ call[s] = "none"
          /\ UNCHANGED <<pc, query_cb_mutex, fci, retval, answer>>
      BY <1>2 DEF Rejected, StartedBy
    <2>2. MutexHeld' /\ FciAimed' /\ NestedNeverRuns'
      BY <1>0, <2>1 DEF MutexHeld, Inside, FciAimed, NestedNeverRuns
    <2>3. NestedUnderCall'
      BY <1>0, <2>1 DEF NestedUnderCall
    <2> QED  BY <1>0, <2>2, <2>3 DEF StreamInv
  <1>3. ASSUME NEW s \in Stream, NEW w \in Worker,
               Deliver(s, w) \/ NodeDone(s, w) \/ NodeFails(s, w)
        PROVE  StreamInv'
    <2>1. PICK r \in Thread : r = <<s, w>> /\ r[1] = s
      BY ThreadOf
    <2>2. /\ pc[r] = "reading" /\ UNCHANGED <<call, query_cb_mutex, fci, retval, answer>>
          /\ \/ pc' = [pc EXCEPT ![r] = "locking"]
             \/ pc' = [pc EXCEPT ![r] = "ended"]
      BY <1>3, <2>1 DEF Deliver, NodeDone, NodeFails
    <2>3. \A t \in Thread :
              IF t = r THEN pc'[t] \in {"locking", "ended"} ELSE pc'[t] = pc[t]
      BY <1>0, <2>2
    <2>4. MutexHeld'
      BY <1>0, <2>2, <2>3 DEF MutexHeld, Inside
    <2>5. FciAimed'
      BY <1>0, <2>2, <2>3 DEF FciAimed
    <2>6. NestedUnderCall'
      BY <1>0, <2>1, <2>2, <2>3 DEF NestedUnderCall
    <2>7. NestedNeverRuns'
      BY <1>0, <2>2, <2>3 DEF NestedNeverRuns
    <2> QED  BY <1>0, <2>4, <2>5, <2>6, <2>7 DEF StreamInv
  <1>4. ASSUME NEW s \in Stream, NEW w \in Worker, Lock(s, w) PROVE StreamInv'
    <2>1. PICK r \in Thread : r = <<s, w>> /\ r[1] = s
      BY ThreadOf
    <2>2. /\ pc[r] = "locking" /\ query_cb_mutex = None /\ query_cb_mutex' = r
          /\ pc' = [pc EXCEPT ![r] = "building"]
          /\ UNCHANGED <<call, fci, retval, answer>>
      BY <1>4, <2>1 DEF Lock
    <2>3. \A t \in Thread : pc'[t] = IF t = r THEN "building" ELSE pc[t]
      BY <1>0, <2>2
    <2>4. \A t \in Thread : t # None
      BY StreamAssumption
    <2>5. MutexHeld'
      BY <1>0, <2>2, <2>3, <2>4 DEF MutexHeld, Inside
    <2>6. FciAimed'
      BY <1>0, <2>2, <2>3 DEF FciAimed
    <2>7. NestedUnderCall'
      BY <1>0, <2>1, <2>2, <2>3 DEF NestedUnderCall
    <2>8. ~(s > 1)
      <3>1. call[s] = "running"
        BY <1>0, <2>1, <2>2 DEF NestedUnderCall
      <3>2. \A t \in Thread : pc[t] # "calling"
        BY <1>0, <2>2, <2>4 DEF MutexHeld, Inside
      <3> QED  BY <1>0, <3>1, <3>2 DEF NestedUnderCall
    <2>9. NestedNeverRuns'
      BY <1>0, <2>1, <2>3, <2>8 DEF NestedNeverRuns
    <2> QED  BY <1>0, <2>5, <2>6, <2>7, <2>9 DEF StreamInv
  <1>5. ASSUME NEW s \in Stream, NEW w \in Worker,
               PassOver(s, w) \/ Decide(s, w)
        PROVE  StreamInv'
    <2>1. PICK r \in Thread : r = <<s, w>> /\ r[1] = s
      BY ThreadOf
    <2>2. /\ pc[r] \in {"building", "called"} /\ query_cb_mutex' = None
          /\ \/ pc' = [pc EXCEPT ![r] = "reading"]
             \/ pc' = [pc EXCEPT ![r] = "ended"]
          /\ UNCHANGED <<call, fci, retval, answer>>
      BY <1>5, <2>1 DEF PassOver, Decide, Unlock
    <2>3. \A t \in Thread :
              IF t = r THEN pc'[t] \in {"reading", "ended"} ELSE pc'[t] = pc[t]
      BY <1>0, <2>2
    <2>4. query_cb_mutex = r /\ \A t \in Thread : t # None
      BY <1>0, <2>2, StreamAssumption DEF MutexHeld, Inside
    <2>5. MutexHeld'
      BY <1>0, <2>2, <2>3, <2>4 DEF MutexHeld, Inside
    <2>6. FciAimed'
      BY <1>0, <2>2, <2>3 DEF FciAimed
    <2>7. NestedUnderCall'
      BY <1>0, <2>1, <2>2, <2>3 DEF NestedUnderCall
    <2>8. NestedNeverRuns'
      BY <1>0, <2>2, <2>3 DEF NestedNeverRuns
    <2> QED  BY <1>0, <2>5, <2>6, <2>7, <2>8 DEF StreamInv
  <1>6. ASSUME NEW s \in Stream, NEW w \in Worker, Invoke(s, w) PROVE StreamInv'
    <2>1. PICK r \in Thread : r = <<s, w>> /\ r[1] = s /\ r[2] = w
      BY ThreadOf
    <2>2. /\ pc[r] = "building" /\ UNCHANGED <<call, query_cb_mutex>>
          /\ pc' = [pc EXCEPT ![r] = "calling"]
          /\ fci' = [fci EXCEPT ![s] = w]
          /\ retval' = [retval EXCEPT ![r] = None]
          /\ answer' = [answer EXCEPT ![r] = None]
      BY <1>6, <2>1 DEF Invoke
    <2>3. \A t \in Thread :
            /\ pc'[t] = IF t = r THEN "calling" ELSE pc[t]
            /\ retval'[t] = IF t = r THEN None ELSE retval[t]
            /\ answer'[t] = IF t = r THEN None ELSE answer[t]
      BY <1>0, <2>2
    <2>4. MutexHeld'
      BY <1>0, <2>2, <2>3 DEF MutexHeld, Inside
    <2>5. \A t \in Thread : t # r => pc[t] # "calling"
      BY <1>0, <2>2 DEF MutexHeld, Inside
    <2>6. fci'[r[1]] = r[2]
      BY <1>0, <2>1, <2>2
    <2>7. FciAimed'
      BY <1>0, <2>3, <2>5, <2>6 DEF FciAimed
    <2>8. NestedUnderCall'
      BY <1>0, <2>1, <2>2, <2>3 DEF NestedUnderCall
    <2>9. NestedNeverRuns'
      BY <1>0, <2>2, <2>3 DEF NestedNeverRuns
    <2> QED  BY <1>0, <2>4, <2>7, <2>8, <2>9 DEF StreamInv
  <1>7. ASSUME NEW s \in Stream, NEW w \in Worker, UserReturns(s, w) PROVE StreamInv'
    <2>1. PICK r \in Thread : r = <<s, w>> /\ r[1] = s /\ r[2] = w
      BY ThreadOf
    <2>2. /\ pc[r] = "calling" /\ UNCHANGED <<call, query_cb_mutex, fci>>
          /\ pc' = [pc EXCEPT ![r] = "called"]
          /\ s < Depth => call[s + 1] # "running"
      BY <1>7, <2>1 DEF UserReturns
    <2>3. \A t \in Thread : pc'[t] = IF t = r THEN "called" ELSE pc[t]
      BY <1>0, <2>2
    <2>4. fci[s] = w /\ retval[r] = answer[r]
      BY <1>0, <2>1, <2>2 DEF FciAimed
    <2>5. \/ UNCHANGED <<retval, answer>>
          \/ \E v \in Answer : /\ answer' = [answer EXCEPT ![r] = v]
                               /\ retval' = [retval EXCEPT ![r] = v]
      BY <1>7, <2>1, <2>4 DEF UserReturns
    <2>6. /\ retval'[r] = answer'[r]
          /\ \A t \in Thread : t # r => retval'[t] = retval[t] /\ answer'[t] = answer[t]
      BY <1>0, <2>4, <2>5
    <2>7. MutexHeld'
      BY <1>0, <2>2, <2>3 DEF MutexHeld, Inside
    <2>8. FciAimed'
      BY <1>0, <2>2, <2>3, <2>6 DEF FciAimed
    <2>9. NestedUnderCall'
      <3> SUFFICES ASSUME NEW q \in Stream
                   PROVE  /\ q > 1 /\ call[q] = "running" =>
                                \E t \in Thread : t[1] = q - 1 /\ pc'[t] = "calling"
                          /\ call[q] # "running" =>
                                \A t \in Thread : t[1] = q => pc'[t] = "ended"
        BY <2>2 DEF NestedUnderCall
      <3>1. call[q] # "running" => \A t \in Thread : t[1] = q => pc'[t] = "ended"
        BY <1>0, <2>2, <2>3 DEF NestedUnderCall
      <3>2. ASSUME q > 1, call[q] = "running"
            PROVE  \E t \in Thread : t[1] = q - 1 /\ pc'[t] = "calling"
        <4>1. PICK t \in Thread : t[1] = q - 1 /\ pc[t] = "calling"
          BY <1>0, <3>2 DEF NestedUnderCall
        <4>2. q - 1 # s
          BY <2>2, <3>2, StreamAssumption DEF Stream
        <4> QED  BY <2>1, <2>3, <4>1, <4>2
      <3> QED  BY <3>1, <3>2
    <2>10. NestedNeverRuns'
      BY <1>0, <2>2, <2>3 DEF NestedNeverRuns
    <2> QED  BY <1>0, <2>7, <2>8, <2>9, <2>10 DEF StreamInv
  <1>8. ASSUME NEW s \in Stream, Return(s) PROVE StreamInv'
    <2>1. /\ call[s] = "running" /\ call' = [call EXCEPT ![s] = "returned"]
          /\ \A t \in Thread : t[1] = s => pc[t] = "ended"
          /\ UNCHANGED <<pc, query_cb_mutex, fci, retval, answer>>
      <3>1. ASSUME NEW t \in Thread, t[1] = s PROVE pc[t] = "ended"
        <4>1. t = <<s, t[2]>> /\ t[2] \in Worker
          BY <3>1, ThreadPairs
        <4>2. pc[<<s, t[2]>>] = "ended"
          BY <1>8, <4>1 DEF Return
        <4> QED  BY <4>1, <4>2
      <3> QED  BY <1>8, <3>1 DEF Return
    <2>2. MutexHeld' /\ FciAimed' /\ NestedNeverRuns'
      BY <1>0, <2>1 DEF MutexHeld, Inside, FciAimed, NestedNeverRuns
    <2>3. NestedUnderCall'
      BY <1>0, <2>1 DEF NestedUnderCall
    <2> QED  BY <1>0, <2>2, <2>3 DEF StreamInv
  <1>9. CASE UNCHANGED vars
    BY <1>0, <1>9
    DEF vars, StreamInv, MutexHeld, Inside, FciAimed, NestedUnderCall, NestedNeverRuns
  <1> QED
    BY <1>1, <1>2, <1>3, <1>4, <1>5, <1>6, <1>7, <1>8, <1>9 DEF Next, Callback

LEMMA StreamHolds == Spec => []StreamInv
  <1>1. Init => TypeOK
    BY StreamTypeInit
  <1>2. Init => MutexHeld
    BY StreamAssumption DEF Init, MutexHeld, Inside
  <1>3. Init => FciAimed /\ NestedUnderCall /\ NestedNeverRuns
    BY DEF Init, FciAimed, NestedUnderCall, NestedNeverRuns
  <1>4. Init => StreamInv
    BY <1>1, <1>2, <1>3 DEF StreamInv
  <1> QED  BY <1>4, StreamNext, StreamTypeCorrect, PTL DEF Spec

\* At most one thread is in the PHP interpreter (query_cb_mutex of
\* aerospike_helper_record_stream_callback).
THEOREM InterpreterAlone == Spec => []OneInPhp
  <1>1. StreamInv => OneInPhp
    BY DEF StreamInv, MutexHeld, OneInPhp, InPhp, Inside
  <1> QED  BY <1>1, StreamHolds, PTL

\* Each worker decides by what its own call of the script's function returned.
THEOREM AnswersAreOwn == Spec => []AnswerIsOwn
  <1>1. StreamInv => AnswerIsOwn
    BY ThreadPairs DEF StreamInv, FciAimed, AnswerIsOwn
  <1> QED  BY <1>1, StreamHolds, PTL

\* A stream started inside a function of another stream never calls its own.
THEOREM NestedStreamsBlock == Spec => []NestedNeverRuns
  <1>1. StreamInv => NestedNeverRuns
    BY DEF StreamInv
  <1> QED  BY <1>1, StreamHolds, PTL

-----------------------------------------------------------------------------
(* How a stream halts.                                                     *)

\* The workers of a stream that have a record the function has not dealt with.
Pending(s) == {w \in Worker : pc[<<s, w>>] \in {"locking", "building", "calling"}}

\* No stream has halted before it starts; each late call of the function is for a
\* record that was pending when the stream halted.
LateWerePending ==
    \A s \in Stream :
        /\ call[s] = "none" => ~halted[s]
        /\ ~halted[s] => late[s] = 0
        /\ halted[s] => late[s] + Cardinality(Pending(s)) < Cardinality(Worker)

HaltInv == OnlyFalseHalts /\ LateWerePending

LEMMA PendingFinite ==
  \A s \in Stream : /\ IsFiniteSet(Pending(s)) /\ Cardinality(Pending(s)) \in Nat
                    /\ IsFiniteSet(Pending(s)') /\ Cardinality(Pending(s)') \in Nat
                    /\ Cardinality(Worker) \in Nat
  <1> SUFFICES ASSUME NEW s \in Stream
               PROVE  /\ IsFiniteSet(Pending(s)) /\ Cardinality(Pending(s)) \in Nat
                      /\ IsFiniteSet(Pending(s)') /\ Cardinality(Pending(s)') \in Nat
                      /\ Cardinality(Worker) \in Nat
    OBVIOUS
  <1>1. Pending(s) \in SUBSET Worker /\ Pending(s)' \in SUBSET Worker
    BY DEF Pending
  <1>2. IsFiniteSet(Worker) /\ IsFiniteSet(Pending(s)) /\ IsFiniteSet(Pending(s)')
    BY <1>1, StreamAssumption, FS_Subset
  <1> QED  BY <1>2, FS_CardinalityType

\* A step that halts no stream, lets no halted one take up a record, and leaves the
\* workers that have ended as they are.
LEMMA HaltStays ==
  ASSUME TypeOK, HaltInv, UNCHANGED <<halted, late>>,
         \A q \in Stream : call'[q] = "none" => call[q] = "none",
         \A q \in Stream, v \in Worker :
            halted[q] =>
               /\ pc[<<q, v>>] = "ended" => pc'[<<q, v>>] = "ended"
                                           /\ answer'[<<q, v>>] = answer[<<q, v>>]
               /\ pc'[<<q, v>>] \in {"locking", "building", "calling"} =>
                     pc[<<q, v>>] \in {"locking", "building", "calling"}
  PROVE  HaltInv'
  <1>1. OnlyFalseHalts'
    BY DEF HaltInv, OnlyFalseHalts
  <1>2. ASSUME NEW q \in Stream, halted[q]
        PROVE  late[q] + Cardinality(Pending(q)') < Cardinality(Worker)
    <2>1. Pending(q)' \in SUBSET Pending(q)
      BY <1>2 DEF Pending
    <2>2. Cardinality(Pending(q)') <= Cardinality(Pending(q))
      BY <2>1, PendingFinite, FS_Subset
    <2>3. late[q] + Cardinality(Pending(q)) < Cardinality(Worker) /\ late[q] \in Nat
      BY <1>2 DEF HaltInv, LateWerePending, TypeOK
    <2> QED  BY <2>2, <2>3, PendingFinite
  <1>3. LateWerePending'
    BY <1>2 DEF HaltInv, LateWerePending
  <1> QED  BY <1>1, <1>3 DEF HaltInv

LEMMA HaltNext == StreamInv /\ HaltInv /\ [Next]_vars => HaltInv'
  <1> SUFFICES ASSUME StreamInv, HaltInv, [Next]_vars PROVE HaltInv'
    OBVIOUS
  <1>0. /\ TypeOK
        /\ call \in [Stream -> {"none", "running", "returned"}]
        /\ pc \in [Thread -> {"reading", "locking", "building", "calling", "called", "ended"}]
        /\ answer \in [Thread -> Answer \cup {None}]
        /\ halted \in [Stream -> BOOLEAN] /\ late \in [Stream -> Nat]
    BY DEF StreamInv, TypeOK
  <1>1. ASSUME NEW s \in Stream, NEW w \in Worker, Start(s, w) PROVE HaltInv'
    <2>1. /\ ~halted[s] /\ call' = [call EXCEPT ![s] = "running"]
          /\ UNCHANGED <<answer, halted, late>>
      BY <1>1 DEF Start, StartedBy, HaltInv, LateWerePending
    <2>2. \A q \in Stream, v \in Worker : halted[q] => pc'[<<q, v>>] = pc[<<q, v>>]
      BY <1>1, <2>1, ThreadPairs DEF Start
    <2>3. \A q \in Stream : call'[q] = "none" => call[q] = "none"
      BY <1>0, <2>1
    <2> QED  BY <1>0, <2>1, <2>2, <2>3, HaltStays
  <1>2. ASSUME NEW s \in Stream, NEW w \in Worker, Rejected(s, w) PROVE HaltInv'
    <2>1. /\ call' = [call EXCEPT ![s] = "returned"]
          /\ UNCHANGED <<pc, answer, halted, late>>
      BY <1>2 DEF Rejected
    <2> QED  BY <1>0, <2>1, HaltStays
  <1>3. ASSUME NEW s \in Stream, Return(s) PROVE HaltInv'
    <2>1. /\ call' = [call EXCEPT ![s] = "returned"]
          /\ UNCHANGED <<pc, answer, halted, late>>
      BY <1>3 DEF Return
    <2> QED  BY <1>0, <2>1, HaltStays
  <1>4. ASSUME NEW s \in Stream, NEW w \in Worker,
               Deliver(s, w) \/ NodeDone(s, w) \/ NodeFails(s, w)
        PROVE  HaltInv'
    <2>1. PICK r \in Thread : r = <<s, w>> /\ r[1] = s
      BY ThreadOf
    <2>2. /\ pc[r] = "reading" /\ UNCHANGED <<call, answer, halted, late>>
          /\ \/ pc' = [pc EXCEPT ![r] = "locking"] /\ ~halted[s]
             \/ pc' = [pc EXCEPT ![r] = "ended"]
      BY <1>4, <2>1 DEF Deliver, NodeDone, NodeFails, Stopping
    <2>3. \A t \in Thread :
             IF t = r THEN pc'[t] = "ended" \/ (pc'[t] = "locking" /\ ~halted[s])
             ELSE pc'[t] = pc[t]
      BY <1>0, <2>2
    <2> QED  BY <1>0, <2>1, <2>2, <2>3, HaltStays, ThreadPairs
  <1>5. ASSUME NEW s \in Stream, NEW w \in Worker, Lock(s, w) \/ PassOver(s, w) \/ Invoke(s, w)
        PROVE  HaltInv'
    <2>1. PICK r \in Thread : r = <<s, w>> /\ r[1] = s
      BY ThreadOf
    <2>2. /\ pc[r] \in {"locking", "building"} /\ UNCHANGED <<call, late>>
          /\ \/ pc' = [pc EXCEPT ![r] = "building"]
             \/ pc' = [pc EXCEPT ![r] = "reading"]
             \/ pc' = [pc EXCEPT ![r] = "calling"]
          /\ answer' = answer \/ answer' = [answer EXCEPT ![r] = None]
          /\ halted' = halted \/ halted' = [halted EXCEPT ![s] = @ \/ ~TRUE]
      BY <1>5, <2>1 DEF Lock, PassOver, Invoke, Unlock
    <2>3. halted' = halted
      BY <1>0, <2>2
    <2>4. \A t \in Thread : t # r => pc'[t] = pc[t] /\ answer'[t] = answer[t]
      BY <1>0, <2>2
    <2> QED  BY <1>0, <2>1, <2>2, <2>3, <2>4, HaltStays, ThreadPairs
  <1>6. ASSUME NEW s \in Stream, NEW w \in Worker, UserReturns(s, w) PROVE HaltInv'
    <2>1. PICK r \in Thread : r = <<s, w>> /\ r[1] = s /\ r[2] = w
      BY ThreadOf
    <2>2. /\ pc[r] = "calling" /\ UNCHANGED <<call, halted>>
          /\ pc' = [pc EXCEPT ![r] = "called"]
          /\ late' = [late EXCEPT ![s] = IF halted[s] THEN @ + 1 ELSE @]
          /\ answer' = answer \/ \E v \in Answer : answer' = [answer EXCEPT ![r] = v]
      BY <1>6, <2>1 DEF UserReturns
    <2>3. \A t \in Thread : t # r => pc'[t] = pc[t] /\ answer'[t] = answer[t]
      BY <1>0, <2>2
    <2>4. OnlyFalseHalts'
      BY <2>2, <2>3, ThreadPairs DEF HaltInv, OnlyFalseHalts
    <2>5. ASSUME NEW q \in Stream, halted[q]
          PROVE  late'[q] + Cardinality(Pending(q)') < Cardinality(Worker)
      <3>0. late[q] + Cardinality(Pending(q)) < Cardinality(Worker) /\ late[q] \in Nat
        BY <1>0, <2>5 DEF HaltInv, LateWerePending
      <3>1. CASE q = s
        <4>1. w \in Pending(s) /\ Pending(s)' = Pending(s) \ {w}
          BY <1>0, <2>1, <2>2, <2>3, ThreadPairs DEF Pending
        <4>2. Cardinality(Pending(s)') = Cardinality(Pending(s)) - 1
          BY <4>1, PendingFinite, FS_RemoveElement
        <4>3. late'[s] = late[s] + 1
          BY <1>0, <2>2, <2>5, <3>1
        <4> QED  BY <3>0, <3>1, <4>2, <4>3, PendingFinite
      <3>2. CASE q # s
        <4>1. Pending(q)' = Pending(q)
          BY <2>1, <2>3, <3>2, ThreadPairs DEF Pending
        <4>2. late'[q] = late[q]
          BY <1>0, <2>2, <3>2
        <4> QED  BY <3>0, <4>1, <4>2
      <3> QED  BY <3>1, <3>2
    <2>6. LateWerePending'
      <3>1. \A q \in Stream : ~halted[q] => late'[q] = late[q]
        BY <1>0, <2>2
      <3> QED  BY <2>2, <2>5, <3>1 DEF HaltInv, LateWerePending
    <2> QED  BY <2>4, <2>6 DEF HaltInv
  <1>7. ASSUME NEW s \in Stream, NEW w \in Worker, Decide(s, w) PROVE HaltInv'
    <2>1. PICK r \in Thread : r = <<s, w>> /\ r[1] = s /\ r[2] = w
      BY ThreadOf
    <2>2. /\ pc[r] = "called" /\ UNCHANGED <<call, answer, late>>
          /\ pc' = [pc EXCEPT ![r] = IF retval[r] # "false" THEN "reading" ELSE "ended"]
          /\ halted' = [halted EXCEPT ![s] = @ \/ ~(retval[r] # "false")]
      BY <1>7, <2>1 DEF Decide, Unlock
    <2>3. \A t \in Thread : t # r => pc'[t] = pc[t]
      BY <1>0, <2>2
    <2>4. CASE retval[r] # "false"
      <3>1. halted' = halted
        BY <1>0, <2>2, <2>4
      <3>2. pc'[r] = "reading"
        BY <1>0, <2>2, <2>4
      <3> QED  BY <1>0, <2>1, <2>2, <2>3, <3>1, <3>2, HaltStays, ThreadPairs
    <2>5. CASE retval[r] = "false"
      <3>1. /\ pc'[r] = "ended" /\ answer'[r] = "false"
            /\ \A q \in Stream : halted'[q] = (q = s \/ halted[q])
        BY <1>0, <2>1, <2>2, <2>5 DEF StreamInv, FciAimed
      <3>2. OnlyFalseHalts'
        <4> SUFFICES ASSUME NEW q \in Stream, halted'[q]
                     PROVE  \E v \in Worker : pc'[<<q, v>>] = "ended" /\ answer'[<<q, v>>] = "false"
          BY DEF OnlyFalseHalts
        <4>1. CASE q = s
          BY <2>1, <3>1, <4>1
        <4>2. CASE q # s
          <5>1. PICK v \in Worker : pc[<<q, v>>] = "ended" /\ answer[<<q, v>>] = "false"
            BY <3>1, <4>2 DEF HaltInv, OnlyFalseHalts
          <5> QED  BY <2>1, <2>2, <2>3, <4>2, <5>1, ThreadPairs
        <4> QED  BY <4>1, <4>2
      <3>3. ASSUME NEW q \in Stream, halted'[q]
            PROVE  late[q] + Cardinality(Pending(q)') < Cardinality(Worker)
        <4>0. late[q] \in Nat
          BY <1>0
        <4>1. CASE ~halted[q]
          <5>1. q = s /\ late[q] = 0
            BY <3>1, <3>3, <4>1 DEF HaltInv, LateWerePending
          <5>2. Pending(q)' \in SUBSET (Worker \ {w})
            BY <2>1, <3>1, <5>1 DEF Pending
          <5>3. /\ IsFiniteSet(Worker \ {w})
                /\ Cardinality(Worker \ {w}) = Cardinality(Worker) - 1
            BY StreamAssumption, FS_RemoveElement
          <5>4. Cardinality(Pending(q)') <= Cardinality(Worker \ {w})
            BY <5>2, <5>3, FS_Subset
          <5> QED  BY <5>1, <5>3, <5>4, PendingFinite
        <4>2. CASE halted[q]
          <5>1. Pending(q)' \in SUBSET Pending(q)
            BY <2>1, <2>3, <3>1, ThreadPairs DEF Pending
          <5>2. Cardinality(Pending(q)') <= Cardinality(Pending(q))
            BY <5>1, PendingFinite, FS_Subset
          <5>3. late[q] + Cardinality(Pending(q)) < Cardinality(Worker)
            BY <4>2 DEF HaltInv, LateWerePending
          <5> QED  BY <4>0, <5>2, <5>3, PendingFinite
        <4> QED  BY <4>1, <4>2
      <3>4. call[s] # "none"
        BY <1>0, <2>1, <2>2 DEF StreamInv, NestedUnderCall
      <3>5. LateWerePending'
        BY <2>2, <3>1, <3>3, <3>4 DEF HaltInv, LateWerePending
      <3> QED  BY <3>2, <3>5 DEF HaltInv
    <2> QED  BY <2>4, <2>5
  <1>8. CASE UNCHANGED vars
    BY <1>0, <1>8, HaltStays DEF vars
  <1> QED
    BY <1>1, <1>2, <1>3, <1>4, <1>5, <1>6, <1>7, <1>8 DEF Next, Callback

LEMMA HaltHolds == Spec => []HaltInv
  <1>1. Init => HaltInv
    BY DEF Init, HaltInv, OnlyFalseHalts, LateWerePending
  <1> QED  BY <1>1, HaltNext, StreamHolds, PTL DEF Spec

\* Nothing but an explicit false of the script's function halts a stream.
THEOREM HaltedByFalse == Spec => []OnlyFalseHalts
  <1>1. HaltInv => OnlyFalseHalts
    BY DEF HaltInv
  <1> QED  BY <1>1, HaltHolds, PTL

\* After a false the function is called at most for the record each other worker
\* had received.
THEOREM FewLate == Spec => []FewAfterHalt
  <1>1. StreamInv /\ HaltInv => FewAfterHalt
    <2> SUFFICES ASSUME StreamInv, HaltInv, NEW s \in Stream
                 PROVE  late[s] < Cardinality(Worker)
      BY DEF FewAfterHalt
    <2>1. late[s] \in Nat /\ halted[s] \in BOOLEAN
      BY DEF StreamInv, TypeOK
    <2>2. Cardinality(Worker) > 0
      BY StreamAssumption, FS_EmptySet, FS_CardinalityType
    <2> QED  BY <2>1, <2>2, PendingFinite DEF HaltInv, LateWerePending
  <1> QED  BY <1>1, HaltHolds, StreamHolds, PTL

=============================================================================
