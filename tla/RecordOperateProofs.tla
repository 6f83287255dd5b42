------------------------- MODULE RecordOperateProofs -------------------------
(***************************************************************************)
(* What operate() and operateOrdered() apply, tell and return, for any      *)
(* number of processes and calls and any lists and options.                 *)
(***************************************************************************)
EXTENDS RecordOperate, FiniteSetTheorems, SequenceTheorems, TLAPS

\* A process in a method has called it, and the calls it has made are those that
\* are asked.
CallsAsked ==
    \A p \in Process :
        /\ pc[p] # "idle" => calls[p] >= 1
        /\ \A n \in 1 .. MaxCalls :
              IF n <= calls[p] THEN asked[<<p, n>>].method \in Method
              ELSE asked[<<p, n>>] = NoCall /\ answered[<<p, n>>] = NoAnswer

TypeInv == TypeOK /\ CallsAsked

Locals == [pos : Nat \ {0}, offset : Int, double_offset : Int, index : Int,
           ops : Seq(Entry), status : Status, error : Status,
           rec : BOOLEAN, results : Seq(Result)]

Places == {"idle", "walk", "send", "sent", "resent", "succeeded", "failed", "exit"}

-----------------------------------------------------------------------------
(* Type correctness.                                                       *)

LEMMA CallPairs ==
  /\ \A p \in Process, n \in 1 .. MaxCalls : <<p, n>> \in Call
  /\ \A c \in Call : c = <<c[1], c[2]>> /\ c[1] \in Process /\ c[2] \in 1 .. MaxCalls
  /\ \A p, q \in Process : \A n, m : <<p, n>> = <<q, m>> <=> p = q /\ n = m
  BY DEF Call

LEMMA Room == \A p \in Process : TypeInv /\ MayCall(p) => calls[p] + 1 \in 1 .. MaxCalls
  <1> SUFFICES ASSUME NEW p \in Process, TypeInv, MayCall(p)
               PROVE  calls[p] + 1 \in 1 .. MaxCalls
    OBVIOUS
  <1>0. calls[p] \in 0 .. MaxCalls
    BY DEF TypeInv, TypeOK
  <1> SUFFICES ASSUME calls[p] = MaxCalls PROVE FALSE
    BY <1>0, OperateAssumption
  <1> DEFINE made == {c \in Call : asked[c] # NoCall}
             f == [n \in 1 .. MaxCalls |-> <<p, n>>]
  <1>1. MaxCalls \in Nat /\ IsFiniteSet(Process)
    BY OperateAssumption
  <1>2. IsFiniteSet(1 .. MaxCalls) /\ Cardinality(1 .. MaxCalls) = MaxCalls
    BY <1>1, FS_Interval
  <1>3. IsFiniteSet(made)
    <2>1. IsFiniteSet(Call)
      BY <1>1, <1>2, FS_Product DEF Call
    <2> QED  BY <2>1, FS_Subset
  <1>4. \A n \in 1 .. MaxCalls : <<p, n>> \in made
    <2> SUFFICES ASSUME NEW n \in 1 .. MaxCalls PROVE asked[<<p, n>>] # NoCall
      BY CallPairs
    <2>1. asked[<<p, n>>].method \in Method
      BY DEF TypeInv, CallsAsked
    <2> QED  BY <2>1 DEF NoCall, Method
  <1>5. f \in Injection(1 .. MaxCalls, made)
    BY <1>4 DEF Injection, IsInjective
  <1>6. MaxCalls <= Cardinality(made)
    BY <1>2, <1>3, <1>5, FS_Injection
  <1>7. Cardinality(made) < MaxCalls
    BY DEF MayCall
  <1>8. Cardinality(made) \in Nat
    BY <1>3, FS_CardinalityType
  <1> QED  BY <1>1, <1>6, <1>7, <1>8

\* The call of a process is one of those that were made.
LEMMA InCall ==
  \A p \in Process : TypeInv /\ pc[p] # "idle" =>
    /\ calls[p] \in 1 .. MaxCalls /\ Current(p) \in Call
    /\ Asked(p).method \in Method /\ Asked(p).list \in OpLists \cup {<<>>}
    /\ Asked(p).opts \in OptRecord
    /\ local[p] \in Locals /\ pc[p] \in Places
  <1> SUFFICES ASSUME NEW p \in Process, TypeInv, pc[p] # "idle"
               PROVE  /\ calls[p] \in 1 .. MaxCalls /\ Current(p) \in Call
                      /\ Asked(p).method \in Method /\ Asked(p).list \in OpLists \cup {<<>>}
                      /\ Asked(p).opts \in OptRecord
                      /\ local[p] \in Locals /\ pc[p] \in Places
    OBVIOUS
  <1>1. calls[p] \in 1 .. MaxCalls
    BY OperateAssumption DEF TypeInv, TypeOK, CallsAsked
  <1>2. Current(p) \in Call
    BY <1>1, CallPairs DEF Current
  <1>3. Asked(p).method \in Method
    BY <1>1 DEF TypeInv, CallsAsked, Asked, Current
  <1>4. asked[Current(p)] \in [method : Method \cup {"none"}, list : OpLists \cup {<<>>},
                              opts : OptRecord]
    BY <1>2 DEF TypeInv, TypeOK
  <1>5. Asked(p).list \in OpLists \cup {<<>>} /\ Asked(p).opts \in OptRecord
    BY <1>4 DEF Asked
  <1> QED  BY <1>1, <1>2, <1>3, <1>5 DEF TypeInv, TypeOK, Locals, Places

LEMMA ElementType ==
  ASSUME NEW S, NEW s \in Seq(S), NEW i \in Nat \ {0}, i <= Len(s) PROVE s[i] \in S
  OBVIOUS

\* The element a walk has come to.
LEMMA NextOpType ==
  \A p \in Process : TypeInv /\ Walking(p) => NextOp(p) \in OpRecord
  <1> SUFFICES ASSUME NEW p \in Process, TypeInv, Walking(p) PROVE NextOp(p) \in OpRecord
    OBVIOUS
  <1>0. pc[p] # "idle" /\ pc[p] = "walk" /\ local[p].pos <= Len(Asked(p).list)
    BY DEF Walking
  <1>1. Asked(p).list \in Seq(OpRecord)
    <2>1. Asked(p).list \in OpLists \cup {<<>>}
      BY <1>0, InCall
    <2>2. OpLists \subseteq Seq(OpRecord) /\ <<>> \in Seq(OpRecord)
      BY OperateAssumption
    <2> QED  BY <2>1, <2>2
  <1>2. local[p].pos \in Nat \ {0}
    BY <1>0, InCall DEF Locals
  <1> QED  BY <1>0, <1>1, <1>2, ElementType DEF NextOp

LEMMA FreshType == \A index \in Index : Fresh(index) \in Locals
  BY OperateAssumption DEF Fresh, Locals, Status

LEMMA RefusedType ==
  \A p \in Process : local[p] \in Locals => Refused(p) \in Locals
  BY DEF Refused, Locals, Status

LEMMA AsIntType == \A v \in Int : AsInt(v) \in Int
  BY OperateAssumption DEF AsInt

\* What an element leaves of the locals, and puts into the as_operations.
LEMMA TakeTypes ==
  ASSUME NEW p \in Process, local[p] \in Locals, NEW e \in OpRecord
  PROVE  /\ LocalsAfter(p, e) \in Locals
         /\ Adds(e) => ArgOf(e, LocalsAfter(p, e)) \in Arg
  <1> DEFINE l == LocalsAfter(p, e)
  <1>1. /\ local[p].offset \in Int /\ local[p].double_offset \in Int /\ local[p].index \in Int
        /\ e.val \in Value \cup {None} /\ e.index \in Index \cup {None} /\ Index \subseteq Int
    BY OperateAssumption DEF Locals, OpRecord
  <1>2. e.val # None => e.val.v \in Int /\ AsInt(e.val.v) \in Int
    BY <1>1, AsIntType DEF Value
  <1>3. l \in Locals
    <2>1. \E a, b, n \in Int :
             l = [local[p] EXCEPT !.offset = a, !.double_offset = b, !.index = n]
      <3> DEFINE a == IF e.val # None /\ e.val.type = "long" THEN AsInt(e.val.v)
                      ELSE local[p].offset
                 b == IF e.val # None /\ e.val.type = "double" THEN e.val.v
                      ELSE local[p].double_offset
                 n == IF e.index # None THEN e.index
                      ELSE IF Ordered(p) THEN 0 ELSE local[p].index
      <3>0. a \in Int
        BY <1>1, <1>2
      <3>1. b \in Int
        BY <1>1, <1>2
      <3>3. n \in Int
        <4>1. CASE e.index # None
          BY <1>1, <4>1
        <4>2. CASE e.index = None
          BY <1>1, <4>2
        <4> QED  BY <4>1, <4>2
      <3>2. l = [local[p] EXCEPT !.offset = a, !.double_offset = b, !.index = n]
        BY DEF LocalsAfter
      <3> HIDE DEF a, b, n
      <3> QED  BY <3>0, <3>1, <3>2, <3>3
    <2> QED  BY <2>1 DEF Locals
  <1>4. l.offset \in Int /\ l.double_offset \in Int /\ l.index \in Int
    BY <1>3 DEF Locals
  <1> HIDE DEF l
  <1>5. ASSUME Adds(e) PROVE ArgOf(e, l) \in Arg
    <2>0. CASE e.op = "items"
      <3>1. e.val.v \in Int
        BY <1>2, <1>5, <2>0 DEF Adds
      <3> QED  BY <2>0, <3>1 DEF ArgOf, Arg
    <2>1. CASE /\ e.op = "write" /\ e.val # None /\ e.val.type \in {"string", "numeral"}
               /\ e.op # "read"
      BY <1>2, <2>1 DEF ArgOf, Arg
    <2>2. CASE /\ ~(e.op = "write" /\ e.val # None /\ e.val.type \in {"string", "numeral"})
               /\ e.op # "items"
      BY <1>4, <2>2 DEF ArgOf, Arg
    <2> QED  BY <2>0, <2>1, <2>2
  <1> QED  BY <1>3, <1>5 DEF l

\* A step inside a call, of one process.
LEMMA LocalStepType ==
  ASSUME TypeInv, NEW p \in Process, pc[p] # "idle",
         NEW w \in Places, pc' = [pc EXCEPT ![p] = w],
         NEW l \in Locals, local' = [local EXCEPT ![p] = l],
         iterator' \in [Process -> Nat],
         UNCHANGED <<log, generation, inflight, asked, answered, calls>>
  PROVE  TypeInv'
  <1>1. TypeOK'
    BY DEF TypeInv, TypeOK, Locals, Places
  <1>2. CallsAsked'
    BY DEF TypeInv, TypeOK, CallsAsked
  <1> QED  BY <1>1, <1>2 DEF TypeInv

\* A step that begins a call, refused ones too.
LEMMA CallStepType ==
  ASSUME TypeInv, NEW p \in Process, MayCall(p),
         NEW method \in Method, NEW list \in OpLists, NEW opts \in Options,
         calls' = [calls EXCEPT ![p] = @ + 1],
         asked' = [asked EXCEPT ![<<p, calls[p] + 1>>] =
                      [method |-> method, list |-> list, opts |-> opts]]
  PROVE  /\ calls' \in [Process -> 0 .. MaxCalls]
         /\ asked' \in [Call -> [method : Method \cup {"none"}, list : OpLists \cup {<<>>},
                                 opts : OptRecord]]
         /\ \A q \in Process, n \in 1 .. MaxCalls :
               /\ <<q, n>> # <<p, calls[p] + 1>> => asked'[<<q, n>>] = asked[<<q, n>>]
               /\ IF n <= calls'[q] THEN asked'[<<q, n>>].method \in Method
                  ELSE /\ asked'[<<q, n>>] = NoCall /\ answered[<<q, n>>] = NoAnswer
                       /\ <<q, n>> # <<p, calls[p] + 1>>
  <1>1. calls[p] + 1 \in 1 .. MaxCalls /\ <<p, calls[p] + 1>> \in Call
    BY Room, CallPairs
  <1>2. /\ calls \in [Process -> 0 .. MaxCalls]
        /\ asked \in [Call -> [method : Method \cup {"none"}, list : OpLists \cup {<<>>},
                               opts : OptRecord]]
    BY DEF TypeInv, TypeOK
  <1>3. calls' \in [Process -> 0 .. MaxCalls]
    BY <1>1, <1>2
  <1>4. opts \in OptRecord
    BY OperateAssumption
  <1>5. asked' \in [Call -> [method : Method \cup {"none"}, list : OpLists \cup {<<>>},
                             opts : OptRecord]]
    BY <1>1, <1>2, <1>4
  <1>6. ASSUME NEW q \in Process, NEW n \in 1 .. MaxCalls
        PROVE  /\ <<q, n>> # <<p, calls[p] + 1>> => asked'[<<q, n>>] = asked[<<q, n>>]
               /\ IF n <= calls'[q] THEN asked'[<<q, n>>].method \in Method
                  ELSE /\ asked'[<<q, n>>] = NoCall /\ answered[<<q, n>>] = NoAnswer
                       /\ <<q, n>> # <<p, calls[p] + 1>>
    <2>1. <<q, n>> \in Call /\ calls[q] \in 0 .. MaxCalls
      BY <1>2, CallPairs
    <2>2. CASE <<q, n>> = <<p, calls[p] + 1>>
      <3>1. q = p /\ n = calls[p] + 1
        BY <2>2, CallPairs
      <3>2. n <= calls'[q] /\ asked'[<<q, n>>].method = method
        BY <1>1, <1>2, <2>1, <2>2, <3>1
      <3> QED  BY <2>2, <3>2
    <2>3. CASE <<q, n>> # <<p, calls[p] + 1>>
      <3>1. asked'[<<q, n>>] = asked[<<q, n>>]
        BY <1>2, <2>1, <2>3
      <3>2. n <= calls'[q] <=> n <= calls[q]
        <4>1. CASE q = p
          <5>1. n # calls[p] + 1 /\ calls'[q] = calls[p] + 1
            BY <1>2, <2>3, <4>1
          <5> QED  BY <2>1, <4>1, <5>1
        <4>2. CASE q # p
          BY <1>2, <4>2
        <4> QED  BY <4>1, <4>2
      <3> QED  BY <2>3, <3>1, <3>2 DEF TypeInv, CallsAsked
    <2> QED  BY <2>2, <2>3
  <1> QED  BY <1>3, <1>5, <1>6

\* The steps of a call that neither send nor return.
Inner(p) ==
    \/ Stop(p) \/ Refuse(p) \/ TakeOp(p) \/ EndOfList(p)
    \/ BadTtl(p) \/ Timeout(p)
    \/ OperateSucceeded(p) \/ OperateFailed(p) \/ OrderedSucceeded(p) \/ OrderedFailed(p)

\* TakeOp as an update of the locals.
TookOp(p) ==
    LET e == NextOp(p)
        l == LocalsAfter(p, e)
        entry == [call |-> Current(p), pos |-> local[p].pos,
                  write |-> e.op # "read", arg |-> ArgOf(e, l)]
    IN  [l EXCEPT !.ops = Collected(p, IF Adds(e) THEN <<entry>> ELSE <<>>),
                  !.pos = local[p].pos + 1, !.error = "OK"]

LEMMA TookOpType ==
  ASSUME TypeInv, NEW p \in Process, Walking(p)
  PROVE  /\ TookOp(p) \in Locals /\ TookOp(p).pos = local[p].pos + 1
         /\ TookOp(p).results = local[p].results
         /\ \E es \in Seq(Entry) :
               /\ TookOp(p).ops = Collected(p, es)
               /\ IF Adds(NextOp(p))
                  THEN \E entry \in Entry : /\ entry.call = Current(p) /\ entry.pos = local[p].pos
                                           /\ es = <<entry>>
                  ELSE es = <<>>
  <1> DEFINE e == NextOp(p)
             l == LocalsAfter(p, e)
             entry == [call |-> Current(p), pos |-> local[p].pos,
                       write |-> e.op # "read", arg |-> ArgOf(e, l)]
             es == IF Adds(e) THEN <<entry>> ELSE <<>>
  <1>0. pc[p] # "idle"
    BY DEF Walking
  <1>1. local[p] \in Locals /\ e \in OpRecord /\ Current(p) \in Call
    BY <1>0, InCall, NextOpType
  <1>2. l \in Locals /\ (Adds(e) => ArgOf(e, l) \in Arg)
    BY <1>1, TakeTypes
  <1>3. Adds(e) => entry \in Entry
    BY <1>1, <1>2 DEF Entry, Locals
  <1>5. l.results = local[p].results
    BY <1>1 DEF LocalsAfter, Locals
  <1>6. local[p].pos + 1 \in Nat \ {0}
    BY <1>1 DEF Locals
  <1>7. TookOp(p) = [l EXCEPT !.ops = Collected(p, es), !.pos = local[p].pos + 1, !.error = "OK"]
    BY DEF TookOp
  <1>8. entry.call = Current(p) /\ entry.pos = local[p].pos
    OBVIOUS
  <1> HIDE DEF l, entry
  <1>10. es \in Seq(Entry)
    BY <1>3
  <1>11. IF Adds(e) THEN es = <<entry>> ELSE es = <<>>
    OBVIOUS
  <1> HIDE DEF e, es
  <1>4. Collected(p, es) \in Seq(Entry)
    <2>1. local[p].ops \in Seq(Entry)
      BY <1>1 DEF Locals
    <2> QED  BY <1>10, <2>1 DEF Collected
  <1>9. /\ TookOp(p) \in Locals /\ TookOp(p).pos = local[p].pos + 1
        /\ TookOp(p).results = l.results /\ TookOp(p).ops = Collected(p, es)
    BY <1>2, <1>4, <1>6, <1>7 DEF Locals, Status
  <1>12. IF Adds(e)
         THEN \E x \in Entry : x.call = Current(p) /\ x.pos = local[p].pos /\ es = <<x>>
         ELSE es = <<>>
    BY <1>3, <1>8, <1>11
  <1> QED  BY <1>5, <1>9, <1>10, <1>12 DEF e

\* The results after operater_ordered_callback, and after a double.
WithEntry(p) == Append(local[p].results, EntryOf(p))

BareOf(p) == [EntryOf(p) EXCEPT !.key = NextIndex(local[p].results), !.bare = TRUE]

WithBare(p) ==
    IF BareOf(p).key = iterator[p] THEN local[p].results ELSE Append(local[p].results, BareOf(p))

LEMMA EntryType ==
  ASSUME TypeInv, NEW p \in Process
  PROVE  /\ EntryOf(p) \in Result /\ BareOf(p) \in Result
         /\ WithEntry(p) \in Seq(Result) /\ WithBare(p) \in Seq(Result)
         /\ Append(WithBare(p), EntryOf(p)) \in Seq(Result)
  <1>1. /\ local[p].results \in Seq(Result) /\ local[p].pos - 1 \in Nat
        /\ iterator[p] \in Nat
    BY DEF TypeInv, TypeOK
  <1>2. EntryOf(p) \in Result
    BY <1>1 DEF Result, EntryOf
  <1>3. NextIndex(local[p].results) \in Nat
    <2>1. CASE local[p].results = <<>>
      BY <2>1 DEF NextIndex
    <2>2. CASE local[p].results # <<>>
      <3> DEFINE R == local[p].results
      <3>1. R \in Seq(Result) /\ Len(R) \in Nat \ {0}
        BY <1>1, <2>2
      <3> HIDE DEF R
      <3>2. R[Len(R)] \in Result
        BY <3>1, ElementType
      <3>3. R[Len(R)].key + 1 \in Nat
        BY <3>2 DEF Result
      <3> QED  BY <2>2, <3>3 DEF NextIndex, R
    <2> QED  BY <2>1, <2>2
  <1>4. BareOf(p) \in Result
    BY <1>2, <1>3 DEF BareOf, Result
  <1>5. WithEntry(p) \in Seq(Result) /\ WithBare(p) \in Seq(Result)
    BY <1>1, <1>2, <1>4 DEF WithEntry, WithBare
  <1> QED  BY <1>2, <1>4, <1>5

\* Changes of the status, of the error and of the results.
LEMMA ErrorSet ==
  ASSUME NEW l \in Locals, NEW e \in Status PROVE [l EXCEPT !.error = e] \in Locals
  BY DEF Locals

LEMMA RecSet ==
  ASSUME NEW l \in Locals, NEW e \in Status, NEW b \in BOOLEAN
  PROVE  [l EXCEPT !.error = e, !.rec = b] \in Locals
  BY DEF Locals

LEMMA StatusSet ==
  ASSUME NEW l \in Locals, NEW s \in Status, NEW e \in Status
  PROVE  [l EXCEPT !.status = s, !.error = e] \in Locals
  BY DEF Locals

LEMMA ResultsSet ==
  ASSUME NEW l \in Locals, NEW s \in Status, NEW e \in Status, NEW results \in Seq(Result)
  PROVE  [l EXCEPT !.status = s, !.error = e, !.results = results] \in Locals
  BY DEF Locals

LEMMA Statuses == {"OK", "PARAM", "CLIENT", "SERVER"} \subseteq Status
  BY DEF Status

LEMMA InnerEffect ==
  ASSUME TypeInv, NEW p \in Process, Inner(p)
  PROVE  /\ pc[p] # "idle"
         /\ \E w \in Places \ {"idle"}, l \in Locals :
               pc' = [pc EXCEPT ![p] = w] /\ local' = [local EXCEPT ![p] = l]
         /\ iterator' \in [Process -> Nat]
         /\ \A q \in Process : q # p => iterator'[q] = iterator[q]
         /\ UNCHANGED <<log, generation, inflight, asked, answered, calls>>
  <1>0. iterator \in [Process -> Nat] /\ local \in [Process -> Locals]
        /\ local = [local EXCEPT ![p] = local[p]] /\ local[p] \in Locals
    BY DEF TypeInv, TypeOK, Locals
  <1>1. CASE Stop(p)
    <2> DEFINE e == IF Asked(p).opts.bad = "gen" THEN "PARAM" ELSE local[p].error
    <2>0. e \in Status
      BY <1>0, Statuses DEF Locals
    <2>1. [local[p] EXCEPT !.error = e] \in Locals
      BY <1>0, <2>0, ErrorSet
    <2>2. /\ local' = [local EXCEPT ![p] = [local[p] EXCEPT !.error = e]]
          /\ pc' = [pc EXCEPT ![p] = "exit"] /\ pc[p] = "walk" /\ "exit" \in Places \ {"idle"}
          /\ UNCHANGED <<log, generation, inflight, asked, answered, calls, iterator>>
      BY <1>1 DEF Stop, Walking, Places
    <2> QED  BY <1>0, <2>1, <2>2
  <1>2. CASE Refuse(p)
    <2>1. Refused(p) \in Locals
      BY <1>0, RefusedType
    <2>2. /\ local' = [local EXCEPT ![p] = Refused(p)]
          /\ pc' = [pc EXCEPT ![p] = "exit"] /\ pc[p] = "walk" /\ "exit" \in Places \ {"idle"}
          /\ UNCHANGED <<log, generation, inflight, asked, answered, calls, iterator>>
      BY <1>2 DEF Refuse, Walking, Places
    <2> QED  BY <1>0, <2>1, <2>2
  <1>3. CASE TakeOp(p)
    <2>1. TookOp(p) \in Locals /\ pc[p] = "walk"
      BY <1>3, TookOpType DEF TakeOp, Walking
    <2>2. /\ local' = [local EXCEPT ![p] = TookOp(p)]
          /\ \E w \in {"send", "walk"} : pc' = [pc EXCEPT ![p] = w]
          /\ UNCHANGED <<log, generation, inflight, asked, answered, calls, iterator>>
      BY <1>3 DEF TakeOp, TookOp
    <2> QED  BY <1>0, <2>1, <2>2 DEF Places
  <1>4. CASE EndOfList(p) \/ Timeout(p)
    <2>1. /\ local' = local /\ pc[p] \in {"walk", "sent", "resent"}
          /\ \E w \in {"exit", "send", "failed"} : pc' = [pc EXCEPT ![p] = w]
          /\ UNCHANGED <<log, generation, inflight, asked, answered, calls, iterator>>
      BY <1>4 DEF EndOfList, Timeout
    <2> QED  BY <1>0, <2>1 DEF Places
  <1>5. CASE BadTtl(p)
    <2>1. [local[p] EXCEPT !.error = "PARAM"] \in Locals
      BY <1>0, ErrorSet, Statuses
    <2>2. /\ local' = [local EXCEPT ![p] = [local[p] EXCEPT !.error = "PARAM"]]
          /\ pc' = [pc EXCEPT ![p] = "exit"] /\ pc[p] = "send" /\ "exit" \in Places \ {"idle"}
          /\ UNCHANGED <<log, generation, inflight, asked, answered, calls, iterator>>
      BY <1>5 DEF BadTtl, Places
    <2> QED  BY <1>0, <2>1, <2>2
  <1>6. CASE OperateSucceeded(p)
    <2>1. \A s \in Status : [local[p] EXCEPT !.error = s] \in Locals
      BY <1>0 DEF Locals
    <2>2. /\ \E s \in Status : local' = [local EXCEPT ![p] = [local[p] EXCEPT !.error = s]]
          /\ pc' = [pc EXCEPT ![p] = "exit"] /\ pc[p] = "succeeded" /\ "exit" \in Places \ {"idle"}
          /\ UNCHANGED <<log, generation, inflight, asked, answered, calls, iterator>>
      <3>1. PICK b \in BOOLEAN :
               local' = [local EXCEPT ![p].error = IF b THEN "OK" ELSE "CLIENT"]
        BY <1>6 DEF OperateSucceeded
      <3>2. (IF b THEN "OK" ELSE "CLIENT") \in Status
        BY DEF Status
      <3> QED  BY <1>6, <3>1, <3>2 DEF OperateSucceeded, Places
    <2> QED  BY <1>0, <2>1, <2>2
  <1>7. CASE OperateFailed(p)
    <2>1. [local[p] EXCEPT !.status = "SERVER", !.error = "SERVER"] \in Locals
      BY <1>0, StatusSet, Statuses
    <2>2. /\ local' = [local EXCEPT ![p] =
                          [local[p] EXCEPT !.status = "SERVER", !.error = "SERVER"]]
          /\ pc' = [pc EXCEPT ![p] = "exit"] /\ pc[p] = "failed" /\ "exit" \in Places \ {"idle"}
          /\ UNCHANGED <<log, generation, inflight, asked, answered, calls, iterator>>
      BY <1>0, <1>7 DEF OperateFailed, Places
    <2> QED  BY <1>0, <2>1, <2>2
  <1>8. CASE OrderedSucceeded(p)
    <2>1. /\ pc' = [pc EXCEPT ![p] = "walk"] /\ pc[p] = "succeeded" /\ "walk" \in Places \ {"idle"}
          /\ UNCHANGED <<log, generation, inflight, asked, answered, calls>>
      BY <1>8 DEF OrderedSucceeded, Places
    <2>2. CASE WithResult(p)
      <3>1. [local[p] EXCEPT !.results = WithEntry(p), !.rec = TRUE] \in Locals
        BY <1>0, EntryType DEF Locals
      <3>2. local' = [local EXCEPT ![p] = [local[p] EXCEPT !.results = WithEntry(p), !.rec = TRUE]]
        BY <1>0, <2>2 DEF WithResult, WithEntry
      <3>3. /\ iterator' \in [Process -> Nat]
            /\ \A q \in Process : q # p => iterator'[q] = iterator[q]
        BY <1>0, <2>2 DEF WithResult
      <3> QED  BY <2>1, <3>1, <3>2, <3>3
    <2>4. CASE WithDouble(p)
      <3> DEFINE R == Append(WithBare(p), EntryOf(p))
      <3>1. [local[p] EXCEPT !.rec = TRUE, !.results = R] \in Locals
        BY <1>0, EntryType DEF Locals
      <3>2. local' = [local EXCEPT ![p] = [local[p] EXCEPT !.rec = TRUE, !.results = R]]
        BY <1>0, <2>4 DEF WithDouble, WithBare, BareOf
      <3>3. /\ iterator' \in [Process -> Nat]
            /\ \A q \in Process : q # p => iterator'[q] = iterator[q]
        BY <1>0, <2>4 DEF WithDouble
      <3> QED  BY <2>1, <3>1, <3>2, <3>3
    <2>3. CASE ~WithResult(p) /\ ~WithDouble(p)
      <3>1. [local[p] EXCEPT !.error = "CLIENT", !.rec = TRUE] \in Locals
        BY <1>0, RecSet, Statuses
      <3>2. /\ local' = [local EXCEPT ![p] = [local[p] EXCEPT !.error = "CLIENT", !.rec = TRUE]]
            /\ iterator' = iterator
        BY <1>0, <1>8, <2>3 DEF OrderedSucceeded
      <3> QED  BY <1>0, <2>1, <3>1, <3>2
    <2> QED  BY <2>2, <2>3, <2>4
  <1>9. CASE OrderedFailed(p)
    <2>1. [local[p] EXCEPT !.status = "SERVER", !.error = "SERVER", !.results = WithEntry(p)]
             \in Locals
      BY <1>0, EntryType, ResultsSet, Statuses
    <2>2. /\ local' = [local EXCEPT ![p] =
                [local[p] EXCEPT !.status = "SERVER", !.error = "SERVER", !.results = WithEntry(p)]]
          /\ pc' = [pc EXCEPT ![p] = "exit"] /\ pc[p] = "failed" /\ "exit" \in Places \ {"idle"}
          /\ iterator' = [iterator EXCEPT ![p] = @ + 1]
          /\ UNCHANGED <<log, generation, inflight, asked, answered, calls>>
      BY <1>0, <1>9 DEF OrderedFailed, WithEntry, Places
    <2>3. /\ iterator' \in [Process -> Nat]
          /\ \A q \in Process : q # p => iterator'[q] = iterator[q]
      BY <1>0, <2>2
    <2> QED  BY <2>1, <2>2, <2>3
  <1> QED
    BY <1>1, <1>2, <1>3, <1>4, <1>5, <1>6, <1>7, <1>8, <1>9 DEF Inner

\* A request is sent, for the first time or again.
Sending(p) == Send(p) \/ Resend(p)

RequestOf(c, a, l, k) ==
    [call |-> c, pos |-> l.pos, copy |-> k, gen |-> a.opts.gen, ops |-> l.ops]

LEMMA SendEffect ==
  ASSUME TypeInv, NEW p \in Process, Sending(p)
  PROVE  /\ \E w \in {"sent", "resent"}, k \in {1, 2} :
               /\ pc' = [pc EXCEPT ![p] = w]
               /\ inflight' = inflight \cup {RequestOf(Current(p), Asked(p), local[p], k)}
               /\ \/ pc[p] = "send" /\ w = "sent" /\ k = 1
                  \/ pc[p] = "sent" /\ w = "resent" /\ k = 2 /\ Asked(p).opts.retry
         /\ \A k \in {1, 2} : RequestOf(Current(p), Asked(p), local[p], k) \in
               [call : Call, pos : Nat, copy : {1, 2}, gen : Nat \cup {None}, ops : Seq(Entry)]
         /\ UNCHANGED <<log, generation, asked, answered, calls, local, iterator>>
  <1>0. pc[p] # "idle"
    BY DEF Sending, Send, Resend
  <1>1. /\ Current(p) \in Call /\ local[p].pos \in Nat /\ local[p].ops \in Seq(Entry)
        /\ Asked(p).opts.gen \in Nat \cup {None}
    BY <1>0, InCall DEF Locals, OptRecord
  <1>2. CASE Send(p)
    <2>1. Request(p) = RequestOf(Current(p), Asked(p), local[p], 1)
      BY <1>2 DEF Send, Request, RequestOf, GenerationOf
    <2> QED  BY <1>1, <1>2, <2>1 DEF Send, RequestOf
  <1>3. CASE Resend(p)
    <2>1. [Request(p) EXCEPT !.copy = 2] = RequestOf(Current(p), Asked(p), local[p], 2)
      BY <1>3 DEF Resend, Request, RequestOf, GenerationOf
    <2> QED  BY <1>1, <1>3, <2>1 DEF Resend, RequestOf
  <1> QED  BY <1>2, <1>3 DEF Sending

LEMMA TypeNext == TypeInv /\ [Next]_vars => TypeInv'
  <1> SUFFICES ASSUME TypeInv, [Next]_vars PROVE TypeInv'
    OBVIOUS
  <1>0. /\ TypeOK /\ CallsAsked
        /\ pc \in [Process -> Places] /\ local \in [Process -> Locals]
    BY DEF TypeInv, TypeOK, Places, Locals
  <1>1. ASSUME NEW p \in Process, NEW method \in Method, NEW list \in OpLists,
               NEW opts \in Options, Rejected(p, method, list, opts)
        PROVE  TypeInv'
    <2> DEFINE c == <<p, calls[p] + 1>>
    <2>1. /\ MayCall(p) /\ calls' = [calls EXCEPT ![p] = @ + 1]
          /\ asked' = [asked EXCEPT ![c] = [method |-> method, list |-> list, opts |-> opts]]
          /\ answered' = [answered EXCEPT ![c] =
                             [status |-> "PARAM", error |-> "PARAM", results |-> <<>>]]
          /\ pc[p] = "idle" /\ UNCHANGED <<log, generation, inflight, pc, local, iterator>>
      BY <1>1 DEF Rejected, MayCall
    <2>2. /\ calls' \in [Process -> 0 .. MaxCalls]
          /\ asked' \in [Call -> [method : Method \cup {"none"}, list : OpLists \cup {<<>>},
                                  opts : OptRecord]]
          /\ \A q \in Process, n \in 1 .. MaxCalls :
                IF n <= calls'[q] THEN asked'[<<q, n>>].method \in Method
                ELSE asked'[<<q, n>>] = NoCall /\ answered[<<q, n>>] = NoAnswer /\ <<q, n>> # c
      BY <2>1, CallStepType
    <2>3. \A d \in Call : d # c => answered'[d] = answered[d]
      BY <1>0, <2>1 DEF TypeOK
    <2>4. answered' \in [Call -> [status : Status \cup {"none"}, error : Status \cup {"none"},
                                 results : Seq(Result)]]
      <3>1. [status |-> "PARAM", error |-> "PARAM", results |-> <<>>]
               \in [status : Status \cup {"none"}, error : Status \cup {"none"},
                   results : Seq(Result)]
        BY Statuses
      <3> QED  BY <1>0, <2>1, <3>1 DEF TypeOK
    <2>5. TypeOK'
      BY <1>0, <2>1, <2>2, <2>4 DEF TypeOK
    <2>6. CallsAsked'
      <3>1. \A q \in Process, n \in 1 .. MaxCalls :
               <<q, n>> # c => answered'[<<q, n>>] = answered[<<q, n>>]
        BY <2>3, CallPairs
      <3>2. \A q \in Process : pc'[q] # "idle" => calls'[q] >= 1
        <4>1. \A q \in Process : q # p => calls'[q] = calls[q]
          BY <1>0, <2>1 DEF TypeOK
        <4> QED  BY <1>0, <2>1, <4>1 DEF CallsAsked
      <3> QED  BY <2>2, <3>1, <3>2 DEF CallsAsked
    <2> QED  BY <2>5, <2>6 DEF TypeInv
  <1>2. ASSUME NEW p \in Process, NEW method \in Method, NEW list \in OpLists,
               NEW opts \in Options, Begin(p, method, list, opts)
        PROVE  TypeInv'
    <2> DEFINE c == <<p, calls[p] + 1>>
    <2>1. /\ MayCall(p) /\ calls' = [calls EXCEPT ![p] = @ + 1]
          /\ asked' = [asked EXCEPT ![c] = [method |-> method, list |-> list, opts |-> opts]]
          /\ UNCHANGED <<log, generation, inflight, answered, iterator>>
      BY <1>2 DEF Begin
    <2>2. /\ calls' \in [Process -> 0 .. MaxCalls]
          /\ asked' \in [Call -> [method : Method \cup {"none"}, list : OpLists \cup {<<>>},
                                  opts : OptRecord]]
          /\ \A q \in Process, n \in 1 .. MaxCalls :
                IF n <= calls'[q] THEN asked'[<<q, n>>].method \in Method
                ELSE asked'[<<q, n>>] = NoCall /\ answered[<<q, n>>] = NoAnswer
      BY <2>1, CallStepType
    <2>3. /\ pc' \in [Process -> Places] /\ local' \in [Process -> Locals]
          /\ \A q \in Process : q # p => pc'[q] = pc[q]
      <3>1. PICK l \in Locals : local' = [local EXCEPT ![p] = l]
        <4>1. PICK index \in Index : local' = [local EXCEPT ![p] =
                CASE opts.bad = "policy" ->
                         [Fresh(index) EXCEPT !.status = "PARAM", !.error = "PARAM"]
                  [] opts.bad = "gen" /\ method = "operate" ->
                         [Fresh(index) EXCEPT !.error = "PARAM"]
                  [] OTHER -> Fresh(index)]
          BY <1>2 DEF Begin
        <4>2. /\ Fresh(index) \in Locals
              /\ [Fresh(index) EXCEPT !.status = "PARAM", !.error = "PARAM"] \in Locals
              /\ [Fresh(index) EXCEPT !.error = "PARAM"] \in Locals
          BY FreshType, ErrorSet, StatusSet, Statuses
        <4> QED  BY <4>1, <4>2
      <3>2. \E w \in Places : pc' = [pc EXCEPT ![p] = w]
        BY <1>2 DEF Begin, Places
      <3> QED  BY <1>0, <3>1, <3>2
    <2>4. TypeOK'
      BY <1>0, <2>1, <2>2, <2>3 DEF TypeOK, Places, Locals
    <2>5. CallsAsked'
      <3>1. calls'[p] >= 1 /\ \A q \in Process : q # p => calls'[q] = calls[q]
        BY <1>0, <2>1, Room DEF TypeOK
      <3> QED  BY <1>0, <2>1, <2>2, <2>3, <3>1 DEF CallsAsked
    <2> QED  BY <2>4, <2>5 DEF TypeInv
  <1>3. ASSUME NEW p \in Process, Inner(p) PROVE TypeInv'
    BY <1>3, InnerEffect, LocalStepType
  <1>4. ASSUME NEW p \in Process, Sending(p) PROVE TypeInv'
    <2>1. /\ pc[p] \in {"send", "sent"}
          /\ \E w \in {"sent", "resent"} : pc' = [pc EXCEPT ![p] = w]
          /\ UNCHANGED <<log, generation, asked, answered, calls, local, iterator>>
      BY <1>4, SendEffect
    <2>2. inflight' \subseteq
             [call : Call, pos : Nat, copy : {1, 2}, gen : Nat \cup {None}, ops : Seq(Entry)]
      <3>1. PICK k \in {1, 2} :
               inflight' = inflight \cup {RequestOf(Current(p), Asked(p), local[p], k)}
        BY <1>4, SendEffect
      <3>2. RequestOf(Current(p), Asked(p), local[p], k) \in
               [call : Call, pos : Nat, copy : {1, 2}, gen : Nat \cup {None}, ops : Seq(Entry)]
        BY <1>4, SendEffect
      <3> QED  BY <1>0, <3>1, <3>2 DEF TypeOK
    <2>3. TypeOK'
      BY <1>0, <2>1, <2>2 DEF TypeOK, Places
    <2>4. CallsAsked'
      BY <1>0, <2>1 DEF CallsAsked
    <2> QED  BY <2>3, <2>4 DEF TypeInv
  <1>5. ASSUME NEW r \in inflight, Apply(r) PROVE TypeInv'
    <2>1. log' \in Seq(Entry) /\ generation' \in Nat
      BY <1>0, <1>5 DEF TypeOK, Apply
    <2>2. /\ inflight' \subseteq inflight
          /\ pc' \in [Process -> Places] /\ \A q \in Process : pc'[q] # "idle" => pc[q] # "idle"
          /\ UNCHANGED <<asked, answered, calls, local, iterator>>
      BY <1>0, <1>5 DEF Apply, Answer, Places
    <2> QED  BY <1>0, <2>1, <2>2 DEF TypeInv, TypeOK, CallsAsked, Places
  <1>6. ASSUME NEW r \in inflight, Drop(r) PROVE TypeInv'
    <2>1. /\ inflight' \subseteq inflight
          /\ pc' \in [Process -> Places] /\ \A q \in Process : pc'[q] # "idle" => pc[q] # "idle"
          /\ UNCHANGED <<log, generation, asked, answered, calls, local, iterator>>
      BY <1>0, <1>6 DEF Drop, Answer, Places
    <2> QED  BY <1>0, <2>1 DEF TypeInv, TypeOK, CallsAsked, Places
  <1>7. ASSUME NEW p \in Process, OperateExit(p) \/ OrderedExit(p) PROVE TypeInv'
    <2>1. PICK status \in Status, error \in Status, results \in Seq(Result) :
             Returned(p, status, error, results)
      <3>1. /\ local[p].status \in Status /\ local[p].error \in Status
            /\ local[p].results \in Seq(Result) /\ <<>> \in Seq(Result)
            /\ "OK" \in Status /\ "CLIENT" \in Status /\ "PARAM" \in Status
        BY <1>0 DEF Locals, Status
      <3> QED  BY <1>7, <3>1 DEF OperateExit, OrderedExit
    <2>2. /\ pc[p] = "exit" /\ pc' = [pc EXCEPT ![p] = "idle"]
          /\ answered' = [answered EXCEPT ![Current(p)] =
                             [status |-> status, error |-> error, results |-> results]]
          /\ UNCHANGED <<log, generation, inflight, asked, calls, local, iterator>>
      BY <1>7, <2>1 DEF OperateExit, OrderedExit, Returned
    <2>3. TypeOK'
      BY <1>0, <2>2 DEF TypeOK
    <2>4. CallsAsked'
      <3>1. \A q \in Process, n \in 1 .. MaxCalls :
               n > calls[q] => answered'[<<q, n>>] = answered[<<q, n>>]
        <4>1. \A q \in Process, n \in 1 .. MaxCalls : n > calls[q] => <<q, n>> # Current(p)
          BY <1>0, CallPairs, OperateAssumption DEF Current, TypeOK
        <4> QED  BY <1>0, <2>2, <4>1, CallPairs DEF TypeOK
      <3>2. \A q \in Process, n \in 1 .. MaxCalls : calls[q] \in Nat
        BY <1>0, OperateAssumption DEF TypeOK
      <3>3. \A q \in Process : pc'[q] # "idle" => pc[q] # "idle"
        BY <1>0, <2>2
      <3>4. ASSUME NEW q \in Process, NEW n \in 1 .. MaxCalls
            PROVE  IF n <= calls[q] THEN asked[<<q, n>>].method \in Method
                   ELSE asked[<<q, n>>] = NoCall /\ answered'[<<q, n>>] = NoAnswer
        <4>1. CASE n <= calls[q]
          BY <1>0, <4>1 DEF CallsAsked
        <4>2. CASE ~(n <= calls[q])
          <5>1. n > calls[q]
            BY <3>2, <4>2
          <5> QED  BY <1>0, <3>1, <4>2, <5>1 DEF CallsAsked
        <4> QED  BY <4>1, <4>2
      <3> QED  BY <1>0, <2>2, <3>3, <3>4 DEF CallsAsked
    <2> QED  BY <2>3, <2>4 DEF TypeInv
  <1>8. CASE UNCHANGED vars
    BY <1>0, <1>8 DEF vars, TypeInv, TypeOK, CallsAsked
  <1> QED
    BY <1>1, <1>2, <1>3, <1>4, <1>5, <1>6, <1>7, <1>8 DEF Next, Walk, Finish, Inner, Sending

LEMMA OperateTypeInit == Init => TypeInv
  <1> SUFFICES ASSUME Init PROVE TypeInv
    OBVIOUS
  <1>1. PICK index \in Index : local = [p \in Process |-> Fresh(index)]
    BY DEF Init
  <1>2. local \in [Process -> Locals]
    BY <1>1, FreshType
  <1>3. NoCall \in [method : Method \cup {"none"}, list : OpLists \cup {<<>>}, opts : OptRecord]
    BY DEF NoCall, OptRecord
  <1>4. NoAnswer \in [status : Status \cup {"none"}, error : Status \cup {"none"},
                     results : Seq(Result)]
    BY DEF NoAnswer
  <1>5. TypeOK
    BY <1>2, <1>3, <1>4, OperateAssumption DEF Init, TypeOK, Locals
  <1>6. CallsAsked
    BY CallPairs DEF Init, CallsAsked
  <1> QED  BY <1>5, <1>6 DEF TypeInv

LEMMA TypesHold == Spec => []TypeInv
  BY OperateTypeInit, TypeNext, PTL DEF Spec

\* Every reachable state of the calls has the types of TypeOK.
THEOREM OperateTypeCorrect == Spec => []TypeOK
  <1>1. TypeInv => TypeOK
    BY DEF TypeInv
  <1> QED  BY <1>1, TypesHold, PTL
-----------------------------------------------------------------------------
(* The results.                                                            *)

\* The call a process is in has not returned.
Unanswered == \A p \in Process : pc[p] # "idle" => answered[Current(p)] = NoAnswer

LEMMA UnansweredNext == TypeInv /\ Unanswered /\ [Next]_vars => Unanswered'
  <1> SUFFICES ASSUME TypeInv, Unanswered, [Next]_vars, NEW q \in Process, pc'[q] # "idle"
               PROVE  answered'[Current(q)'] = NoAnswer
    BY DEF Unanswered
  <1>0. /\ pc \in [Process -> Places] /\ calls \in [Process -> 0 .. MaxCalls]
        /\ DOMAIN answered = Call
    BY DEF TypeInv, TypeOK, Places
  <1>1. ASSUME calls'[q] = calls[q], answered' = answered, pc[q] # "idle"
        PROVE  answered'[Current(q)'] = NoAnswer
    BY <1>1 DEF Unanswered, Current
  <1>2. ASSUME NEW p \in Process, NEW method \in Method, NEW list \in OpLists,
               NEW opts \in Options,
               Rejected(p, method, list, opts) \/ Begin(p, method, list, opts)
        PROVE  answered'[Current(q)'] = NoAnswer
    <2>0. MayCall(p)
      BY <1>2 DEF Rejected, Begin
    <2>1. calls[p] + 1 \in 1 .. MaxCalls /\ pc[p] = "idle"
      BY <2>0, Room DEF MayCall
    <2>2. calls' = [calls EXCEPT ![p] = calls[p] + 1]
      BY <1>2 DEF Rejected, Begin
    <2>3. CASE q = p
      <3>1. answered' = answered
        BY <1>2, <2>1, <2>3 DEF Rejected, Begin
      <3>2. Current(q)' = <<p, calls[p] + 1>>
        BY <1>0, <2>2, <2>3 DEF Current
      <3>3. ~(calls[p] + 1 <= calls[p])
        BY <1>0, OperateAssumption
      <3> QED  BY <2>1, <3>1, <3>2, <3>3 DEF TypeInv, CallsAsked
    <2>4. CASE q # p
      <3>1. calls'[q] = calls[q] /\ pc[q] # "idle"
        BY <1>0, <1>2, <2>2, <2>4 DEF Rejected, Begin
      <3>2. Current(q)' = Current(q) /\ Current(q) # <<p, calls[p] + 1>>
        BY <2>4, <3>1 DEF Current
      <3>3. Current(q) \in Call
        BY <3>1, InCall
      <3>4. answered'[Current(q)] = answered[Current(q)]
        BY <1>0, <1>2, <3>2, <3>3 DEF Rejected, Begin
      <3> QED  BY <3>1, <3>2, <3>4 DEF Unanswered
    <2> QED  BY <2>3, <2>4
  <1>3. ASSUME NEW p \in Process, Inner(p) PROVE answered'[Current(q)'] = NoAnswer
    <2>1. /\ pc[p] # "idle" /\ UNCHANGED <<answered, calls>>
          /\ \E w \in Places : pc' = [pc EXCEPT ![p] = w]
      BY <1>3, InnerEffect
    <2> QED  BY <1>0, <1>1, <2>1
  <1>4. ASSUME NEW p \in Process, Sending(p) PROVE answered'[Current(q)'] = NoAnswer
    <2>1. /\ pc[p] \in {"send", "sent"} /\ UNCHANGED <<answered, calls>>
          /\ \E w \in {"sent", "resent"} : pc' = [pc EXCEPT ![p] = w]
      BY <1>4, SendEffect
    <2> QED  BY <1>0, <1>1, <2>1
  <1>5. ASSUME NEW r \in inflight, Apply(r) \/ Drop(r) PROVE answered'[Current(q)'] = NoAnswer
    BY <1>0, <1>1, <1>5 DEF Apply, Drop, Answer
  <1>6. ASSUME NEW p \in Process, OperateExit(p) \/ OrderedExit(p)
        PROVE  answered'[Current(q)'] = NoAnswer
    <2>1. PICK a : /\ pc' = [pc EXCEPT ![p] = "idle"] /\ calls' = calls
                   /\ answered' = [answered EXCEPT ![Current(p)] = a]
      BY <1>6 DEF OperateExit, OrderedExit, Returned
    <2>2. q # p /\ pc[q] # "idle"
      BY <1>0, <2>1
    <2>3. Current(q)' = Current(q) /\ Current(q) # Current(p) /\ Current(q) \in Call
      BY <2>1, <2>2, InCall DEF Current
    <2> QED  BY <1>0, <2>1, <2>2, <2>3 DEF Unanswered
  <1>7. CASE UNCHANGED vars
    BY <1>1, <1>7 DEF vars
  <1> QED
    BY <1>2, <1>3, <1>4, <1>5, <1>6, <1>7 DEF Next, Walk, Finish, Inner, Sending

Increasing(results) ==
    \A i, j \in DOMAIN results :
        i < j => /\ results[i].key < results[j].key
                 /\ results[i].pos < results[j].pos \/ results[i].bare

\* The results of a call at place w with locals l: in order, below the static, and
\* of operations before the one the call is at.
ResultsAt(w, l, method, static) ==
    /\ Increasing(l.results)
    /\ \A i \in DOMAIN l.results :
          /\ l.results[i].key < static
          /\ w = "walk" => l.results[i].pos < l.pos
          /\ w \in {"send", "sent", "resent", "succeeded", "failed"} => l.results[i].pos < l.pos - 1
    /\ method = "operate" => l.results = <<>>

\* A double that was left bare has any index.
Below(old, new) ==
    \A i \in DOMAIN old, j \in DOMAIN new : old[i].key < new[j].key \/ new[j].bare

ResultInv ==
    /\ Unanswered
    /\ \A p \in Process :
          /\ pc[p] # "idle" => ResultsAt(pc[p], local[p], Asked(p).method, iterator[p])
          /\ \A n \in 1 .. MaxCalls :
                /\ Increasing(answered[<<p, n>>].results)
                /\ \A i \in DOMAIN answered[<<p, n>>].results :
                      answered[<<p, n>>].results[i].key < iterator[p]
                /\ \A m \in 1 .. (n - 1) :
                      Below(answered[<<p, m>>].results, answered[<<p, n>>].results)
                /\ pc[p] # "idle" => Below(answered[<<p, n>>].results, local[p].results)

\* The results R, to which the call is about to add the entry of its operation.
Before(p, R) ==
    /\ R \in Seq(Result) /\ Increasing(R)
    /\ \A i \in DOMAIN R :
          /\ R[i].key < iterator[p]
          /\ \/ R[i].pos < local[p].pos - 1
             \/ R[i].bare /\ R[i].pos = local[p].pos - 1

\* A double that is left bare keeps the results in order.
LEMMA BareAdded ==
  ASSUME TypeInv, NEW p \in Process, NEW w \in {"succeeded", "failed"}, NEW method,
         ResultsAt(w, local[p], method, iterator[p])
  PROVE  /\ Before(p, local[p].results) /\ Before(p, WithBare(p))
         /\ \A old : Below(old, local[p].results) => Below(old, WithBare(p))
  <1> DEFINE R == local[p].results
             x == BareOf(p)
             N == Len(R)
  <1>0. /\ R \in Seq(Result) /\ local[p].pos \in Nat \ {0} /\ iterator[p] \in Nat
        /\ x \in Result /\ WithBare(p) \in Seq(Result)
    BY EntryType DEF TypeInv, TypeOK
  <1>1. N \in Nat /\ DOMAIN R = 1 .. N /\ \A i \in 1 .. N : R[i] \in Result
    BY <1>0
  <1>2. /\ Increasing(R)
        /\ \A i \in 1 .. N : /\ R[i].key < iterator[p] /\ R[i].pos < local[p].pos - 1
                             /\ R[i].key \in Nat /\ R[i].pos \in Nat
    BY <1>1 DEF ResultsAt, Result
  <1>3. Before(p, R)
    BY <1>0, <1>1, <1>2 DEF Before
  <1>4. x.pos = local[p].pos - 1 /\ x.bare /\ x.key = NextIndex(R)
    BY DEF BareOf, EntryOf
  <1>5. CASE x.key = iterator[p]
    BY <1>3, <1>5 DEF WithBare
  <1>6. CASE x.key # iterator[p]
    <2>0. WithBare(p) = Append(R, x)
      BY <1>6 DEF WithBare
    <2>1. /\ DOMAIN WithBare(p) = 1 .. (N + 1) /\ WithBare(p)[N + 1] = x
          /\ \A i \in 1 .. N : WithBare(p)[i] = R[i]
      BY <1>0, <2>0
    <2>2. x.key < iterator[p] /\ \A i \in 1 .. N : R[i].key < x.key
      <3>1. CASE R = <<>>
        BY <1>0, <1>4, <1>6, <3>1 DEF NextIndex
      <3>2. CASE R # <<>>
        <4>1. N \in 1 .. N /\ x.key = R[N].key + 1
          BY <1>0, <1>1, <1>4, <3>2 DEF NextIndex
        <4>2. \A i \in 1 .. N : i = N \/ R[i].key < R[N].key
          BY <1>1, <1>2, <4>1 DEF Increasing
        <4>3. R[N].key \in Nat /\ R[N].key < iterator[p]
          BY <1>2, <4>1
        <4>4. R[N].key + 1 < iterator[p]
          BY <1>0, <1>6, <4>1, <4>3
        <4>5. ASSUME NEW i \in 1 .. N PROVE R[i].key < R[N].key + 1
          <5>1. R[i].key \in Nat
            BY <1>2
          <5> QED  BY <4>2, <4>3, <5>1
        <4> QED  BY <4>1, <4>4, <4>5
      <3> QED  BY <3>1, <3>2
    <2>3. Increasing(WithBare(p))
      <3> SUFFICES ASSUME NEW i \in 1 .. (N + 1), NEW j \in 1 .. (N + 1), i < j
                   PROVE  /\ WithBare(p)[i].key < WithBare(p)[j].key
                          /\ \/ WithBare(p)[i].pos < WithBare(p)[j].pos
                             \/ WithBare(p)[i].bare
        BY <2>1 DEF Increasing
      <3>1. i \in 1 .. N /\ WithBare(p)[i] = R[i]
        BY <1>1, <2>1
      <3>2. CASE j = N + 1
        BY <1>2, <1>4, <2>1, <2>2, <3>1, <3>2
      <3>3. CASE j # N + 1
        <4>1. j \in 1 .. N /\ WithBare(p)[j] = R[j]
          BY <1>1, <2>1, <3>3
        <4> QED  BY <1>1, <1>2, <3>1, <4>1 DEF Increasing
      <3> QED  BY <3>2, <3>3
    <2>4. ASSUME NEW i \in 1 .. (N + 1)
          PROVE  /\ WithBare(p)[i].key < iterator[p]
                 /\ \/ WithBare(p)[i].pos < local[p].pos - 1
                    \/ WithBare(p)[i].bare /\ WithBare(p)[i].pos = local[p].pos - 1
      <3>1. CASE i = N + 1
        BY <1>4, <2>1, <2>2, <3>1
      <3>2. CASE i # N + 1
        <4>1. i \in 1 .. N
          BY <1>1, <3>2
        <4> QED  BY <1>2, <2>1, <4>1
      <3> QED  BY <3>1, <3>2
    <2>5. Before(p, WithBare(p))
      BY <1>0, <2>1, <2>3, <2>4 DEF Before
    <2>6. ASSUME NEW old, Below(old, R) PROVE Below(old, WithBare(p))
      <3> SUFFICES ASSUME NEW i \in DOMAIN old, NEW j \in 1 .. (N + 1)
                   PROVE  old[i].key < WithBare(p)[j].key \/ WithBare(p)[j].bare
        BY <2>1 DEF Below
      <3>1. CASE j = N + 1
        BY <1>4, <2>1, <3>1
      <3>2. CASE j # N + 1
        <4>1. j \in 1 .. N
          BY <1>1, <3>2
        <4> QED  BY <1>1, <2>1, <2>6, <4>1 DEF Below
      <3> QED  BY <3>1, <3>2
    <2> QED  BY <1>3, <2>5, <2>6
  <1> QED  BY <1>5, <1>6

\* What a call adds to its results keeps them in order.
LEMMA EntryAdded ==
  ASSUME TypeInv, NEW p \in Process, NEW R, Before(p, R),
         NEW method, NEW l \in Locals, l.results = Append(R, EntryOf(p)),
         l.pos = local[p].pos, method # "operate", NEW w \in {"walk", "exit"}
  PROVE  /\ ResultsAt(w, l, method, iterator[p] + 1)
         /\ \A old : /\ Below(old, R)
                     /\ \A i \in DOMAIN old : old[i].key < iterator[p]
                     => Below(old, l.results)
  <1> DEFINE x == EntryOf(p)
             N == Len(R)
  <1>0. R \in Seq(Result) /\ local[p].pos \in Nat \ {0} /\ iterator[p] \in Nat
    BY DEF TypeInv, TypeOK, Before
  <1>9. x.key = iterator[p] /\ x.pos = local[p].pos - 1
    BY DEF EntryOf
  <1> HIDE DEF x
  <1>1. N \in Nat /\ DOMAIN R = 1 .. N /\ DOMAIN l.results = 1 .. (N + 1)
    BY <1>0 DEF x
  <1>2. l.results[N + 1] = x /\ \A i \in 1 .. N : l.results[i] = R[i] /\ R[i] \in Result
    BY <1>0 DEF x
  <1>3. \A i \in 1 .. N : /\ R[i].key < iterator[p]
                          /\ R[i].pos < local[p].pos - 1 \/ R[i].bare
                          /\ R[i].pos < local[p].pos
                          /\ R[i].key \in Nat /\ R[i].pos \in Nat
    BY <1>0, <1>1, <1>2 DEF Before, Result
  <1>4. Increasing(l.results)
    <2> SUFFICES ASSUME NEW i \in 1 .. (N + 1), NEW j \in 1 .. (N + 1), i < j
                 PROVE  /\ l.results[i].key < l.results[j].key
                        /\ l.results[i].pos < l.results[j].pos \/ l.results[i].bare
      BY <1>1 DEF Increasing
    <2>1. i \in 1 .. N
      BY <1>1
    <2>2. CASE j = N + 1
      BY <1>2, <1>3, <1>9, <2>1, <2>2
    <2>3. CASE j # N + 1
      <3>1. j \in 1 .. N
        BY <1>1, <2>3
      <3> QED  BY <1>1, <1>2, <2>1, <3>1 DEF Before, Increasing
    <2> QED  BY <2>2, <2>3
  <1>5. \A i \in DOMAIN l.results :
           l.results[i].key < iterator[p] + 1 /\ l.results[i].pos < l.pos
    <2> SUFFICES ASSUME NEW i \in 1 .. (N + 1)
                 PROVE  l.results[i].key < iterator[p] + 1 /\ l.results[i].pos < l.pos
      BY <1>1
    <2>1. CASE i = N + 1
      BY <1>0, <1>2, <1>9, <2>1
    <2>2. CASE i # N + 1
      <3>1. i \in 1 .. N
        BY <1>1, <2>2
      <3>2. l.results[i] = R[i]
        BY <1>2, <3>1
      <3>3. /\ R[i].key < iterator[p] /\ R[i].pos < local[p].pos
            /\ R[i].key \in Nat /\ R[i].pos \in Nat
        BY <1>3, <3>1
      <3>4. R[i].key < iterator[p] + 1
        BY <1>0, <3>3
      <3> QED  BY <3>2, <3>3, <3>4
    <2> QED  BY <2>1, <2>2
  <1>6. ASSUME NEW old, Below(old, R), \A i \in DOMAIN old : old[i].key < iterator[p]
        PROVE  Below(old, l.results)
    <2> SUFFICES ASSUME NEW i \in DOMAIN old, NEW j \in 1 .. (N + 1)
                 PROVE  old[i].key < l.results[j].key \/ l.results[j].bare
      BY <1>1 DEF Below
    <2>1. CASE j = N + 1
      BY <1>2, <1>6, <1>9, <2>1
    <2>2. CASE j # N + 1
      <3>1. j \in 1 .. N
        BY <1>1, <2>2
      <3> QED  BY <1>1, <1>2, <1>6, <3>1 DEF Below
    <2> QED  BY <2>1, <2>2
  <1> QED  BY <1>4, <1>5, <1>6 DEF ResultsAt

\* A step inside a call keeps its results in order.
LEMMA InnerResults ==
  ASSUME TypeInv, ResultInv, NEW p \in Process, Inner(p)
  PROVE  /\ ResultsAt(pc'[p], local'[p], Asked(p).method, iterator'[p])
         /\ iterator'[p] >= iterator[p]
         /\ \A n \in 1 .. MaxCalls : Below(answered[<<p, n>>].results, local'[p].results)
  <1> DEFINE l == local[p]
             method == Asked(p).method
             Goal == /\ ResultsAt(pc'[p], local'[p], method, iterator'[p])
                     /\ iterator'[p] >= iterator[p]
                     /\ \A n \in 1 .. MaxCalls :
                           Below(answered[<<p, n>>].results, local'[p].results)
  <1>0. /\ pc[p] # "idle" /\ l \in Locals /\ method \in Method /\ iterator[p] \in Nat
        /\ pc \in [Process -> Places] /\ local \in [Process -> Locals]
        /\ iterator \in [Process -> Nat]
    BY InnerEffect, InCall DEF TypeInv, TypeOK, Places, Locals
  <1>1. ResultsAt(pc[p], l, method, iterator[p])
    BY <1>0 DEF ResultInv
  <1>2. \A n \in 1 .. MaxCalls :
           /\ Below(answered[<<p, n>>].results, l.results)
           /\ \A i \in DOMAIN answered[<<p, n>>].results :
                 answered[<<p, n>>].results[i].key < iterator[p]
    BY <1>0 DEF ResultInv
  <1>3. ASSUME NEW w \in Places, pc'[p] = w, local'[p].results = l.results,
               iterator'[p] = iterator[p],
               \/ /\ w \in {"exit", "failed"}
                  /\ w = "failed" => pc[p] \in {"sent", "resent"} /\ local'[p] = l
               \/ w = "walk" /\ pc[p] = "succeeded" /\ local'[p].pos = l.pos
               \/ w \in {"walk", "send"} /\ method = "operate"
               \/ w = "send" /\ pc[p] = "walk" /\ local'[p].pos = l.pos + 1
        PROVE  Goal
    <2>1. \A i \in DOMAIN l.results : l.results[i].pos \in Nat
      <3>1. l.results \in Seq(Result)
        BY <1>0 DEF Locals
      <3>2. \A i \in DOMAIN l.results : l.results[i] \in Result
        BY <3>1
      <3> QED  BY <3>2 DEF Result
    <2>2. l.pos \in Nat \ {0}
      BY <1>0 DEF Locals
    <2>3. ResultsAt(w, local'[p], method, iterator[p])
      BY <1>1, <1>3, <2>1, <2>2 DEF ResultsAt
    <2> QED  BY <1>0, <1>2, <1>3, <2>3
  <1>4. CASE Stop(p) \/ Refuse(p) \/ BadTtl(p) \/ OperateSucceeded(p)
             \/ OperateFailed(p)
    <2>1. pc'[p] = "exit" /\ iterator'[p] = iterator[p]
      BY <1>0, <1>4
         DEF Stop, Refuse, BadTtl, OperateSucceeded, OperateFailed
    <2>2. local'[p].results = l.results
      <3>1. Refused(p).results = l.results
        BY <1>0 DEF Refused, Locals
      <3>2. CASE Refuse(p)
        BY <1>0, <3>1, <3>2 DEF Refuse
      <3>3. CASE Stop(p) \/ BadTtl(p)
        BY <1>0, <3>3 DEF Stop, BadTtl, Locals
      <3>4. CASE OperateSucceeded(p)
        BY <1>0, <3>4 DEF OperateSucceeded, Locals
      <3>5. CASE OperateFailed(p)
        BY <1>0, <3>5 DEF OperateFailed, Locals
      <3> QED  BY <1>4, <3>2, <3>3, <3>4, <3>5
    <2> QED  BY <1>3, <2>1, <2>2 DEF Places
  <1>5. CASE TakeOp(p)
    <2>1. /\ local' = [local EXCEPT ![p] = TookOp(p)] /\ pc[p] = "walk"
          /\ pc'[p] = IF Ordered(p) THEN "send" ELSE "walk"
          /\ iterator' = iterator /\ Walking(p)
      BY <1>0, <1>5 DEF TakeOp, TookOp, Walking
    <2>2. local'[p].results = l.results /\ local'[p].pos = l.pos + 1
      BY <1>0, <2>1, TookOpType
    <2>3. Ordered(p) \/ method = "operate"
      BY <1>0 DEF Ordered, Method
    <2> QED  BY <1>3, <2>1, <2>2, <2>3 DEF Places
  <1>6. CASE EndOfList(p) \/ Timeout(p)
    <2>1. /\ local' = local /\ iterator' = iterator
          /\ \/ pc'[p] = "exit"
             \/ pc'[p] = "send" /\ ~Ordered(p)
             \/ pc'[p] = "failed" /\ pc[p] \in {"sent", "resent"}
      BY <1>0, <1>6 DEF EndOfList, Timeout
    <2>2. Ordered(p) \/ method = "operate"
      BY <1>0 DEF Ordered, Method
    <2> QED  BY <1>3, <2>1, <2>2 DEF Places, Ordered
  <1>7. CASE OrderedSucceeded(p)
    <2>1. pc[p] = "succeeded" /\ pc'[p] = "walk" /\ method # "operate"
      BY <1>0, <1>7 DEF OrderedSucceeded, Ordered
    <2>2. CASE WithResult(p) \/ WithDouble(p)
      <3>1. PICK R \in {l.results, WithBare(p)} :
               /\ local'[p].results = Append(R, EntryOf(p)) /\ local'[p].pos = l.pos
               /\ iterator'[p] = iterator[p] + 1
        <4>1. CASE WithResult(p)
          BY <1>0, <4>1 DEF WithResult, Locals
        <4>2. CASE WithDouble(p)
          BY <1>0, <4>2 DEF WithDouble, WithBare, BareOf, Locals
        <4> QED  BY <2>2, <4>1, <4>2
      <3>2. local'[p] \in Locals
        BY <1>0, InnerEffect
      <3>3. Before(p, R) /\ \A old : Below(old, l.results) => Below(old, R)
        BY <1>1, <2>1, BareAdded
      <3>4. ResultsAt("walk", local'[p], method, iterator[p] + 1)
        BY <2>1, <3>1, <3>2, <3>3, EntryAdded
      <3>5. \A n \in 1 .. MaxCalls : Below(answered[<<p, n>>].results, local'[p].results)
        BY <1>2, <2>1, <3>1, <3>2, <3>3, EntryAdded
      <3> QED  BY <1>0, <2>1, <3>1, <3>4, <3>5
    <2>3. CASE ~(WithResult(p) \/ WithDouble(p))
      <3>1. /\ local' = [local EXCEPT ![p] = [local[p] EXCEPT !.error = "CLIENT", !.rec = TRUE]]
            /\ iterator' = iterator
        BY <1>0, <1>7, <2>3 DEF OrderedSucceeded
      <3>2. local'[p].results = l.results /\ local'[p].pos = l.pos
        BY <1>0, <3>1 DEF Locals
      <3> QED  BY <1>3, <2>1, <3>1, <3>2 DEF Places
    <2> QED  BY <2>2, <2>3
  <1>8. CASE OrderedFailed(p)
    <2>1. /\ pc[p] = "failed" /\ pc'[p] = "exit" /\ method # "operate"
          /\ local'[p].results = WithEntry(p) /\ local'[p].pos = l.pos
          /\ iterator'[p] = iterator[p] + 1
      BY <1>0, <1>8 DEF OrderedFailed, Ordered, WithEntry, Locals
    <2>2. local'[p] \in Locals
      BY <1>0, InnerEffect
    <2>3. Before(p, l.results) /\ local'[p].results = Append(l.results, EntryOf(p))
      BY <1>1, <2>1, BareAdded DEF WithEntry
    <2>4. ResultsAt("exit", local'[p], method, iterator[p] + 1)
      BY <2>1, <2>2, <2>3, EntryAdded
    <2>5. \A n \in 1 .. MaxCalls : Below(answered[<<p, n>>].results, local'[p].results)
      BY <1>2, <2>1, <2>2, <2>3, EntryAdded
    <2> QED  BY <1>0, <2>1, <2>4, <2>5
  <1> QED  BY <1>4, <1>5, <1>6, <1>7, <1>8 DEF Inner

\* What ResultInv says of one process.
ResultsOf(p) ==
    /\ pc[p] # "idle" => ResultsAt(pc[p], local[p], Asked(p).method, iterator[p])
    /\ \A n \in 1 .. MaxCalls :
          /\ Increasing(answered[<<p, n>>].results)
          /\ \A i \in DOMAIN answered[<<p, n>>].results :
                answered[<<p, n>>].results[i].key < iterator[p]
          /\ \A m \in 1 .. (n - 1) :
                Below(answered[<<p, m>>].results, answered[<<p, n>>].results)
          /\ pc[p] # "idle" => Below(answered[<<p, n>>].results, local[p].results)

LEMMA ResultsFrame ==
  ASSUME ResultInv, NEW q \in Process, iterator'[q] = iterator[q],
         \A n \in 1 .. MaxCalls : answered'[<<q, n>>].results = answered[<<q, n>>].results,
         pc'[q] # "idle" =>
            /\ local'[q] = local[q] /\ Asked(q)'.method = Asked(q).method /\ pc[q] # "idle"
            /\ \/ pc'[q] = pc[q]
               \/ pc[q] \in {"send", "sent"} /\ pc'[q] \in {"sent", "resent"}
               \/ pc[q] \in {"sent", "resent"} /\ pc'[q] \in {"succeeded", "failed"}
  PROVE  ResultsOf(q)'
  <1>1. pc'[q] # "idle" => ResultsAt(pc'[q], local'[q], Asked(q)'.method, iterator'[q])
    BY DEF ResultInv, ResultsAt
  <1>2. ASSUME NEW n \in 1 .. MaxCalls
        PROVE  /\ Increasing(answered'[<<q, n>>].results)
               /\ \A i \in DOMAIN answered'[<<q, n>>].results :
                     answered'[<<q, n>>].results[i].key < iterator'[q]
               /\ \A m \in 1 .. (n - 1) :
                     Below(answered'[<<q, m>>].results, answered'[<<q, n>>].results)
               /\ pc'[q] # "idle" => Below(answered'[<<q, n>>].results, local'[q].results)
    <2>1. \A m \in 1 .. (n - 1) : m \in 1 .. MaxCalls
      BY OperateAssumption
    <2> QED  BY <2>1 DEF ResultInv
  <1> QED  BY <1>1, <1>2 DEF ResultsOf

LEMMA ResultsParts == ResultInv <=> Unanswered /\ \A p \in Process : ResultsOf(p)
  BY DEF ResultInv, ResultsOf

LEMMA ResultNext == TypeInv /\ ResultInv /\ [Next]_vars => ResultInv'
  <1> SUFFICES ASSUME TypeInv, ResultInv, [Next]_vars, NEW q \in Process PROVE ResultsOf(q)'
    BY UnansweredNext, ResultsParts DEF ResultInv, ResultsOf
  <1>0. /\ pc \in [Process -> Places] /\ calls \in [Process -> 0 .. MaxCalls]
        /\ local \in [Process -> Locals] /\ DOMAIN answered = Call /\ DOMAIN asked = Call
        /\ iterator \in [Process -> Nat]
    BY DEF TypeInv, TypeOK, Places, Locals
  <1>1. ASSUME NEW p \in Process, NEW method \in Method, NEW list \in OpLists,
               NEW opts \in Options,
               Rejected(p, method, list, opts) \/ Begin(p, method, list, opts)
        PROVE  ResultsOf(q)'
    <2>0. /\ MayCall(p) /\ pc[p] = "idle" /\ iterator' = iterator
          /\ calls' = [calls EXCEPT ![p] = calls[p] + 1]
          /\ asked' = [asked EXCEPT ![<<p, calls[p] + 1>>] =
                          [method |-> method, list |-> list, opts |-> opts]]
      BY <1>1 DEF Rejected, Begin, MayCall
    <2>1. calls[p] + 1 \in 1 .. MaxCalls /\ ~(calls[p] + 1 <= calls[p])
      BY <1>0, <2>0, Room, OperateAssumption
    <2>2. answered[<<p, calls[p] + 1>>].results = <<>>
      BY <2>1 DEF TypeInv, CallsAsked, NoAnswer
    <2>3. \A n \in 1 .. MaxCalls : answered'[<<q, n>>].results = answered[<<q, n>>].results
      <3> SUFFICES ASSUME NEW n \in 1 .. MaxCalls
                   PROVE  answered'[<<q, n>>].results = answered[<<q, n>>].results
        OBVIOUS
      <3> DEFINE c == <<p, calls[p] + 1>>
      <3>0. \/ answered' = answered
            \/ answered' = [answered EXCEPT ![c] =
                              [status |-> "PARAM", error |-> "PARAM", results |-> <<>>]]
        BY <1>1 DEF Rejected, Begin
      <3>1. CASE <<q, n>> = c
        <4>1. <<q, n>> \in Call /\ answered[<<q, n>>].results = <<>>
          BY <2>2, <3>1, CallPairs
        <4>2. \/ answered' = answered
              \/ answered' = [answered EXCEPT ![<<q, n>>] =
                                [status |-> "PARAM", error |-> "PARAM", results |-> <<>>]]
          BY <3>0, <3>1
        <4>3. ASSUME NEW x, answered' = [answered EXCEPT ![<<q, n>>] = x]
              PROVE  answered'[<<q, n>>] = x
          BY <1>0, <4>1, <4>3
        <4>4. [status |-> "PARAM", error |-> "PARAM", results |-> <<>>].results = <<>>
          OBVIOUS
        <4> QED  BY <4>1, <4>2, <4>3, <4>4
      <3>2. CASE <<q, n>> # c
        <4>1. <<q, n>> \in Call
          BY CallPairs
        <4>2. ASSUME NEW x, answered' = [answered EXCEPT ![c] = x]
              PROVE  answered'[<<q, n>>] = answered[<<q, n>>]
          BY <1>0, <3>2, <4>1, <4>2
        <4> QED  BY <3>0, <4>2
      <3> QED  BY <3>1, <3>2
    <2>4. CASE q # p \/ pc'[q] = "idle"
      <3>1. pc'[q] # "idle" =>
               /\ local'[q] = local[q] /\ pc'[q] = pc[q] /\ calls'[q] = calls[q] /\ q # p
        BY <1>0, <1>1, <2>0, <2>4 DEF Rejected, Begin
      <3>2. pc'[q] # "idle" => Asked(q)' = Asked(q)
        <4> SUFFICES ASSUME pc'[q] # "idle" PROVE Asked(q)' = Asked(q)
          OBVIOUS
        <4>1. Current(q) \in Call /\ Current(q)' = Current(q) /\ Current(q) # <<p, calls[p] + 1>>
          BY <3>1, InCall DEF Current
        <4> QED  BY <1>0, <2>0, <4>1 DEF Asked
      <3> QED  BY <2>0, <2>3, <3>1, <3>2, ResultsFrame
    <2>5. CASE q = p /\ pc'[q] # "idle"
      <3>1. Begin(p, method, list, opts)
        BY <1>1, <2>0, <2>5 DEF Rejected
      <3>2. local'[q].results = <<>> /\ pc'[q] \in {"walk", "exit"}
        <4>1. PICK index \in Index : local' = [local EXCEPT ![p] =
                CASE opts.bad = "policy" ->
                         [Fresh(index) EXCEPT !.status = "PARAM", !.error = "PARAM"]
                  [] opts.bad = "gen" /\ method = "operate" ->
                         [Fresh(index) EXCEPT !.error = "PARAM"]
                  [] OTHER -> Fresh(index)]
          BY <3>1 DEF Begin
        <4>2. local'[q].results = <<>>
          BY <1>0, <2>5, <4>1 DEF Fresh
        <4>3. pc'[q] \in {"walk", "exit"}
          BY <1>0, <2>5, <3>1 DEF Begin
        <4> QED  BY <4>2, <4>3
      <3>3. ResultsAt(pc'[q], local'[q], Asked(q)'.method, iterator'[q])
        BY <3>2 DEF ResultsAt, Increasing
      <3>4. \A old : Below(old, local'[q].results)
        BY <3>2 DEF Below
      <3>5. \A n \in 1 .. MaxCalls : \A m \in 1 .. (n - 1) : m \in 1 .. MaxCalls
        BY OperateAssumption
      <3>6. iterator'[q] = iterator[q]
        BY <2>0
      <3> QED  BY <2>3, <3>3, <3>4, <3>5, <3>6 DEF ResultInv, ResultsOf
    <2> QED  BY <2>4, <2>5
  <1>2. ASSUME NEW p \in Process, Inner(p) PROVE ResultsOf(q)'
    <2>1. /\ pc[p] # "idle" /\ UNCHANGED <<answered, calls, asked>>
          /\ \E w \in Places, l \in Locals :
                pc' = [pc EXCEPT ![p] = w] /\ local' = [local EXCEPT ![p] = l]
          /\ iterator' \in [Process -> Nat]
          /\ (q # p => iterator'[q] = iterator[q])
      BY <1>2, InnerEffect
    <2>2. Asked(q)' = Asked(q)
      BY <2>1 DEF Asked, Current
    <2>3. CASE q # p
      <3>1. pc'[q] = pc[q] /\ local'[q] = local[q]
        BY <1>0, <2>1, <2>3
      <3> QED  BY <2>1, <2>2, <2>3, <3>1, ResultsFrame
    <2>4. CASE q = p
      <3>1. /\ ResultsAt(pc'[q], local'[q], Asked(q)'.method, iterator'[q])
            /\ iterator'[q] >= iterator[q]
            /\ \A n \in 1 .. MaxCalls : Below(answered[<<q, n>>].results, local'[q].results)
        BY <1>2, <2>2, <2>4, InnerResults
      <3>2. ASSUME NEW n \in 1 .. MaxCalls
            PROVE  \A i \in DOMAIN answered[<<q, n>>].results :
                      answered[<<q, n>>].results[i].key < iterator'[q]
        <4>1. <<q, n>> \in Call
          BY CallPairs
        <4>2. answered[<<q, n>>].results \in Seq(Result)
          BY <4>1 DEF TypeInv, TypeOK
        <4>3. \A i \in DOMAIN answered[<<q, n>>].results :
                 answered[<<q, n>>].results[i] \in Result
          BY <4>2
        <4>4. \A i \in DOMAIN answered[<<q, n>>].results :
                 /\ answered[<<q, n>>].results[i].key \in Nat
                 /\ answered[<<q, n>>].results[i].key < iterator[q]
          BY <4>3 DEF Result, ResultInv
        <4>5. iterator[q] \in Nat /\ iterator'[q] \in Nat
          BY <1>0, <2>1
        <4> QED  BY <3>1, <4>4, <4>5
      <3> QED  BY <2>1, <3>1, <3>2 DEF ResultInv, ResultsOf
    <2> QED  BY <2>3, <2>4
  <1>3. ASSUME NEW p \in Process, Sending(p) PROVE ResultsOf(q)'
    <2>1. /\ pc[p] \in {"send", "sent"}
          /\ \E w \in {"sent", "resent"} : pc' = [pc EXCEPT ![p] = w]
          /\ UNCHANGED <<asked, answered, calls, local, iterator>>
      BY <1>3, SendEffect
    <2>2. Asked(q)' = Asked(q)
      BY <2>1 DEF Asked, Current
    <2>3. pc'[q] = pc[q] \/ (pc[q] \in {"send", "sent"} /\ pc'[q] \in {"sent", "resent"})
      BY <1>0, <2>1
    <2> QED  BY <2>1, <2>2, <2>3, ResultsFrame
  <1>4. ASSUME NEW r \in inflight, Apply(r) \/ Drop(r) PROVE ResultsOf(q)'
    <2>1. /\ UNCHANGED <<asked, answered, calls, local, iterator>>
          /\ \/ pc'[q] = pc[q]
             \/ pc[q] \in {"sent", "resent"} /\ pc'[q] \in {"succeeded", "failed"}
      BY <1>0, <1>4 DEF Apply, Drop, Answer
    <2>2. Asked(q)' = Asked(q)
      BY <2>1 DEF Asked, Current
    <2> QED  BY <2>1, <2>2, ResultsFrame
  <1>5. ASSUME NEW p \in Process, OperateExit(p) \/ OrderedExit(p) PROVE ResultsOf(q)'
    <2>1. PICK a : /\ pc[p] = "exit" /\ pc' = [pc EXCEPT ![p] = "idle"]
                   /\ UNCHANGED <<asked, calls, local, iterator>>
                   /\ answered' = [answered EXCEPT ![Current(p)] = a]
                   /\ a.results \in {<<>>, local[p].results}
      <3>1. PICK status, error, results :
               /\ pc[p] = "exit" /\ Returned(p, status, error, results)
               /\ results \in {<<>>, local[p].results}
        BY <1>5 DEF OperateExit, OrderedExit
      <3> DEFINE a == [status |-> status, error |-> error, results |-> results]
      <3>2. /\ pc' = [pc EXCEPT ![p] = "idle"]
            /\ UNCHANGED <<asked, calls, local, iterator>>
            /\ answered' = [answered EXCEPT ![Current(p)] = a]
        BY <3>1 DEF Returned
      <3>3. a.results = results
        OBVIOUS
      <3> HIDE DEF a
      <3> QED  BY <3>1, <3>2, <3>3
    <2>2. Asked(q)' = Asked(q)
      BY <2>1 DEF Asked, Current
    <2>3. pc[p] # "idle" /\ calls[p] \in 1 .. MaxCalls /\ Current(p) \in Call
      BY <2>1, InCall
    <2>4. \A n \in 1 .. MaxCalls : <<q, n>> # Current(p) =>
             answered'[<<q, n>>] = answered[<<q, n>>]
      BY <1>0, <2>1, CallPairs
    <2>5. CASE q # p
      <3>1. \A n \in 1 .. MaxCalls : answered'[<<q, n>>] = answered[<<q, n>>]
        BY <2>4, <2>5 DEF Current
      <3> QED  BY <1>0, <2>1, <2>2, <2>5, <3>1, ResultsFrame
    <2>6. CASE q = p
      <3> DEFINE k == calls[p]
      <3>0. pc'[q] = "idle" /\ iterator'[q] = iterator[q]
        BY <1>0, <2>1, <2>6
      <3>1. answered'[<<q, k>>].results \in {<<>>, local[p].results}
        BY <1>0, <2>1, <2>3, <2>6 DEF Current
      <3>2. \A n \in 1 .. MaxCalls : n # k => answered'[<<q, n>>] = answered[<<q, n>>]
        BY <2>4, <2>6, CallPairs DEF Current
      <3>3. \A n \in 1 .. MaxCalls : n > k => answered[<<q, n>>].results = <<>>
        <4>1. \A n \in 1 .. MaxCalls : n > k => ~(n <= k)
          BY <2>3, OperateAssumption
        <4> QED  BY <2>6, <4>1 DEF TypeInv, CallsAsked, NoAnswer
      <3>4. /\ Increasing(local[p].results)
            /\ \A i \in DOMAIN local[p].results : local[p].results[i].key < iterator[q]
            /\ \A n \in 1 .. MaxCalls : Below(answered[<<q, n>>].results, local[p].results)
        BY <2>3, <2>6 DEF ResultInv, ResultsAt
      <3>5. Increasing(<<>>) /\ \A old : Below(old, <<>>) /\ Below(<<>>, old)
        BY DEF Increasing, Below
      <3>6. ASSUME NEW n \in 1 .. MaxCalls
            PROVE  /\ Increasing(answered'[<<q, n>>].results)
                   /\ \A i \in DOMAIN answered'[<<q, n>>].results :
                         answered'[<<q, n>>].results[i].key < iterator[q]
        <4>1. CASE n = k
          BY <3>1, <3>4, <3>5, <4>1
        <4>2. CASE n # k
          BY <3>2, <4>2 DEF ResultInv
        <4> QED  BY <4>1, <4>2
      <3>7. ASSUME NEW n \in 1 .. MaxCalls, NEW m \in 1 .. (n - 1)
            PROVE  Below(answered'[<<q, m>>].results, answered'[<<q, n>>].results)
        <4>0. m \in 1 .. MaxCalls /\ m < n
          BY OperateAssumption
        <4>1. CASE n = k
          BY <3>1, <3>2, <3>4, <3>5, <4>0, <4>1
        <4>2. CASE m = k
          BY <2>3, <3>2, <3>3, <3>5, <4>0, <4>2
        <4>3. CASE n # k /\ m # k
          BY <3>2, <4>0, <4>3 DEF ResultInv
        <4> QED  BY <4>1, <4>2, <4>3
      <3> QED  BY <3>0, <3>6, <3>7 DEF ResultsOf
    <2> QED  BY <2>5, <2>6
  <1>6. CASE UNCHANGED vars
    <2>1. Asked(q)' = Asked(q)
      BY <1>6 DEF vars, Asked, Current
    <2> QED  BY <1>6, <2>1, ResultsFrame DEF vars
  <1> QED
    BY <1>1, <1>2, <1>3, <1>4, <1>5, <1>6 DEF Next, Walk, Finish, Inner, Sending

LEMMA ResultInit == Init => ResultInv
  <1> SUFFICES ASSUME Init PROVE ResultInv
    OBVIOUS
  <1>1. \A p \in Process : pc[p] = "idle"
    BY DEF Init
  <1>2. \A p \in Process, n \in 1 .. MaxCalls : answered[<<p, n>>].results = <<>>
    BY CallPairs DEF Init, NoAnswer
  <1>3. \A n \in 1 .. MaxCalls : \A m \in 1 .. (n - 1) : m \in 1 .. MaxCalls
    BY OperateAssumption
  <1> QED  BY <1>1, <1>2, <1>3 DEF ResultInv, Unanswered, Increasing, Below

LEMMA ResultHolds == Spec => [](TypeInv /\ ResultInv)
  BY TypesHold, ResultInit, ResultNext, PTL DEF Spec

\* The entries that operateOrdered() returns keep the order of its operations, and
\* an index once given to an entry is never given again to one, whatever failed.
THEOREM ResultsKeepOrder == Spec => []ResultsInOrder
  <1>1. ResultInv => ResultsInOrder
    <2>1. \A n \in 1 .. MaxCalls : \A m \in 1 .. (n - 1) : m \in 1 .. MaxCalls
      BY OperateAssumption
    <2> QED  BY <2>1 DEF ResultInv, ResultsInOrder, Increasing, Below
  <1> QED  BY <1>1, ResultHolds, PTL
-----------------------------------------------------------------------------
(* What is applied.  The parts of the state are parameters: a step that     *)
(* leaves them alone leaves what is said of them.                           *)

AppliedIn(lg, c) == {i \in DOMAIN lg : lg[i].call = c}

\* The places in its list of the operations of call c that are in lg.
DonePos(lg, c) == {lg[i].pos : i \in AppliedIn(lg, c)}

\* What a call that is asked as a has to do.
WorkOf(a) == {k \in DOMAIN a.list : Adds(a.list[k])}

\* Of call c, K was applied, and nothing else but by a retry.
Upto(lg, c, a, K) == K \subseteq DonePos(lg, c) /\ (a.opts.retry \/ DonePos(lg, c) = K)

\* No request of call c is on its way; none but by a retry.
Quiet(fl, c) == \A s \in fl : s.call # c
Alone(fl, c, a) == a.opts.retry \/ Quiet(fl, c)

\* What is applied before the walk takes the element n, before and after the request
\* that is sent at n, and that request.
Walked(a, n)    == IF a.method = "operate" THEN {} ELSE {k \in WorkOf(a) : k < n}
Earlier(a, n)   == Walked(a, n - 1)
Later(a, n)     == IF a.method = "operate" THEN WorkOf(a) ELSE Walked(a, n)
InPortion(a, n) == IF a.method = "operate" THEN WorkOf(a) ELSE {k \in WorkOf(a) : k = n - 1}

\* Operations of call c, those of K in order.
OfCall(c, ops, K) ==
    /\ \A i \in 1 .. Len(ops) : ops[i].call = c
    /\ \A i, j \in 1 .. Len(ops) : i < j => ops[i].pos < ops[j].pos
    /\ {ops[i].pos : i \in 1 .. Len(ops)} = K

\* r is a request of a call that was asked as a: the whole list, or one operation.
Proper(a, r) ==
    /\ a.method \in Method /\ r.pos \in Nat \ {0} /\ r.gen = a.opts.gen
    /\ OfCall(r.call, r.ops, InPortion(a, r.pos))
    /\ a.method # "operate" => Len(r.ops) <= 1

\* A process at place w of call c, asked as a, with locals l.
At(w, l, c, a, lg, fl) ==
    /\ w = "walk" =>
          /\ Alone(fl, c, a) /\ Upto(lg, c, a, Walked(a, l.pos))
          /\ a.method = "operate" => OfCall(c, l.ops, {k \in WorkOf(a) : k < l.pos})
    /\ w \in {"send", "sent", "resent", "succeeded"} =>
          /\ Proper(a, RequestOf(c, a, l, 1)) /\ Earlier(a, l.pos) \subseteq DonePos(lg, c)
    /\ w = "send" => Alone(fl, c, a) /\ Upto(lg, c, a, Earlier(a, l.pos))
    /\ w = "succeeded" => Alone(fl, c, a) /\ Upto(lg, c, a, Later(a, l.pos))
    /\ w = "exit" /\ a.method = "operate" /\ l.status = "OK" /\ l.error = "OK" =>
          Alone(fl, c, a) /\ Upto(lg, c, a, WorkOf(a))

\* The log in terms of a call: a beginning of its list, in order if nothing is sent
\* again, as a whole when the call is operate, and writing once when it is
\* operateOrdered with a generation.
InLog(c, a, lg, gen) ==
    /\ ~a.opts.retry => \A i, j \in AppliedIn(lg, c) : i < j => lg[i].pos < lg[j].pos
    /\ \A i \in AppliedIn(lg, c), k \in WorkOf(a) : k < lg[i].pos => k \in DonePos(lg, c)
    /\ DonePos(lg, c) \subseteq WorkOf(a)
    /\ a.method = "operate" /\ AppliedIn(lg, c) # {} =>
          /\ DonePos(lg, c) = WorkOf(a)
          /\ ~a.opts.retry => \A i, j \in AppliedIn(lg, c) : i .. j \subseteq AppliedIn(lg, c)
    /\ a.method = "operateOrdered" /\ a.opts.gen # None =>
          /\ \A i \in AppliedIn(lg, c) : lg[i].write => a.opts.gen < gen
          /\ \A i, j \in AppliedIn(lg, c) : lg[i].write /\ lg[j].write => i = j

\* A call that was not made has done nothing; one of operate() that returned without
\* an error is done.
Settled(c, a, answer, made, lg, fl) ==
    /\ ~made => Quiet(fl, c) /\ DonePos(lg, c) = {}
    /\ a.method = "operate" /\ answer.status = "OK" /\ answer.error = "OK" =>
          Alone(fl, c, a) /\ Upto(lg, c, a, WorkOf(a))

OnItsWay(r, a, lg, fl) ==
    /\ Proper(a, r) /\ Upto(lg, r.call, a, Earlier(a, r.pos))
    /\ ~a.opts.retry => \A s \in fl : s.call = r.call => s = r

LogInv ==
    /\ Unanswered
    /\ \A p \in Process : pc[p] # "idle" =>
          At(pc[p], local[p], Current(p), Asked(p), log, inflight)
    /\ \A c \in Call :
          /\ InLog(c, asked[c], log, generation)
          /\ Settled(c, asked[c], answered[c], c[2] <= calls[c[1]], log, inflight)
    /\ \A r \in inflight : OnItsWay(r, asked[r.call], log, inflight)

LEMMA ListType == TypeInv => \A c \in Call : asked[c].list \in Seq(OpRecord)
  <1>1. OpLists \subseteq Seq(OpRecord) /\ <<>> \in Seq(OpRecord)
    BY OperateAssumption
  <1> QED  BY <1>1 DEF TypeInv, TypeOK

LEMMA WorkType ==
  ASSUME NEW a, a.list \in Seq(OpRecord)
  PROVE  /\ WorkOf(a) \subseteq Nat \ {0} /\ Len(a.list) \in Nat
         /\ \A k : k \in WorkOf(a) <=> k \in 1 .. Len(a.list) /\ Adds(a.list[k])
  BY DEF WorkOf

\* A request, and what comes before and after it.
LEMMA PortionOf ==
  ASSUME NEW a, a.list \in Seq(OpRecord), NEW n \in Nat \ {0}
  PROVE  /\ Later(a, n) = Earlier(a, n) \cup InPortion(a, n)
         /\ InPortion(a, n) \subseteq WorkOf(a) /\ Earlier(a, n) \subseteq WorkOf(a)
         /\ \A e \in Earlier(a, n), k \in InPortion(a, n) : e < k
         /\ \A k \in InPortion(a, n), e \in WorkOf(a) :
               e < k => e \in Earlier(a, n) \cup InPortion(a, n)
  <1>1. WorkOf(a) \subseteq Nat \ {0}
    BY WorkType
  <1>2. CASE a.method = "operate"
    BY <1>2 DEF Later, Earlier, Walked, InPortion
  <1>3. CASE a.method # "operate"
    <2>1. /\ Earlier(a, n) = {k \in WorkOf(a) : k < n - 1}
          /\ InPortion(a, n) = {k \in WorkOf(a) : k = n - 1}
          /\ Later(a, n) = {k \in WorkOf(a) : k < n}
      BY <1>3 DEF Later, Earlier, Walked, InPortion
    <2>2. \A k \in WorkOf(a) : k < n <=> k < n - 1 \/ k = n - 1
      BY <1>1
    <2>3. Later(a, n) = Earlier(a, n) \cup InPortion(a, n)
      BY <2>1, <2>2
    <2>4. \A e \in Earlier(a, n), k \in InPortion(a, n) : e < k
      BY <2>1
    <2>5. \A k \in InPortion(a, n), e \in WorkOf(a) :
             e < k => e \in Earlier(a, n) \cup InPortion(a, n)
      BY <2>1
    <2> QED  BY <2>1, <2>3, <2>4, <2>5
  <1> QED  BY <1>2, <1>3

\* Another operation at the end.
LEMMA OfCallMore ==
  ASSUME NEW c, NEW ops \in Seq(Entry), NEW K, OfCall(c, ops, K),
         NEW x \in Entry, x.call = c, \A k \in K : k < x.pos
  PROVE  OfCall(c, ops \o <<x>>, K \cup {x.pos})
  <1> DEFINE N == Len(ops)
             t == ops \o <<x>>
  <1>1. /\ N \in Nat /\ Len(t) = N + 1 /\ t[N + 1] = x
        /\ \A i \in 1 .. N : t[i] = ops[i]
    OBVIOUS
  <1>2. /\ \A i \in 1 .. N : ops[i].call = c
        /\ \A i, j \in 1 .. N : i < j => ops[i].pos < ops[j].pos
        /\ {ops[i].pos : i \in 1 .. N} = K
    BY DEF OfCall
  <1> HIDE DEF t, N
  <1>3. \A i \in 1 .. (N + 1) : i \in 1 .. N \/ i = N + 1
    BY <1>1
  <1>4. N + 1 \in 1 .. (N + 1) /\ 1 .. N \subseteq 1 .. (N + 1)
    BY <1>1
  <1>5. \A i \in 1 .. (N + 1) : t[i].call = c
    BY <1>1, <1>2, <1>3
  <1>6. \A i, j \in 1 .. (N + 1) : i < j => t[i].pos < t[j].pos
    <2> SUFFICES ASSUME NEW i \in 1 .. (N + 1), NEW j \in 1 .. (N + 1), i < j
                 PROVE  t[i].pos < t[j].pos
      OBVIOUS
    <2>1. i \in 1 .. N
      BY <1>1
    <2>2. CASE j = N + 1
      <3>1. ops[i].pos \in K
        BY <1>2, <2>1
      <3> QED  BY <1>1, <2>1, <2>2, <3>1
    <2>3. CASE j # N + 1
      BY <1>1, <1>2, <1>3, <2>1, <2>3
    <2> QED  BY <2>2, <2>3
  <1>7. {t[i].pos : i \in 1 .. (N + 1)} = K \cup {x.pos}
    BY <1>1, <1>2, <1>3, <1>4
  <1> QED  BY <1>1, <1>5, <1>6, <1>7 DEF OfCall, t

LEMMA OfCallOne ==
  ASSUME NEW c, NEW x \in Entry, x.call = c PROVE OfCall(c, <<x>>, {x.pos})
  <1>1. Len(<<x>>) = 1 /\ <<x>>[1] = x /\ \A i \in 1 .. 1 : i = 1
    OBVIOUS
  <1> QED  BY <1>1 DEF OfCall

LEMMA OfCallNone == \A c : OfCall(c, <<>>, {})
  BY DEF OfCall

\* The log after a request: the rest of it, and the operations of the request.
LEMMA AppendLog ==
  ASSUME NEW lg \in Seq(Entry), NEW ops \in Seq(Entry), NEW c,
         \A i \in 1 .. Len(ops) : ops[i].call = c
  PROVE  /\ DOMAIN lg = 1 .. Len(lg) /\ Len(lg) \in Nat /\ Len(ops) \in Nat
         /\ DOMAIN (lg \o ops) = 1 .. (Len(lg) + Len(ops))
         /\ \A i \in 1 .. Len(lg) : (lg \o ops)[i] = lg[i]
         /\ \A i \in 1 .. Len(ops) : (lg \o ops)[Len(lg) + i] = ops[i]
         /\ AppliedIn(lg \o ops, c) = AppliedIn(lg, c) \cup ((Len(lg) + 1) .. (Len(lg) + Len(ops)))
         /\ \A d : d # c => AppliedIn(lg \o ops, d) = AppliedIn(lg, d)
  <1> DEFINE new == lg \o ops
             N == Len(lg)
             K == Len(ops)
  <1>1. DOMAIN lg = 1 .. N /\ N \in Nat /\ K \in Nat
    OBVIOUS
  <1>2. new \in Seq(Entry) /\ Len(new) = N + K /\ DOMAIN new = 1 .. (N + K)
    OBVIOUS
  <1>3. \A i \in 1 .. N : new[i] = lg[i]
    OBVIOUS
  <1>4. \A i \in 1 .. K : new[N + i] = ops[i]
    OBVIOUS
  <1> HIDE DEF new, N, K
  <1>5. \A i \in (N + 1) .. (N + K) : i - N \in 1 .. K /\ new[i] = ops[i - N]
    <2> SUFFICES ASSUME NEW i \in (N + 1) .. (N + K)
                 PROVE  i - N \in 1 .. K /\ new[i] = ops[i - N]
      OBVIOUS
    <2>1. i - N \in 1 .. K /\ N + (i - N) = i
      BY <1>1
    <2> QED  BY <1>4, <2>1
  <1>6. \A i \in (N + 1) .. (N + K) : new[i].call = c
    BY <1>5 DEF K
  <1>7. \A i \in 1 .. (N + K) : i \in 1 .. N \/ i \in (N + 1) .. (N + K)
    BY <1>1
  <1>8. \A i \in 1 .. N : i \in 1 .. (N + K)
    BY <1>1
  <1>9. \A i \in (N + 1) .. (N + K) : i \in 1 .. (N + K) /\ i \notin 1 .. N
    BY <1>1
  <1>10. AppliedIn(new, c) = AppliedIn(lg, c) \cup ((N + 1) .. (N + K))
    BY <1>1, <1>2, <1>3, <1>6, <1>7, <1>8, <1>9 DEF AppliedIn
  <1>11. \A d : d # c => AppliedIn(new, d) = AppliedIn(lg, d)
    BY <1>1, <1>2, <1>3, <1>6, <1>7, <1>8 DEF AppliedIn
  <1> QED  BY <1>1, <1>2, <1>3, <1>4, <1>10, <1>11 DEF new, N, K

\* What is said of a call that a request is not of.
LEMMA OtherDone ==
  ASSUME NEW lg \in Seq(Entry), NEW r, r.ops \in Seq(Entry),
         \A i \in 1 .. Len(r.ops) : r.ops[i].call = r.call
  PROVE  \A d : d # r.call => DonePos(lg \o r.ops, d) = DonePos(lg, d)
  <1> DEFINE new == lg \o r.ops
  <1> SUFFICES ASSUME NEW d, d # r.call PROVE DonePos(new, d) = DonePos(lg, d)
    OBVIOUS
  <1>1. /\ AppliedIn(new, d) = AppliedIn(lg, d) /\ AppliedIn(lg, d) \subseteq 1 .. Len(lg)
        /\ \A i \in 1 .. Len(lg) : new[i] = lg[i]
    BY AppendLog DEF AppliedIn
  <1> HIDE DEF new
  <1> QED  BY <1>1 DEF DonePos

LEMMA OtherCall ==
  ASSUME NEW lg \in Seq(Entry), NEW ops \in Seq(Entry), NEW c, NEW d, d # c,
         \A i \in 1 .. Len(ops) : ops[i].call = c
  PROVE  \A a, gen, gen2 :
            /\ InLog(d, a, lg, gen)
            /\ a.opts.gen # None => (a.opts.gen < gen => a.opts.gen < gen2)
            => InLog(d, a, lg \o ops, gen2)
  <1> DEFINE new == lg \o ops
  <1>1. /\ AppliedIn(new, d) = AppliedIn(lg, d) /\ AppliedIn(lg, d) \subseteq 1 .. Len(lg)
        /\ \A i \in 1 .. Len(lg) : new[i] = lg[i]
    BY AppendLog DEF AppliedIn
  <1>2. \A i \in AppliedIn(lg, d) : new[i] = lg[i]
    BY <1>1
  <1> HIDE DEF new
  <1>4. DonePos(new, d) = DonePos(lg, d)
    BY <1>1, <1>2 DEF DonePos
  <1>5. ASSUME NEW a, NEW gen, NEW gen2, InLog(d, a, lg, gen),
               a.opts.gen # None => (a.opts.gen < gen => a.opts.gen < gen2)
        PROVE  InLog(d, a, new, gen2)
    <2>1. ~a.opts.retry => \A i, j \in AppliedIn(new, d) : i < j => new[i].pos < new[j].pos
      BY <1>1, <1>2, <1>5 DEF InLog
    <2>2. /\ \A i \in AppliedIn(new, d), k \in WorkOf(a) : k < new[i].pos => k \in DonePos(new, d)
          /\ DonePos(new, d) \subseteq WorkOf(a)
      BY <1>1, <1>2, <1>4, <1>5 DEF InLog
    <2>3. a.method = "operate" /\ AppliedIn(new, d) # {} =>
             /\ DonePos(new, d) = WorkOf(a)
             /\ ~a.opts.retry =>
                   \A i, j \in AppliedIn(new, d) : i .. j \subseteq AppliedIn(new, d)
      BY <1>1, <1>4, <1>5 DEF InLog
    <2>4. a.method = "operateOrdered" /\ a.opts.gen # None =>
             /\ \A i \in AppliedIn(new, d) : new[i].write => a.opts.gen < gen2
             /\ \A i, j \in AppliedIn(new, d) : new[i].write /\ new[j].write => i = j
      BY <1>1, <1>2, <1>5 DEF InLog
    <2> QED  BY <2>1, <2>2, <2>3, <2>4 DEF InLog
  <1> QED  BY <1>5 DEF new

\* The request of a call, applied: its operations follow those before them.
LEMMA OwnCall ==
  ASSUME NEW lg \in Seq(Entry), NEW r, r.ops \in Seq(Entry), NEW a, Proper(a, r),
         Upto(lg, r.call, a, Earlier(a, r.pos)), NEW gen \in Nat, NEW gen2 \in Nat,
         InLog(r.call, a, lg, gen), a.list \in Seq(OpRecord),
         IsWrite(r) /\ r.gen # None => r.gen = gen,
         gen2 = IF IsWrite(r) THEN gen + 1 ELSE gen,
         a.opts.gen \in Nat \cup {None}
  PROVE  /\ DonePos(lg \o r.ops, r.call) = DonePos(lg, r.call) \cup InPortion(a, r.pos)
         /\ Upto(lg \o r.ops, r.call, a, Later(a, r.pos))
         /\ InLog(r.call, a, lg \o r.ops, gen2)
  <1> DEFINE c == r.call
             ops == r.ops
             new == lg \o ops
             N == Len(lg)
             K == Len(ops)
             P == InPortion(a, r.pos)
             E == Earlier(a, r.pos)
             A == AppliedIn(lg, c)
             B == (N + 1) .. (N + K)
  <1>0. /\ \A i \in 1 .. K : ops[i].call = c
        /\ \A i, j \in 1 .. K : i < j => ops[i].pos < ops[j].pos
        /\ {ops[i].pos : i \in 1 .. K} = P
    BY DEF Proper, OfCall
  <1>1. /\ DOMAIN lg = 1 .. N /\ N \in Nat /\ K \in Nat /\ DOMAIN new = 1 .. (N + K)
        /\ \A i \in 1 .. N : new[i] = lg[i]
        /\ \A i \in 1 .. K : new[N + i] = ops[i]
        /\ AppliedIn(new, c) = A \cup B
    BY <1>0, AppendLog
  <1>2. \A i \in A : i \in 1 .. N /\ new[i] = lg[i]
    BY <1>1 DEF AppliedIn
  <1>3. /\ Later(a, r.pos) = E \cup P /\ P \subseteq WorkOf(a) /\ E \subseteq WorkOf(a)
        /\ \A e \in E, k \in P : e < k
        /\ \A k \in P, e \in WorkOf(a) : e < k => e \in E \cup P
    <2>1. r.pos \in Nat \ {0}
      BY DEF Proper
    <2> QED  BY <2>1, PortionOf
  <1>4. /\ E \subseteq DonePos(lg, c) /\ (a.opts.retry \/ DonePos(lg, c) = E)
        /\ \A i \in A : lg[i].pos \in DonePos(lg, c)
        /\ DonePos(lg, c) = {lg[i].pos : i \in A}
    BY DEF Upto, DonePos
  <1> HIDE DEF c, ops, new, N, K, P, E, A
  <1>5. \A i \in B : i \in Int /\ i - N \in 1 .. K /\ new[i] = ops[i - N]
    <2> SUFFICES ASSUME NEW i \in B
                 PROVE  i \in Int /\ i - N \in 1 .. K /\ new[i] = ops[i - N]
      OBVIOUS
    <2>1. i \in Int /\ i - N \in 1 .. K /\ N + (i - N) = i
      BY <1>1
    <2> QED  BY <1>1, <2>1
  <1>6. \A k \in 1 .. K : N + k \in B /\ new[N + k] = ops[k]
    BY <1>1
  <1>7. \A i \in A, j \in B : i < j /\ i \in Int /\ j \in Int
    BY <1>1, <1>2
  <1> HIDE DEF B
  <1>8. \A i \in B : new[i].pos \in P
    BY <1>0, <1>5
  <1>9. \A k \in P : \E i \in B : new[i].pos = k
    BY <1>0, <1>6
  <1>10. DonePos(new, c) = DonePos(lg, c) \cup P
    <2>1. DonePos(new, c) = {new[i].pos : i \in A \cup B}
      BY <1>1 DEF DonePos
    <2>2. {new[i].pos : i \in A} = {lg[i].pos : i \in A}
      BY <1>2
    <2>3. {new[i].pos : i \in B} = P
      BY <1>8, <1>9
    <2>4. {new[i].pos : i \in A \cup B} = {new[i].pos : i \in A} \cup {new[i].pos : i \in B}
      OBVIOUS
    <2> QED  BY <1>4, <2>1, <2>2, <2>3, <2>4
  <1>11. Upto(new, c, a, Later(a, r.pos))
    BY <1>3, <1>4, <1>10 DEF Upto
  <1>12. ASSUME ~a.opts.retry
         PROVE  \A i, j \in A \cup B : i < j => new[i].pos < new[j].pos
    <2> SUFFICES ASSUME NEW i \in A \cup B, NEW j \in A \cup B, i < j
                 PROVE  new[i].pos < new[j].pos
      OBVIOUS
    <2>1. CASE i \in A /\ j \in A
      BY <1>2, <1>12, <2>1 DEF InLog, A, c
    <2>2. CASE i \in A /\ j \in B
      BY <1>2, <1>3, <1>4, <1>8, <1>12, <2>2
    <2>3. CASE i \in B /\ j \in A
      BY <1>7, <2>3
    <2>4. CASE i \in B /\ j \in B
      <3>1. i \in Int /\ j \in Int /\ i - N < j - N
        BY <1>1, <1>5, <2>4
      <3> QED  BY <1>0, <1>5, <2>4, <3>1
    <2> QED  BY <2>1, <2>2, <2>3, <2>4
  <1>13. \A i \in A \cup B, k \in WorkOf(a) : k < new[i].pos => k \in DonePos(new, c)
    <2> SUFFICES ASSUME NEW i \in A \cup B, NEW k \in WorkOf(a), k < new[i].pos
                 PROVE  k \in DonePos(new, c)
      OBVIOUS
    <2>1. CASE i \in A
      BY <1>2, <1>10, <2>1 DEF InLog, A, c
    <2>2. CASE i \in B
      BY <1>3, <1>4, <1>8, <1>10, <2>2
    <2> QED  BY <2>1, <2>2
  <1>14. DonePos(new, c) \subseteq WorkOf(a)
    BY <1>3, <1>10 DEF InLog, c
  <1>15. ASSUME a.method = "operate"
         PROVE  /\ DonePos(new, c) = WorkOf(a)
                /\ ~a.opts.retry => \A i, j \in A \cup B : i .. j \subseteq A \cup B
    <2>1. P = WorkOf(a) /\ E = {}
      BY <1>15 DEF P, E, InPortion, Earlier, Walked
    <2>2. ASSUME ~a.opts.retry PROVE \A i, j \in B : i .. j \subseteq B
      BY <1>1 DEF B
    <2>3. ~a.opts.retry => A = {}
      BY <1>4, <2>1
    <2> QED  BY <1>10, <1>14, <2>1, <2>2, <2>3
  <1>16. ASSUME a.method = "operateOrdered", a.opts.gen # None
        PROVE  /\ \A i \in A \cup B : new[i].write => a.opts.gen < gen2
               /\ \A i, j \in A \cup B : new[i].write /\ new[j].write => i = j
    <2>1. K <= 1 /\ r.gen = a.opts.gen /\ a.opts.gen \in Nat
      BY <1>16 DEF Proper, K, ops
    <2>2. /\ \A i \in A : new[i].write => a.opts.gen < gen
          /\ \A i, j \in A : new[i].write /\ new[j].write => i = j
      BY <1>2, <1>16 DEF InLog, A, c
    <2>3. \A i \in B : i = N + 1
      BY <1>1, <2>1 DEF B
    <2>4. CASE IsWrite(r)
      <3>1. a.opts.gen = gen /\ gen2 = gen + 1
        BY <1>16, <2>1, <2>4
      <3>2. \A i \in A : ~new[i].write
        BY <2>2, <3>1
      <3>3. \A i, j \in B : i = j
        BY <2>3
      <3> QED  BY <3>1, <3>2, <3>3
    <2>5. CASE ~IsWrite(r)
      <3>1. \A i \in B : ~new[i].write
        <4>1. \A i \in B : i - N \in DOMAIN r.ops /\ new[i] = r.ops[i - N]
          BY <1>5 DEF K, ops
        <4> QED  BY <2>5, <4>1 DEF IsWrite
      <3>2. gen2 = gen
        BY <2>5
      <3> QED  BY <2>2, <3>1, <3>2
    <2> QED  BY <2>4, <2>5
  <1>17. InLog(c, a, new, gen2)
    BY <1>1, <1>12, <1>13, <1>14, <1>15, <1>16 DEF InLog
  <1> QED  BY <1>10, <1>11, <1>17 DEF c, ops, new, P

\* A step of another process, or of the server, that leaves fewer requests of the call.
LEMMA AtKept ==
  ASSUME NEW w, NEW l, NEW c, NEW a, NEW lg, NEW fl, NEW lg2, NEW fl2,
         At(w, l, c, a, lg, fl),
         \A s \in fl2 : s.call = c => s \in fl,
         DonePos(lg, c) \subseteq DonePos(lg2, c),
         a.opts.retry \/ ~Quiet(fl, c) \/ DonePos(lg2, c) = DonePos(lg, c)
  PROVE  At(w, l, c, a, lg2, fl2)
  <1>1. Alone(fl, c, a) => Alone(fl2, c, a)
    BY DEF Alone, Quiet
  <1>2. \A K : Alone(fl, c, a) /\ Upto(lg, c, a, K) => Upto(lg2, c, a, K)
    BY DEF Alone, Upto
  <1>3. \A K : K \subseteq DonePos(lg, c) => K \subseteq DonePos(lg2, c)
    OBVIOUS
  <1> QED  BY <1>1, <1>2, <1>3 DEF At

\* The request for one operation that the walk has taken.
LEMMA OnePortion ==
  ASSUME NEW a, a.method # "operate", NEW n \in Nat
  PROVE  /\ InPortion(a, n + 1) = {k \in WorkOf(a) : k = n}
         /\ Earlier(a, n + 1) = Walked(a, n)
  <1>1. n + 1 - 1 = n
    OBVIOUS
  <1> QED  BY <1>1 DEF InPortion, Earlier

\* A step inside a call keeps what is said of its place.
LEMMA InnerAt ==
  ASSUME TypeInv, LogInv, NEW p \in Process, Inner(p)
  PROVE  At(pc'[p], local'[p], Current(p), Asked(p), log, inflight)
  <1> DEFINE l == local[p]
             c == Current(p)
             a == Asked(p)
  <1>0. /\ pc[p] # "idle" /\ l \in Locals /\ a.method \in Method /\ c \in Call
        /\ a.opts \in OptRecord /\ a.list \in OpLists \cup {<<>>}
        /\ pc \in [Process -> Places] /\ local \in [Process -> Locals]
    BY InnerEffect, InCall DEF TypeInv, TypeOK, Places, Locals
  <1>1. At(pc[p], l, c, a, log, inflight)
    BY <1>0 DEF LogInv
  <1>2. /\ l.pos \in Nat \ {0} /\ l.ops \in Seq(Entry) /\ a.list \in Seq(OpRecord)
    BY <1>0, ListType DEF Locals, Asked
  <1>12. /\ WorkOf(a) \subseteq Nat \ {0} /\ Len(a.list) \in Nat
         /\ \A k : k \in WorkOf(a) <=> k \in 1 .. Len(a.list) /\ Adds(a.list[k])
    BY <1>2, WorkType
  <1>3. Ordered(p) <=> a.method # "operate"
    BY <1>0 DEF Ordered, Method
  <1> DEFINE Goal == At(pc'[p], local'[p], c, a, log, inflight)
  <1>4. ASSUME pc'[p] = "failed" \/ pc'[p] = "exit",
               pc'[p] = "exit" /\ a.method = "operate" =>
                  local'[p].status # "OK" \/ local'[p].error # "OK"
        PROVE  Goal
    BY <1>4 DEF At
  <1>5. CASE Stop(p)
    <2>1. pc'[p] = "exit" /\ a.method # "operate"
      BY <1>0, <1>3, <1>5 DEF Stop, Stopped
    <2> QED  BY <1>4, <2>1
  <1>13. CASE BadTtl(p)
    <2>1. pc'[p] = "exit" /\ local'[p].error = "PARAM"
      BY <1>0, <1>13 DEF BadTtl, Locals
    <2> QED  BY <1>4, <2>1
  <1>6. CASE Refuse(p)
    <2>1. pc'[p] = "exit" /\ local'[p] = Refused(p)
      BY <1>0, <1>6 DEF Refuse
    <2>2. Refused(p).status \in {"CLIENT", "PARAM"}
      <3>1. /\ [l EXCEPT !.status = "CLIENT"].status = "CLIENT"
            /\ [l EXCEPT !.status = "PARAM", !.error = "PARAM"].status = "PARAM"
            /\ [l EXCEPT !.status = "CLIENT", !.error = "CLIENT"].status = "CLIENT"
        BY <1>0 DEF Locals
      <3>2. \/ Refused(p) = [l EXCEPT !.status = "CLIENT"]
            \/ Refused(p) = [l EXCEPT !.status = "PARAM", !.error = "PARAM"]
            \/ Refused(p) = [l EXCEPT !.status = "CLIENT", !.error = "CLIENT"]
        BY DEF Refused
      <3> QED  BY <3>1, <3>2
    <2> QED  BY <1>4, <2>1, <2>2
  <1>7. CASE OperateFailed(p) \/ OrderedFailed(p)
    <2>1. pc'[p] = "exit" /\ local'[p].status = "SERVER"
      BY <1>0, <1>7 DEF OperateFailed, OrderedFailed, Locals
    <2> QED  BY <1>4, <2>1
  <1>8. CASE Timeout(p)
    <2>1. pc'[p] = "failed"
      BY <1>0, <1>8 DEF Timeout
    <2> QED  BY <1>4, <2>1
  <1>9. CASE TakeOp(p)
    <2>1. /\ local'[p] = TookOp(p) /\ pc[p] = "walk" /\ Walking(p)
          /\ pc'[p] = IF Ordered(p) THEN "send" ELSE "walk"
      BY <1>0, <1>9 DEF TakeOp, TookOp, Walking
    <2>2. PICK es \in Seq(Entry) :
             /\ local'[p].ops = Collected(p, es) /\ local'[p].pos = l.pos + 1
             /\ IF Adds(NextOp(p))
                THEN \E entry \in Entry : entry.call = c /\ entry.pos = l.pos /\ es = <<entry>>
                ELSE es = <<>>
      BY <2>1, TookOpType
    <2>3. l.pos \in WorkOf(a) <=> Adds(NextOp(p))
      <3>1. l.pos \in 1 .. Len(a.list)
        BY <1>2, <2>1 DEF Walking
      <3> QED  BY <1>12, <3>1 DEF NextOp
    <2>4. CASE Ordered(p)
      <3>1. pc'[p] = "send" /\ local'[p].ops = es /\ a.method # "operate"
        BY <1>3, <2>1, <2>2, <2>4 DEF Collected
      <3>2. Alone(inflight, c, a) /\ Upto(log, c, a, Walked(a, l.pos))
        BY <1>1, <2>1, <3>1 DEF At
      <3> DEFINE r == RequestOf(c, a, local'[p], 1)
      <3>3. r.ops = es /\ r.call = c /\ r.gen = a.opts.gen /\ r.pos = l.pos + 1
        BY <2>2, <3>1 DEF RequestOf
      <3>4. l.pos + 1 - 1 = l.pos /\ l.pos + 1 \in Nat \ {0}
        BY <1>2
      <3>5. OfCall(c, es, InPortion(a, l.pos + 1)) /\ Len(es) <= 1
        <4>0. InPortion(a, l.pos + 1) = {k \in WorkOf(a) : k = l.pos}
          BY <1>2, <3>1, OnePortion
        <4>1. CASE Adds(NextOp(p))
          <5>1. PICK entry \in Entry : entry.call = c /\ entry.pos = l.pos /\ es = <<entry>>
            BY <2>2, <4>1
          <5>2. {k \in WorkOf(a) : k = l.pos} = {entry.pos}
            BY <2>3, <4>1, <5>1
          <5>3. OfCall(c, <<entry>>, {entry.pos})
            BY <5>1, OfCallOne
          <5> QED  BY <4>0, <5>1, <5>2, <5>3
        <4>2. CASE ~Adds(NextOp(p))
          <5>1. es = <<>> /\ {k \in WorkOf(a) : k = l.pos} = {} /\ Len(<<>>) = 0
            BY <2>2, <2>3, <4>2
          <5>2. OfCall(c, es, {}) /\ Len(es) = 0
            BY <5>1, OfCallNone
          <5>3. InPortion(a, l.pos + 1) = {}
            BY <4>0, <5>1
          <5>4. Len(es) <= 1
            BY <5>2
          <5> QED  BY <5>2, <5>3, <5>4
        <4> QED  BY <4>1, <4>2
      <3> HIDE DEF r
      <3>6. Proper(a, r)
        BY <1>0, <3>3, <3>4, <3>5 DEF Proper
      <3>7. Earlier(a, local'[p].pos) = Walked(a, l.pos)
        BY <1>2, <2>2, <3>1, OnePortion
      <3> QED  BY <3>1, <3>2, <3>6, <3>7 DEF At, Upto, r
    <2>5. CASE ~Ordered(p)
      <3>1. /\ pc'[p] = "walk" /\ local'[p].ops = l.ops \o es
            /\ a.method = "operate"
        BY <1>3, <2>1, <2>2, <2>5 DEF Collected
      <3> DEFINE K == {k \in WorkOf(a) : k < l.pos}
                 K2 == {k \in WorkOf(a) : k < l.pos + 1}
      <3>2. Alone(inflight, c, a) /\ Upto(log, c, a, Walked(a, l.pos)) /\ OfCall(c, l.ops, K)
        BY <1>1, <2>1, <3>1 DEF At
      <3>3. Walked(a, l.pos + 1) = Walked(a, l.pos)
        BY <3>1 DEF Walked
      <3>4. \A k \in WorkOf(a) : k < l.pos + 1 <=> k < l.pos \/ k = l.pos
        BY <1>2, <1>12
      <3>5. OfCall(c, l.ops \o es, K2)
        <4>1. CASE Adds(NextOp(p))
          <5>1. PICK entry \in Entry : entry.call = c /\ entry.pos = l.pos /\ es = <<entry>>
            BY <2>2, <4>1
          <5>2. K2 = K \cup {entry.pos} /\ \A k \in K : k < entry.pos
            BY <2>3, <3>4, <4>1, <5>1
          <5> HIDE DEF K, K2
          <5> QED  BY <1>2, <3>2, <5>1, <5>2, OfCallMore
        <4>2. CASE ~Adds(NextOp(p))
          <5>1. es = <<>> /\ K2 = K
            BY <2>2, <2>3, <3>4, <4>2
          <5>2. l.ops \o <<>> = l.ops
            BY <1>2
          <5> QED  BY <3>2, <5>1, <5>2
        <4> QED  BY <4>1, <4>2
      <3> QED  BY <2>2, <3>1, <3>2, <3>3, <3>5 DEF At
    <2> QED  BY <2>4, <2>5
  <1>10. CASE EndOfList(p)
    <2>1. /\ local' = local /\ pc[p] = "walk" /\ l.pos > Len(a.list)
          /\ pc'[p] = IF Ordered(p) THEN "exit" ELSE "send"
      BY <1>0, <1>10 DEF EndOfList
    <2>2. CASE Ordered(p)
      BY <1>3, <1>4, <2>1, <2>2
    <2>3. CASE ~Ordered(p)
      <3>1. pc'[p] = "send" /\ a.method = "operate"
        BY <1>3, <2>1, <2>3
      <3>2. /\ Alone(inflight, c, a) /\ Upto(log, c, a, Walked(a, l.pos))
            /\ OfCall(c, l.ops, {k \in WorkOf(a) : k < l.pos})
        BY <1>1, <2>1, <3>1 DEF At
      <3>3. {k \in WorkOf(a) : k < l.pos} = InPortion(a, l.pos)
        <4>1. \A k \in WorkOf(a) : k < l.pos
          BY <1>2, <1>12, <2>1
        <4> QED  BY <3>1, <4>1 DEF InPortion
      <3> DEFINE r == RequestOf(c, a, l, 1)
      <3>4. r.ops = l.ops /\ r.call = c /\ r.gen = a.opts.gen /\ r.pos = l.pos
        BY DEF RequestOf
      <3> HIDE DEF r
      <3>6. Proper(a, r)
        BY <1>0, <1>2, <3>1, <3>2, <3>3, <3>4 DEF Proper
      <3>7. Earlier(a, l.pos) = Walked(a, l.pos)
        BY <3>1 DEF Earlier, Walked
      <3> QED  BY <2>1, <3>1, <3>2, <3>6, <3>7 DEF At, Upto, r
    <2> QED  BY <2>2, <2>3
  <1>11. CASE OperateSucceeded(p) \/ OrderedSucceeded(p)
    <2>1. pc[p] = "succeeded"
      BY <1>11 DEF OperateSucceeded, OrderedSucceeded
    <2>2. Alone(inflight, c, a) /\ Upto(log, c, a, Later(a, l.pos))
      BY <1>1, <2>1 DEF At
    <2>4. CASE OperateSucceeded(p)
      <3>1. pc'[p] = "exit" /\ a.method = "operate"
        BY <1>0, <1>3, <2>4 DEF OperateSucceeded
      <3>2. Later(a, l.pos) = WorkOf(a)
        BY <3>1 DEF Later
      <3> QED  BY <2>2, <3>1, <3>2 DEF At
    <2>5. CASE OrderedSucceeded(p)
      <3>1. pc'[p] = "walk" /\ a.method # "operate"
        BY <1>0, <1>3, <2>5 DEF OrderedSucceeded
      <3>2. local'[p].pos = l.pos
        BY <1>0, <2>5 DEF OrderedSucceeded, WithResult, WithDouble, Locals
      <3>3. Later(a, l.pos) = Walked(a, local'[p].pos)
        BY <3>1, <3>2 DEF Later
      <3> QED  BY <2>2, <3>1, <3>3 DEF At
    <2> QED  BY <1>11, <2>4, <2>5
  <1> QED
    BY <1>5, <1>6, <1>7, <1>8, <1>9, <1>10, <1>11, <1>13 DEF Inner

ProcessPart(p) ==
    pc[p] # "idle" => At(pc[p], local[p], Current(p), Asked(p), log, inflight)

CallPart(c) ==
    /\ InLog(c, asked[c], log, generation)
    /\ Settled(c, asked[c], answered[c], c[2] <= calls[c[1]], log, inflight)

LEMMA LogParts ==
  LogInv <=> /\ Unanswered
             /\ \A p \in Process : ProcessPart(p)
             /\ \A c \in Call : CallPart(c)
             /\ \A r \in inflight : OnItsWay(r, asked[r.call], log, inflight)
  BY DEF LogInv, ProcessPart, CallPart

\* A call begins, or is refused.
LEMMA LogCall ==
  ASSUME TypeInv, LogInv, Unanswered', NEW p \in Process, NEW method \in Method,
         NEW list \in OpLists, NEW opts \in Options,
         Rejected(p, method, list, opts) \/ Begin(p, method, list, opts)
  PROVE  LogInv'
  <1> DEFINE c0 == <<p, calls[p] + 1>>
             a0 == [method |-> method, list |-> list, opts |-> opts]
  <1>0. /\ pc \in [Process -> Places] /\ calls \in [Process -> 0 .. MaxCalls]
        /\ local \in [Process -> Locals] /\ DOMAIN answered = Call /\ DOMAIN asked = Call
    BY DEF TypeInv, TypeOK, Places, Locals
  <1>1. /\ MayCall(p) /\ pc[p] = "idle" /\ UNCHANGED <<log, generation, inflight>>
        /\ calls' = [calls EXCEPT ![p] = calls[p] + 1]
        /\ asked' = [asked EXCEPT ![c0] = a0]
    BY DEF Rejected, Begin, MayCall
  <1>2. /\ calls[p] + 1 \in 1 .. MaxCalls /\ ~(calls[p] + 1 <= calls[p])
        /\ c0 \in Call /\ c0[1] = p /\ c0[2] = calls[p] + 1
    BY <1>0, <1>1, Room, CallPairs, OperateAssumption
  <1>3. Quiet(inflight, c0) /\ DonePos(log, c0) = {} /\ answered[c0] = NoAnswer
    BY <1>2 DEF LogInv, Settled, TypeInv, CallsAsked
  <1>4. asked'[c0] = a0 /\ \A c \in Call : c # c0 => asked'[c] = asked[c]
    BY <1>0, <1>1, <1>2
  <1>5. /\ \A c \in Call : c # c0 => answered'[c] = answered[c]
        /\ answered'[c0].status # "OK"
    <2>1. \/ answered' = answered
          \/ answered' = [answered EXCEPT ![c0] =
                            [status |-> "PARAM", error |-> "PARAM", results |-> <<>>]]
      BY DEF Rejected, Begin
    <2>2. NoAnswer.status # "OK"
      BY DEF NoAnswer
    <2>3. ASSUME NEW x, answered' = [answered EXCEPT ![c0] = x]
          PROVE  answered'[c0] = x /\ \A c \in Call : c # c0 => answered'[c] = answered[c]
      BY <1>0, <1>2, <2>3
    <2>4. [status |-> "PARAM", error |-> "PARAM", results |-> <<>>].status # "OK"
      OBVIOUS
    <2> HIDE DEF c0
    <2> QED  BY <1>3, <2>1, <2>2, <2>3, <2>4
  <1>6. ASSUME NEW q \in Process PROVE ProcessPart(q)'
    <2>1. CASE q # p
      <3> SUFFICES ASSUME pc'[q] # "idle" PROVE ProcessPart(q)'
        BY DEF ProcessPart
      <3>1. pc'[q] = pc[q] /\ local'[q] = local[q] /\ calls'[q] = calls[q]
        BY <1>0, <1>1, <2>1 DEF Rejected, Begin
      <3>2. Current(q)' = Current(q) /\ Current(q) \in Call /\ Current(q) # c0
        BY <2>1, <3>1, InCall DEF Current
      <3>3. Asked(q)' = Asked(q)
        BY <1>4, <3>2 DEF Asked
      <3>4. At(pc[q], local[q], Current(q), Asked(q), log, inflight)
        BY <3>1 DEF LogInv
      <3> QED  BY <1>1, <3>1, <3>2, <3>3, <3>4 DEF ProcessPart
    <2>2. CASE q = p /\ Rejected(p, method, list, opts)
      BY <1>1, <2>2 DEF Rejected, ProcessPart
    <2>3. CASE q = p /\ Begin(p, method, list, opts)
      <3>1. Current(q)' = c0 /\ Asked(q)' = a0
        <4>1. Current(q)' = c0
          BY <1>0, <1>1, <2>3 DEF Current
        <4> QED  BY <1>4, <4>1 DEF Asked
      <3>2. /\ local'[q].pos = 1 /\ local'[q].ops = <<>>
            /\ pc'[q] = IF local'[q].error = "OK" THEN "walk" ELSE "exit"
        <4>1. PICK index \in Index : local' = [local EXCEPT ![p] =
                CASE opts.bad = "policy" ->
                         [Fresh(index) EXCEPT !.status = "PARAM", !.error = "PARAM"]
                  [] opts.bad = "gen" /\ method = "operate" ->
                         [Fresh(index) EXCEPT !.error = "PARAM"]
                  [] OTHER -> Fresh(index)]
          BY <2>3 DEF Begin
        <4>2. local'[q].pos = 1 /\ local'[q].ops = <<>>
          BY <1>0, <2>3, <4>1 DEF Fresh
        <4>3. pc'[q] = IF local'[q].error = "OK" THEN "walk" ELSE "exit"
          BY <1>0, <2>3 DEF Begin
        <4> QED  BY <4>2, <4>3
      <3>3. WorkOf(a0) \subseteq Nat \ {0}
        <4>1. list \in Seq(OpRecord)
          BY OperateAssumption
        <4> QED  BY <4>1, WorkType
      <3>4. At(pc'[q], local'[q], c0, a0, log, inflight)
        <4> HIDE DEF c0, a0
        <4>1. CASE pc'[q] = "exit" /\ local'[q].error # "OK"
          BY <4>1 DEF At
        <4>2. CASE pc'[q] = "walk"
          <5>1. {k \in WorkOf(a0) : k < local'[q].pos} = {}
            BY <3>2, <3>3
          <5>2. Walked(a0, local'[q].pos) = {}
            BY <5>1 DEF Walked
          <5>3. Alone(inflight, c0, a0) /\ Upto(log, c0, a0, {}) /\ OfCall(c0, <<>>, {})
            BY <1>3, OfCallNone DEF Alone, Upto
          <5> QED  BY <3>2, <4>2, <5>1, <5>2, <5>3 DEF At
        <4> QED  BY <3>2, <4>1, <4>2
      <3> QED  BY <1>1, <3>1, <3>4 DEF ProcessPart
    <2> QED  BY <2>1, <2>2, <2>3
  <1>7. ASSUME NEW c \in Call PROVE CallPart(c)'
    <2>1. CASE c # c0
      <3>1. c = <<c[1], c[2]>> /\ c[1] \in Process /\ c[2] \in 1 .. MaxCalls
        BY CallPairs
      <3>2. c[2] <= calls[c[1]] => c[2] <= calls'[c[1]]
        <4>1. CASE c[1] = p
          BY <1>0, <1>1, <3>1, <4>1, OperateAssumption
        <4>2. CASE c[1] # p
          BY <1>0, <1>1, <3>1, <4>2
        <4> QED  BY <4>1, <4>2
      <3>3. asked'[c] = asked[c] /\ answered'[c] = answered[c]
        BY <1>4, <1>5, <2>1
      <3> HIDE DEF c0
      <3>4. /\ InLog(c, asked[c], log, generation)
            /\ Settled(c, asked[c], answered[c], c[2] <= calls[c[1]], log, inflight)
        BY DEF LogInv
      <3> QED  BY <1>1, <3>2, <3>3, <3>4 DEF CallPart, Settled
    <2>2. CASE c = c0
      <3>1. AppliedIn(log, c0) = {}
        BY <1>3 DEF DonePos
      <3>2. InLog(c0, a0, log, generation)
        BY <1>3, <3>1 DEF InLog
      <3>3. c0[2] <= calls'[c0[1]]
        BY <1>0, <1>1, <1>2
      <3> HIDE DEF c0
      <3>4. Settled(c0, a0, answered'[c0], c0[2] <= calls'[c0[1]], log, inflight)
        BY <1>5, <3>3 DEF Settled
      <3> QED  BY <1>1, <1>4, <2>2, <3>2, <3>4 DEF CallPart
    <2> QED  BY <2>1, <2>2
  <1>8. ASSUME NEW r \in inflight PROVE OnItsWay(r, asked'[r.call], log, inflight)
    <2>1. r.call \in Call /\ r.call # c0
      BY <1>3 DEF TypeInv, TypeOK, Quiet
    <2> QED  BY <1>4, <2>1 DEF LogInv
  <1> QED  BY <1>1, <1>6, <1>7, <1>8, LogParts DEF LogInv, ProcessPart, CallPart

LEMMA LogInner ==
  ASSUME TypeInv, LogInv, Unanswered', NEW p \in Process, Inner(p) PROVE LogInv'
  <1>0. pc \in [Process -> Places] /\ local \in [Process -> Locals]
    BY DEF TypeInv, TypeOK, Places, Locals
  <1>1. /\ pc[p] # "idle" /\ UNCHANGED <<log, generation, inflight, asked, answered, calls>>
        /\ \E w \in Places, l \in Locals :
              pc' = [pc EXCEPT ![p] = w] /\ local' = [local EXCEPT ![p] = l]
    BY InnerEffect
  <1>2. ASSUME NEW q \in Process PROVE ProcessPart(q)'
    <2>1. Current(q)' = Current(q) /\ Asked(q)' = Asked(q)
      BY <1>1 DEF Current, Asked
    <2>2. CASE q # p
      <3>1. pc'[q] = pc[q] /\ local'[q] = local[q]
        BY <1>0, <1>1, <2>2
      <3> QED  BY <1>1, <2>1, <3>1 DEF LogInv, ProcessPart
    <2>3. CASE q = p
      BY <1>1, <2>1, <2>3, InnerAt DEF ProcessPart
    <2> QED  BY <2>2, <2>3
  <1>3. \A c \in Call : CallPart(c)'
    BY <1>1 DEF LogInv, CallPart
  <1>4. \A r \in inflight' : OnItsWay(r, asked'[r.call], log', inflight')
    BY <1>1 DEF LogInv
  <1> QED  BY <1>2, <1>3, <1>4 DEF LogInv, ProcessPart, CallPart

LEMMA LogSend ==
  ASSUME TypeInv, LogInv, Unanswered', NEW p \in Process, Sending(p) PROVE LogInv'
  <1> DEFINE c == Current(p)
             a == Asked(p)
  <1>0. PICK w \in {"sent", "resent"}, k \in {1, 2} :
           /\ pc' = [pc EXCEPT ![p] = w]
           /\ inflight' = inflight \cup {RequestOf(c, a, local[p], k)}
           /\ \/ pc[p] = "send" /\ w = "sent"
              \/ pc[p] = "sent" /\ w = "resent" /\ a.opts.retry
           /\ UNCHANGED <<log, generation, asked, answered, calls, local, iterator>>
    BY SendEffect
  <1> DEFINE r == RequestOf(c, a, local[p], k)
  <1>00. pc \in [Process -> Places]
    BY DEF TypeInv, TypeOK, Places
  <1>1. /\ calls[p] \in 1 .. MaxCalls /\ c \in Call /\ c = <<p, calls[p]>>
    BY <1>0, InCall DEF Current
  <1>2. /\ r.call = c /\ asked[r.call] = a /\ r.pos = local[p].pos
        /\ r.ops = local[p].ops /\ r.gen = a.opts.gen
    BY DEF RequestOf, Asked
  <1>3. At(pc[p], local[p], c, a, log, inflight)
    BY <1>0 DEF LogInv
  <1>4. /\ Proper(a, RequestOf(c, a, local[p], 1))
        /\ Earlier(a, local[p].pos) \subseteq DonePos(log, c)
        /\ a.opts.retry \/ (/\ Quiet(inflight, c) /\ pc[p] = "send"
                            /\ DonePos(log, c) = Earlier(a, local[p].pos))
    BY <1>0, <1>3 DEF At, Alone, Upto
  <1>5. Proper(a, r)
    BY <1>4 DEF Proper, RequestOf
  <1>6. Upto(log, c, a, Earlier(a, r.pos))
    BY <1>2, <1>4 DEF Upto
  <1> HIDE DEF c, r, a
  <1>7. \A s \in inflight' : s \in inflight \/ s = r
    BY <1>0 DEF r
  <1>8. ASSUME NEW q \in Process PROVE ProcessPart(q)'
    <2>1. Current(q)' = Current(q) /\ Asked(q)' = Asked(q)
      BY <1>0 DEF Current, Asked
    <2>2. CASE q = p
      <3>1. pc'[q] = w
        BY <1>0, <1>00, <2>2
      <3>2. At(w, local[p], c, a, log, inflight')
        BY <1>4 DEF At
      <3> QED  BY <1>0, <2>1, <2>2, <3>1, <3>2 DEF ProcessPart, c, a
    <2>3. CASE q # p
      <3> SUFFICES ASSUME pc'[q] # "idle" PROVE ProcessPart(q)'
        BY DEF ProcessPart
      <3>1. pc'[q] = pc[q] /\ Current(q) # c
        BY <1>0, <1>00, <2>3 DEF Current, c
      <3>2. At(pc[q], local[q], Current(q), Asked(q), log, inflight)
        BY <3>1 DEF LogInv
      <3>3. At(pc[q], local[q], Current(q), Asked(q), log, inflight')
        BY <1>2, <1>7, <3>1, <3>2, AtKept
      <3> QED  BY <1>0, <2>1, <3>1, <3>3 DEF ProcessPart
    <2> QED  BY <2>2, <2>3
  <1>9. ASSUME NEW d \in Call PROVE CallPart(d)'
    <2>1. /\ InLog(d, asked[d], log, generation)
          /\ Settled(d, asked[d], answered[d], d[2] <= calls[d[1]], log, inflight)
      BY DEF LogInv
    <2>2. CASE d # c
      <3>1. Quiet(inflight, d) => Quiet(inflight', d)
        BY <1>2, <1>7, <2>2 DEF Quiet
      <3> QED  BY <1>0, <2>1, <3>1 DEF CallPart, Settled, Alone
    <2>3. CASE d = c
      <3>1. d[2] <= calls[d[1]]
        BY <1>1, <2>3
      <3>2. answered[d].status # "OK"
        BY <1>0, <2>3 DEF LogInv, Unanswered, NoAnswer, c
      <3> QED  BY <1>0, <2>1, <3>1, <3>2 DEF CallPart, Settled
    <2> QED  BY <2>2, <2>3
  <1>10. ASSUME NEW s \in inflight' PROVE OnItsWay(s, asked'[s.call], log', inflight')
    <2>1. CASE s = r
      <3>1. ~a.opts.retry => \A t \in inflight' : t.call = r.call => t = r
        BY <1>2, <1>4, <1>7 DEF Quiet
      <3> QED  BY <1>0, <1>2, <1>5, <1>6, <2>1, <3>1 DEF OnItsWay
    <2>2. CASE s # r
      <3>1. s \in inflight
        BY <1>7, <2>2
      <3>2. OnItsWay(s, asked[s.call], log, inflight)
        BY <3>1 DEF LogInv
      <3>3. ~asked[s.call].opts.retry => \A t \in inflight' : t.call = s.call => t = s
        <4>1. CASE s.call = c
          <5>1. a.opts.retry
            BY <1>4, <3>1, <4>1 DEF Quiet
          <5> QED  BY <1>2, <4>1, <5>1
        <4>2. CASE s.call # c
          BY <1>2, <1>7, <3>2, <4>2 DEF OnItsWay
        <4> QED  BY <4>1, <4>2
      <3> QED  BY <1>0, <3>2, <3>3 DEF OnItsWay
    <2> QED  BY <2>1, <2>2
  <1> QED  BY <1>8, <1>9, <1>10 DEF LogInv, ProcessPart, CallPart

\* What the server does with a request.
LEMMA ApplyEffect ==
  ASSUME TypeInv, LogInv, NEW r \in inflight, Apply(r)
  PROVE  /\ Proper(asked[r.call], r)
         /\ Upto(log, r.call, asked[r.call], Earlier(asked[r.call], r.pos))
         /\ Upto(log', r.call, asked[r.call], Later(asked[r.call], r.pos))
         /\ InLog(r.call, asked[r.call], log', generation')
         /\ DonePos(log', r.call) = DonePos(log, r.call) \cup InPortion(asked[r.call], r.pos)
         /\ \A d : d # r.call => DonePos(log', d) = DonePos(log, d)
         /\ \A i \in 1 .. Len(r.ops) : r.ops[i].call = r.call
  <1> DEFINE c == r.call
             a == asked[r.call]
  <1>0. /\ pc \in [Process -> Places] /\ log \in Seq(Entry) /\ r.ops \in Seq(Entry)
        /\ c \in Call /\ a.opts.gen \in Nat \cup {None} /\ generation \in Nat
        /\ a.list \in Seq(OpRecord)
    BY ListType DEF TypeInv, TypeOK, Places, OptRecord
  <1>1. /\ IsWrite(r) /\ r.gen # None => r.gen = generation
        /\ log' = log \o r.ops /\ inflight' = inflight \ {r}
        /\ generation' = (IF IsWrite(r) THEN generation + 1 ELSE generation)
        /\ UNCHANGED <<asked, answered, calls, local, iterator>>
    BY DEF Apply
  <1>3. /\ Proper(a, r) /\ Upto(log, c, a, Earlier(a, r.pos))
    BY DEF LogInv, OnItsWay
  <1>5. \A i \in 1 .. Len(r.ops) : r.ops[i].call = c
    BY <1>3 DEF Proper, OfCall
  <1>7. generation' \in Nat /\ \A g \in Nat : g < generation => g < generation'
    BY <1>0, <1>1
  <1>8. InLog(c, a, log, generation)
    BY <1>0 DEF LogInv
  <1>9. /\ DonePos(log', c) = DonePos(log, c) \cup InPortion(a, r.pos)
        /\ Upto(log', c, a, Later(a, r.pos))
        /\ InLog(c, a, log', generation')
    BY <1>0, <1>1, <1>3, <1>7, <1>8, OwnCall
  <1>10. \A d : d # c => DonePos(log', d) = DonePos(log, d)
    BY <1>0, <1>1, <1>5, OtherDone
  <1> QED  BY <1>3, <1>5, <1>9, <1>10

LEMMA LogApply ==
  ASSUME TypeInv, LogInv, Unanswered', NEW r \in inflight, Apply(r) PROVE LogInv'
  <1> DEFINE c == r.call
             a == asked[r.call]
  <1>0. /\ pc \in [Process -> Places] /\ log \in Seq(Entry) /\ r.ops \in Seq(Entry)
        /\ c \in Call /\ a.opts.gen \in Nat \cup {None} /\ generation \in Nat
        /\ a.list \in Seq(OpRecord)
    BY ListType DEF TypeInv, TypeOK, Places, OptRecord
  <1>1. /\ IsWrite(r) /\ r.gen # None => r.gen = generation
        /\ log' = log \o r.ops /\ inflight' = inflight \ {r}
        /\ generation' = (IF IsWrite(r) THEN generation + 1 ELSE generation)
        /\ UNCHANGED <<asked, answered, calls, local, iterator>>
    BY DEF Apply
  <1>2. \/ pc' = pc
        \/ \E p \in Process : /\ pc[p] \in {"sent", "resent"} /\ Request(p) = r
                              /\ pc' = [pc EXCEPT ![p] = "succeeded"]
    BY DEF Apply, Answer
  <1>3. /\ Proper(a, r) /\ Upto(log, c, a, Earlier(a, r.pos))
        /\ ~a.opts.retry => \A s \in inflight : s.call = c => s = r
    BY DEF LogInv, OnItsWay
  <1>4. ~Quiet(inflight, c) /\ Alone(inflight', c, a) /\ inflight' \subseteq inflight
    BY <1>1, <1>3 DEF Quiet, Alone
  <1>5. \A i \in 1 .. Len(r.ops) : r.ops[i].call = c
    BY ApplyEffect
  <1>9. /\ DonePos(log', c) = DonePos(log, c) \cup InPortion(a, r.pos)
        /\ Upto(log', c, a, Later(a, r.pos))
        /\ InLog(c, a, log', generation')
    BY ApplyEffect
  <1>10. \A d : d # c => DonePos(log', d) = DonePos(log, d)
    BY ApplyEffect
  <1>7. generation' \in Nat /\ \A g \in Nat : g < generation => g < generation'
    BY <1>0, <1>1
  <1>14. \A d, K : /\ d # c \/ asked[c].opts.retry
                   => (Upto(log, d, asked[d], K) => Upto(log', d, asked[d], K))
    BY <1>9, <1>10 DEF Upto
  <1> HIDE DEF c, a
  <1>11. ASSUME NEW q \in Process PROVE ProcessPart(q)'
    <2> SUFFICES ASSUME pc'[q] # "idle" PROVE ProcessPart(q)'
      BY DEF ProcessPart
    <2>1. Current(q)' = Current(q) /\ Asked(q)' = Asked(q) /\ local'[q] = local[q]
      BY <1>1 DEF Current, Asked
    <2>2. pc[q] # "idle"
      BY <1>0, <1>2
    <2>3. At(pc[q], local[q], Current(q), Asked(q), log, inflight)
      BY <2>2 DEF LogInv
    <2>4. \/ pc'[q] = pc[q]
          \/ pc[q] \in {"sent", "resent"} /\ pc'[q] = "succeeded" /\ Request(q) = r
      BY <1>0, <1>2
    <2>5. CASE pc'[q] = pc[q]
      <3>1. DonePos(log, Current(q)) \subseteq DonePos(log', Current(q))
        BY <1>9, <1>10
      <3>2. \/ ~Quiet(inflight, Current(q))
            \/ DonePos(log', Current(q)) = DonePos(log, Current(q))
        BY <1>4, <1>10
      <3>3. \A s \in inflight' : s.call = Current(q) => s \in inflight
        BY <1>4
      <3>4. At(pc[q], local[q], Current(q), Asked(q), log', inflight')
        BY <2>3, <3>1, <3>2, <3>3, AtKept
      <3> QED  BY <2>1, <2>5, <3>4 DEF ProcessPart
    <2>6. CASE pc[q] \in {"sent", "resent"} /\ pc'[q] = "succeeded" /\ Request(q) = r
      <3>1. r.call = Current(q) /\ r.pos = local[q].pos
        BY <2>6 DEF Request
      <3>2. Current(q) = c /\ Asked(q) = a
        BY <3>1 DEF Asked, a, c
      <3>3. Proper(a, RequestOf(c, a, local[q], 1))
        BY <2>3, <2>6, <3>2 DEF At
      <3>4. Upto(log', c, a, Later(a, local[q].pos))
        BY <1>9, <3>1
      <3>5. Earlier(a, local[q].pos) \subseteq DonePos(log', c)
        BY <1>3, <1>9, <3>1 DEF Upto
      <3>6. At("succeeded", local[q], c, a, log', inflight')
        BY <1>4, <3>3, <3>4, <3>5 DEF At
      <3> QED  BY <2>1, <2>6, <3>2, <3>6 DEF ProcessPart
    <2> QED  BY <2>4, <2>5, <2>6
  <1>12. ASSUME NEW d \in Call PROVE CallPart(d)'
    <2>1. /\ InLog(d, asked[d], log, generation)
          /\ Settled(d, asked[d], answered[d], d[2] <= calls[d[1]], log, inflight)
      BY DEF LogInv
    <2>2. CASE d # c
      <3>1. asked[d].opts.gen # None => asked[d].opts.gen \in Nat
        BY DEF TypeInv, TypeOK, OptRecord
      <3>2. InLog(d, asked[d], log', generation')
        BY <1>0, <1>1, <1>5, <1>7, <2>1, <2>2, <3>1, OtherCall
      <3>3. Settled(d, asked[d], answered[d], d[2] <= calls[d[1]], log', inflight')
        BY <1>4, <1>10, <1>14, <2>1, <2>2 DEF Settled, Quiet, Alone
      <3> QED  BY <1>1, <3>2, <3>3 DEF CallPart
    <2>3. CASE d = c
      <3>1. Settled(d, a, answered[d], d[2] <= calls[d[1]], log', inflight')
        BY <1>4, <1>14, <2>1, <2>3 DEF Settled, Alone, a, c
      <3> QED  BY <1>1, <1>9, <2>3, <3>1 DEF CallPart, a, c
    <2> QED  BY <2>2, <2>3
  <1>13. ASSUME NEW s \in inflight' PROVE OnItsWay(s, asked'[s.call], log', inflight')
    <2>1. s \in inflight /\ (s.call = c => a.opts.retry)
      BY <1>1, <1>3
    <2>2. OnItsWay(s, asked[s.call], log, inflight)
      BY <2>1 DEF LogInv
    <2>3. Upto(log', s.call, asked[s.call], Earlier(asked[s.call], s.pos))
      BY <1>14, <2>1, <2>2 DEF OnItsWay, a, c
    <2> QED  BY <1>1, <1>4, <2>2, <2>3 DEF OnItsWay
  <1> QED  BY <1>11, <1>12, <1>13 DEF LogInv, ProcessPart, CallPart

LEMMA LogDrop ==
  ASSUME TypeInv, LogInv, Unanswered', NEW r \in inflight, Drop(r) PROVE LogInv'
  <1>0. /\ pc \in [Process -> Places] /\ inflight' \subseteq inflight
        /\ UNCHANGED <<log, generation, asked, answered, calls, local, iterator>>
    BY DEF TypeInv, TypeOK, Places, Drop
  <1>1. ASSUME NEW q \in Process PROVE ProcessPart(q)'
    <2> SUFFICES ASSUME pc'[q] # "idle" PROVE ProcessPart(q)'
      BY DEF ProcessPart
    <2>1. Current(q)' = Current(q) /\ Asked(q)' = Asked(q)
      BY <1>0 DEF Current, Asked
    <2>2. pc'[q] = pc[q] \/ pc'[q] = "failed"
      BY <1>0 DEF Drop, Answer
    <2>3. CASE pc'[q] = pc[q]
      <3>1. At(pc[q], local[q], Current(q), Asked(q), log, inflight)
        BY <2>3 DEF LogInv
      <3>2. At(pc[q], local[q], Current(q), Asked(q), log, inflight')
        BY <1>0, <3>1, AtKept
      <3> QED  BY <1>0, <2>1, <2>3, <3>2 DEF ProcessPart
    <2>4. CASE pc'[q] = "failed"
      BY <2>4 DEF ProcessPart, At
    <2> QED  BY <2>2, <2>3, <2>4
  <1>2. ASSUME NEW d \in Call PROVE CallPart(d)'
    BY <1>0 DEF LogInv, CallPart, Settled, Quiet, Alone
  <1>3. ASSUME NEW s \in inflight' PROVE OnItsWay(s, asked'[s.call], log', inflight')
    BY <1>0 DEF LogInv, OnItsWay
  <1> QED  BY <1>1, <1>2, <1>3 DEF LogInv, ProcessPart, CallPart

LEMMA LogExit ==
  ASSUME TypeInv, LogInv, Unanswered', NEW p \in Process, OperateExit(p) \/ OrderedExit(p)
  PROVE  LogInv'
  <1> DEFINE c == Current(p)
  <1>0. /\ pc \in [Process -> Places] /\ DOMAIN answered = Call
        /\ pc[p] = "exit" /\ pc' = [pc EXCEPT ![p] = "idle"]
        /\ UNCHANGED <<log, generation, inflight, asked, calls, local, iterator>>
    BY DEF TypeInv, TypeOK, Places, OperateExit, OrderedExit, Returned
  <1>1. c \in Call /\ c = <<p, calls[p]>>
    BY <1>0, InCall DEF Current
  <1>2. PICK answer :
           /\ answered' = [answered EXCEPT ![c] = answer]
           /\ asked[c].method = "operate" =>
                 answer.status = local[p].status /\ answer.error = local[p].error
    <2>1. CASE OperateExit(p)
      <3> DEFINE answer == [status |-> local[p].status, error |-> local[p].error,
                            results |-> <<>>]
      <3>1. answered' = [answered EXCEPT ![c] = answer]
        BY <2>1 DEF OperateExit, Returned
      <3>2. answer.status = local[p].status /\ answer.error = local[p].error
        OBVIOUS
      <3> HIDE DEF answer
      <3> QED  BY <3>1, <3>2
    <2>2. CASE OrderedExit(p)
      <3>1. asked[c].method # "operate"
        BY <2>2 DEF OrderedExit, Ordered, Asked
      <3>2. \E answer : answered' = [answered EXCEPT ![c] = answer]
        BY <2>2 DEF OrderedExit, Returned
      <3> QED  BY <3>1, <3>2
    <2> QED  BY <2>1, <2>2
  <1>3. answered'[c] = answer /\ \A d \in Call : d # c => answered'[d] = answered[d]
    BY <1>0, <1>1, <1>2
  <1>4. ASSUME NEW q \in Process PROVE ProcessPart(q)'
    <2>1. Current(q)' = Current(q) /\ Asked(q)' = Asked(q)
      BY <1>0 DEF Current, Asked
    <2>2. pc'[q] = pc[q] \/ pc'[q] = "idle"
      BY <1>0
    <2> QED  BY <1>0, <2>1, <2>2 DEF LogInv, ProcessPart
  <1>5. ASSUME NEW d \in Call PROVE CallPart(d)'
    <2>1. /\ InLog(d, asked[d], log, generation)
          /\ Settled(d, asked[d], answered[d], d[2] <= calls[d[1]], log, inflight)
      BY DEF LogInv
    <2>2. CASE d # c
      BY <1>0, <1>3, <2>1, <2>2 DEF CallPart
    <2>3. CASE d = c
      <3>1. At("exit", local[p], c, asked[c], log, inflight)
        BY <1>0 DEF LogInv, Asked
      <3>2. asked[c].method = "operate" /\ answer.status = "OK" /\ answer.error = "OK" =>
               Alone(inflight, c, asked[c]) /\ Upto(log, c, asked[c], WorkOf(asked[c]))
        BY <1>2, <3>1 DEF At
      <3> HIDE DEF c
      <3>3. Settled(c, asked[c], answer, c[2] <= calls[c[1]], log, inflight)
        BY <2>1, <2>3, <3>2 DEF Settled
      <3> QED  BY <1>0, <1>3, <2>1, <2>3, <3>3 DEF CallPart
    <2> QED  BY <2>2, <2>3
  <1>6. ASSUME NEW s \in inflight' PROVE OnItsWay(s, asked'[s.call], log', inflight')
    BY <1>0 DEF LogInv
  <1> QED  BY <1>4, <1>5, <1>6 DEF LogInv, ProcessPart, CallPart

LEMMA LogNext == TypeInv /\ LogInv /\ [Next]_vars => LogInv'
  <1> SUFFICES ASSUME TypeInv, LogInv, [Next]_vars PROVE LogInv'
    OBVIOUS
  <1>1. Unanswered'
    BY UnansweredNext DEF LogInv
  <1>2. ASSUME NEW p \in Process, NEW method \in Method, NEW list \in OpLists,
               NEW opts \in Options,
               Rejected(p, method, list, opts) \/ Begin(p, method, list, opts)
        PROVE  LogInv'
    BY <1>1, <1>2, LogCall
  <1>3. ASSUME NEW p \in Process, Inner(p) PROVE LogInv'
    BY <1>1, <1>3, LogInner
  <1>4. ASSUME NEW p \in Process, Sending(p) PROVE LogInv'
    BY <1>1, <1>4, LogSend
  <1>5. ASSUME NEW r \in inflight, Apply(r) PROVE LogInv'
    BY <1>1, <1>5, LogApply
  <1>6. ASSUME NEW r \in inflight, Drop(r) PROVE LogInv'
    BY <1>1, <1>6, LogDrop
  <1>7. ASSUME NEW p \in Process, OperateExit(p) \/ OrderedExit(p) PROVE LogInv'
    BY <1>1, <1>7, LogExit
  <1>8. CASE UNCHANGED vars
    BY <1>8 DEF vars, LogInv, Unanswered, Current, Asked
  <1> QED
    BY <1>2, <1>3, <1>4, <1>5, <1>6, <1>7, <1>8 DEF Next, Walk, Finish, Inner, Sending

LEMMA LogInit == Init => LogInv
  <1> SUFFICES ASSUME Init PROVE LogInv
    OBVIOUS
  <1>1. Unanswered /\ \A p \in Process : pc[p] = "idle"
    BY DEF Init, Unanswered
  <1>2. inflight = {} /\ \A c : AppliedIn(log, c) = {}
    BY DEF Init, AppliedIn
  <1>3. \A c : Quiet(inflight, c) /\ DonePos(log, c) = {}
    BY <1>2 DEF Quiet, DonePos
  <1>4. \A c \in Call : asked[c].method = "none"
    BY DEF Init, NoCall
  <1>5. \A c \in Call : InLog(c, asked[c], log, generation)
    BY <1>2, <1>3, <1>4 DEF InLog
  <1>6. \A c \in Call :
           Settled(c, asked[c], answered[c], c[2] <= calls[c[1]], log, inflight)
    BY <1>3, <1>4 DEF Settled
  <1> QED  BY <1>1, <1>2, <1>5, <1>6 DEF LogInv

LEMMA LogHolds == Spec => [](TypeInv /\ LogInv)
  BY TypesHold, LogInit, LogNext, PTL DEF Spec

\* A list given to operate() without a retry is applied at once, in order and with
\* nothing of another process inside, all of it that puts something into the request,
\* or not at all, whatever was lost or came late.
THEOREM OperateAtomic == Spec => []OperateIsAtomic
  <1>1. LogInv => OperateIsAtomic
    <2> SUFFICES ASSUME LogInv, NEW c \in Call, asked[c].method = "operate",
                        ~asked[c].opts.retry, Applied(c) # {}
                 PROVE  /\ \A i, j \in Applied(c) : i < j => log[i].pos < log[j].pos
                        /\ \A i, j \in Applied(c) : i .. j \subseteq Applied(c)
                        /\ {log[i].pos : i \in Applied(c)} = Work(c)
      BY DEF OperateIsAtomic
    <2>1. /\ Applied(c) = AppliedIn(log, c) /\ Work(c) = WorkOf(asked[c])
          /\ {log[i].pos : i \in Applied(c)} = DonePos(log, c)
      BY DEF Applied, AppliedIn, Work, WorkOf, DonePos
    <2>2. InLog(c, asked[c], log, generation)
      BY DEF LogInv
    <2> QED  BY <2>1, <2>2 DEF InLog
  <1> QED  BY <1>1, LogHolds, PTL

\* What operateOrdered() has applied is a beginning of its list, but for items that are
\* no array; each operation once and in order, if nothing is sent again.
THEOREM OrderedPrefix == Spec => []OrderedIsPrefix
  <1>1. LogInv => OrderedIsPrefix
    <2> SUFFICES ASSUME LogInv, NEW c \in Call, NEW i \in Applied(c)
                 PROVE  /\ \A j \in Applied(c) :
                              i < j => log[i].pos < log[j].pos \/ asked[c].opts.retry
                        /\ \A k \in Work(c) : k < log[i].pos =>
                              \E j \in Applied(c) : log[j].pos = k
      BY DEF OrderedIsPrefix
    <2>1. Applied(c) = AppliedIn(log, c) /\ Work(c) = WorkOf(asked[c])
      BY DEF Applied, AppliedIn, Work, WorkOf
    <2>2. InLog(c, asked[c], log, generation)
      BY DEF LogInv
    <2>3. \A k \in DonePos(log, c) : \E j \in Applied(c) : log[j].pos = k
      BY <2>1 DEF DonePos
    <2> QED  BY <2>1, <2>2, <2>3 DEF InLog
  <1> QED  BY <1>1, LogHolds, PTL

\* When operate() returns OK, and errorno() is OK as well, all of the list that put
\* something into the request was applied, and without a retry just once and with
\* nothing left on its way; of items that are no array nothing is told.
OperateTells ==
    \A c \in Call :
        /\ asked[c].method = "operate"
        /\ answered[c].status = "OK" /\ answered[c].error = "OK"
        => /\ {log[i].pos : i \in Applied(c)} = Work(c)
           /\ ~asked[c].opts.retry =>
                 /\ Cardinality(Applied(c)) = Cardinality(Work(c))
                 /\ \A r \in inflight : r.call # c

\* OK from operate(), with OK from errorno(), means that all operations of the list but
\* items that are no array were applied, and none is applied later but by a retry.
THEOREM OperateTellsTheTruth == Spec => []OperateTells
  <1>1. TypeInv /\ LogInv => OperateTells
    <2> SUFFICES ASSUME TypeInv, LogInv, NEW c \in Call, asked[c].method = "operate",
                        answered[c].status = "OK", answered[c].error = "OK"
                 PROVE  /\ {log[i].pos : i \in Applied(c)} = Work(c)
                        /\ ~asked[c].opts.retry =>
                              /\ Cardinality(Applied(c)) = Cardinality(Work(c))
                              /\ \A r \in inflight : r.call # c
      BY DEF OperateTells
    <2> DEFINE A == AppliedIn(log, c)
               W == WorkOf(asked[c])
               f == [i \in A |-> log[i].pos]
    <2>1. /\ Applied(c) = A /\ Work(c) = W
          /\ {log[i].pos : i \in Applied(c)} = DonePos(log, c)
      BY DEF Applied, AppliedIn, Work, WorkOf, DonePos
    <2>2. /\ Alone(inflight, c, asked[c]) /\ Upto(log, c, asked[c], W)
          /\ InLog(c, asked[c], log, generation)
      BY DEF LogInv, Settled
    <2>3. DonePos(log, c) = W
      BY <2>2 DEF Upto, InLog
    <2>4. A \subseteq 1 .. Len(log) /\ Len(log) \in Nat
      BY DEF TypeInv, TypeOK, AppliedIn
    <2>5. IsFiniteSet(A)
      <3>1. IsFiniteSet(1 .. Len(log))
        BY <2>4, FS_Interval
      <3> HIDE DEF A
      <3> QED  BY <2>4, <3>1, FS_Subset
    <2>6. ASSUME ~asked[c].opts.retry PROVE Cardinality(A) = Cardinality(W)
      <3>1. W \subseteq Nat
        BY ListType, WorkType
      <3>2. \A i \in A : f[i] \in W
        BY <2>3 DEF DonePos
      <3>3. \A i, j \in A : f[i] = f[j] => i = j
        <4> SUFFICES ASSUME NEW i \in A, NEW j \in A, i # j PROVE f[i] # f[j]
          OBVIOUS
        <4>1. i \in Int /\ j \in Int /\ f[i] \in Int /\ f[j] \in Int
          BY <2>4, <3>1, <3>2
        <4>2. (i < j => f[i] < f[j]) /\ (j < i => f[j] < f[i])
          BY <2>2, <2>6 DEF InLog
        <4> HIDE DEF f
        <4> QED  BY <4>1, <4>2
      <3>4. \A k \in W : \E i \in A : f[i] = k
        BY <2>3 DEF DonePos
      <3> HIDE DEF W
      <3>5. f \in Bijection(A, W)
        BY <3>2, <3>3, <3>4 DEF Bijection, Injection, Surjection, IsInjective
      <3> HIDE DEF A, f
      <3> QED  BY <2>5, <3>5, FS_Bijection DEF ExistsBijection
    <2> HIDE DEF A, W
    <2> QED  BY <2>1, <2>2, <2>3, <2>6 DEF Alone, Quiet
  <1> QED  BY <1>1, LogHolds, PTL

\* With POLICY_GEN_EQ a list given to operateOrdered() writes at most once: its
\* own first write moves the generation on.
GenerationWritesOnce ==
    \A c \in Call :
        asked[c].method = "operateOrdered" /\ asked[c].opts.gen # None =>
            Cardinality({i \in Applied(c) : log[i].write}) <= 1

\* With POLICY_GEN_EQ a list given to operateOrdered() writes at most once.
THEOREM GenerationWrites == Spec => []GenerationWritesOnce
  <1>1. TypeInv /\ LogInv => GenerationWritesOnce
    <2> SUFFICES ASSUME TypeInv, LogInv, NEW c \in Call,
                        asked[c].method = "operateOrdered", asked[c].opts.gen # None
                 PROVE  Cardinality({i \in Applied(c) : log[i].write}) <= 1
      BY DEF GenerationWritesOnce
    <2> DEFINE W == {i \in Applied(c) : log[i].write}
    <2>1. \A i, j \in W : i = j
      BY DEF LogInv, InLog, Applied, AppliedIn
    <2>2. W = {} \/ \E x : W = {x}
      <3>1. \A x \in W : W = {x}
        BY <2>1
      <3> HIDE DEF W
      <3> QED  BY <3>1
    <2> HIDE DEF W
    <2>3. Cardinality(W) \in {0, 1}
      BY <2>2, FS_EmptySet, FS_Singleton
    <2> QED  BY <2>3 DEF W
  <1> QED  BY <1>1, LogHolds, PTL
-----------------------------------------------------------------------------
(* The promise of RecordLog.                                               *)

\* The operations results has entries for.
Told(results) == {results[i].pos : i \in DOMAIN results}

\* A call has results for what was applied or does nothing, the last one perhaps for
\* what failed.
Truly(w, l, c, a, lg) ==
    \A i \in DOMAIN l.results :
        \/ l.results[i].pos \in DonePos(lg, c)
        \/ l.results[i].pos \notin WorkOf(a)
        \/ w = "exit" /\ i = Len(l.results) /\ l.error # "OK"

\* A call of operateOrdered() has sent nothing the walk did not take, and as long as there
\* is no error has a result for each of its answers.
Follows(w, l, c, lg, fl) ==
    /\ \A k \in DonePos(lg, c) : k < l.pos
    /\ \A s \in fl : s.call = c => s.pos <= l.pos
    /\ w \in {"walk", "exit"} /\ l.error = "OK" => 1 .. (l.pos - 1) \subseteq Told(l.results)
    /\ w \in {"send", "sent", "resent", "succeeded"} =>
          1 .. (l.pos - 2) \subseteq Told(l.results)

\* A call at place w with locals l; without an error it leaves no request behind but by
\* a retry.
DoneAt(w, l, c, a, lg, fl) ==
    /\ Truly(w, l, c, a, lg)
    /\ w = "exit" /\ l.error = "OK" => Alone(fl, c, a)
    /\ a.method # "operate" => Follows(w, l, c, lg, fl)

DoneInv ==
    /\ \A p \in Process : pc[p] # "idle" =>
          DoneAt(pc[p], local[p], Current(p), Asked(p), log, inflight)
    /\ \A c \in Call : answered[c].error = "OK" => Alone(inflight, c, asked[c])

\* A step of another process, of the server, or one that sends.
LEMMA DoneKept ==
  ASSUME NEW w, NEW l, NEW c, NEW a, NEW lg, NEW fl, NEW lg2, NEW fl2, NEW w2,
         DoneAt(w, l, c, a, lg, fl),
         DonePos(lg, c) \subseteq DonePos(lg2, c), Alone(fl, c, a) => Alone(fl2, c, a),
         \/ w2 = w
         \/ w \in {"send", "sent"} /\ w2 \in {"sent", "resent"}
         \/ w \in {"sent", "resent"} /\ w2 \in {"succeeded", "failed"},
         a.method # "operate" =>
            /\ \A k \in DonePos(lg2, c) : k \in DonePos(lg, c) \/ k < l.pos
            /\ \A s \in fl2 : s.call = c => s \in fl \/ s.pos <= l.pos
  PROVE  DoneAt(w2, l, c, a, lg2, fl2)
  <1>1. Truly(w2, l, c, a, lg2)
    BY DEF DoneAt, Truly
  <1>2. w2 = "exit" /\ l.error = "OK" => Alone(fl2, c, a)
    BY DEF DoneAt
  <1>3. a.method # "operate" => Follows(w2, l, c, lg2, fl2)
    BY DEF DoneAt, Follows
  <1> QED  BY <1>1, <1>2, <1>3 DEF DoneAt

\* Another entry of the results.
LEMMA MoreTold ==
  ASSUME NEW R \in Seq(Result), NEW x \in Result
  PROVE  /\ Told(Append(R, x)) = Told(R) \cup {x.pos}
         /\ \A i \in DOMAIN Append(R, x) :
               \/ i = Len(Append(R, x))
               \/ i \in DOMAIN R /\ Append(R, x)[i] = R[i]
  <1> DEFINE S == Append(R, x)
             n == Len(R)
  <1>1. /\ DOMAIN R = 1 .. n /\ DOMAIN S = 1 .. (n + 1) /\ Len(S) = n + 1 /\ n \in Nat
        /\ S[n + 1] = x /\ \A i \in 1 .. n : S[i] = R[i]
    OBVIOUS
  <1> HIDE DEF S, n
  <1>2. \A i \in 1 .. (n + 1) : i \in 1 .. n \/ i = n + 1
    BY <1>1
  <1>3. n + 1 \in 1 .. (n + 1) /\ 1 .. n \subseteq 1 .. (n + 1)
    BY <1>1
  <1>4. Told(S) = Told(R) \cup {x.pos}
    BY <1>1, <1>2, <1>3 DEF Told
  <1>5. \A i \in DOMAIN S : i = Len(S) \/ (i \in DOMAIN R /\ S[i] = R[i])
    <2> SUFFICES ASSUME NEW i \in 1 .. (n + 1), i # n + 1 PROVE i \in DOMAIN R /\ S[i] = R[i]
      BY <1>1
    <2> QED  BY <1>1, <1>2
  <1> QED  BY <1>4, <1>5 DEF S

LEMMA InnerDone ==
  ASSUME TypeInv, LogInv, DoneInv, NEW p \in Process, Inner(p)
  PROVE  DoneAt(pc'[p], local'[p], Current(p), Asked(p), log, inflight)
  <1> DEFINE l == local[p]
             c == Current(p)
             a == Asked(p)
  <1>0. /\ pc[p] # "idle" /\ l \in Locals /\ a.method \in Method
        /\ pc \in [Process -> Places] /\ local \in [Process -> Locals]
    BY InnerEffect, InCall DEF TypeInv, TypeOK, Places, Locals
  <1>1. At(pc[p], l, c, a, log, inflight) /\ DoneAt(pc[p], l, c, a, log, inflight)
    BY <1>0 DEF LogInv, DoneInv
  <1>2. pc[p] \in {"walk", "succeeded"} => Alone(inflight, c, a)
    BY <1>1 DEF At
  <1>3. Truly(pc[p], l, c, a, log) /\ (a.method # "operate" => Follows(pc[p], l, c, log, inflight))
    BY <1>1 DEF DoneAt
  <1>14. l.pos \in Nat \ {0} /\ l.results \in Seq(Result)
    BY <1>0 DEF Locals
  <1>15. Ordered(p) <=> a.method # "operate"
    BY <1>0 DEF Ordered, Method
  <1> DEFINE Goal == DoneAt(pc'[p], local'[p], c, a, log, inflight)
  <1>4. ASSUME pc[p] # "exit", local'[p].results = l.results,
               pc'[p] = "exit" /\ local'[p].error = "OK" => Alone(inflight, c, a),
               a.method # "operate" =>
                  /\ local'[p].pos = l.pos /\ pc'[p] \in {"failed", "exit"}
                  /\ pc'[p] = "exit" /\ local'[p].error = "OK" => pc[p] = "walk" /\ l.error = "OK"
        PROVE  Goal
    <2>1. Truly(pc'[p], local'[p], c, a, log)
      BY <1>3, <1>4 DEF Truly
    <2>2. a.method # "operate" => Follows(pc'[p], local'[p], c, log, inflight)
      BY <1>3, <1>4 DEF Follows
    <2> QED  BY <1>4, <2>1, <2>2 DEF DoneAt
  <1> HIDE DEF Goal
  <1>5. CASE Stop(p)
    <2> DEFINE e == IF a.opts.bad = "gen" THEN "PARAM" ELSE l.error
    <2>1. /\ pc[p] = "walk" /\ pc'[p] = "exit" /\ e # "OK"
          /\ local' = [local EXCEPT ![p] = [l EXCEPT !.error = e]]
      BY <1>0, <1>5 DEF Stop, Stopped, Walking
    <2> HIDE DEF e
    <2>2. local'[p].results = l.results /\ local'[p].pos = l.pos /\ local'[p].error = e
      BY <1>0, <2>1 DEF Locals
    <2> QED  BY <1>4, <2>1, <2>2 DEF Goal
  <1>6. CASE Refuse(p)
    <2>1. pc[p] = "walk" /\ pc'[p] = "exit" /\ local'[p] = Refused(p) /\ ~Stopped(p)
      BY <1>0, <1>6 DEF Refuse, Walking
    <2>2. /\ Refused(p).results = l.results /\ Refused(p).pos = l.pos
          /\ Refused(p).error = "OK" => l.error = "OK"
      BY <1>0 DEF Refused, Locals
    <2> QED  BY <1>2, <1>4, <2>1, <2>2 DEF Goal
  <1>7. CASE TakeOp(p)
    <2>1. /\ pc[p] = "walk" /\ local'[p] = TookOp(p) /\ ~Stopped(p)
          /\ pc'[p] = IF Ordered(p) THEN "send" ELSE "walk"
      BY <1>0, <1>7 DEF TakeOp, TookOp, Walking
    <2>2. TookOp(p).results = l.results /\ TookOp(p).pos = l.pos + 1
      BY <1>7, TookOpType DEF TakeOp
    <2>3. CASE ~Ordered(p)
      BY <1>2, <1>4, <1>15, <2>1, <2>2, <2>3 DEF Goal
    <2>4. CASE Ordered(p)
      <3>1. l.error = "OK" /\ Follows("walk", l, c, log, inflight)
        BY <1>3, <1>15, <2>1, <2>4 DEF Stopped
      <3>2. /\ \A k \in DonePos(log, c) : k < l.pos
            /\ \A s \in inflight : s.call = c => s.pos <= l.pos
            /\ 1 .. (l.pos - 1) \subseteq Told(l.results)
        BY <3>1 DEF Follows
      <3>3. DonePos(log, c) \subseteq Nat
        <4>1. DonePos(log, c) \subseteq WorkOf(a) /\ asked[c].list \in Seq(OpRecord) /\ a = asked[c]
          BY <1>0, InCall, ListType DEF LogInv, InLog, Asked
        <4> QED  BY <4>1, WorkType
      <3>4. \A s \in inflight : s.pos \in Nat
        BY DEF TypeInv, TypeOK
      <3>5. \A k \in Nat : (k < l.pos => k < l.pos + 1) /\ (k <= l.pos => k <= l.pos + 1)
        BY <1>14
      <3>6. l.pos + 1 - 2 = l.pos - 1
        BY <1>14
      <3>9. /\ local'[p].pos = l.pos + 1 /\ local'[p].results = l.results
        BY <2>1, <2>2
      <3>10. /\ \A k \in DonePos(log, c) : k < l.pos + 1
             /\ \A s \in inflight : s.call = c => s.pos <= l.pos + 1
        BY <3>2, <3>3, <3>4, <3>5
      <3>11. 1 .. (local'[p].pos - 2) \subseteq Told(local'[p].results)
        <4>1. local'[p].pos - 2 = l.pos - 1
          BY <1>14, <3>6, <3>9
        <4> QED  BY <3>2, <3>9, <4>1
      <3>12. /\ \A k \in DonePos(log, c) : k < local'[p].pos
             /\ \A s \in inflight : s.call = c => s.pos <= local'[p].pos
        BY <3>9, <3>10
      <3>7. Follows("send", local'[p], c, log, inflight)
        BY <3>11, <3>12 DEF Follows
      <3>8. Truly("send", local'[p], c, a, log)
        BY <1>3, <2>1, <2>2 DEF Truly
      <3> QED  BY <2>1, <2>4, <3>7, <3>8 DEF Goal, DoneAt
    <2> QED  BY <2>3, <2>4
  <1>8. CASE EndOfList(p)
    <2>1. /\ local'[p] = l /\ pc[p] = "walk" /\ pc'[p] = IF Ordered(p) THEN "exit" ELSE "send"
      BY <1>0, <1>8 DEF EndOfList
    <2> QED  BY <1>2, <1>4, <1>15, <2>1 DEF Goal
  <1>16. CASE Timeout(p)
    <2>1. local'[p] = l /\ pc[p] \in {"sent", "resent"} /\ pc'[p] = "failed"
      BY <1>0, <1>16 DEF Timeout
    <2> QED  BY <1>4, <2>1 DEF Goal
  <1>9. CASE BadTtl(p)
    <2>1. /\ pc[p] = "send" /\ pc'[p] = "exit"
          /\ local' = [local EXCEPT ![p] = [l EXCEPT !.error = "PARAM"]]
      BY <1>0, <1>9 DEF BadTtl
    <2>2. local'[p].results = l.results /\ local'[p].pos = l.pos /\ local'[p].error = "PARAM"
      BY <1>0, <2>1 DEF Locals
    <2> QED  BY <1>4, <2>1, <2>2 DEF Goal
  <1>10. CASE OperateSucceeded(p)
    <2>1. PICK e : /\ pc[p] = "succeeded" /\ ~Ordered(p)
                   /\ local' = [local EXCEPT ![p] = [l EXCEPT !.error = e]]
      BY <1>10 DEF OperateSucceeded
    <2>2. local'[p].results = l.results
      BY <1>0, <2>1 DEF Locals
    <2> QED  BY <1>2, <1>4, <1>15, <2>1, <2>2 DEF Goal
  <1>11. CASE OperateFailed(p)
    <2>1. /\ pc[p] = "failed" /\ ~Ordered(p)
          /\ local' = [local EXCEPT ![p] = [l EXCEPT !.status = "SERVER", !.error = "SERVER"]]
      BY <1>11 DEF OperateFailed
    <2>2. local'[p].results = l.results /\ local'[p].error = "SERVER"
      BY <1>0, <2>1 DEF Locals
    <2> QED  BY <1>4, <1>15, <2>1, <2>2 DEF Goal
  <1>17. EntryOf(p).pos = l.pos - 1 /\ EntryOf(p) \in Result
    BY EntryType DEF EntryOf
  <1>12. CASE OrderedSucceeded(p)
    <2>0. pc[p] = "succeeded" /\ pc'[p] = "walk" /\ a.method # "operate"
      BY <1>0, <1>12 DEF OrderedSucceeded, Ordered
    <2>1. l.pos - 1 \in DonePos(log, c) \/ l.pos - 1 \notin WorkOf(a)
      <3>1. Upto(log, c, a, Later(a, l.pos))
        BY <1>1, <2>0 DEF At
      <3>2. {k \in WorkOf(a) : k < l.pos} \subseteq DonePos(log, c)
        BY <2>0, <3>1 DEF Upto, Later, Walked
      <3>3. l.pos - 1 < l.pos
        BY <1>14
      <3> QED  BY <3>2, <3>3
    <2>2. \A k \in Told(l.results) : k \in DonePos(log, c) \/ k \notin WorkOf(a)
      BY <1>3, <2>0 DEF Truly, Told
    <2>3. /\ \A k \in DonePos(log, c) : k < l.pos
          /\ \A s \in inflight : s.call = c => s.pos <= l.pos
          /\ 1 .. (l.pos - 2) \subseteq Told(l.results)
      BY <1>3, <2>0 DEF Follows
    <2>4. \A k \in 1 .. (l.pos - 1) : k \in 1 .. (l.pos - 2) \/ k = l.pos - 1
      BY <1>14
    <2>5. ASSUME NEW R, local'[p].results = R, local'[p].pos = l.pos,
                 Told(R) \subseteq Told(l.results) \cup {l.pos - 1},
                 local'[p].error = "OK" => Told(l.results) \cup {l.pos - 1} \subseteq Told(R)
          PROVE  Goal
      <3>1. \A k \in Told(R) : k \in DonePos(log, c) \/ k \notin WorkOf(a)
        BY <2>1, <2>2, <2>5
      <3>2. Truly("walk", local'[p], c, a, log)
        BY <2>5, <3>1 DEF Truly, Told
      <3>3. Follows("walk", local'[p], c, log, inflight)
        BY <2>3, <2>4, <2>5 DEF Follows
      <3> QED  BY <2>0, <3>2, <3>3 DEF Goal, DoneAt
    <2>6. Told(WithEntry(p)) = Told(l.results) \cup {l.pos - 1}
      BY <1>14, <1>17, MoreTold DEF WithEntry
    <2>7. Told(Append(WithBare(p), EntryOf(p))) = Told(l.results) \cup {l.pos - 1}
      <3>1. WithBare(p) \in Seq(Result) /\ BareOf(p) \in Result
        BY EntryType
      <3>2. BareOf(p).pos = l.pos - 1
        BY <1>17 DEF BareOf, EntryOf
      <3>3. Told(WithBare(p)) \in {Told(l.results), Told(l.results) \cup {l.pos - 1}}
        BY <1>14, <3>1, <3>2, MoreTold DEF WithBare
      <3>4. Told(Append(WithBare(p), EntryOf(p))) = Told(WithBare(p)) \cup {l.pos - 1}
        BY <1>17, <3>1, MoreTold
      <3> QED  BY <3>3, <3>4
    <2>8. \/ local' = [local EXCEPT ![p] = [l EXCEPT !.results = WithEntry(p), !.rec = TRUE]]
          \/ local' = [local EXCEPT ![p] =
                          [l EXCEPT !.rec = TRUE, !.results = Append(WithBare(p), EntryOf(p))]]
          \/ local' = [local EXCEPT ![p] = [l EXCEPT !.error = "CLIENT", !.rec = TRUE]]
      BY <1>12 DEF OrderedSucceeded, WithResult, WithDouble, WithEntry, WithBare, BareOf
    <2>9. CASE local' = [local EXCEPT ![p] = [l EXCEPT !.results = WithEntry(p), !.rec = TRUE]]
      <3>1. local'[p].results = WithEntry(p) /\ local'[p].pos = l.pos
        BY <1>0, <2>9 DEF Locals
      <3> QED  BY <2>5, <2>6, <3>1 DEF Goal
    <2>10. CASE local' = [local EXCEPT ![p] =
                   [l EXCEPT !.rec = TRUE, !.results = Append(WithBare(p), EntryOf(p))]]
      <3>1. /\ local'[p].results = Append(WithBare(p), EntryOf(p))
            /\ local'[p].pos = l.pos
        BY <1>0, <2>10 DEF Locals
      <3> QED  BY <2>5, <2>7, <3>1 DEF Goal
    <2>11. CASE local' = [local EXCEPT ![p] = [l EXCEPT !.error = "CLIENT", !.rec = TRUE]]
      <3>1. /\ local'[p].results = l.results /\ local'[p].pos = l.pos
            /\ local'[p].error = "CLIENT"
        BY <1>0, <2>11 DEF Locals
      <3> QED  BY <2>5, <3>1 DEF Goal
    <2> QED  BY <2>8, <2>9, <2>10, <2>11
  <1>13. CASE OrderedFailed(p)
    <2>1. /\ pc[p] = "failed" /\ pc'[p] = "exit" /\ a.method # "operate"
          /\ local' = [local EXCEPT ![p] = [l EXCEPT !.status = "SERVER", !.error = "SERVER",
                                                     !.results = WithEntry(p)]]
      BY <1>0, <1>13 DEF OrderedFailed, WithEntry, Ordered
    <2>2. /\ local'[p].results = WithEntry(p) /\ local'[p].error = "SERVER"
          /\ local'[p].pos = l.pos
      BY <1>0, <2>1 DEF Locals
    <2>3. \A i \in DOMAIN WithEntry(p) :
             i = Len(WithEntry(p)) \/ (i \in DOMAIN l.results /\ WithEntry(p)[i] = l.results[i])
      BY <1>14, <1>17, MoreTold DEF WithEntry
    <2>4. Truly("exit", local'[p], c, a, log)
      BY <1>3, <2>1, <2>2, <2>3 DEF Truly
    <2>5. Follows("exit", local'[p], c, log, inflight)
      BY <1>3, <2>1, <2>2 DEF Follows
    <2> QED  BY <2>1, <2>2, <2>4, <2>5 DEF DoneAt, Goal
  <1> QED
    BY <1>5, <1>6, <1>7, <1>8, <1>9, <1>10, <1>11, <1>12, <1>13, <1>16 DEF Inner, Goal

LEMMA DoneNext == TypeInv /\ LogInv /\ DoneInv /\ [Next]_vars => DoneInv'
  <1> SUFFICES ASSUME TypeInv, LogInv, DoneInv, [Next]_vars PROVE DoneInv'
    OBVIOUS
  <1>0. /\ pc \in [Process -> Places] /\ calls \in [Process -> 0 .. MaxCalls]
        /\ local \in [Process -> Locals] /\ DOMAIN answered = Call /\ DOMAIN asked = Call
        /\ log \in Seq(Entry)
    BY DEF TypeInv, TypeOK, Places, Locals
  <1>1. ASSUME NEW p \in Process, NEW method \in Method, NEW list \in OpLists,
               NEW opts \in Options,
               Rejected(p, method, list, opts) \/ Begin(p, method, list, opts)
        PROVE  DoneInv'
    <2> DEFINE c0 == <<p, calls[p] + 1>>
               a0 == [method |-> method, list |-> list, opts |-> opts]
    <2>0. /\ MayCall(p) /\ pc[p] = "idle" /\ UNCHANGED <<log, inflight>>
          /\ calls' = [calls EXCEPT ![p] = calls[p] + 1]
          /\ asked' = [asked EXCEPT ![c0] = a0]
      BY <1>1 DEF Rejected, Begin, MayCall
    <2>1. calls[p] + 1 \in 1 .. MaxCalls /\ ~(calls[p] + 1 <= calls[p]) /\ c0 \in Call
      BY <1>0, <2>0, Room, CallPairs, OperateAssumption
    <2>4. Quiet(inflight, c0) /\ DonePos(log, c0) = {}
      BY <2>1 DEF LogInv, Settled
    <2>5. asked'[c0] = a0 /\ \A c \in Call : c # c0 => asked'[c] = asked[c]
      BY <1>0, <2>0, <2>1
    <2>2. ASSUME NEW q \in Process, pc'[q] # "idle"
          PROVE  DoneAt(pc'[q], local'[q], Current(q)', Asked(q)', log', inflight')
      <3>1. CASE q # p
        <4>1. /\ pc'[q] = pc[q] /\ local'[q] = local[q] /\ Current(q)' = Current(q)
          BY <1>0, <1>1, <2>0, <3>1 DEF Rejected, Begin, Current
        <4>2. Current(q) \in Call /\ Current(q) # c0
          BY <2>2, <3>1, <4>1, InCall DEF Current
        <4>3. Asked(q)' = Asked(q)
          BY <2>5, <4>1, <4>2 DEF Asked
        <4> QED  BY <2>0, <2>2, <4>1, <4>3 DEF DoneInv
      <3>2. CASE q = p
        <4>1. Begin(p, method, list, opts)
          BY <1>1, <2>0, <2>2, <3>2 DEF Rejected
        <4>2. local'[q].results = <<>> /\ local'[q].pos = 1
          <5>1. PICK index \in Index : local' = [local EXCEPT ![p] =
                  CASE opts.bad = "policy" ->
                           [Fresh(index) EXCEPT !.status = "PARAM", !.error = "PARAM"]
                    [] opts.bad = "gen" /\ method = "operate" ->
                           [Fresh(index) EXCEPT !.error = "PARAM"]
                    [] OTHER -> Fresh(index)]
            BY <4>1 DEF Begin
          <5> QED  BY <1>0, <3>2, <5>1 DEF Fresh
        <4>3. pc'[q] = IF local'[q].error = "OK" THEN "walk" ELSE "exit"
          BY <1>0, <3>2, <4>1 DEF Begin
        <4>4. Current(q)' = c0
          BY <1>0, <2>0, <3>2 DEF Current
        <4> HIDE DEF c0
        <4>5. Truly(pc'[q], local'[q], c0, Asked(q)', log)
          BY <4>2 DEF Truly
        <4>6. 1 .. (local'[q].pos - 1) = {}
          BY <4>2
        <4>7. Follows(pc'[q], local'[q], c0, log, inflight)
          BY <2>4, <4>3, <4>6 DEF Follows, Quiet
        <4>8. Alone(inflight, c0, Asked(q)')
          BY <2>4 DEF Alone
        <4> QED  BY <2>0, <4>4, <4>5, <4>7, <4>8 DEF DoneAt
      <3> QED  BY <3>1, <3>2
    <2>3. ASSUME NEW c \in Call, answered'[c].error = "OK" PROVE Alone(inflight', c, asked'[c])
      <3>0. \/ answered' = answered
            \/ answered' = [answered EXCEPT ![c0] =
                              [status |-> "PARAM", error |-> "PARAM", results |-> <<>>]]
        BY <1>1 DEF Rejected, Begin
      <3>1. [status |-> "PARAM", error |-> "PARAM", results |-> <<>>].error = "PARAM"
        OBVIOUS
      <3>3. CASE c = c0
        <4> HIDE DEF c0
        <4> QED  BY <2>0, <2>4, <3>3 DEF Alone
      <3>4. CASE c # c0
        <4>1. answered'[c] = answered[c]
          BY <1>0, <2>1, <3>0, <3>4
        <4> QED  BY <2>0, <2>3, <2>5, <3>4, <4>1 DEF DoneInv
      <3> QED  BY <3>3, <3>4
    <2> QED  BY <2>2, <2>3 DEF DoneInv
  <1>2. ASSUME NEW p \in Process, Inner(p) PROVE DoneInv'
    <2>1. /\ pc[p] # "idle" /\ UNCHANGED <<log, inflight, asked, answered, calls>>
          /\ \E w \in Places, l \in Locals :
                pc' = [pc EXCEPT ![p] = w] /\ local' = [local EXCEPT ![p] = l]
      BY <1>2, InnerEffect
    <2>2. ASSUME NEW q \in Process, pc'[q] # "idle"
          PROVE  DoneAt(pc'[q], local'[q], Current(q)', Asked(q)', log', inflight')
      <3>1. Current(q)' = Current(q) /\ Asked(q)' = Asked(q)
        BY <2>1 DEF Current, Asked
      <3>2. CASE q = p
        BY <1>2, <2>1, <3>1, <3>2, InnerDone
      <3>3. CASE q # p
        <4>1. pc'[q] = pc[q] /\ local'[q] = local[q]
          BY <1>0, <2>1, <3>3
        <4> QED  BY <2>1, <2>2, <3>1, <4>1 DEF DoneInv
      <3> QED  BY <3>2, <3>3
    <2> QED  BY <2>1, <2>2 DEF DoneInv
  <1>3. ASSUME NEW p \in Process, Sending(p) PROVE DoneInv'
    <2>0. PICK w \in {"sent", "resent"}, k \in {1, 2} :
             /\ pc' = [pc EXCEPT ![p] = w]
             /\ inflight' = inflight \cup {RequestOf(Current(p), Asked(p), local[p], k)}
             /\ \/ pc[p] = "send" /\ w = "sent"
                \/ pc[p] = "sent" /\ w = "resent" /\ Asked(p).opts.retry
             /\ UNCHANGED <<log, asked, answered, calls, local>>
      BY <1>3, SendEffect
    <2> DEFINE r == RequestOf(Current(p), Asked(p), local[p], k)
    <2>1. r.call = Current(p) /\ r.pos = local[p].pos
      BY DEF RequestOf
    <2> HIDE DEF r
    <2>2. \A s \in inflight' : s \in inflight \/ s = r
      BY <2>0 DEF r
    <2>3. \A c : c # Current(p) => (Quiet(inflight, c) => Quiet(inflight', c))
      BY <2>1, <2>2 DEF Quiet
    <2>4. ASSUME NEW q \in Process, pc'[q] # "idle"
          PROVE  DoneAt(pc'[q], local'[q], Current(q)', Asked(q)', log', inflight')
      <3>1. Current(q)' = Current(q) /\ Asked(q)' = Asked(q) /\ local'[q] = local[q] /\ log' = log
        BY <2>0 DEF Current, Asked
      <3>2. CASE q = p
        <4>1. pc'[q] = w
          BY <1>0, <2>0, <3>2
        <4>2. /\ Truly(pc[q], local[q], Current(q), Asked(q), log)
              /\ Asked(q).method # "operate" => Follows(pc[q], local[q], Current(q), log, inflight)
          BY <2>0, <3>2 DEF DoneInv, DoneAt
        <4>3. Truly(w, local[q], Current(q), Asked(q), log)
          BY <2>0, <3>2, <4>2 DEF Truly
        <4>4. local[q].pos <= local[q].pos
          BY DEF TypeInv, TypeOK
        <4>5. Asked(q).method # "operate" => Follows(w, local[q], Current(q), log, inflight')
          BY <2>0, <2>1, <2>2, <3>2, <4>2, <4>4 DEF Follows
        <4> QED  BY <3>1, <4>1, <4>3, <4>5 DEF DoneAt
      <3>3. CASE q # p
        <4>1. pc'[q] = pc[q] /\ Current(q) # Current(p)
          BY <1>0, <2>0, <3>3 DEF Current
        <4>2. DoneAt(pc[q], local[q], Current(q), Asked(q), log, inflight)
          BY <2>4, <4>1 DEF DoneInv
        <4>3. Alone(inflight, Current(q), Asked(q)) => Alone(inflight', Current(q), Asked(q))
          BY <2>3, <4>1 DEF Alone
        <4>4. \A s \in inflight' : s.call = Current(q) => s \in inflight
          BY <2>1, <2>2, <4>1
        <4>5. DoneAt(pc[q], local[q], Current(q), Asked(q), log, inflight')
          BY <4>2, <4>3, <4>4, DoneKept
        <4> QED  BY <3>1, <4>1, <4>5
      <3> QED  BY <3>2, <3>3
    <2>5. answered[Current(p)].error # "OK"
      BY <2>0 DEF LogInv, Unanswered, NoAnswer
    <2>6. ASSUME NEW c \in Call, answered'[c].error = "OK" PROVE Alone(inflight', c, asked'[c])
      <3>1. answered[c].error = "OK" /\ c # Current(p) /\ asked'[c] = asked[c]
        BY <2>0, <2>5, <2>6
      <3> QED  BY <2>3, <3>1 DEF DoneInv, Alone
    <2> QED  BY <2>4, <2>6 DEF DoneInv
  <1>4. ASSUME NEW r \in inflight, Apply(r) \/ Drop(r) PROVE DoneInv'
    <2>1. /\ UNCHANGED <<asked, answered, calls, local>> /\ inflight' = inflight \ {r}
      BY <1>4 DEF Apply, Drop
    <2>2. /\ \A d : DonePos(log, d) \subseteq DonePos(log', d)
          /\ \A d : d # r.call => DonePos(log', d) = DonePos(log, d)
          /\ \A k \in DonePos(log', r.call) :
                k \in DonePos(log, r.call) \cup InPortion(asked[r.call], r.pos)
      <3>1. CASE Apply(r)
        BY <3>1, ApplyEffect
      <3>2. CASE Drop(r)
        BY <3>2 DEF Drop
      <3> QED  BY <1>4, <3>1, <3>2
    <2>3. \A c, a : Alone(inflight, c, a) => Alone(inflight', c, a)
      BY <2>1 DEF Quiet, Alone
    <2>4. ASSUME NEW q \in Process, pc'[q] # "idle"
          PROVE  DoneAt(pc'[q], local'[q], Current(q)', Asked(q)', log', inflight')
      <3>1. Current(q)' = Current(q) /\ Asked(q)' = Asked(q)
        BY <2>1 DEF Current, Asked
      <3>2. \/ pc'[q] = pc[q]
            \/ pc[q] \in {"sent", "resent"} /\ pc'[q] \in {"succeeded", "failed"}
        BY <1>0, <1>4 DEF Apply, Drop, Answer
      <3>3. DoneAt(pc[q], local[q], Current(q), Asked(q), log, inflight)
        BY <2>4, <3>2 DEF DoneInv
      <3> DEFINE c == Current(q)
                 a == Asked(q)
      <3>4. ASSUME a.method # "operate", NEW k \in DonePos(log', c)
            PROVE  k \in DonePos(log, c) \/ k < local[q].pos
        <4>1. CASE r.call # c
          BY <2>2, <3>4, <4>1
        <4>2. CASE r.call = c
          <5>1. r.pos <= local[q].pos
            BY <3>3, <3>4, <4>2 DEF DoneAt, Follows
          <5>2. k \in DonePos(log, c) \/ k \in InPortion(a, r.pos)
            BY <2>2, <3>4, <4>2 DEF Asked
          <5>3. k \in InPortion(a, r.pos) => k = r.pos - 1
            BY <3>4 DEF InPortion
          <5>4. r.pos \in Nat /\ local[q].pos \in Nat
            BY DEF TypeInv, TypeOK
          <5>5. r.pos - 1 < local[q].pos
            BY <5>1, <5>4
          <5> QED  BY <5>2, <5>3, <5>5
        <4> QED  BY <4>1, <4>2
      <3>5. DonePos(log, c) \subseteq DonePos(log', c)
        BY <2>2
      <3>6. \A s \in inflight' : s \in inflight
        BY <2>1
      <3>7. Alone(inflight, c, a) => Alone(inflight', c, a)
        BY <2>3
      <3> HIDE DEF c, a
      <3>8. DoneAt(pc'[q], local[q], c, a, log', inflight')
        BY <3>2, <3>3, <3>4, <3>5, <3>6, <3>7, DoneKept DEF c, a
      <3> QED  BY <2>1, <3>1, <3>8 DEF c, a
    <2> QED  BY <2>1, <2>3, <2>4 DEF DoneInv
  <1>5. ASSUME NEW p \in Process, OperateExit(p) \/ OrderedExit(p) PROVE DoneInv'
    <2>1. PICK error, a :
             /\ pc[p] = "exit" /\ pc' = [pc EXCEPT ![p] = "idle"]
             /\ UNCHANGED <<log, inflight, asked, calls, local>>
             /\ answered' = [answered EXCEPT ![Current(p)] = a]
             /\ a.error = error /\ error \in {"PARAM", local[p].error}
      <3>1. PICK status, error, results :
               /\ pc[p] = "exit" /\ Returned(p, status, error, results)
               /\ error \in {"PARAM", local[p].error}
        BY <1>5 DEF OperateExit, OrderedExit
      <3> DEFINE a == [status |-> status, error |-> error, results |-> results]
      <3>2. /\ pc' = [pc EXCEPT ![p] = "idle"]
            /\ UNCHANGED <<log, inflight, asked, calls, local>>
            /\ answered' = [answered EXCEPT ![Current(p)] = a]
        BY <3>1 DEF Returned
      <3>3. a.error = error
        OBVIOUS
      <3> HIDE DEF a
      <3> QED  BY <3>1, <3>2, <3>3
    <2>2. ASSUME NEW q \in Process, pc'[q] # "idle"
          PROVE  DoneAt(pc'[q], local'[q], Current(q)', Asked(q)', log', inflight')
      <3>1. pc'[q] = pc[q] /\ Current(q)' = Current(q) /\ Asked(q)' = Asked(q)
        BY <1>0, <2>1, <2>2 DEF Current, Asked
      <3> QED  BY <2>1, <2>2, <3>1 DEF DoneInv
    <2>3. ASSUME NEW c \in Call, answered'[c].error = "OK" PROVE Alone(inflight', c, asked'[c])
      <3>1. CASE c = Current(p)
        <4>1. local[p].error = "OK"
          BY <1>0, <2>1, <2>3, <3>1
        <4>2. DoneAt("exit", local[p], c, asked[c], log, inflight)
          BY <2>1, <3>1 DEF DoneInv, Asked
        <4> QED  BY <2>1, <4>1, <4>2 DEF DoneAt
      <3>2. CASE c # Current(p)
        <4>1. answered'[c] = answered[c]
          BY <1>0, <2>1, <3>2
        <4> QED  BY <2>1, <2>3, <4>1 DEF DoneInv
      <3> QED  BY <3>1, <3>2
    <2> QED  BY <2>2, <2>3 DEF DoneInv
  <1>6. CASE UNCHANGED vars
    BY <1>6 DEF vars, DoneInv, Current, Asked
  <1> QED
    BY <1>1, <1>2, <1>3, <1>4, <1>5, <1>6 DEF Next, Walk, Finish, Inner, Sending

LEMMA DoneInit == Init => DoneInv
  BY DEF Init, DoneInv, Quiet, Alone

LEMMA DoneHolds == Spec => [](TypeInv /\ LogInv /\ DoneInv)
  BY LogHolds, DoneInit, DoneNext, PTL DEF Spec

LEMMA LogInitRefines == Init => Applications!RInit
  BY DEF Init, Applications!RInit, Applications!Made, Applications!Returned, NoCall, NoAnswer

LEMMA PositionsAre == \A c : Applications!Positions(c) = DonePos(log, c)
  BY DEF Applications!Positions, DonePos, AppliedIn

\* A call that is refused at once or begins.
LEMMA AskRefines ==
  ASSUME TypeInv, NEW p \in Process, NEW method \in Method, NEW list \in OpLists,
         NEW opts \in Options,
         Rejected(p, method, list, opts) \/ Begin(p, method, list, opts)
  PROVE  \E c \in Call : Applications!Ask(c)
  <1>0. PICK c : c = <<p, calls[p] + 1>>
    OBVIOUS
  <1> DEFINE a == [method |-> method, list |-> list, opts |-> opts]
             refusal == [status |-> "PARAM", error |-> "PARAM", results |-> <<>>]
  <1>1. /\ MayCall(p) /\ UNCHANGED <<log, generation>>
        /\ asked' = [asked EXCEPT ![c] = a]
        /\ answered' = answered \/ answered' = [answered EXCEPT ![c] = refusal]
    BY <1>0 DEF Rejected, Begin
  <1>2. c \in Call /\ calls[p] + 1 \in 1 .. MaxCalls /\ ~(calls[p] + 1 <= calls[p])
    <2>1. calls[p] \in 0 .. MaxCalls
      BY DEF TypeInv, TypeOK
    <2> QED  BY <1>0, <1>1, <2>1, Room, CallPairs, OperateAssumption
  <1>3. asked[c].method = "none" /\ answered[c].status = "none"
    BY <1>0, <1>2 DEF TypeInv, CallsAsked, NoCall, NoAnswer
  <1>4. DOMAIN asked = Call /\ DOMAIN answered = Call
    BY DEF TypeInv, TypeOK
  <1>5. a.method # "none" /\ refusal.status # "none" /\ refusal.error # "OK"
    BY DEF Method
  <1> HIDE DEF a, refusal
  <1>6. asked'[c] = a
    BY <1>1, <1>2, <1>4
  <1>7. \/ answered' = answered
        \/ answered' = [answered EXCEPT ![c] = refusal] /\ answered'[c] = refusal
    BY <1>1, <1>2, <1>4
  <1>8. ~Applications!Made(c) /\ Applications!Made(c)' /\ ~Applications!Returned(c)
    BY <1>3, <1>5, <1>6 DEF Applications!Made, Applications!Returned
  <1>9. asked' = [asked EXCEPT ![c] = asked'[c]]
    BY <1>1, <1>6
  <1>10. \/ UNCHANGED answered
         \/ /\ Applications!Returned(c)' /\ answered'[c].error # "OK"
            /\ answered' = [answered EXCEPT ![c] = answered'[c]]
    BY <1>5, <1>7 DEF Applications!Returned
  <1>11. Applications!Ask(c)
    BY <1>1, <1>8, <1>9, <1>10 DEF Applications!Ask
  <1> QED  BY <1>2, <1>11

\* The portion a request adds to the log.
LEMMA PortionIs ==
  ASSUME NEW lg \in Seq(Entry), NEW ops \in Seq(Entry)
  PROVE  SubSeq(lg \o ops, Len(lg) + 1, Len(lg \o ops)) = ops
  <1> DEFINE t == SubSeq(lg \o ops, Len(lg) + 1, Len(lg \o ops))
  <1>1. /\ lg \o ops \in Seq(Entry) /\ Len(lg \o ops) = Len(lg) + Len(ops)
        /\ Len(lg) \in Nat /\ Len(ops) \in Nat
    OBVIOUS
  <1>2. \A i \in 1 .. Len(ops) : (lg \o ops)[Len(lg) + i] = ops[i]
    OBVIOUS
  <1>3. CASE Len(ops) = 0
    <2>1. t = <<>> /\ ops = <<>>
      BY <1>1, <1>3, SubSeqEmpty
    <2> QED  BY <2>1
  <1>4. CASE Len(ops) > 0
    <2>1. \A i \in (Len(lg) + 1) .. (Len(lg) + Len(ops)) : (lg \o ops)[i] \in Entry
      BY <1>1
    <2>2. /\ t \in Seq(Entry) /\ Len(t) = Len(ops)
          /\ \A i \in 1 .. Len(ops) : t[i] = (lg \o ops)[Len(lg) + i]
      BY <1>1, <1>4
    <2>3. \A i \in 1 .. Len(ops) : t[i] = ops[i]
      BY <1>2, <2>2
    <2> HIDE DEF t
    <2> QED  BY <2>2, <2>3
  <1> QED  BY <1>1, <1>3, <1>4

\* A request is applied: a portion of its list, or nothing at all.
LEMMA ApplyRefines ==
  ASSUME TypeInv, LogInv, DoneInv, NEW r \in inflight, Apply(r)
  PROVE  \/ \E c \in Call : Applications!Perform(c)
         \/ UNCHANGED <<log, generation, asked, answered>>
  <1> DEFINE c == r.call
             a == asked[r.call]
             ops == r.ops
             P == InPortion(a, r.pos)
             earlier == {k \in Applications!Work(c) : \A i \in DOMAIN ops : k < ops[i].pos}
  <1>0. log \in Seq(Entry) /\ ops \in Seq(Entry) /\ c \in Call /\ a.list \in Seq(OpRecord)
    BY ListType DEF TypeInv, TypeOK
  <1>1. /\ IsWrite(r) /\ r.gen # None => r.gen = generation
        /\ log' = log \o ops
        /\ generation' = (IF IsWrite(r) THEN generation + 1 ELSE generation)
        /\ UNCHANGED <<asked, answered>>
    BY DEF Apply
  <1>2. Proper(a, r) /\ Upto(log, c, a, Earlier(a, r.pos))
    BY DEF LogInv, OnItsWay
  <1>3. answered[c].error # "OK" \/ a.opts.retry
    BY <1>0 DEF DoneInv, Alone, Quiet
  <1>4. DOMAIN ops = 1 .. Len(ops) /\ Len(ops) \in Nat
    BY <1>0
  <1>5. /\ \A i, j \in DOMAIN ops : ops[i].call = c /\ (i < j => ops[i].pos < ops[j].pos)
        /\ {ops[i].pos : i \in DOMAIN ops} = P
    BY <1>2, <1>4 DEF Proper, OfCall
  <1>6. Applications!Work(c) = WorkOf(a)
    BY DEF Applications!Work, WorkOf
  <1>7. WorkOf(a) \subseteq Nat /\ P \subseteq WorkOf(a)
    BY <1>0, <1>2, WorkType, PortionOf DEF Proper
  <1>8. Applications!Portion = ops
    BY <1>0, <1>1, PortionIs DEF Applications!Portion
  <1>9. a.method # "none" /\ a.method \in Method /\ r.gen = a.opts.gen
    BY <1>2 DEF Proper, Method
  <1>10. IsWrite(r) <=> \E i \in DOMAIN ops : ops[i].write
    BY DEF IsWrite
  <1>11. CASE ops = <<>>
    <2>1. ~IsWrite(r) /\ log \o <<>> = log
      BY <1>0, <1>11 DEF IsWrite
    <2> QED  BY <1>1, <1>11, <2>1
  <1>12. CASE ops # <<>>
    <2>1. Len(ops) \in Nat \ {0} /\ 1 \in DOMAIN ops
      BY <1>0, <1>12
    <2>2. ops[1].pos \in P
      BY <1>5, <2>1
    <2> HIDE DEF P
    <2>3. \A k : (\A i \in DOMAIN ops : k < ops[i].pos) <=> \A j \in P : k < j
      BY <1>5
    <2>4. earlier = Earlier(a, r.pos)
      <3>1. earlier = {k \in WorkOf(a) : \A j \in P : k < j}
        BY <1>6, <2>3
      <3> HIDE DEF earlier
      <3>2. CASE a.method = "operate"
        <4>1. P = WorkOf(a) /\ Earlier(a, r.pos) = {}
          BY <3>2 DEF P, InPortion, Earlier, Walked
        <4>2. \A k \in WorkOf(a) : ~(k < k)
          BY <1>7
        <4> QED  BY <3>1, <4>1, <4>2
      <3>3. CASE a.method # "operate"
        <4>1. Earlier(a, r.pos) = {k \in WorkOf(a) : k < r.pos - 1}
          BY <3>3 DEF Earlier, Walked
        <4>2. P = {r.pos - 1}
          BY <2>2, <3>3 DEF P, InPortion
        <4> QED  BY <3>1, <4>1, <4>2
      <3> QED  BY <3>2, <3>3
    <2>5. IF a.method = "operate" THEN {ops[i].pos : i \in DOMAIN ops} = Applications!Work(c)
          ELSE Len(ops) = 1 /\ ops[1].pos \in Applications!Work(c)
      <3>1. CASE a.method = "operate"
        BY <1>5, <1>6, <3>1 DEF P, InPortion
      <3>2. CASE a.method # "operate"
        <4>1. Len(ops) <= 1
          BY <1>2, <3>2 DEF Proper
        <4>2. \A k \in Nat \ {0} : k <= 1 => k = 1
          OBVIOUS
        <4>3. Len(ops) = 1
          BY <2>1, <4>1, <4>2
        <4> QED  BY <1>6, <1>7, <2>2, <3>2, <4>3
      <3> QED  BY <3>1, <3>2
    <2>6. earlier \subseteq DonePos(log, c) /\ (a.opts.retry \/ DonePos(log, c) = earlier)
      BY <1>2, <2>4 DEF Upto
    <2>7. Applications!Positions(c) = DonePos(log, c)
      BY PositionsAre
    <2>8. IsWrite(r) => a.opts.gen \in {None, generation}
      BY <1>1, <1>9
    <2> HIDE DEF c, a, ops
    <2>9. Applications!Perform(c)
      BY <1>1, <1>3, <1>5, <1>8, <1>9, <1>10, <1>12, <2>5, <2>6, <2>7, <2>8
         DEF Applications!Perform, Applications!Made, c, a, ops
    <2> QED  BY <1>0, <2>9
  <1> QED  BY <1>11, <1>12

\* A call returns.
LEMMA ExitRefines ==
  ASSUME TypeInv, LogInv, DoneInv, NEW p \in Process, OperateExit(p) \/ OrderedExit(p)
  PROVE  \E c \in Call : Applications!Return(c)
  <1>current. PICK c : c = Current(p)
    OBVIOUS
  <1> DEFINE l == local[p]
  <1>0. pc[p] = "exit" /\ UNCHANGED <<log, generation, asked>>
    BY DEF OperateExit, OrderedExit, Returned
  <1>1. /\ c \in Call /\ Asked(p).method \in Method /\ l \in Locals
        /\ DOMAIN answered = Call /\ Asked(p) = asked[c]
    BY <1>0, <1>current, InCall DEF TypeInv, TypeOK, Asked
  <1>2. PICK a :
          /\ answered' = [answered EXCEPT ![c] = a]
          /\ a.status \in Status
          /\ asked[c].method = "operate" => a.status = l.status
          /\ \/ a.error = l.error /\ a.results \in {<<>>, l.results}
             \/ a.error = "PARAM" /\ a.results = <<>> /\ asked[c].method # "operate"
          /\ asked[c].method # "operate" /\ a.error = "OK" =>
                a.error = l.error /\ a.results = l.results
    <2>1. PICK status, error, results :
             /\ Returned(p, status, error, results) /\ status \in Status
             /\ asked[c].method = "operate" => status = l.status
             /\ \/ error = l.error /\ results \in {<<>>, l.results}
                \/ error = "PARAM" /\ results = <<>> /\ asked[c].method # "operate"
             /\ asked[c].method # "operate" /\ error = "OK" =>
                   error = l.error /\ results = l.results
      <3>1. l.status \in Status /\ {"OK", "CLIENT"} \subseteq Status
        BY <1>1 DEF Locals, Status
      <3>2. CASE OperateExit(p)
        <4>1. asked[c].method = "operate" /\ Returned(p, l.status, l.error, <<>>)
          BY <1>1, <3>2 DEF OperateExit, Ordered, Method
        <4> QED  BY <3>1, <4>1
      <3>3. CASE OrderedExit(p)
        <4>1. asked[c].method # "operate"
          BY <1>1, <3>3 DEF OrderedExit, Ordered
        <4>2. \/ Returned(p, "OK", l.error, l.results)
              \/ Returned(p, "CLIENT", "PARAM", <<>>)
          BY <3>3 DEF OrderedExit
        <4> QED  BY <3>1, <4>1, <4>2
      <3> QED  BY <3>2, <3>3
    <2> DEFINE a == [status |-> status, error |-> error, results |-> results]
    <2>2. answered' = [answered EXCEPT ![c] = a]
      BY <1>current, <2>1 DEF Returned
    <2>3. a.status = status /\ a.error = error /\ a.results = results
      OBVIOUS
    <2> HIDE DEF a, l
    <2> QED  BY <2>1, <2>2, <2>3
  <1>3. At("exit", l, c, asked[c], log, inflight) /\ DoneAt("exit", l, c, asked[c], log, inflight)
    BY <1>0, <1>1, <1>current DEF LogInv, DoneInv
  <1>4. answered[c].status = "none"
    BY <1>0, <1>current DEF LogInv, Unanswered, NoAnswer
  <1>13. DonePos(log, c) \subseteq WorkOf(asked[c]) /\ WorkOf(asked[c]) \subseteq Nat \ {0}
    BY <1>1, ListType, WorkType DEF LogInv, InLog
  <1>14. Applications!Work(c) = WorkOf(asked[c])
    BY DEF Applications!Work, WorkOf
  <1>5. asked[c].method = "operate" /\ a.status = "OK" /\ a.error = "OK" =>
           DonePos(log, c) = WorkOf(asked[c])
    <2>1. asked[c].method = "operate" /\ a.error = "OK" => l.error = "OK"
      BY <1>2
    <2> QED  BY <1>2, <1>3, <1>13, <2>1 DEF At, Upto
  <1>15. asked[c].method = "operateOrdered" /\ a.error = "OK" =>
            DonePos(log, c) \subseteq Told(a.results)
    <2> SUFFICES ASSUME asked[c].method # "operate", a.error = "OK", NEW k \in DonePos(log, c)
                 PROVE  k \in Told(a.results)
      OBVIOUS
    <2>1. l.error = "OK" /\ a.results = l.results
      BY <1>2
    <2>2. Follows("exit", l, c, log, inflight)
      BY <1>3 DEF DoneAt
    <2>3. k < l.pos /\ 1 .. (l.pos - 1) \subseteq Told(l.results)
      BY <2>1, <2>2 DEF Follows
    <2>4. l.pos \in Nat /\ k \in Nat \ {0}
      BY <1>1, <1>13 DEF Locals
    <2> QED  BY <2>1, <2>3, <2>4
  <1>6. \A i \in DOMAIN a.results :
           \/ a.results[i].pos \in DonePos(log, c)
           \/ a.results[i].pos \notin WorkOf(asked[c])
           \/ i = Len(a.results) /\ a.error # "OK"
    BY <1>2, <1>3 DEF DoneAt, Truly
  <1> HIDE DEF l
  <1>7. answered'[c] = a
    BY <1>1, <1>2
  <1>8. asked[c].method # "none" /\ a.status # "none"
    BY <1>1, <1>2 DEF Method, Status
  <1>9. Applications!Made(c) /\ ~Applications!Returned(c) /\ Applications!Returned(c)'
    BY <1>4, <1>7, <1>8 DEF Applications!Made, Applications!Returned
  <1>10. answered' = [answered EXCEPT ![c] = answered'[c]]
    BY <1>2, <1>7
  <1>11. Applications!Positions(c) = DonePos(log, c)
    BY PositionsAre
  <1>12. Applications!Return(c)
    BY <1>0, <1>5, <1>6, <1>7, <1>9, <1>10, <1>11, <1>14, <1>15 DEF Applications!Return, Told
  <1> QED  BY <1>1, <1>12

LEMMA LogNextRefines ==
  TypeInv /\ LogInv /\ DoneInv /\ [Next]_vars =>
      Applications!RNext \/ UNCHANGED Applications!rvars
  <1> SUFFICES ASSUME TypeInv, LogInv, DoneInv, [Next]_vars
               PROVE  Applications!RNext \/ UNCHANGED <<log, generation, asked, answered>>
    BY DEF Applications!rvars
  <1>1. ASSUME NEW p \in Process, NEW method \in Method, NEW list \in OpLists,
               NEW opts \in Options,
               Rejected(p, method, list, opts) \/ Begin(p, method, list, opts)
        PROVE  Applications!RNext
    BY <1>1, AskRefines DEF Applications!RNext
  <1>2. ASSUME NEW p \in Process, Inner(p) PROVE UNCHANGED <<log, generation, asked, answered>>
    BY <1>2, InnerEffect
  <1>3. ASSUME NEW p \in Process, Sending(p)
        PROVE  UNCHANGED <<log, generation, asked, answered>>
    BY <1>3, SendEffect
  <1>4. ASSUME NEW r \in inflight, Apply(r)
        PROVE  Applications!RNext \/ UNCHANGED <<log, generation, asked, answered>>
    BY <1>4, ApplyRefines DEF Applications!RNext
  <1>5. ASSUME NEW r \in inflight, Drop(r) PROVE UNCHANGED <<log, generation, asked, answered>>
    BY <1>5 DEF Drop
  <1>6. ASSUME NEW p \in Process, OperateExit(p) \/ OrderedExit(p) PROVE Applications!RNext
    BY <1>6, ExitRefines DEF Applications!RNext
  <1>7. CASE UNCHANGED vars
    BY <1>7 DEF vars
  <1> QED
    BY <1>1, <1>2, <1>3, <1>4, <1>5, <1>6, <1>7 DEF Next, Walk, Finish, Inner, Sending

\* operate() and operateOrdered() do to a record what RecordLog says: a list goes to
\* it in whole portions, each in its place, none after the call returned without an
\* error but by a retry; OK from operate() is for the whole list, and a result is for
\* what was applied (aerospike_record_operations_operate, _operate_ordered).
THEOREM OperateImplementsLog == Spec => ImplementsLog
  <1>1. Init => Applications!RInit
    BY LogInitRefines
  <1>2. TypeInv /\ LogInv /\ DoneInv /\ [Next]_vars =>
            Applications!RNext \/ UNCHANGED Applications!rvars
    BY LogNextRefines
  <1> QED  BY <1>1, <1>2, DoneHolds, PTL DEF Spec, ImplementsLog, Applications!RSpec

=============================================================================
