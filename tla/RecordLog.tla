----------------------------- MODULE RecordLog -------------------------------
(***************************************************************************)
(* What operate() and operateOrdered() promise of a record, without the    *)
(* requests, the walk over the list and its local variables: the list of   *)
(* a call is applied in portions, of the whole list or of one operation,   *)
(* each at once and in order.  A call that returns without an error has no *)
(* portion left to be applied later, and none is applied twice, unless its *)
(* requests may be sent again.  RecordOperate is shown to implement this.  *)
(***************************************************************************)
EXTENDS Integers, Sequences

CONSTANTS
    Call,
    Adds(_),     \* an operation of a list that does something to the record
    None

VARIABLES
    log,         \* of the record: the operations applied to it, in order
    generation,  \* of the record: one more with each portion that writes
    asked,       \* of each call: its method, list and options
    answered     \* of each call: what it returned

rvars == <<log, generation, asked, answered>>

Made(c)     == asked[c].method # "none"
Returned(c) == answered[c].status # "none"
Positions(c) == {log[i].pos : i \in {j \in DOMAIN log : log[j].call = c}}

\* The operations of the list of c that are to be applied.
Work(c) == {k \in DOMAIN asked[c].list : Adds(asked[c].list[k])}

RInit ==
    /\ log = <<>> /\ generation = 0
    /\ \A c \in Call : ~Made(c) /\ ~Returned(c)

\* A call is made; it may be refused at once.
Ask(c) ==
    /\ ~Made(c) /\ Made(c)'
    /\ asked' = [asked EXCEPT ![c] = asked'[c]]
    /\ \/ UNCHANGED answered
       \/ /\ ~Returned(c) /\ Returned(c)' /\ answered'[c].error # "OK"
          /\ answered' = [answered EXCEPT ![c] = answered'[c]]
    /\ UNCHANGED <<log, generation>>

\* The operations by which a step makes the log longer.
Portion == SubSeq(log', Len(log) + 1, Len(log'))

\* A portion of the list of call c is applied: the one whose turn it is, or again one
\* that was applied, if c asks for a retry; a portion that writes only at the
\* generation it names.
Perform(c) ==
    LET ops == Portion
        retry   == asked[c].opts.retry
        earlier == {k \in Work(c) : \A i \in DOMAIN ops : k < ops[i].pos}
        writes  == \E i \in DOMAIN ops : ops[i].write
    IN  /\ Made(c) /\ (answered[c].error # "OK" \/ retry)
        /\ log' = log \o ops /\ ops # <<>>
        /\ \A i, j \in DOMAIN ops : ops[i].call = c /\ (i < j => ops[i].pos < ops[j].pos)
        /\ IF asked[c].method = "operate" THEN {ops[i].pos : i \in DOMAIN ops} = Work(c)
           ELSE Len(ops) = 1 /\ ops[1].pos \in Work(c)
        /\ earlier \subseteq Positions(c) /\ (retry \/ Positions(c) = earlier)
        /\ writes => asked[c].opts.gen \in {None, generation}
        /\ generation' = IF writes THEN generation + 1 ELSE generation
        /\ UNCHANGED <<asked, answered>>

\* OK from operate() is for the whole list.  A result is for an operation that was
\* applied or does nothing, but for the last one when there is an error; when there is
\* none, operateOrdered() has a result for all that was applied.
Return(c) ==
    LET answer == answered'[c]
        told   == {answer.results[i].pos : i \in DOMAIN answer.results}
        good   == answer.status = "OK" /\ answer.error = "OK"
    IN  /\ Made(c) /\ ~Returned(c) /\ Returned(c)'
        /\ answered' = [answered EXCEPT ![c] = answer]
        /\ asked[c].method = "operate" /\ good => Positions(c) = Work(c)
        /\ asked[c].method = "operateOrdered" /\ good => Positions(c) \subseteq told
        /\ \A i \in DOMAIN answer.results :
              \/ answer.results[i].pos \in Positions(c)
              \/ answer.results[i].pos \notin Work(c)
              \/ i = Len(answer.results) /\ answer.error # "OK"
        /\ UNCHANGED <<log, generation, asked>>

RNext == \E c \in Call : Ask(c) \/ Perform(c) \/ Return(c)

RSpec == RInit /\ [][RNext]_rvars

=============================================================================
