----------------------------- MODULE SessionData -----------------------------
(***************************************************************************)
(* aerospike_session_handler.c: $_SESSION of the requests that carry one   *)
(* session id, and the record that keeps it between them.                  *)
(*                                                                         *)
(* A request reads the record when its session starts and writes all of it *)
(* back when it ends, or destroys it; the handler takes no lock, and every *)
(* write starts the life time of the record anew.  A request to the server *)
(* may be taken after the C client has given it up.                        *)
(*                                                                         *)
(* The contents of a session are the requests whose change it holds.       *)
(***************************************************************************)
EXTENDS Naturals, FiniteSets

CONSTANT
    Request      \* the requests of all processes that carry the session id

VARIABLES
    record,      \* on the server: the bin PHP_SESSION of the record; {} if there is none
    pc,          \* of each request: where its session is
    session,     \* of each request: $_SESSION
    blind,       \* the requests whose PS_READ failed although there may be a record
    sent,        \* of each request: what is on its way to the server
    \* History:
    taken,       \* the requests whose write the server took
    missed,      \* of each request: the writes taken between its read and its own
    lost,        \* changes that an accepted cause took out of the record
    stale,       \* the requests between whose read and write the record was removed
    gone,        \* changes that were in the record when it was removed
    returned     \* those that a stale request brought back since the last removal

serverVars == <<record, taken, missed, lost, stale, gone, returned>>
vars == <<pc, session, blind, sent, serverVars>>

TypeOK ==
    /\ pc \in [Request -> {"new", "open", "waiting", "answered", "saved", "destroyed", "failed"}]
    /\ session \in [Request -> SUBSET Request]
    /\ sent \in [Request -> {"nothing", "put", "remove"}]
    /\ \A r \in Request : sent[r] # "nothing" => pc[r] \in {"waiting", "failed"}
    /\ missed \in [Request -> SUBSET Request]
    /\ {record, blind, taken, lost, stale, gone, returned} \subseteq SUBSET Request

Init ==
    /\ record = {}
    /\ pc = [r \in Request |-> "new"]
    /\ session = [r \in Request |-> {}]
    /\ sent = [r \in Request |-> "nothing"]
    /\ missed = [r \in Request |-> {}]
    /\ blind = {} /\ taken = {} /\ lost = {} /\ stale = {} /\ gone = {} /\ returned = {}

-----------------------------------------------------------------------------
(* The handler, in the process of request r.                               *)

\* session_start() goes on with the data of PS_READ, and with nothing when that
\* fails (PHP from 7.1 on ends it there); the script then changes the session.
Starts(r, data) ==
    /\ pc[r] = "new"
    /\ pc' = [pc EXCEPT ![r] = "open"]
    /\ session' = [session EXCEPT ![r] = data \cup {r}]

\* Mutant: the bin is looked for under another name than it is written.
ReadNothing(r) ==
    /\ Starts(r, {})
    /\ UNCHANGED <<blind, sent, serverVars>>

\* PS_READ: the record is there, or aerospike_key_get says that it is not.
Read(r) ==
    /\ Starts(r, record)
    /\ UNCHANGED <<blind, sent, serverVars>>

\* PS_READ: no session object, no answer in time, or no bin that can be read.
ReadFails(r) ==
    /\ Starts(r, {})
    /\ blind' = blind \cup {r}
    /\ UNCHANGED <<sent, serverVars>>

Sends(r, op) ==
    /\ pc[r] = "open"
    /\ pc' = [pc EXCEPT ![r] = "waiting"]
    /\ sent' = [sent EXCEPT ![r] = op]
    /\ UNCHANGED <<session, blind, serverVars>>

\* PS_WRITE, at the end of the request or at session_write_close().
Write(r) == Sends(r, "put")

\* PS_DESTROY; the request writes nothing after it.
Destroy(r) == Sends(r, "remove")

\* PS_WRITE and PS_DESTROY end before they reach the server.
Refused(r) ==
    /\ pc[r] = "open"
    /\ pc' = [pc EXCEPT ![r] = "failed"]
    /\ UNCHANGED <<session, blind, sent, serverVars>>

\* They return SUCCESS; to PS_DESTROY a record that is not found is one.
Succeeds(r, end) ==
    /\ pc[r] = "answered"
    /\ end = IF r \in taken THEN "saved" ELSE "destroyed"
    /\ pc' = [pc EXCEPT ![r] = end]
    /\ UNCHANGED <<session, blind, sent, serverVars>>

\* They return FAILURE, as the answer is an error or does not come in time.
GivesUp(r) ==
    /\ pc[r] \in {"waiting", "answered"}
    /\ pc' = [pc EXCEPT ![r] = "failed"]
    /\ UNCHANGED <<session, blind, sent, serverVars>>

-----------------------------------------------------------------------------
(* The server.                                                             *)

\* The request has read, and its write is still to be taken.
UnderWay(r) == pc[r] # "new" /\ r \notin taken

Answered(r) == pc' = IF pc[r] = "waiting" THEN [pc EXCEPT ![r] = "answered"] ELSE pc

Removed ==
    /\ record' = {}
    /\ lost' = lost \cup record
    /\ gone' = gone \cup record
    /\ stale' = stale \cup {r \in Request : UnderWay(r)}
    /\ returned' = {}
    /\ UNCHANGED <<session, blind, taken, missed>>

\* The server takes what the process has written over the record.
Stored(r) ==
    /\ record' = session[r]
    /\ taken' = taken \cup {r}
    /\ missed' = [q \in Request |-> IF UnderWay(q) THEN missed[q] \cup {r} ELSE missed[q]]
    /\ lost' = lost \cup missed[r] \cup IF r \in blind THEN record ELSE {}
    /\ returned' = returned \cup IF r \in stale THEN session[r] ELSE {}
    /\ Answered(r)
    /\ UNCHANGED <<session, blind, stale, gone>>

\* Mutant: the C client retries, and the server takes the write of each try.
TakePutAgain(r) ==
    /\ sent[r] = "put"
    /\ Stored(r)
    /\ UNCHANGED sent

TakePut(r) ==
    /\ sent[r] = "put"
    /\ sent' = [sent EXCEPT ![r] = "nothing"]
    /\ Stored(r)

TakeRemove(r) ==
    /\ sent[r] = "remove"
    /\ sent' = [sent EXCEPT ![r] = "nothing"]
    /\ Removed
    /\ Answered(r)

Drop(r) ==
    /\ sent[r] # "nothing"
    /\ sent' = [sent EXCEPT ![r] = "nothing"]
    /\ UNCHANGED <<pc, session, blind, serverVars>>

\* The time to live of the last write, session.gc_maxlifetime, is over.
Expire ==
    /\ record # {}
    /\ Removed
    /\ UNCHANGED <<pc, sent>>

Next ==
    \/ \E r \in Request :
          \/ Read(r) \/ ReadFails(r)
          \/ Write(r) \/ Destroy(r) \/ Refused(r)
          \/ Succeeds(r, "saved") \/ Succeeds(r, "destroyed") \/ GivesUp(r)
          \/ TakePut(r) \/ TakeRemove(r) \/ Drop(r)
    \/ Expire

Spec == Init /\ [][Next]_vars

-----------------------------------------------------------------------------
(* Properties.                                                             *)

\* A change whose write was told SUCCESS stays in the session, through any number
\* of later requests, unless the record expired or was destroyed, or it was
\* overwritten by a request that had read before that write or had not read at all.
SavedIsKept == \A r \in Request : pc[r] = "saved" => r \in record \/ r \in lost

\* What was in a session that expired or was destroyed comes back only by a request
\* that had read it before.
RemovedStaysAway == record \cap gone \subseteq returned

=============================================================================
