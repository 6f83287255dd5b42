---------------------------- MODULE SessionProofs ----------------------------
(***************************************************************************)
(* That a session loses and regains only what SessionData accounts for, for *)
(* any number of requests.                                                 *)
(***************************************************************************)
EXTENDS SessionData, TLAPS

\* The server takes one write of a request, after its read.
TakenOnce ==
    \A r \in Request :
        /\ pc[r] \in {"new", "open"} => r \notin taken
        /\ sent[r] = "put" => r \notin taken
        /\ pc[r] = "saved" => r \in taken

\* Sessions and the record hold what the server has taken, and a session its own
\* change.
FromWrites ==
    /\ record \subseteq taken /\ gone \subseteq taken
    /\ \A r \in Request : pc[r] # "new" => r \in session[r] /\ session[r] \subseteq taken \cup {r}

\* Each write that was taken is in the record, or its loss is accounted for.
TakenIsKept == taken \subseteq record \cup lost

\* A request that will overwrite the record has each write in its session, or
\* missed it, or has not read.
WritesKnown ==
    \A q \in Request : UnderWay(q) /\ q \notin blind =>
        taken \subseteq session[q] \cup missed[q] \cup lost

\* A request that read after the last removal holds nothing removed, but what
\* others brought back.
RemovedUnknown ==
    \A q \in Request : UnderWay(q) /\ q \notin stale => session[q] \cap gone \subseteq returned

SessionInv ==
    /\ TypeOK /\ TakenOnce /\ FromWrites /\ TakenIsKept /\ WritesKnown
    /\ RemovedStaysAway /\ RemovedUnknown

-----------------------------------------------------------------------------
(* Type correctness.                                                       *)

LEMMA SessionTypeInit == Init => TypeOK
  BY DEF Init, TypeOK

LEMMA StoredType == \A r \in Request : TypeOK /\ Stored(r) =>
    /\ {record', blind', taken', lost', stale', gone', returned'} \subseteq SUBSET Request
    /\ session' \in [Request -> SUBSET Request]
    /\ missed' \in [Request -> SUBSET Request]
    /\ pc' = IF pc[r] = "waiting" THEN [pc EXCEPT ![r] = "answered"] ELSE pc
  BY DEF TypeOK, Stored, Answered

LEMMA RemovedType == TypeOK /\ Removed =>
    /\ {record', blind', taken', lost', stale', gone', returned'} \subseteq SUBSET Request
    /\ session' \in [Request -> SUBSET Request]
    /\ missed' \in [Request -> SUBSET Request]
  BY DEF TypeOK, Removed

LEMMA SessionTypeNext == TypeOK /\ [Next]_vars => TypeOK'
  <1> SUFFICES ASSUME TypeOK, [Next]_vars PROVE TypeOK'
    OBVIOUS
  <1>1. ASSUME NEW r \in Request, Read(r) \/ ReadFails(r) PROVE TypeOK'
    BY <1>1 DEF TypeOK, Read, ReadFails, Starts, serverVars
  <1>2. ASSUME NEW r \in Request, Write(r) \/ Destroy(r) PROVE TypeOK'
    BY <1>2 DEF TypeOK, Write, Destroy, Sends, serverVars
  <1>3. ASSUME NEW r \in Request, Refused(r) \/ GivesUp(r) PROVE TypeOK'
    BY <1>3 DEF TypeOK, Refused, GivesUp, serverVars
  <1>4. ASSUME NEW r \in Request, Succeeds(r, "saved") \/ Succeeds(r, "destroyed")
        PROVE  TypeOK'
    BY <1>4 DEF TypeOK, Succeeds, serverVars
  <1>5. ASSUME NEW r \in Request, TakePut(r) PROVE TypeOK'
    <2>1. sent[r] = "put" /\ sent' = [sent EXCEPT ![r] = "nothing"] /\ Stored(r)
      BY <1>5 DEF TakePut
    <2> QED  BY <2>1, StoredType DEF TypeOK
  <1>6. ASSUME NEW r \in Request, TakeRemove(r) PROVE TypeOK'
    <2>1. sent[r] = "remove" /\ sent' = [sent EXCEPT ![r] = "nothing"] /\ Removed /\ Answered(r)
      BY <1>6 DEF TakeRemove
    <2> QED  BY <2>1, RemovedType DEF TypeOK, Answered
  <1>7. ASSUME NEW r \in Request, Drop(r) PROVE TypeOK'
    BY <1>7 DEF TypeOK, Drop, serverVars
  <1>8. CASE Expire
    BY <1>8, RemovedType DEF TypeOK, Expire
  <1>9. CASE UNCHANGED vars
    BY <1>9 DEF TypeOK, vars, serverVars
  <1> QED
    BY <1>1, <1>2, <1>3, <1>4, <1>5, <1>6, <1>7, <1>8, <1>9 DEF Next

\* Every reachable state of the sessions has the types of TypeOK.
THEOREM SessionTypeCorrect == Spec => []TypeOK
  BY SessionTypeInit, SessionTypeNext, PTL DEF Spec

-----------------------------------------------------------------------------
(* What is kept.                                                           *)

LEMMA SessionInit == Init => SessionInv
  <1> SUFFICES ASSUME Init PROVE SessionInv
    OBVIOUS
  <1>1. TypeOK
    BY SessionTypeInit
  <1>2. TakenOnce /\ FromWrites /\ TakenIsKept
    BY DEF Init, TakenOnce, FromWrites, TakenIsKept
  <1>3. WritesKnown /\ RemovedStaysAway /\ RemovedUnknown
    BY DEF Init, WritesKnown, RemovedStaysAway, RemovedUnknown
  <1> QED  BY <1>1, <1>2, <1>3 DEF SessionInv

\* A session starts.
LEMMA ReadNext == ASSUME SessionInv, NEW r \in Request, Read(r) \/ ReadFails(r), TypeOK'
                  PROVE  SessionInv'
  <1> USE DEF SessionInv
  <1>1. /\ pc[r] = "new" /\ pc' = [pc EXCEPT ![r] = "open"]
        /\ UNCHANGED <<sent, serverVars>>
    BY DEF Read, ReadFails, Starts
  <1>2. /\ \A q \in Request \ {r} : session'[q] = session[q] /\ (q \in blind' <=> q \in blind)
        /\ \A q \in Request \ {r} : pc'[q] = pc[q]
        /\ pc'[r] = "open"
    BY <1>1 DEF Read, ReadFails, Starts, TypeOK
  <1>3. /\ r \in blind' => session'[r] = {r} \/ session'[r] = record \cup {r}
        /\ r \notin blind' => session'[r] = record \cup {r}
    BY DEF Read, ReadFails, Starts, TypeOK
  <1>4. r \notin taken /\ r \notin gone
    BY <1>1 DEF TakenOnce, FromWrites
  <1>5. TakenOnce' /\ FromWrites'
    BY <1>1, <1>2, <1>3, <1>4 DEF TakenOnce, FromWrites, serverVars
  <1>6. TakenIsKept' /\ RemovedStaysAway'
    BY <1>1 DEF TakenIsKept, RemovedStaysAway, serverVars
  <1>7. WritesKnown'
    BY <1>1, <1>2, <1>3 DEF WritesKnown, TakenIsKept, UnderWay, serverVars
  <1>8. RemovedUnknown'
    BY <1>1, <1>2, <1>3, <1>4 DEF RemovedUnknown, RemovedStaysAway, UnderWay, serverVars
  <1> QED  BY <1>5, <1>6, <1>7, <1>8

\* The handler hands a request to the C client, or returns.
LEMMA HandlerNext ==
    ASSUME SessionInv, NEW r \in Request, TypeOK',
           Write(r) \/ Destroy(r) \/ Refused(r) \/ GivesUp(r) \/ Drop(r)
              \/ Succeeds(r, "saved") \/ Succeeds(r, "destroyed")
    PROVE  SessionInv'
  <1> USE DEF SessionInv
  <1>1. UNCHANGED <<session, blind, serverVars>>
    BY DEF Write, Destroy, Sends, Refused, GivesUp, Drop, Succeeds
  <1>2. \A q \in Request : pc'[q] = "new" <=> pc[q] = "new"
    BY DEF Write, Destroy, Sends, Refused, GivesUp, Drop, Succeeds, TypeOK
  <1>3. TakenOnce'
    <2>1. \A q \in Request : pc'[q] = "open" => pc[q] = "open"
      BY DEF Write, Destroy, Sends, Refused, GivesUp, Drop, Succeeds, TypeOK
    <2>2. \A q \in Request : sent'[q] = "put" => sent[q] = "put" \/ pc[q] = "open"
      BY DEF Write, Destroy, Sends, Refused, GivesUp, Drop, Succeeds, TypeOK
    <2>3. \A q \in Request : pc'[q] = "saved" => pc[q] = "saved" \/ q \in taken
      BY DEF Write, Destroy, Sends, Refused, GivesUp, Drop, Succeeds, TypeOK
    <2> QED  BY <1>1, <1>2, <2>1, <2>2, <2>3 DEF TakenOnce, serverVars
  <1>4. FromWrites' /\ TakenIsKept' /\ RemovedStaysAway'
    BY <1>1, <1>2 DEF FromWrites, TakenIsKept, RemovedStaysAway, serverVars
  <1>5. WritesKnown' /\ RemovedUnknown'
    BY <1>1, <1>2 DEF WritesKnown, RemovedUnknown, UnderWay, serverVars
  <1> QED  BY <1>3, <1>4, <1>5

\* The record is removed.
LEMMA RemovedNext ==
    ASSUME SessionInv, Removed, TypeOK',
           \A q \in Request : /\ pc'[q] = "new" <=> pc[q] = "new"
                              /\ pc'[q] = "open" <=> pc[q] = "open"
                              /\ pc'[q] = "saved" <=> pc[q] = "saved"
                              /\ sent'[q] = "put" <=> sent[q] = "put"
    PROVE  SessionInv'
  <1> USE DEF SessionInv
  <1>1. TakenOnce'
    BY DEF TakenOnce, Removed
  <1>2. FromWrites' /\ TakenIsKept' /\ RemovedStaysAway'
    BY DEF FromWrites, TakenIsKept, RemovedStaysAway, Removed
  <1>3. WritesKnown' /\ RemovedUnknown'
    BY DEF WritesKnown, RemovedUnknown, Removed, UnderWay
  <1> QED  BY <1>1, <1>2, <1>3

\* The record is overwritten: what the writer missed or had not read is lost, and
\* what was removed since it read comes back.
LEMMA TakePutNext == ASSUME SessionInv, NEW r \in Request, TakePut(r), TypeOK'
                     PROVE  SessionInv'
  <1> USE DEF SessionInv
  <1>1. /\ sent[r] = "put" /\ sent' = [sent EXCEPT ![r] = "nothing"]
        /\ record' = session[r] /\ taken' = taken \cup {r}
        /\ lost' = lost \cup missed[r] \cup IF r \in blind THEN record ELSE {}
        /\ returned' = returned \cup IF r \in stale THEN session[r] ELSE {}
        /\ \A q \in Request :
              missed'[q] = IF UnderWay(q) THEN missed[q] \cup {r} ELSE missed[q]
        /\ UNCHANGED <<session, blind, stale, gone>>
    BY DEF TakePut, Stored
  <1>2. UnderWay(r) /\ pc[r] \in {"waiting", "failed"}
    BY <1>1 DEF UnderWay, TakenOnce, TypeOK
  <1>3. \A q \in Request : /\ pc'[q] \in {"new", "open", "saved"} => pc'[q] = pc[q]
                           /\ pc'[q] = "new" <=> pc[q] = "new"
    BY DEF TakePut, Stored, Answered, TypeOK
  <1>4. TakenOnce'
    BY <1>1, <1>2, <1>3 DEF TakenOnce, TypeOK
  <1>5. r \in session[r] /\ session[r] \subseteq taken \cup {r}
    BY <1>2 DEF FromWrites, UnderWay
  <1>6. FromWrites'
    BY <1>1, <1>3, <1>5 DEF FromWrites
  <1>7. TakenIsKept'
    <2>1. CASE r \in blind
      BY <1>1, <1>5, <2>1 DEF TakenIsKept
    <2>2. CASE r \notin blind
      BY <1>1, <1>2, <1>5, <2>2 DEF TakenIsKept, WritesKnown
    <2> QED  BY <2>1, <2>2
  <1>8. WritesKnown'
    <2> SUFFICES ASSUME NEW q \in Request, UnderWay(q)', q \notin blind
                 PROVE  taken' \subseteq session[q] \cup missed'[q] \cup lost'
      BY <1>1 DEF WritesKnown
    <2>1. UnderWay(q) /\ missed'[q] = missed[q] \cup {r}
      BY <1>1, <1>3 DEF UnderWay
    <2> QED  BY <1>1, <2>1 DEF WritesKnown
  <1>9. RemovedStaysAway'
    <2>1. CASE r \in stale
      BY <1>1, <2>1 DEF RemovedStaysAway
    <2>2. CASE r \notin stale
      BY <1>1, <1>2, <2>2 DEF RemovedStaysAway, RemovedUnknown
    <2> QED  BY <2>1, <2>2
  <1>10. RemovedUnknown'
    BY <1>1, <1>3 DEF RemovedUnknown, UnderWay
  <1> QED  BY <1>4, <1>6, <1>7, <1>8, <1>9, <1>10

LEMMA SessionNext == SessionInv /\ [Next]_vars => SessionInv'
  <1> SUFFICES ASSUME SessionInv, [Next]_vars PROVE SessionInv'
    OBVIOUS
  <1>0. TypeOK /\ TypeOK'
    BY SessionTypeNext DEF SessionInv
  <1>1. ASSUME NEW r \in Request, Read(r) \/ ReadFails(r) PROVE SessionInv'
    BY <1>0, <1>1, ReadNext
  <1>2. ASSUME NEW r \in Request,
               Write(r) \/ Destroy(r) \/ Refused(r) \/ GivesUp(r) \/ Drop(r)
                  \/ Succeeds(r, "saved") \/ Succeeds(r, "destroyed")
        PROVE  SessionInv'
    BY <1>0, <1>2, HandlerNext
  <1>3. ASSUME NEW r \in Request, TakePut(r) PROVE SessionInv'
    BY <1>0, <1>3, TakePutNext
  <1>4. ASSUME NEW r \in Request, TakeRemove(r) PROVE SessionInv'
    BY <1>0, <1>4, RemovedNext DEF TakeRemove, Answered, TypeOK
  <1>5. CASE Expire
    BY <1>0, <1>5, RemovedNext DEF Expire
  <1>6. CASE UNCHANGED vars
    BY <1>6 DEF vars, serverVars, SessionInv, TypeOK, TakenOnce, FromWrites, TakenIsKept,
                WritesKnown, RemovedStaysAway, RemovedUnknown, UnderWay
  <1> QED
    BY <1>1, <1>2, <1>3, <1>4, <1>5, <1>6 DEF Next

LEMMA SessionInvariant == Spec => []SessionInv
  BY SessionInit, SessionNext, PTL DEF Spec

\* A change that was told to be saved stays in the session, unless the record
\* expired or was destroyed or a request overwrote it without having read it.
THEOREM SavedStays == Spec => []SavedIsKept
  <1>1. SessionInv => SavedIsKept
    BY DEF SessionInv, TakenOnce, TakenIsKept, SavedIsKept
  <1> QED  BY <1>1, SessionInvariant, PTL

\* Nothing of a session that expired or was destroyed comes back, but by a request
\* that had read it before.
THEOREM RemovedIsGone == Spec => []RemovedStaysAway
  <1>1. SessionInv => RemovedStaysAway
    BY DEF SessionInv
  <1> QED  BY <1>1, SessionInvariant, PTL

=============================================================================
