----------------------------- MODULE MethodCalls ------------------------------
(***************************************************************************)
(* How a method of the client runs and reports.                            *)
(*                                                                         *)
(* A method is a sequence of steps on a local status and a local as_error: *)
(* checks of its arguments, the policy its options make, requests to the   *)
(* server, the conversion of the answer.  At exit it copies the as_error    *)
(* into error_g, which all objects of the thread share, and from there into  *)
(* the error and errorno of its object, and returns the status.  While a    *)
(* step runs a function of the script, that function may call any method    *)
(* of any object: calls nest.  The steps of each method, Code, are those of *)
(* ClientMethods.                                                          *)
(***************************************************************************)
EXTENDS Integers, Sequences, Policies

CONSTANTS
    Object,       \* Aerospike objects of one PHP thread
    Persistent,   \* those whose cluster outlives close()
    Method,       \* names of methods
    Code,         \* of each method: its steps
    Finish,       \* of each method: how it writes error_g and the properties
    Given,        \* the options arrays the constructor is given
    Callable,     \* model bound: the methods the n-th call may be of,
    Passed,       \* and the options arrays it may pass
    MaxCalls,     \* model bound: calls made in all
    MaxDepth      \* model bound: calls in progress at once

Codes == {"OK", "PARAM", "CLIENT", "SERVER", "CLUSTER", "UNSUPPORTED", "NOT_FOUND"}

\* A step that fails assigns to status and to error, unless "kept", and ends the
\* method or goes on; "same" takes over the code of the error.  how: which policy,
\* or what a request asks for.  script: functions of the script run during it;
\* policy: the request passes the policy made before, not NULL; unset: when
\* it fails, memory is used that was not initialised.
Step == [kind : {"connected", "check", "policy", "value", "clean", "request", "output",
                 "probe", "close", "handler"},
         how : PolicyUse \cup {"none", "read", "write", "job", "wait"},
         status : Codes \cup {"kept", "same"}, error : Codes \cup {"kept"},
         ends : BOOLEAN, script : BOOLEAN, policy : BOOLEAN, unset : BOOLEAN]

\* "set" and "reset" are the two macros; "stale" copies error_g as it stands, "none"
\* copies nothing, "close" does each of the three.
Finishes == {"set", "reset", "stale", "close", "none"}

ASSUME CallAssumption ==
    /\ Persistent \subseteq Object
    /\ Code \in [Method -> Seq(Step)]
    /\ Finish \in [Method -> Finishes]
    /\ Given \subseteq Seq(Option)
    /\ MaxCalls \in Nat /\ MaxDepth \in Nat
    /\ Callable \in [1 .. MaxCalls -> SUBSET Method]
    /\ Passed \in [1 .. MaxCalls -> SUBSET Seq(Option)]

\* A method that asks the server looks first whether its object is connected; one
\* that closes a cluster asks nothing and runs no function of the script.
ASSUME EntryAssumption ==
    \A m \in Method : \A i \in 1 .. Len(Code[m]) :
        /\ Code[m][i].kind = "request" =>
              i > 1 /\ Code[m][1].kind = "connected" /\ Code[m][1].ends
        /\ Code[m][i].kind = "close" =>
              \A j \in 1 .. Len(Code[m]) : Code[m][j].kind # "request" /\ ~Code[m][j].script

VARIABLES
    build,      \* the PHP the extension is built for
    alive,      \* the process
    connected,  \* is_conn_16 of each object
    cluster,    \* whether the cluster of each object is open
    closedBy,   \* the call that closed it
    kept,       \* options in its as_config or its serializer_opt
    error_g,    \* the error of the thread: its code, and the call that wrote it
    shown,      \* the error and errorno properties of each object
    handler,    \* is_callback_registered
    calls,      \* calls made
    stack,      \* the calls in progress, the innermost last
    returned    \* the call that returned last, until the next one begins

objects == <<connected, cluster, closedBy, kept>>
errors  == <<error_g, shown, handler>>
vars == <<build, alive, objects, errors, calls, stack, returned>>

Error == [code : Codes, call : 0 .. MaxCalls]

Frame == [obj : Object, method : Method, call : 1 .. MaxCalls, pc : Nat \ {0},
          status : Codes, error : Codes, opts : UNION {Passed[n] : n \in 1 .. MaxCalls},
          taken : SUBSET OptionKey,  \* what its policy took from the options
          lost : BOOLEAN,      \* something the script asked for was not done
          written : BOOLEAN,   \* the server has applied a write
          job : BOOLEAN,       \* a job runs on the server
          known : BOOLEAN,     \* and the script has its id
          closed : BOOLEAN]    \* a request ended after the cluster was closed

NoCall == <<>>

TypeOK ==
    /\ build \in {"php5", "php7"} /\ alive \in BOOLEAN
    /\ connected \in [Object -> BOOLEAN] /\ cluster \in [Object -> BOOLEAN]
    /\ closedBy \in [Object -> 0 .. MaxCalls]
    /\ kept \in [Object -> SUBSET OptionKey]
    /\ error_g \in Error /\ shown \in [Object -> Error]
    /\ handler \in BOOLEAN
    /\ calls \in 0 .. MaxCalls
    /\ stack \in Seq(Frame)
    /\ returned \in Frame \cup {NoCall}

NoError == [code |-> "OK", call |-> 0]

\* Objects as their constructor leaves them: connected, or with the error of the
\* options or the connect that failed.
Init ==
    /\ build \in {"php5", "php7"} /\ alive = TRUE
    /\ connected \in [Object -> BOOLEAN] /\ cluster = connected
    /\ closedBy = [o \in Object |-> 0]
    /\ \E given \in [Object -> Given] :
          /\ kept = [o \in Object |-> SetPolicy(build, "config", given[o]).kept]
          /\ \A o \in Object : connected[o] => SetPolicy(build, "config", given[o]).ok
    /\ shown = [o \in Object |-> IF connected[o] THEN NoError
                                 ELSE [code |-> "CLIENT", call |-> 0]]
    /\ error_g \in {shown[o] : o \in Object}
    /\ handler = FALSE
    /\ calls = 0 /\ stack = <<>> /\ returned = NoCall

Depth == Len(stack)
Top   == stack[Depth]
Steps == Code[Top.method]
At    == Steps[Top.pc]
Running == Depth > 0 /\ Top.pc <= Len(Steps)
AtKind(kind) == Running /\ At.kind = kind

\* Functions of the script are run by streams, by the serializers it registered
\* and, while a request is under way, by its log handler.
ScriptRuns ==
    Depth = 0 \/ (Running /\ (At.script \/ (handler /\ At.kind = "request")))

Begin(o, m, opts) ==
    /\ alive /\ calls < MaxCalls /\ Depth < MaxDepth /\ ScriptRuns
    /\ m \in Callable[calls + 1] /\ opts \in Passed[calls + 1]
    /\ calls' = calls + 1
    /\ stack' = Append(stack,
          [obj |-> o, method |-> m, call |-> calls + 1, pc |-> 1, status |-> "OK",
           error |-> "OK", opts |-> opts, taken |-> {}, lost |-> FALSE,
           written |-> FALSE, job |-> FALSE, known |-> FALSE, closed |-> FALSE])
    /\ returned' = NoCall
    /\ UNCHANGED <<build, alive, objects, errors>>

-----------------------------------------------------------------------------
(* The steps.                                                              *)

NextStep(f) == [f EXCEPT !.pc = @ + 1]
Ended(f)    == [f EXCEPT !.pc = Len(Code[f.method]) + 1]

\* Mutant: the code of the error is not put into the status.
AssignedAsIs(f, old, new) == IF new = "kept" THEN old ELSE new

Assigned(f, old, new) ==
    CASE new = "kept" -> old [] new = "same" -> f.error [] OTHER -> new

\* What step s leaves of the call when it fails.
Failed(f, s) ==
    LET g == [f EXCEPT !.status = Assigned(f, @, s.status),
                       !.error = Assigned(f, @, s.error), !.lost = TRUE]
    IN  IF s.ends THEN Ended(g) ELSE NextStep(g)

Local(f) ==
    /\ stack' = [stack EXCEPT ![Depth] = f]
    /\ UNCHANGED <<build, alive, errors, calls, returned>>

\* Mutant: a method that runs whether its object is connected or not.
ConnectedOrNot ==
    AtKind("connected") /\ Local(NextStep(Top)) /\ UNCHANGED objects

\* CHECK_CONNECTED.
Connected ==
    /\ AtKind("connected")
    /\ Local(IF connected[Top.obj] THEN NextStep(Top) ELSE Failed(Top, At))
    /\ UNCHANGED objects

\* Arguments the script gets right or wrong, and what can fail in the process
\* itself.
Check ==
    /\ AtKind("check")
    /\ Local(NextStep(Top)) \/ Local(Failed(Top, At))
    /\ UNCHANGED objects

\* set_policy clears the as_error when it succeeds, and writes into the config
\* or the object even when it does not.  The callers look at the as_error: if
\* set_policy quits without writing it, they go on.
Policy ==
    /\ AtKind("policy")
    /\ LET p == SetPolicy(build, At.how, Top.opts)
           f == [Top EXCEPT !.taken = p.taken, !.lost = @ \/ p.taken # KeysOf(Top.opts)]
       IN  /\ ~p.dies
           /\ Local(IF p.ok \/ (p.quits /\ Top.error = "OK")
                    THEN NextStep([f EXCEPT !.error = "OK"]) ELSE Failed(f, At))
           /\ kept' = [kept EXCEPT ![Top.obj] = @ \cup p.kept]
    /\ UNCHANGED <<connected, cluster, closedBy>>

\* A value of the script becomes one of the client.  A scalar that is converted writes
\* OK into the as_error, over the error an earlier step left there; an array
\* without elements writes nothing.
Value ==
    /\ AtKind("value")
    /\ \/ Local(NextStep([Top EXCEPT !.error = "OK"])) \/ Local(NextStep(Top))
       \/ Local(Failed(Top, At))
    /\ UNCHANGED objects

\* The method ends here when an earlier step has left an error.
Clean ==
    /\ AtKind("clean")
    /\ Local(IF Top.error = "OK" THEN NextStep(Top) ELSE Failed(Top, At))
    /\ UNCHANGED objects

\* The C client resets the as_error.  The server applies the request or not, and
\* its answer comes or not.
Request ==
    /\ AtKind("request")
    /\ \E applied, answered \in BOOLEAN :
          /\ answered => applied
          /\ LET f == [Top EXCEPT
                          !.error = "OK",
                          !.written = @ \/ (applied /\ At.how = "write"),
                          !.job = @ \/ (applied /\ At.how = "job"),
                          !.closed = @ \/ ~cluster[Top.obj],
                          !.lost = @ \/ (~At.policy /\ Top.taken # {})]
             IN  Local(IF answered THEN NextStep([f EXCEPT !.status = "OK"])
                       ELSE Failed(f, At))
    /\ UNCHANGED objects

\* The answer goes into the variables of the script, the id of a job too.
Output ==
    /\ AtKind("output")
    /\ \/ Local(NextStep([Top EXCEPT !.known = Top.job]))
       \/ At.error # "kept" /\ Local(Failed(Top, At))
    /\ UNCHANGED objects

\* The use of memory that was never initialised may end the process; that of NULL
\* ends it.
Crash ==
    /\ Running
    /\ IF At.kind = "policy"
       THEN LET p == SetPolicy(build, At.how, Top.opts) IN p.dies \/ (At.unset /\ ~p.ok)
       ELSE At.unset
    /\ alive' = FALSE /\ stack' = <<>>
    /\ UNCHANGED <<build, objects, errors, calls, returned>>

\* isConnected() sets the flag to what the cluster says: a persistent object that was
\* closed is connected again.
Probe ==
    /\ AtKind("probe")
    /\ \E b \in {FALSE, cluster[Top.obj]} : connected' = [connected EXCEPT ![Top.obj] = b]
    /\ Local(NextStep(Top))
    /\ UNCHANGED <<cluster, closedBy, kept>>

\* close() of an object that is connected.
CloseCluster ==
    /\ AtKind("close")
    /\ LET o == Top.obj
       IN  /\ connected' = [connected EXCEPT ![o] = FALSE]
           /\ IF o \in Persistent
              THEN Local(NextStep(Top)) /\ UNCHANGED <<cluster, closedBy>>
              ELSE /\ Local(NextStep(Top)) \/ Local(Failed(Top, At))
                   /\ cluster' = [cluster EXCEPT ![o] = FALSE]
                   /\ closedBy' = [closedBy EXCEPT ![o] = Top.call]
    /\ UNCHANGED kept

\* setLogHandler takes the old handler away before it looks at anything.
LogHandler ==
    /\ AtKind("handler")
    /\ \/ /\ connected[Top.obj] /\ handler' = TRUE
          /\ error_g' = [code |-> "OK", call |-> Top.call]
          /\ stack' = [stack EXCEPT ![Depth] = NextStep(Top)]
       \/ /\ handler' = FALSE /\ UNCHANGED error_g
          /\ stack' = [stack EXCEPT ![Depth] = Failed(Top, At)]
    /\ UNCHANGED <<build, alive, objects, shown, calls, returned>>

-----------------------------------------------------------------------------
(* The exit.                                                               *)

\* Mutant: a success leaves error_g as it is.
ErrorOfFailure(f) ==
    IF f.status = "OK" THEN error_g ELSE [code |-> f.error, call |-> f.call]

\* What the exit of a method leaves in error_g.
ErrorAtExit(f) ==
    LET way == Finish[f.method]
        own(code) == [code |-> code, call |-> f.call]
    IN  IF way = "set" \/ (way \in {"close", "reset"} /\ f.status # "OK") THEN own(f.error)
        ELSE IF way = "reset" \/ (way = "close" /\ f.obj \in Persistent) THEN own("OK")
        ELSE error_g

Return ==
    /\ Depth > 0 /\ ~Running
    /\ error_g' = ErrorAtExit(Top)
    /\ shown' = IF Finish[Top.method] = "none" THEN shown
                ELSE [shown EXCEPT ![Top.obj] = ErrorAtExit(Top)]
    /\ returned' = Top
    /\ stack' = SubSeq(stack, 1, Depth - 1)
    /\ UNCHANGED <<build, alive, objects, handler, calls>>

Next ==
    \/ \E o \in Object : \E n \in {calls + 1} \cap (1 .. MaxCalls) :
          \E m \in Callable[n], opts \in Passed[n] : Begin(o, m, opts)
    \/ Connected \/ Check \/ Policy \/ Value \/ Clean \/ Request \/ Output
    \/ Crash \/ Probe \/ CloseCluster \/ LogHandler \/ Return

Spec == Init /\ [][Next]_vars

-----------------------------------------------------------------------------
(* What holds whatever the methods do.                                     *)

\* A close() that succeeds on an object that is not persistent writes no error_g:
\* the object shows the error of whatever call was last, of any object.
ShowsStale(f) ==
    \/ Finish[f.method] \in {"stale", "none"}
    \/ Finish[f.method] = "close" /\ f.status = "OK" /\ f.obj \notin Persistent

\* error_g is one for all objects of the thread, and functions of the script call
\* methods of any object while a method runs (aerospike_helper.c:107).  Still,
\* when a method returns, its object shows an error of this very call, and OK only
\* if the call left none.
ErrorOfLastCall ==
    returned # NoCall /\ ~ShowsStale(returned) =>
        /\ shown[returned.obj].call = returned.call
        /\ shown[returned.obj].code = "OK" =>
               returned.error = "OK" \/ (Finish[returned.method] # "set"
                                         /\ returned.status = "OK")

\* close() destroys the cluster even when the object has a request under way
\* (aerospike.c:862).  A request ends on a closed cluster only if a function of the
\* script closed it during that very call: never because a method was called on an
\* object closed before.
ClosedOnlyInside ==
    \A f \in {stack[i] : i \in DOMAIN stack} \cup ({returned} \ {NoCall}) :
        f.closed => closedBy[f.obj] > f.call

\* The options of a call end with the call: the as_config of the object keeps the
\* connect timeout of any call, its serializer that of a list method, and a
\* method keeps nothing in an object other than its own.
OptionsEndWithCall ==
    [][\A o \in Object : kept'[o] # kept[o] =>
          /\ o = Top.obj /\ At.kind = "policy"
          /\ kept'[o] \ kept[o] \subseteq
                 {"CONNECT_TIMEOUT"} \cup (IF At.how = "list" THEN {"SERIALIZER"} ELSE {})
      ]_vars
=============================================================================
