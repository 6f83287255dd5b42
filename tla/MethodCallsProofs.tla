-------------------------- MODULE MethodCallsProofs ---------------------------
(***************************************************************************)
(* What holds of calls and of the error they leave for any methods, objects, *)
(* options and depth of calls in calls.                                    *)
(***************************************************************************)
EXTENDS MethodCalls, TLAPS

-----------------------------------------------------------------------------
(* Type correctness.                                                       *)

LEMMA StepTypes ==
  ASSUME TypeOK, Running
  PROVE  /\ Top \in Frame /\ At \in Step
         /\ Depth \in DOMAIN stack /\ Depth \in Nat
         /\ Steps \in Seq(Step) /\ Top.pc \in 1 .. Len(Steps)
  <1>1. stack \in Seq(Frame) /\ Len(stack) > 0 /\ Top.pc <= Len(Steps)
    BY DEF TypeOK, Running, Depth
  <1>2. Depth \in DOMAIN stack /\ Depth \in Nat /\ Top \in Frame
    BY <1>1 DEF Depth, Top
  <1>3. Top.method \in Method /\ Top.pc \in Nat \ {0}
    BY <1>2 DEF Frame
  <1>4. Steps \in Seq(Step)
    BY <1>3, CallAssumption DEF Steps
  <1>5. Top.pc \in 1 .. Len(Steps)
    BY <1>1, <1>3, <1>4
  <1>6. At \in Step
    BY <1>4, <1>5 DEF At
  <1> QED  BY <1>2, <1>4, <1>5, <1>6

\* set_policy takes keys of options only, and keeps some of those it takes.
LEMMA PolicyTypes ==
  ASSUME NEW b \in {"php5", "php7"}, NEW use, NEW opts \in Seq(Option)
  PROVE  /\ SetPolicy(b, use, opts).taken \subseteq OptionKey
         /\ SetPolicy(b, use, opts).kept \subseteq SetPolicy(b, use, opts).taken
  <1> DEFINE read == Read(b, opts)
  <1>1. read \in Seq(Option)
    <2>1. opts # <<>> => opts[Len(opts)] \in Option
      OBVIOUS
    <2>2. [key |-> "string", right |-> FALSE] \in Option
      BY DEF Option, OptionKey
    <2>3. opts # <<>> => <<opts[Len(opts)]>> \in Seq(Option)
      BY <2>1
    <2>4. <<[key |-> "string", right |-> FALSE]>> \in Seq(Option)
      BY <2>2
    <2> QED  BY <2>3, <2>4 DEF Read
  <1> HIDE DEF read
  <1>2. \A i \in DOMAIN read : read[i].key \in OptionKey
    <2>1. \A i \in DOMAIN read : read[i] \in Option
      BY <1>1
    <2> QED  BY <2>1 DEF Option
  <1>3. TakenUntil(use, read) \subseteq OptionKey
    BY <1>2 DEF TakenUntil
  <1>4. KeptBy(use, TakenUntil(use, read)) \subseteq TakenUntil(use, read)
    BY DEF KeptBy
  <1>5. /\ SetPolicy(b, use, opts).taken = TakenUntil(use, read)
        /\ SetPolicy(b, use, opts).kept =
              IF use = "config" THEN TakenUntil(use, read) ELSE KeptBy(use, TakenUntil(use, read))
    BY DEF SetPolicy, read
  <1> QED  BY <1>3, <1>4, <1>5

LEMMA PcTypes ==
  ASSUME NEW f \in Frame
  PROVE  NextStep(f) \in Frame /\ Ended(f) \in Frame
  <1>1. f.pc + 1 \in Nat \ {0} /\ Len(Code[f.method]) + 1 \in Nat \ {0}
    BY CallAssumption DEF Frame
  <1>2. \A n \in Nat \ {0} : [f EXCEPT !.pc = n] \in Frame
    BY DEF Frame
  <1> QED  BY <1>1, <1>2 DEF NextStep, Ended

LEMMA FailedType ==
  ASSUME NEW f \in Frame, NEW s \in Step
  PROVE  Failed(f, s) \in Frame
  <1>1. Assigned(f, f.status, s.status) \in Codes /\ Assigned(f, f.error, s.error) \in Codes
    BY DEF Assigned, Frame, Step
  <1> DEFINE g == [f EXCEPT !.status = Assigned(f, @, s.status),
                            !.error = Assigned(f, @, s.error), !.lost = TRUE]
  <1>2. g \in Frame
    BY <1>1 DEF Frame
  <1> HIDE DEF g
  <1>3. NextStep(g) \in Frame /\ Ended(g) \in Frame
    BY <1>2, PcTypes
  <1> QED  BY <1>3 DEF Failed, g
LEMMA StackTypes ==
  /\ \A s \in Seq(Frame), f \in Frame : Append(s, f) \in Seq(Frame)
  /\ \A s \in Seq(Frame), f \in Frame : \A i \in DOMAIN s :
        [s EXCEPT ![i] = f] \in Seq(Frame) /\ Len([s EXCEPT ![i] = f]) = Len(s)
  /\ \A s \in Seq(Frame) : Len(s) > 0 =>
        /\ SubSeq(s, 1, Len(s) - 1) \in Seq(Frame) /\ Len(SubSeq(s, 1, Len(s) - 1)) = Len(s) - 1
        /\ \A i \in 1 .. Len(s) - 1 : SubSeq(s, 1, Len(s) - 1)[i] = s[i]
  <1>1. \A s \in Seq(Frame), f \in Frame : Append(s, f) \in Seq(Frame)
    OBVIOUS
  <1>2. ASSUME NEW s \in Seq(Frame), NEW f \in Frame, NEW i \in DOMAIN s
        PROVE  [s EXCEPT ![i] = f] \in Seq(Frame) /\ Len([s EXCEPT ![i] = f]) = Len(s)
    OBVIOUS
  <1>3. ASSUME NEW s \in Seq(Frame), Len(s) > 0
        PROVE  /\ SubSeq(s, 1, Len(s) - 1) \in Seq(Frame)
               /\ Len(SubSeq(s, 1, Len(s) - 1)) = Len(s) - 1
               /\ \A i \in 1 .. Len(s) - 1 : SubSeq(s, 1, Len(s) - 1)[i] = s[i]
    <2>1. Len(s) - 1 \in Nat /\ Len(s) - 1 <= Len(s)
      BY <1>3
    <2>2. \A i \in 1 .. Len(s) - 1 : s[i] \in Frame
      OBVIOUS
    <2>3. SubSeq(s, 1, Len(s) - 1) = [i \in 1 .. Len(s) - 1 |-> s[i]]
      BY <2>1
    <2>4. [i \in 1 .. Len(s) - 1 |-> s[i]] \in Seq(Frame)
      BY <2>1, <2>2
    <2>5. Len([i \in 1 .. Len(s) - 1 |-> s[i]]) = Len(s) - 1
      BY <2>1
    <2> QED  BY <2>3, <2>4, <2>5
  <1> QED  BY <1>1, <1>2, <1>3

\* A step of the innermost call leaves a frame in its place.
LEMMA LocalType ==
  ASSUME TypeOK, Running, NEW f \in Frame, Local(f)
  PROVE  /\ stack' \in Seq(Frame)
         /\ build' \in {"php5", "php7"} /\ alive' \in BOOLEAN
         /\ error_g' \in Error /\ shown' \in [Object -> Error] /\ handler' \in BOOLEAN
         /\ calls' \in 0 .. MaxCalls /\ returned' \in Frame \cup {NoCall}
  <1>1. stack' \in Seq(Frame)
    BY StackTypes, StepTypes DEF TypeOK, Local
  <1> QED  BY <1>1 DEF TypeOK, Local, errors

LEMMA TypeInit == Init => TypeOK
  <1> SUFFICES ASSUME Init PROVE TypeOK
    OBVIOUS
  <1>1. kept \in [Object -> SUBSET OptionKey]
    <2>1. PICK given \in [Object -> Given] :
            kept = [o \in Object |-> SetPolicy(build, "config", given[o]).kept]
      BY DEF Init
    <2>2. \A o \in Object : given[o] \in Seq(Option)
      BY CallAssumption
    <2>3. \A o \in Object : SetPolicy(build, "config", given[o]).kept \subseteq OptionKey
      BY <2>2, PolicyTypes DEF Init
    <2> QED  BY <2>1, <2>3
  <1>2. 0 \in 0 .. MaxCalls
    BY CallAssumption
  <1>3. shown \in [Object -> Error]
    BY <1>2 DEF Init, Error, NoError, Codes
  <1>4. error_g \in Error
    BY <1>3 DEF Init
  <1>5. stack \in Seq(Frame)
    BY DEF Init
  <1> QED  BY <1>1, <1>2, <1>3, <1>4, <1>5 DEF Init, TypeOK

LEMMA TypeNext == TypeOK /\ [Next]_vars => TypeOK'
  <1> SUFFICES ASSUME TypeOK, [Next]_vars PROVE TypeOK'
    OBVIOUS
  <1>1. ASSUME NEW o \in Object, NEW n \in {calls + 1} \cap (1 .. MaxCalls),
               NEW m \in Callable[n], NEW opts \in Passed[n], Begin(o, m, opts)
        PROVE  TypeOK'
    <2>1. n = calls + 1 /\ m \in Method /\ calls + 1 \in 1 .. MaxCalls
      BY CallAssumption
    <2> DEFINE f == [obj |-> o, method |-> m, call |-> calls + 1, pc |-> 1,
                     status |-> "OK", error |-> "OK", opts |-> opts, taken |-> {},
                     lost |-> FALSE, written |-> FALSE, job |-> FALSE, known |-> FALSE,
                     closed |-> FALSE]
    <2>2. f \in Frame
      BY <2>1 DEF Frame, Codes
    <2>3. stack' = Append(stack, f)
      BY <1>1 DEF Begin
    <2>4. stack' \in Seq(Frame)
      BY <2>2, <2>3, StackTypes DEF TypeOK
    <2>5. calls' \in 0 .. MaxCalls
      BY <1>1, <2>1, CallAssumption DEF Begin
    <2> QED  BY <1>1, <2>4, <2>5 DEF Begin, TypeOK, objects, errors
  <1>2. ASSUME Connected \/ Check \/ Clean PROVE TypeOK'
    <2>1. Running /\ UNCHANGED objects
      BY <1>2 DEF Connected, Check, Clean, AtKind
    <2>2. NextStep(Top) \in Frame /\ Failed(Top, At) \in Frame
      BY <2>1, StepTypes, PcTypes, FailedType
    <2>3. Local(NextStep(Top)) \/ Local(Failed(Top, At))
      BY <1>2 DEF Connected, Check, Clean
    <2> QED  BY <2>1, <2>2, <2>3, LocalType DEF TypeOK, objects
  <1>3. ASSUME Policy PROVE TypeOK'
    <2> DEFINE p == SetPolicy(build, At.how, Top.opts)
               f == [Top EXCEPT !.taken = p.taken,
                                !.lost = @ \/ p.taken # KeysOf(Top.opts)]
               g == [f EXCEPT !.error = "OK"]
    <2>1. Running /\ At \in Step /\ Top \in Frame
      BY <1>3, StepTypes DEF Policy, AtKind
    <2>2. Top.opts \in Seq(Option)
      BY <2>1, CallAssumption DEF Frame
    <2>3. p.taken \subseteq OptionKey /\ p.kept \subseteq OptionKey
      BY <2>2, PolicyTypes DEF TypeOK
    <2>4. f \in Frame
      BY <2>1, <2>3 DEF Frame
    <2>5. g \in Frame
      BY <2>4 DEF Frame, Codes
    <2>6. Local(NextStep(g)) \/ Local(Failed(f, At))
      BY <1>3 DEF Policy
    <2>7. kept' \in [Object -> SUBSET OptionKey] /\ UNCHANGED <<connected, cluster, closedBy>>
      BY <1>3, <2>3 DEF Policy, TypeOK
    <2> HIDE DEF f, g
    <2>8. NextStep(g) \in Frame /\ Failed(f, At) \in Frame
      BY <2>1, <2>4, <2>5, PcTypes, FailedType
    <2> QED  BY <2>1, <2>6, <2>7, <2>8, LocalType DEF TypeOK
  <1>4. ASSUME Request PROVE TypeOK'
    <2>1. Running /\ At \in Step /\ Top \in Frame
      BY <1>4, StepTypes DEF Request, AtKind
    <2>2. PICK applied \in BOOLEAN, answered \in BOOLEAN :
            LET f == [Top EXCEPT
                          !.error = "OK",
                          !.written = @ \/ (applied /\ At.how = "write"),
                          !.job = @ \/ (applied /\ At.how = "job"),
                          !.closed = @ \/ ~cluster[Top.obj],
                          !.lost = @ \/ (~At.policy /\ Top.taken # {})]
            IN  Local(IF answered THEN NextStep([f EXCEPT !.status = "OK"])
                      ELSE Failed(f, At))
      BY <1>4 DEF Request
    <2> DEFINE f == [Top EXCEPT
                          !.error = "OK",
                          !.written = @ \/ (applied /\ At.how = "write"),
                          !.job = @ \/ (applied /\ At.how = "job"),
                          !.closed = @ \/ ~cluster[Top.obj],
                          !.lost = @ \/ (~At.policy /\ Top.taken # {})]
               g == [f EXCEPT !.status = "OK"]
    <2>3. f \in Frame
      BY <2>1 DEF Frame, Codes
    <2>4. Local(NextStep(g)) \/ Local(Failed(f, At))
      BY <2>2
    <2> HIDE DEF f
    <2>5. g \in Frame
      BY <2>3 DEF Frame, Codes
    <2> HIDE DEF g
    <2>6. NextStep(g) \in Frame /\ Failed(f, At) \in Frame
      BY <2>1, <2>3, <2>5, PcTypes, FailedType
    <2> QED  BY <1>4, <2>1, <2>4, <2>6, LocalType DEF TypeOK, Request, objects
  <1>5. ASSUME Output PROVE TypeOK'
    <2> DEFINE f == [Top EXCEPT !.known = Top.job]
    <2>1. Running /\ At \in Step /\ Top \in Frame
      BY <1>5, StepTypes DEF Output, AtKind
    <2>2. f \in Frame
      BY <2>1 DEF Frame
    <2>3. Local(NextStep(f)) \/ Local(Failed(Top, At))
      BY <1>5 DEF Output
    <2> HIDE DEF f
    <2>4. NextStep(f) \in Frame /\ Failed(Top, At) \in Frame
      BY <2>1, <2>2, PcTypes, FailedType
    <2> QED  BY <1>5, <2>1, <2>3, <2>4, LocalType DEF TypeOK, Output, objects
  <1>6. ASSUME Crash PROVE TypeOK'
    <2>1. stack' \in Seq(Frame)
      BY <1>6 DEF Crash
    <2> QED  BY <1>6, <2>1 DEF Crash, TypeOK, objects, errors
  <1>7. ASSUME Probe PROVE TypeOK'
    <2>1. Running /\ NextStep(Top) \in Frame /\ Top \in Frame
      BY <1>7, StepTypes, PcTypes DEF Probe, AtKind
    <2>2. connected' \in [Object -> BOOLEAN]
      BY <1>7, <2>1 DEF Probe, TypeOK, Frame
    <2> QED  BY <1>7, <2>1, <2>2, LocalType DEF Probe, TypeOK
  <1>8. ASSUME CloseCluster PROVE TypeOK'
    <2>1. Running /\ NextStep(Top) \in Frame /\ Failed(Top, At) \in Frame /\ Top \in Frame
      BY <1>8, StepTypes, PcTypes, FailedType DEF CloseCluster, AtKind
    <2>2. Local(NextStep(Top)) \/ Local(Failed(Top, At))
      BY <1>8 DEF CloseCluster
    <2>3. Top.obj \in Object /\ Top.call \in 0 .. MaxCalls
      BY <2>1 DEF Frame
    <2>4. /\ connected' \in [Object -> BOOLEAN] /\ cluster' \in [Object -> BOOLEAN]
          /\ closedBy' \in [Object -> 0 .. MaxCalls] /\ UNCHANGED kept
      BY <1>8, <2>3 DEF CloseCluster, TypeOK
    <2> QED  BY <2>1, <2>2, <2>4, LocalType DEF TypeOK
  <1>9. ASSUME LogHandler PROVE TypeOK'
    <2>1. Running /\ NextStep(Top) \in Frame /\ Failed(Top, At) \in Frame /\ Top \in Frame
      BY <1>9, StepTypes, PcTypes, FailedType DEF LogHandler, AtKind
    <2>2. \/ stack' = [stack EXCEPT ![Depth] = NextStep(Top)]
          \/ stack' = [stack EXCEPT ![Depth] = Failed(Top, At)]
      BY <1>9 DEF LogHandler
    <2>3. stack' \in Seq(Frame)
      <3>1. stack \in Seq(Frame) /\ Depth \in DOMAIN stack
        BY <2>1, StepTypes DEF TypeOK
      <3>2. \A f \in Frame : [stack EXCEPT ![Depth] = f] \in Seq(Frame)
        BY <3>1, StackTypes
      <3> QED  BY <2>1, <2>2, <3>2
    <2>4. [code |-> "OK", call |-> Top.call] \in Error
      BY <2>1 DEF Error, Frame, Codes
    <2>5. error_g' \in Error /\ handler' \in BOOLEAN
      BY <1>9, <2>4 DEF LogHandler, TypeOK
    <2> QED  BY <1>9, <2>3, <2>5 DEF LogHandler, TypeOK, objects
  <1>10. ASSUME Return PROVE TypeOK'
    <2>1. stack \in Seq(Frame) /\ Len(stack) > 0 /\ Depth = Len(stack)
      BY <1>10 DEF Return, Depth, TypeOK
    <2>2. Top \in Frame
      BY <2>1 DEF Top
    <2>3. ErrorAtExit(Top) \in Error
      BY <2>2 DEF ErrorAtExit, Error, TypeOK, Frame, Codes
    <2>4. shown' \in [Object -> Error]
      BY <1>10, <2>3 DEF Return, TypeOK
    <2>5. stack' \in Seq(Frame)
      BY <1>10, <2>1, StackTypes DEF Return
    <2> QED  BY <1>10, <2>2, <2>3, <2>4, <2>5 DEF Return, TypeOK, objects
  <1>11. ASSUME Value PROVE TypeOK'
    <2> DEFINE f == [Top EXCEPT !.error = "OK"]
    <2>1. Running /\ At \in Step /\ Top \in Frame
      BY <1>11, StepTypes DEF Value, AtKind
    <2>2. f \in Frame
      BY <2>1 DEF Frame, Codes
    <2>3. Local(NextStep(f)) \/ Local(NextStep(Top)) \/ Local(Failed(Top, At))
      BY <1>11 DEF Value
    <2> HIDE DEF f
    <2>4. NextStep(f) \in Frame /\ NextStep(Top) \in Frame /\ Failed(Top, At) \in Frame
      BY <2>1, <2>2, PcTypes, FailedType
    <2> QED  BY <1>11, <2>1, <2>3, <2>4, LocalType DEF TypeOK, Value, objects
  <1>12. CASE UNCHANGED vars
    BY <1>12 DEF vars, objects, errors, TypeOK
  <1> QED
    BY <1>1, <1>2, <1>3, <1>4, <1>5, <1>6, <1>7, <1>8, <1>9, <1>10, <1>11, <1>12 DEF Next

\* Every reachable state of the calls has the types of TypeOK.
THEOREM CallTypeCorrect == Spec => []TypeOK
  BY TypeInit, TypeNext, PTL DEF Spec

-----------------------------------------------------------------------------
(* A request meets a closed cluster only by what its own call has run.     *)

HasRequest(m) == \E i \in 1 .. Len(Code[m]) : Code[m][i].kind = "request"
RunsScript(m) == \E i \in 1 .. Len(Code[m]) : Code[m][i].script \/ Code[m][i].kind = "request"

\* Calls are numbered from the outermost to the innermost, and only methods that run
\* functions of the script have, or had, a call inside.
CallsNested ==
    /\ \A i \in DOMAIN stack : \A j \in DOMAIN stack : i < j => stack[i].call < stack[j].call
    /\ \A i \in DOMAIN stack : stack[i].call <= calls
    /\ \A i \in DOMAIN stack : i < Len(stack) \/ returned # NoCall => RunsScript(stack[i].method)

ConnectedIsOpen == \A o \in Object : connected[o] => cluster[o]

\* Past the first step the cluster is open or was closed by a later call.
EnteredOpen ==
    \A i \in DOMAIN stack :
        /\ stack[i].pc > 1 /\ stack[i].pc <= Len(Code[stack[i].method])
        /\ HasRequest(stack[i].method)
        => cluster[stack[i].obj] \/ closedBy[stack[i].obj] > stack[i].call

Inside(f) == f.closed => HasRequest(f.method) /\ closedBy[f.obj] > f.call

ClosedInside ==
    /\ \A i \in DOMAIN stack : Inside(stack[i])
    /\ returned # NoCall => Inside(returned)

CallInv == CallsNested /\ ConnectedIsOpen /\ EnteredOpen /\ ClosedInside

LEMMA CallInvInit == Init => CallInv
  BY DEF Init, CallInv, CallsNested, ConnectedIsOpen, EnteredOpen, ClosedInside

\* Where a step leaves a frame: one further, or at the end of its method.
LEMMA FrameMoves ==
  ASSUME NEW f \in Frame, NEW s \in Step
  PROVE  /\ NextStep(f).obj = f.obj /\ NextStep(f).method = f.method
         /\ NextStep(f).call = f.call /\ NextStep(f).closed = f.closed
         /\ NextStep(f).pc = f.pc + 1
         /\ Failed(f, s).obj = f.obj /\ Failed(f, s).method = f.method
         /\ Failed(f, s).call = f.call /\ Failed(f, s).closed = f.closed
         /\ Failed(f, s).pc = IF s.ends THEN Len(Code[f.method]) + 1 ELSE f.pc + 1
  <1> DEFINE g == [f EXCEPT !.status = Assigned(f, @, s.status),
                            !.error = Assigned(f, @, s.error), !.lost = TRUE]
  <1>1. /\ g \in Frame /\ g.obj = f.obj /\ g.method = f.method /\ g.call = f.call
        /\ g.closed = f.closed /\ g.pc = f.pc
    <2>1. /\ Assigned(f, f.status, s.status) \in Codes
          /\ Assigned(f, f.error, s.error) \in Codes
      BY DEF Assigned, Frame, Step
    <2> QED  BY <2>1 DEF Frame
  <1> HIDE DEF g
  <1>2. /\ NextStep(f).obj = f.obj /\ NextStep(f).method = f.method
        /\ NextStep(f).call = f.call /\ NextStep(f).closed = f.closed
        /\ NextStep(f).pc = f.pc + 1
    BY DEF Frame, NextStep
  <1>3. /\ NextStep(g).obj = f.obj /\ NextStep(g).method = f.method
        /\ NextStep(g).call = f.call /\ NextStep(g).closed = f.closed
        /\ NextStep(g).pc = f.pc + 1
    BY <1>1 DEF NextStep, Frame
  <1>4. /\ Ended(g).obj = f.obj /\ Ended(g).method = f.method
        /\ Ended(g).call = f.call /\ Ended(g).closed = f.closed
        /\ Ended(g).pc = Len(Code[f.method]) + 1
    BY <1>1 DEF Ended, Frame
  <1> QED  BY <1>2, <1>3, <1>4 DEF Failed, g

\* The innermost call comes to g.
Moved(g) == stack' = [stack EXCEPT ![Depth] = g] /\ UNCHANGED <<calls, returned>>

\* A step of the innermost call that leaves all clusters as they are.
LEMMA LocalKeeps ==
  ASSUME TypeOK, CallInv, Running, NEW g \in Frame, Moved(g),
         UNCHANGED <<cluster, closedBy>>, ConnectedIsOpen',
         g.obj = Top.obj, g.method = Top.method, g.call = Top.call,
         g.closed => Top.closed \/ (~cluster[Top.obj] /\ At.kind = "request"),
         g.pc <= Len(Steps) /\ HasRequest(g.method) => Top.pc > 1 \/ cluster[Top.obj]
  PROVE  CallInv'
  <1>1. /\ stack \in Seq(Frame) /\ Depth \in DOMAIN stack /\ Depth = Len(stack)
        /\ Top = stack[Depth] /\ Top \in Frame /\ Top.pc \in 1 .. Len(Steps)
    BY StepTypes DEF TypeOK, Depth, Top
  <1>2. /\ stack' \in Seq(Frame) /\ Len(stack') = Len(stack) /\ DOMAIN stack' = DOMAIN stack
        /\ \A i \in DOMAIN stack : stack'[i] = IF i = Depth THEN g ELSE stack[i]
        /\ UNCHANGED <<calls, returned, cluster, closedBy>>
    BY <1>1 DEF Moved
  <1>3. \A i \in DOMAIN stack : /\ stack'[i].obj = stack[i].obj
                                /\ stack'[i].method = stack[i].method
                                /\ stack'[i].call = stack[i].call
    BY <1>1, <1>2
  <1>4. CallsNested'
    BY <1>2, <1>3 DEF CallInv, CallsNested
  <1>5. At.kind = "request" => HasRequest(Top.method) /\ Top.pc > 1
    <2> SUFFICES ASSUME At.kind = "request" PROVE HasRequest(Top.method) /\ Top.pc > 1
      OBVIOUS
    <2>1. Code[Top.method][Top.pc].kind = "request" /\ Top.pc \in 1 .. Len(Code[Top.method])
      BY <1>1 DEF At, Steps
    <2>2. Top.method \in Method
      BY <1>1 DEF Frame
    <2> QED  BY <2>1, <2>2, EntryAssumption DEF HasRequest
  <1>6. Top.pc > 1 /\ HasRequest(Top.method) =>
            cluster[Top.obj] \/ closedBy[Top.obj] > Top.call
    BY <1>1 DEF CallInv, EnteredOpen, Steps
  <1>7. EnteredOpen'
    <2> SUFFICES ASSUME NEW i \in DOMAIN stack,
                        stack'[i].pc > 1, stack'[i].pc <= Len(Code[stack'[i].method]),
                        HasRequest(stack'[i].method)
                 PROVE  cluster[stack'[i].obj] \/ closedBy[stack'[i].obj] > stack'[i].call
      BY <1>2 DEF EnteredOpen
    <2>1. CASE i = Depth
      BY <1>1, <1>2, <1>6, <2>1 DEF Steps
    <2>2. CASE i # Depth
      BY <1>2, <2>2 DEF CallInv, EnteredOpen
    <2> QED  BY <2>1, <2>2
  <1>8. g.closed => HasRequest(g.method) /\ closedBy[g.obj] > g.call
    <2>1. CASE Top.closed
      BY <1>1, <2>1 DEF CallInv, ClosedInside, Inside
    <2>2. CASE ~cluster[Top.obj] /\ At.kind = "request"
      BY <1>5, <1>6, <2>2
    <2> QED  BY <2>1, <2>2
  <1>9. ClosedInside'
    <2>1. \A i \in DOMAIN stack : stack'[i].closed =>
              HasRequest(stack'[i].method) /\ closedBy[stack'[i].obj] > stack'[i].call
      BY <1>2, <1>8 DEF CallInv, ClosedInside, Inside
    <2>2. returned # NoCall /\ returned.closed =>
              HasRequest(returned.method) /\ closedBy[returned.obj] > returned.call
      BY DEF CallInv, ClosedInside, Inside
    <2> QED  BY <1>2, <2>1, <2>2 DEF ClosedInside, Inside
  <1> QED  BY <1>4, <1>7, <1>9 DEF CallInv

LEMMA FrameFields ==
  \A s \in Seq(Frame) : \A i \in DOMAIN s :
      s[i].obj \in Object /\ s[i].method \in Method /\ s[i].call \in Nat
  <1>1. \A f \in Frame : f.obj \in Object /\ f.method \in Method /\ f.call \in Nat
    BY DEF Frame
  <1> QED  BY <1>1

LEMMA CallInvNext == TypeOK /\ CallInv /\ [Next]_vars => CallInv'
  <1> SUFFICES ASSUME TypeOK, CallInv, [Next]_vars PROVE CallInv'
    OBVIOUS
  <1>0. Running => /\ Top \in Frame /\ At \in Step
                   /\ Top.pc \in 1 .. Len(Steps) /\ Top.method \in Method
    BY StepTypes DEF Frame
  <1>1. ASSUME NEW o \in Object, NEW n \in {calls + 1} \cap (1 .. MaxCalls),
               NEW m \in Callable[n], NEW opts \in Passed[n], Begin(o, m, opts)
        PROVE  CallInv'
    <2> DEFINE f == [obj |-> o, method |-> m, call |-> calls + 1, pc |-> 1,
                     status |-> "OK", error |-> "OK", opts |-> opts, taken |-> {},
                     lost |-> FALSE, written |-> FALSE, job |-> FALSE, known |-> FALSE,
                     closed |-> FALSE]
    <2>1. /\ f.call = calls + 1 /\ f.pc = 1 /\ f.closed = FALSE
          /\ stack' = Append(stack, f) /\ calls' = calls + 1 /\ returned' = NoCall
          /\ UNCHANGED <<connected, cluster, closedBy>>
      BY <1>1 DEF Begin, objects
    <2> HIDE DEF f
    <2>2. /\ stack \in Seq(Frame) /\ calls \in Nat
          /\ Len(stack) \in Nat /\ DOMAIN stack = 1 .. Len(stack)
          /\ DOMAIN stack' = 1 .. Len(stack) + 1 /\ Len(stack') = Len(stack) + 1
          /\ \A i \in DOMAIN stack : stack'[i] = stack[i] /\ stack[i].call \in Nat
          /\ stack'[Len(stack) + 1] = f
      <3>1. stack \in Seq(Frame) /\ calls \in Nat
        BY DEF TypeOK
      <3>2. \A i \in DOMAIN stack : stack[i].call \in Nat
        BY <3>1, FrameFields
      <3>3. \A e : /\ Len(Append(stack, e)) = Len(stack) + 1
                    /\ DOMAIN Append(stack, e) = 1 .. Len(stack) + 1
                    /\ \A i \in 1 .. Len(stack) : Append(stack, e)[i] = stack[i]
                    /\ Append(stack, e)[Len(stack) + 1] = e
        BY <3>1
      <3>4. /\ Len(stack') = Len(stack) + 1 /\ DOMAIN stack' = 1 .. Len(stack) + 1
            /\ \A i \in 1 .. Len(stack) : stack'[i] = stack[i]
            /\ stack'[Len(stack) + 1] = f
        BY <2>1, <3>3
      <3>5. Len(stack) \in Nat /\ DOMAIN stack = 1 .. Len(stack)
        BY <3>1
      <3> QED  BY <3>1, <3>2, <3>4, <3>5
    <2>3. Len(stack) > 0 => RunsScript(stack[Len(stack)].method)
      <3> SUFFICES ASSUME Len(stack) > 0 PROVE RunsScript(Top.method)
        BY DEF Top, Depth
      <3>1. Running /\ (At.script \/ At.kind = "request")
        BY <1>1 DEF Begin, ScriptRuns, AtKind, Depth
      <3> QED  BY <1>0, <3>1 DEF RunsScript, At, Steps
    <2>4. CallsNested'
      <3>1. \A i \in DOMAIN stack' : stack'[i].call <= calls'
        BY <2>1, <2>2 DEF CallInv, CallsNested
      <3>2. \A i \in DOMAIN stack' : \A j \in DOMAIN stack' :
                i < j => stack'[i].call < stack'[j].call
        BY <2>1, <2>2 DEF CallInv, CallsNested
      <3>3. \A i \in DOMAIN stack' : i < Len(stack') => RunsScript(stack'[i].method)
        BY <2>2, <2>3 DEF CallInv, CallsNested
      <3> QED  BY <2>1, <3>1, <3>2, <3>3 DEF CallsNested
    <2>5. ConnectedIsOpen' /\ EnteredOpen' /\ ClosedInside'
      BY <2>1, <2>2 DEF CallInv, ConnectedIsOpen, EnteredOpen, ClosedInside, Inside
    <2> QED  BY <2>4, <2>5 DEF CallInv
  <1>2. ASSUME Running, NEW f \in Frame, NEW g \in Frame, Moved(g),
               UNCHANGED <<cluster, closedBy>>, ConnectedIsOpen',
               f.obj = Top.obj, f.method = Top.method, f.call = Top.call, f.pc = Top.pc,
               f.closed => Top.closed \/ (~cluster[Top.obj] /\ At.kind = "request"),
               \/ g = NextStep(f) /\ (At.kind = "connected" => cluster[Top.obj])
               \/ g = Failed(f, At)
        PROVE  CallInv'
    <2>1. /\ g.obj = Top.obj /\ g.method = Top.method /\ g.call = Top.call
          /\ g.closed = f.closed
          /\ g = Failed(f, At) => g.pc = IF At.ends THEN Len(Steps) + 1 ELSE Top.pc + 1
      BY <1>0, <1>2, FrameMoves DEF Steps
    <2>2. HasRequest(Top.method) /\ Top.pc = 1 => At.kind = "connected" /\ At.ends
      BY <1>0, <1>2, EntryAssumption DEF HasRequest, At, Steps
    <2>3. g.pc <= Len(Steps) /\ HasRequest(g.method) => Top.pc > 1 \/ cluster[Top.obj]
      <3>1. Len(Steps) \in Nat /\ Top.pc \in Nat /\ Top.pc >= 1
        BY <1>0, <1>2, StepTypes
      <3> QED  BY <1>2, <2>1, <2>2, <3>1
    <2> QED  BY <1>2, <2>1, <2>3, LocalKeeps
  <1>3. Running => NextStep(Top) \in Frame /\ Failed(Top, At) \in Frame
    BY <1>0, PcTypes, FailedType
  <1>4. ASSUME Connected \/ Check \/ Clean PROVE CallInv'
    <2>1. Running /\ UNCHANGED objects
      BY <1>4 DEF Connected, Check, Clean, AtKind
    <2>2. \/ Moved(NextStep(Top)) /\ (At.kind = "connected" => connected[Top.obj])
          \/ Moved(Failed(Top, At))
      BY <1>4 DEF Connected, Check, Clean, AtKind, Local, Moved
    <2>3. connected[Top.obj] => cluster[Top.obj]
      BY <1>0, <2>1 DEF CallInv, ConnectedIsOpen, Frame
    <2>4. ConnectedIsOpen' /\ UNCHANGED <<cluster, closedBy>>
      BY <2>1 DEF CallInv, ConnectedIsOpen, objects
    <2>5. CASE Moved(NextStep(Top)) /\ (At.kind = "connected" => connected[Top.obj])
      BY <1>0, <1>2, <1>3, <2>1, <2>3, <2>4, <2>5
    <2>6. CASE Moved(Failed(Top, At))
      BY <1>0, <1>2, <1>3, <2>1, <2>4, <2>6
    <2> QED  BY <2>2, <2>5, <2>6
  <1>5. ASSUME Crash PROVE CallInv'
    <2>1. stack' = <<>> /\ UNCHANGED <<connected, cluster, closedBy, calls, returned>>
      BY <1>5 DEF Crash, objects
    <2> QED
      BY <2>1 DEF CallInv, CallsNested, ConnectedIsOpen, EnteredOpen, ClosedInside, Inside
  <1>6. ASSUME Probe PROVE CallInv'
    <2>1. Running /\ At.kind = "probe" /\ Moved(NextStep(Top)) /\ UNCHANGED <<cluster, closedBy>>
      BY <1>6 DEF Probe, AtKind, Local, Moved
    <2>2. ConnectedIsOpen'
      BY <1>0, <1>6, <2>1 DEF Probe, CallInv, ConnectedIsOpen, TypeOK
    <2> QED  BY <1>0, <1>2, <1>3, <2>1, <2>2
  <1>7. ASSUME Policy PROVE CallInv'
    <2> DEFINE p == SetPolicy(build, At.how, Top.opts)
               f == [Top EXCEPT !.taken = p.taken,
                                !.lost = @ \/ p.taken # KeysOf(Top.opts)]
               e == [f EXCEPT !.error = "OK"]
    <2>1. Running /\ At.kind = "policy" /\ At \in Step /\ Top \in Frame
          /\ UNCHANGED <<connected, cluster, closedBy>>
      BY <1>0, <1>7 DEF Policy, AtKind
    <2>2. p.taken \subseteq OptionKey
      <3>1. Top.opts \in Seq(Option)
        BY <2>1, CallAssumption DEF Frame
      <3> QED  BY <3>1, PolicyTypes DEF TypeOK
    <2>3. /\ f \in Frame /\ f.obj = Top.obj /\ f.method = Top.method /\ f.call = Top.call
          /\ f.pc = Top.pc /\ f.closed = Top.closed
      BY <2>1, <2>2 DEF Frame
    <2>4. Moved(NextStep(e)) \/ Moved(Failed(f, At))
      BY <1>7 DEF Policy, Local, Moved
    <2> HIDE DEF f
    <2>5. /\ e \in Frame /\ e.obj = Top.obj /\ e.method = Top.method /\ e.call = Top.call
          /\ e.pc = Top.pc /\ e.closed = Top.closed
      BY <2>3 DEF Frame, Codes
    <2> HIDE DEF e
    <2>6. ConnectedIsOpen'
      BY <2>1 DEF CallInv, ConnectedIsOpen
    <2>7. NextStep(e) \in Frame /\ Failed(f, At) \in Frame
      BY <2>1, <2>3, <2>5, PcTypes, FailedType
    <2>8. CASE Moved(NextStep(e))
      BY <1>2, <2>1, <2>5, <2>6, <2>7, <2>8
    <2>9. CASE Moved(Failed(f, At))
      BY <1>2, <2>1, <2>3, <2>6, <2>7, <2>9
    <2> QED  BY <2>4, <2>8, <2>9
  <1>8. ASSUME Request PROVE CallInv'
    <2>1. PICK applied \in BOOLEAN, answered \in BOOLEAN :
            LET f == [Top EXCEPT
                          !.error = "OK",
                          !.written = @ \/ (applied /\ At.how = "write"),
                          !.job = @ \/ (applied /\ At.how = "job"),
                          !.closed = @ \/ ~cluster[Top.obj],
                          !.lost = @ \/ (~At.policy /\ Top.taken # {})]
            IN  Local(IF answered THEN NextStep([f EXCEPT !.status = "OK"])
                      ELSE Failed(f, At))
      BY <1>8 DEF Request
    <2> DEFINE f == [Top EXCEPT
                          !.error = "OK",
                          !.written = @ \/ (applied /\ At.how = "write"),
                          !.job = @ \/ (applied /\ At.how = "job"),
                          !.closed = @ \/ ~cluster[Top.obj],
                          !.lost = @ \/ (~At.policy /\ Top.taken # {})]
               e == [f EXCEPT !.status = "OK"]
    <2>2. /\ Running /\ At.kind = "request" /\ At \in Step /\ Top \in Frame
          /\ UNCHANGED <<connected, cluster, closedBy>>
      BY <1>0, <1>8 DEF Request, AtKind, objects
    <2>3. /\ f \in Frame /\ f.obj = Top.obj /\ f.method = Top.method /\ f.call = Top.call
          /\ f.pc = Top.pc
      BY <2>2 DEF Frame, Codes
    <2>4. f.closed => Top.closed \/ ~cluster[Top.obj]
      BY <2>2 DEF Frame
    <2>5. Moved(NextStep(e)) \/ Moved(Failed(f, At))
      BY <2>1 DEF Local, Moved
    <2> HIDE DEF f
    <2>6. /\ e \in Frame /\ e.obj = Top.obj /\ e.method = Top.method /\ e.call = Top.call
          /\ e.pc = Top.pc /\ e.closed = f.closed
      BY <2>3 DEF Frame, Codes
    <2> HIDE DEF e
    <2>7. ConnectedIsOpen'
      BY <2>2 DEF CallInv, ConnectedIsOpen
    <2>8. NextStep(e) \in Frame /\ Failed(f, At) \in Frame
      BY <2>2, <2>3, <2>6, PcTypes, FailedType
    <2>9. CASE Moved(NextStep(e))
      BY <1>2, <2>2, <2>4, <2>6, <2>7, <2>8, <2>9
    <2>10. CASE Moved(Failed(f, At))
      BY <1>2, <2>2, <2>3, <2>4, <2>7, <2>8, <2>10
    <2> QED  BY <2>5, <2>9, <2>10
  <1>9. ASSUME Output PROVE CallInv'
    <2> DEFINE f == [Top EXCEPT !.known = Top.job]
    <2>1. Running /\ At.kind = "output" /\ At \in Step /\ Top \in Frame /\ UNCHANGED objects
      BY <1>0, <1>9 DEF Output, AtKind
    <2>2. /\ f \in Frame /\ f.obj = Top.obj /\ f.method = Top.method /\ f.call = Top.call
          /\ f.pc = Top.pc /\ f.closed = Top.closed
      BY <2>1 DEF Frame
    <2>3. Moved(NextStep(f)) \/ Moved(Failed(Top, At))
      BY <1>9 DEF Output, Local, Moved
    <2> HIDE DEF f
    <2>4. ConnectedIsOpen' /\ UNCHANGED <<cluster, closedBy>>
      BY <2>1 DEF CallInv, ConnectedIsOpen, objects
    <2>5. NextStep(f) \in Frame /\ Failed(Top, At) \in Frame
      BY <2>1, <2>2, PcTypes, FailedType
    <2>6. CASE Moved(NextStep(f))
      BY <1>2, <2>1, <2>2, <2>4, <2>5, <2>6
    <2>7. CASE Moved(Failed(Top, At))
      BY <1>2, <2>1, <2>4, <2>5, <2>7
    <2> QED  BY <2>3, <2>6, <2>7
  <1>10. ASSUME LogHandler PROVE CallInv'
    <2>1. /\ Running /\ At.kind = "handler" /\ UNCHANGED objects
          /\ Moved(NextStep(Top)) \/ Moved(Failed(Top, At))
      BY <1>10 DEF LogHandler, AtKind, Moved
    <2>2. ConnectedIsOpen' /\ UNCHANGED <<cluster, closedBy>>
      BY <2>1 DEF CallInv, ConnectedIsOpen, objects
    <2>3. CASE Moved(NextStep(Top))
      BY <1>0, <1>2, <1>3, <2>1, <2>2, <2>3
    <2>4. CASE Moved(Failed(Top, At))
      BY <1>0, <1>2, <1>3, <2>1, <2>2, <2>4
    <2> QED  BY <2>1, <2>3, <2>4
  <1>11. ASSUME CloseCluster PROVE CallInv'
    <2>1. /\ Running /\ At.kind = "close"
          /\ Moved(NextStep(Top)) \/ Moved(Failed(Top, At))
      BY <1>11 DEF CloseCluster, AtKind, Local, Moved
    <2>2. ~HasRequest(Top.method) /\ ~RunsScript(Top.method)
      BY <1>0, <2>1, EntryAssumption DEF HasRequest, RunsScript, At, Steps
    <2>3. /\ stack \in Seq(Frame) /\ Depth \in DOMAIN stack /\ Depth = Len(stack)
          /\ Top = stack[Depth] /\ Top.obj \in Object
      BY <1>0, <2>1, StepTypes DEF TypeOK, Depth, Top, Frame
    <2>4. PICK g \in {NextStep(Top), Failed(Top, At)} : Moved(g)
      BY <2>1
    <2>5. /\ g \in Frame /\ g.obj = Top.obj /\ g.method = Top.method /\ g.call = Top.call
          /\ g.closed = Top.closed
      BY <1>0, <1>3, <2>1, FrameMoves
    <2>6. /\ Len(stack') = Len(stack) /\ DOMAIN stack' = DOMAIN stack
          /\ \A i \in DOMAIN stack : stack'[i] = IF i = Depth THEN g ELSE stack[i]
          /\ UNCHANGED <<calls, returned>>
      BY <2>3, <2>4, <2>5 DEF Moved
    <2>7. \A i \in DOMAIN stack : /\ stack'[i].obj = stack[i].obj
                                  /\ stack'[i].method = stack[i].method
                                  /\ stack'[i].call = stack[i].call
                                  /\ stack'[i].closed = stack[i].closed
      BY <2>3, <2>5, <2>6
    <2>8. returned = NoCall
      BY <2>2, <2>3 DEF CallInv, CallsNested
    <2>9. \A o \in Object : /\ connected'[o] => connected[o]
                            /\ closedBy'[o] = closedBy[o] \/ closedBy'[o] = Top.call
                            /\ closedBy'[o] = closedBy[o] => cluster'[o] = cluster[o]
                                                             \/ closedBy[o] = Top.call
                            /\ connected'[o] => cluster'[o]
      BY <1>11, <2>3 DEF CloseCluster, TypeOK, CallInv, ConnectedIsOpen
    <2>10. CallsNested' /\ ConnectedIsOpen'
      BY <2>6, <2>7, <2>9 DEF CallInv, CallsNested, ConnectedIsOpen
    <2>11. \A i \in DOMAIN stack : i # Depth => Top.call > stack[i].call
      BY <2>3 DEF CallInv, CallsNested
    <2>12. \A i \in DOMAIN stack : stack[i].obj \in Object /\ stack[i].call \in Nat
      BY <2>3, FrameFields
    <2>13. EnteredOpen'
      <3> SUFFICES ASSUME NEW i \in DOMAIN stack,
                          stack'[i].pc > 1, stack'[i].pc <= Len(Code[stack'[i].method]),
                          HasRequest(stack'[i].method)
                   PROVE  cluster'[stack'[i].obj] \/ closedBy'[stack'[i].obj] > stack'[i].call
        BY <2>6 DEF EnteredOpen
      <3>1. i # Depth
        BY <2>2, <2>3, <2>7
      <3>2. cluster[stack[i].obj] \/ closedBy[stack[i].obj] > stack[i].call
        BY <2>6, <3>1 DEF CallInv, EnteredOpen
      <3> QED  BY <2>7, <2>9, <2>11, <2>12, <3>1, <3>2
    <2>14. ClosedInside'
      <3> SUFFICES ASSUME NEW i \in DOMAIN stack, stack'[i].closed
                   PROVE  /\ HasRequest(stack'[i].method)
                          /\ closedBy'[stack'[i].obj] > stack'[i].call
        BY <2>6, <2>8 DEF ClosedInside, Inside
      <3>1. HasRequest(stack[i].method) /\ closedBy[stack[i].obj] > stack[i].call
        BY <2>7 DEF CallInv, ClosedInside, Inside
      <3>2. i # Depth
        BY <2>2, <2>3, <3>1
      <3> QED  BY <2>7, <2>9, <2>11, <2>12, <3>1, <3>2
    <2> QED  BY <2>10, <2>13, <2>14 DEF CallInv
  <1>12. ASSUME Return PROVE CallInv'
    <2>1. /\ stack \in Seq(Frame) /\ Len(stack) > 0 /\ Depth = Len(stack) /\ returned' = Top
          /\ Top = stack[Len(stack)] /\ Len(stack) \in DOMAIN stack
          /\ stack' = SubSeq(stack, 1, Len(stack) - 1)
          /\ UNCHANGED <<connected, cluster, closedBy, calls>>
      BY <1>12 DEF Return, Depth, Top, TypeOK, objects
    <2>2. /\ Len(stack') = Len(stack) - 1 /\ DOMAIN stack' = 1 .. Len(stack) - 1
          /\ DOMAIN stack = 1 .. Len(stack)
          /\ \A i \in DOMAIN stack' : stack'[i] = stack[i] /\ i \in DOMAIN stack /\ i < Len(stack)
      BY <2>1, StackTypes
    <2>3. CallsNested'
      BY <2>1, <2>2 DEF CallInv, CallsNested
    <2>4. ConnectedIsOpen' /\ EnteredOpen'
      BY <2>1, <2>2 DEF CallInv, ConnectedIsOpen, EnteredOpen
    <2>5. ClosedInside'
      BY <2>1, <2>2 DEF CallInv, ClosedInside, Inside
    <2> QED  BY <2>3, <2>4, <2>5 DEF CallInv
  <1>13. ASSUME Value PROVE CallInv'
    <2> DEFINE f == [Top EXCEPT !.error = "OK"]
    <2>1. Running /\ At.kind = "value" /\ At \in Step /\ Top \in Frame /\ UNCHANGED objects
      BY <1>0, <1>13 DEF Value, AtKind
    <2>2. /\ f \in Frame /\ f.obj = Top.obj /\ f.method = Top.method /\ f.call = Top.call
          /\ f.pc = Top.pc /\ f.closed = Top.closed
      BY <2>1 DEF Frame, Codes
    <2>3. Moved(NextStep(f)) \/ Moved(NextStep(Top)) \/ Moved(Failed(Top, At))
      BY <1>13 DEF Value, Local, Moved
    <2> HIDE DEF f
    <2>4. ConnectedIsOpen' /\ UNCHANGED <<cluster, closedBy>>
      BY <2>1 DEF CallInv, ConnectedIsOpen, objects
    <2>5. NextStep(f) \in Frame
      BY <2>2, PcTypes
    <2>6. CASE Moved(NextStep(f))
      BY <1>2, <2>1, <2>2, <2>4, <2>5, <2>6
    <2>7. CASE Moved(NextStep(Top))
      BY <1>2, <1>3, <2>1, <2>4, <2>7
    <2>8. CASE Moved(Failed(Top, At))
      BY <1>2, <1>3, <2>1, <2>4, <2>8
    <2> QED  BY <2>3, <2>6, <2>7, <2>8
  <1>14. CASE UNCHANGED vars
    BY <1>14 DEF vars, objects, CallInv, CallsNested, ConnectedIsOpen, EnteredOpen,
                ClosedInside, Inside
  <1> QED
    BY <1>1, <1>4, <1>5, <1>6, <1>7, <1>8, <1>9, <1>10, <1>11, <1>12, <1>13, <1>14 DEF Next

LEMMA CallsAlwaysNest == Spec => [](TypeOK /\ CallInv)
  <1>1. Init => TypeOK /\ CallInv
    BY TypeInit, CallInvInit
  <1>2. (TypeOK /\ CallInv) /\ [Next]_vars => (TypeOK /\ CallInv)'
    BY TypeNext, CallInvNext
  <1> QED  BY <1>1, <1>2, PTL DEF Spec

\* No request ends on a closed cluster unless a function of the script closed it
\* inside the same call, however deep the calls nest.
THEOREM OnlyInsideClosed == Spec => []ClosedOnlyInside
  <1>1. TypeOK /\ CallInv => ClosedOnlyInside
    BY DEF CallInv, ClosedInside, Inside, ClosedOnlyInside
  <1> QED  BY <1>1, CallsAlwaysNest, PTL

-----------------------------------------------------------------------------
(* The error a call leaves.                                                *)

LEMMA ExitErrors ==
  ASSUME TypeOK, NEW f \in Frame, ~ShowsStale(f)
  PROVE  /\ Finish[f.method] # "none"
         /\ ErrorAtExit(f).call = f.call
         /\ ErrorAtExit(f).code = "OK" =>
                f.error = "OK" \/ (Finish[f.method] # "set" /\ f.status = "OK")
  <1>1. Finish[f.method] \in {"set", "reset", "close"}
    BY CallAssumption DEF ShowsStale, Finishes, Frame
  <1> DEFINE own(code) == [code |-> code, call |-> f.call]
  <1>0. \A code : own(code).call = f.call /\ own(code).code = code
    OBVIOUS
  <1>2. CASE Finish[f.method] = "set"
    <2>1. ErrorAtExit(f) = own(f.error)
      BY <1>2 DEF ErrorAtExit
    <2> QED  BY <1>0, <1>2, <2>1
  <1>3. CASE Finish[f.method] = "reset"
    <2>1. CASE f.status = "OK"
      <3>1. ErrorAtExit(f) = own("OK")
        BY <1>3, <2>1 DEF ErrorAtExit
      <3> QED  BY <1>0, <1>3, <2>1, <3>1
    <2>2. CASE f.status # "OK"
      <3>1. ErrorAtExit(f) = own(f.error)
        BY <1>3, <2>2 DEF ErrorAtExit
      <3> QED  BY <1>0, <1>3, <2>2, <3>1
    <2> QED  BY <2>1, <2>2
  <1>4. CASE Finish[f.method] = "close"
    <2>1. CASE f.status = "OK"
      <3>1. ErrorAtExit(f) = own("OK")
        BY <1>4, <2>1 DEF ErrorAtExit, ShowsStale
      <3> QED  BY <1>0, <1>4, <2>1, <3>1
    <2>2. CASE f.status # "OK"
      <3>1. ErrorAtExit(f) = own(f.error)
        BY <1>4, <2>2 DEF ErrorAtExit
      <3> QED  BY <1>0, <1>4, <2>2, <3>1
    <2> QED  BY <2>1, <2>2
  <1> QED  BY <1>1, <1>2, <1>3, <1>4

LEMMA ErrorInit == Init => ErrorOfLastCall
  BY DEF Init, ErrorOfLastCall

LEMMA ErrorNext == TypeOK /\ ErrorOfLastCall /\ [Next]_vars => ErrorOfLastCall'
  <1> SUFFICES ASSUME TypeOK, ErrorOfLastCall, [Next]_vars PROVE ErrorOfLastCall'
    OBVIOUS
  <1>1. ASSUME NEW o \in Object, NEW m, NEW opts, Begin(o, m, opts) PROVE ErrorOfLastCall'
    BY <1>1 DEF Begin, ErrorOfLastCall
  <1>2. ASSUME UNCHANGED <<shown, returned>> PROVE ErrorOfLastCall'
    BY <1>2 DEF ErrorOfLastCall, ShowsStale
  <1>3. ASSUME Connected \/ Check \/ Policy \/ Value \/ Clean \/ Request \/ Output \/ Crash
               \/ Probe \/ CloseCluster \/ LogHandler
        PROVE  UNCHANGED <<shown, returned>>
    BY <1>3 DEF Connected, Check, Policy, Value, Clean, Request, Output, Crash, Probe,
                CloseCluster, LogHandler, Local, errors
  <1>4. ASSUME Return PROVE ErrorOfLastCall'
    <2>1. Top \in Frame /\ Top.obj \in Object
      <3>1. stack \in Seq(Frame) /\ Depth \in DOMAIN stack
        BY <1>4 DEF Return, TypeOK, Depth
      <3> QED  BY <3>1, FrameFields DEF Top
    <2>2. CASE ShowsStale(Top)
      BY <1>4, <2>2 DEF Return, ErrorOfLastCall, ShowsStale
    <2>3. CASE ~ShowsStale(Top)
      <3>1. shown'[Top.obj] = ErrorAtExit(Top) /\ returned' = Top
        BY <1>4, <2>1, <2>3, ExitErrors DEF Return, TypeOK
      <3> QED  BY <2>1, <2>3, <3>1, ExitErrors DEF ErrorOfLastCall
    <2> QED  BY <2>2, <2>3
  <1>5. CASE UNCHANGED vars
    BY <1>2, <1>5 DEF vars, errors
  <1> QED  BY <1>1, <1>2, <1>3, <1>4, <1>5 DEF Next

\* The object of the call that returned last shows the error of this call, whatever
\* calls of other objects ran before it and inside it.
THEOREM ErrorIsOwn == Spec => []ErrorOfLastCall
  BY TypeInit, TypeNext, ErrorInit, ErrorNext, PTL DEF Spec

-----------------------------------------------------------------------------
(* Options.                                                                *)

\* A call leaves in its object at most its connect timeout and, of a list method, its
\* serializer.
THEOREM OptionsEnd == Spec => OptionsEndWithCall
  <1> DEFINE Ends == \A o \in Object : kept'[o] # kept[o] =>
          /\ o = Top.obj /\ At.kind = "policy"
          /\ kept'[o] \ kept[o] \subseteq
                 {"CONNECT_TIMEOUT"} \cup (IF At.how = "list" THEN {"SERIALIZER"} ELSE {})
  <1>1. TypeOK /\ [Next]_vars => [Ends]_vars
    <2> SUFFICES ASSUME TypeOK, [Next]_vars PROVE Ends
      OBVIOUS
    <2>1. CASE Policy
      <3>1. /\ kept' = [kept EXCEPT ![Top.obj] = @ \cup SetPolicy(build, At.how, Top.opts).kept]
            /\ At.kind = "policy" /\ At.how # "config"
        BY <2>1, StepTypes DEF Policy, AtKind, Step, PolicyUse, Kind
      <3>2. SetPolicy(build, At.how, Top.opts).kept \subseteq
                {"CONNECT_TIMEOUT"} \cup (IF At.how = "list" THEN {"SERIALIZER"} ELSE {})
        BY <3>1 DEF SetPolicy, KeptBy
      <3> QED  BY <3>1, <3>2 DEF TypeOK
    <2>2. CASE UNCHANGED kept
      BY <2>2
    <2>3. ASSUME NEW o, NEW m, NEW opts, Begin(o, m, opts) PROVE UNCHANGED kept
      BY <2>3 DEF Begin, objects
    <2>4. ASSUME Connected \/ Check \/ Value \/ Clean \/ Request \/ Output \/ Crash \/ Probe
                 \/ CloseCluster \/ LogHandler \/ Return \/ UNCHANGED vars
          PROVE  UNCHANGED kept
      BY <2>4 DEF Connected, Check, Value, Clean, Request, Output, Crash, Probe, CloseCluster,
                  LogHandler, Return, objects, vars
    <2> QED  BY <2>1, <2>2, <2>3, <2>4 DEF Next
  <1>2. Spec => []TypeOK
    BY CallTypeCorrect
  <1> QED  BY <1>1, <1>2, PTL DEF Spec, OptionsEndWithCall
===============================================================================
