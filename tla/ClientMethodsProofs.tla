------------------------- MODULE ClientMethodsProofs --------------------------
(***************************************************************************)
(* What the methods tell their caller, proved of the table of methods.      *)
(*                                                                         *)
(* Each property follows from a rule on the steps of a method.  That a       *)
(* method which obeys the rule has the property is proved for any steps;     *)
(* that the methods obey it, from their definitions.                         *)
(***************************************************************************)
EXTENDS ClientMethods, MethodCallsProofs, SequenceTheorems

-----------------------------------------------------------------------------
(* What a step leaves of a call.                                           *)

\* Options that are lost without a word, in every method: those PHP 7 does not come
\* to, and the generation that an array does not hold.
OptionsLost(b, f) == b = "php7" /\ (Len(f.opts) > 1 \/ "EMPTY_GEN" \in KeysOf(f.opts))

Writes(s) == s.kind = "request" /\ s.how = "write"
StartsJob(s) == s.kind = "request" /\ s.how = "job"

\* The error when step s assigns: a request resets it first.
ErrorBefore(f, s) == IF s.kind = "request" THEN "OK" ELSE f.error

Stepped(f, s, g) ==
    /\ g.method = f.method /\ g.opts = f.opts
    /\ g.written => f.written \/ Writes(s)
    /\ g.job => f.job \/ StartsJob(s)

Succeeds(f, s, g) ==
    /\ Stepped(f, s, g)
    /\ g.pc = f.pc + 1
    /\ g.status = IF s.kind = "request" THEN "OK" ELSE f.status
    /\ s.kind = "value" => g.error \in {"OK", f.error}
    /\ s.kind # "value" => g.error = IF s.kind = "policy" THEN "OK" ELSE ErrorBefore(f, s)
    /\ s.kind = "clean" => f.error = "OK"
    /\ g.known = IF s.kind = "output" THEN f.job ELSE f.known
    /\ g.lost => f.lost \/ OptionsLost(build, f) \/ (s.kind = "request" /\ ~s.policy)

Breaks(f, s, g) ==
    /\ Stepped(f, s, g)
    /\ s.kind # "probe" /\ (s.kind = "output" => s.error # "kept")
    /\ s.kind = "clean" => f.error # "OK"
    /\ g.pc = IF s.ends THEN Len(Code[f.method]) + 1 ELSE f.pc + 1
    /\ g.status = CASE s.status = "kept" -> f.status
                    [] s.status = "same" -> ErrorBefore(f, s)
                    [] OTHER -> s.status
    /\ g.error = IF s.error = "kept" THEN ErrorBefore(f, s) ELSE s.error
    /\ g.known = f.known

\* set_policy takes all options it does not refuse, but for the loop of PHP 7.
LEMMA PolicyTakesAll ==
  ASSUME NEW b \in {"php5", "php7"}, NEW use, NEW opts \in Seq(Option),
         b = "php5" \/ Len(opts) <= 1, SetPolicy(b, use, opts).ok
  PROVE  SetPolicy(b, use, opts).taken = KeysOf(opts)
  <1> DEFINE read == Read(b, opts)
  <1>1. \A i \in DOMAIN read : Accepted(use, read[i])
    BY DEF SetPolicy
  <1>2. read = opts
    <2>1. CASE b = "php5" \/ opts = <<>>
      BY <2>1 DEF Read
    <2>2. CASE b # "php5" /\ opts # <<>>
      <3>1. Len(opts) = 1
        <4>1. Len(opts) \in Nat \ {0}
          BY <2>2, EmptySeq, Zenon
        <4>2. Len(opts) <= 1
          BY <2>2
        <4>3. \A n \in Nat \ {0} : n <= 1 => n = 1
          OBVIOUS
        <4> QED  BY <4>1, <4>2, <4>3, Zenon
      <3>2. opts = <<opts[Len(opts)]>>
        BY <3>1
      <3>3. "string" \notin KeysOf(opts)
        <4> SUFFICES ASSUME "string" \in KeysOf(opts) PROVE FALSE
          OBVIOUS
        <4>1. read = <<[key |-> "string", right |-> FALSE]>>
          BY <2>2 DEF Read
        <4>2. 1 \in DOMAIN read /\ read[1] = [key |-> "string", right |-> FALSE]
          BY <4>1
        <4> HIDE DEF read
        <4>3. Accepted(use, [key |-> "string", right |-> FALSE])
          BY <1>1, <4>2
        <4> QED
          BY <4>3 DEF Accepted, Accepts, ConfigAccepts
      <3> QED  BY <2>2, <3>2, <3>3 DEF Read
    <2> QED  BY <2>1, <2>2
  <1>3. TakenUntil(use, opts) = KeysOf(opts)
    <2>1. \A i \in DOMAIN opts : \A k \in 1 .. i : k \in DOMAIN opts
      OBVIOUS
    <2> QED  BY <1>1, <1>2, <2>1 DEF TakenUntil, KeysOf
  <1> QED  BY <1>2, <1>3 DEF SetPolicy

\* It leaves by its jump for a missing generation only.
LEMMA PolicyQuits ==
  ASSUME NEW b, NEW use, NEW opts \in Seq(Option), SetPolicy(b, use, opts).quits
  PROVE  b = "php7" /\ "EMPTY_GEN" \in KeysOf(opts)
  <1> DEFINE read == Read(b, opts)
  <1>1. b = "php7" /\ GenerationMissing(use, read)
    BY DEF SetPolicy
  <1>2. PICK i \in DOMAIN read : read[i].key = "EMPTY_GEN"
    BY <1>1 DEF GenerationMissing
  <1>3. CASE read = opts
    BY <1>1, <1>2, <1>3 DEF KeysOf
  <1>4. CASE read = <<[key |-> "string", right |-> FALSE]>>
    BY <1>2, <1>4
  <1>5. CASE opts # <<>> /\ read = <<opts[Len(opts)]>>
    <2>1. Len(opts) \in DOMAIN opts /\ i = 1
      BY <1>2, <1>5
    <2> QED  BY <1>1, <1>2, <1>5, <2>1 DEF KeysOf
  <1> QED  BY <1>3, <1>4, <1>5 DEF Read

LEMMA NextSucceeds ==
  ASSUME NEW f \in Frame, NEW s \in Step, s.kind \notin {"policy", "request", "output"},
         s.kind = "clean" => f.error = "OK"
  PROVE  Succeeds(f, s, NextStep(f))
  BY DEF Succeeds, Stepped, ErrorBefore, NextStep, Frame

\* What a failing step assigns, whatever it has changed of the call before.
LEMMA FailedFields ==
  ASSUME NEW f \in Frame, NEW s \in Step
  PROVE  LET g == Failed(f, s)
         IN  /\ g.method = f.method /\ g.opts = f.opts /\ g.written = f.written
             /\ g.job = f.job /\ g.known = f.known
             /\ g.pc = IF s.ends THEN Len(Code[f.method]) + 1 ELSE f.pc + 1
             /\ g.status = CASE s.status = "kept" -> f.status
                             [] s.status = "same" -> f.error
                             [] OTHER -> s.status
             /\ g.error = IF s.error = "kept" THEN f.error ELSE s.error
  <1> DEFINE h == [f EXCEPT !.status = Assigned(f, @, s.status),
                            !.error = Assigned(f, @, s.error), !.lost = TRUE]
  <1>1. Failed(f, s) = IF s.ends THEN Ended(h) ELSE NextStep(h)
    BY DEF Failed
  <1>2. /\ h.method = f.method /\ h.opts = f.opts /\ h.written = f.written
        /\ h.job = f.job /\ h.known = f.known /\ h.pc = f.pc
        /\ h.status = Assigned(f, f.status, s.status)
        /\ h.error = Assigned(f, f.error, s.error)
        /\ DOMAIN h = DOMAIN f
    BY DEF Frame
  <1>3. s.error # "same"
    BY DEF Step, Codes
  <1>4. "pc" \in DOMAIN h
    BY <1>2 DEF Frame
  <1> HIDE DEF h
  <1>5. /\ Ended(h).pc = Len(Code[f.method]) + 1 /\ NextStep(h).pc = f.pc + 1
        /\ \A x \in {"method", "opts", "written", "job", "known", "status", "error"} :
              Ended(h)[x] = h[x] /\ NextStep(h)[x] = h[x]
    BY <1>2, <1>4 DEF Ended, NextStep, Frame
  <1> QED  BY <1>1, <1>2, <1>3, <1>5 DEF Assigned

LEMMA FailedBreaks ==
  ASSUME NEW f \in Frame, NEW s \in Step, s.kind \notin {"policy", "request", "probe"},
         s.kind = "output" => s.error # "kept", s.kind = "clean" => f.error # "OK"
  PROVE  Breaks(f, s, Failed(f, s))
  BY FailedFields DEF Breaks, Stepped, ErrorBefore

\* Each action but Begin, Crash and Return is one step of the innermost call.
LEMMA CallSteps ==
  ASSUME TypeOK,
         Connected \/ Check \/ Policy \/ Value \/ Clean \/ Request \/ Output \/ Probe
         \/ CloseCluster \/ LogHandler
  PROVE  /\ Running /\ UNCHANGED build
         /\ \E g \in Frame : Moved(g) /\ (Succeeds(Top, At, g) \/ Breaks(Top, At, g))
  <1> DEFINE Goal == /\ Running /\ UNCHANGED build
                     /\ \E g \in Frame : Moved(g) /\ (Succeeds(Top, At, g) \/ Breaks(Top, At, g))
  <1>0. ASSUME Running
        PROVE  /\ Top \in Frame /\ At \in Step
               /\ NextStep(Top) \in Frame /\ Failed(Top, At) \in Frame
    BY <1>0, StepTypes, PcTypes, FailedType
  <1>1. ASSUME NEW g, Local(g) PROVE Moved(g) /\ UNCHANGED build
    BY <1>1 DEF Local, Moved
  <1>2. ASSUME Connected \/ Check \/ Clean \/ Probe \/ CloseCluster PROVE Goal
    <2>1. /\ Running /\ At.kind \in {"connected", "check", "clean", "probe", "close"}
          /\ \/ Local(NextStep(Top)) /\ (At.kind = "clean" => Top.error = "OK")
             \/ /\ Local(Failed(Top, At)) /\ At.kind # "probe"
                /\ At.kind = "clean" => Top.error # "OK"
      BY <1>2 DEF Connected, Check, Clean, Probe, CloseCluster, AtKind
    <2>2. CASE Local(NextStep(Top)) /\ (At.kind = "clean" => Top.error = "OK")
      <3>1. Succeeds(Top, At, NextStep(Top))
        BY <1>0, <2>1, <2>2, NextSucceeds
      <3> QED  BY <1>0, <1>1, <2>1, <2>2, <3>1
    <2>3. CASE /\ Local(Failed(Top, At)) /\ At.kind # "probe"
               /\ At.kind = "clean" => Top.error # "OK"
      <3>1. Breaks(Top, At, Failed(Top, At))
        BY <1>0, <2>1, <2>3, FailedBreaks
      <3> QED  BY <1>0, <1>1, <2>1, <2>3, <3>1
    <2> QED  BY <2>1, <2>2, <2>3
  <1>3. ASSUME LogHandler PROVE Goal
    <2>1. /\ Running /\ At.kind = "handler" /\ UNCHANGED build
          /\ Moved(NextStep(Top)) \/ Moved(Failed(Top, At))
      BY <1>3 DEF LogHandler, AtKind, Moved
    <2>2. Succeeds(Top, At, NextStep(Top)) /\ Breaks(Top, At, Failed(Top, At))
      BY <1>0, <2>1, NextSucceeds, FailedBreaks
    <2> QED  BY <1>0, <2>1, <2>2
  <1>4. ASSUME Output PROVE Goal
    <2> DEFINE f == [Top EXCEPT !.known = Top.job]
    <2>1. Running /\ At.kind = "output"
      BY <1>4 DEF Output, AtKind
    <2>2. CASE Local(NextStep(f))
      <3>1. f \in Frame
        BY <1>0, <2>1 DEF Frame
      <3>2. NextStep(f) \in Frame
        BY <3>1, PcTypes
      <3>3. Succeeds(Top, At, NextStep(f))
        BY <1>0, <2>1 DEF Succeeds, Stepped, ErrorBefore, NextStep, Frame
      <3> QED  BY <1>1, <2>1, <2>2, <3>2, <3>3
    <2>3. CASE At.error # "kept" /\ Local(Failed(Top, At))
      <3>1. Breaks(Top, At, Failed(Top, At))
        BY <1>0, <2>1, <2>3, FailedBreaks
      <3> QED  BY <1>0, <1>1, <2>1, <2>3, <3>1
    <2> QED  BY <1>4, <2>2, <2>3 DEF Output
  <1>5. ASSUME Policy PROVE Goal
    <2> DEFINE p == SetPolicy(build, At.how, Top.opts)
               f == [Top EXCEPT !.taken = p.taken,
                                !.lost = @ \/ p.taken # KeysOf(Top.opts)]
               e == [f EXCEPT !.error = "OK"]
    <2>1. Running /\ At.kind = "policy"
      BY <1>5 DEF Policy, AtKind
    <2>2. Top.opts \in Seq(Option) /\ build \in {"php5", "php7"}
      BY <1>0, <2>1, CallAssumption DEF Frame, TypeOK
    <2>3. p.taken \subseteq OptionKey
      BY <2>2, PolicyTypes
    <2>4. f \in Frame
      BY <1>0, <2>1, <2>3 DEF Frame
    <2>5. /\ f.method = Top.method /\ f.opts = Top.opts /\ f.written = Top.written
          /\ f.job = Top.job /\ f.known = Top.known /\ f.pc = Top.pc
          /\ f.status = Top.status /\ f.error = Top.error
      BY <1>0, <2>1 DEF Frame
    <2>6. CASE (p.ok \/ p.quits) /\ Local(NextStep(e))
      <3>1. p.taken = KeysOf(Top.opts) \/ OptionsLost(build, Top)
        <4>1. build = "php5" \/ Len(Top.opts) <= 1 \/ OptionsLost(build, Top)
          BY <2>2 DEF OptionsLost
        <4>2. CASE p.ok
          BY <2>2, <4>1, <4>2, PolicyTakesAll
        <4>3. CASE p.quits
          BY <2>2, <4>3, PolicyQuits DEF OptionsLost
        <4> QED  BY <2>6, <4>2, <4>3
      <3>2. f.lost => Top.lost \/ OptionsLost(build, Top)
        BY <1>0, <2>1, <3>1 DEF Frame
      <3> HIDE DEF p, f
      <3>3. e \in Frame
        BY <2>4 DEF Frame, Codes
      <3>4. NextStep(e) \in Frame
        BY <3>3, PcTypes
      <3>5. Succeeds(Top, At, NextStep(e))
        BY <2>1, <2>4, <2>5, <3>2 DEF Succeeds, Stepped, NextStep, Frame
      <3> QED  BY <1>1, <2>1, <2>6, <3>4, <3>5
    <2>7. CASE Local(Failed(f, At))
      <3> HIDE DEF f
      <3>1. Breaks(Top, At, Failed(f, At))
        BY <1>0, <2>1, <2>4, <2>5, FailedFields DEF Breaks, Stepped, ErrorBefore
      <3>2. Failed(f, At) \in Frame
        BY <1>0, <2>1, <2>4, FailedType
      <3> QED  BY <1>1, <2>1, <2>7, <3>1, <3>2
    <2> QED  BY <1>5, <2>6, <2>7 DEF Policy
  <1>6. ASSUME Request PROVE Goal
    <2>1. PICK applied \in BOOLEAN, answered \in BOOLEAN :
            LET f == [Top EXCEPT
                          !.error = "OK",
                          !.written = @ \/ (applied /\ At.how = "write"),
                          !.job = @ \/ (applied /\ At.how = "job"),
                          !.closed = @ \/ ~cluster[Top.obj],
                          !.lost = @ \/ (~At.policy /\ Top.taken # {})]
            IN  Local(IF answered THEN NextStep([f EXCEPT !.status = "OK"])
                      ELSE Failed(f, At))
      BY <1>6 DEF Request
    <2> DEFINE f == [Top EXCEPT
                          !.error = "OK",
                          !.written = @ \/ (applied /\ At.how = "write"),
                          !.job = @ \/ (applied /\ At.how = "job"),
                          !.closed = @ \/ ~cluster[Top.obj],
                          !.lost = @ \/ (~At.policy /\ Top.taken # {})]
               e == [f EXCEPT !.status = "OK"]
    <2>2. Running /\ At.kind = "request"
      BY <1>6 DEF Request, AtKind
    <2>3. f \in Frame
      <3>1. Top \in Frame /\ At \in Step
        BY <1>0, <2>2
      <3> QED  BY <3>1 DEF Frame, Codes
    <2>4. /\ f.method = Top.method /\ f.opts = Top.opts /\ f.known = Top.known
          /\ f.pc = Top.pc /\ f.status = Top.status /\ f.error = "OK"
          /\ f.written => Top.written \/ Writes(At)
          /\ f.job => Top.job \/ StartsJob(At)
          /\ f.lost => Top.lost \/ ~At.policy
      BY <1>0, <2>2 DEF Frame, Writes, StartsJob
    <2>5. Local(NextStep(e)) \/ Local(Failed(f, At))
      BY <2>1
    <2> HIDE DEF f
    <2>6. CASE Local(NextStep(e))
      <3>1. e \in Frame
        BY <2>3 DEF Frame, Codes
      <3>2. NextStep(e) \in Frame
        BY <3>1, PcTypes
      <3>3. Succeeds(Top, At, NextStep(e))
        BY <2>2, <2>3, <2>4 DEF Succeeds, Stepped, ErrorBefore, NextStep, Frame
      <3> QED  BY <1>1, <2>2, <2>6, <3>2, <3>3
    <2>7. CASE Local(Failed(f, At))
      <3>1. Breaks(Top, At, Failed(f, At))
        BY <1>0, <2>2, <2>3, <2>4, FailedFields DEF Breaks, Stepped, ErrorBefore
      <3>2. Failed(f, At) \in Frame
        BY <1>0, <2>2, <2>3, FailedType
      <3> QED  BY <1>1, <2>2, <2>7, <3>1, <3>2
    <2> QED  BY <2>5, <2>6, <2>7
  <1>7. ASSUME Value PROVE Goal
    <2> DEFINE f == [Top EXCEPT !.error = "OK"]
    <2>1. Running /\ At.kind = "value"
      BY <1>7 DEF Value, AtKind
    <2>2. CASE Local(NextStep(f))
      <3>1. f \in Frame
        BY <1>0, <2>1 DEF Frame, Codes
      <3>2. NextStep(f) \in Frame
        BY <3>1, PcTypes
      <3>3. Succeeds(Top, At, NextStep(f))
        BY <1>0, <2>1 DEF Succeeds, Stepped, ErrorBefore, NextStep, Frame
      <3> QED  BY <1>1, <2>1, <2>2, <3>2, <3>3
    <2>3. CASE Local(NextStep(Top))
      <3>1. Succeeds(Top, At, NextStep(Top))
        BY <1>0, <2>1, NextSucceeds
      <3> QED  BY <1>0, <1>1, <2>1, <2>3, <3>1
    <2>4. CASE Local(Failed(Top, At))
      <3>1. Breaks(Top, At, Failed(Top, At))
        BY <1>0, <2>1, FailedBreaks
      <3> QED  BY <1>0, <1>1, <2>1, <2>4, <3>1
    <2> QED  BY <1>7, <2>2, <2>3, <2>4 DEF Value
  <1> QED  BY <1>2, <1>3, <1>4, <1>5, <1>6, <1>7

-----------------------------------------------------------------------------
(* Rules on the steps of a method, and what they make of every call of it.  *)

\* A failure is told.  Every step that can fail says so and ends the method, or it
\* leaves an error that a test further on finds, with nothing between that clears it.
Telling(s) ==
    /\ s.ends
    /\ \/ s.status # "kept" \/ s.error # "kept"
       \/ s.kind \in {"clean", "output", "probe"}
    /\ s.status = "same" => s.kind = "clean"
    /\ s.status # "OK" /\ s.error # "OK"
    /\ s.kind = "request" => s.policy

Watched(c, i) ==
    \E k \in i .. Len(c) : /\ c[k].kind = "clean"
                           /\ \A j \in i .. k - 1 : c[j].kind = "check"

Deferred(s) ==
    /\ ~s.ends /\ s.kind \in {"check", "policy"}
    /\ s.status = "kept" /\ s.error \notin {"kept", "OK"}

Tells(c) ==
    \A i \in 1 .. Len(c) : Telling(c[i]) \/ (Deferred(c[i]) /\ Watched(c, i + 1))

Told(b, f) ==
    Tells(Code[f.method]) /\ ~OptionsLost(b, f) /\ f.lost =>
        IF f.pc > Len(Code[f.method]) THEN f.status # "OK" \/ f.error # "OK"
        ELSE f.error # "OK" /\ Watched(Code[f.method], f.pc)

\* An OK status has no error.  A step that leaves an error sets the status too, or
\* the next step is a request, which sets both.
Loud(c) ==
    \A i \in 1 .. Len(c) :
        /\ c[i].status \notin {"OK", "same"}
        /\ \/ c[i].error = "kept" \/ c[i].status # "kept"
           \/ ~c[i].ends /\ i < Len(c) /\ c[i + 1].kind = "request"
        /\ c[i].kind = "request" => c[i].status # "kept"

OkIsOk(f) ==
    Loud(Code[f.method]) /\ f.status = "OK" /\ f.error # "OK" =>
        f.pc <= Len(Code[f.method]) /\ Code[f.method][f.pc].kind = "request"

\* A status that is not OK has an error.  A step that sets the status and ends the
\* method leaves an error; one that goes on comes to a request, and what ends
\* the method before that leaves an error.
Settled(c, i) ==
    \E k \in i .. Len(c) : /\ c[k].kind = "request"
                           /\ \A j \in i .. k - 1 : c[j].ends => c[j].error # "kept"

Explained(c) ==
    \A i \in 1 .. Len(c) :
        /\ c[i].error # "OK"
        /\ \/ c[i].status = "kept"
           \/ c[i].ends /\ c[i].error # "kept"
           \/ ~c[i].ends /\ Settled(c, i + 1)
        /\ c[i].kind = "request" => c[i].ends /\ c[i].error # "kept"

NotOkIsError(f) ==
    Explained(Code[f.method]) /\ f.status # "OK" =>
        IF f.pc > Len(Code[f.method]) THEN f.error # "OK" ELSE Settled(Code[f.method], f.pc)

\* A refusal has written nothing.  From the first write on nothing refuses, and a
\* write that fails has a status of its own.
NoRefusal(c, i) ==
    \A j \in 1 .. Len(c) : j >= i => c[j].status # "PARAM" /\ c[j].error # "PARAM"

WritesLast(c) ==
    \A i \in 1 .. Len(c) : Writes(c[i]) => c[i].status \notin {"kept", "same"} /\ NoRefusal(c, i)

NoJobs(c) == \A i \in 1 .. Len(c) : ~StartsJob(c[i])

NotRefused(f) ==
    /\ WritesLast(Code[f.method]) /\ f.written =>
           f.status # "PARAM" /\ f.error # "PARAM" /\ NoRefusal(Code[f.method], f.pc)
    /\ NoJobs(Code[f.method]) => ~f.job

\* The script has the id of a job, or an error.  From the start of the job on a step
\* hands out its id and cannot fail, and what fails before ends the method and is told.
Reports(s) == s.ends /\ s.status \notin {"kept", "same", "OK"} /\ s.error \notin {"kept", "OK"}

HandsOut(c, i) ==
    \E k \in i .. Len(c) : /\ c[k].kind = "output" /\ c[k].error = "kept"
                           /\ \A j \in i .. k - 1 : Reports(c[j])

JobHandedOut(c) ==
    \A i \in 1 .. Len(c) : StartsJob(c[i]) => Reports(c[i]) /\ HandsOut(c, i + 1)

JobTold(f) ==
    JobHandedOut(Code[f.method]) /\ f.job /\ ~f.known =>
        IF f.pc > Len(Code[f.method]) THEN f.status # "OK" /\ f.error # "OK"
        ELSE HandsOut(Code[f.method], f.pc)

Report(b, f) == Told(b, f) /\ OkIsOk(f) /\ NotOkIsError(f) /\ NotRefused(f) /\ JobTold(f)

\* A step of a call: f is the frame before, c its method, s the step, g the frame after.
StepOf(f, c, s, g) ==
    /\ f \in Frame /\ g \in Frame /\ c = Code[f.method] /\ c \in Seq(Step)
    /\ f.pc \in 1 .. Len(c) /\ s = c[f.pc]
    /\ Succeeds(f, s, g) \/ Breaks(f, s, g)

LEMMA ToldStep ==
  ASSUME NEW f, NEW c, NEW s, NEW g, StepOf(f, c, s, g), Told(build, f)
  PROVE  Told(build, g)
  <1> SUFFICES ASSUME Tells(c), ~OptionsLost(build, f), g.lost
               PROVE  IF g.pc > Len(c) THEN g.status # "OK" \/ g.error # "OK"
                      ELSE g.error # "OK" /\ Watched(c, g.pc)
    BY DEF StepOf, Succeeds, Breaks, Stepped, Told, OptionsLost
  <1>1. /\ f.pc \in 1 .. Len(c) /\ Len(c) \in Nat /\ s = c[f.pc] /\ c = Code[f.method]
        /\ Telling(s) \/ (Deferred(s) /\ Watched(c, f.pc + 1))
    BY DEF StepOf, Tells
  <1>2. CASE f.lost
    <2>1. f.error # "OK" /\ Watched(c, f.pc)
      BY <1>1, <1>2 DEF Told
    <2>2. PICK k \in f.pc .. Len(c) : /\ c[k].kind = "clean"
                                      /\ \A j \in f.pc .. k - 1 : c[j].kind = "check"
      BY <2>1 DEF Watched
    <2>3. CASE k = f.pc
      <3>1. Breaks(f, s, g) /\ Telling(s)
        BY <1>1, <2>1, <2>2, <2>3 DEF StepOf, Succeeds, Deferred
      <3> QED  BY <1>1, <2>1, <2>2, <2>3, <3>1 DEF Breaks, Telling, ErrorBefore
    <2>4. CASE k # f.pc
      <3>1. s.kind = "check" /\ f.pc + 1 <= k
        BY <1>1, <2>2, <2>4
      <3>2. Watched(c, f.pc + 1)
        BY <1>1, <2>2, <3>1 DEF Watched
      <3>3. s.error # "OK"
        BY <1>1 DEF Telling, Deferred
      <3>4. g.error # "OK"
        BY <2>1, <3>1, <3>3 DEF StepOf, Succeeds, Breaks, ErrorBefore
      <3>5. g.pc = f.pc + 1 \/ g.pc = Len(c) + 1
        BY <1>1 DEF StepOf, Succeeds, Breaks
      <3>6. f.pc + 1 <= Len(c)
        BY <1>1, <2>2, <3>1
      <3> QED  BY <1>1, <3>2, <3>4, <3>5, <3>6
    <2> QED  BY <2>3, <2>4
  <1>3. CASE ~f.lost
    <2>1. Breaks(f, s, g)
      BY <1>1, <1>3 DEF StepOf, Succeeds, Telling, Deferred
    <2>2. CASE Telling(s)
      BY <1>1, <2>1, <2>2 DEF Breaks, Telling, ErrorBefore
    <2>3. CASE Deferred(s) /\ Watched(c, f.pc + 1)
      <3>1. f.pc + 1 <= Len(c)
        BY <1>1, <2>3 DEF Watched
      <3> QED  BY <1>1, <2>1, <2>3, <3>1 DEF Breaks, Deferred
    <2> QED  BY <1>1, <2>2, <2>3
  <1> QED  BY <1>2, <1>3

LEMMA OkIsOkStep ==
  ASSUME NEW f, NEW c, NEW s, NEW g, StepOf(f, c, s, g), OkIsOk(f)
  PROVE  OkIsOk(g)
  <1> SUFFICES ASSUME Loud(c), g.status = "OK", g.error # "OK"
               PROVE  g.pc <= Len(c) /\ c[g.pc].kind = "request"
    BY DEF StepOf, Succeeds, Breaks, Stepped, OkIsOk
  <1>1. /\ f.pc \in 1 .. Len(c) /\ Len(c) \in Nat /\ s = c[f.pc] /\ c = Code[f.method]
        /\ s.status \notin {"OK", "same"}
        /\ \/ s.error = "kept" \/ s.status # "kept"
           \/ ~s.ends /\ f.pc < Len(c) /\ c[f.pc + 1].kind = "request"
        /\ s.kind = "request" => s.status # "kept"
        /\ f.status = "OK" /\ f.error # "OK" => s.kind = "request"
    BY DEF StepOf, Loud, OkIsOk
  <1>2. Breaks(f, s, g)
    BY <1>1 DEF StepOf, Succeeds, ErrorBefore
  <1>3. s.status = "kept" /\ s.kind # "request" /\ f.status = "OK"
    BY <1>1, <1>2 DEF Breaks
  <1>4. f.error = "OK" /\ s.error # "kept"
    BY <1>1, <1>2, <1>3 DEF Breaks, ErrorBefore
  <1> QED  BY <1>1, <1>2, <1>3, <1>4 DEF Breaks

LEMMA NotOkStep ==
  ASSUME NEW f, NEW c, NEW s, NEW g, StepOf(f, c, s, g), NotOkIsError(f)
  PROVE  NotOkIsError(g)
  <1> SUFFICES ASSUME Explained(c), g.status # "OK"
               PROVE  IF g.pc > Len(c) THEN g.error # "OK" ELSE Settled(c, g.pc)
    BY DEF StepOf, Succeeds, Breaks, Stepped, NotOkIsError
  <1>1. /\ f.pc \in 1 .. Len(c) /\ Len(c) \in Nat /\ s = c[f.pc] /\ c = Code[f.method]
        /\ s.error # "OK"
        /\ \/ s.status = "kept" \/ (s.ends /\ s.error # "kept")
           \/ ~s.ends /\ Settled(c, f.pc + 1)
        /\ s.kind = "request" => s.ends /\ s.error # "kept"
    BY DEF StepOf, Explained
  <1>2. CASE f.status # "OK"
    <2>1. Settled(c, f.pc)
      BY <1>1, <1>2 DEF NotOkIsError
    <2>2. PICK k \in f.pc .. Len(c) : /\ c[k].kind = "request"
                                      /\ \A j \in f.pc .. k - 1 : c[j].ends => c[j].error # "kept"
      BY <2>1 DEF Settled
    <2>3. CASE k = f.pc
      <3>1. Breaks(f, s, g) /\ s.ends /\ s.error # "kept"
        BY <1>1, <2>2, <2>3 DEF StepOf, Succeeds
      <3> QED  BY <1>1, <3>1 DEF Breaks
    <2>4. CASE k # f.pc
      <3>1. f.pc + 1 <= k /\ (s.ends => s.error # "kept")
        BY <1>1, <2>2, <2>4
      <3>2. Settled(c, f.pc + 1) /\ f.pc + 1 <= Len(c)
        BY <1>1, <2>2, <3>1 DEF Settled
      <3>3. g.pc = f.pc + 1 \/ (Breaks(f, s, g) /\ s.ends)
        BY DEF StepOf, Succeeds, Breaks
      <3> QED  BY <1>1, <3>1, <3>2, <3>3 DEF Breaks
    <2> QED  BY <2>3, <2>4
  <1>3. CASE f.status = "OK"
    <2>1. Breaks(f, s, g) /\ s.status # "kept"
      BY <1>3 DEF StepOf, Succeeds, Breaks
    <2>2. CASE s.ends /\ s.error # "kept"
      BY <1>1, <2>1, <2>2 DEF Breaks
    <2>3. CASE ~s.ends /\ Settled(c, f.pc + 1)
      <3>1. f.pc + 1 <= Len(c)
        BY <1>1, <2>3 DEF Settled
      <3> QED  BY <1>1, <2>1, <2>3, <3>1 DEF Breaks
    <2> QED  BY <1>1, <2>1, <2>2, <2>3
  <1> QED  BY <1>2, <1>3

LEMMA NotRefusedStep ==
  ASSUME NEW f, NEW c, NEW s, NEW g, StepOf(f, c, s, g), NotRefused(f)
  PROVE  NotRefused(g)
  <1>1. /\ f.pc \in 1 .. Len(c) /\ Len(c) \in Nat /\ s = c[f.pc] /\ c = Code[f.method]
        /\ s \in Step /\ g.method = f.method
        /\ g.written => f.written \/ Writes(s)
        /\ g.job => f.job \/ StartsJob(s)
    BY DEF StepOf, Succeeds, Breaks, Stepped
  <1>2. ASSUME WritesLast(c), g.written
        PROVE  g.status # "PARAM" /\ g.error # "PARAM" /\ NoRefusal(c, g.pc)
    <2>1. NoRefusal(c, f.pc) /\ (Writes(s) => s.status \notin {"kept", "same"})
      BY <1>1, <1>2 DEF WritesLast, NotRefused
    <2>2. s.status # "PARAM" /\ s.error # "PARAM"
      BY <1>1, <2>1 DEF NoRefusal
    <2>3. Writes(s) \/ (f.written /\ f.status # "PARAM" /\ f.error # "PARAM")
      BY <1>1, <1>2 DEF NotRefused
    <2>4. g.status # "PARAM" /\ g.error # "PARAM"
      BY <2>1, <2>2, <2>3 DEF StepOf, Succeeds, Breaks, ErrorBefore, Writes
    <2>5. g.pc \in Nat /\ g.pc >= f.pc
      BY <1>1 DEF StepOf, Succeeds, Breaks
    <2> QED  BY <1>1, <2>1, <2>4, <2>5 DEF NoRefusal
  <1>3. ASSUME NoJobs(c) PROVE ~g.job
    BY <1>1, <1>3 DEF NoJobs, NotRefused
  <1> QED  BY <1>1, <1>2, <1>3 DEF NotRefused

LEMMA JobToldStep ==
  ASSUME NEW f, NEW c, NEW s, NEW g, StepOf(f, c, s, g), JobTold(f)
  PROVE  JobTold(g)
  <1> SUFFICES ASSUME JobHandedOut(c), g.job, ~g.known
               PROVE  IF g.pc > Len(c) THEN g.status # "OK" /\ g.error # "OK"
                      ELSE HandsOut(c, g.pc)
    BY DEF StepOf, Succeeds, Breaks, Stepped, JobTold
  <1>1. /\ f.pc \in 1 .. Len(c) /\ Len(c) \in Nat /\ s = c[f.pc] /\ c = Code[f.method]
        /\ StartsJob(s) => Reports(s) /\ HandsOut(c, f.pc + 1)
        /\ f.job \/ StartsJob(s)
    BY DEF StepOf, JobHandedOut, Succeeds, Breaks, Stepped
  <1>2. CASE StartsJob(s)
    <2>1. f.pc + 1 <= Len(c)
      BY <1>1, <1>2 DEF HandsOut
    <2> QED  BY <1>1, <1>2, <2>1 DEF StepOf, Succeeds, Breaks, Reports
  <1>3. CASE ~StartsJob(s)
    <2>1. ~f.known
      BY <1>1, <1>3 DEF StepOf, Succeeds, Breaks
    <2>2. PICK k \in f.pc .. Len(c) : /\ c[k].kind = "output" /\ c[k].error = "kept"
                                      /\ \A j \in f.pc .. k - 1 : Reports(c[j])
      BY <1>1, <1>3, <2>1 DEF JobTold, HandsOut
    <2>3. k # f.pc
      <3> SUFFICES ASSUME k = f.pc PROVE FALSE
        OBVIOUS
      <3>1. s.kind = "output" /\ s.error = "kept"
        BY <1>1, <2>2
      <3>2. Succeeds(f, s, g)
        BY <3>1 DEF StepOf, Breaks
      <3> QED  BY <1>1, <1>3, <3>1, <3>2 DEF Succeeds
    <2>4. Reports(s) /\ f.pc + 1 <= k
      BY <1>1, <2>2, <2>3
    <2>5. HandsOut(c, f.pc + 1) /\ f.pc + 1 <= Len(c)
      BY <1>1, <2>2, <2>4 DEF HandsOut
    <2> QED  BY <1>1, <2>4, <2>5 DEF StepOf, Succeeds, Breaks, Reports
  <1> QED  BY <1>2, <1>3

LEMMA ReportStep ==
  ASSUME NEW f, NEW c, NEW s, NEW g, StepOf(f, c, s, g), Report(build, f)
  PROVE  Report(build, g)
  BY ToldStep, OkIsOkStep, NotOkStep, NotRefusedStep, JobToldStep DEF Report

\* All calls report: those under way as far as they are, the last one for good.
CallsReport ==
    /\ \A i \in DOMAIN stack : Report(build, stack[i])
    /\ returned # NoCall => Report(build, returned) /\ returned.pc > Len(Code[returned.method])

LEMMA ReportInit == Init => CallsReport
  BY DEF Init, CallsReport

LEMMA ReportNext == TypeOK /\ CallsReport /\ [Next]_vars => CallsReport'
  <1> SUFFICES ASSUME TypeOK, CallsReport, [Next]_vars PROVE CallsReport'
    OBVIOUS
  <1>0. stack \in Seq(Frame)
    BY DEF TypeOK
  <1>1. ASSUME NEW o \in Object, NEW m, NEW opts, Begin(o, m, opts) PROVE CallsReport'
    <2> DEFINE f == [obj |-> o, method |-> m, call |-> calls + 1, pc |-> 1,
                     status |-> "OK", error |-> "OK", opts |-> opts, taken |-> {},
                     lost |-> FALSE, written |-> FALSE, job |-> FALSE, known |-> FALSE,
                     closed |-> FALSE]
    <2>1. /\ ~f.lost /\ f.status = "OK" /\ f.error = "OK" /\ ~f.written /\ ~f.job
          /\ stack' = Append(stack, f) /\ returned' = NoCall /\ UNCHANGED build
      BY <1>1 DEF Begin
    <2> HIDE DEF f
    <2>2. Report(build, f)
      BY <2>1 DEF Report, Told, OkIsOk, NotOkIsError, NotRefused, JobTold
    <2>3. \A i \in DOMAIN stack' : (i \in DOMAIN stack /\ stack'[i] = stack[i]) \/ stack'[i] = f
      BY <1>0, <2>1
    <2> QED  BY <2>1, <2>2, <2>3 DEF CallsReport
  <1>2. ASSUME Connected \/ Check \/ Policy \/ Value \/ Clean \/ Request \/ Output \/ Probe
               \/ CloseCluster \/ LogHandler
        PROVE  CallsReport'
    <2>1. PICK g \in Frame : Moved(g) /\ (Succeeds(Top, At, g) \/ Breaks(Top, At, g))
      BY <1>2, CallSteps
    <2>2. Running /\ UNCHANGED build
      BY <1>2, CallSteps
    <2>3. StepOf(Top, Steps, At, g)
      BY <2>1, <2>2, StepTypes DEF StepOf, Steps, At
    <2>4. Depth \in DOMAIN stack /\ Top = stack[Depth]
      BY <2>2, StepTypes DEF Top
    <2>5. Report(build, g)
      BY <2>3, <2>4, ReportStep DEF CallsReport
    <2>6. /\ DOMAIN stack' = DOMAIN stack /\ UNCHANGED returned
          /\ \A i \in DOMAIN stack : stack'[i] = g \/ stack'[i] = stack[i]
      BY <1>0, <2>1, <2>4 DEF Moved
    <2> QED  BY <2>2, <2>5, <2>6 DEF CallsReport
  <1>3. CASE Crash
    BY <1>3 DEF Crash, CallsReport
  <1>4. CASE Return
    <2>1. Depth \in DOMAIN stack /\ Top = stack[Depth] /\ Top \in Frame /\ Len(stack) > 0
      BY <1>0, <1>4 DEF Return, Depth, Top
    <2>2. Top.pc \in Nat /\ Len(Steps) \in Nat
      BY <2>1, CallAssumption DEF Frame, Steps
    <2>3. Top.pc > Len(Steps)
      BY <1>4, <2>2 DEF Return, Running
    <2>4. \A i \in DOMAIN stack' : i \in DOMAIN stack /\ stack'[i] = stack[i]
      BY <1>0, <1>4, <2>1, StackTypes DEF Return, Depth
    <2>5. returned' = Top /\ UNCHANGED build
      BY <1>4 DEF Return
    <2> QED  BY <2>1, <2>3, <2>4, <2>5 DEF CallsReport, Steps
  <1>5. CASE UNCHANGED vars
    BY <1>5 DEF vars, CallsReport
  <1> QED  BY <1>1, <1>2, <1>3, <1>4, <1>5 DEF Next

LEMMA CallsAlwaysReport == Spec => [](TypeOK /\ CallsReport)
  BY TypeInit, TypeNext, ReportInit, ReportNext, PTL DEF Spec

-----------------------------------------------------------------------------
(* The rules a sequence of steps obeys, from those of its parts.            *)

LoudStep(s) ==
    /\ s.status \notin {"OK", "same"} /\ (s.error = "kept" \/ s.status # "kept")
    /\ s.kind = "request" => s.status # "kept"

ExplainedStep(s) ==
    /\ s.error # "OK" /\ (s.status = "kept" \/ (s.ends /\ s.error # "kept"))
    /\ s.kind = "request" => s.ends /\ s.error # "kept"

\* All methods write last, and obey some of the other rules.
All == {"tells", "loud", "explained", "starts no job"}

Obeys(c, rules) ==
    /\ c \in Seq(Step) /\ WritesLast(c)
    /\ "starts no job" \in rules => NoJobs(c)
    /\ "tells" \in rules => Tells(c)
    /\ "loud" \in rules => Loud(c)
    /\ "explained" \in rules => Explained(c)

\* Steps that obey them wherever they are, those that write nothing and those that
\* may come after a write.
Alone(s, rules) ==
    /\ s \in Step
    /\ "starts no job" \in rules => ~StartsJob(s)
    /\ "tells" \in rules => Telling(s)
    /\ "loud" \in rules => LoudStep(s)
    /\ "explained" \in rules => ExplainedStep(s)

Writeless(c) == \A i \in 1 .. Len(c) : ~Writes(c[i])

Quiet(rules) == {s \in Step : Alone(s, rules) /\ ~Writes(s)}

Answer(rules) ==
    {s \in Step : /\ Alone(s, rules) /\ s.status # "PARAM" /\ s.error # "PARAM"
                  /\ Writes(s) => s.status \notin {"kept", "same"}}

\* What holds of a part from a step on holds of the whole.
LEMMA WatchedFurther ==
  ASSUME NEW u \in Seq(Step), NEW v \in Seq(Step), NEW i \in Nat \ {0}
  PROVE  /\ Watched(u, i) => Watched(u \o v, i)
         /\ Watched(v, i) => Watched(u \o v, i + Len(u))
         /\ Settled(u, i) => Settled(u \o v, i)
         /\ Settled(v, i) => Settled(u \o v, i + Len(u))
         /\ HandsOut(v, i) => HandsOut(u \o v, i + Len(u))
  <1>1. /\ u \o v \in Seq(Step) /\ Len(u) \in Nat /\ Len(v) \in Nat
        /\ Len(u \o v) = Len(u) + Len(v)
        /\ \A j \in 1 .. Len(u) : (u \o v)[j] = u[j]
        /\ \A j \in 1 .. Len(v) : (u \o v)[j + Len(u)] = v[j]
    BY ConcatProperties
  <1> DEFINE w == u \o v
  <1> HIDE DEF w
  <1>2. /\ Len(w) = Len(u) + Len(v) /\ Len(u) \in Nat /\ Len(v) \in Nat
        /\ \A j \in 1 .. Len(u) : w[j] = u[j]
        /\ \A j \in 1 .. Len(v) : w[j + Len(u)] = v[j]
        /\ \A j \in 1 + Len(u) .. Len(w) : w[j] = v[j - Len(u)]
    BY <1>1 DEF w
  <1>3. ASSUME Watched(u, i) PROVE Watched(w, i)
    <2>1. PICK k \in i .. Len(u) : /\ u[k].kind = "clean"
                                  /\ \A j \in i .. k - 1 : u[j].kind = "check"
      BY <1>3 DEF Watched
    <2>2. k \in i .. Len(w) /\ w[k].kind = "clean"
      BY <1>2, <2>1
    <2>3. \A j \in i .. k - 1 : w[j].kind = "check"
      BY <1>2, <2>1
    <2> QED  BY <2>2, <2>3 DEF Watched
  <1>4. ASSUME Watched(v, i) PROVE Watched(w, i + Len(u))
    <2>1. PICK k \in i .. Len(v) : /\ v[k].kind = "clean"
                                  /\ \A j \in i .. k - 1 : v[j].kind = "check"
      BY <1>4 DEF Watched
    <2>2. k + Len(u) \in i + Len(u) .. Len(w) /\ w[k + Len(u)].kind = "clean"
      BY <1>2, <2>1
    <2>3. \A j \in i + Len(u) .. (k + Len(u)) - 1 : w[j].kind = "check"
      <3> TAKE j \in i + Len(u) .. (k + Len(u)) - 1
      <3>1. j - Len(u) \in i .. k - 1 /\ j \in 1 + Len(u) .. Len(w)
        BY <1>2, <2>1
      <3> QED  BY <1>2, <2>1, <3>1
    <2> QED  BY <2>2, <2>3 DEF Watched
  <1>5. ASSUME Settled(u, i) PROVE Settled(w, i)
    <2>1. PICK k \in i .. Len(u) :
            u[k].kind = "request" /\ \A j \in i .. k - 1 : u[j].ends => u[j].error # "kept"
      BY <1>5 DEF Settled
    <2>2. /\ k \in i .. Len(w) /\ w[k].kind = "request"
          /\ \A j \in i .. k - 1 : w[j].ends => w[j].error # "kept"
      BY <1>2, <2>1
    <2> QED  BY <2>2 DEF Settled
  <1>6. ASSUME Settled(v, i) PROVE Settled(w, i + Len(u))
    <2>1. PICK k \in i .. Len(v) :
            v[k].kind = "request" /\ \A j \in i .. k - 1 : v[j].ends => v[j].error # "kept"
      BY <1>6 DEF Settled
    <2>2. k + Len(u) \in i + Len(u) .. Len(w) /\ w[k + Len(u)].kind = "request"
      BY <1>2, <2>1
    <2>3. \A j \in i + Len(u) .. (k + Len(u)) - 1 : w[j].ends => w[j].error # "kept"
      <3> TAKE j \in i + Len(u) .. (k + Len(u)) - 1
      <3>1. j - Len(u) \in i .. k - 1 /\ j \in 1 + Len(u) .. Len(w)
        BY <1>2, <2>1
      <3> QED  BY <1>2, <2>1, <3>1
    <2> QED  BY <2>2, <2>3 DEF Settled
  <1>7. ASSUME HandsOut(v, i) PROVE HandsOut(w, i + Len(u))
    <2>1. PICK k \in i .. Len(v) : /\ v[k].kind = "output" /\ v[k].error = "kept"
                                  /\ \A j \in i .. k - 1 : Reports(v[j])
      BY <1>7 DEF HandsOut
    <2>2. /\ k + Len(u) \in i + Len(u) .. Len(w)
          /\ w[k + Len(u)].kind = "output" /\ w[k + Len(u)].error = "kept"
      BY <1>2, <2>1
    <2>3. \A j \in i + Len(u) .. (k + Len(u)) - 1 : Reports(w[j])
      <3> TAKE j \in i + Len(u) .. (k + Len(u)) - 1
      <3>1. j - Len(u) \in i .. k - 1 /\ j \in 1 + Len(u) .. Len(w)
        BY <1>2, <2>1
      <3> QED  BY <1>2, <2>1, <3>1
    <2> QED  BY <2>2, <2>3 DEF HandsOut
  <1> QED  BY <1>3, <1>4, <1>5, <1>6, <1>7 DEF w

\* A method that writes nothing up to step n, and nothing else than its answer after.
LEMMA SplitObeys ==
  ASSUME NEW c \in Seq(Step), NEW n \in Nat, NEW rules,
         \A i \in 1 .. Len(c) : IF i <= n THEN c[i] \in Quiet(rules) ELSE c[i] \in Answer(rules)
  PROVE  Obeys(c, rules)
  <1>1. \A i \in 1 .. Len(c) :
           Alone(c[i], rules) /\ (Writes(c[i]) => c[i] \in Answer(rules) /\ i > n)
    BY DEF Quiet, Answer
  <1>2. "starts no job" \in rules => NoJobs(c)
    BY <1>1 DEF NoJobs, Alone
  <1>3. WritesLast(c)
    BY <1>1 DEF WritesLast, NoRefusal, Answer
  <1>4. "tells" \in rules => Tells(c)
    BY <1>1 DEF Tells, Alone
  <1>5. "loud" \in rules => Loud(c)
    BY <1>1 DEF Loud, LoudStep, Alone
  <1>6. "explained" \in rules => Explained(c)
    BY <1>1 DEF Explained, ExplainedStep, Alone
  <1> QED  BY <1>2, <1>3, <1>4, <1>5, <1>6 DEF Obeys

LEMMA AnswerObeys ==
  ASSUME NEW rules, NEW c \in Seq(Answer(rules))
  PROVE  Obeys(c, rules)
  <1>1. c \in Seq(Step) /\ \A i \in 1 .. Len(c) : c[i] \in Answer(rules) /\ i > 0
    BY DEF Answer
  <1> QED  BY <1>1, SplitObeys

LEMMA QuietObeys ==
  ASSUME NEW rules, NEW c \in Seq(Quiet(rules))
  PROVE  Obeys(c, rules) /\ Writeless(c)
  <1>1. /\ c \in Seq(Step) /\ Len(c) \in Nat
        /\ \A i \in 1 .. Len(c) : c[i] \in Quiet(rules) /\ i <= Len(c)
    BY DEF Quiet
  <1>2. Writeless(c)
    BY <1>1 DEF Writeless, Quiet
  <1> QED  BY <1>1, <1>2, SplitObeys

\* Steps that write nothing, then others; any steps, then some that may follow a write.
LEMMA ConcatObeys ==
  ASSUME NEW rules, NEW u, NEW v, Obeys(u, rules), Obeys(v, rules),
         Writeless(u) \/ v \in Seq(Answer(rules))
  PROVE  Obeys(u \o v, rules)
  <1> DEFINE w == u \o v
  <1>0. u \in Seq(Step) /\ v \in Seq(Step)
    BY DEF Obeys
  <1>1. /\ w \in Seq(Step) /\ Len(u) \in Nat /\ Len(v) \in Nat /\ Len(w) = Len(u) + Len(v)
        /\ \A i \in 1 .. Len(u) : w[i] = u[i]
        /\ \A i \in Len(u) + 1 .. Len(w) : w[i] = v[i - Len(u)] /\ i - Len(u) \in 1 .. Len(v)
        /\ \A i \in 1 .. Len(w) : i \in 1 .. Len(u) \/ i \in Len(u) + 1 .. Len(w)
    BY <1>0, ConcatProperties
  <1>2. \A i \in Nat \ {0} : /\ Watched(u, i) => Watched(w, i)
                             /\ Watched(v, i) => Watched(w, i + Len(u))
                             /\ Settled(u, i) => Settled(w, i)
                             /\ Settled(v, i) => Settled(w, i + Len(u))
    BY <1>0, WatchedFurther
  <1> HIDE DEF w
  <1>3. \A i \in Len(u) + 1 .. Len(w) : /\ Watched(v, (i - Len(u)) + 1) => Watched(w, i + 1)
                                        /\ Settled(v, (i - Len(u)) + 1) => Settled(w, i + 1)
    <2> TAKE i \in Len(u) + 1 .. Len(w)
    <2>1. (i - Len(u)) + 1 \in Nat \ {0} /\ ((i - Len(u)) + 1) + Len(u) = i + 1
      BY <1>1
    <2> QED  BY <1>2, <2>1
  <1>4. "starts no job" \in rules => NoJobs(w)
    BY <1>1 DEF Obeys, NoJobs
  <1>5. "tells" \in rules => Tells(w)
    <2> SUFFICES ASSUME Tells(u), Tells(v), NEW i \in 1 .. Len(w)
                 PROVE  Telling(w[i]) \/ (Deferred(w[i]) /\ Watched(w, i + 1))
      BY DEF Obeys, Tells
    <2>1. CASE i \in 1 .. Len(u)
      BY <1>1, <1>2, <2>1 DEF Tells
    <2>2. CASE i \in Len(u) + 1 .. Len(w)
      BY <1>1, <1>3, <2>2 DEF Tells
    <2> QED  BY <1>1, <2>1, <2>2
  <1>6. "loud" \in rules => Loud(w)
    <2> SUFFICES ASSUME Loud(u), Loud(v) PROVE Loud(w)
      BY DEF Obeys
    <2>1. \A i \in 1 .. Len(u) : i < Len(u) => w[i + 1] = u[i + 1] /\ i < Len(w)
      BY <1>1
    <2>2. \A i \in Len(u) + 1 .. Len(w) :
            i - Len(u) < Len(v) => w[i + 1] = v[(i - Len(u)) + 1] /\ i < Len(w)
      <3> TAKE i \in Len(u) + 1 .. Len(w)
      <3>1. i - Len(u) < Len(v) => /\ i + 1 \in Len(u) + 1 .. Len(w)
                                   /\ (i + 1) - Len(u) = (i - Len(u)) + 1
        BY <1>1
      <3> QED  BY <1>1, <3>1
    <2> QED  BY <1>1, <2>1, <2>2 DEF Loud
  <1>7. "explained" \in rules => Explained(w)
    <2> SUFFICES ASSUME Explained(u), Explained(v), NEW i \in 1 .. Len(w)
                 PROVE  /\ w[i].error # "OK"
                        /\ \/ w[i].status = "kept"
                           \/ w[i].ends /\ w[i].error # "kept"
                           \/ ~w[i].ends /\ Settled(w, i + 1)
                        /\ w[i].kind = "request" => w[i].ends /\ w[i].error # "kept"
      BY DEF Obeys, Explained
    <2>1. CASE i \in 1 .. Len(u)
      BY <1>1, <1>2, <2>1 DEF Explained
    <2>2. CASE i \in Len(u) + 1 .. Len(w)
      BY <1>1, <1>3, <2>2 DEF Explained
    <2> QED  BY <1>1, <2>1, <2>2
  <1>8. WritesLast(w)
    <2> SUFFICES ASSUME NEW i \in 1 .. Len(w), Writes(w[i])
                 PROVE  w[i].status \notin {"kept", "same"} /\ NoRefusal(w, i)
      BY DEF WritesLast
    <2>1. CASE i \in Len(u) + 1 .. Len(w)
      <3>1. /\ v[i - Len(u)].status \notin {"kept", "same"}
            /\ NoRefusal(v, i - Len(u))
        BY <1>1, <2>1 DEF Obeys, WritesLast
      <3>2. \A j \in 1 .. Len(w) : j >= i => /\ j \in Len(u) + 1 .. Len(w)
                                             /\ j - Len(u) >= i - Len(u)
        BY <1>1, <2>1
      <3> QED  BY <1>1, <2>1, <3>1, <3>2 DEF NoRefusal
    <2>2. CASE i \in 1 .. Len(u)
      <3>1. v \in Seq(Answer(rules))
        BY <1>1, <2>2 DEF Writeless
      <3>2. \A j \in 1 .. Len(v) : v[j].status # "PARAM" /\ v[j].error # "PARAM"
        BY <3>1 DEF Answer
      <3>3. u[i].status \notin {"kept", "same"} /\ NoRefusal(u, i)
        BY <1>1, <2>2 DEF Obeys, WritesLast
      <3> QED  BY <1>1, <2>2, <3>2, <3>3 DEF NoRefusal
    <2> QED  BY <1>1, <2>1, <2>2
  <1> QED  BY <1>0, <1>1, <1>4, <1>5, <1>6, <1>7, <1>8 DEF Obeys, w
\* Fewer rules are easier.
LEMMA FewerRules ==
  ASSUME NEW rules, NEW fewer \in SUBSET rules
  PROVE  /\ Quiet(rules) \subseteq Quiet(fewer) /\ Answer(rules) \subseteq Answer(fewer)
         /\ \A c : Obeys(c, rules) => Obeys(c, fewer)
  <1>1. \A rule \in fewer : rule \in rules
    OBVIOUS
  <1>2. \A s : Alone(s, rules) => Alone(s, fewer)
    BY <1>1 DEF Alone
  <1>3. \A c : Obeys(c, rules) => Obeys(c, fewer)
    BY <1>1 DEF Obeys
  <1> QED  BY <1>2, <1>3 DEF Quiet, Answer

\* Errors that go on until a test: steps that can only be followed by checks, then one.
Awaits(c) ==
    \A i \in 1 .. Len(c) :
        \/ Telling(c[i])
        \/ Deferred(c[i]) /\ \A j \in i + 1 .. Len(c) : c[j].kind = "check"

LEMMA AwaitsFurther ==
  ASSUME NEW u \in Seq(Step), NEW v \in Seq(Step), Awaits(u), Awaits(v),
         \/ \A i \in 1 .. Len(u) : Telling(u[i])
         \/ \A i \in 1 .. Len(v) : v[i].kind = "check"
  PROVE  Awaits(u \o v)
  <1> DEFINE w == u \o v
  <1>1. /\ Len(u) \in Nat /\ Len(v) \in Nat /\ Len(w) = Len(u) + Len(v)
        /\ \A i \in 1 .. Len(u) : w[i] = u[i]
        /\ \A i \in Len(u) + 1 .. Len(w) : w[i] = v[i - Len(u)] /\ i - Len(u) \in 1 .. Len(v)
    BY ConcatProperties
  <1> HIDE DEF w
  <1>2. \/ \A i \in 1 .. Len(u) : Telling(u[i])
        \/ \A j \in Len(u) + 1 .. Len(w) : w[j].kind = "check"
    BY <1>1
  <1>3. ASSUME NEW i \in 1 .. Len(w)
        PROVE  \/ Telling(w[i])
               \/ Deferred(w[i]) /\ \A j \in i + 1 .. Len(w) : w[j].kind = "check"
    <2>1. CASE i \in 1 .. Len(u)
      <3>1. \A j \in i + 1 .. Len(w) : j \in i + 1 .. Len(u) \/ j \in Len(u) + 1 .. Len(w)
        BY <1>1
      <3> QED  BY <1>1, <1>2, <2>1, <3>1 DEF Awaits
    <2>2. CASE i \in Len(u) + 1 .. Len(w)
      <3>1. \A j \in i + 1 .. Len(w) : /\ j - Len(u) \in (i - Len(u)) + 1 .. Len(v)
                                        /\ j \in Len(u) + 1 .. Len(w)
        BY <1>1, <2>2
      <3> QED  BY <1>1, <2>2, <3>1 DEF Awaits
    <2> QED  BY <1>1, <2>1, <2>2
  <1> QED  BY <1>3 DEF Awaits, w

LEMMA AwaitedTells ==
  ASSUME NEW u \in Seq(Step), NEW s \in Step, NEW t \in Step, Awaits(u),
         s.kind = "clean", Telling(s), Telling(t)
  PROVE  Tells(u \o <<s, t>>)
  <1> DEFINE w == u \o <<s, t>>
  <1>1. /\ Len(u) \in Nat /\ Len(w) = Len(u) + 2
        /\ w[Len(u) + 1] = s /\ w[Len(u) + 2] = t
        /\ \A i \in 1 .. Len(u) : w[i] = u[i]
    BY ConcatProperties
  <1> HIDE DEF w
  <1>2. ASSUME NEW i \in 1 .. Len(u), \A j \in i + 1 .. Len(u) : w[j].kind = "check"
        PROVE  Watched(w, i + 1)
    <2>1. Len(u) + 1 \in i + 1 .. Len(w) /\ w[Len(u) + 1].kind = "clean"
      BY <1>1
    <2>2. \A j \in i + 1 .. (Len(u) + 1) - 1 : w[j].kind = "check"
      BY <1>1, <1>2
    <2> QED  BY <2>1, <2>2 DEF Watched
  <1>3. ASSUME NEW i \in 1 .. Len(w)
        PROVE  Telling(w[i]) \/ (Deferred(w[i]) /\ Watched(w, i + 1))
    <2>1. CASE i \in 1 .. Len(u)
      <3>1. \A j \in i + 1 .. Len(u) : w[j] = u[j]
        BY <1>1, <2>1
      <3> QED  BY <1>1, <1>2, <2>1, <3>1 DEF Awaits
    <2>2. CASE i = Len(u) + 1
      BY <1>1, <2>2
    <2>3. CASE i = Len(u) + 2
      BY <1>1, <2>3
    <2> QED  BY <1>1, <2>1, <2>2, <2>3
  <1> QED  BY <1>3 DEF Tells, w

\* A status that goes on until a request: steps that settle nothing yet, then one that
\* does.
Noting(rules) ==
    {s \in Quiet(rules \ {"explained"}) :
        s.error # "OK" /\ s.kind # "request" /\ (s.ends => s.error # "kept")}

LEMMA NotingObeys ==
  ASSUME NEW rules, NEW u \in Seq(Noting(rules)), NEW v, Obeys(v, rules), Settled(v, 1)
  PROVE  Obeys(u \o v, rules)
  <1> DEFINE w == u \o v
             others == rules \ {"explained"}
  <1>0. Noting(rules) \subseteq Quiet(others) /\ Quiet(others) \subseteq Step
    BY DEF Noting, Quiet
  <1>1. u \in Seq(Quiet(others)) /\ u \in Seq(Step) /\ v \in Seq(Step)
    <2>1. v \in Seq(Step)
      BY DEF Obeys
    <2>2. \A S, T : S \subseteq T /\ u \in Seq(S) => u \in Seq(T)
      OBVIOUS
    <2> HIDE DEF others
    <2>3. u \in Seq(Quiet(others)) /\ Noting(rules) \subseteq Step
      BY <1>0, <2>2, Zenon
    <2> QED  BY <2>1, <2>2, <2>3, Zenon
  <1>2. Obeys(w, others)
    <2>1. Obeys(v, others)
      BY DEF Obeys
    <2> HIDE DEF others
    <2>2. Obeys(u, others) /\ Writeless(u)
      BY <1>1, QuietObeys
    <2> QED  BY <2>1, <2>2, ConcatObeys
  <1>3. /\ Len(u) \in Nat /\ Len(v) \in Nat /\ Len(w) = Len(u) + Len(v)
        /\ \A i \in 1 .. Len(u) : w[i] = u[i] /\ u[i] \in Noting(rules)
        /\ \A i \in Len(u) + 1 .. Len(w) : w[i] = v[i - Len(u)] /\ i - Len(u) \in 1 .. Len(v)
    BY <1>1, ConcatProperties
  <1>4. \A i \in Nat \ {0} : Settled(v, i) => Settled(w, i + Len(u))
    BY <1>1, WatchedFurther
  <1> HIDE DEF w
  <1>5. ASSUME Explained(v) PROVE Explained(w)
    <2>1. Settled(w, 1 + Len(u))
      BY <1>4
    <2>2. PICK k \in 1 + Len(u) .. Len(w) :
            /\ w[k].kind = "request"
            /\ \A j \in 1 + Len(u) .. k - 1 : w[j].ends => w[j].error # "kept"
      BY <2>1 DEF Settled
    <2>3. ASSUME NEW i \in 1 .. Len(u) PROVE Settled(w, i + 1)
      <3>1. k \in i + 1 .. Len(w)
        BY <1>3, <2>2
      <3>2. \A j \in i + 1 .. k - 1 : w[j].ends => w[j].error # "kept"
        <4> TAKE j \in i + 1 .. k - 1
        <4>1. j \in 1 .. Len(u) \/ j \in 1 + Len(u) .. k - 1
          BY <1>3, <2>2
        <4> QED  BY <1>3, <2>2, <4>1 DEF Noting
      <3> QED  BY <2>2, <3>1, <3>2 DEF Settled
    <2>4. ASSUME NEW i \in Len(u) + 1 .. Len(w)
          PROVE  Settled(v, (i - Len(u)) + 1) => Settled(w, i + 1)
      <3>1. (i - Len(u)) + 1 \in Nat \ {0} /\ ((i - Len(u)) + 1) + Len(u) = i + 1
        BY <1>3
      <3> QED  BY <1>4, <3>1
    <2>5. ASSUME NEW i \in 1 .. Len(w)
          PROVE  /\ w[i].error # "OK"
                 /\ \/ w[i].status = "kept"
                    \/ w[i].ends /\ w[i].error # "kept"
                    \/ ~w[i].ends /\ Settled(w, i + 1)
                 /\ w[i].kind = "request" => w[i].ends /\ w[i].error # "kept"
      <3>1. CASE i \in 1 .. Len(u)
        BY <1>3, <2>3, <3>1 DEF Noting
      <3>2. CASE i \in Len(u) + 1 .. Len(w)
        BY <1>3, <1>5, <2>4, <3>2 DEF Explained
      <3> QED  BY <1>3, <3>1, <3>2
    <2> QED  BY <2>5 DEF Explained
  <1> QED  BY <1>2, <1>5 DEF Obeys, w

\* A method that starts a job after all it may refuse, and hands out its id at the end.
LEMMA ReportsHandOut ==
  ASSUME NEW u \in Seq(Step), \A i \in 1 .. Len(u) : Reports(u[i]),
         NEW s \in Step, s.kind = "output", s.error = "kept"
  PROVE  JobHandedOut(u \o <<s>>)
  <1> DEFINE w == u \o <<s>>
  <1>1. /\ Len(u) \in Nat /\ Len(w) = Len(u) + 1 /\ w[Len(u) + 1] = s
        /\ \A i \in 1 .. Len(u) : w[i] = u[i]
    BY ConcatProperties
  <1> HIDE DEF w
  <1>2. ASSUME NEW i \in 1 .. Len(u) PROVE HandsOut(w, i + 1)
    <2>1. /\ Len(u) + 1 \in i + 1 .. Len(w)
          /\ w[Len(u) + 1].kind = "output" /\ w[Len(u) + 1].error = "kept"
      BY <1>1
    <2>2. \A j \in i + 1 .. (Len(u) + 1) - 1 : Reports(w[j])
      BY <1>1
    <2> QED  BY <2>1, <2>2 DEF HandsOut
  <1>3. \A i \in 1 .. Len(w) : i \in 1 .. Len(u) \/ i = Len(u) + 1
    BY <1>1
  <1>4. ~StartsJob(s)
    BY DEF StartsJob
  <1> QED  BY <1>1, <1>2, <1>3, <1>4 DEF JobHandedOut, w

LEMMA HandOutFurther ==
  ASSUME NEW u \in Seq(Step), NEW v \in Seq(Step), NoJobs(u), JobHandedOut(v)
  PROVE  JobHandedOut(u \o v)
  <1> DEFINE w == u \o v
  <1>1. /\ Len(u) \in Nat /\ Len(v) \in Nat /\ Len(w) = Len(u) + Len(v)
        /\ \A i \in 1 .. Len(u) : w[i] = u[i]
        /\ \A i \in Len(u) + 1 .. Len(w) : w[i] = v[i - Len(u)] /\ i - Len(u) \in 1 .. Len(v)
    BY ConcatProperties
  <1>2. \A i \in Nat \ {0} : HandsOut(v, i) => HandsOut(w, i + Len(u))
    BY WatchedFurther
  <1> HIDE DEF w
  <1>3. ASSUME NEW i \in 1 .. Len(w), StartsJob(w[i])
        PROVE  Reports(w[i]) /\ HandsOut(w, i + 1)
    <2>1. i \in Len(u) + 1 .. Len(w)
      BY <1>1, <1>3 DEF NoJobs
    <2>2. (i - Len(u)) + 1 \in Nat \ {0} /\ ((i - Len(u)) + 1) + Len(u) = i + 1
      BY <1>1, <2>1
    <2> QED  BY <1>1, <1>2, <1>3, <2>1, <2>2 DEF JobHandedOut
  <1> QED  BY <1>3 DEF JobHandedOut, w

-----------------------------------------------------------------------------
(* The methods.                                                            *)

\* Checks and policies, requests and answers, wherever they are.
LEMMA QuietSteps ==
  /\ \A code \in Codes \ {"OK"} :
        /\ Both(code) \in Quiet(All) /\ Scripted(Both(code)) \in Quiet(All)
        /\ [Both(code) EXCEPT !.kind = "connected"] \in Quiet(All)
        /\ [Both(code) EXCEPT !.unset = TRUE] \in Quiet(All)
        /\ Fails("CLIENT", code) \in Quiet(All)
        /\ Unpack("SERVER", code) \in Quiet(All) /\ Unpack("CLIENT", code) \in Quiet(All)
        /\ Unpack("PARAM", code) \in Quiet(All)
  /\ Args \in Quiet(All) /\ Scripted(Args) \in Quiet(All) /\ Convert \in Quiet(All)
  /\ \A use \in PolicyUse : /\ PolicyOf(use) \in Quiet(All)
                            /\ [PolicyOf(use) EXCEPT !.unset = TRUE] \in Quiet(All)
  /\ Fetch \in Quiet(All) /\ Scripted(Fetch) \in Quiet(All)
  /\ [Fetch EXCEPT !.unset = TRUE] \in Quiet(All)
  /\ [Fetch EXCEPT !.status = "PARAM", !.error = "PARAM"] \in Quiet(All)
  /\ Deliver \in Quiet(All)
  <1> USE DEF Quiet, Alone, Writes, StartsJob, Telling, LoudStep, ExplainedStep, Step, Codes,
              All, Base, Fails, Both, Scripted, Unpack
  <1>1. ASSUME NEW code \in Codes \ {"OK"}
        PROVE /\ Both(code) \in Quiet(All) /\ Scripted(Both(code)) \in Quiet(All)
              /\ [Both(code) EXCEPT !.kind = "connected"] \in Quiet(All)
              /\ [Both(code) EXCEPT !.unset = TRUE] \in Quiet(All)
              /\ Fails("CLIENT", code) \in Quiet(All)
              /\ Unpack("SERVER", code) \in Quiet(All) /\ Unpack("CLIENT", code) \in Quiet(All)
              /\ Unpack("PARAM", code) \in Quiet(All)
    OBVIOUS
  <1>2. Args \in Quiet(All) /\ Scripted(Args) \in Quiet(All) /\ Convert \in Quiet(All)
    BY DEF Args, Convert
  <1>3. ASSUME NEW use \in PolicyUse
        PROVE  /\ PolicyOf(use) \in Quiet(All)
               /\ [PolicyOf(use) EXCEPT !.unset = TRUE] \in Quiet(All)
    BY DEF PolicyOf, Args
  <1>4. /\ Fetch \in Quiet(All) /\ Scripted(Fetch) \in Quiet(All)
        /\ [Fetch EXCEPT !.unset = TRUE] \in Quiet(All)
        /\ [Fetch EXCEPT !.status = "PARAM", !.error = "PARAM"] \in Quiet(All)
        /\ Deliver \in Quiet(All)
    BY DEF Fetch, Ask, Deliver
  <1> QED  BY <1>1, <1>2, <1>3, <1>4

\* What a request that is under way may end with.
LEMMA AnswerSteps ==
  /\ Store \in Answer(All) /\ Fetch \in Answer(All) /\ Deliver \in Answer(All)
  /\ Ask("wait") \in Answer(All) /\ Store \in Step
  BY DEF Answer, Alone, Writes, StartsJob, Telling, LoudStep, ExplainedStep, Step, Codes,
         All, Base, Fails, Both, Store, Fetch, Ask, Deliver

\* Parts of methods, that write nothing.
LEMMA QuietParts ==
  LET Q == Quiet(All)
  IN  /\ <<>> \in Seq(Q) /\ Enter \in Seq(Q) /\ <<Args>> \in Seq(Q) /\ Key \in Seq(Q)
      /\ KeyReturned \in Seq(Q) /\ KeyTold \in Seq(Q)
      /\ GetRecord \in Seq(Q) /\ Exists \in Seq(Q) /\ Initialization \in Seq(Q)
      /\ <<Unpack("SERVER", "CLIENT")>> \in Seq(Q) /\ ExistsManyIndex \in Seq(Q)
      /\ ScanRunBins \in Seq(Q) /\ Define \in Seq(Q) /\ <<PolicyOf("query")>> \in Seq(Q)
      /\ <<Both("CLIENT"), Scripted(Fetch)>> \in Seq(Q)
      /\ <<PolicyOf("aggregate"), Convert>> \in Seq(Q)
      /\ <<Both("CLIENT"), Scripted(Fetch), Unpack("CLIENT", "CLIENT")>> \in Seq(Q)
      /\ InfoRequest \in Seq(Q) /\ <<Deliver>> \in Seq(Q) /\ ClusterNodes \in Seq(Q)
      /\ QueryUserOp \in Seq(Q) /\ QueryUsersOp \in Seq(Q)
      /\ QueryRoleOp \in Seq(Q) /\ QueryRolesOp \in Seq(Q)
      /\ RequestMultiple \in Seq(Q) /\ <<Convert>> \in Seq(Q)
  <1> DEFINE Q == Quiet(All)
  <1>1. \A code \in {"CLUSTER", "CLIENT", "PARAM"} : code \in Codes \ {"OK"}
    BY DEF Codes
  <1>2. \A use \in {"get", "operate", "batch", "scan", "query", "aggregate", "info", "admin"} :
           use \in PolicyUse
    BY DEF PolicyUse, Kind
  <1>3. /\ [Both("CLUSTER") EXCEPT !.kind = "connected"] \in Q
        /\ Both("CLIENT") \in Q /\ [Both("CLIENT") EXCEPT !.unset = TRUE] \in Q
        /\ Fails("CLIENT", "PARAM") \in Q
        /\ Unpack("SERVER", "CLIENT") \in Q /\ Unpack("CLIENT", "CLIENT") \in Q
    BY <1>1, QuietSteps
  <1>4. /\ Args \in Q /\ Convert \in Q /\ Fetch \in Q /\ Scripted(Fetch) \in Q
        /\ [Fetch EXCEPT !.unset = TRUE] \in Q /\ Deliver \in Q
    BY QuietSteps
  <1>5. \A use \in {"get", "operate", "batch", "scan", "query", "aggregate", "info", "admin"} :
           PolicyOf(use) \in Q /\ [PolicyOf(use) EXCEPT !.unset = TRUE] \in Q
    BY <1>2, QuietSteps
  <1> HIDE DEF Q
  <1>6. /\ <<>> \in Seq(Q) /\ Enter \in Seq(Q) /\ <<Args>> \in Seq(Q) /\ Key \in Seq(Q)
        /\ KeyReturned \in Seq(Q) /\ KeyTold \in Seq(Q)
    BY <1>3, <1>4 DEF Enter, Key, KeyReturned, KeyTold
  <1>7. /\ GetRecord \in Seq(Q) /\ Exists \in Seq(Q) /\ Initialization \in Seq(Q)
        /\ <<Unpack("SERVER", "CLIENT")>> \in Seq(Q) /\ ExistsManyIndex \in Seq(Q)
    BY <1>3, <1>4, <1>5 DEF GetRecord, Exists, Initialization, ExistsManyIndex
  <1>8. /\ ScanRunBins \in Seq(Q) /\ Define \in Seq(Q) /\ <<PolicyOf("query")>> \in Seq(Q)
        /\ <<Both("CLIENT"), Scripted(Fetch)>> \in Seq(Q) /\ <<Convert>> \in Seq(Q)
        /\ <<PolicyOf("aggregate"), Convert>> \in Seq(Q)
        /\ <<Both("CLIENT"), Scripted(Fetch), Unpack("CLIENT", "CLIENT")>> \in Seq(Q)
    BY <1>3, <1>4, <1>5 DEF ScanRunBins, Define
  <1>9. /\ InfoRequest \in Seq(Q) /\ <<Deliver>> \in Seq(Q) /\ ClusterNodes \in Seq(Q)
        /\ QueryUserOp \in Seq(Q) /\ QueryUsersOp \in Seq(Q)
        /\ QueryRoleOp \in Seq(Q) /\ QueryRolesOp \in Seq(Q)
        /\ RequestMultiple \in Seq(Q)
    BY <1>3, <1>4, <1>5
       DEF InfoRequest, ClusterNodes, QueryUserOp, QueryUsersOp, QueryRoleOp, QueryRolesOp,
           Admin, UserOut, RoleOut, RequestMultiple
  <1> QED  BY <1>6, <1>7, <1>8, <1>9 DEF Q

\* Methods that only read.
QuietMethods ==
    {ExistsRecord, GetMetadata, Get, ExistsMany, ScanBins, QueryBins, Aggregate, ScanInfo,
     JobInfo, GetNodes, QueryUser, QueryUsers, QueryRole, QueryRoles, SetLogLevel,
     IsConnected, Close, Destruct}

\* Each step of theirs obeys all rules.
LEMMA QuietMethodsObey == \A c \in QuietMethods : c \in Seq(Quiet(All))
  <1> DEFINE Q == Quiet(All)
  <1>1. \A u \in Seq(Q), v \in Seq(Q) : u \o v \in Seq(Q)
    BY ConcatProperties
  <1>2. /\ [Base EXCEPT !.kind = "probe"] \in Q
        /\ [Both("CLIENT") EXCEPT !.kind = "connected"] \in Q
        /\ [Both("CLIENT") EXCEPT !.kind = "close"] \in Q
    BY DEF Quiet, Alone, Writes, StartsJob, Telling, LoudStep, ExplainedStep, Step, Codes,
           All, Base, Fails, Both
  <1> HIDE DEF Q
  <1>3. /\ <<>> \in Seq(Q) /\ Enter \in Seq(Q) /\ <<Args>> \in Seq(Q) /\ Key \in Seq(Q)
        /\ KeyReturned \in Seq(Q) /\ KeyTold \in Seq(Q)
        /\ GetRecord \in Seq(Q) /\ Exists \in Seq(Q) /\ Initialization \in Seq(Q)
        /\ <<Unpack("SERVER", "CLIENT")>> \in Seq(Q) /\ ExistsManyIndex \in Seq(Q)
        /\ ScanRunBins \in Seq(Q) /\ Define \in Seq(Q) /\ <<PolicyOf("query")>> \in Seq(Q)
        /\ <<Both("CLIENT"), Scripted(Fetch)>> \in Seq(Q)
        /\ <<PolicyOf("aggregate"), Convert>> \in Seq(Q)
        /\ <<Both("CLIENT"), Scripted(Fetch), Unpack("CLIENT", "CLIENT")>> \in Seq(Q)
        /\ InfoRequest \in Seq(Q) /\ <<Deliver>> \in Seq(Q) /\ ClusterNodes \in Seq(Q)
        /\ QueryUserOp \in Seq(Q) /\ QueryUsersOp \in Seq(Q)
        /\ QueryRoleOp \in Seq(Q) /\ QueryRolesOp \in Seq(Q)
    BY QuietParts DEF Q
  <1>4. /\ ExistsRecord \in Seq(Q) /\ GetMetadata \in Seq(Q) /\ Get \in Seq(Q)
        /\ ExistsMany \in Seq(Q) /\ ScanBins \in Seq(Q)
    BY <1>1, <1>3 DEF ExistsRecord, GetMetadata, ExistsMetadata, Get, ExistsMany, ScanBins
  <1>5. QueryBins \in Seq(Q) /\ Aggregate \in Seq(Q)
    BY <1>1, <1>3 DEF QueryBins, QueryRunBins, Aggregate, AggregateRun
  <1>6. /\ ScanInfo \in Seq(Q) /\ JobInfo \in Seq(Q) /\ GetNodes \in Seq(Q)
        /\ SetLogLevel \in Seq(Q)
    BY <1>1, <1>3 DEF ScanInfo, ScanGetInfo, JobInfo, QueryJobInfo, GetNodes, SetLogLevel
  <1>7. /\ QueryUser \in Seq(Q) /\ QueryUsers \in Seq(Q)
        /\ QueryRole \in Seq(Q) /\ QueryRoles \in Seq(Q)
    BY <1>1, <1>3 DEF QueryUser, QueryUsers, QueryRole, QueryRoles, AdminCall
  <1>8. IsConnected \in Seq(Q) /\ Close \in Seq(Q) /\ Destruct \in Seq(Q)
    BY <1>2, <1>3 DEF IsConnected, Close, Destruct
  <1> QED  BY <1>4, <1>5, <1>6, <1>7, <1>8 DEF QuietMethods, Q

\* A sequence over a set is one over any larger set.
LEMMA LargerSeq ==
  \A S, T : S \subseteq T => \A c \in Seq(S) : c \in Seq(T)
  OBVIOUS

\* Methods whose last request is a write, after all they may refuse.
AdminOps ==
    {CreateUserOp, DropUserOp, ChangePasswordOp, SetPasswordOp, GrantRolesOp, RevokeRolesOp,
     CreateRoleOp, DropRoleOp, GrantPrivilegesOp, RevokePrivilegesOp}

WritingMethods ==
    {Put, Remove, AppendTo, PrependTo, Touch, CreateUser, DropUser, ChangePassword,
     SetPassword, GrantRoles, RevokeRoles, CreateRole, DropRole, GrantPrivileges,
     RevokePrivileges}

LEMMA WritingMethodsObey == Obeys(General, All) /\ \A c \in WritingMethods : Obeys(c, All)
  <1> DEFINE Q == Quiet(All)
             A == Answer(All)
  <1>1. /\ PolicyOf("put") \in Q /\ PolicyOf("remove") \in Q /\ PolicyOf("admin") \in Q
        /\ Args \in Q /\ Scripted(Args) \in Q /\ Convert \in Q /\ Both("CLIENT") \in Q
    BY QuietSteps DEF PolicyUse, Kind, Codes
  <1>2. Store \in A
    BY AnswerSteps
  <1>3. Q \subseteq Step /\ A \subseteq Step
    BY DEF Quiet, Answer
  <1>4. \A c \in Seq(Step), n \in Nat :
           (\A i \in 1 .. Len(c) : IF i <= n THEN c[i] \in Q ELSE c[i] \in A) => Obeys(c, All)
    BY SplitObeys
  <1>5. \A u \in Seq(Q) : \A v : Obeys(v, All) => Obeys(u \o v, All)
    BY QuietObeys, ConcatObeys
  <1>6. \A u \in Seq(Q), v \in Seq(Q) : u \o v \in Seq(Q)
    BY ConcatProperties
  <1>7. /\ Enter \in Seq(Q) /\ <<Args>> \in Seq(Q) /\ Key \in Seq(Q)
        /\ KeyReturned \in Seq(Q) /\ Initialization \in Seq(Q)
    BY QuietParts
  <1> HIDE DEF Q, A
  <1>8. Obeys(KeyDataPut, All)
    <2>1. KeyDataPut \in Seq(Step)
      BY <1>1, <1>2, <1>3 DEF KeyDataPut
    <2>2. \A i \in 1 .. Len(KeyDataPut) :
             IF i <= 5 THEN KeyDataPut[i] \in Q ELSE KeyDataPut[i] \in A
      BY <1>1, <1>2 DEF KeyDataPut
    <2> QED  BY <1>4, <2>1, <2>2
  <1>9. Obeys(RemoveRecord, All)
    <2>1. RemoveRecord \in Seq(Step)
      BY <1>1, <1>2, <1>3 DEF RemoveRecord
    <2>2. \A i \in 1 .. Len(RemoveRecord) :
             IF i <= 2 THEN RemoveRecord[i] \in Q ELSE RemoveRecord[i] \in A
      BY <1>1, <1>2 DEF RemoveRecord
    <2> QED  BY <1>4, <2>1, <2>2
  <1>10. Obeys(General, All)
    <2> DEFINE v == <<Both("CLIENT"), Args, Store>>
    <2>1. v \in Seq(Step)
      BY <1>1, <1>2, <1>3
    <2>2. \A i \in 1 .. Len(v) : IF i <= 2 THEN v[i] \in Q ELSE v[i] \in A
      BY <1>1, <1>2
    <2> HIDE DEF v
    <2>3. Obeys(v, All)
      BY <1>4, <2>1, <2>2
    <2>4. <<Args>> \o Initialization \in Seq(Q)
      BY <1>6, <1>7
    <2>5. General = (<<Args>> \o Initialization) \o v
      BY DEF General, v
    <2> QED  BY <1>5, <2>3, <2>4, <2>5
  <1>11. ASSUME NEW op \in AdminOps PROVE Obeys(op, All)
    <2>1. op = <<PolicyOf("admin"), Store>> \/ op = <<PolicyOf("admin"), Args, Store>>
      BY <1>11 DEF AdminOps, CreateUserOp, DropUserOp, ChangePasswordOp, SetPasswordOp,
                   GrantRolesOp, RevokeRolesOp, CreateRoleOp, DropRoleOp, GrantPrivilegesOp,
                   RevokePrivilegesOp, Admin, ConvertRoles, ConvertPrivileges
    <2>2. CASE op = <<PolicyOf("admin"), Store>>
      <3>1. /\ op \in Seq(Step)
            /\ \A i \in 1 .. Len(op) : IF i <= 1 THEN op[i] \in Q ELSE op[i] \in A
        BY <1>1, <1>2, <1>3, <2>2
      <3> QED  BY <1>4, <3>1
    <2>3. CASE op = <<PolicyOf("admin"), Args, Store>>
      <3>1. /\ op \in Seq(Step)
            /\ \A i \in 1 .. Len(op) : IF i <= 2 THEN op[i] \in Q ELSE op[i] \in A
        BY <1>1, <1>2, <1>3, <2>3
      <3> QED  BY <1>4, <3>1
    <2> QED  BY <2>1, <2>2, <2>3
  <1>12. Obeys(Put, All) /\ Obeys(Remove, All)
    BY <1>5, <1>6, <1>7, <1>8, <1>9 DEF Put, Remove
  <1>13. Obeys(AppendTo, All) /\ Obeys(PrependTo, All) /\ Obeys(Touch, All)
    BY <1>5, <1>6, <1>7, <1>10 DEF AppendTo, PrependTo, Touch
  <1>14. \A op \in AdminOps : Obeys(AdminCall \o op, All)
    BY <1>5, <1>6, <1>7, <1>11 DEF AdminCall
  <1>15. /\ Obeys(CreateUser, All) /\ Obeys(DropUser, All) /\ Obeys(ChangePassword, All)
         /\ Obeys(SetPassword, All) /\ Obeys(GrantRoles, All) /\ Obeys(RevokeRoles, All)
         /\ Obeys(CreateRole, All) /\ Obeys(DropRole, All) /\ Obeys(GrantPrivileges, All)
         /\ Obeys(RevokePrivileges, All)
    BY <1>14 DEF AdminOps, CreateUser, DropUser, ChangePassword, SetPassword, GrantRoles,
                 RevokeRoles, CreateRole, DropRole, GrantPrivileges, RevokePrivileges
  <1> QED  BY <1>10, <1>12, <1>13, <1>15 DEF WritingMethods

\* Methods that set the status only.
LEMMA StatusMethodsObey ==
  \A c \in {GetBins, SetLogHandler, InitKey, GetKeyDigest} : Obeys(c, All \ {"explained"})
  <1> DEFINE R == All \ {"explained"}
             Q == Quiet(R)
  <1>1. /\ Fails("PARAM", "kept") \in Q
        /\ [Fails("PARAM", "kept") EXCEPT !.kind = "handler"] \in Q
    BY DEF Quiet, Alone, Writes, StartsJob, Telling, LoudStep, Step, Codes,
           All, Base, Fails
  <1>2. Quiet(All) \subseteq Q
    <2>1. R \in SUBSET All
      OBVIOUS
    <2> QED  BY <2>1, FewerRules
  <1>3. PolicyOf("get") \in Q /\ Fetch \in Q
    <2>1. PolicyOf("get") \in Quiet(All) /\ Fetch \in Quiet(All)
      BY QuietSteps DEF PolicyUse, Kind
    <2> QED  BY <1>2, <2>1
  <1>4. \A c \in Seq(Q) : Obeys(c, R)
    BY QuietObeys
  <1>5. \A u \in Seq(Q), v \in Seq(Q) : u \o v \in Seq(Q)
    BY ConcatProperties
  <1>6. \A c \in Seq(Quiet(All)) : c \in Seq(Q)
    BY <1>2, LargerSeq, Zenon
  <1> HIDE DEF Q
  <1>7. /\ Enter \in Seq(Q) /\ <<Args>> \in Seq(Q) /\ Key \in Seq(Q)
        /\ <<Unpack("SERVER", "CLIENT")>> \in Seq(Q)
    BY <1>6, QuietParts
  <1>8. GetRecordBins \in Seq(Q)
    BY <1>1, <1>3 DEF GetRecordBins
  <1>9. GetBins \in Seq(Q)
    BY <1>5, <1>7, <1>8 DEF GetBins
  <1>10. SetLogHandler \in Seq(Q) /\ InitKey \in Seq(Q) /\ GetKeyDigest \in Seq(Q)
    BY <1>1 DEF SetLogHandler, InitKey, GetKeyDigest
  <1> QED  BY <1>4, <1>9, <1>10

\* What obeys all rules obeys fewer, and is put together in the same way.
LEMMA Without ==
  ASSUME NEW broken \in SUBSET All
  PROVE  LET R == All \ broken
             Q == Quiet(R)
         IN  /\ Quiet(All) \subseteq Q /\ Q \subseteq Step /\ \A s \in Q : ~Writes(s)
             /\ Answer(All) \subseteq Answer(R) /\ Answer(R) \subseteq Step
             /\ \A c \in Seq(Quiet(All)) : c \in Seq(Q)
             /\ \A c \in Seq(Q) : Obeys(c, R)
             /\ \A u \in Seq(Q), v \in Seq(Q) : u \o v \in Seq(Q)
             /\ \A u \in Seq(Q) : \A v : Obeys(v, R) => Obeys(u \o v, R)
             /\ \A u : \A v \in Seq(Answer(R)) : Obeys(u, R) => Obeys(u \o v, R)
  <1> DEFINE R == All \ broken
             Q == Quiet(R)
  <1>1. Quiet(All) \subseteq Q /\ Answer(All) \subseteq Answer(R)
    <2>1. R \in SUBSET All
      OBVIOUS
    <2> QED  BY <2>1, FewerRules
  <1>2. Q \subseteq Step /\ Answer(R) \subseteq Step /\ \A s \in Q : ~Writes(s)
    BY DEF Quiet, Answer
  <1>3. \A c \in Seq(Quiet(All)) : c \in Seq(Q)
    BY <1>1, LargerSeq, Zenon
  <1>4. \A c \in Seq(Q) : Obeys(c, R) /\ Writeless(c)
    BY QuietObeys
  <1>5. \A c \in Seq(Answer(R)) : Obeys(c, R)
    BY AnswerObeys
  <1>6. \A u \in Seq(Q), v \in Seq(Q) : u \o v \in Seq(Q)
    BY ConcatProperties
  <1>7. \A u \in Seq(Q) : \A v : Obeys(v, R) => Obeys(u \o v, R)
    BY <1>4, ConcatObeys
  <1>8. \A u : \A v \in Seq(Answer(R)) : Obeys(u, R) => Obeys(u \o v, R)
    BY <1>5, ConcatObeys
  <1> QED  BY <1>1, <1>2, <1>3, <1>4, <1>6, <1>7, <1>8

\* Methods that go on after what they lose, or send a request without the policy: they
\* do not tell.
LEMMA LosingMethodsObey ==
  \A c \in {Increment, GetMany, GetManyBatchDirect, Scan, Query} : Obeys(c, All \ {"tells"})
  <1> DEFINE R == All \ {"tells"}
             Q == Quiet(R)
  <1>1. GoesOn(Base) \in Q /\ FilterBins \in Q /\ Scripted(NoPolicy(Fetch)) \in Q
    BY DEF FilterBins, Quiet, Alone, Writes, StartsJob, LoudStep, ExplainedStep, Step, Codes,
           All, Base, GoesOn, Scripted, NoPolicy, Fetch, Ask, Both, Fails
  <1>2. /\ PolicyOf("batch") \in Q /\ [PolicyOf("batch") EXCEPT !.unset = TRUE] \in Q
        /\ PolicyOf("scan") \in Q /\ PolicyOf("query") \in Q /\ Args \in Q /\ Fetch \in Q
        /\ [Fetch EXCEPT !.status = "PARAM", !.error = "PARAM"] \in Q
        /\ Unpack("SERVER", "SERVER") \in Q /\ Unpack("PARAM", "PARAM") \in Q
    <2> DEFINE P == Quiet(All)
    <2>1. /\ PolicyOf("batch") \in P /\ [PolicyOf("batch") EXCEPT !.unset = TRUE] \in P
          /\ PolicyOf("scan") \in P /\ PolicyOf("query") \in P /\ Args \in P /\ Fetch \in P
          /\ [Fetch EXCEPT !.status = "PARAM", !.error = "PARAM"] \in P
          /\ Unpack("SERVER", "SERVER") \in P /\ Unpack("PARAM", "PARAM") \in P
      BY QuietSteps DEF PolicyUse, Kind, Codes
    <2>2. P \subseteq Q
      BY Without DEF All
    <2> QED  BY <2>1, <2>2
  <1>3. /\ Enter \in Seq(Q) /\ <<Args>> \in Seq(Q) /\ Key \in Seq(Q) /\ Define \in Seq(Q)
        /\ <<PolicyOf("query")>> \in Seq(Q)
    <2>1. \A c \in Seq(Quiet(All)) : c \in Seq(Q)
      BY Without DEF All
    <2> QED  BY <2>1, QuietParts
  <1>4. /\ \A c \in Seq(Q) : Obeys(c, R)
        /\ \A u \in Seq(Q), v \in Seq(Q) : u \o v \in Seq(Q)
        /\ \A u \in Seq(Q) : \A v : Obeys(v, R) => Obeys(u \o v, R)
    BY Without DEF All
  <1>5. Obeys(General, R)
    <2>1. R \in SUBSET All
      OBVIOUS
    <2> QED  BY <2>1, FewerRules, WritingMethodsObey
  <1> HIDE DEF Q, R
  <1>6. <<Args, GoesOn(Base)>> \in Seq(Q)
    BY <1>1, <1>2
  <1>7. Obeys(Increment, R)
    BY <1>3, <1>4, <1>5, <1>6 DEF Increment
  <1>8. GetManyIndex \in Seq(Q) /\ GetManyDirect \in Seq(Q) /\ ScanRun \in Seq(Q)
    BY <1>1, <1>2 DEF GetManyIndex, GetManyDirect, ScanRun
  <1>9. <<Scripted(NoPolicy(Fetch))>> \in Seq(Q)
    BY <1>1
  <1>10. /\ GetMany \in Seq(Q) /\ GetManyBatchDirect \in Seq(Q) /\ Scan \in Seq(Q)
         /\ Query \in Seq(Q)
    BY <1>3, <1>4, <1>8, <1>9 DEF GetMany, GetManyBatchDirect, Scan, Query, QueryRun
  <1> QED  BY <1>4, <1>7, <1>10 DEF R

\* Arguments that cannot be converted are left out, but the status is that of the request.
LEMMA ApplyObeys == Obeys(Apply, All \ {"tells"})
  <1> DEFINE R == All \ {"tells"}
             rest == All \ {"tells", "loud"}
             convert == GoesOn(Scripted(ErrorOnly("CLIENT")))
             unpack == Unpack("CLIENT", "CLIENT")
  <1>1. convert \in Quiet(rest)
    BY DEF Quiet, Alone, Writes, StartsJob, ExplainedStep, Step, Codes,
           All, Base, GoesOn, Scripted, ErrorOnly, Fails
  <1>2. PolicyOf("apply") \in Quiet(rest)
    <2>1. PolicyOf("apply") \in Quiet(All)
      BY QuietSteps DEF PolicyUse, Kind
    <2>2. Quiet(All) \subseteq Quiet(rest)
      BY Without DEF All
    <2> QED  BY <2>1, <2>2
  <1>3. Store \in Answer(rest) /\ unpack \in Answer(rest)
    BY DEF Answer, Alone, Writes, StartsJob, ExplainedStep, Step, Codes,
           All, Base, Store, Ask, Both, Fails, Unpack, Scripted
  <1>4. UdfApply \in Seq(Step)
    BY <1>1, <1>2, <1>3 DEF UdfApply, Quiet, Answer
  <1>5. \A i \in 1 .. Len(UdfApply) :
           IF i <= 2 THEN UdfApply[i] \in Quiet(rest) ELSE UdfApply[i] \in Answer(rest)
    BY <1>1, <1>2, <1>3 DEF UdfApply
  <1>6. Obeys(UdfApply, rest)
    BY <1>4, <1>5, SplitObeys
  <1>7. Loud(UdfApply)
    <2>1. LoudStep(PolicyOf("apply")) /\ LoudStep(Store) /\ LoudStep(unpack)
      BY DEF LoudStep, PolicyOf, Args, Store, Ask, Both, Fails, Unpack, Scripted, Base
    <2>2. /\ convert.status \notin {"OK", "same"} /\ ~convert.ends
          /\ convert.kind # "request" /\ Store.kind = "request"
      BY DEF GoesOn, Scripted, ErrorOnly, Store, Ask, Both, Fails, Base
    <2> HIDE DEF convert, unpack
    <2>3. UdfApply = <<PolicyOf("apply"), convert, Store, unpack>>
      BY DEF UdfApply, convert, unpack
    <2> QED  BY <2>1, <2>2, <2>3 DEF Loud, LoudStep
  <1>8. Obeys(UdfApply, R)
    BY <1>6, <1>7 DEF Obeys
  <1>9. Enter \o <<Args>> \o Key \in Seq(Quiet(R))
    <2>1. \A c \in Seq(Quiet(All)) : c \in Seq(Quiet(R))
      BY Without DEF All
    <2>2. \A u \in Seq(Quiet(R)), v \in Seq(Quiet(R)) : u \o v \in Seq(Quiet(R))
      BY Without DEF All
    <2> HIDE DEF R
    <2> QED  BY <2>1, <2>2, QuietParts
  <1>10. \A u \in Seq(Quiet(R)) : \A v : Obeys(v, R) => Obeys(u \o v, R)
    BY Without DEF All
  <1> HIDE DEF R
  <1>11. Obeys(Apply, R)
    BY <1>8, <1>9, <1>10 DEF Apply
  <1> QED  BY <1>11 DEF R

\* The functions of the server: a wrong argument is noted in the status and in the error,
\* both of which the request sets again.
LEMMA RegistryMethodsObey ==
  /\ \A c \in {Register, Deregister, ListRegistered, GetRegistered} : Obeys(c, All \ {"tells"})
  /\ \A c \in {AddIndex, DropIndex} : Obeys(c, All \ {"tells", "loud"})
  <1> DEFINE R == All \ {"tells"}
             S == All \ {"tells", "loud"}
  <1>1. /\ Noted \in Noting(R) /\ Args \in Noting(R) /\ Enter[1] \in Noting(R)
        /\ Noted \in Noting(S) /\ Args \in Noting(S) /\ Enter[1] \in Noting(S)
    BY DEF Noting, Quiet, Alone, Writes, StartsJob, LoudStep, Step, Codes, All, Base,
           Noted, GoesOn, Args, Enter, Both, Fails
  <1>2. ASSUME NEW T \in {R, S}
        PROVE  /\ Enter \o <<Args, Noted, Args>> \in Seq(Noting(T))
               /\ Enter \o <<Args, Noted>> \in Seq(Noting(T))
    <2>1. Noted \in Noting(T) /\ Args \in Noting(T) /\ Enter[1] \in Noting(T)
      BY <1>1
    <2>2. Enter = <<Enter[1]>>
      BY DEF Enter
    <2>3. \A s, N : s \in N => <<s>> \in Seq(N)
      OBVIOUS
    <2>4. Enter \in Seq(Noting(T))
      BY <2>1, <2>2, <2>3, Zenon
    <2>5. <<Args, Noted, Args>> \in Seq(Noting(T)) /\ <<Args, Noted>> \in Seq(Noting(T))
      BY <2>1
    <2> QED  BY <2>4, <2>5, ConcatProperties
  <1>3. /\ PolicyOf("info") \in Quiet(R) /\ Both("NOT_FOUND") \in Quiet(R)
        /\ Both("CLIENT") \in Quiet(R) /\ Store \in Answer(R) /\ Ask("wait") \in Answer(R)
    <2>1. /\ PolicyOf("info") \in Quiet(All) /\ Both("NOT_FOUND") \in Quiet(All)
          /\ Both("CLIENT") \in Quiet(All)
      BY QuietSteps DEF PolicyUse, Kind, Codes
    <2>2. Quiet(All) \subseteq Quiet(R) /\ Answer(All) \subseteq Answer(R)
      BY Without DEF All
    <2> QED  BY <2>1, <2>2, AnswerSteps
  <1>4. NoPolicy(Store) \in Answer(R)
    BY DEF Answer, Alone, Writes, StartsJob, LoudStep, ExplainedStep, Step, Codes,
           All, Base, Store, Ask, Both, Fails, NoPolicy
  <1>5. PolicyQuiet("info") \in Quiet(S)
    BY DEF Quiet, Alone, Writes, StartsJob, ExplainedStep, Step, Codes, All, Base,
           PolicyQuiet, PolicyOf, PolicyUse, Kind, Args, Both, Fails
  <1>6. Store \in Answer(S) /\ Ask("wait") \in Answer(S)
    <2>1. Answer(All) \subseteq Answer(S)
      BY Without DEF All
    <2> QED  BY <2>1, AnswerSteps
  <1>7. /\ \A s \in {PolicyOf("info"), PolicyQuiet("info"), Both("NOT_FOUND"), Both("CLIENT")} :
              s.error # "kept"
        /\ \A s \in {Store, NoPolicy(Store), Fetch} : s.kind = "request"
    BY DEF PolicyOf, PolicyQuiet, Args, Both, Fails, Store, Fetch, Ask, NoPolicy, Base
  <1>8. Obeys(UdfRegister, R) /\ Settled(UdfRegister, 1)
    <2>1. /\ UdfRegister \in Seq(Step)
          /\ \A i \in 1 .. Len(UdfRegister) :
                 IF i <= 3 THEN UdfRegister[i] \in Quiet(R) ELSE UdfRegister[i] \in Answer(R)
      BY <1>3, Without DEF UdfRegister, Quiet, Answer
    <2>2. Settled(UdfRegister, 1)
      BY <1>7 DEF Settled, UdfRegister
    <2> QED  BY <2>1, <2>2, SplitObeys
  <1>9. Obeys(UdfDeregister, R) /\ Settled(UdfDeregister, 1)
    <2>1. /\ UdfDeregister \in Seq(Step)
          /\ \A i \in 1 .. Len(UdfDeregister) :
                 IF i <= 1 THEN UdfDeregister[i] \in Quiet(R) ELSE UdfDeregister[i] \in Answer(R)
      BY <1>3, <1>4 DEF UdfDeregister, Quiet, Answer
    <2>2. Settled(UdfDeregister, 1)
      BY <1>7 DEF Settled, UdfDeregister
    <2> QED  BY <2>1, <2>2, SplitObeys
  <1>10. /\ Obeys(UdfList, R) /\ Settled(UdfList, 1)
         /\ Obeys(UdfGet, R) /\ Settled(UdfGet, 1)
    <2>1. InfoRequest \in Seq(Quiet(All)) /\ <<Deliver>> \in Seq(Quiet(All))
      BY QuietParts
    <2>2. InfoRequest \o <<Deliver>> \in Seq(Quiet(All))
      BY <2>1, ConcatProperties
    <2>3. Obeys(InfoRequest \o <<Deliver>>, R)
      <3>1. /\ \A c \in Seq(Quiet(All)) : c \in Seq(Quiet(R))
            /\ \A c \in Seq(Quiet(R)) : Obeys(c, R)
        BY Without DEF All
      <3> HIDE DEF R
      <3> QED  BY <2>2, <3>1
    <2>4. Settled(InfoRequest, 1)
      BY <1>7 DEF Settled, InfoRequest
    <2>5. \A c \in Seq(Quiet(All)) : c \in Seq(Step)
      <3>1. Quiet(All) \subseteq Step
        BY DEF Quiet
      <3> QED  BY <3>1, LargerSeq, Zenon
    <2>6. Settled(InfoRequest \o <<Deliver>>, 1)
      <3>1. InfoRequest \in Seq(Step) /\ <<Deliver>> \in Seq(Step)
        BY <2>1, <2>5, Zenon
      <3>2. \A u \in Seq(Step), v \in Seq(Step) : Settled(u, 1) => Settled(u \o v, 1)
        BY WatchedFurther
      <3> QED  BY <2>4, <3>1, <3>2, Zenon
    <2> QED  BY <2>3, <2>6 DEF UdfList, UdfGet
  <1>11. /\ Obeys(IndexCreate, S) /\ Settled(IndexCreate, 1)
         /\ Obeys(IndexRemove, S) /\ Settled(IndexRemove, 1)
    <2>1. /\ IndexCreate \in Seq(Step)
          /\ \A i \in 1 .. Len(IndexCreate) :
                 IF i <= 1 THEN IndexCreate[i] \in Quiet(S) ELSE IndexCreate[i] \in Answer(S)
      BY <1>5, <1>6 DEF IndexCreate, Quiet, Answer
    <2>2. /\ IndexRemove \in Seq(Step)
          /\ \A i \in 1 .. Len(IndexRemove) :
                 IF i <= 1 THEN IndexRemove[i] \in Quiet(S) ELSE IndexRemove[i] \in Answer(S)
      BY <1>5, <1>6 DEF IndexRemove, Quiet, Answer
    <2>3. Settled(IndexCreate, 1) /\ Settled(IndexRemove, 1)
      BY <1>7 DEF Settled, IndexCreate, IndexRemove
    <2> QED  BY <2>1, <2>2, <2>3, SplitObeys
  <1> HIDE DEF R, S
  <1>12. /\ Obeys(Register, R) /\ Obeys(Deregister, R)
         /\ Obeys(ListRegistered, R) /\ Obeys(GetRegistered, R)
    BY <1>2, <1>8, <1>9, <1>10, NotingObeys
       DEF Register, Deregister, ListRegistered, GetRegistered
  <1>13. Obeys(AddIndex, S) /\ Obeys(DropIndex, S)
    BY <1>2, <1>11, NotingObeys DEF AddIndex, DropIndex
  <1> QED  BY <1>12, <1>13 DEF R, S

\* Methods whose function returns another status than the error it leaves.
DirectMethods == {Info, InfoMany, ExistsManyBatchDirect}

LEMMA DirectMethodsObey == \A c \in DirectMethods : Obeys(c, All \ {"loud"})
  <1> DEFINE R == All \ {"loud"}
             Q == Quiet(R)
  <1>1. PolicyQuiet("info") \in Q /\ PolicyQuiet("batch") \in Q /\ ErrorOnly("PARAM") \in Q
    BY DEF Quiet, Alone, Writes, StartsJob, Telling, ExplainedStep, Step, Codes,
           All, Base, PolicyQuiet, PolicyOf, PolicyUse, Kind, Args, Both, ErrorOnly, Fails
  <1>2. Fetch \in Q /\ Deliver \in Q
    <2>1. Quiet(All) \subseteq Q
      BY Without DEF All
    <2> QED  BY <2>1, QuietSteps
  <1>3. /\ \A c \in Seq(Quiet(All)) : c \in Seq(Q)
        /\ \A c \in Seq(Q) : Obeys(c, R)
        /\ \A u \in Seq(Q), v \in Seq(Q) : u \o v \in Seq(Q)
    BY Without DEF All
  <1> HIDE DEF Q
  <1>4. Enter \in Seq(Q) /\ <<Args>> \in Seq(Q) /\ RequestMultiple \in Seq(Q)
    BY <1>3, QuietParts
  <1>5. /\ SpecificHost \in Seq(Q) /\ ExistsManyDirect \in Seq(Q)
        /\ <<ErrorOnly("PARAM")>> \in Seq(Q)
    BY <1>1, <1>2 DEF SpecificHost, ExistsManyDirect
  <1>6. Info \in Seq(Q) /\ InfoMany \in Seq(Q) /\ ExistsManyBatchDirect \in Seq(Q)
    BY <1>3, <1>4, <1>5 DEF Info, InfoMany, ExistsManyBatchDirect
  <1> QED  BY <1>3, <1>6 DEF DirectMethods

\* removeBin replaces the error of each status by its own.
LEMMA RemoveBinObeys == Obeys(RemoveBin, All \ {"tells", "loud"})
  <1> DEFINE R == All \ {"tells", "loud"}
             Q == Quiet(R)
             said == [i \in DOMAIN RemoveBinInner |->
                        IF RemoveBinInner[i].status = "kept" THEN RemoveBinInner[i]
                        ELSE [RemoveBinInner[i] EXCEPT !.error = "SERVER"]]
             policy == [PolicyOf("write") EXCEPT !.error = "SERVER"]
             gen == [Fails("CLIENT", "kept") EXCEPT !.error = "SERVER"]
             store == [NoPolicy(Store) EXCEPT !.error = "SERVER"]
  <1>1. policy \in Q /\ gen \in Q /\ ErrorOnly("PARAM") \in Q
    BY DEF Quiet, Alone, Writes, StartsJob, ExplainedStep, Step, Codes,
           All, Base, PolicyOf, PolicyUse, Kind, Args, Both, ErrorOnly, Fails
  <1>2. store \in Answer(R)
    BY DEF Answer, Alone, Writes, StartsJob, ExplainedStep, Step, Codes,
           All, Base, NoPolicy, Store, Ask, Both, Fails
  <1>3. /\ PolicyOf("write").status # "kept" /\ Fails("CLIENT", "kept").status # "kept"
        /\ ErrorOnly("PARAM").status = "kept" /\ NoPolicy(Store).status # "kept"
    BY DEF PolicyOf, Args, Both, ErrorOnly, Fails, NoPolicy, Store, Ask, Base
  <1>4. /\ DOMAIN said = 1 .. 4 /\ said[1] = policy /\ said[2] = gen
        /\ said[3] = ErrorOnly("PARAM") /\ said[4] = store
    BY <1>3 DEF RemoveBinInner
  <1>5. Q \subseteq Step /\ Answer(R) \subseteq Step
    BY Without DEF All
  <1>7. said = [i \in 1 .. 4 |-> said[i]]
    BY <1>4
  <1> HIDE DEF said, policy, gen, store, Q
  <1>8. \A i \in 1 .. 4 : said[i] \in Step
    BY <1>1, <1>2, <1>4, <1>5
  <1>9. said \in Seq(Step) /\ Len(said) = 4
    BY <1>7, <1>8
  <1>10. \A i \in 1 .. Len(said) : IF i <= 3 THEN said[i] \in Q ELSE said[i] \in Answer(R)
    BY <1>1, <1>2, <1>4, <1>9
  <1>11. Obeys(said, R)
    BY <1>9, <1>10, SplitObeys DEF Q
  <1>12. Enter \o <<Args>> \o KeyReturned \in Seq(Q)
    <2>1. /\ \A c \in Seq(Quiet(All)) : c \in Seq(Q)
          /\ \A u \in Seq(Q), v \in Seq(Q) : u \o v \in Seq(Q)
      BY Without DEF All, Q
    <2> QED  BY <2>1, QuietParts
  <1>13. \A u \in Seq(Q) : \A v : Obeys(v, R) => Obeys(u \o v, R)
    BY Without DEF All, Q
  <1>14. RemoveBin = (Enter \o <<Args>> \o KeyReturned) \o said
    BY DEF RemoveBin, said
  <1> QED  BY <1>11, <1>12, <1>13, <1>14

\* Lists: an error is left where the status stays OK.  The TTL is what notices options
\* that were refused, unless the conversion of a value has erased their error.
TtlLists == {ListClear, ListTrim, ListRemove, ListRemoveRange, ListPop, ListPopRange}
OtherLists ==
    {ListAppend, ListInsert, ListSet, ListMerge, ListInsertItems, ListSize, ListGet,
     ListGetRange}

LEMMA ListPartsObey ==
  LET Q == Quiet(All \ {"tells", "loud"})
      A == Answer(All \ {"tells", "loud"})
  IN  /\ ListCall \in Seq(Q) /\ ListValue \in Seq(Q) /\ ListValues \in Seq(Q)
      /\ <<Fetch, Deliver>> \in Seq(Q) /\ <<Fetch, Unpack("kept", "CLIENT")>> \in Seq(Q)
      /\ Ttl \in Seq(Q) /\ <<Store>> \in Seq(A) /\ <<Store, Unpack("kept", "CLIENT")>> \in Seq(A)
  <1> DEFINE R == All \ {"tells", "loud"}
             Q == Quiet(R)
             A == Answer(R)
  <1> DEFINE features == [Fetch EXCEPT !.status = "kept", !.error = "UNSUPPORTED"]
  <1>1. /\ ErrorOnly("UNSUPPORTED") \in Q /\ GoesOn(PolicyQuiet("list")) \in Q
        /\ ConvertValue \in Q /\ ErrorOnly("PARAM") \in Q /\ features \in Q
    BY DEF Quiet, Alone, Writes, StartsJob, ExplainedStep, Step, Codes, All, Base,
           PolicyQuiet, PolicyOf, PolicyUse, Kind, Args, Both, ErrorOnly, Fails, GoesOn,
           Scripted, ConvertValue, Fetch, Ask
  <1>2. /\ EndsOnError("same", "PARAM") \in Q /\ EndsOnError("kept", "kept") \in Q
        /\ Unpack("kept", "CLIENT") \in Q /\ Unpack("kept", "CLIENT") \in A
    BY DEF Quiet, Answer, Alone, Writes, StartsJob, ExplainedStep, Step, Codes, All, Base,
           EndsOnError, Fails, Unpack, Scripted
  <1>3. Args \in Q /\ Fetch \in Q /\ Deliver \in Q /\ Store \in A
    <2>1. Quiet(All) \subseteq Q /\ Answer(All) \subseteq A
      BY Without DEF All
    <2> QED  BY <2>1, QuietSteps, AnswerSteps
  <1>4. /\ \A c \in Seq(Quiet(All)) : c \in Seq(Q)
        /\ \A u \in Seq(Q), v \in Seq(Q) : u \o v \in Seq(Q)
    BY Without DEF All
  <1> HIDE DEF Q, A, features
  <1>5. Enter \in Seq(Q) /\ Key \in Seq(Q)
    BY <1>4, QuietParts
  <1>6. HasCdtList \in Seq(Q) /\ <<Args, GoesOn(PolicyQuiet("list"))>> \in Seq(Q)
    BY <1>1, <1>3 DEF HasCdtList, features
  <1>7. ListCall \in Seq(Q)
    BY <1>4, <1>5, <1>6 DEF ListCall
  <1>8. ListValue \in Seq(Q) /\ ListValues \in Seq(Q) /\ Ttl \in Seq(Q)
    BY <1>1, <1>2 DEF ListValue, ListValues, Ttl
  <1>9. /\ <<Fetch, Deliver>> \in Seq(Q) /\ <<Fetch, Unpack("kept", "CLIENT")>> \in Seq(Q)
        /\ <<Store>> \in Seq(A) /\ <<Store, Unpack("kept", "CLIENT")>> \in Seq(A)
    BY <1>2, <1>3
  <1> QED  BY <1>7, <1>8, <1>9 DEF Q, A

LEMMA ListMethodsObey ==
  /\ \A c \in OtherLists : Obeys(c, All \ {"tells", "loud"})
  /\ \A c \in TtlLists : Obeys(c, All \ {"loud"})
  <1> DEFINE R == All \ {"tells", "loud"}
             Q == Quiet(R)
             T == All \ {"loud"}
  <1>1. /\ \A c \in Seq(Q) : Obeys(c, R)
        /\ \A u \in Seq(Q), v \in Seq(Q) : u \o v \in Seq(Q)
        /\ \A u : \A v \in Seq(Answer(R)) : Obeys(u, R) => Obeys(u \o v, R)
    BY Without DEF All
  <1>2. /\ ListCall \in Seq(Q) /\ ListValue \in Seq(Q) /\ ListValues \in Seq(Q)
        /\ <<Fetch, Deliver>> \in Seq(Q) /\ <<Fetch, Unpack("kept", "CLIENT")>> \in Seq(Q)
        /\ Ttl \in Seq(Q) /\ <<Store>> \in Seq(Answer(R))
        /\ <<Store, Unpack("kept", "CLIENT")>> \in Seq(Answer(R))
    BY ListPartsObey
  <1>3. Awaits(ListCall)
    <2> DEFINE policy == GoesOn(PolicyQuiet("list"))
               connect == Enter[1]
               features == [Fetch EXCEPT !.status = "kept", !.error = "UNSUPPORTED"]
               u == Enter \o HasCdtList
    <2>1. /\ Telling(connect) /\ Telling(ErrorOnly("UNSUPPORTED")) /\ Telling(features)
          /\ Telling(Args) /\ Args.kind = "check" /\ Deferred(policy)
          /\ connect \in Step /\ ErrorOnly("UNSUPPORTED") \in Step /\ policy \in Step
          /\ Args \in Step /\ features \in Step
      BY DEF Telling, Enter, ErrorOnly, Args, Both, Fails, Base, GoesOn, PolicyQuiet, PolicyOf,
             Deferred, Step, Codes, PolicyUse, Kind, Fetch, Ask
    <2>2. Enter = <<connect>> /\ HasCdtList = <<features, ErrorOnly("UNSUPPORTED")>>
      BY DEF Enter, HasCdtList
    <2> HIDE DEF policy, connect, features
    <2>3. /\ Enter \in Seq(Step) /\ HasCdtList \in Seq(Step) /\ Key \in Seq(Step)
          /\ <<Args, policy>> \in Seq(Step)
      BY <2>1, <2>2 DEF Key
    <2>4. /\ \A i \in 1 .. Len(Enter) : Telling(Enter[i])
          /\ \A i \in 1 .. Len(HasCdtList) : Telling(HasCdtList[i])
      BY <2>1, <2>2
    <2>5. u \in Seq(Step) /\ \A i \in 1 .. Len(u) : Telling(u[i])
      BY <2>3, <2>4, ConcatProperties
    <2> HIDE DEF u
    <2>6. Awaits(u) /\ Awaits(<<Args, policy>>) /\ Awaits(Key)
      BY <2>1, <2>5 DEF Awaits, Key
    <2>7. Awaits(u \o <<Args, policy>>) /\ u \o <<Args, policy>> \in Seq(Step)
      BY <2>3, <2>5, <2>6, AwaitsFurther, ConcatProperties
    <2>8. \A i \in 1 .. Len(Key) : Key[i].kind = "check"
      BY <2>1 DEF Key
    <2>9. Awaits((u \o <<Args, policy>>) \o Key)
      BY <2>3, <2>6, <2>7, <2>8, AwaitsFurther
    <2> QED  BY <2>9 DEF ListCall, u, policy
  <1>4. Tells(ListCall \o Ttl)
    <2> DEFINE notices == EndsOnError("kept", "kept")
    <2>1. ListCall \in Seq(Step)
      <3>1. Q \subseteq Step
        BY Without DEF All
      <3> QED  BY <1>2, <3>1, LargerSeq, Zenon
    <2>2. /\ notices \in Step /\ notices.kind = "clean" /\ Telling(notices)
          /\ ErrorOnly("PARAM") \in Step /\ Telling(ErrorOnly("PARAM"))
      BY DEF EndsOnError, ErrorOnly, Fails, Base, Telling, Step, Codes
    <2> HIDE DEF notices
    <2>3. Tells(ListCall \o <<notices, ErrorOnly("PARAM")>>)
      BY <1>3, <2>1, <2>2, AwaitedTells
    <2> QED  BY <2>3 DEF Ttl, notices
  <1>5. Obeys(ListCall \o Ttl, T)
    <2> DEFINE l == ListCall \o Ttl
    <2>1. l \in Seq(Q)
      BY <1>1, <1>2
    <2> HIDE DEF l
    <2>2. Obeys(l, R)
      BY <1>1, <2>1
    <2> QED  BY <1>4, <2>2 DEF Obeys, l
  <1>6. \A c \in TtlLists : Obeys(c, T)
    <2>1. <<Store>> \in Seq(Answer(T)) /\ <<Store, Unpack("kept", "CLIENT")>> \in Seq(Answer(T))
      <3>1. Store \in Answer(T)
        BY Without, AnswerSteps DEF All
      <3>2. Unpack("kept", "CLIENT") \in Answer(T)
        BY DEF Answer, Alone, Writes, StartsJob, Telling, ExplainedStep, Step, Codes, All,
               Base, Fails, Unpack, Scripted
      <3> HIDE DEF T
      <3> QED  BY <3>1, <3>2
    <2>2. \A u : \A w \in Seq(Answer(T)) : Obeys(u, T) => Obeys(u \o w, T)
      BY Without DEF All
    <2>3. /\ Obeys((ListCall \o Ttl) \o <<Store>>, T)
          /\ Obeys((ListCall \o Ttl) \o <<Store, Unpack("kept", "CLIENT")>>, T)
      BY <1>5, <2>1, <2>2
    <2> QED
      BY <2>3 DEF TtlLists, ListClear, ListTrim, ListRemove, ListRemoveRange, ListPop,
                  ListPopRange
  <1> HIDE DEF Q, R
  <1>7. \A c \in OtherLists : Obeys(c, R)
    <2>1. /\ (ListCall \o ListValue) \o Ttl \in Seq(Q)
          /\ (ListCall \o ListValues) \o Ttl \in Seq(Q)
      BY <1>1, <1>2
    <2>2. /\ Obeys(((ListCall \o ListValue) \o Ttl) \o <<Store>>, R)
          /\ Obeys(((ListCall \o ListValues) \o Ttl) \o <<Store>>, R)
          /\ Obeys(ListCall \o <<Fetch, Deliver>>, R)
          /\ Obeys(ListCall \o <<Fetch, Unpack("kept", "CLIENT")>>, R)
      BY <1>1, <1>2, <2>1
    <2> QED
      BY <2>2 DEF OtherLists, ListAppend, ListInsert, ListSet, ListMerge, ListInsertItems,
                  ListSize, ListGet, ListGetRange
  <1> QED  BY <1>6, <1>7 DEF R

\* Background jobs.
LEMMA JobMethodsObey ==
  \A c \in {ScanApply, QueryApply} : Obeys(c, All \ {"starts no job"}) /\ JobHandedOut(c)
  <1> DEFINE R == All \ {"starts no job"}
             Q == Quiet(R)
             N == {s \in Step : Reports(s)}
  <1>1. Ask("job") \in Q /\ Ask("wait") \in Q
    BY DEF Quiet, Alone, Writes, Telling, LoudStep, ExplainedStep, Step, Codes, All, Base,
           Ask, Both, Fails
  <1>2. /\ PolicyOf("scan") \in Q /\ PolicyOf("write") \in Q /\ PolicyOf("info") \in Q
        /\ Args \in Q /\ Convert \in Q /\ Both("CLIENT") \in Q /\ Deliver \in Q
    <2>1. /\ PolicyOf("scan") \in Quiet(All) /\ PolicyOf("write") \in Quiet(All)
          /\ PolicyOf("info") \in Quiet(All)
          /\ Args \in Quiet(All) /\ Convert \in Quiet(All) /\ Both("CLIENT") \in Quiet(All)
          /\ Deliver \in Quiet(All)
      BY QuietSteps DEF PolicyUse, Kind, Codes
    <2>2. Quiet(All) \subseteq Q
      BY Without DEF All
    <2> QED  BY <2>1, <2>2
  <1>3. /\ \A s \in {PolicyOf("scan"), PolicyOf("write"), PolicyOf("info"), Args, Convert,
                     Both("CLIENT"), Ask("job"), Ask("wait")} : Reports(s)
        /\ Deliver.kind = "output" /\ Deliver.error = "kept"
    BY DEF Reports, PolicyOf, Args, Convert, Both, Ask, Fails, Scripted, Deliver, Base
  <1>4. Q \subseteq Step
    BY Without DEF All
  <1>5. /\ \A u \in Seq(Q), v \in Seq(Q) : u \o v \in Seq(Q)
        /\ \A c \in Seq(Q) : Obeys(c, R)
        /\ \A c \in Seq(Quiet(All)) : c \in Seq(Q)
    BY Without DEF All
  <1>6. \A u \in Seq(N), v \in Seq(N) : u \o v \in Seq(N)
    BY ConcatProperties
  <1>7. \A u \in Seq(N) : JobHandedOut(u \o <<Deliver>>)
    <2>1. \A u \in Seq(N) : u \in Seq(Step) /\ \A i \in 1 .. Len(u) : Reports(u[i])
      OBVIOUS
    <2> HIDE DEF N
    <2> QED  BY <1>2, <1>3, <1>4, <2>1, ReportsHandOut
  <1>8. /\ PolicyOf("scan") \in N /\ PolicyOf("write") \in N /\ PolicyOf("info") \in N
        /\ Args \in N /\ Convert \in N /\ Both("CLIENT") \in N
        /\ Ask("job") \in N /\ Ask("wait") \in N
    BY <1>1, <1>2, <1>3, <1>4
  <1> HIDE DEF Q, N
  <1>9. /\ WaitFor \in Seq(Q) /\ WaitFor \in Seq(N) /\ <<Deliver>> \in Seq(Q)
        /\ <<Convert, PolicyOf("scan"), Both("CLIENT"), Ask("job")>> \in Seq(Q)
        /\ <<Convert, PolicyOf("scan"), Both("CLIENT"), Ask("job")>> \in Seq(N)
        /\ <<Convert>> \in Seq(Q) /\ <<Convert>> \in Seq(N)
        /\ Define \in Seq(Q) /\ Define \in Seq(N)
        /\ <<PolicyOf("write"), Both("CLIENT"), Ask("job")>> \in Seq(Q)
        /\ <<PolicyOf("write"), Both("CLIENT"), Ask("job")>> \in Seq(N)
    BY <1>1, <1>2, <1>8 DEF WaitFor, Define
  <1>10. ScanBackground \in Seq(Q) /\ QueryBackground \in Seq(Q)
    BY <1>5, <1>9 DEF ScanBackground, QueryBackground
  <1>11. JobHandedOut(ScanBackground) /\ JobHandedOut(QueryBackground)
    BY <1>6, <1>7, <1>9 DEF ScanBackground, QueryBackground
  <1>12. Enter \o <<Args>> \in Seq(Q) /\ NoJobs(Enter \o <<Args>>)
    <2>1. Enter \o <<Args>> \in Seq(Quiet(All))
      BY QuietParts, ConcatProperties
    <2>2. Obeys(Enter \o <<Args>>, All)
      BY <2>1, QuietObeys
    <2> QED  BY <1>5, <2>1, <2>2 DEF Obeys, All
  <1>13. Obeys(ScanApply, R) /\ Obeys(QueryApply, R)
    BY <1>5, <1>10, <1>12 DEF ScanApply, QueryApply
  <1>14. JobHandedOut(ScanApply) /\ JobHandedOut(QueryApply)
    <2>1. \A c \in Seq(Q) : c \in Seq(Step)
      BY <1>4, LargerSeq, Zenon
    <2>2. \A u \in Seq(Step), v \in Seq(Step) :
             NoJobs(u) /\ JobHandedOut(v) => JobHandedOut(u \o v)
      BY HandOutFurther
    <2> QED  BY <1>10, <1>11, <1>12, <2>1, <2>2 DEF ScanApply, QueryApply
  <1> QED  BY <1>13, <1>14

-----------------------------------------------------------------------------
(* The table.                                                              *)

\* The rules a method does not obey, and is named for in the properties.
Broken(m) ==
    {rule \in All :
        \/ rule = "tells" /\ m \in GoOn \cup PolicyFree \cup Careless
        \/ rule = "loud" /\ m \in OnlyError
        \/ rule = "explained" /\ m \in OnlyStatus
        \/ rule = "starts no job" /\ m \in {"queryApply", "scanApply"}}

\* Every method of the table obeys the rules it is not named for breaking.
LEMMA TableObeys ==
  \A m \in DOMAIN MethodTable :
     Obeys(MethodTable[m], All \ Broken(m)) /\ JobHandedOut(MethodTable[m])
  <1> DEFINE Fine(m) == Obeys(MethodTable[m], All \ Broken(m)) /\ JobHandedOut(MethodTable[m])
             writing == {"put", "remove", "append", "prepend", "touch", "createUser", "dropUser",
                         "changePassword", "setPassword", "grantRoles", "revokeRoles",
                         "createRole", "dropRole", "grantPrivileges", "revokePrivileges"}
             quiet == {"exists", "getMetadata", "get", "existsMany", "scanBins", "queryBins",
                       "aggregate", "scanInfo", "jobInfo", "getNodes", "queryUser", "queryUsers",
                       "queryRole", "queryRoles", "setLogLevel", "isConnected", "close",
                       "__destruct"}
             status == {"getBins", "setLogHandler", "initKey", "getKeyDigest"}
             losing == {"increment", "getMany", "getManyDirect", "scan", "query", "apply",
                        "register", "deregister", "listRegistered", "getRegistered"}
             error == {"info", "infoMany", "existsManyDirect", "listClear", "listTrim",
                       "listRemove", "listRemoveRange", "listPop", "listPopRange"}
             both == {"addIndex", "dropIndex", "removeBin", "listAppend", "listInsert",
                      "listSet", "listMerge", "listInsertItems", "listSize", "listGet",
                      "listGetRange"}
             jobs == {"scanApply", "queryApply"}
  <1>1. \A m \in writing : MethodTable[m] \in WritingMethods
    BY DEF MethodTable, WritingMethods
  <1>2. \A m \in quiet : MethodTable[m] \in QuietMethods
    BY DEF MethodTable, QuietMethods
  <1>3. \A m \in status :
           MethodTable[m] \in {GetBins, SetLogHandler, InitKey, GetKeyDigest}
    BY DEF MethodTable
  <1>4. \A m \in losing :
           MethodTable[m] \in {Increment, GetMany, GetManyBatchDirect, Scan, Query, Apply,
                              Register, Deregister, ListRegistered, GetRegistered}
    BY DEF MethodTable
  <1>5. \A m \in error : MethodTable[m] \in DirectMethods \cup TtlLists
    BY DEF MethodTable, DirectMethods, TtlLists
  <1>6. \A m \in both :
           MethodTable[m] \in {AddIndex, DropIndex, RemoveBin} \cup OtherLists
    BY DEF MethodTable, OtherLists
  <1>7. \A m \in jobs : MethodTable[m] \in {ScanApply, QueryApply}
    BY DEF MethodTable
  <1>8. DOMAIN MethodTable \subseteq
           (writing \cup quiet \cup status \cup losing \cup error \cup both \cup jobs)
    BY DEF MethodTable
  <1>9. /\ \A m \in status : "explained" \in Broken(m)
        /\ \A m \in losing : "tells" \in Broken(m)
        /\ \A m \in error : "loud" \in Broken(m)
        /\ \A m \in both : {"tells", "loud"} \subseteq Broken(m)
        /\ \A m \in jobs : "starts no job" \in Broken(m)
    BY DEF Broken, All, GoOn, PolicyFree, Careless, OnlyError, OnlyStatus
  <1> HIDE DEF writing, quiet, status, losing, error, both, jobs
  <1>10. ASSUME NEW m, NEW broken \in SUBSET Broken(m), Obeys(MethodTable[m], All \ broken),
                "starts no job" \notin broken
         PROVE  Fine(m)
    <2>1. All \ Broken(m) \in SUBSET (All \ broken)
      OBVIOUS
    <2>2. NoJobs(MethodTable[m])
      BY <1>10 DEF Obeys, All
    <2>3. JobHandedOut(MethodTable[m])
      BY <2>2 DEF NoJobs, JobHandedOut
    <2> QED  BY <1>10, <2>1, <2>3, FewerRules
  <1>11. \A m \in writing \cup quiet : Fine(m)
    <2> TAKE m \in writing \cup quiet
    <2>1. Obeys(MethodTable[m], All)
      BY <1>1, <1>2, WritingMethodsObey, QuietMethodsObey, QuietObeys
    <2>2. All \ {} = All /\ {} \in SUBSET Broken(m) /\ "starts no job" \notin {}
      OBVIOUS
    <2> HIDE DEF Fine
    <2> QED  BY <1>10, <2>1, <2>2, Zenon
  <1>12. \A m \in status : Fine(m)
    <2> TAKE m \in status
    <2>1. Obeys(MethodTable[m], All \ {"explained"})
      BY <1>3, StatusMethodsObey
    <2>2. {"explained"} \in SUBSET Broken(m) /\ "starts no job" \notin {"explained"}
      BY <1>9
    <2> HIDE DEF Fine
    <2> QED  BY <1>10, <2>1, <2>2, Zenon
  <1>13. \A m \in losing : Fine(m)
    <2> TAKE m \in losing
    <2>1. Obeys(MethodTable[m], All \ {"tells"})
      BY <1>4, LosingMethodsObey, ApplyObeys, RegistryMethodsObey
    <2>2. {"tells"} \in SUBSET Broken(m) /\ "starts no job" \notin {"tells"}
      BY <1>9
    <2> HIDE DEF Fine
    <2> QED  BY <1>10, <2>1, <2>2, Zenon
  <1>14. \A m \in error : Fine(m)
    <2> TAKE m \in error
    <2>1. Obeys(MethodTable[m], All \ {"loud"})
      BY <1>5, DirectMethodsObey, ListMethodsObey
    <2>2. {"loud"} \in SUBSET Broken(m) /\ "starts no job" \notin {"loud"}
      BY <1>9
    <2> HIDE DEF Fine
    <2> QED  BY <1>10, <2>1, <2>2, Zenon
  <1>15. \A m \in both : Fine(m)
    <2> TAKE m \in both
    <2>1. Obeys(MethodTable[m], All \ {"tells", "loud"})
      BY <1>6, RegistryMethodsObey, RemoveBinObeys, ListMethodsObey
    <2>2. {"tells", "loud"} \in SUBSET Broken(m) /\ "starts no job" \notin {"tells", "loud"}
      BY <1>9
    <2> HIDE DEF Fine
    <2> QED  BY <1>10, <2>1, <2>2, Zenon
  <1>16. \A m \in jobs : Fine(m)
    <2> TAKE m \in jobs
    <2>1. Obeys(MethodTable[m], All \ {"starts no job"}) /\ JobHandedOut(MethodTable[m])
      BY <1>7, JobMethodsObey
    <2>2. All \ Broken(m) \in SUBSET (All \ {"starts no job"})
      BY <1>9
    <2> QED  BY <2>1, <2>2, FewerRules
  <1> QED  BY <1>8, <1>11, <1>12, <1>13, <1>14, <1>15, <1>16

-----------------------------------------------------------------------------
(* The properties.                                                         *)

\* What the last call that returned obeys.
LEMMA ReturnedObeys ==
  ASSUME TypeOK, CallsReport, returned # NoCall
  PROVE  /\ returned.method \in DOMAIN MethodTable
         /\ Obeys(Code[returned.method], All \ Broken(returned.method))
         /\ JobHandedOut(Code[returned.method])
         /\ returned.pc > Len(Code[returned.method])
         /\ Report(build, returned)
  <1>1. returned \in Frame
    BY DEF TypeOK
  <1>2. returned.method \in DOMAIN MethodTable
    BY <1>1, MethodsAssumption DEF Frame
  <1> QED  BY <1>2, MethodsAssumption, TableObeys DEF CallsReport

\* A failure is in the status or in the error of every method that is not named for
\* hiding one (FailureIsTold).
THEOREM FailuresAreTold == Spec => []FailureIsTold
  <1>1. TypeOK /\ CallsReport => FailureIsTold
    <2> SUFFICES ASSUME TypeOK, CallsReport, returned # NoCall, returned.lost,
                        returned.method \notin GoOn \cup PolicyFree \cup Careless,
                        \/ build = "php5"
                        \/ Len(returned.opts) <= 1 /\ "EMPTY_GEN" \notin KeysOf(returned.opts)
                 PROVE  returned.status # "OK" \/ returned.error # "OK"
      BY DEF FailureIsTold
    <2>1. Tells(Code[returned.method])
      BY ReturnedObeys DEF Obeys, All, Broken
    <2>2. ~OptionsLost(build, returned)
      <3>1. returned.opts \in Seq(Option)
        BY CallAssumption DEF TypeOK, Frame
      <3> QED  BY <3>1 DEF OptionsLost
    <2> QED  BY <2>1, <2>2, ReturnedObeys DEF Report, Told
  <1> QED  BY <1>1, CallsAlwaysReport, PTL

\* The status a method returns and the error it leaves agree (StatusMeansError).
THEOREM StatusAgrees == Spec => []StatusMeansError
  <1>1. TypeOK /\ CallsReport => StatusMeansError
    <2> SUFFICES ASSUME TypeOK, CallsReport, returned # NoCall
                 PROVE  /\ returned.status = "OK" /\ returned.method \notin OnlyError =>
                               returned.error = "OK"
                        /\ returned.error = "OK" /\ returned.method \notin OnlyStatus =>
                               returned.status = "OK"
      BY DEF StatusMeansError
    <2>1. returned.method \notin OnlyError => Loud(Code[returned.method])
      BY ReturnedObeys DEF Obeys, All, Broken
    <2>2. returned.method \notin OnlyStatus => Explained(Code[returned.method])
      BY ReturnedObeys DEF Obeys, All, Broken
    <2>3. ~(returned.pc <= Len(Code[returned.method]))
      <3>1. returned \in Frame
        BY DEF TypeOK
      <3>2. returned.pc \in Nat
        BY <3>1 DEF Frame
      <3>3. Len(Code[returned.method]) \in Nat
        <4>1. Code[returned.method] \in Seq(Step)
          BY ReturnedObeys DEF Obeys
        <4> QED  BY <4>1
      <3>4. returned.pc > Len(Code[returned.method])
        BY ReturnedObeys
      <3> QED  BY <3>2, <3>3, <3>4
    <2> QED  BY <2>1, <2>2, <2>3, ReturnedObeys DEF Report, OkIsOk, NotOkIsError
  <1> QED  BY <1>1, CallsAlwaysReport, PTL

\* A call refused for its arguments or its options has changed nothing on the server
\* (RefusalWritesNothing).
THEOREM RefusedUnwritten == Spec => []RefusalWritesNothing
  <1>1. TypeOK /\ CallsReport => RefusalWritesNothing
    <2> SUFFICES ASSUME TypeOK, CallsReport, returned # NoCall,
                        returned.method \notin {"queryApply", "scanApply"},
                        returned.status = "PARAM" \/ returned.error = "PARAM"
                 PROVE  ~returned.written /\ ~returned.job
      BY DEF RefusalWritesNothing
    <2>1. WritesLast(Code[returned.method]) /\ NoJobs(Code[returned.method])
      BY ReturnedObeys DEF Obeys, All, Broken
    <2> QED  BY <2>1, ReturnedObeys DEF Report, NotRefused
  <1> QED  BY <1>1, CallsAlwaysReport, PTL

\* A job whose id the script does not have is not the outcome of a call that succeeded
\* (JobIsKnown).
THEOREM JobsAreKnown == Spec => []JobIsKnown
  <1>1. TypeOK /\ CallsReport => JobIsKnown
    BY ReturnedObeys DEF JobIsKnown, Report, JobTold
  <1> QED  BY <1>1, CallsAlwaysReport, PTL
===============================================================================
