------------------------- MODULE ApplyOverHttpProofs -------------------------
(***************************************************************************)
(* The executor on the adapter, each with what is proved of it alone.      *)
(*                                                                         *)
(* A step of the system is a step of the executor, of the adapter, or of   *)
(* both (SystemStep), so what holds of either holds of the system: the     *)
(* executor's invariants by SystemExecutes, the adapter's by SystemAdapts. *)
(* Tied says which call of the adapter belongs to which call the executor  *)
(* made.  The rest is reading the two together: what a result says is what *)
(* the adapter answered, and what the adapter answered is what Appwrite    *)
(* did.                                                                    *)
(***************************************************************************)
EXTENDS ApplyOverHttp, ExecutorReportsProofs

\* The adapter with its proofs; its definitions are those of Http.
Adapter == INSTANCE HttpAppwriteAdapterProofs WITH
               Invocations <- Places, Inputs <- {InputOf(operation) : operation \in Operations}

-----------------------------------------------------------------------------
(* The adapter of the system is the one the proofs are about *)

LEMMA AdapterAssumptions ==
  /\ Adapter!InputsAssumption /\ Adapter!RetriesAssumption
  /\ Adapter!NoAnswerAssumption /\ Adapter!StatusesAssumption
  <1>1. OperationAction = Adapter!OperationAction
    BY DEF OperationAction, ProjectActions, DatabaseReads, DatabaseWrites, AuthReads,
           AuthWrites, LegacyAuthUpdate, FunctionReads, FunctionWrites,
           Adapter!OperationAction, Adapter!ProjectActions, Adapter!DatabaseReads,
           Adapter!DatabaseWrites, Adapter!AuthReads, Adapter!AuthWrites,
           Adapter!LegacyAuthUpdate, Adapter!FunctionReads, Adapter!FunctionWrites
  <1>2. Adapter!InputsAssumption
    <2>1. ASSUME NEW operation \in Operations
          PROVE  /\ InputOf(operation).credentials = "usable"
                 /\ InputOf(operation).operation.action \in OperationAction
                 /\ InputOf(operation).operation.keyed \in BOOLEAN
                 /\ InputOf(operation) # NoInput
      BY HttpAssumption DEF InputOf
    <2> QED
      BY <1>1, <2>1 DEF Adapter!InputsAssumption
  <1>3. Adapter!NoAnswerAssumption /\ Adapter!RetriesAssumption
    BY HttpAssumption DEF Adapter!NoAnswerAssumption, Adapter!RetriesAssumption,
                          Adapter!Answers, Http!Answers
  <1>4. Adapter!StatusesAssumption
    BY HttpAssumption DEF Adapter!StatusesAssumption
  <1> QED
    BY <1>2, <1>3, <1>4

LEMMA SameRequests ==
  ASSUME NEW operation
  PROVE  /\ Http!Buildable(operation) = Adapter!Buildable(operation)
         /\ Http!BuildRequest(operation) = Adapter!BuildRequest(operation)
  <1>1. Http!UserUpdatesAsked(operation) = Adapter!UserUpdatesAsked(operation)
    BY DEF Http!UserUpdatesAsked, Http!UserUpdates, Http!UserUpdate, Http!LegacyAuthUpdate,
           Adapter!UserUpdatesAsked, Adapter!UserUpdates, Adapter!UserUpdate,
           Adapter!LegacyAuthUpdate
  <1>2. Http!FirstUserUpdate(operation) = Adapter!FirstUserUpdate(operation)
    BY <1>1 DEF Http!FirstUserUpdate, Http!UserUpdates, Http!UserUpdate,
                Adapter!FirstUserUpdate, Adapter!UserUpdates, Adapter!UserUpdate
  <1>3. Http!AuthWrites = Adapter!AuthWrites
    BY DEF Http!AuthWrites, Http!LegacyAuthUpdate, Adapter!AuthWrites,
           Adapter!LegacyAuthUpdate
  <1>4. Http!RequiredParams(operation.action) = Adapter!RequiredParams(operation.action)
    BY <1>3, Zenon DEF Http!RequiredParams, Adapter!RequiredParams
  <1>5. Http!BuildRequest(operation) = Adapter!BuildRequest(operation)
    BY <1>2, <1>3 DEF Http!BuildRequest, Http!DeploymentParams, Http!Request,
                      Adapter!BuildRequest, Adapter!DeploymentParams, Adapter!Request
  <1> QED
    BY <1>1, <1>3, <1>4, <1>5 DEF Http!Buildable, Adapter!Buildable

LEMMA SameStart ==
  ASSUME NEW i, NEW input
  PROVE  Http!Start(i, input) <=> Adapter!Start(i, input)
  BY SameRequests DEF Http!Start, Http!Unsent, Http!Failed, Http!NewExchange,
        Http!CredentialsFail, Adapter!Start, Adapter!Unsent, Adapter!Failed,
        Adapter!NewExchange, Adapter!CredentialsFail

LEMMA SameRetry ==
  ASSUME NEW i, NEW answer, NEW retryable
  PROVE  Http!RetryOrAnswer(i, answer, retryable) <=>
           Adapter!RetryOrAnswer(i, answer, retryable)
  BY Zenon DEF Http!RetryOrAnswer, Http!MaxAttempts, Http!CanRetryRequest,
        Adapter!RetryOrAnswer, Adapter!MaxAttempts, Adapter!CanRetryRequest

LEMMA SameSteps ==
  ASSUME NEW i
  PROVE  /\ Http!HeadersArrive(i) <=> Adapter!HeadersArrive(i)
         /\ Http!BodyArrives(i) <=> Adapter!BodyArrives(i)
         /\ \A error : Http!AttemptThrows(i, error) <=> Adapter!AttemptThrows(i, error)
         /\ Http!Wake(i) <=> Adapter!Wake(i)
         /\ \A n, status, carried_out :
              Http!UpstreamActs(i, n, status, carried_out) <=>
                Adapter!UpstreamActs(i, n, status, carried_out)
  <1>1. Http!HeadersArrive(i) <=> Adapter!HeadersArrive(i)
    BY DEF Http!HeadersArrive, Http!CurrentStatus, Adapter!HeadersArrive,
           Adapter!CurrentStatus
  <1>2. Http!BodyArrives(i) <=> Adapter!BodyArrives(i)
    BY SameRetry, Zenon DEF Http!BodyArrives, Http!CurrentStatus, Http!Success2xx, Http!Ok,
          Http!Failed, Adapter!BodyArrives, Adapter!CurrentStatus, Adapter!Success2xx,
          Adapter!Ok, Adapter!Failed
  <1>3. \A error : Http!AttemptThrows(i, error) <=> Adapter!AttemptThrows(i, error)
    BY SameRetry, Zenon DEF Http!AttemptThrows, Http!Failed, Http!IsRetryableError,
          Adapter!AttemptThrows, Adapter!Failed, Adapter!IsRetryableError
  <1>4. Http!Wake(i) <=> Adapter!Wake(i)
    BY DEF Http!Wake, Http!NewExchange, Adapter!Wake, Adapter!NewExchange
  <1>5. \A n, status, carried_out :
          Http!UpstreamActs(i, n, status, carried_out) <=>
            Adapter!UpstreamActs(i, n, status, carried_out)
    BY Zenon DEF Http!UpstreamActs, Http!CarriedOutBy, Http!Success2xx, Http!Refusal4xx,
          Adapter!UpstreamActs, Adapter!CarriedOutBy, Adapter!Success2xx,
          Adapter!Refusal4xx
  <1> QED
    BY <1>1, <1>2, <1>3, <1>4, <1>5

LEMMA SameInit == Http!Init <=> Adapter!Init
  BY DEF Http!Init, Http!IdleInvocation, Adapter!Init, Adapter!IdleInvocation

\* The step of a call, or of Appwrite on one, is a step of the adapter.
LEMMA StepOfAdapter ==
  ASSUME NEW i \in Places,
         \/ \E operation \in Operations : Http!Start(i, InputOf(operation))
         \/ \E n \in DOMAIN exchanges[i], status \in Statuses, carried_out \in BOOLEAN :
               Http!UpstreamActs(i, n, status, carried_out)
         \/ Http!HeadersArrive(i)
         \/ Http!BodyArrives(i)
         \/ \E error \in {"AbortError", "TypeError"} : Http!AttemptThrows(i, error)
         \/ Http!Wake(i)
  PROVE  Adapter!Next
  BY SameStart, SameSteps DEF Adapter!Next

-----------------------------------------------------------------------------
(* The invariant *)

\* Each call the executor made is one of the adapter, of the same operation, and has
\* ended for the executor as it ended for the adapter; the adapter has no others.
Tied ==
    /\ \A k \in calls :
         /\ k.id \in Places
         /\ invocations[k.id].phase # "idle"
         /\ invocations[k.id].input = InputOf(k.operation)
         /\ k.state # "open" =>
              /\ invocations[k.id].phase = "answered"
              /\ invocations[k.id].answer.ok = (k.state = "ok")
    /\ \A i \in Places : invocations[i].phase # "idle" => \E k \in calls : k.id = i

SystemInv == TypeOK /\ Adapter!AdapterInv /\ Tied

\* What a step of the system is to the executor and to the adapter.
StepOfBoth == [Next]_vars /\ [Adapter!Next]_Adapter!adapterVars

LEMMA AdapterStays ==
  ASSUME Adapter!AdapterInv, [Adapter!Next]_Adapter!adapterVars
  PROVE  Adapter!AdapterInv'
  BY AdapterAssumptions, Adapter!AdapterStep
     DEF Adapter!InputsAssumption, Adapter!RetriesAssumption,
         Adapter!NoAnswerAssumption, Adapter!StatusesAssumption

LEMMA PlaceOf ==
  ASSUME NEW c \in Correlations, NEW job \in Jobs,
         NEW t \in 1..Len(job.targets), NEW o \in 1..Len(job.operations)
  PROVE  <<c, t, o>> \in Places
  <1>1. t \in DOMAIN job.targets /\ o \in DOMAIN job.operations
    BY JobType
  <1> QED
    BY <1>1 DEF Places

\* What a run waits for has a place.
LEMMA AwaitedPlace ==
  ASSUME TypeOK, NEW c \in Correlations, runs[c].phase = "calling"
  PROVE  CallId(c, runs[c]) \in Places
  <1>1. Positioned(runs[c])
    BY DEF TypeOK, RunOK, Run, Positioned
  <1>2. /\ TargetIndex(runs[c]) \in 1..Len(runs[c].job.targets)
        /\ OperationIndex(runs[c]) \in 1..Len(runs[c].job.operations)
    BY <1>1, PositionType
  <1> QED
    BY <1>1, <1>2, PlaceOf DEF CallId, Positioned

\* Calls already begun stay tied, whatever the adapter does.
LEMMA TiesStay ==
  ASSUME Adapter!AdapterInv, Tied, [Adapter!Next]_Adapter!adapterVars, NEW k \in calls
  PROVE  /\ k.id \in Places
         /\ invocations'[k.id].phase # "idle"
         /\ invocations'[k.id].input = InputOf(k.operation)
         /\ k.state # "open" =>
              /\ invocations'[k.id].phase = "answered"
              /\ invocations'[k.id].answer.ok = (k.state = "ok")
  <1>1. k.id \in Places /\ invocations[k.id].phase # "idle"
    BY DEF Tied
  <1>2. Adapter!KeptOn(k.id)
    BY <1>1, AdapterAssumptions, Adapter!CallsGoOn
       DEF Adapter!InputsAssumption, Adapter!RetriesAssumption,
           Adapter!NoAnswerAssumption, Adapter!StatusesAssumption
  <1> QED
    BY <1>1, <1>2 DEF Tied, Adapter!KeptOn

\* The executor asks the adapter for at most one operation.
LEMMA CallsTheAdapterStep ==
  ASSUME TypeOK, Adapter!AdapterInv, Tied, CallsTheAdapter,
         NEW c \in Correlations, NEW job \in Jobs, NEW b, GoesOn(c, job, b)
  PROVE  [Adapter!Next]_Adapter!adapterVars /\ Tied'
  <1>1. CASE calls' = calls
    BY <1>1 DEF CallsTheAdapter, Tied, Adapter!adapterVars
  <1>2. CASE calls' # calls
    <2>1. PICK call \in Call : MaySend(c, job, call) /\ calls' = calls \cup {call}
      BY <1>2 DEF GoesOn
    <2>2. /\ call.id \in Places /\ call.state = "open" /\ call.operation \in Operations
          /\ Http!Start(call.id, InputOf(call.operation))
      <3>1. call.id \in Places /\ call.state = "open"
        BY <2>1, PlaceOf DEF MaySend
      <3> QED
        BY <1>2, <2>1, <3>1 DEF CallsTheAdapter, Call
    <2> DEFINE i == call.id
               input == InputOf(call.operation)
    <2>3. Adapter!Next
      BY <2>2, StepOfAdapter
    <2>4. Adapter!Start(i, input)
      BY <2>2, SameStart
    <2>5. /\ invocations[i].phase = "idle"
          /\ invocations'[i].phase # "idle" /\ invocations'[i].input = input
          /\ \A j \in Places \ {i} : invocations'[j] = invocations[j]
      <3>1. /\ invocations \in [Places -> Adapter!Invocation]
            /\ \A v \in Adapter!Invocation : {"phase", "input"} \subseteq DOMAIN v
        BY DEF Adapter!AdapterInv, Adapter!Invocation
      <3> HIDE DEF i, input
      <3>2. invocations[i].phase = "idle" /\ i \in Places
        BY <2>2, <2>4 DEF Adapter!Start, i
      <3>3. \E w : /\ invocations' = [invocations EXCEPT ![i] = w]
                   /\ w.phase # "idle" /\ w.input = input
        <4>1. CASE Adapter!Unsent(input) # NoAnswer
          <5> DEFINE w == [invocations[i] EXCEPT !.phase = "answered", !.input = input,
                                                 !.answer = Adapter!Unsent(input)]
          <5>1. invocations' = [invocations EXCEPT ![i] = w]
            BY <2>4, <4>1 DEF Adapter!Start
          <5>2. w.phase = "answered" /\ w.input = input
            BY <3>1, <3>2
          <5> QED
            BY <5>1, <5>2
        <4>2. CASE ~ (Adapter!Unsent(input) # NoAnswer)
          <5> DEFINE w == [invocations[i] EXCEPT !.phase = "fetching", !.input = input,
                               !.attempt = 1,
                               !.request = Adapter!BuildRequest(input.operation)]
          <5>1. invocations' = [invocations EXCEPT ![i] = w]
            BY <2>4, <4>2 DEF Adapter!Start
          <5>2. w.phase = "fetching" /\ w.input = input
            BY <3>1, <3>2
          <5> QED
            BY <5>1, <5>2
        <4> QED
          BY <4>1, <4>2
      <3> QED
        BY <3>1, <3>2, <3>3
    <2>6. \A k \in calls : k.id # i
      BY <2>5 DEF Tied
    <2>7. Tied'
      <3>1. ASSUME NEW k \in calls'
            PROVE  /\ k.id \in Places
                   /\ invocations'[k.id].phase # "idle"
                   /\ invocations'[k.id].input = InputOf(k.operation)
                   /\ k.state # "open" =>
                        /\ invocations'[k.id].phase = "answered"
                        /\ invocations'[k.id].answer.ok = (k.state = "ok")
        BY <2>1, <2>2, <2>3, <2>5, TiesStay
      <3>2. ASSUME NEW j \in Places, invocations'[j].phase # "idle"
            PROVE  \E k \in calls' : k.id = j
        BY <2>1, <2>5, <3>2 DEF Tied
      <3> QED
        BY <3>1, <3>2 DEF Tied
    <2> QED
      BY <2>3, <2>7
  <1> QED
    BY <1>1, <1>2

LEMMA ExecuteSystem ==
  ASSUME SystemInv, NEW c \in Correlations, NEW job \in Jobs, SystemExecute(c, job)
  PROVE  StepOfBoth /\ Tied'
  <1>1. [Adapter!Next]_Adapter!adapterVars /\ Tied'
    BY ExecuteGoesOn, CallsTheAdapterStep DEF SystemExecute, SystemInv
  <1>2. Next
    BY DEF SystemExecute, Next
  <1> QED
    BY <1>1, <1>2 DEF StepOfBoth

LEMMA ResumeSystem ==
  ASSUME SystemInv, NEW c \in Correlations, SystemResume(c)
  PROVE  StepOfBoth /\ Tied'
  <1>1. runs[c].job \in Jobs
    BY DEF SystemResume, Resume, SystemInv, TypeOK, RunOK, Run
  <1>2. [Adapter!Next]_Adapter!adapterVars /\ Tied'
    BY <1>1, ResumeGoesOn, CallsTheAdapterStep DEF SystemResume, SystemInv
  <1>3. Next
    BY DEF SystemResume, Next
  <1> QED
    BY <1>2, <1>3 DEF StepOfBoth

LEMMA AnsweredSystem ==
  ASSUME SystemInv, NEW c \in Correlations, Answered(c)
  PROVE  StepOfBoth /\ Tied'
  <1> DEFINE i == CallId(c, runs[c])
             ok == invocations[i].answer.ok
  <1>1. /\ runs[c].phase = "calling" /\ invocations[i].phase = "answered"
        /\ AdapterReturns(c, ok) /\ UNCHANGED <<invocations, exchanges>>
    BY DEF Answered
  <1>2. i \in Places
    BY <1>1, AwaitedPlace DEF SystemInv
  <1>3. ok \in BOOLEAN
    <2>1. invocations[i].answer \in Adapter!Answers
      BY <1>1, <1>2, AdapterAssumptions, Adapter!AnswerOfCall
         DEF SystemInv, Adapter!InputsAssumption, Adapter!RetriesAssumption,
             Adapter!NoAnswerAssumption, Adapter!StatusesAssumption
    <2> QED
      BY <2>1 DEF Adapter!Answers
  <1>4. calls' = {IF k.id = i THEN [k EXCEPT !.state = IF ok THEN "ok" ELSE "failed"]
                  ELSE k : k \in calls}
    BY <1>1 DEF AdapterReturns
  <1>5. ok = invocations'[i].answer.ok /\ invocations' = invocations
    BY <1>1
  <1>6. Next
    <2> HIDE DEF ok
    <2> QED
      BY <1>1, <1>3 DEF Next
  <1> HIDE DEF i, ok
  <1>7. ASSUME NEW k \in calls
        PROVE  LET k2 == IF k.id = i
                         THEN [k EXCEPT !.state = IF ok THEN "ok" ELSE "failed"] ELSE k
               IN  /\ k2.id = k.id /\ k2.operation = k.operation
                   /\ IF k.id = i THEN k2.state = IF ok THEN "ok" ELSE "failed"
                      ELSE k2.state = k.state
    BY CallOfRun DEF SystemInv, Call
  <1>8. Tied'
    <2>1. ASSUME NEW k2 \in calls'
          PROVE  /\ k2.id \in Places
                 /\ invocations'[k2.id].phase # "idle"
                 /\ invocations'[k2.id].input = InputOf(k2.operation)
                 /\ k2.state # "open" =>
                      /\ invocations'[k2.id].phase = "answered"
                      /\ invocations'[k2.id].answer.ok = (k2.state = "ok")
      <3>1. PICK k \in calls :
               k2 = IF k.id = i
                    THEN [k EXCEPT !.state = IF ok THEN "ok" ELSE "failed"] ELSE k
        BY <1>4
      <3>2. /\ k2.id = k.id /\ k2.operation = k.operation
            /\ IF k.id = i THEN k2.state = IF ok THEN "ok" ELSE "failed"
               ELSE k2.state = k.state
        BY <1>7, <3>1
      <3> QED
        BY <1>1, <1>3, <1>5, <3>2 DEF SystemInv, Tied
    <2>2. ASSUME NEW j \in Places, invocations'[j].phase # "idle"
          PROVE  \E k2 \in calls' : k2.id = j
      <3>1. PICK k \in calls : k.id = j
        BY <1>5, <2>2 DEF SystemInv, Tied
      <3> QED
        BY <1>4, <1>7, <3>1
    <2> QED
      BY <2>1, <2>2 DEF Tied
  <1> QED
    BY <1>1, <1>6, <1>8 DEF StepOfBoth, Adapter!adapterVars

\* The adapter and Appwrite go on by themselves.
LEMMA HttpSystem ==
  ASSUME SystemInv,
         \/ Appwrite
         \/ \E c \in Correlations : AttemptGoesOn(c) \/ HeadersArrive(c)
  PROVE  StepOfBoth /\ Tied'
  <1>1. UNCHANGED vars /\ calls' = calls
    BY DEF Appwrite, AttemptGoesOn, HeadersArrive, vars
  <1>2. PICK i \in Places :
           \/ \E n \in DOMAIN exchanges[i], status \in Statuses, carried_out \in BOOLEAN :
                 Http!UpstreamActs(i, n, status, carried_out)
           \/ Http!HeadersArrive(i)
           \/ Http!BodyArrives(i)
           \/ \E error \in {"AbortError", "TypeError"} : Http!AttemptThrows(i, error)
           \/ Http!Wake(i)
    BY AwaitedPlace DEF SystemInv, Appwrite, AttemptGoesOn, HeadersArrive
  <1>3. Adapter!Next
    BY <1>2, StepOfAdapter
  <1>4. \A j \in Places : invocations[j].phase = "idle" => invocations'[j] = invocations[j]
    <2>1. CASE \E n, status, carried_out : Http!UpstreamActs(i, n, status, carried_out)
      BY <2>1 DEF Http!UpstreamActs
    <2>2. CASE \/ Http!HeadersArrive(i) \/ Http!BodyArrives(i)
               \/ \E error : Http!AttemptThrows(i, error)
               \/ Http!Wake(i)
      <3>1. /\ invocations[i].phase # "idle"
            /\ \E v : invocations' = [invocations EXCEPT ![i] = v]
        BY <2>2 DEF Http!HeadersArrive, Http!BodyArrives, Http!AttemptThrows, Http!Wake,
                    Http!RetryOrAnswer
      <3> QED
        BY <3>1 DEF SystemInv, Adapter!AdapterInv
    <2> QED
      BY <1>2, <2>1, <2>2
  <1>5. Tied'
    <2>1. \A k \in calls :
            /\ k.id \in Places
            /\ invocations'[k.id].phase # "idle"
            /\ invocations'[k.id].input = InputOf(k.operation)
            /\ k.state # "open" =>
                 /\ invocations'[k.id].phase = "answered"
                 /\ invocations'[k.id].answer.ok = (k.state = "ok")
      BY <1>3, TiesStay DEF SystemInv
    <2> QED
      BY <1>1, <1>4, <2>1 DEF SystemInv, Tied
  <1> QED
    BY <1>1, <1>3, <1>5 DEF StepOfBoth

LEMMA SystemStep ==
  ASSUME SystemInv, [SystemNext]_systemVars
  PROVE  StepOfBoth /\ SystemInv'
  <1>1. StepOfBoth /\ Tied'
    <2>1. CASE SystemRestart
      <3>1. Restart /\ UNCHANGED <<invocations, exchanges>> /\ calls' = calls
        BY <2>1 DEF SystemRestart, Restart
      <3> QED
        BY <3>1 DEF StepOfBoth, Next, SystemInv, Tied, Adapter!adapterVars
    <2>2. CASE UNCHANGED systemVars
      BY <2>2 DEF systemVars, vars, StepOfBoth, SystemInv, Tied, Adapter!adapterVars
    <2> QED
      BY <2>1, <2>2, ExecuteSystem, ResumeSystem, AnsweredSystem, HttpSystem DEF SystemNext
  <1>2. TypeOK'
    BY <1>1, StepType DEF StepOfBoth, SystemInv
  <1>3. Adapter!AdapterInv'
    BY <1>1, AdapterStays DEF StepOfBoth, SystemInv
  <1> QED
    BY <1>1, <1>2, <1>3 DEF SystemInv

LEMMA SystemInvariant == SystemSpec => []SystemInv
  <1>1. SystemInit => SystemInv
    <2> SUFFICES ASSUME SystemInit PROVE SystemInv
      OBVIOUS
    <2>1. TypeOK /\ calls = {}
      BY InitType DEF SystemInit, Init
    <2>2. Adapter!AdapterInv
      BY SameInit, AdapterAssumptions, Adapter!InitInv
         DEF SystemInit, Adapter!InputsAssumption, Adapter!RetriesAssumption,
             Adapter!NoAnswerAssumption, Adapter!StatusesAssumption
    <2>3. \A i \in Places : invocations[i].phase = "idle"
      BY DEF SystemInit, Http!Init, Http!IdleInvocation
    <2> QED
      BY <2>1, <2>2, <2>3 DEF SystemInv, Tied
  <1> QED
    BY <1>1, SystemStep, PTL DEF SystemSpec

\* On the adapter the executor does what its own specification allows.
THEOREM SystemExecutes == SystemSpec => Spec
  <1>1. SystemInit => Init
    BY DEF SystemInit
  <1>2. SystemInv /\ [SystemNext]_systemVars => [Next]_vars
    BY SystemStep DEF StepOfBoth
  <1> QED
    BY <1>1, <1>2, SystemInvariant, PTL DEF SystemSpec, Spec

\* Under the executor the adapter does what its own specification allows: it is started
\* for one operation of a run at a time, once for each, and keeps its contract.
THEOREM SystemAdapts == SystemSpec => Adapter!Spec
  <1>1. SystemInit => Adapter!Init
    BY SameInit DEF SystemInit
  <1>2. SystemInv /\ [SystemNext]_systemVars => [Adapter!Next]_Adapter!adapterVars
    BY SystemStep DEF StepOfBoth
  <1> QED
    BY <1>1, <1>2, SystemInvariant, PTL DEF SystemSpec, Adapter!Spec

\* So it keeps its contract there, and its final failures are what FinalFailureUntouched says.
COROLLARY ContractKeptInSystem ==
  SystemSpec => Adapter!ImplementsContract /\ []Adapter!FinalFailureUntouched
  BY SystemAdapts, AdapterAssumptions, Adapter!ContractKept, Adapter!FinalFailures, PTL
     DEF Adapter!InputsAssumption, Adapter!RetriesAssumption,
         Adapter!NoAnswerAssumption, Adapter!StatusesAssumption

-----------------------------------------------------------------------------
(* What the two together say *)

\* All that is known of the executor and of the system.
Known ==
    /\ SystemInv /\ CallsInv /\ ResultsInv /\ ReportsInv /\ SuccessIsReal

LEMMA KnownInvariant == SystemSpec => []Known
  BY SystemInvariant, SystemExecutes, CallsInvariant, ResultsInvariant, ReportsInvariant,
     EverySuccessIsReal, PTL DEF Known

LEMMA SameDoubt ==
  ASSUME NEW i
  PROVE  Http!EndedUnclear(i) <=> Adapter!EndedUnclear(i)
  BY Zenon DEF Http!EndedUnclear, Http!CurrentStatus, Http!Unclear, Http!Success2xx,
        Http!Refusal4xx, Adapter!EndedUnclear, Adapter!CurrentStatus, Adapter!Unclear,
        Adapter!Success2xx, Adapter!Refusal4xx

\* The answer to a call the executor has heard of, as AnswerOfCall has it.
LEMMA AnswerOf ==
  ASSUME Known, NEW k \in calls, k.state # "open"
  PROVE  LET answer == invocations[k.id].answer
             once == ~ Http!IsRead(k.operation) /\ k.operation.idempotency_key = NoKey
         IN  /\ answer.ok = (k.state = "ok")
             /\ answer.ok => CarriedOut(k.id) # {}
             /\ once /\ answer.ok =>
                  Len(exchanges[k.id]) = 1 /\ CarriedOut(k.id) = {1}
             /\ ~ answer.ok /\ ~ answer.retryable /\ ~ Http!EndedUnclear(k.id) =>
                  /\ \A n \in CarriedOut(k.id) : n < Len(exchanges[k.id])
                  /\ once => CarriedOut(k.id) = {}
  <1> DEFINE i == k.id
             v == invocations[i]
  <1>1. /\ i \in Places /\ v.phase = "answered" /\ v.input = InputOf(k.operation)
        /\ v.answer.ok = (k.state = "ok")
    BY DEF Known, SystemInv, Tied
  <1>2. /\ v.input.operation.action = k.operation.action
        /\ v.input.operation.keyed = (k.operation.idempotency_key # NoKey)
    BY <1>1 DEF InputOf
  <1>3. Http!IsRead(k.operation) <=> Adapter!IsRead(v.input.operation)
    BY <1>2 DEF Http!IsRead, Http!DatabaseReads, Http!AuthReads, Http!FunctionReads,
                Adapter!IsRead, Adapter!DatabaseReads, Adapter!AuthReads,
                Adapter!FunctionReads
  <1>4. ~ Http!IsRead(k.operation) /\ k.operation.idempotency_key = NoKey
          => Adapter!NotToRepeat(v.input.operation)
    BY <1>2, <1>3 DEF Adapter!NotToRepeat
  <1>5. CarriedOut(i) = Adapter!CarriedOut(i)
    BY DEF CarriedOut, Adapter!CarriedOut
  <1>6. LET answer == v.answer
            once == Adapter!NotToRepeat(v.input.operation)
        IN  /\ answer.ok => Adapter!CarriedOut(i) # {}
            /\ once /\ answer.ok =>
                 Len(exchanges[i]) = 1 /\ Adapter!CarriedOut(i) = {1}
            /\ ~ answer.ok /\ ~ answer.retryable /\ ~ Adapter!EndedUnclear(i) =>
                 /\ \A n \in Adapter!CarriedOut(i) : n < Len(exchanges[i])
                 /\ once => Adapter!CarriedOut(i) = {}
    BY <1>1, AdapterAssumptions, Adapter!AnswerOfCall
       DEF Known, SystemInv, Adapter!InputsAssumption, Adapter!RetriesAssumption,
           Adapter!NoAnswerAssumption, Adapter!StatusesAssumption
  <1> HIDE DEF v
  <1> QED
    BY <1>1, <1>4, <1>5, <1>6, SameDoubt DEF v

\* A SUCCESS in a reply, a replayed one included, stands for an operation that Appwrite
\* has carried out (SuccessWasCarriedOut), whatever it does and whenever, for any number
\* of retries, applies and restarts.
THEOREM ReportedWasCarriedOut == SystemSpec => []SuccessWasCarriedOut
  <1>1. Known => SuccessWasCarriedOut
    <2> SUFFICES ASSUME Known, NEW c \in Correlations, NEW s \in ReportedSuccess(c)
                 PROVE  s[3].call \in Places /\ CarriedOut(s[3].call) # {}
      BY DEF SuccessWasCarriedOut
    <2>1. PICK k \in calls : k.id = s[3].call /\ k.state = "ok"
      BY DEF Known, SuccessIsReal, ReportedSuccess
    <2>2. k.id \in Places
      BY DEF Known, SystemInv, Tied
    <2> QED
      BY <2>1, <2>2, AnswerOf
  <1> QED
    BY <1>1, KnownInvariant, PTL

\* The call a write was sent in.
LEMMA CallOfWrite ==
  ASSUME Known, NEW i \in Writes
  PROVE  \E k \in calls :
           /\ k.id = i /\ i = <<i[1], i[2], i[3]>> /\ i[1] \in Correlations
           /\ ~ Http!IsRead(k.operation)
           /\ k.operation = runs[i[1]].job.operations[i[3]]
           /\ invocations[i].input.operation.keyed = (k.operation.idempotency_key # NoKey)
  <1>1. PICK k \in calls : k.id = i /\ ~ Http!IsRead(k.operation)
    BY DEF Writes
  <1>2. k.id = <<k.id[1], k.id[2], k.id[3]>> /\ k.id[1] \in Correlations
    BY CallOfRun DEF Known, SystemInv, Call, CallIds
  <1>3. k.operation = runs[i[1]].job.operations[i[3]]
    BY <1>1 DEF Known, CallsInv, CallsFit
  <1>4. invocations[i].input.operation.keyed = (k.operation.idempotency_key # NoKey)
    <2>1. invocations[i].input = InputOf(k.operation)
      BY <1>1 DEF Known, SystemInv, Tied
    <2> QED
      BY <2>1 DEF InputOf
  <1> QED
    BY <1>1, <1>2, <1>3, <1>4

\* What was stored is settled.
LEMMA StoredSettled ==
  ASSUME NEW c, NEW t, NEW o, NEW r, Stored(runs[c], t, o, r)
  PROVE  <<t, o, r>> \in Settled(c)
  BY DEF Stored, Settled, OfFinishedTargets, OfCurrentTarget

\* Whatever Appwrite carried out is reported as a success, or as a failure: one that may be
\* tried again, one with an unclear status, or one of a keyed operation whose earlier
\* attempts did it; unless the run still waits for it or died waiting (EffectsAreReported).
THEOREM NoHiddenEffects == SystemSpec => []EffectsAreReported
  <1>1. Known => EffectsAreReported
    <2> SUFFICES ASSUME Known, NEW i \in Writes, CarriedOut(i) # {},
                        ~ (runs[i[1]].phase \in {"calling", "lost"}
                             /\ i = CallId(i[1], runs[i[1]]))
                 PROVE  \E s \in Settled(i[1]) :
                          /\ <<i[1], s[1], s[2]>> = i
                          /\ \/ s[3].status = "SUCCESS" /\ s[3].call = i
                             \/ /\ s[3].status = "FAILED" /\ s[3].code = "UPSTREAM"
                                /\ \/ invocations[i].answer.retryable
                                   \/ Http!EndedUnclear(i)
                                   \/ /\ invocations[i].input.operation.keyed
                                      /\ \A n \in CarriedOut(i) : n < Len(exchanges[i])
      BY DEF EffectsAreReported
    <2> DEFINE c == i[1]
               run == runs[c]
    <2>1. PICK k \in calls :
             /\ k.id = i /\ i = <<i[1], i[2], i[3]>> /\ i[1] \in Correlations
             /\ ~ Http!IsRead(k.operation)
             /\ k.operation = runs[i[1]].job.operations[i[3]]
             /\ invocations[i].input.operation.keyed
                  = (k.operation.idempotency_key # NoKey)
      BY CallOfWrite
    <2>2. Reported(k, run, c)
      BY <2>1 DEF Known, ReportsInv, ReportInv
    <2>3. k.state # "open" /\ <<i[2], i[3], Outcome(k)>> \in Settled(c)
      <3>1. CASE k.state # "open" /\ Stored(run, k.id[2], k.id[3], Outcome(k))
        BY <2>1, <3>1, StoredSettled
      <3>2. CASE /\ k.id = CallId(c, run) /\ k.state # "open"
                 /\ run.phase = "returned" /\ run.pending = Outcome(k)
        BY <2>1, <3>2 DEF Settled, ToResumeWith, CallId
      <3> QED
        BY <2>1, <2>2, <3>1, <3>2 DEF Reported
    <2>4. k.state \in {"ok", "failed"}
      BY <2>3, CallOfRun DEF Known, SystemInv, Call
    <2>5. CASE k.state = "ok"
      BY <2>1, <2>3, <2>5 DEF Outcome, Success
    <2>6. CASE k.state = "failed"
      <3>1. Outcome(k).status = "FAILED" /\ Outcome(k).code = "UPSTREAM"
        BY <2>6 DEF Outcome, Failure
      <3>2. \/ invocations[i].answer.retryable
            \/ Http!EndedUnclear(i)
            \/ /\ k.operation.idempotency_key # NoKey
               /\ \A n \in CarriedOut(i) : n < Len(exchanges[i])
        BY <2>1, <2>6, AnswerOf
      <3> QED
        BY <2>1, <2>3, <3>1, <3>2
    <2> QED
      BY <2>4, <2>5, <2>6
  <1> QED
    BY <1>1, KnownInvariant, PTL

\* Of an operation that was not keyed nothing is left to happen once its success is
\* reported (UnkeyedSuccessIsSettled).
THEOREM UnkeyedIsOver == SystemSpec => []UnkeyedSuccessIsSettled
  <1>1. Known => UnkeyedSuccessIsSettled
    <2> SUFFICES ASSUME Known, NEW c \in Correlations, NEW s \in ReportedSuccess(c),
                        runs[c].job.operations[s[2]].idempotency_key = NoKey,
                        <<c, s[1], s[2]>> \in Writes
                 PROVE  /\ Len(exchanges[<<c, s[1], s[2]>>]) = 1
                        /\ CarriedOut(<<c, s[1], s[2]>>) = {1}
      BY DEF UnkeyedSuccessIsSettled
    <2> DEFINE i == <<c, s[1], s[2]>>
    <2>1. PICK k \in calls : /\ k.id = i /\ k.state = "ok"
                             /\ k.operation = runs[c].job.operations[s[2]]
      BY DEF Known, SuccessIsReal, ReportedSuccess
    <2>2. ~ Http!IsRead(k.operation)
      <3>1. PICK k2 \in calls : /\ ~ Http!IsRead(k2.operation)
                                /\ k2.operation = runs[i[1]].job.operations[i[3]]
        BY CallOfWrite
      <3> QED
        BY <2>1, <3>1
    <2> QED
      BY <2>1, <2>2, AnswerOf
  <1> QED
    BY <1>1, KnownInvariant, PTL

\* The order of the run's work: a call not yet answered is the run's last.
LEMMA OpenIsLast ==
  ASSUME Known, NEW k \in calls, k.state = "open",
         NEW j \in Places, Before(k.id, j)
  PROVE  exchanges[j] = <<>>
  <1> DEFINE c == k.id[1]
             run == runs[c]
  <1>1. k.id = CallId(c, run) /\ c \in Correlations
    BY CallOfRun DEF Known, SystemInv, ReportsInv, ReportInv, Reported
  <1>2. TargetIndex(run) \in Nat /\ OperationIndex(run) \in Nat
    BY <1>1, LenProperties DEF Known, SystemInv, TypeOK, Run, TargetIndex, OperationIndex
  <1>3. ASSUME NEW k2 \in calls, k2.id = j PROVE FALSE
    <2>1. j[1] = c /\ Passed(k2, run, c)
      BY <1>1, <1>3 DEF Before, Known, ResultsInv, RunInv, PositionOK
    <2>2. j[2] \in Nat /\ j[3] \in Nat
      BY <1>3, CallOfRun DEF Known, SystemInv, Call, CallIds
    <2>3. k.id[2] = TargetIndex(run) /\ k.id[3] = OperationIndex(run)
      BY <1>1 DEF CallId
    <2>4. \/ j[2] < TargetIndex(run)
          \/ j[2] = TargetIndex(run) /\ j[3] <= OperationIndex(run)
      BY <1>1, <1>2, <1>3, <2>1, <2>2, <2>3 DEF Passed, Behind
    <2> QED
      BY <1>2, <2>2, <2>3, <2>4 DEF Before
  <1>4. invocations[j].phase = "idle"
    BY <1>3 DEF Known, SystemInv, Tied
  <1>5. Len(exchanges[j]) = 0 /\ exchanges[j] \in Seq(Adapter!Exchange)
    BY <1>4 DEF Known, SystemInv, Adapter!AdapterInv, Adapter!CallOK, Adapter!CallType,
                Adapter!SentOK
  <1> QED
    BY <1>5, EmptySeq

\* Appwrite does the work of a run in the order of the request, but for what the run was
\* told may be tried again and for what was keyed and sent more than once (EffectsInOrder).
THEOREM WorkInOrder == SystemSpec => EffectsInOrder
  <1> DEFINE Ordered ==
               \A i \in Writes : CarriedOut(i)' # CarriedOut(i) =>
                 \/ \A j \in Places : Before(i, j) => exchanges[j] = <<>>
                 \/ invocations[i].answer.retryable
                 \/ invocations[i].input.operation.keyed /\ Len(exchanges[i]) > 1
  <1>1. Known /\ [SystemNext]_systemVars => Ordered
    <2> SUFFICES ASSUME Known, [SystemNext]_systemVars,
                        NEW i \in Writes, CarriedOut(i)' # CarriedOut(i)
                 PROVE  \/ \A j \in Places : Before(i, j) => exchanges[j] = <<>>
                        \/ invocations[i].answer.retryable
                        \/ invocations[i].input.operation.keyed /\ Len(exchanges[i]) > 1
      OBVIOUS
    <2>1. PICK k \in calls : /\ k.id = i /\ ~ Http!IsRead(k.operation)
      BY CallOfWrite
    <2>2. CASE k.state = "open"
      BY <2>1, <2>2, OpenIsLast
    <2>3. CASE k.state # "open"
      <3>1. /\ i \in Places /\ invocations[i].phase = "answered"
            /\ invocations[i].input = InputOf(k.operation)
        BY <2>1, <2>3 DEF Known, SystemInv, Tied
      <3>2. ~ Adapter!IsRead(invocations[i].input.operation)
        BY <2>1, <3>1 DEF InputOf, Http!IsRead, Http!DatabaseReads, Http!AuthReads,
              Http!FunctionReads, Adapter!IsRead, Adapter!DatabaseReads,
              Adapter!AuthReads, Adapter!FunctionReads
      <3>3. Adapter!CarriedOut(i)' # Adapter!CarriedOut(i)
        BY DEF CarriedOut, Adapter!CarriedOut
      <3>4. Adapter!AdapterInv /\ [Adapter!Next]_Adapter!adapterVars
        BY SystemStep DEF Known, SystemInv, StepOfBoth
      <3>5. \E n \in DOMAIN exchanges[i] : exchanges[i][n].status = NoStatus
        BY <3>1, <3>3, <3>4, AdapterAssumptions, Adapter!EffectsOfStep
           DEF Adapter!InputsAssumption, Adapter!RetriesAssumption,
               Adapter!NoAnswerAssumption, Adapter!StatusesAssumption
      <3> QED
        BY <3>1, <3>2, <3>4, <3>5, AdapterAssumptions, Adapter!LeftOpen
           DEF Adapter!InputsAssumption, Adapter!RetriesAssumption,
               Adapter!NoAnswerAssumption, Adapter!StatusesAssumption
    <2> QED
      BY <2>2, <2>3
  <1>2. EffectsInOrder <=> [][Ordered]_systemVars
    BY DEF EffectsInOrder
  <1> HIDE DEF Ordered
  <1> QED
    BY <1>1, <1>2, KnownInvariant, PTL DEF SystemSpec
=============================================================================
