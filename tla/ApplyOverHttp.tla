---------------------------- MODULE ApplyOverHttp ----------------------------
(***************************************************************************)
(* The executor on the HTTP adapter: what an apply reports, next to what   *)
(* Appwrite does.  The executor's request of an operation is a call of the *)
(* adapter's executeOperation, begun in the same step; the adapter's       *)
(* promise resolves in one step and the executor that awaits it goes on in *)
(* another.                                                                *)
(*                                                                         *)
(* When the process dies, its calls of the adapter die with it.  Appwrite  *)
(* does not: it acts on whatever was sent, as late as it likes.            *)
(***************************************************************************)
EXTENDS MutationExecutor

CONSTANTS
    MaxRetries, RetryStatusCodes, Statuses,     \* of the adapter
    NoInput, NoRequest, NoStatus, NoAnswer

VARIABLES
    invocations,    \* the adapter's calls, one for each place of a run
    exchanges       \* their HTTP exchanges

systemVars == <<vars, invocations, exchanges>>

\* The places of a run: of its operations at its targets.
Places ==
    UNION {{<<c, t, o>> : c \in Correlations,
                          t \in DOMAIN job.targets, o \in DOMAIN job.operations} :
           job \in Jobs}

\* What the adapter is called with: the executor has refused contexts without endpoint
\* or key before, and an endpoint that is no URL is left to the adapter's own run.
InputOf(operation) ==
    [operation |-> [action |-> operation.action, params |-> operation.params,
                    keyed |-> operation.idempotency_key # NoKey],
     credentials |-> "usable"]

Http == INSTANCE HttpAppwriteAdapter WITH
            Invocations <- Places, Inputs <- {InputOf(operation) : operation \in Operations}

\* What the adapter assumes of its constants (HttpAppwriteAdapter), of these.
ASSUME HttpAssumption ==
    /\ \A operation \in Operations : operation.action \in OperationAction
    /\ \A operation \in Operations : InputOf(operation) # NoInput
    /\ MaxRetries \in Nat
    /\ NoAnswer \notin Http!Answers
    /\ Statuses \subseteq Nat /\ NoStatus \notin Statuses

-----------------------------------------------------------------------------
(* The steps *)

\* A step of the executor that asks the adapter for an operation is the beginning of
\* that call, up to its first fetch.
CallsTheAdapter ==
    IF calls' = calls THEN UNCHANGED <<invocations, exchanges>>
    ELSE \E k \in calls' \ calls : Http!Start(k.id, InputOf(k.operation))

SystemExecute(c, job) == Execute(c, job) /\ CallsTheAdapter

SystemResume(c) == Resume(c) /\ CallsTheAdapter

\* The executor gets the answer the adapter gave.
Answered(c) ==
    LET call == invocations[CallId(c, runs[c])]
    IN  /\ runs[c].phase = "calling"
        /\ call.phase = "answered"
        /\ AdapterReturns(c, call.answer.ok)
        /\ UNCHANGED <<invocations, exchanges>>

\* The call of the adapter that a run awaits goes on.
AttemptGoesOn(c) ==
    /\ runs[c].phase = "calling"
    /\ LET i == CallId(c, runs[c])
       IN  \/ Http!BodyArrives(i)
           \/ \E error \in {"AbortError", "TypeError"} : Http!AttemptThrows(i, error)
           \/ Http!Wake(i)
    /\ UNCHANGED vars

HeadersArrive(c) ==
    /\ runs[c].phase = "calling"
    /\ Http!HeadersArrive(CallId(c, runs[c]))
    /\ UNCHANGED vars

Appwrite ==
    /\ \E i \in Places : \E n \in DOMAIN exchanges[i], status \in Statuses,
          carried_out \in BOOLEAN : Http!UpstreamActs(i, n, status, carried_out)
    /\ UNCHANGED vars

SystemRestart == Restart /\ UNCHANGED <<invocations, exchanges>>

SystemInit == Init /\ Http!Init

SystemNext ==
    \/ \E c \in Correlations :
         \/ \E job \in Jobs : SystemExecute(c, job)
         \/ SystemResume(c)
         \/ Answered(c)
         \/ AttemptGoesOn(c)
         \/ HeadersArrive(c)
    \/ Appwrite
    \/ SystemRestart

SystemSpec == SystemInit /\ [][SystemNext]_systemVars

\* The event loop drains its microtasks; timers fire, and a body arrives or breaks off.
\* Nothing is assumed of Appwrite.
SystemFairness ==
    \A c \in Correlations :
        /\ WF_systemVars(SystemResume(c))
        /\ WF_systemVars(Answered(c))
        /\ WF_systemVars(AttemptGoesOn(c))

SystemFairSpec == SystemSpec /\ SystemFairness

-----------------------------------------------------------------------------
(* Properties *)

\* What a read does is of no consequence.
Writes == {i \in Places : \E k \in calls : k.id = i /\ ~ Http!IsRead(k.operation)}

CarriedOut(i) == {n \in DOMAIN exchanges[i] : exchanges[i][n].carried_out}

ReportedSuccess(c) == {s \in Settled(c) : s[3].status = "SUCCESS"}

\* A SUCCESS in a reply, a replayed one included, stands for an operation Appwrite has
\* carried out: not for one it was merely sent (executeOperation of executor and adapter,
\* the idempotency registry between them).
SuccessWasCarriedOut ==
    \A c \in Correlations : \A s \in ReportedSuccess(c) :
        /\ s[3].call \in Places
        /\ CarriedOut(s[3].call) # {}

\* What was carried out is not kept from the client: it is reported as a success, or as a
\* failure, or the run still waits for its answer or died waiting.  A failure that hides
\* it may be tried again, unless the last attempt was answered with a status that is
\* neither 2xx nor 4xx nor one to retry, or the operation was keyed and all that was carried
\* out are attempts before the refused one (execute(), logAndBuildFailure,
\* performHttpRequest).
EffectsAreReported ==
    \A i \in Writes : CarriedOut(i) # {} =>
        LET run == runs[i[1]]
            answer == invocations[i].answer
            keyed == invocations[i].input.operation.keyed
        IN  \/ run.phase \in {"calling", "lost"} /\ i = CallId(i[1], run)
            \/ \E s \in Settled(i[1]) :
                 /\ <<i[1], s[1], s[2]>> = i
                 /\ \/ s[3].status = "SUCCESS" /\ s[3].call = i
                    \/ /\ s[3].status = "FAILED" /\ s[3].code = "UPSTREAM"
                       /\ \/ answer.retryable
                          \/ Http!EndedUnclear(i)
                          \/ keyed /\ \A n \in CarriedOut(i) : n < Len(exchanges[i])

\* Work that was not keyed is over when its success is reported: nothing of it is left that
\* could still reach Appwrite after the operations of the run that come later (the await
\* of execute(), canRetryRequest).
UnkeyedSuccessIsSettled ==
    \A c \in Correlations : \A s \in ReportedSuccess(c) :
        LET i == <<c, s[1], s[2]>>
        IN  runs[c].job.operations[s[2]].idempotency_key = NoKey /\ i \in Writes =>
              Len(exchanges[i]) = 1 /\ CarriedOut(i) = {1}

Before(i, j) == i[1] = j[1] /\ (i[2] < j[2] \/ (i[2] = j[2] /\ i[3] < j[3]))

\* Appwrite does the work of a run in the order of the request: once a later operation
\* was sent, a write takes effect only if the run has been told that it failed and may
\* be tried again, or if it was keyed and sent more than once.
EffectsInOrder ==
    [][\A i \in Writes : CarriedOut(i)' # CarriedOut(i) =>
          \/ \A j \in Places : Before(i, j) => exchanges[j] = <<>>
          \/ invocations[i].answer.retryable
          \/ invocations[i].input.operation.keyed /\ Len(exchanges[i]) > 1]_systemVars

\* Over this adapter the executor is the one specified: its answers come from the adapter,
\* and that they come at all follows from timers and the bounded number of attempts.
ImplementsFairExecutor == FairSpec
=============================================================================
