------------------------- MODULE HttpAppwriteAdapter -------------------------
(***************************************************************************)
(* The adapter that carries one operation to Appwrite over HTTP, with a    *)
(* timeout and retries (src/adapters/http-appwrite-adapter.ts).            *)
(*                                                                         *)
(* A call of executeOperation is, at each await:                           *)
(*   "fetching"  in fetchWithTimeout, the abort timer running,             *)
(*   "reading"   in response.text(), the timer already cleared,            *)
(*   "sleeping"  in the delay before the next attempt,                     *)
(*   "answered"  its promise is resolved (it never rejects).               *)
(* Appwrite is external: it acts on an exchange at any time after it was   *)
(* begun, also when the adapter has given up on it.                        *)
(*                                                                         *)
(* Abstracted: a response is its status; delays and the jitter are left    *)
(* out, so timers fire in any order; error messages and data are left out. *)
(***************************************************************************)
EXTENDS Naturals, Sequences, FiniteSets, AppwriteRequests

CONSTANTS
    Invocations,        \* calls of executeOperation
    Inputs,             \* the operation and the credentials it is called with
    MaxRetries,         \* the maxRetries option
    RetryStatusCodes,   \* the retryStatusCodes option
    Statuses,           \* the statuses responses come with
    NoInput, NoRequest, NoStatus, NoAnswer

VARIABLES
    invocations,    \* the local state of each call
    exchanges       \* the HTTP exchanges of each call, one per attempt

adapterVars == <<invocations, exchanges>>

\* "incomplete" lacks the endpoint or the key, "malformed" has an endpoint that
\* is no base URL.
ASSUME InputsAssumption ==
    /\ \A input \in Inputs :
         /\ input.credentials \in {"usable", "incomplete", "malformed"}
         /\ input.operation.action \in OperationAction
         /\ input.operation.keyed \in BOOLEAN
    /\ NoInput \notin Inputs

ASSUME RetriesAssumption == MaxRetries \in Nat

Answers ==
    [ok : BOOLEAN,
     code : {"none", "AUTH_CONTEXT_REQUIRED", "VALIDATION_ERROR", "INTERNAL_ERROR"},
     retryable : BOOLEAN]

ASSUME NoAnswerAssumption == NoAnswer \notin Answers

Success2xx(status) == status \in 200..299

Refusal4xx(status) == status \in 400..499

ASSUME StatusesAssumption == Statuses \subseteq Nat /\ NoStatus \notin Statuses

-----------------------------------------------------------------------------
(* The adapter's decisions *)

Ok == [ok |-> TRUE, code |-> "none", retryable |-> FALSE]

Failed(code, retryable) == [ok |-> FALSE, code |-> code, retryable |-> retryable]

\* Mutant: every request is retried.
AlwaysRetry(request, operation) == TRUE

CanRetryRequest(request, operation) == request.method = "GET" \/ operation.keyed

MaxAttempts(invocation) ==
    IF CanRetryRequest(invocation.request, invocation.input.operation)
    THEN MaxRetries + 1 ELSE 1

CredentialsFail(input) == input.credentials = "incomplete"

\* The answer given before anything is sent, or NoAnswer.
Unsent(input) ==
    IF CredentialsFail(input) THEN Failed("AUTH_CONTEXT_REQUIRED", FALSE)
    ELSE IF ~ Buildable(input.operation) THEN Failed("VALIDATION_ERROR", FALSE)
    ELSE IF input.credentials = "malformed" THEN Failed("INTERNAL_ERROR", TRUE)
    ELSE NoAnswer

\* Mutant: a request that was aborted is reported as final.
NeverRetryable(error) == FALSE

\* An abort and any other error fetch or the body throws are both retryable.
IsRetryableError(error) == error \in {"AbortError", "TypeError"}

IdleInvocation ==
    [phase |-> "idle", input |-> NoInput, request |-> NoRequest, attempt |-> 0,
     answer |-> NoAnswer]

Exchange == [status : Statuses \cup {NoStatus}, carried_out : BOOLEAN]

NewExchange == [status |-> NoStatus, carried_out |-> FALSE]

\* Whether the request was carried out, by the status Appwrite answers it with.
CarriedOutBy(status) ==
    CASE Success2xx(status) -> {TRUE}
      [] Refusal4xx(status) -> {FALSE}
      [] ~ (Success2xx(status) \/ Refusal4xx(status)) -> BOOLEAN

-----------------------------------------------------------------------------
(* Actions *)

\* executeOperation up to its first await: refuse, or build the request and send it.
Start(i, input) ==
    /\ invocations[i].phase = "idle"
    /\ IF Unsent(input) # NoAnswer
       THEN /\ invocations' = [invocations EXCEPT ![i] =
                   [@ EXCEPT !.phase = "answered", !.input = input,
                             !.answer = Unsent(input)]]
            /\ UNCHANGED exchanges
       ELSE /\ invocations' = [invocations EXCEPT ![i] =
                   [@ EXCEPT !.phase = "fetching", !.input = input, !.attempt = 1,
                             !.request = BuildRequest(input.operation)]]
            /\ exchanges' = [exchanges EXCEPT ![i] = <<NewExchange>>]

\* External: Appwrite acts on an exchange it has not acted on.
UpstreamActs(i, n, status, carried_out) ==
    /\ n \in DOMAIN exchanges[i]
    /\ exchanges[i][n].status = NoStatus
    /\ carried_out \in CarriedOutBy(status)
    /\ exchanges' = [exchanges EXCEPT
                        ![i][n] = [status |-> status, carried_out |-> carried_out]]
    /\ UNCHANGED invocations

CurrentStatus(i) == exchanges[i][invocations[i].attempt].status

\* fetch resolves and the abort timer is cleared; the body is still to come.
HeadersArrive(i) ==
    /\ invocations[i].phase = "fetching"
    /\ CurrentStatus(i) # NoStatus
    /\ invocations' = [invocations EXCEPT ![i].phase = "reading"]
    /\ UNCHANGED exchanges

\* Mutant: an operation that is neither a read nor keyed is given a second chance.
RetryOnceMore(i, answer, retryable) ==
    /\ invocations' = [invocations EXCEPT ![i] =
           IF retryable /\ @.attempt <= MaxAttempts(@)
           THEN [@ EXCEPT !.phase = "sleeping"]
           ELSE [@ EXCEPT !.phase = "answered", !.answer = answer]]
    /\ UNCHANGED exchanges

\* The end of an attempt that failed: sleep and try again, or answer.
RetryOrAnswer(i, answer, retryable) ==
    /\ invocations' = [invocations EXCEPT ![i] =
           IF retryable /\ @.attempt < MaxAttempts(@)
           THEN [@ EXCEPT !.phase = "sleeping"]
           ELSE [@ EXCEPT !.phase = "answered", !.answer = answer]]
    /\ UNCHANGED exchanges

\* Mutant: fetch did not throw, so it worked.
BodyArrivesUnchecked(i) ==
    /\ invocations[i].phase = "reading"
    /\ RetryOrAnswer(i, Ok, FALSE)

\* The body is there: a success whatever it holds, else what the status calls for.
BodyArrives(i) ==
    LET retryable == CurrentStatus(i) \in RetryStatusCodes
    IN  /\ invocations[i].phase = "reading"
        /\ IF Success2xx(CurrentStatus(i))
           THEN RetryOrAnswer(i, Ok, FALSE)
           ELSE RetryOrAnswer(i, Failed("INTERNAL_ERROR", retryable), retryable)

\* The abort timer fires (only while fetch is pending), the connection fails, or the
\* body of a response breaks off, a successful one included.
AttemptThrows(i, error) ==
    /\ \/ invocations[i].phase = "fetching" /\ error \in {"AbortError", "TypeError"}
       \/ invocations[i].phase = "reading" /\ error = "TypeError"
    /\ RetryOrAnswer(i, Failed("INTERNAL_ERROR", IsRetryableError(error)),
                     IsRetryableError(error))

\* Mutant: the attempt is not counted.
WakeUncounted(i) ==
    /\ invocations[i].phase = "sleeping"
    /\ invocations' = [invocations EXCEPT ![i].phase = "fetching"]
    /\ exchanges' = [exchanges EXCEPT ![i] = [@ EXCEPT ![Len(@)] = NewExchange]]

\* The delay is over: the next attempt sends the same request.
Wake(i) ==
    /\ invocations[i].phase = "sleeping"
    /\ invocations' = [invocations EXCEPT ![i] =
           [@ EXCEPT !.phase = "fetching", !.attempt = invocations[i].attempt + 1]]
    /\ exchanges' = [exchanges EXCEPT ![i] = Append(@, NewExchange)]

Init ==
    /\ invocations = [i \in Invocations |-> IdleInvocation]
    /\ exchanges = [i \in Invocations |-> <<>>]

Next ==
    \E i \in Invocations :
        \/ \E input \in Inputs : Start(i, input)
        \/ \E n \in DOMAIN exchanges[i], status \in Statuses, carried_out \in BOOLEAN :
              UpstreamActs(i, n, status, carried_out)
        \/ HeadersArrive(i)
        \/ BodyArrives(i)
        \/ \E error \in {"AbortError", "TypeError"} : AttemptThrows(i, error)
        \/ Wake(i)

Spec == Init /\ [][Next]_adapterVars

\* The timers fire and the event loop runs, so an attempt that awaits headers ends; a
\* body, which no timer of the adapter covers, is taken to arrive or to break off.
Fairness ==
    \A i \in Invocations :
        /\ WF_adapterVars(AttemptThrows(i, "AbortError"))
        /\ WF_adapterVars(BodyArrives(i) \/ AttemptThrows(i, "TypeError"))
        /\ WF_adapterVars(Wake(i))

FairSpec == Spec /\ Fairness

-----------------------------------------------------------------------------
(* Properties *)

Invocation ==
    [phase : {"idle", "fetching", "reading", "sleeping", "answered"},
     input : Inputs \cup {NoInput},
     request : {BuildRequest(input.operation) :
                   input \in {j \in Inputs : Buildable(j.operation)}} \cup {NoRequest},
     attempt : 0..MaxRetries + 1,
     answer : Answers \cup {NoAnswer}]

\* The state has its type, and a call has as many exchanges as it made attempts
\* (the loop of performHttpRequest).
TypeOK ==
    /\ invocations \in [Invocations -> Invocation]
    /\ exchanges \in [Invocations -> Seq(Exchange)]
    /\ \A i \in Invocations : Len(exchanges[i]) = invocations[i].attempt

\* What the README of the repository lists as read-only.
IsRead(operation) ==
    operation.action \in DatabaseReads \cup AuthReads \cup FunctionReads
                         \cup {"function.execution.status"}

CarriedOut(i) == {n \in DOMAIN exchanges[i] : exchanges[i][n].carried_out}

\* A status that does not tell whether the work was done, and is not retried either: the
\* list of statuses to retry is the operator's (parseRetryStatusCodes), and the default
\* one lacks 501 and 505, for instance.
Unclear(status) ==
    /\ status # NoStatus
    /\ ~ Success2xx(status) /\ ~ Refusal4xx(status)
    /\ status \notin RetryStatusCodes

EndedUnclear(i) == invocations[i].attempt > 0 /\ Unclear(CurrentStatus(i))

\* A failure with retryable = false, on which the runbook lets a client give up, leaves
\* nothing behind in Appwrite, now or later, unless an earlier attempt of the same call
\* was lost on its way back, or the last one was answered with an unclear status: neither
\* 2xx nor 4xx nor one to retry (performHttpRequest, isRetryableError).
FinalFailureUntouched ==
    \A i \in Invocations :
        LET answer == invocations[i].answer
        IN  answer # NoAnswer /\ ~ answer.ok /\ ~ answer.retryable /\ ~ EndedUnclear(i)
              => \A n \in CarriedOut(i) : n < invocations[i].attempt

\* What an answer promises: a failure is a refusal if it is final and not an unclear one.
AnswerName(answer, unclear) ==
    IF answer = NoAnswer THEN "open"
    ELSE IF answer.ok THEN "ok"
    ELSE IF answer.retryable \/ unclear THEN "failed"
    ELSE "refused"

NotToRepeat(operation) == ~ IsRead(operation) /\ ~ operation.keyed

Contract == INSTANCE AdapterContract WITH
    Operations <- {input.operation : input \in Inputs},
    Once <- NotToRepeat,
    MaxTimes <- MaxRetries + 1,
    NoOperation <- NoInput,
    asked <- [i \in Invocations |->
                 IF invocations[i].input = NoInput THEN NoInput
                 ELSE invocations[i].input.operation],
    answers <- [i \in Invocations |->
                   IF invocations[i].phase = "idle" THEN "none"
                   ELSE AnswerName(invocations[i].answer, EndedUnclear(i))],
    times <- [i \in Invocations |-> Cardinality(CarriedOut(i))]

\* The adapter keeps the contract the executor relies on, with the retry decided by HTTP
\* method and key and the promise stated by what the operation means; a failure counts as
\* a refusal only if nothing was sent or Appwrite's last word was a 4xx (canRetryRequest,
\* buildRequest, performHttpRequest).
ImplementsContract == Contract!ContractSpec

\* Every call that started is answered, whatever Appwrite does (fetchWithTimeout, the
\* bounded loop of performHttpRequest).
EveryCallAnswers ==
    \A i \in Invocations :
        invocations[i].phase # "idle" ~> invocations[i].phase = "answered"
=============================================================================
