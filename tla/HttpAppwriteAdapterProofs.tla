---------------------- MODULE HttpAppwriteAdapterProofs ----------------------
(***************************************************************************)
(* Proofs about HttpAppwriteAdapter, for every set of calls, any number of *)
(* retries, any statuses and any list of those to retry.                   *)
(***************************************************************************)
EXTENDS HttpAppwriteAdapter, SequenceTheorems, FiniteSetTheorems,
        WellFoundedInduction, TLAPS

-----------------------------------------------------------------------------
(* The invariant, one call at a time *)

\* A call and its exchanges have their types, and an exchange was made per attempt.
CallType(v, x) ==
    /\ v \in Invocation
    /\ x \in Seq(Exchange)
    /\ Len(x) = v.attempt

\* What Appwrite did, as far as its status tells.
ExchangeOK(e) ==
    IF e.status = NoStatus THEN e.carried_out = FALSE
    ELSE e.carried_out \in CarriedOutBy(e.status)

\* A call that was sent is for its own request, and no more often than it may be.
SentOK(v) ==
    /\ v.phase = "idle" <=> v.input = NoInput
    /\ v.phase = "idle" => v.attempt = 0
    /\ v.attempt > 0 =>
         /\ Buildable(v.input.operation)
         /\ v.request = BuildRequest(v.input.operation)
         /\ v.attempt <= MaxAttempts(v)
    /\ v.phase \in {"fetching", "reading", "sleeping"} => v.attempt > 0
    /\ v.phase = "sleeping" => v.attempt < MaxAttempts(v)
    /\ v.phase = "answered" <=> v.answer # NoAnswer

\* The last exchange of a call that failed for good.
TellsFinal(e) == e.status # NoStatus /\ (Unclear(e.status) \/ ~ e.carried_out)

\* What a call has heard, and what it says of it, is what Appwrite did in its last attempt,
\* as far as its status tells.
HeardOK(v, x) ==
    /\ v.phase = "reading" => x[v.attempt].status # NoStatus
    /\ v.phase = "answered" /\ v.answer.ok => v.attempt > 0 /\ x[v.attempt].carried_out
    /\ v.phase = "answered" /\ ~ v.answer.ok /\ ~ v.answer.retryable =>
         (v.attempt > 0 => TellsFinal(x[v.attempt]))

CallOK(v, x) ==
    /\ CallType(v, x)
    /\ \A n \in DOMAIN x : ExchangeOK(x[n])
    /\ SentOK(v)
    /\ HeardOK(v, x)

AdapterInv ==
    /\ invocations \in [Invocations -> Invocation]
    /\ exchanges \in [Invocations -> Seq(Exchange)]
    /\ \A i \in Invocations : CallOK(invocations[i], exchanges[i])

LEMMA InvType == AdapterInv => TypeOK
  BY DEF AdapterInv, TypeOK, CallOK, CallType

\* A step of one call leaves the others as they are.
LEMMA OneCall ==
  ASSUME AdapterInv, NEW i \in Invocations, NEW v, NEW x, CallOK(v, x),
         invocations' = [invocations EXCEPT ![i] = v],
         exchanges' = [exchanges EXCEPT ![i] = x]
  PROVE  AdapterInv'
  <1>1. /\ invocations' \in [Invocations -> Invocation]
        /\ exchanges' \in [Invocations -> Seq(Exchange)]
    BY DEF AdapterInv, CallOK, CallType
  <1>2. ASSUME NEW j \in Invocations
        PROVE  CallOK(invocations[j], exchanges[j])'
    <2>1. CASE j = i
      <3>1. invocations'[j] = v /\ exchanges'[j] = x
        BY <2>1 DEF AdapterInv
      <3> QED
        BY <3>1 DEF CallOK, CallType, SentOK, HeardOK, ExchangeOK, MaxAttempts
    <2>2. CASE j # i
      <3>1. invocations'[j] = invocations[j] /\ exchanges'[j] = exchanges[j]
        BY <2>2 DEF AdapterInv
      <3> QED
        BY <3>1 DEF AdapterInv, CallOK, CallType, SentOK, HeardOK, ExchangeOK, MaxAttempts
    <2> QED
      BY <2>1, <2>2
  <1> QED
    BY <1>1, <1>2 DEF AdapterInv

-----------------------------------------------------------------------------
(* What the steps need to know of requests, answers and attempts *)

LEMMA AnswerTypes ==
  /\ Ok \in Answers /\ Ok.ok /\ Ok # NoAnswer
  /\ \A code \in {"AUTH_CONTEXT_REQUIRED", "VALIDATION_ERROR", "INTERNAL_ERROR"},
        retryable \in BOOLEAN :
       /\ Failed(code, retryable) \in Answers
       /\ Failed(code, retryable) # NoAnswer
       /\ ~ Failed(code, retryable).ok
       /\ Failed(code, retryable).retryable = retryable
  <1>1. /\ Ok \in Answers /\ Ok.ok
        /\ \A code \in {"AUTH_CONTEXT_REQUIRED", "VALIDATION_ERROR", "INTERNAL_ERROR"},
              retryable \in BOOLEAN : Failed(code, retryable) \in Answers
    BY DEF Ok, Failed, Answers
  <1>2. \A code, retryable :
          Failed(code, retryable).ok = FALSE /\ Failed(code, retryable).retryable = retryable
    BY DEF Failed
  <1> QED
    BY <1>1, <1>2, NoAnswerAssumption

LEMMA AttemptsType ==
  ASSUME NEW v
  PROVE  MaxAttempts(v) \in 1..MaxRetries + 1
  BY RetriesAssumption DEF MaxAttempts

\* The number of attempts is of the request and the operation.
LEMMA AttemptsSame ==
  ASSUME NEW v, NEW w, v.request = w.request, v.input = w.input
  PROVE  MaxAttempts(v) = MaxAttempts(w)
  BY DEF MaxAttempts

LEMMA CarriedOutByType ==
  ASSUME NEW status
  PROVE  /\ CarriedOutBy(status) \subseteq BOOLEAN
         /\ Success2xx(status) => CarriedOutBy(status) = {TRUE}
         /\ Refusal4xx(status) => CarriedOutBy(status) = {FALSE}
  <1>1. ~ (Success2xx(status) /\ Refusal4xx(status))
    BY DEF Success2xx, Refusal4xx
  <1> QED
    BY <1>1, Zenon DEF CarriedOutBy

\* What is not sent is answered, never with a success; what is sent was built.
LEMMA UnsentType ==
  ASSUME NEW input, Unsent(input) # NoAnswer
  PROVE  Unsent(input) \in Answers /\ ~ Unsent(input).ok
  BY AnswerTypes DEF Unsent

LEMMA SentType ==
  ASSUME NEW input, Unsent(input) = NoAnswer
  PROVE  Buildable(input.operation)
  BY AnswerTypes DEF Unsent

-----------------------------------------------------------------------------
(* The steps *)

LEMMA InitInv == Init => AdapterInv
  <1> SUFFICES ASSUME Init PROVE AdapterInv
    OBVIOUS
  <1>1. IdleInvocation \in Invocation
    BY RetriesAssumption DEF IdleInvocation, Invocation
  <1>2. <<>> \in Seq(Exchange) /\ Len(<<>>) = 0 /\ DOMAIN <<>> = {}
    OBVIOUS
  <1>3. CallOK(IdleInvocation, <<>>)
    BY <1>1, <1>2 DEF CallOK, CallType, SentOK, HeardOK, IdleInvocation
  <1> QED
    BY <1>1, <1>2, <1>3 DEF Init, AdapterInv

LEMMA StartInv ==
  ASSUME AdapterInv, NEW i \in Invocations, NEW input \in Inputs, Start(i, input)
  PROVE  AdapterInv'
  <1> DEFINE v == invocations[i]
  <1>1. /\ v \in Invocation /\ v.phase = "idle" /\ v.attempt = 0
        /\ exchanges[i] \in Seq(Exchange) /\ Len(exchanges[i]) = 0
        /\ CallOK(v, exchanges[i])
    BY DEF Start, AdapterInv, CallOK, CallType, SentOK
  <1>2. input # NoInput
    BY InputsAssumption
  <1>3. CASE Unsent(input) # NoAnswer
    <2> DEFINE w == [v EXCEPT !.phase = "answered", !.input = input,
                              !.answer = Unsent(input)]
    <2>1. Unsent(input) \in Answers /\ ~ Unsent(input).ok
      BY <1>3, UnsentType
    <2>2. w \in Invocation
      BY <1>1, <2>1 DEF Invocation
    <2>3. w.phase = "answered" /\ w.attempt = 0 /\ w.input = input /\ w.answer = Unsent(input)
      BY <1>1 DEF Invocation
    <2>4. SentOK(w)
      BY <2>3, <1>2, <1>3 DEF SentOK
    <2>5. HeardOK(w, exchanges[i])
      BY <2>3, <2>1 DEF HeardOK
    <2>6. CallOK(w, exchanges[i])
      BY <2>2, <2>3, <2>4, <2>5, <1>1 DEF CallOK, CallType
    <2>7. /\ exchanges' = [exchanges EXCEPT ![i] = exchanges[i]]
          /\ invocations' = [invocations EXCEPT ![i] = w]
      BY <1>3 DEF Start, AdapterInv
    <2> QED
      BY <2>6, <2>7, OneCall
  <1>4. CASE Unsent(input) = NoAnswer
    <2> DEFINE w == [v EXCEPT !.phase = "fetching", !.input = input, !.attempt = 1,
                              !.request = BuildRequest(input.operation)]
               x == <<NewExchange>>
    <2>1. Buildable(input.operation)
      BY <1>4, SentType
    <2> DEFINE buildable == {k \in Inputs : Buildable(k.operation)}
               requests == {BuildRequest(j.operation) : j \in buildable}
    <2>9. BuildRequest(input.operation) \in requests
      BY <2>1
    <2>10. 1 \in 0..MaxRetries + 1
      BY RetriesAssumption
    <2>2. w \in Invocation
      <3> HIDE DEF requests
      <3>1. Invocation = [phase : {"idle", "fetching", "reading", "sleeping", "answered"},
                          input : Inputs \cup {NoInput}, request : requests \cup {NoRequest},
                          attempt : 0..MaxRetries + 1, answer : Answers \cup {NoAnswer}]
        BY DEF Invocation, requests
      <3> QED
        BY <1>1, <2>9, <2>10, <3>1
    <2>3. /\ w.phase = "fetching" /\ w.attempt = 1 /\ w.input = input
          /\ w.request = BuildRequest(input.operation) /\ w.answer = v.answer
      BY <1>1 DEF Invocation
    <2>4. v.answer = NoAnswer
      BY <1>1 DEF CallOK, SentOK
    <2>5. SentOK(w)
      BY <2>1, <2>3, <2>4, <1>2, AttemptsType DEF SentOK
    <2>6. /\ x \in Seq(Exchange) /\ Len(x) = 1
          /\ \A n \in DOMAIN x : ExchangeOK(x[n])
      BY DEF NewExchange, Exchange, ExchangeOK
    <2>7. CallOK(w, x)
      BY <2>2, <2>3, <2>5, <2>6 DEF CallOK, CallType, HeardOK
    <2>8. /\ invocations' = [invocations EXCEPT ![i] = w]
          /\ exchanges' = [exchanges EXCEPT ![i] = x]
      BY <1>4 DEF Start
    <2> QED
      BY <2>7, <2>8, OneCall
  <1> QED
    BY <1>3, <1>4

LEMMA UpstreamActsInv ==
  ASSUME AdapterInv, NEW i \in Invocations, NEW n,
         NEW status \in Statuses, NEW carried_out \in BOOLEAN,
         UpstreamActs(i, n, status, carried_out)
  PROVE  AdapterInv'
  <1> DEFINE v == invocations[i]
             e == [status |-> status, carried_out |-> carried_out]
             x == [exchanges[i] EXCEPT ![n] = e]
  <1>1. CallOK(v, exchanges[i]) /\ n \in DOMAIN exchanges[i]
    BY DEF AdapterInv, UpstreamActs
  <1>2. /\ exchanges[i] \in Seq(Exchange) /\ e \in Exchange
        /\ DOMAIN exchanges[i] = 1..Len(exchanges[i])
    BY <1>1 DEF CallOK, CallType, Exchange
  <1>3. /\ x \in Seq(Exchange) /\ Len(x) = Len(exchanges[i])
        /\ DOMAIN x = DOMAIN exchanges[i]
        /\ \A m \in DOMAIN x : m # n => x[m] = exchanges[i][m]
        /\ x[n] = e
    BY <1>1, <1>2
  <1>4. e.status # NoStatus /\ ExchangeOK(e)
    BY StatusesAssumption DEF ExchangeOK, UpstreamActs
  <1>5. \A m \in DOMAIN x : ExchangeOK(x[m])
    BY <1>1, <1>3, <1>4 DEF CallOK
  <1>6. exchanges[i][n].status = NoStatus /\ exchanges[i][n].carried_out = FALSE
    BY <1>1 DEF UpstreamActs, CallOK, ExchangeOK
  <1>7. v.attempt > 0 => v.attempt \in DOMAIN x
    BY <1>1, <1>3, <1>2, RetriesAssumption DEF CallOK, CallType, Invocation
  <1>8. HeardOK(v, x)
    BY <1>1, <1>3, <1>4, <1>6, <1>7 DEF CallOK, HeardOK, TellsFinal, SentOK
  <1>9. CallOK(v, x)
    BY <1>1, <1>3, <1>5, <1>8 DEF CallOK, CallType
  <1>10. /\ invocations' = [invocations EXCEPT ![i] = v]
         /\ exchanges' = [exchanges EXCEPT ![i] = x]
    BY DEF UpstreamActs, AdapterInv
  <1> QED
    BY <1>9, <1>10, OneCall

LEMMA HeadersArriveInv ==
  ASSUME AdapterInv, NEW i \in Invocations, HeadersArrive(i)
  PROVE  AdapterInv'
  <1> DEFINE v == invocations[i]
             w == [v EXCEPT !.phase = "reading"]
  <1>1. CallOK(v, exchanges[i]) /\ v \in Invocation
    BY DEF AdapterInv
  <1>2. /\ v.phase = "fetching" /\ exchanges[i][v.attempt].status # NoStatus
        /\ invocations' = [invocations EXCEPT ![i] = w]
        /\ exchanges' = [exchanges EXCEPT ![i] = exchanges[i]]
    BY DEF HeadersArrive, CurrentStatus, AdapterInv
  <1>3. /\ w \in Invocation /\ w.phase = "reading" /\ w.attempt = v.attempt
        /\ w.input = v.input /\ w.request = v.request /\ w.answer = v.answer
    BY <1>1 DEF Invocation
  <1>4. MaxAttempts(w) = MaxAttempts(v)
    BY <1>3, AttemptsSame
  <1>5. CallOK(w, exchanges[i])
    BY <1>1, <1>2, <1>3, <1>4 DEF CallOK, CallType, SentOK, HeardOK
  <1> QED
    BY <1>2, <1>5, OneCall

\* An answer that says no more of the last attempt than Appwrite did.
TellsTheAttempt(i, answer) ==
    LET e == exchanges[i][invocations[i].attempt]
    IN  /\ answer.ok => e.carried_out
        /\ ~ answer.ok /\ ~ answer.retryable => TellsFinal(e)

\* An attempt ends in a retry or in such an answer.
EndsAttempt(i, answer, retryable) ==
    /\ invocations[i].phase \in {"fetching", "reading"}
    /\ RetryOrAnswer(i, answer, retryable)
    /\ TellsTheAttempt(i, answer)

LEMMA EndsAttemptInv ==
  ASSUME AdapterInv, NEW i \in Invocations, NEW answer \in Answers, NEW retryable,
         EndsAttempt(i, answer, retryable)
  PROVE  AdapterInv'
  <1> DEFINE v == invocations[i]
             w == IF retryable /\ v.attempt < MaxAttempts(v)
                  THEN [v EXCEPT !.phase = "sleeping"]
                  ELSE [v EXCEPT !.phase = "answered", !.answer = answer]
  <1>1. CallOK(v, exchanges[i]) /\ v \in Invocation
    BY DEF AdapterInv
  <1>2. /\ invocations' = [invocations EXCEPT ![i] = w]
        /\ exchanges' = [exchanges EXCEPT ![i] = exchanges[i]]
        /\ v.phase \in {"fetching", "reading"}
    BY DEF EndsAttempt, RetryOrAnswer, AdapterInv
  <1>3. /\ w \in Invocation /\ w.attempt = v.attempt
        /\ w.input = v.input /\ w.request = v.request
    BY <1>1 DEF Invocation
  <1>4. MaxAttempts(w) = MaxAttempts(v)
    BY <1>3, AttemptsSame
  <1>5. answer # NoAnswer
    BY NoAnswerAssumption
  <1>6. CASE retryable /\ v.attempt < MaxAttempts(v)
    <2>1. w.phase = "sleeping" /\ w.answer = v.answer
      BY <1>6, <1>1 DEF Invocation
    <2>2. CallOK(w, exchanges[i])
      BY <1>1, <1>2, <1>3, <1>4, <1>6, <2>1 DEF CallOK, CallType, SentOK, HeardOK
    <2> QED
      BY <1>2, <2>2, OneCall
  <1>7. CASE ~ (retryable /\ v.attempt < MaxAttempts(v))
    <2>1. w.phase = "answered" /\ w.answer = answer
      BY <1>7, <1>1 DEF Invocation
    <2>2. SentOK(w)
      BY <1>1, <1>2, <1>3, <1>4, <1>5, <2>1 DEF CallOK, SentOK
    <2>3. HeardOK(w, exchanges[i])
      BY <1>1, <1>2, <1>3, <2>1 DEF CallOK, SentOK, HeardOK, EndsAttempt, TellsTheAttempt
    <2>4. CallOK(w, exchanges[i])
      BY <1>1, <1>3, <2>2, <2>3 DEF CallOK, CallType
    <2> QED
      BY <1>2, <2>4, OneCall
  <1> QED
    BY <1>6, <1>7

LEMMA BodyEndsAttempt ==
  ASSUME AdapterInv, NEW i \in Invocations, BodyArrives(i)
  PROVE  \E answer \in Answers, retryable \in BOOLEAN : EndsAttempt(i, answer, retryable)
  <1> DEFINE v == invocations[i]
             e == exchanges[i][v.attempt]
             retryable == e.status \in RetryStatusCodes
  <1>1. CallOK(v, exchanges[i]) /\ v \in Invocation /\ v.phase = "reading"
    BY DEF AdapterInv, BodyArrives
  <1>2. v.attempt \in DOMAIN exchanges[i] /\ exchanges[i] \in Seq(Exchange)
    BY <1>1, RetriesAssumption DEF CallOK, CallType, SentOK, Invocation
  <1>3. e.status \in Statuses /\ e.carried_out \in CarriedOutBy(e.status)
    <2>1. e \in Exchange
      BY <1>2
    <2>2. e.status # NoStatus
      BY <1>1 DEF CallOK, HeardOK
    <2>3. ExchangeOK(e)
      BY <1>1, <1>2 DEF CallOK
    <2> QED
      BY <2>1, <2>2, <2>3 DEF Exchange, ExchangeOK
  <1>4. CASE Success2xx(e.status)
    <2>1. e.carried_out \in {TRUE}
      BY <1>3, <1>4, CarriedOutByType, Zenon
    <2> DEFINE never == FALSE
    <2>2. RetryOrAnswer(i, Ok, never)
      BY <1>4 DEF BodyArrives, CurrentStatus
    <2>5. never \in BOOLEAN
      OBVIOUS
    <2> HIDE DEF never
    <2>3. exchanges[i][invocations[i].attempt].carried_out
      BY <2>1
    <2>4. Ok \in Answers /\ Ok.ok
      BY AnswerTypes
    <2> HIDE DEF v
    <2> QED
      BY <1>1, <2>2, <2>3, <2>4, <2>5 DEF v, EndsAttempt, TellsTheAttempt
  <1>5. CASE ~ Success2xx(e.status)
    <2>1. RetryOrAnswer(i, Failed("INTERNAL_ERROR", retryable), retryable)
      BY <1>5 DEF BodyArrives, CurrentStatus
    <2>2. e.status # NoStatus
      BY <1>3, StatusesAssumption
    <2>6. Refusal4xx(e.status) => e.carried_out \in {FALSE}
      BY <1>3, CarriedOutByType, Zenon
    <2>3. ~ retryable => TellsFinal(e)
      BY <1>5, <2>2, <2>6 DEF TellsFinal, Unclear
    <2>4. retryable \in BOOLEAN
      OBVIOUS
    <2> HIDE DEF retryable
    <2>5. /\ Failed("INTERNAL_ERROR", retryable) \in Answers
          /\ ~ Failed("INTERNAL_ERROR", retryable).ok
          /\ Failed("INTERNAL_ERROR", retryable).retryable = retryable
      BY <2>4, AnswerTypes
    <2> QED
      BY <1>1, <2>1, <2>3, <2>4, <2>5 DEF EndsAttempt, TellsTheAttempt
  <1> QED
    BY <1>4, <1>5

LEMMA ThrowEndsAttempt ==
  ASSUME AdapterInv, NEW i \in Invocations, NEW error \in {"AbortError", "TypeError"},
         AttemptThrows(i, error)
  PROVE  \E answer \in Answers, retryable \in BOOLEAN : EndsAttempt(i, answer, retryable)
  <1>1. IsRetryableError(error) = TRUE
    BY DEF IsRetryableError
  <1> DEFINE retryable == TRUE
  <1>2. /\ RetryOrAnswer(i, Failed("INTERNAL_ERROR", retryable), retryable)
        /\ invocations[i].phase \in {"fetching", "reading"}
    BY <1>1 DEF AttemptThrows
  <1>4. retryable \in BOOLEAN /\ retryable
    OBVIOUS
  <1> HIDE DEF retryable
  <1>3. /\ Failed("INTERNAL_ERROR", retryable) \in Answers
        /\ ~ Failed("INTERNAL_ERROR", retryable).ok
        /\ Failed("INTERNAL_ERROR", retryable).retryable
    BY <1>4, AnswerTypes
  <1> QED
    BY <1>2, <1>3, <1>4 DEF EndsAttempt, TellsTheAttempt

LEMMA WakeInv ==
  ASSUME AdapterInv, NEW i \in Invocations, Wake(i)
  PROVE  AdapterInv'
  <1> DEFINE v == invocations[i]
             w == [v EXCEPT !.phase = "fetching", !.attempt = v.attempt + 1]
             x == Append(exchanges[i], NewExchange)
  <1>1. CallOK(v, exchanges[i]) /\ v \in Invocation /\ v.phase = "sleeping"
    BY DEF AdapterInv, Wake
  <1>2. /\ invocations' = [invocations EXCEPT ![i] = w]
        /\ exchanges' = [exchanges EXCEPT ![i] = x]
    BY DEF Wake
  <1>3. /\ exchanges[i] \in Seq(Exchange) /\ Len(exchanges[i]) = v.attempt
        /\ v.attempt \in 0..MaxRetries + 1 /\ v.attempt < MaxAttempts(v)
    BY <1>1 DEF CallOK, CallType, SentOK, Invocation
  <1>4. v.attempt + 1 \in 1..MaxRetries + 1 /\ v.attempt + 1 <= MaxAttempts(v)
    BY <1>3, AttemptsType, RetriesAssumption
  <1>5. /\ w \in Invocation /\ w.phase = "fetching" /\ w.attempt = v.attempt + 1
        /\ w.input = v.input /\ w.request = v.request /\ w.answer = v.answer
    <2> DEFINE buildable == {k \in Inputs : Buildable(k.operation)}
               requests == {BuildRequest(j.operation) : j \in buildable}
    <2> HIDE DEF requests
    <2>1. Invocation = [phase : {"idle", "fetching", "reading", "sleeping", "answered"},
                        input : Inputs \cup {NoInput}, request : requests \cup {NoRequest},
                        attempt : 0..MaxRetries + 1, answer : Answers \cup {NoAnswer}]
      BY DEF Invocation, requests
    <2>2. v.attempt + 1 \in 0..MaxRetries + 1
      BY <1>4
    <2> QED
      BY <1>1, <2>1, <2>2
  <1>6. MaxAttempts(w) = MaxAttempts(v)
    BY <1>5, AttemptsSame
  <1>7. SentOK(w)
    BY <1>1, <1>3, <1>4, <1>5, <1>6 DEF CallOK, SentOK
  <1>8. NewExchange \in Exchange /\ ExchangeOK(NewExchange)
    BY DEF NewExchange, Exchange, ExchangeOK
  <1>9. /\ x \in Seq(Exchange) /\ Len(x) = v.attempt + 1
        /\ \A n \in DOMAIN x :
             \/ x[n] = NewExchange
             \/ n \in DOMAIN exchanges[i] /\ x[n] = exchanges[i][n]
    BY <1>3, <1>8
  <1>10. \A n \in DOMAIN x : ExchangeOK(x[n])
    BY <1>1, <1>8, <1>9 DEF CallOK
  <1>11. CallOK(w, x)
    BY <1>5, <1>7, <1>9, <1>10 DEF CallOK, CallType, HeardOK
  <1> QED
    BY <1>2, <1>11, OneCall

LEMMA AdapterStep ==
  ASSUME AdapterInv, [Next]_adapterVars
  PROVE  AdapterInv'
  <1>1. CASE UNCHANGED adapterVars
    BY <1>1 DEF adapterVars, AdapterInv, CallOK, CallType, SentOK, HeardOK,
                ExchangeOK, MaxAttempts
  <1>2. CASE Next
    BY <1>2, StartInv, UpstreamActsInv, HeadersArriveInv, BodyEndsAttempt,
       ThrowEndsAttempt, EndsAttemptInv, WakeInv DEF Next
  <1> QED
    BY <1>1, <1>2

LEMMA AdapterInvariant == Spec => []AdapterInv
  BY InitInv, AdapterStep, PTL DEF Spec

\* The adapter's state has its type, and a call has as many exchanges as it made attempts,
\* for any number of calls and retries (the loop of performHttpRequest).
THEOREM AdapterTypeCorrect == Spec => []TypeOK
  BY AdapterInvariant, InvType, PTL

\* A failure reported as final leaves nothing behind in Appwrite but what an earlier attempt
\* of the same call did, and nothing will come of it later, unless its status was an
\* unclear one; whatever the statuses and the list of those to retry (performHttpRequest,
\* isRetryableError).
THEOREM FinalFailures == Spec => []FinalFailureUntouched
  <1>1. AdapterInv => FinalFailureUntouched
    <2> SUFFICES ASSUME AdapterInv, NEW i \in Invocations,
                        invocations[i].answer # NoAnswer, ~ invocations[i].answer.ok,
                        ~ invocations[i].answer.retryable, ~ EndedUnclear(i),
                        NEW n \in CarriedOut(i)
                 PROVE  n < invocations[i].attempt
      BY DEF FinalFailureUntouched
    <2>1. CallOK(invocations[i], exchanges[i]) /\ n \in DOMAIN exchanges[i]
      BY DEF AdapterInv, CarriedOut
    <2>2. /\ n \in 1..invocations[i].attempt /\ invocations[i].attempt \in Nat
          /\ invocations[i].phase = "answered"
      BY <2>1, RetriesAssumption DEF CallOK, CallType, SentOK, Invocation
    <2>3. n # invocations[i].attempt
      BY <2>1, <2>2 DEF CallOK, HeardOK, TellsFinal, CarriedOut, EndedUnclear, CurrentStatus
    <2> QED
      BY <2>2, <2>3
  <1> QED
    BY <1>1, AdapterInvariant, PTL

-----------------------------------------------------------------------------
(* What a step leaves as it is *)

\* A call keeps its input, and its answer once it has one.
KeptOn(i) ==
    /\ invocations'[i].phase # "idle"
    /\ invocations'[i].input = invocations[i].input
    /\ invocations[i].phase = "answered" => invocations'[i] = invocations[i]

LEMMA CallsGoOn ==
  ASSUME AdapterInv, [Next]_adapterVars,
         NEW i \in Invocations, invocations[i].phase # "idle"
  PROVE  KeptOn(i)
  <1>1. invocations[i] \in Invocation
    BY DEF AdapterInv
  <1>2. CASE UNCHANGED adapterVars
    BY <1>2 DEF adapterVars, KeptOn
  <1>3. ASSUME NEW j \in Invocations, NEW v, invocations[j].phase # "answered",
               j = i => v.phase # "idle" /\ v.input = invocations[i].input,
               invocations' = [invocations EXCEPT ![j] = v]
        PROVE  KeptOn(i)
    BY <1>3 DEF AdapterInv, KeptOn
  <1>4. ASSUME NEW j \in Invocations, NEW input \in Inputs, Start(j, input)
        PROVE  KeptOn(i)
    <2>1. invocations[j].phase = "idle" /\ \E v : invocations' = [invocations EXCEPT ![j] = v]
      BY <1>4 DEF Start
    <2> QED
      BY <1>3, <2>1
  <1>5. ASSUME NEW j \in Invocations, NEW answer, NEW retryable,
               invocations[j].phase # "answered", RetryOrAnswer(j, answer, retryable)
        PROVE  KeptOn(i)
    <2> DEFINE v == IF retryable /\ invocations[j].attempt < MaxAttempts(invocations[j])
                    THEN [invocations[j] EXCEPT !.phase = "sleeping"]
                    ELSE [invocations[j] EXCEPT !.phase = "answered", !.answer = answer]
    <2>1. invocations' = [invocations EXCEPT ![j] = v]
      BY <1>5 DEF RetryOrAnswer
    <2>2. j = i => v.phase # "idle" /\ v.input = invocations[i].input
      BY <1>1 DEF Invocation
    <2> HIDE DEF v
    <2> QED
      BY <1>3, <1>5, <2>1, <2>2
  <1>6. ASSUME NEW j \in Invocations,
               HeadersArrive(j) \/ Wake(j)
        PROVE  KeptOn(i)
    <2>1. /\ invocations[j].phase # "answered"
          /\ \E n : invocations' = [invocations EXCEPT ![j] =
                        [invocations[j] EXCEPT !.phase = "reading"]]
                  \/ invocations' = [invocations EXCEPT ![j] =
                        [invocations[j] EXCEPT !.phase = "fetching", !.attempt = n]]
      BY <1>6 DEF HeadersArrive, Wake
    <2> QED
      BY <1>1, <1>3, <2>1 DEF Invocation
  <1>7. ASSUME NEW j \in Invocations, BodyArrives(j)
        PROVE  \E answer, retryable :
                 invocations[j].phase # "answered" /\ RetryOrAnswer(j, answer, retryable)
    BY <1>7 DEF BodyArrives
  <1>8. ASSUME NEW j \in Invocations, NEW error, AttemptThrows(j, error)
        PROVE  \E answer, retryable :
                 invocations[j].phase # "answered" /\ RetryOrAnswer(j, answer, retryable)
    BY <1>8 DEF AttemptThrows
  <1>9. ASSUME NEW j \in Invocations, NEW n, NEW status, NEW carried_out,
               UpstreamActs(j, n, status, carried_out)
        PROVE  invocations' = invocations
    BY <1>9 DEF UpstreamActs
  <1> QED
    BY <1>2, <1>4, <1>5, <1>6, <1>7, <1>8, <1>9 DEF Next, KeptOn

\* What Appwrite carries out was neither answered nor carried out before.
LEMMA EffectsOfStep ==
  ASSUME AdapterInv, [Next]_adapterVars, NEW i \in Invocations, CarriedOut(i)' # CarriedOut(i)
  PROVE  \E n \in DOMAIN exchanges[i] : exchanges[i][n].status = NoStatus
  <1>1. CallOK(invocations[i], exchanges[i]) /\ exchanges[i] \in Seq(Exchange)
    BY DEF AdapterInv
  <1>2. exchanges'[i] # exchanges[i]
    BY DEF CarriedOut
  <1>3. ASSUME NEW j \in Invocations, NEW n, NEW status, NEW carried_out,
               UpstreamActs(j, n, status, carried_out)
        PROVE  \E m \in DOMAIN exchanges[i] : exchanges[i][m].status = NoStatus
    BY <1>2, <1>3 DEF UpstreamActs, AdapterInv
  <1>4. ASSUME NEW j \in Invocations, NEW input, Start(j, input) PROVE FALSE
    <2>1. exchanges' = [exchanges EXCEPT ![j] = <<NewExchange>>]
      BY <1>2, <1>4 DEF Start
    <2>2. j = i
      BY <1>2, <2>1 DEF AdapterInv
    <2>3. CarriedOut(i) = {}
      BY <1>1, <1>4, <2>2 DEF Start, CarriedOut, CallOK, CallType, SentOK
    <2>4. exchanges'[i] = <<NewExchange>>
      BY <2>1, <2>2 DEF AdapterInv
    <2>5. CarriedOut(i)' = {}
      BY <2>4 DEF CarriedOut, NewExchange
    <2> QED
      BY <2>3, <2>5
  <1>5. ASSUME NEW j \in Invocations, Wake(j) PROVE FALSE
    <2>1. exchanges' = [exchanges EXCEPT ![j] = Append(exchanges[j], NewExchange)]
      BY <1>5 DEF Wake
    <2>2. j = i
      BY <1>2, <2>1 DEF AdapterInv
    <2>3. exchanges'[i] = Append(exchanges[i], NewExchange)
      BY <2>1, <2>2 DEF AdapterInv
    <2>4. NewExchange \in Exchange /\ ~ NewExchange.carried_out
      BY DEF NewExchange, Exchange
    <2>5. /\ DOMAIN exchanges'[i] = DOMAIN exchanges[i] \cup {Len(exchanges[i]) + 1}
          /\ exchanges'[i][Len(exchanges[i]) + 1] = NewExchange
          /\ \A n \in DOMAIN exchanges[i] : exchanges'[i][n] = exchanges[i][n]
      BY <1>1, <2>3, <2>4
    <2> QED
      BY <2>4, <2>5 DEF CarriedOut
  <1>6. \/ \E j \in Invocations, input \in Inputs : Start(j, input)
        \/ \E j \in Invocations : Wake(j)
        \/ \E j \in Invocations : \E n, status, carried_out :
              UpstreamActs(j, n, status, carried_out)
    BY <1>2 DEF Next, adapterVars, HeadersArrive, BodyArrives, AttemptThrows, RetryOrAnswer
  <1> QED
    BY <1>3, <1>4, <1>5, <1>6

-----------------------------------------------------------------------------
(* What is repeated *)

LEMMA Least ==
  ASSUME NEW S \in SUBSET Nat, S # {}
  PROVE  \E n \in S : \A m \in S : n <= m
  <1>1. PICK n \in S : \A m \in S : <<m, n>> \notin OpToRel(<, Nat)
    BY WFMin, NatLessThanWellFounded, Zenon
  <1>2. \A m \in S : ~ (m < n)
    BY <1>1, Zenon DEF OpToRel
  <1> QED
    BY <1>2

LEMMA UserUpdateMethods ==
  ASSUME NEW n \in DOMAIN UserUpdates
  PROVE  UserUpdates[n].method \in {"PATCH", "PUT"}
  BY DEF UserUpdates, UserUpdate

LEMMA FirstUserUpdateMethod ==
  ASSUME NEW operation, UserUpdatesAsked(operation) # {}
  PROVE  FirstUserUpdate(operation).method \in {"PATCH", "PUT"}
  <1> DEFINE asked == UserUpdatesAsked(operation)
  <1>1. asked \subseteq DOMAIN UserUpdates /\ DOMAIN UserUpdates \subseteq Nat
    BY DEF UserUpdatesAsked, UserUpdates
  <1> HIDE DEF asked
  <1>2. \E n \in asked : \A m \in asked : n <= m
    BY <1>1, Least DEF asked
  <1>3. (CHOOSE n \in asked : \A m \in asked : n <= m) \in asked
    BY <1>2
  <1> QED
    BY <1>1, <1>3, UserUpdateMethods DEF FirstUserUpdate, asked

\* What is sent by GET, and so may be sent again, only reads.
LEMMA GetsAreReads ==
  ASSUME NEW operation, operation.action \in OperationAction, Buildable(operation),
         BuildRequest(operation).method = "GET"
  PROVE  IsRead(operation)
  <1> SUFFICES ASSUME ~ IsRead(operation) PROVE FALSE
    OBVIOUS
  <1>1. CASE operation.action \in AuthWrites \ {"auth.users.create"}
    <2>1. FirstUserUpdate(operation).method \in {"PATCH", "PUT"}
      BY <1>1, FirstUserUpdateMethod DEF Buildable
    <2>2. BuildRequest(operation).method = FirstUserUpdate(operation).method
      BY <1>1 DEF BuildRequest, Request, AuthWrites, LegacyAuthUpdate
    <2> QED
      BY <2>1, <2>2
  <1>2. CASE operation.action \notin AuthWrites \ {"auth.users.create"}
    <2>1. operation.action \in ProjectActions \cup DatabaseWrites
              \cup {"auth.users.create", "function.create", "function.update",
                    "function.deployment.trigger", "function.execution.trigger"}
      BY <1>2 DEF OperationAction, IsRead, AuthWrites, FunctionWrites
    <2>2. BuildRequest(operation).method # "GET"
      BY <2>1, <1>2 DEF BuildRequest, Request, ProjectActions, DatabaseWrites
    <2> QED
      BY <2>2
  <1> QED
    BY <1>1, <1>2

\* What must not be repeated is sent once.
LEMMA OnceSentOnce ==
  ASSUME NEW v \in Invocation, SentOK(v), v.phase # "idle", NotToRepeat(v.input.operation)
  PROVE  v.attempt \in {0, 1}
  <1>1. v.input \in Inputs /\ v.attempt \in Nat
    BY RetriesAssumption DEF SentOK, Invocation
  <1>2. CASE v.attempt > 0
    <2>1. v.request.method # "GET"
      BY <1>1, <1>2, GetsAreReads, InputsAssumption DEF SentOK, NotToRepeat
    <2>2. ~ v.input.operation.keyed
      BY DEF NotToRepeat
    <2>3. ~ CanRetryRequest(v.request, v.input.operation)
      BY <2>1, <2>2, Zenon DEF CanRetryRequest
    <2>4. MaxAttempts(v) = 1
      BY <2>3, Zenon DEF MaxAttempts
    <2> QED
      BY <1>1, <1>2, <2>4 DEF SentOK
  <1>3. CASE v.attempt = 0
    BY <1>3
  <1> QED
    BY <1>1, <1>2, <1>3

\* What a success, and what a call that was sent once, leave in Appwrite.
LEMMA AnswerOfCall ==
  ASSUME AdapterInv, NEW i \in Invocations, invocations[i].phase = "answered"
  PROVE  LET answer == invocations[i].answer
             once == NotToRepeat(invocations[i].input.operation)
         IN  /\ answer \in Answers
             /\ answer.ok => CarriedOut(i) # {}
             /\ once /\ answer.ok => Len(exchanges[i]) = 1 /\ CarriedOut(i) = {1}
             /\ ~ answer.ok /\ ~ answer.retryable /\ ~ EndedUnclear(i) =>
                  /\ \A n \in CarriedOut(i) : n < Len(exchanges[i])
                  /\ once => CarriedOut(i) = {}
  <1> DEFINE v == invocations[i]
             x == exchanges[i]
  <1>1. /\ CallOK(v, x) /\ v \in Invocation /\ x \in Seq(Exchange) /\ Len(x) = v.attempt
        /\ v.attempt \in Nat /\ DOMAIN x = 1..v.attempt
    BY RetriesAssumption DEF AdapterInv, CallOK, CallType, Invocation
  <1>2. v.answer \in Answers
    BY <1>1 DEF CallOK, SentOK, Invocation
  <1>3. v.answer.ok => v.attempt > 0 /\ v.attempt \in CarriedOut(i)
    BY <1>1 DEF CallOK, HeardOK, CarriedOut
  <1>4. NotToRepeat(v.input.operation) => v.attempt \in {0, 1}
    BY <1>1, OnceSentOnce DEF CallOK
  <1>5. ~ v.answer.ok /\ ~ v.answer.retryable /\ ~ EndedUnclear(i) =>
          v.attempt \notin CarriedOut(i)
    BY <1>1 DEF CallOK, HeardOK, TellsFinal, CarriedOut, EndedUnclear, CurrentStatus
  <1>6. CarriedOut(i) \subseteq 1..v.attempt
    BY <1>1 DEF CarriedOut
  <1> HIDE DEF v
  <1> QED
    BY <1>1, <1>2, <1>3, <1>4, <1>5, <1>6 DEF v

\* An exchange Appwrite has yet to act on, of a call that is answered: it may be tried
\* again, or was, being keyed.
LEMMA LeftOpen ==
  ASSUME AdapterInv, NEW i \in Invocations, invocations[i].phase = "answered",
         NEW n \in DOMAIN exchanges[i], exchanges[i][n].status = NoStatus,
         ~ IsRead(invocations[i].input.operation)
  PROVE  \/ invocations[i].answer.retryable
         \/ invocations[i].input.operation.keyed /\ Len(exchanges[i]) > 1
  <1> DEFINE v == invocations[i]
             x == exchanges[i]
  <1>1. /\ CallOK(v, x) /\ v \in Invocation /\ Len(x) = v.attempt
        /\ v.attempt \in Nat /\ DOMAIN x = 1..v.attempt
    BY RetriesAssumption DEF AdapterInv, CallOK, CallType, Invocation
  <1>2. n \in 1..v.attempt
    BY <1>1
  <1>3. v.answer.retryable \/ n # v.attempt
    BY <1>1, <1>2 DEF CallOK, HeardOK, TellsFinal, ExchangeOK
  <1>4. ~ v.input.operation.keyed => v.attempt \in {0, 1}
    BY <1>1, OnceSentOnce DEF CallOK, NotToRepeat
  <1> HIDE DEF v
  <1> QED
    BY <1>1, <1>2, <1>3, <1>4 DEF v

-----------------------------------------------------------------------------
(* The contract, one call at a time *)

AskedOf(v) == IF v.input = NoInput THEN NoInput ELSE v.input.operation

Doubt(v, x) == v.attempt > 0 /\ Unclear(x[v.attempt].status)

AnswerOf(v, x) == IF v.phase = "idle" THEN "none" ELSE AnswerName(v.answer, Doubt(v, x))

Effects(x) == {n \in DOMAIN x : x[n].carried_out}

TimesOf(x) == Cardinality(Effects(x))

\* The contract's state.
AskedNow == [i \in Invocations |-> AskedOf(invocations[i])]

AnswersNow == [i \in Invocations |-> AnswerOf(invocations[i], exchanges[i])]

TimesNow == [i \in Invocations |-> TimesOf(exchanges[i])]

\* The contract's steps in terms of that state.
LEMMA ContractSteps ==
  ASSUME NEW i, NEW operation, NEW answer
  PROVE  /\ Contract!Ask(i, operation) <=>
              /\ AnswersNow[i] = "none"
              /\ AskedNow' = [AskedNow EXCEPT ![i] = operation]
              /\ AnswersNow' = [AnswersNow EXCEPT ![i] = "open"]
              /\ TimesNow' = TimesNow
         /\ Contract!Decline(i, operation, answer) <=>
              /\ AnswersNow[i] = "none"
              /\ AskedNow' = [AskedNow EXCEPT ![i] = operation]
              /\ AnswersNow' = [AnswersNow EXCEPT ![i] = answer]
              /\ TimesNow' = TimesNow
         /\ Contract!CarryOut(i) <=>
              /\ AnswersNow[i] # "none"
              /\ TimesNow[i] < IF NotToRepeat(AskedNow[i]) THEN 1 ELSE MaxRetries + 1
              /\ ~ (NotToRepeat(AskedNow[i]) /\ AnswersNow[i] = "refused")
              /\ TimesNow' = [TimesNow EXCEPT ![i] = @ + 1]
              /\ AskedNow' = AskedNow /\ AnswersNow' = AnswersNow
         /\ Contract!Answer(i, answer) <=>
              /\ AnswersNow[i] = "open"
              /\ answer = "ok" => TimesNow[i] > 0
              /\ answer = "refused" => ~ NotToRepeat(AskedNow[i]) \/ TimesNow[i] = 0
              /\ AnswersNow' = [AnswersNow EXCEPT ![i] = answer]
              /\ AskedNow' = AskedNow /\ TimesNow' = TimesNow
         /\ UNCHANGED Contract!contractVars <=>
              AskedNow' = AskedNow /\ AnswersNow' = AnswersNow /\ TimesNow' = TimesNow
  BY Zenon DEF Contract!Ask, Contract!Decline, Contract!CarryOut, Contract!Answer,
        Contract!Limit, Contract!contractVars, AskedNow, AnswersNow, TimesNow,
        AskedOf, AnswerOf, Doubt, TimesOf, Effects, CarriedOut, EndedUnclear, CurrentStatus

\* A step of one call.
GoesOnAs(i, v, x) ==
    /\ invocations' = [invocations EXCEPT ![i] = v]
    /\ exchanges' = [exchanges EXCEPT ![i] = x]

\* What it is to the contract.
LEMMA OneCallAbstract ==
  ASSUME AdapterInv, NEW i \in Invocations, NEW v, NEW x, GoesOnAs(i, v, x)
  PROVE  /\ AskedNow' = [AskedNow EXCEPT ![i] = AskedOf(v)]
         /\ AnswersNow' = [AnswersNow EXCEPT ![i] = AnswerOf(v, x)]
         /\ TimesNow' = [TimesNow EXCEPT ![i] = TimesOf(x)]
         /\ AskedNow[i] = AskedOf(invocations[i])
         /\ AnswersNow[i] = AnswerOf(invocations[i], exchanges[i])
         /\ TimesNow[i] = TimesOf(exchanges[i])
         /\ AskedOf(v) = AskedOf(invocations[i]) => AskedNow' = AskedNow
         /\ AnswerOf(v, x) = AnswerOf(invocations[i], exchanges[i]) => AnswersNow' = AnswersNow
         /\ TimesOf(x) = TimesOf(exchanges[i]) => TimesNow' = TimesNow
  <1>1. /\ AskedNow' = [AskedNow EXCEPT ![i] = AskedOf(v)]
        /\ AnswersNow' = [AnswersNow EXCEPT ![i] = AnswerOf(v, x)]
        /\ TimesNow' = [TimesNow EXCEPT ![i] = TimesOf(x)]
        /\ AskedNow[i] = AskedOf(invocations[i])
        /\ AnswersNow[i] = AnswerOf(invocations[i], exchanges[i])
        /\ TimesNow[i] = TimesOf(exchanges[i])
    BY DEF GoesOnAs, AskedNow, AnswersNow, TimesNow, AdapterInv, AskedOf, AnswerOf, Doubt,
           TimesOf, Effects
  <1>2. /\ AskedNow = [AskedNow EXCEPT ![i] = AskedNow[i]]
        /\ AnswersNow = [AnswersNow EXCEPT ![i] = AnswersNow[i]]
        /\ TimesNow = [TimesNow EXCEPT ![i] = TimesNow[i]]
    BY DEF AskedNow, AnswersNow, TimesNow
  <1> QED
    BY <1>1, <1>2, Zenon

LEMMA UpToIsFinite ==
  ASSUME NEW n \in Nat
  PROVE  IsFiniteSet(1..n) /\ Cardinality(1..n) = n
  BY FS_Interval

LEMMA EffectsType ==
  ASSUME NEW x \in Seq(Exchange)
  PROVE  /\ Effects(x) \subseteq 1..Len(x)
         /\ IsFiniteSet(Effects(x))
         /\ TimesOf(x) \in Nat /\ TimesOf(x) <= Len(x)
         /\ TimesOf(x) = 0 <=> Effects(x) = {}
  <1>1. Effects(x) \subseteq 1..Len(x) /\ Len(x) \in Nat
    BY DEF Effects
  <1>2. IsFiniteSet(1..Len(x)) /\ Cardinality(1..Len(x)) = Len(x)
    BY <1>1, UpToIsFinite, Zenon
  <1>3. IsFiniteSet(Effects(x)) /\ Cardinality(Effects(x)) <= Len(x)
    BY <1>1, <1>2, FS_Subset
  <1> QED
    BY <1>1, <1>3, FS_EmptySet, FS_CardinalityType DEF TimesOf

LEMMA NoTimes ==
  /\ \A unclear : AnswerName(NoAnswer, unclear) = "open"
  /\ \A answer \in Answers, unclear \in BOOLEAN :
       AnswerName(answer, unclear) =
         IF answer.ok THEN "ok"
         ELSE IF answer.retryable \/ unclear THEN "failed" ELSE "refused"
  BY NoAnswerAssumption DEF AnswerName

LEMMA StartStep ==
  ASSUME AdapterInv, NEW i \in Invocations, NEW input \in Inputs, Start(i, input)
  PROVE  Contract!ContractNext
  <1> DEFINE v == invocations[i]
             op == input.operation
  <1>1. /\ v \in Invocation /\ v.phase = "idle" /\ exchanges[i] \in Seq(Exchange)
        /\ Len(exchanges[i]) = 0 /\ CallOK(v, exchanges[i])
    BY DEF Start, AdapterInv, CallOK, CallType, SentOK
  <1>2. input # NoInput
    BY InputsAssumption
  <1>3. AnswerOf(v, exchanges[i]) = "none"
    BY <1>1 DEF AnswerOf
  <1>4. CASE Unsent(input) # NoAnswer
    <2> DEFINE w == [v EXCEPT !.phase = "answered", !.input = input,
                              !.answer = Unsent(input)]
               answer == AnswerName(Unsent(input), FALSE)
    <2>1. answer \in {"refused", "failed"}
      BY <1>4, UnsentType, NoTimes
    <2>2. AskedOf(w) = op /\ AnswerOf(w, exchanges[i]) = answer
      <3>1. w.phase = "answered" /\ w.input = input /\ w.answer = Unsent(input) /\ w.attempt = 0
        BY <1>1 DEF Invocation, CallOK, SentOK
      <3>2. Doubt(w, exchanges[i]) = FALSE
        BY <3>1 DEF Doubt
      <3> QED
        BY <1>2, <3>1, <3>2 DEF AskedOf, AnswerOf
    <2>3. GoesOnAs(i, w, exchanges[i])
      BY <1>4 DEF Start, AdapterInv, GoesOnAs
    <2> HIDE DEF w, answer
    <2>4. /\ AskedNow' = [AskedNow EXCEPT ![i] = op]
          /\ AnswersNow' = [AnswersNow EXCEPT ![i] = answer]
          /\ TimesNow' = TimesNow /\ AnswersNow[i] = "none"
      <3>1. /\ AskedNow' = [AskedNow EXCEPT ![i] = AskedOf(w)]
            /\ AnswersNow' = [AnswersNow EXCEPT ![i] = AnswerOf(w, exchanges[i])]
            /\ TimesNow' = TimesNow /\ AnswersNow[i] = AnswerOf(v, exchanges[i])
        BY <2>3, OneCallAbstract
      <3> QED
        BY <1>3, <2>2, <3>1, Zenon
    <2>5. Contract!Decline(i, op, answer)
      BY <2>4, ContractSteps, Zenon
    <2> QED
      BY <2>1, <2>5 DEF Contract!ContractNext
  <1>5. CASE Unsent(input) = NoAnswer
    <2> DEFINE w == [v EXCEPT !.phase = "fetching", !.input = input, !.attempt = 1,
                              !.request = BuildRequest(input.operation)]
               x == <<NewExchange>>
    <2>1. v.answer = NoAnswer
      BY <1>1 DEF CallOK, SentOK
    <2>2. AskedOf(w) = op /\ AnswerOf(w, x) = "open"
      BY <1>1, <1>2, <2>1, NoTimes DEF Invocation, AskedOf, AnswerOf
    <2>3. Effects(x) = {} /\ Effects(exchanges[i]) = {}
      BY <1>1 DEF Effects, NewExchange
    <2>4. GoesOnAs(i, w, x)
      BY <1>5 DEF Start, GoesOnAs
    <2>5. TimesOf(x) = TimesOf(exchanges[i])
      BY <2>3 DEF TimesOf
    <2> HIDE DEF w, x
    <2>6. /\ AskedNow' = [AskedNow EXCEPT ![i] = op]
          /\ AnswersNow' = [AnswersNow EXCEPT ![i] = "open"]
          /\ TimesNow' = TimesNow /\ AnswersNow[i] = "none"
      <3>1. /\ AskedNow' = [AskedNow EXCEPT ![i] = AskedOf(w)]
            /\ AnswersNow' = [AnswersNow EXCEPT ![i] = AnswerOf(w, x)]
            /\ TimesNow' = TimesNow /\ AnswersNow[i] = AnswerOf(v, exchanges[i])
        BY <2>4, <2>5, OneCallAbstract
      <3> QED
        BY <1>3, <2>2, <3>1, Zenon
    <2>7. Contract!Ask(i, op)
      BY <2>6, ContractSteps, Zenon
    <2> QED
      BY <2>7 DEF Contract!ContractNext
  <1> QED
    BY <1>4, <1>5

LEMMA UpstreamActsStep ==
  ASSUME AdapterInv, NEW i \in Invocations, NEW n,
         NEW status \in Statuses, NEW carried_out \in BOOLEAN,
         UpstreamActs(i, n, status, carried_out)
  PROVE  Contract!ContractNext \/ UNCHANGED Contract!contractVars
  <1> DEFINE v == invocations[i]
             e == [status |-> status, carried_out |-> carried_out]
             x == [exchanges[i] EXCEPT ![n] = e]
  <1>1. CallOK(v, exchanges[i]) /\ n \in DOMAIN exchanges[i] /\ v \in Invocation
    BY DEF AdapterInv, UpstreamActs
  <1>2. /\ exchanges[i] \in Seq(Exchange) /\ e \in Exchange
        /\ DOMAIN exchanges[i] = 1..Len(exchanges[i]) /\ Len(exchanges[i]) = v.attempt
        /\ v.attempt \in 0..MaxRetries + 1
    BY <1>1 DEF CallOK, CallType, Exchange, Invocation
  <1>3. exchanges[i][n].status = NoStatus /\ exchanges[i][n].carried_out = FALSE
    BY <1>1 DEF UpstreamActs, CallOK, ExchangeOK
  <1>4. GoesOnAs(i, v, x)
    BY DEF UpstreamActs, AdapterInv, GoesOnAs
  <1>5. n \notin Effects(exchanges[i]) /\ n \in 1..v.attempt /\ v.phase # "idle"
    BY <1>1, <1>2, <1>3, RetriesAssumption DEF Effects, CallOK, SentOK
  <1>6. AnswerOf(v, x) = AnswerOf(v, exchanges[i])
    <2>1. CASE v.answer = NoAnswer
      BY <1>5, <2>1, NoTimes DEF AnswerOf
    <2>2. CASE v.answer # NoAnswer /\ (v.answer.ok \/ v.answer.retryable)
      BY <2>2 DEF AnswerOf, AnswerName
    <2>3. CASE v.answer # NoAnswer /\ ~ v.answer.ok /\ ~ v.answer.retryable
      <3>1. v.attempt > 0 => n # v.attempt
        BY <1>1, <1>3, <2>3 DEF CallOK, SentOK, HeardOK, TellsFinal
      <3>2. v.attempt > 0 => x[v.attempt] = exchanges[i][v.attempt]
        BY <1>2, <3>1
      <3>3. Doubt(v, x) = Doubt(v, exchanges[i])
        BY <3>2, Zenon DEF Doubt
      <3> QED
        BY <3>3 DEF AnswerOf
    <2> QED
      BY <2>1, <2>2, <2>3
  <1>7. CASE carried_out = FALSE
    <2>1. Effects(x) = Effects(exchanges[i])
      BY <1>1, <1>2, <1>5, <1>7 DEF Effects
    <2> HIDE DEF x, v
    <2> QED
      BY <1>4, <1>6, <2>1, OneCallAbstract, ContractSteps DEF TimesOf, v
  <1>8. CASE carried_out = TRUE
    <2>1. Effects(x) = Effects(exchanges[i]) \cup {n}
      BY <1>1, <1>2, <1>8 DEF Effects
    <2>2. TimesOf(x) = TimesOf(exchanges[i]) + 1
      BY <1>2, <1>5, <2>1, EffectsType, FS_AddElement DEF TimesOf
    <2>3. TimesOf(exchanges[i]) < v.attempt
      <3>1. Effects(exchanges[i]) \subseteq (1..v.attempt) \ {n}
        <4>1. Effects(exchanges[i]) \subseteq 1..Len(exchanges[i])
          BY <1>2, EffectsType
        <4>2. Effects(exchanges[i]) \subseteq 1..v.attempt
          BY <1>2, <4>1, Zenon
        <4> QED
          BY <1>5, <4>2, Zenon
      <3>2. IsFiniteSet(1..v.attempt) /\ Cardinality(1..v.attempt) = v.attempt
        <4>1. v.attempt \in Nat
          BY <1>2, RetriesAssumption
        <4> QED
          BY <4>1, UpToIsFinite, Zenon
      <3>3. /\ IsFiniteSet((1..v.attempt) \ {n})
            /\ Cardinality((1..v.attempt) \ {n}) = v.attempt - 1
        BY <1>5, <3>2, FS_RemoveElement
      <3>4. Cardinality(Effects(exchanges[i])) <= v.attempt - 1
        BY <3>1, <3>3, FS_Subset
      <3> QED
        BY <3>4, <1>2, EffectsType DEF TimesOf
    <2> DEFINE name == AnswerOf(v, exchanges[i])
    <2>4. /\ AskedOf(v) = v.input.operation
          /\ name = AnswerName(v.answer, Doubt(v, exchanges[i]))
      BY <1>1, <1>5 DEF AskedOf, AnswerOf, CallOK, SentOK
    <2>5. name # "none"
      BY <2>4 DEF AnswerName
    <2>6. TimesOf(exchanges[i]) < IF NotToRepeat(AskedOf(v)) THEN 1 ELSE MaxRetries + 1
      <3>1. CASE NotToRepeat(AskedOf(v))
        BY <1>1, <1>2, <1>5, <2>3, <2>4, <3>1, OnceSentOnce, EffectsType DEF CallOK
      <3>2. CASE ~ NotToRepeat(AskedOf(v))
        BY <1>2, <2>3, <3>2, RetriesAssumption, EffectsType
      <3> QED
        BY <3>1, <3>2
    <2>7. ~ (NotToRepeat(AskedOf(v)) /\ name = "refused")
      <3> SUFFICES ASSUME NotToRepeat(AskedOf(v)), name = "refused" PROVE FALSE
        OBVIOUS
      <3>1. v.attempt = 1 /\ n = 1
        BY <1>1, <1>2, <1>5, <2>4, OnceSentOnce DEF CallOK
      <3>2. v.answer # NoAnswer /\ ~ v.answer.ok /\ ~ v.answer.retryable
        BY <2>4 DEF AnswerName
      <3>3. exchanges[i][1].status # NoStatus
        BY <1>1, <3>1, <3>2 DEF CallOK, SentOK, HeardOK, TellsFinal
      <3> QED
        BY <1>3, <3>1, <3>3
    <2> HIDE DEF x, v, name
    <2>8. /\ AskedNow' = AskedNow /\ AskedNow[i] = AskedOf(v)
          /\ AnswersNow' = AnswersNow /\ AnswersNow[i] = name
          /\ TimesNow' = [TimesNow EXCEPT ![i] = TimesNow[i] + 1]
          /\ TimesNow[i] = TimesOf(exchanges[i])
      <3>1. /\ AskedNow' = AskedNow /\ AskedNow[i] = AskedOf(v)
            /\ AnswersNow' = AnswersNow /\ AnswersNow[i] = name
        BY <1>4, <1>6, OneCallAbstract DEF v, name
      <3>2. /\ TimesNow' = [TimesNow EXCEPT ![i] = TimesOf(x)]
            /\ TimesNow[i] = TimesOf(exchanges[i])
        BY <1>4, OneCallAbstract
      <3> QED
        BY <2>2, <3>1, <3>2, Zenon
    <2>9. Contract!CarryOut(i)
      BY <2>5, <2>6, <2>7, <2>8, ContractSteps, Zenon
    <2> QED
      BY <2>9 DEF Contract!ContractNext
  <1> QED
    BY <1>7, <1>8

LEMMA HeadersArriveStep ==
  ASSUME AdapterInv, NEW i \in Invocations, HeadersArrive(i)
  PROVE  UNCHANGED Contract!contractVars
  <1> DEFINE v == invocations[i]
             w == [v EXCEPT !.phase = "reading"]
  <1>1. v \in Invocation /\ v.phase = "fetching" /\ GoesOnAs(i, w, exchanges[i])
    BY DEF HeadersArrive, AdapterInv, GoesOnAs
  <1>2. AskedOf(w) = AskedOf(v) /\ AnswerOf(w, exchanges[i]) = AnswerOf(v, exchanges[i])
    BY <1>1 DEF Invocation, AskedOf, AnswerOf, Doubt
  <1> HIDE DEF v, w
  <1> QED
    BY <1>1, <1>2, OneCallAbstract, ContractSteps DEF v

LEMMA EndsAttemptStep ==
  ASSUME AdapterInv, NEW i \in Invocations, NEW answer \in Answers, NEW retryable,
         EndsAttempt(i, answer, retryable)
  PROVE  Contract!ContractNext \/ UNCHANGED Contract!contractVars
  <1> DEFINE v == invocations[i]
             x == exchanges[i]
             w == IF retryable /\ v.attempt < MaxAttempts(v)
                  THEN [v EXCEPT !.phase = "sleeping"]
                  ELSE [v EXCEPT !.phase = "answered", !.answer = answer]
  <1>1. CallOK(v, x) /\ v \in Invocation /\ x \in Seq(Exchange)
    BY DEF AdapterInv
  <1>2. GoesOnAs(i, w, x) /\ v.phase \in {"fetching", "reading"}
    BY DEF EndsAttempt, RetryOrAnswer, AdapterInv, GoesOnAs
  <1>3. AskedOf(w) = AskedOf(v) /\ AskedOf(v) = v.input.operation
    BY <1>1, <1>2 DEF Invocation, AskedOf, CallOK, SentOK
  <1>4. AnswerOf(v, x) = "open"
    BY <1>1, <1>2, NoTimes DEF CallOK, SentOK, AnswerOf
  <1>5. CASE retryable /\ v.attempt < MaxAttempts(v)
    <2>1. AnswerOf(w, x) = AnswerOf(v, x)
      BY <1>1, <1>2, <1>5 DEF Invocation, AnswerOf, Doubt
    <2> HIDE DEF v, w
    <2> QED
      BY <1>2, <1>3, <2>1, OneCallAbstract, ContractSteps DEF v
  <1>6. CASE ~ (retryable /\ v.attempt < MaxAttempts(v))
    <2>1. PICK name \in {"ok", "failed", "refused"} :
             /\ AnswerOf(w, x) = name
             /\ name = "ok" => answer.ok
             /\ name = "refused" => ~ answer.ok /\ ~ answer.retryable /\ ~ Doubt(v, x)
      <3>1. w.phase = "answered" /\ w.answer = answer /\ Doubt(w, x) = Doubt(v, x)
        BY <1>1, <1>6 DEF Invocation, Doubt
      <3>2. Doubt(v, x) \in BOOLEAN
        BY DEF Doubt
      <3> HIDE DEF v, w, x
      <3>3. AnswerOf(w, x) = AnswerName(answer, Doubt(v, x))
        BY <3>1 DEF AnswerOf
      <3> QED
        BY <3>2, <3>3, NoTimes
    <2>2. /\ v.attempt \in 1..MaxRetries + 1 /\ v.attempt = Len(x)
          /\ Effects(x) \subseteq 1..Len(x)
      BY <1>1, <1>2, RetriesAssumption, EffectsType DEF CallOK, CallType, SentOK, Invocation
    <2>3. name = "ok" => TimesOf(x) > 0
      <3>1. answer.ok => v.attempt \in Effects(x)
        BY <1>1, <2>2 DEF EndsAttempt, TellsTheAttempt, Effects
      <3> QED
        BY <1>1, <2>1, <3>1, EffectsType
    <2>4. name = "refused" /\ NotToRepeat(AskedOf(v)) => TimesOf(x) = 0
      <3> SUFFICES ASSUME name = "refused", NotToRepeat(AskedOf(v)) PROVE Effects(x) = {}
        BY <1>1, EffectsType
      <3>1. v.attempt = 1
        <4>1. NotToRepeat(v.input.operation) /\ SentOK(v) /\ v.phase # "idle"
          BY <1>1, <1>2, <1>3 DEF CallOK
        <4> HIDE DEF v, w, x
        <4>2. v.attempt \in {0, 1}
          BY <1>1, <4>1, OnceSentOnce
        <4> QED
          BY <2>2, <4>2
      <3>2. ~ answer.ok /\ ~ answer.retryable /\ ~ Doubt(v, x)
        BY <2>1
      <3>3. 1 \notin Effects(x)
        BY <3>1, <3>2 DEF EndsAttempt, TellsTheAttempt, TellsFinal, Doubt, Effects
      <3> QED
        BY <2>2, <3>1, <3>3
    <2> HIDE DEF v, w
    <2>5. /\ AskedNow' = AskedNow /\ AskedNow[i] = AskedOf(v)
          /\ AnswersNow' = [AnswersNow EXCEPT ![i] = name] /\ AnswersNow[i] = "open"
          /\ TimesNow' = TimesNow /\ TimesNow[i] = TimesOf(x)
      BY <1>2, <1>3, <1>4, <2>1, OneCallAbstract DEF v
    <2>6. Contract!Answer(i, name)
      BY <2>3, <2>4, <2>5, ContractSteps, Zenon
    <2> QED
      BY <2>1, <2>6 DEF Contract!ContractNext
  <1> QED
    BY <1>5, <1>6

LEMMA WakeStep ==
  ASSUME AdapterInv, NEW i \in Invocations, Wake(i)
  PROVE  UNCHANGED Contract!contractVars
  <1> DEFINE v == invocations[i]
             w == [v EXCEPT !.phase = "fetching", !.attempt = v.attempt + 1]
             x == Append(exchanges[i], NewExchange)
  <1>1. /\ v \in Invocation /\ v.phase = "sleeping" /\ exchanges[i] \in Seq(Exchange)
        /\ GoesOnAs(i, w, x)
    BY DEF Wake, AdapterInv, GoesOnAs
  <1>2. AskedOf(w) = AskedOf(v) /\ AnswerOf(w, x) = AnswerOf(v, exchanges[i])
    <2>1. v.answer = NoAnswer
      BY <1>1 DEF AdapterInv, CallOK, SentOK
    <2>2. w.input = v.input /\ w.answer = v.answer /\ w.phase = "fetching"
      BY <1>1 DEF Invocation
    <2> HIDE DEF w, x
    <2> QED
      BY <1>1, <2>1, <2>2, NoTimes DEF AskedOf, AnswerOf
  <1>3. Effects(x) = Effects(exchanges[i])
    BY <1>1 DEF Effects, NewExchange
  <1> HIDE DEF v, w, x
  <1> QED
    BY <1>1, <1>2, <1>3, OneCallAbstract, ContractSteps DEF TimesOf, v

\* The adapter keeps the contract the executor relies on, for any number of retries and
\* whatever Appwrite does, as early or late as it likes (canRetryRequest, buildRequest,
\* performHttpRequest).
THEOREM ContractKept == Spec => ImplementsContract
  <1>1. Init => Contract!ContractInit
    <2> SUFFICES ASSUME Init PROVE Contract!ContractInit
      OBVIOUS
    <2>1. \A i \in Invocations : CarriedOut(i) = {}
      BY DEF Init, CarriedOut
    <2>2. Cardinality({}) = 0
      BY FS_EmptySet
    <2> QED
      BY <2>1, <2>2 DEF Init, IdleInvocation, Contract!ContractInit
  <1>2. AdapterInv /\ [Next]_adapterVars => [Contract!ContractNext]_Contract!contractVars
    <2> SUFFICES ASSUME AdapterInv, [Next]_adapterVars
                 PROVE  Contract!ContractNext \/ UNCHANGED Contract!contractVars
      OBVIOUS
    <2>1. CASE UNCHANGED adapterVars
      BY <2>1, ContractSteps DEF adapterVars, AskedNow, AnswersNow, TimesNow, AskedOf,
                                 AnswerOf, Doubt, TimesOf, Effects
    <2>2. CASE Next
      BY <2>2, StartStep, UpstreamActsStep, HeadersArriveStep, BodyEndsAttempt,
         ThrowEndsAttempt, EndsAttemptStep, WakeStep DEF Next
    <2> QED
      BY <2>1, <2>2
  <1> QED
    BY <1>1, <1>2, AdapterInvariant, PTL DEF Spec, ImplementsContract, Contract!ContractSpec
=============================================================================
