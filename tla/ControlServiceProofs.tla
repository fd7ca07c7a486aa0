------------------------ MODULE ControlServiceProofs ------------------------
(***************************************************************************)
(* What the control service lets through to the executor, and what its log *)
(* and its replies say of it. The argument: the hash of a plan names its   *)
(* actor, targets and operations, so an apply whose hash agrees with a     *)
(* plan in the store asks for what that plan shows (SameHash); the service *)
(* then drives the executor within its own specification, and what was     *)
(* admitted with an apply stays true of its run for good (Admitted). So    *)
(* all that is proved of the executor holds here, its log and its refusals *)
(* included, and is read against what was admitted.                        *)
(***************************************************************************)
EXTENDS ControlService, ExecutorReportsProofs

HashOf(request) ==
    CreatePlanHash(request.actor, "preview", Resolved(request).targets,
                   NormalizeRequestOperations(request))

\* plan shows what request asks for.
Shows(plan, request) ==
    /\ plan.actor = request.actor
    /\ plan.plan_hash = HashOf(request)
    /\ plan.target_projects = Resolved(request).targets
    /\ plan.operations =
         [i \in DOMAIN NormalizeRequestOperations(request) |->
            ToPlanDescriptor(NormalizeRequestOperations(request)[i],
                             Len(Resolved(request).targets))]
    /\ plan.required_scopes =
         UNION {NormalizeRequestOperations(request)[i].required_scopes :
                   i \in DOMAIN NormalizeRequestOperations(request)}

PlansInv ==
    /\ \A q \in previewed : q.request \in Requests /\ Shows(q.plan, q.request)
    /\ \A p \in DOMAIN planStore :
         \E q \in previewed : q.plan = planStore[p] /\ q.boot = boot

-----------------------------------------------------------------------------
(* Requests and hashes *)

LEMMA NormalOperation ==
  ASSUME NEW request \in Requests, NEW i \in DOMAIN request.operations
  PROVE  LET asked == request.operations[i]
             normal == NormalizeRequestOperations(request)[i]
         IN  /\ normal.operation_id = asked.operation_id
             /\ normal.action = asked.action
             /\ normal.params = asked.params
             /\ normal.idempotency_key = asked.idempotency_key
             /\ normal.destructive = asked.destructive
             /\ normal.critical = asked.critical
             /\ OperationFields \subseteq DOMAIN normal
             /\ i \in DOMAIN NormalizeRequestOperations(request)
  <1> DEFINE asked == request.operations[i]
             scopes == ActionRequiredScopes[asked.action] \cup asked.required_scopes
  <1>1. OperationFields \subseteq DOMAIN asked
    BY RequestFieldsAssumption
  <1>2. /\ NormalizeRequestOperations(request)[i] = [asked EXCEPT !.required_scopes = scopes]
        /\ i \in DOMAIN NormalizeRequestOperations(request)
    BY DEF NormalizeRequestOperations, WithInferredRequiredScopes
  <1> HIDE DEF asked, scopes
  <1> QED
    BY <1>1, <1>2 DEF asked, OperationFields

LEMMA HashOperation ==
  ASSUME NEW request \in Requests, NEW i \in DOMAIN request.operations
  PROVE  LET normal == NormalizeRequestOperations(request)[i]
             hashed == HashOf(request).operations[i]
         IN  /\ hashed.critical = Critical(normal, Len(Resolved(request).targets))
             /\ hashed.operation_id = normal.operation_id
             /\ hashed.action = normal.action
             /\ hashed.params = normal.params
             /\ hashed.idempotency_key = normal.idempotency_key
             /\ hashed.required_scopes = normal.required_scopes
  <1> DEFINE all == NormalizeRequestOperations(request)
             normal == all[i]
             count == Len(Resolved(request).targets)
  <1>1. i \in DOMAIN all /\ OperationFields \subseteq DOMAIN normal
    BY NormalOperation
  <1>2. HashOf(request).operations =
          [j \in DOMAIN all |-> [all[j] EXCEPT !.destructive = Destructive(all[j]),
                                               !.critical = Critical(all[j], count)]]
    BY DEF HashOf, CreatePlanHash
  <1> HIDE DEF all
  <1>3. HashOf(request).operations[i] =
          [normal EXCEPT !.destructive = Destructive(normal),
                         !.critical = Critical(normal, count)]
    BY <1>1, <1>2
  <1> HIDE DEF normal, count
  <1>4. /\ {"operation_id", "action", "params", "idempotency_key", "required_scopes"}
             \subseteq DOMAIN normal
        /\ "critical" \in DOMAIN normal
    BY <1>1 DEF OperationFields
  <1> QED
    BY <1>3, <1>4 DEF normal, count, all

\* A plan shows each operation of its request, as critical as the hash says.
LEMMA HashDomain ==
  ASSUME NEW request
  PROVE  /\ DOMAIN HashOf(request).operations = DOMAIN request.operations
         /\ DOMAIN NormalizeRequestOperations(request) = DOMAIN request.operations
         /\ HashOf(request).actor = request.actor
         /\ HashOf(request).target_projects = Resolved(request).targets
  BY DEF HashOf, CreatePlanHash, NormalizeRequestOperations, WithInferredRequiredScopes

\* Requests with one hash ask for the same, by the same actor, of the same projects.
LEMMA SameHash ==
  ASSUME NEW r \in Requests, NEW q \in Requests, HashOf(r) = HashOf(q)
  PROVE  /\ r.actor = q.actor
         /\ Resolved(r).targets = Resolved(q).targets
         /\ DOMAIN r.operations = DOMAIN q.operations
         /\ \A i \in DOMAIN r.operations :
              LET asked == NormalizeRequestOperations(r)[i]
                  shown == q.operations[i]
              IN  /\ asked.operation_id = shown.operation_id
                  /\ asked.action = shown.action
                  /\ asked.params = shown.params
                  /\ asked.idempotency_key = shown.idempotency_key
                  /\ asked.required_scopes
                       = NormalizeRequestOperations(q)[i].required_scopes
                  /\ Critical(asked, Len(Resolved(r).targets))
                       = Critical(NormalizeRequestOperations(q)[i],
                                  Len(Resolved(q).targets))
  <1>1. /\ r.actor = q.actor
        /\ Resolved(r).targets = Resolved(q).targets
        /\ DOMAIN r.operations = DOMAIN q.operations
    BY HashDomain
  <1>2. ASSUME NEW i \in DOMAIN r.operations
        PROVE  LET asked == NormalizeRequestOperations(r)[i]
                   shown == q.operations[i]
               IN  /\ asked.operation_id = shown.operation_id
                   /\ asked.action = shown.action
                   /\ asked.params = shown.params
                   /\ asked.idempotency_key = shown.idempotency_key
                   /\ asked.required_scopes
                        = NormalizeRequestOperations(q)[i].required_scopes
                   /\ Critical(asked, Len(Resolved(r).targets))
                        = Critical(NormalizeRequestOperations(q)[i],
                                   Len(Resolved(q).targets))
    <2> DEFINE asked == NormalizeRequestOperations(r)[i]
               normal == NormalizeRequestOperations(q)[i]
               shown == q.operations[i]
    <2>1. i \in DOMAIN q.operations
      BY <1>1
    <2>2. /\ normal.operation_id = shown.operation_id /\ normal.action = shown.action
          /\ normal.params = shown.params
          /\ normal.idempotency_key = shown.idempotency_key
      BY <2>1, NormalOperation
    <2>3. /\ asked.operation_id = normal.operation_id /\ asked.action = normal.action
          /\ asked.params = normal.params
          /\ asked.idempotency_key = normal.idempotency_key
          /\ asked.required_scopes = normal.required_scopes
          /\ Critical(asked, Len(Resolved(r).targets))
               = Critical(normal, Len(Resolved(q).targets))
      BY <1>2, <2>1, HashOperation
    <2> QED
      BY <2>2, <2>3
  <1> QED
    BY <1>1, <1>2

-----------------------------------------------------------------------------
(* What an admitted apply has passed *)

LEMMA Admission ==
  ASSUME NEW request, NEW plan_id, NEW plan_hash, NEW token,
         AdmissionError(request, plan_id, plan_hash, token) = "none"
  PROVE  /\ PreparationError(request) = "none"
         /\ plan_id \in DOMAIN planStore
         /\ now < planStore[plan_id].expires_at
         /\ planStore[plan_id].plan_hash = plan_hash
         /\ HashOf(request) = plan_hash
         /\ GlobalCredentialError(planStore[plan_id]) = "none"
         /\ ConfirmationError(planStore[plan_id], token) = "none"
  <1>1. /\ PreparationError(request) = "none"
        /\ MatchesPlan(planStore, plan_id, plan_hash, request.actor,
                       Resolved(request).targets, NormalizeRequestOperations(request), now)
        /\ GlobalCredentialError(planStore[plan_id]) = "none"
        /\ ConfirmationError(planStore[plan_id], token) = "none"
    BY DEF AdmissionError
  <1> QED
    BY <1>1 DEF MatchesPlan, BuildPlan, HashOf

LEMMA Confirmation ==
  ASSUME NEW plan, NEW token, ConfirmationError(plan, token) = "none", IsCritical(plan)
  PROVE  /\ token # NoToken
         /\ token.secret = ConfirmationSecrets[boot]
         /\ token.plan_hash = plan.plan_hash
         /\ ~ (token.exp <= Seconds(now))
  <1> DEFINE verdict == Verify(ConfirmationSecrets[boot], token, plan.plan_hash, Seconds(now))
  <1>1. verdict \in {"ok", "expired", "invalid", "mismatch"}
    BY DEF Verify
  <1>2. token # NoToken /\ verdict = "ok"
    BY <1>1 DEF ConfirmationError
  <1> QED
    BY <1>2 DEF Verify

\* An apply that is admitted asks for what a plan of the store shows.
LEMMA AdmittedShown ==
  ASSUME PlansInv, NEW request \in Requests, NEW plan_id, NEW plan_hash, NEW token,
         AdmissionError(request, plan_id, plan_hash, token) = "none"
  PROVE  /\ planStore[plan_id].plan_hash = HashOf(request)
         /\ planStore[plan_id].target_projects = Resolved(request).targets
         /\ JobOf(request, planStore[plan_id]) \in Jobs
         /\ \E q \in previewed : q.plan = planStore[plan_id] /\ q.boot = boot
  <1>1. PICK q \in previewed : q.plan = planStore[plan_id] /\ q.boot = boot
    BY Admission DEF PlansInv
  <1>2. q.request \in Requests /\ Shows(q.plan, q.request)
    BY DEF PlansInv
  <1>3. HashOf(request) = q.plan.plan_hash /\ HashOf(request) = HashOf(q.request)
    BY <1>1, <1>2, Admission DEF Shows
  <1>4. planStore[plan_id].target_projects = Resolved(request).targets
    BY <1>1, <1>2, <1>3, SameHash DEF Shows
  <1>5. PreparationError(request) = "none"
    BY Admission
  <1> QED
    BY <1>1, <1>3, <1>4, <1>5, RequestsAssumption DEF JobOf

-----------------------------------------------------------------------------
(* The service drives the executor *)

LEMMA PlanForShows ==
  ASSUME NEW p, NEW request
  PROVE  Shows(PlanFor(p, request), request)
  BY DEF PlanFor, BuildPlan, Shows, HashOf

LEMMA PreviewPlans ==
  ASSUME PlansInv, NEW p \in PlanIds, NEW request \in Requests, Preview(p, request)
  PROVE  PlansInv'
  <1> DEFINE plan == PlanFor(p, request)
             told == [plan |-> plan, request |-> request, boot |-> boot]
  <1>1. /\ planStore' = Put(planStore, p, plan) /\ previewed' = previewed \cup {told}
        /\ boot' = boot
    BY DEF Preview, vars
  <1>2. Shows(plan, request) /\ told.plan = plan /\ told.request = request /\ told.boot = boot
    BY PlanForShows
  <1> HIDE DEF plan, told
  <1>3. \A q \in previewed' : q.request \in Requests /\ Shows(q.plan, q.request)
    BY <1>1, <1>2 DEF PlansInv
  <1>4. /\ DOMAIN planStore' = DOMAIN planStore \cup {p} /\ planStore'[p] = plan
        /\ \A k \in DOMAIN planStore \ {p} : planStore'[k] = planStore[k]
    BY <1>1 DEF Put
  <1>5. ASSUME NEW k \in DOMAIN planStore'
        PROVE  \E q \in previewed' : q.plan = planStore'[k] /\ q.boot = boot'
    <2>1. CASE k = p
      BY <1>1, <1>2, <1>4, <2>1
    <2>2. CASE k # p
      <3>1. k \in DOMAIN planStore /\ planStore'[k] = planStore[k]
        BY <1>4, <2>2
      <3> QED
        BY <1>1, <3>1 DEF PlansInv
    <2> QED
      BY <2>1, <2>2
  <1> QED
    BY <1>3, <1>5 DEF PlansInv

LEMMA ExecutorKeepsBoot ==
  ASSUME NEW c \in Correlations
  PROVE  /\ \A job : Execute(c, job) => boot' = boot
         /\ \A ok : AdapterReturns(c, ok) => boot' = boot
         /\ Resume(c) => boot' = boot
  BY DEF Execute, AdapterReturns, Resume

LEMMA PlansStep ==
  ASSUME PlansInv, [ServiceNext]_serviceVars
  PROVE  PlansInv'
  <1>1. ASSUME NEW p \in PlanIds, NEW request \in Requests, Preview(p, request)
        PROVE  PlansInv'
    BY <1>1, PreviewPlans
  <1>2. ASSUME NEW plan_hash, NEW ttl, IssueConfirmationToken(plan_hash, ttl)
        PROVE  PlansInv'
    BY <1>2 DEF IssueConfirmationToken, vars, PlansInv
  <1>3. ASSUME NEW c \in Correlations, NEW request, NEW plan_id, NEW plan_hash, NEW token,
               Apply(c, request, plan_id, plan_hash, token)
        PROVE  PlansInv'
    BY <1>3, ExecutorKeepsBoot DEF Apply, PlansInv
  <1>4. CASE ExecutorStep
    BY <1>4, ExecutorKeepsBoot DEF ExecutorStep, PlansInv
  <1>5. CASE Tick
    BY <1>5 DEF Tick, vars, PlansInv
  <1>6. CASE ServiceRestart
    <2>1. DOMAIN planStore' = {} /\ previewed' = previewed
      BY <1>6, EmptySeq DEF ServiceRestart
    <2> QED
      BY <2>1 DEF PlansInv
  <1>7. CASE UNCHANGED serviceVars
    BY <1>7 DEF serviceVars, vars, PlansInv
  <1> QED
    BY <1>1, <1>2, <1>3, <1>4, <1>5, <1>6, <1>7 DEF ServiceNext

LEMMA PlansInvariant == ServiceSpec => []PlansInv
  <1>1. ServiceInit => PlansInv
    BY EmptySeq DEF ServiceInit, PlansInv
  <1> QED
    BY <1>1, PlansStep, PTL DEF ServiceSpec

\* A step of the service is a step of the executor, or none of its business.
LEMMA ServiceStepExecutes ==
  ASSUME PlansInv, [ServiceNext]_serviceVars
  PROVE  [Next]_vars
  <1>1. ASSUME NEW c \in Correlations, NEW request \in Requests, NEW plan_id,
               NEW plan_hash, NEW token, Apply(c, request, plan_id, plan_hash, token)
        PROVE  Next
    BY <1>1, AdmittedShown DEF Apply, Next
  <1>2. CASE ExecutorStep
    BY <1>2 DEF ExecutorStep, Next
  <1>3. CASE ServiceRestart
    BY <1>3 DEF ServiceRestart, Next
  <1>4. ASSUME \/ \E p, request : Preview(p, request)
               \/ \E plan_hash, ttl : IssueConfirmationToken(plan_hash, ttl)
               \/ Tick
               \/ UNCHANGED serviceVars
        PROVE  UNCHANGED vars
    BY <1>4 DEF Preview, IssueConfirmationToken, Tick, serviceVars
  <1> QED
    BY <1>1, <1>2, <1>3, <1>4 DEF ServiceNext

\* The service drives the executor as the executor's own specification allows, whatever
\* clients send: what is admitted is a job the executor was specified for, since the
\* targets of the plan and of the request agree (requireMatchingPlan before execute()).
THEOREM ServiceExecutes == ServiceSpec => ImplementsExecutor
  <1>1. ServiceInit => Init
    BY DEF ServiceInit
  <1>2. PlansInv /\ [ServiceNext]_serviceVars => [Next]_vars
    BY ServiceStepExecutes
  <1> QED
    BY <1>1, <1>2, PlansInvariant, PTL DEF ServiceSpec, Spec, ImplementsExecutor

-----------------------------------------------------------------------------
(* What was admitted stays true of the run *)

\* A step of the executor leaves the job and the process of every run as they are.
RunsKept ==
    \A c \in Correlations : runs[c].phase # "unused" =>
        /\ runs'[c].phase # "unused"
        /\ runs'[c].job = runs[c].job /\ runs'[c].boot = runs[c].boot

LEMMA GoesOnKeeps ==
  ASSUME NEW c \in Correlations, NEW job, NEW b, GoesOn(c, job, b),
         runs[c].phase = "unused" \/ (runs[c].job = job /\ runs[c].boot = b)
  PROVE  RunsKept
  BY DEF GoesOn, RunsKept

LEMMA ExecutorKeepsRuns ==
  ASSUME TypeOK, [Next]_vars
  PROVE  RunsKept
  <1>1. ASSUME NEW c \in Correlations, NEW job \in Jobs, Execute(c, job) PROVE RunsKept
    BY <1>1, ExecuteGoesOn, GoesOnKeeps DEF Execute
  <1>2. ASSUME NEW c \in Correlations, NEW ok \in BOOLEAN, AdapterReturns(c, ok)
        PROVE  RunsKept
    <2> DEFINE result == IF ok THEN Success(CurrentOperation(runs[c]), CallId(c, runs[c]))
                         ELSE Failure(CurrentOperation(runs[c]), "UPSTREAM")
               next == [runs[c] EXCEPT !.phase = "returned", !.pending = result]
    <2>1. runs' = [runs EXCEPT ![c] = next]
      BY <1>2 DEF AdapterReturns
    <2> HIDE DEF result
    <2>2. next.job = runs[c].job /\ next.boot = runs[c].boot /\ next.phase = "returned"
      BY DEF TypeOK, Run
    <2> HIDE DEF next
    <2> QED
      BY <2>1, <2>2 DEF RunsKept, TypeOK
  <1>3. ASSUME NEW c \in Correlations, Resume(c) PROVE RunsKept
    BY <1>3, ResumeGoesOn, GoesOnKeeps
  <1>4. CASE Restart
    BY <1>4 DEF Restart, RunsKept, TypeOK, Run
  <1>5. CASE UNCHANGED vars
    BY <1>5 DEF vars, RunsKept
  <1> QED
    BY <1>1, <1>2, <1>3, <1>4, <1>5 DEF Next

\* Among the tokens given out, one for plan hash h of incarnation b with time left at t.
Confirmed(given, token, b, h, t) ==
    \E k \in given :
        /\ k.token = token
        /\ k.token.secret = ConfirmationSecrets[b] /\ k.token.plan_hash = h
        /\ t < k.expires_at

\* What admission has checked, of the job a run has.
Admitted(told, given, apply, run) ==
    /\ apply.request \in Requests
    /\ run.job = JobOf(apply.request, apply.plan)
    /\ run.job \in Jobs
    /\ apply.plan.plan_hash = HashOf(apply.request)
    /\ apply.at < apply.plan.expires_at
    /\ GlobalCredentialError(apply.plan) = "none"
    /\ \E q \in told : q.plan = apply.plan /\ q.boot = run.boot
    /\ IsCritical(apply.plan) =>
         /\ apply.token # NoToken
         /\ Confirmed(given, apply.token, run.boot, apply.plan.plan_hash, apply.at)

TimesInv ==
    /\ now \in Nat
    /\ \A k \in tokens : k.expires_at \in Nat /\ k.token.exp = Seconds(k.expires_at)

AdmittedInv ==
    /\ applies = [c \in Correlations |-> applies[c]]
    /\ \A c \in Correlations : runs[c].phase # "unused" =>
         Admitted(previewed, tokens, applies[c], runs[c])

\* A second that has not begun has no moment before now.
LEMMA WholeSeconds ==
  ASSUME NEW t \in Nat, NEW e \in Nat, ~ (Seconds(e) <= Seconds(t))
  PROVE  t < e
  <1> SUFFICES ASSUME e <= t PROVE Seconds(e) <= Seconds(t)
    OBVIOUS
  <1> QED
    BY ClockAssumption DEF Seconds

LEMMA TimesInvariant == ServiceSpec => []TimesInv
  <1>1. ServiceInit => TimesInv
    BY DEF ServiceInit, TimesInv
  <1>2. TimesInv /\ [ServiceNext]_serviceVars => TimesInv'
    <2> SUFFICES ASSUME TimesInv, [ServiceNext]_serviceVars PROVE TimesInv'
      OBVIOUS
    <2>1. ASSUME NEW plan_hash, NEW ttl \in TokenTtls, IssueConfirmationToken(plan_hash, ttl)
          PROVE  TimesInv'
      <3> DEFINE e == now + ttl * TicksPerSecond
                 issued == [token |-> Issue(ConfirmationSecrets[boot], plan_hash, Seconds(e)),
                            expires_at |-> e]
      <3>1. e \in Nat
        BY ClockAssumption DEF TimesInv
      <3>2. issued.expires_at = e /\ issued.token.exp = Seconds(e)
        BY DEF Issue
      <3>3. tokens' = tokens \cup {issued} /\ now' = now
        BY <2>1 DEF IssueConfirmationToken
      <3> HIDE DEF e, issued
      <3> QED
        BY <3>1, <3>2, <3>3 DEF TimesInv
    <2>2. CASE Tick
      BY <2>2 DEF Tick, TimesInv
    <2>3. ASSUME UNCHANGED <<now, tokens>> PROVE TimesInv'
      BY <2>3 DEF TimesInv
    <2> QED
      BY <2>1, <2>2, <2>3 DEF ServiceNext, Preview, Apply, ExecutorStep, ServiceRestart,
                              serviceVars
  <1> QED
    BY <1>1, <1>2, PTL DEF ServiceSpec

\* More plans told and more tokens given take nothing away.
LEMMA AdmittedStays ==
  ASSUME NEW told, NEW given, NEW apply, NEW run, Admitted(told, given, apply, run),
         NEW told2, told \subseteq told2, NEW given2, given \subseteq given2,
         NEW after, after.job = run.job, after.boot = run.boot
  PROVE  Admitted(told2, given2, apply, after)
  BY DEF Admitted, Confirmed

LEMMA ApplyAdmits ==
  ASSUME TypeOK, PlansInv, TimesInv, AdmittedInv,
         NEW c \in Correlations, NEW request \in Requests, NEW plan_id, NEW plan_hash,
         NEW token \in TokensClaimed, Apply(c, request, plan_id, plan_hash, token)
  PROVE  AdmittedInv'
  <1> DEFINE plan == planStore[plan_id]
             job == JobOf(request, plan)
             apply == [request |-> request, plan |-> plan, token |-> token, at |-> now]
  <1>1. /\ AdmissionError(request, plan_id, plan_hash, token) = "none"
        /\ applies' = [applies EXCEPT ![c] = apply]
        /\ Execute(c, job)
        /\ previewed' = previewed /\ tokens' = tokens
    BY DEF Apply
  <1>2. /\ plan.plan_hash = HashOf(request)
        /\ job \in Jobs
        /\ \E q \in previewed : q.plan = plan /\ q.boot = boot
    BY <1>1, AdmittedShown
  <1>3. /\ now < plan.expires_at /\ GlobalCredentialError(plan) = "none"
        /\ ConfirmationError(plan, token) = "none"
    BY <1>1, Admission
  <1>4. IsCritical(plan) => /\ token # NoToken
                            /\ Confirmed(tokens, token, boot, plan.plan_hash, now)
    <2> SUFFICES ASSUME IsCritical(plan)
                 PROVE  /\ token # NoToken
                        /\ Confirmed(tokens, token, boot, plan.plan_hash, now)
      OBVIOUS
    <2> HIDE DEF plan
    <2>1. /\ token # NoToken /\ token.secret = ConfirmationSecrets[boot]
          /\ token.plan_hash = plan.plan_hash /\ ~ (token.exp <= Seconds(now))
      BY <1>3, Confirmation
    <2>2. PICK k \in tokens : k.token = token
      BY <2>1 DEF TokensClaimed
    <2>3. now < k.expires_at
      BY <2>1, <2>2, WholeSeconds DEF TimesInv
    <2> QED
      BY <2>1, <2>2, <2>3 DEF Confirmed
  <1>5. runs'[c].job = job /\ runs'[c].boot = boot
    BY <1>1, <1>2, ExecuteGoesOn DEF GoesOn
  <1>6. \A d \in Correlations \ {c} : runs'[d] = runs[d]
    BY <1>1, <1>2, ExecuteGoesOn DEF GoesOn
  <1>7. /\ apply.request = request /\ apply.plan = plan
        /\ apply.token = token /\ apply.at = now
    OBVIOUS
  <1> HIDE DEF plan, job, apply
  <1>8. Admitted(previewed, tokens, apply, runs'[c])
    BY <1>1, <1>2, <1>3, <1>4, <1>5, <1>7 DEF Admitted, Confirmed, job
  <1>9. applies'[c] = apply /\ \A d \in Correlations \ {c} : applies'[d] = applies[d]
    BY <1>1 DEF AdmittedInv
  <1>10. ASSUME NEW d \in Correlations, runs'[d].phase # "unused"
         PROVE  Admitted(previewed, tokens, applies'[d], runs'[d])
    BY <1>6, <1>8, <1>9, <1>10 DEF AdmittedInv
  <1>11. applies' = [d \in Correlations |-> applies'[d]]
    BY <1>1 DEF AdmittedInv
  <1> QED
    BY <1>1, <1>10, <1>11 DEF AdmittedInv

\* Only an apply starts a run.
LEMMA NoneStarts ==
  ASSUME TypeOK,
         ExecutorStep \/ ServiceRestart \/ UNCHANGED vars
  PROVE  \A c \in Correlations : runs'[c].phase # "unused" => runs[c].phase # "unused"
  <1>1. ASSUME NEW c \in Correlations, NEW ok, AdapterReturns(c, ok)
        PROVE  runs[c].phase # "unused" /\ \A d \in Correlations \ {c} : runs'[d] = runs[d]
    BY <1>1 DEF AdapterReturns, TypeOK
  <1>2. ASSUME NEW c \in Correlations, Resume(c)
        PROVE  runs[c].phase # "unused" /\ \A d \in Correlations \ {c} : runs'[d] = runs[d]
    BY <1>2, ResumeGoesOn DEF Resume, GoesOn
  <1>3. CASE ServiceRestart
    BY <1>3 DEF ServiceRestart, Restart
  <1>4. CASE UNCHANGED vars
    BY <1>4 DEF vars
  <1> QED
    BY <1>1, <1>2, <1>3, <1>4 DEF ExecutorStep

LEMMA AdmittedStep ==
  ASSUME TypeOK, PlansInv, TimesInv, AdmittedInv, [ServiceNext]_serviceVars
  PROVE  AdmittedInv'
  <1>1. ASSUME NEW c \in Correlations, NEW request \in Requests, NEW plan_id, NEW plan_hash,
               NEW token \in TokensClaimed, Apply(c, request, plan_id, plan_hash, token)
        PROVE  AdmittedInv'
    BY <1>1, ApplyAdmits
  <1>2. ASSUME applies' = applies, previewed \subseteq previewed', tokens \subseteq tokens',
               ExecutorStep \/ ServiceRestart \/ UNCHANGED vars
        PROVE  AdmittedInv'
    <2>1. RunsKept
      BY ServiceStepExecutes, ExecutorKeepsRuns
    <2>2. \A c \in Correlations : runs'[c].phase # "unused" => runs[c].phase # "unused"
      BY <1>2, NoneStarts
    <2>3. ASSUME NEW c \in Correlations, runs'[c].phase # "unused"
          PROVE  Admitted(previewed', tokens', applies'[c], runs'[c])
      <3>1. Admitted(previewed, tokens, applies[c], runs[c])
        BY <2>2, <2>3 DEF AdmittedInv
      <3>2. runs'[c].job = runs[c].job /\ runs'[c].boot = runs[c].boot
        BY <2>1, <2>2, <2>3 DEF RunsKept
      <3> QED
        BY <1>2, <3>1, <3>2, AdmittedStays
    <2> QED
      BY <1>2, <2>3 DEF AdmittedInv
  <1>3. ASSUME NEW p, NEW request, Preview(p, request) PROVE AdmittedInv'
    BY <1>2, <1>3 DEF Preview
  <1>4. ASSUME NEW plan_hash, NEW ttl, IssueConfirmationToken(plan_hash, ttl)
        PROVE  AdmittedInv'
    BY <1>2, <1>4 DEF IssueConfirmationToken
  <1>5. CASE ExecutorStep
    BY <1>2, <1>5 DEF ExecutorStep
  <1>6. CASE Tick
    BY <1>2, <1>6 DEF Tick
  <1>7. CASE ServiceRestart
    BY <1>2, <1>7 DEF ServiceRestart
  <1>8. CASE UNCHANGED serviceVars
    BY <1>2, <1>8 DEF serviceVars
  <1> QED
    BY <1>1, <1>3, <1>4, <1>5, <1>6, <1>7, <1>8 DEF ServiceNext

LEMMA ExecutorInvariants == ServiceSpec => []TypeOK /\ []CallsInv
  BY ServiceExecutes, TypeCorrect, CallsInvariant, PTL DEF ImplementsExecutor

LEMMA ExecutorReports == ServiceSpec => []ReportsInv /\ []IdleInv
  BY ServiceExecutes, ReportsInvariant, IdleInvariant, PTL DEF ImplementsExecutor

LEMMA ExecutorLogs == ServiceSpec => [](TypeOK /\ ReportsInv /\ LogInv)
  BY ServiceExecutes, LogInvariant, PTL DEF ImplementsExecutor

LEMMA AdmittedInvariant == ServiceSpec => []AdmittedInv
  <1>1. ServiceInit => AdmittedInv
    BY DEF ServiceInit, Init, IdleRun, AdmittedInv
  <1> QED
    BY <1>1, AdmittedStep, ExecutorInvariants, PlansInvariant, TimesInvariant, PTL
       DEF ServiceSpec

-----------------------------------------------------------------------------
(* What reaches Appwrite was previewed, and confirmed where it must be *)

\* Where a call comes from.
LEMMA CallAdmitted ==
  ASSUME TypeOK, CallsInv, AdmittedInv, NEW k \in calls
  PROVE  LET c == k.id[1]
             run == runs[c]
             o == k.id[3]
         IN  /\ Admitted(previewed, tokens, applies[c], run)
             /\ k.project = run.job.targets[k.id[2]]
             /\ k.operation = run.job.operations[o]
             /\ o \in DOMAIN run.job.operations
  <1> DEFINE run == runs[k.id[1]]
  <1>1. /\ k.id[1] \in Correlations /\ run.phase # "unused"
        /\ k.project = run.job.targets[k.id[2]]
        /\ k.operation = run.job.operations[k.id[3]]
        /\ k.id[3] \in 1..Len(run.job.operations)
    BY CallOfRun DEF CallsInv, CallsFit
  <1>2. Admitted(previewed, tokens, applies[k.id[1]], run)
    BY <1>1 DEF AdmittedInv
  <1>3. run.job.operations \in Seq(Operations)
    BY <1>2, JobType DEF Admitted
  <1> QED
    BY <1>1, <1>2, <1>3

\* Whatever reaches Appwrite is what a preview of this incarnation showed at that place,
\* to the same actor and before the plan expired (OnlyPreviewedWork), whatever is asked
\* for, claimed and sent back.
THEOREM NothingUnseen == ServiceSpec => []OnlyPreviewedWork
  <1>1. TypeOK /\ CallsInv /\ PlansInv /\ AdmittedInv => OnlyPreviewedWork
    <2> SUFFICES ASSUME TypeOK, CallsInv, PlansInv, AdmittedInv, NEW k \in calls
                 PROVE  LET c == k.id[1]
                        IN  \E q \in previewed :
                              /\ q.plan.plan_id = applies[c].plan.plan_id
                              /\ q.boot = runs[c].boot
                              /\ applies[c].at < q.plan.expires_at
                              /\ q.request.actor = runs[c].job.actor
                              /\ k.project = q.plan.target_projects[k.id[2]]
                              /\ LET shown == q.request.operations[k.id[3]]
                                 IN  /\ k.operation.operation_id = shown.operation_id
                                     /\ k.operation.action = shown.action
                                     /\ k.operation.params = shown.params
                                     /\ k.operation.idempotency_key = shown.idempotency_key
      BY DEF OnlyPreviewedWork
    <2> DEFINE run == runs[k.id[1]]
               apply == applies[k.id[1]]
               asked == apply.request
    <2>1. /\ Admitted(previewed, tokens, apply, run)
          /\ k.project = run.job.targets[k.id[2]]
          /\ k.operation = run.job.operations[k.id[3]]
          /\ k.id[3] \in DOMAIN run.job.operations
      BY CallAdmitted
    <2> HIDE DEF run, apply
    <2>2. /\ asked \in Requests /\ apply.plan.plan_hash = HashOf(asked)
          /\ apply.at < apply.plan.expires_at
          /\ run.job.actor = asked.actor
          /\ run.job.operations = NormalizeRequestOperations(asked)
          /\ run.job.targets = Resolved(asked).targets
      BY <2>1 DEF Admitted, JobOf
    <2>3. PICK q \in previewed : q.plan = apply.plan /\ q.boot = run.boot
      BY <2>1 DEF Admitted
    <2>4. /\ q.request \in Requests /\ HashOf(asked) = HashOf(q.request)
          /\ q.plan.target_projects = Resolved(q.request).targets
      BY <2>2, <2>3 DEF PlansInv, Shows
    <2>5. k.id[3] \in DOMAIN asked.operations
      BY <2>1, <2>2, HashDomain
    <2>6. /\ asked.actor = q.request.actor
          /\ Resolved(asked).targets = Resolved(q.request).targets
          /\ LET shown == q.request.operations[k.id[3]]
             IN  /\ k.operation.operation_id = shown.operation_id
                 /\ k.operation.action = shown.action
                 /\ k.operation.params = shown.params
                 /\ k.operation.idempotency_key = shown.idempotency_key
      BY <2>1, <2>2, <2>4, <2>5, SameHash
    <2> QED
      BY <2>1, <2>2, <2>3, <2>4, <2>6 DEF run, apply
  <1> QED
    BY <1>1, ExecutorInvariants, PlansInvariant, AdmittedInvariant, PTL

\* A plan says it is critical when its request needs to be confirmed.
LEMMA CriticalShown ==
  ASSUME PlansInv, NEW q \in previewed, NEW request \in Requests,
         q.plan.plan_hash = HashOf(request),
         NeedsConfirmation(NormalizeRequestOperations(request), Resolved(request).targets)
  PROVE  IsCritical(q.plan)
  <1> DEFINE asked == NormalizeRequestOperations(request)
             shown == NormalizeRequestOperations(q.request)
  <1>1. /\ q.request \in Requests /\ HashOf(request) = HashOf(q.request)
        /\ q.plan.operations = [i \in DOMAIN shown |->
             ToPlanDescriptor(shown[i], Len(Resolved(q.request).targets))]
    BY DEF PlansInv, Shows
  <1>2. PICK i \in DOMAIN asked : Critical(asked[i], Len(Resolved(request).targets))
    BY DEF NeedsConfirmation, Critical, Destructive, DestructiveActions
  <1>3. i \in DOMAIN request.operations /\ i \in DOMAIN q.request.operations
    BY <1>1, <1>2, HashDomain, SameHash
  <1>4. i \in DOMAIN shown /\ Critical(shown[i], Len(Resolved(q.request).targets))
    BY <1>1, <1>2, <1>3, HashDomain, SameHash
  <1> HIDE DEF asked, shown
  <1> QED
    BY <1>1, <1>4 DEF IsCritical, ToPlanDescriptor

\* Nothing of a request that needs confirmation is sent without a token that was given
\* for its plan and had time left (CriticalWorkConfirmed), whatever the resolution of the
\* clock and the lives of plans and tokens.
THEOREM CriticalConfirmed == ServiceSpec => []CriticalWorkConfirmed
  <1>1. TypeOK /\ CallsInv /\ PlansInv /\ AdmittedInv => CriticalWorkConfirmed
    <2> SUFFICES ASSUME TypeOK, CallsInv, PlansInv, AdmittedInv, NEW k \in calls,
                        NeedsConfirmation(runs[k.id[1]].job.operations,
                                          runs[k.id[1]].job.targets)
                 PROVE  LET c == k.id[1]
                        IN  \E t \in tokens, q \in previewed :
                              /\ t.token = applies[c].token
                              /\ t.token.secret = ConfirmationSecrets[runs[c].boot]
                              /\ q.plan.plan_id = applies[c].plan.plan_id
                              /\ t.token.plan_hash = q.plan.plan_hash
                              /\ applies[c].at < t.expires_at
      BY DEF CriticalWorkConfirmed
    <2> DEFINE run == runs[k.id[1]]
               apply == applies[k.id[1]]
               asked == apply.request
    <2>1. Admitted(previewed, tokens, apply, run)
      BY CallAdmitted
    <2>2. NeedsConfirmation(run.job.operations, run.job.targets)
      OBVIOUS
    <2> HIDE DEF run, apply
    <2>3. /\ asked \in Requests /\ apply.plan.plan_hash = HashOf(asked)
          /\ run.job.operations = NormalizeRequestOperations(asked)
          /\ run.job.targets = Resolved(asked).targets
      BY <2>1 DEF Admitted, JobOf
    <2>4. PICK q \in previewed : q.plan = apply.plan /\ q.boot = run.boot
      BY <2>1 DEF Admitted
    <2>5. IsCritical(apply.plan)
      BY <2>2, <2>3, <2>4, CriticalShown
    <2>6. Confirmed(tokens, apply.token, run.boot, apply.plan.plan_hash, apply.at)
      BY <2>1, <2>5 DEF Admitted
    <2> QED
      BY <2>4, <2>6 DEF Confirmed, run, apply
  <1> QED
    BY <1>1, ExecutorInvariants, PlansInvariant, AdmittedInvariant, PTL

-----------------------------------------------------------------------------
(* The store *)

Current(told, b) == {q \in told : q.boot = b}

\* No plan was told by a process that has yet to start: a restart finds the store empty
\* and no plan of its own.
StoreInv ==
    /\ now \in 0..MaxTime
    /\ planStore = [p \in DOMAIN planStore |-> planStore[p]]
    /\ \A p \in DOMAIN planStore :
         /\ planStore[p].plan_id = p
         /\ \E q \in Current(previewed, boot) : q.plan = planStore[p]
    /\ \A q \in Current(previewed, boot) : q.plan.plan_id \in DOMAIN planStore
    /\ DOMAIN planned = DOMAIN planStore
    /\ \A p \in DOMAIN planned : planned[p] = LogPlanPreview(planStore[p])
    /\ \A q \in previewed : q.boot \in Nat /\ q.boot <= boot
    /\ \A q, r \in previewed : q.plan.plan_id = r.plan.plan_id => q = r
    /\ applies = [c \in Correlations |-> applies[c]]
    /\ \A c \in Correlations : runs[c].phase = "unused" => applies[c] = NoApply

LEMMA PreviewStores ==
  ASSUME TypeOK, StoreInv, NEW p \in PlanIds, NEW request \in Requests, Preview(p, request)
  PROVE  StoreInv'
  <1> DEFINE plan == PlanFor(p, request)
             told == [plan |-> plan, request |-> request, boot |-> boot]
  <1>1. /\ previewed' = previewed \cup {told} /\ p \notin {q.plan.plan_id : q \in previewed}
        /\ planStore' = Put(planStore, p, plan)
        /\ planned' = Put(planned, p, LogPlanPreview(plan))
        /\ UNCHANGED <<boot, runs, now, applies>>
    BY DEF Preview, vars
  <1>2. told.plan = plan /\ told.boot = boot /\ plan.plan_id = p
    BY DEF PlanFor, BuildPlan
  <1>3. boot \in Nat
    BY BootsAssumption DEF TypeOK
  <1> HIDE DEF plan, told
  <1>4. /\ DOMAIN planStore' = DOMAIN planStore \cup {p} /\ planStore'[p] = plan
        /\ \A k \in DOMAIN planStore \ {p} : planStore'[k] = planStore[k]
        /\ planStore' = [k \in DOMAIN planStore' |-> planStore'[k]]
    BY <1>1 DEF Put
  <1>5. /\ DOMAIN planned' = DOMAIN planned \cup {p} /\ planned'[p] = LogPlanPreview(plan)
        /\ \A k \in DOMAIN planned \ {p} : planned'[k] = planned[k]
    BY <1>1 DEF Put
  <1>6. Current(previewed', boot') = Current(previewed, boot) \cup {told}
    BY <1>1, <1>2 DEF Current
  <1>7. \A k \in DOMAIN planStore' :
           /\ planStore'[k].plan_id = k
           /\ \E q \in Current(previewed', boot') : q.plan = planStore'[k]
    BY <1>2, <1>4, <1>6 DEF StoreInv
  <1>8. \A q \in Current(previewed', boot') : q.plan.plan_id \in DOMAIN planStore'
    BY <1>2, <1>4, <1>6 DEF StoreInv
  <1>9. /\ \A q \in previewed' : q.boot \in Nat /\ q.boot <= boot'
        /\ \A q, r \in previewed' : q.plan.plan_id = r.plan.plan_id => q = r
    BY <1>1, <1>2, <1>3 DEF StoreInv
  <1>10. \A k \in DOMAIN planned' : planned'[k] = LogPlanPreview(planStore'[k])
    BY <1>4, <1>5 DEF StoreInv
  <1> QED
    BY <1>1, <1>4, <1>5, <1>7, <1>8, <1>9, <1>10 DEF StoreInv

LEMMA StoreStep ==
  ASSUME TypeOK, StoreInv, PlansInv, [ServiceNext]_serviceVars
  PROVE  StoreInv'
  <1>1. ASSUME NEW p \in PlanIds, NEW request \in Requests, Preview(p, request)
        PROVE  StoreInv'
    BY <1>1, PreviewStores
  <1>2. ASSUME UNCHANGED <<planStore, planned, previewed, boot>>, now' \in 0..MaxTime,
               applies' = [c \in Correlations |-> applies'[c]],
               \A c \in Correlations : runs'[c].phase = "unused" => applies'[c] = NoApply
        PROVE  StoreInv'
    BY <1>2 DEF StoreInv
  <1>3. ASSUME NEW plan_hash, NEW ttl, IssueConfirmationToken(plan_hash, ttl)
        PROVE  StoreInv'
    BY <1>2, <1>3 DEF IssueConfirmationToken, vars, StoreInv
  <1>4. ASSUME NEW c \in Correlations, NEW request \in Requests, NEW plan_id, NEW plan_hash,
               NEW token, Apply(c, request, plan_id, plan_hash, token)
        PROVE  StoreInv'
    <2> DEFINE job == JobOf(request, planStore[plan_id])
    <2>1. job \in Jobs /\ Execute(c, job)
      BY <1>4, AdmittedShown DEF Apply
    <2> HIDE DEF job
    <2>2. /\ runs'[c].phase # "unused" /\ boot' = boot
          /\ \A d \in Correlations \ {c} : runs'[d] = runs[d]
      BY <2>1, ExecuteGoesOn DEF GoesOn
    <2>3. \A d \in Correlations \ {c} : runs[d].phase = "unused" => applies'[d] = NoApply
      <3> SUFFICES ASSUME NEW d \in Correlations \ {c}, runs[d].phase = "unused"
                   PROVE  applies'[d] = applies[d]
        BY DEF StoreInv
      <3> QED
        BY <1>4 DEF Apply, StoreInv, NoApply
    <2> QED
      <3>1. applies' = [d \in Correlations |-> applies'[d]]
        BY <1>4 DEF Apply, StoreInv
      <3> QED
        BY <1>2, <1>4, <2>2, <2>3, <3>1 DEF Apply, StoreInv
  <1>5. RunsKept
    BY ServiceStepExecutes, ExecutorKeepsRuns
  <1>6. CASE ExecutorStep
    BY <1>2, <1>5, <1>6, ExecutorKeepsBoot DEF ExecutorStep, StoreInv, RunsKept
  <1>7. CASE Tick
    BY <1>2, <1>7, ClockAssumption DEF Tick, vars, StoreInv
  <1>8. CASE ServiceRestart
    <2>1. /\ boot \in Nat /\ boot' = boot + 1
          /\ planStore' = <<>> /\ planned' = <<>> /\ UNCHANGED <<previewed, now, applies>>
      BY <1>8, BootsAssumption DEF ServiceRestart, Restart, TypeOK
    <2>2. DOMAIN planStore' = {} /\ planned' = planStore'
      BY <2>1, EmptySeq
    <2>3. \A q \in previewed : q.boot <= boot' /\ q.boot # boot'
      BY <2>1 DEF StoreInv
    <2> QED
      BY <1>5, <2>1, <2>2, <2>3 DEF StoreInv, Current, RunsKept
  <1>9. CASE UNCHANGED serviceVars
    BY <1>2, <1>9 DEF serviceVars, vars, StoreInv
  <1> QED
    BY <1>1, <1>3, <1>4, <1>6, <1>7, <1>8, <1>9 DEF ServiceNext

LEMMA StoreInvariant == ServiceSpec => []StoreInv
  <1>1. ServiceInit => StoreInv
    BY ClockAssumption, EmptySeq DEF ServiceInit, Init, StoreInv, Current
  <1> QED
    BY <1>1, StoreStep, ExecutorInvariants, PlansInvariant, PTL DEF ServiceSpec

\* The store, the log of previews and the runs agree with what clients were told
\* (ServiceTypeOK): each plan under its own id, none of an earlier process.
THEOREM ServiceTypeCorrect == ServiceSpec => []ServiceTypeOK
  <1>1. TypeOK /\ StoreInv /\ AdmittedInv => ServiceTypeOK
    <2> SUFFICES ASSUME TypeOK, StoreInv, AdmittedInv PROVE ServiceTypeOK
      OBVIOUS
    <2> DEFINE own == {r \in previewed : r.boot = boot}
               plans == {q.plan : q \in own}
    <2>1. \A p \in DOMAIN planStore : planStore[p] \in plans
      BY DEF StoreInv, Current
    <2>2. planStore \in [DOMAIN planStore -> plans]
      <3> HIDE DEF plans
      <3> QED
        BY <2>1 DEF StoreInv
    <2>3. DOMAIN planStore = {q.plan.plan_id : q \in own}
      <3>1. \A p \in DOMAIN planStore : \E q \in own : q.plan.plan_id = p
        BY DEF StoreInv, Current
      <3>2. \A q \in own : q.plan.plan_id \in DOMAIN planStore
        BY DEF StoreInv, Current
      <3> HIDE DEF own
      <3> QED
        BY <3>1, <3>2
    <2>4. ASSUME NEW c \in Correlations, runs[c].phase # "unused"
          PROVE  applies[c] # NoApply
      BY <2>4, RequestFieldsAssumption DEF AdmittedInv, Admitted, NoApply
    <2> QED
      BY <2>2, <2>3, <2>4 DEF StoreInv, ServiceTypeOK
  <1> QED
    BY <1>1, ExecutorInvariants, StoreInvariant, AdmittedInvariant, PTL

-----------------------------------------------------------------------------
(* An honest client is let in *)

LEMMA LaterSecond ==
  ASSUME NEW t \in Nat, NEW e \in Nat, t + TicksPerSecond <= e
  PROVE  ~ (Seconds(e) <= Seconds(t))
  <1>1. Seconds(t + TicksPerSecond) = Seconds(t) + 1
    BY ClockAssumption DEF Seconds
  <1>2. Seconds(t + TicksPerSecond) <= Seconds(e)
    BY ClockAssumption DEF Seconds
  <1>3. Seconds(t) \in Nat /\ Seconds(e) \in Nat
    BY ClockAssumption DEF Seconds
  <1> QED
    BY <1>1, <1>2, <1>3

\* The plan's criticality is that of the request, whose flags preparation leaves alone.
LEMMA CriticalAsAsked ==
  ASSUME PlansInv, NEW q \in previewed
  PROVE  IsCritical(q.plan)
           <=> NeedsConfirmation(q.request.operations, q.plan.target_projects)
  <1> DEFINE asked == q.request.operations
             normal == NormalizeRequestOperations(q.request)
             targets == q.plan.target_projects
  <1>1. /\ q.request \in Requests /\ DOMAIN normal = DOMAIN asked
        /\ q.plan.operations =
             [i \in DOMAIN normal |-> ToPlanDescriptor(normal[i], Len(targets))]
    BY HashDomain DEF PlansInv, Shows
  <1>2. ASSUME NEW i \in DOMAIN asked
        PROVE  /\ normal[i].action = asked[i].action
               /\ normal[i].destructive = asked[i].destructive
               /\ normal[i].critical = asked[i].critical
    BY <1>1, NormalOperation
  <1> HIDE DEF normal, asked, targets
  <1>3. ASSUME NEW i \in DOMAIN asked
        PROVE  q.plan.operations[i].critical
                 <=> \/ asked[i].action = "project.delete" \/ asked[i].critical
                     \/ /\ asked[i].action = "database.delete_collection"
                             \/ asked[i].destructive
                        /\ Len(targets) >= 2
    BY <1>1, <1>2 DEF ToPlanDescriptor, Critical, Destructive, DestructiveActions
  <1>4. DOMAIN q.plan.operations = DOMAIN asked
    BY <1>1
  <1> QED
    BY <1>3, <1>4, Zenon DEF IsCritical, NeedsConfirmation, asked, targets

\* A client that sends back what it was shown is let in (HonestApplyAdmitted): the hash
\* made again at the apply and the whole seconds of a token's expiry are in nobody's way.
THEOREM HonestAdmitted == ServiceSpec => []HonestApplyAdmitted
  <1>1. PlansInv /\ TimesInv /\ StoreInv => HonestApplyAdmitted
    <2> SUFFICES ASSUME PlansInv, TimesInv, StoreInv,
                        NEW q \in previewed, NEW request \in Requests,
                        q.boot = boot, now < q.plan.expires_at,
                        PreparationError(request) = "none",
                        request.actor = q.request.actor,
                        request.operations = q.request.operations,
                        Resolved(request).targets = q.plan.target_projects,
                        GlobalCredentialError(q.plan) = "none"
                 PROVE  LET reply(token) == AdmissionError(request, q.plan.plan_id,
                                                           q.plan.plan_hash, token)
                        IN  IF NeedsConfirmation(request.operations, q.plan.target_projects)
                            THEN /\ reply(NoToken) = "CONFIRM_REQUIRED"
                                 /\ \A t \in tokens :
                                      /\ t.token # NoToken
                                      /\ t.token.plan_hash = q.plan.plan_hash
                                      /\ t.token.secret = ConfirmationSecrets[boot]
                                      /\ now + TicksPerSecond <= t.expires_at
                                      => reply(t.token) = "none"
                            ELSE reply(NoToken) = "none"
      BY DEF HonestApplyAdmitted
    <2>1. /\ q.plan.plan_id \in DOMAIN planStore /\ planStore[q.plan.plan_id] = q.plan
      BY DEF StoreInv, Current
    <2>2. HashOf(request) = q.plan.plan_hash
      <3>1. NormalizeRequestOperations(request) = NormalizeRequestOperations(q.request)
        BY DEF NormalizeRequestOperations
      <3>2. /\ q.plan.plan_hash = HashOf(q.request)
            /\ Resolved(request).targets = Resolved(q.request).targets
        BY DEF PlansInv, Shows
      <3> QED
        BY <3>1, <3>2 DEF HashOf
    <2>3. MatchesPlan(planStore, q.plan.plan_id, q.plan.plan_hash, request.actor,
                      Resolved(request).targets, NormalizeRequestOperations(request), now)
      BY <2>1, <2>2 DEF MatchesPlan, BuildPlan, HashOf
    <2>4. \A token : AdmissionError(request, q.plan.plan_id, q.plan.plan_hash, token)
                       = ConfirmationError(q.plan, token)
      BY <2>1, <2>3 DEF AdmissionError
    <2>5. IsCritical(q.plan)
            <=> NeedsConfirmation(request.operations, q.plan.target_projects)
      BY CriticalAsAsked
    <2>6. ASSUME ~ IsCritical(q.plan) PROVE ConfirmationError(q.plan, NoToken) = "none"
      BY <2>6 DEF ConfirmationError
    <2>7. ASSUME IsCritical(q.plan)
          PROVE  ConfirmationError(q.plan, NoToken) = "CONFIRM_REQUIRED"
      BY <2>7 DEF ConfirmationError
    <2>8. ASSUME IsCritical(q.plan), NEW t \in tokens, t.token # NoToken,
                 t.token.plan_hash = q.plan.plan_hash,
                 t.token.secret = ConfirmationSecrets[boot],
                 now + TicksPerSecond <= t.expires_at
          PROVE  ConfirmationError(q.plan, t.token) = "none"
      <3>1. ~ (t.token.exp <= Seconds(now))
        BY <2>8, LaterSecond DEF TimesInv
      <3>2. Verify(ConfirmationSecrets[boot], t.token, q.plan.plan_hash, Seconds(now)) = "ok"
        BY <2>8, <3>1 DEF Verify
      <3> QED
        BY <2>8, <3>2 DEF ConfirmationError
    <2> QED
      BY <2>4, <2>5, <2>6, <2>7, <2>8
  <1> QED
    BY <1>1, PlansInvariant, TimesInvariant, StoreInvariant, PTL

-----------------------------------------------------------------------------
(* The reply against the log *)

\* The operations of target t all succeeded when none of its records says "failed".
LEMMA CleanTarget ==
  ASSUME TypeOK, ReportsInv, LogInv, NEW c \in Correlations,
         runs[c].boot = boot, runs[c].phase = "done", NEW t \in DOMAIN runs[c].results
  PROVE  (\A o \in DOMAIN audit[c][t] : audit[c][t][o].outcome # "failed")
           <=> runs[c].results[t].status = "SUCCESS"
  <1> DEFINE run == runs[c]
             ops == run.results[t].operations
             log == audit[c][t]
  <1>1. t \in 1..TargetsOf(run) /\ ResultsAt(run, t) = ops
    BY LenProperties DEF TargetsOf, ResultsAt, TypeOK, Run
  <1>2. /\ DOMAIN log = DOMAIN ops
        /\ \A o \in DOMAIN log : /\ log[o] = Entry(run, c, t, o, ops[o])
                                /\ ops[o] \in OperationResult
    BY <1>1, SectionsOf
  <1>3. run.results[t].status = "SUCCESS" <=> AllSucceeded(ops)
    BY DEF ReportsInv, ReportInv, Told, TargetTold
  <1> HIDE DEF run, ops, log
  <1>4. ASSUME NEW o \in DOMAIN log
        PROVE  log[o].outcome # "failed" <=> ops[o].status = "SUCCESS"
    <2>1. ops[o].status \in {"SUCCESS", "FAILED"}
      BY <1>2 DEF OperationResult
    <2>2. log[o].outcome = LogWord(c, t, o, ops[o])
      BY <1>2 DEF Entry, Record
    <2> QED
      BY <2>1, <2>2 DEF LogWord
  <1> QED
    BY <1>2, <1>3, <1>4 DEF AllSucceeded, run, ops, log

\* The status of a reply can be read off the log (StatusTellsTheLog): whoever has the
\* records of a finished run and not its reply knows how it ended.
THEOREM StatusInLog == ServiceSpec => []StatusTellsTheLog
  <1>1. TypeOK /\ ReportsInv /\ LogInv => StatusTellsTheLog
    <2> SUFFICES ASSUME TypeOK, ReportsInv, LogInv, NEW c \in Correlations,
                        runs[c].phase = "done", runs[c].boot = boot
                 PROVE  LET targets == DOMAIN runs[c].job.targets
                            clean == {t \in targets : \A o \in DOMAIN audit[c][t] :
                                         audit[c][t][o].outcome # "failed"}
                            closed == Len(audit[c]) = Len(runs[c].job.targets) + 1
                        IN  ToTopLevelStatus(runs[c].results) =
                              CASE clean = targets /\ closed -> "SUCCESS"
                                [] clean = {} /\ ~closed -> "FAILED"
                                [] clean \notin {{}, targets} /\ ~closed
                                     -> "PARTIAL_SUCCESS"
                                [] OTHER -> "the log disagrees"
      BY DEF StatusTellsTheLog
    <2> DEFINE results == runs[c].results
               targets == DOMAIN runs[c].job.targets
               clean == {t \in targets : \A o \in DOMAIN audit[c][t] :
                            audit[c][t][o].outcome # "failed"}
               closed == Len(audit[c]) = Len(runs[c].job.targets) + 1
               successes == {i \in DOMAIN results : results[i].status = "SUCCESS"}
    <2>1. /\ runs[c].job \in Jobs /\ results \in Seq(TargetResult)
          /\ Len(results) = Len(runs[c].job.targets)
      BY DEF TypeOK, Run, RunOK, ReportsInv, ReportInv
    <2>2. DOMAIN results = targets /\ Len(results) \in Nat
      BY <2>1, JobType, LenProperties
    <2>3. clean = successes
      BY <2>2, CleanTarget
    <2>4. closed <=> AllSucceeded(results)
      <3>1. IF AllSucceeded(results) THEN Len(audit[c]) = Len(results) + 1
            ELSE Len(audit[c]) = Len(results)
        BY DEF LogInv, LogOK, LogClosed
      <3> QED
        BY <2>1, <2>2, <3>1
    <2>5. closed <=> clean = targets
      BY <2>2, <2>3, <2>4 DEF AllSucceeded
    <2>6. ToTopLevelStatus(results) =
            CASE clean = targets -> "SUCCESS"
              [] clean # targets /\ clean # {} -> "PARTIAL_SUCCESS"
              [] clean # targets /\ clean = {} -> "FAILED"
      BY <2>2, <2>3 DEF ToTopLevelStatus
    <2> HIDE DEF clean, closed, targets, results
    <2>7. CASE closed
      BY <2>5, <2>6, <2>7 DEF clean, closed, targets, results
    <2>8. CASE ~closed
      BY <2>5, <2>6, <2>8 DEF clean, closed, targets, results
    <2> QED
      BY <2>7, <2>8
  <1> QED
    BY <1>1, ExecutorLogs, PTL

\* A run of this process was admitted with a plan that is still in the store.
LEMMA PlanOfRun ==
  ASSUME PlansInv, StoreInv, AdmittedInv, NEW c \in Correlations,
         runs[c].phase # "unused", runs[c].boot = boot
  PROVE  /\ Admitted(previewed, tokens, applies[c], runs[c])
         /\ applies[c].plan.plan_id \in DOMAIN planStore
         /\ planStore[applies[c].plan.plan_id] = applies[c].plan
         /\ \E q \in previewed : q.plan = applies[c].plan /\ q.boot = boot
  <1>1. Admitted(previewed, tokens, applies[c], runs[c])
    BY DEF AdmittedInv
  <1>2. PICK q \in previewed : q.plan = applies[c].plan /\ q.boot = boot
    BY <1>1 DEF Admitted
  <1>3. /\ q.plan.plan_id \in DOMAIN planStore /\ planStore[q.plan.plan_id] = q.plan
    BY <1>2 DEF StoreInv, Current
  <1> QED
    BY <1>1, <1>2, <1>3

\* What was previewed for one request is what another with its hash asks for.
LEMMA ShownAsAsked ==
  ASSUME PlansInv, NEW q \in previewed, NEW request \in Requests,
         q.plan.plan_hash = HashOf(request)
  PROVE  /\ q.plan.actor = request.actor
         /\ q.plan.target_projects = Resolved(request).targets
         /\ DOMAIN q.plan.operations = DOMAIN NormalizeRequestOperations(request)
         /\ \A o \in DOMAIN q.plan.operations :
              q.plan.operations[o].operation_id
                = NormalizeRequestOperations(request)[o].operation_id
  <1> DEFINE shown == NormalizeRequestOperations(q.request)
             count == Len(Resolved(q.request).targets)
  <1>1. /\ q.request \in Requests /\ HashOf(request) = HashOf(q.request)
        /\ q.plan.actor = q.request.actor
        /\ q.plan.target_projects = Resolved(q.request).targets
        /\ q.plan.operations =
             [i \in DOMAIN shown |-> ToPlanDescriptor(shown[i], count)]
    BY DEF PlansInv, Shows
  <1>2. /\ q.request.actor = request.actor
        /\ Resolved(q.request).targets = Resolved(request).targets
        /\ DOMAIN shown = DOMAIN NormalizeRequestOperations(request)
    BY <1>1, SameHash, HashDomain
  <1>3. ASSUME NEW o \in DOMAIN shown
        PROVE  shown[o].operation_id = NormalizeRequestOperations(request)[o].operation_id
    <2>1. o \in DOMAIN request.operations /\ o \in DOMAIN q.request.operations
      BY <1>2, <1>3, HashDomain
    <2> QED
      BY <1>1, <2>1, SameHash, NormalOperation
  <1> HIDE DEF shown, count
  <1>4. \A o \in DOMAIN shown : q.plan.operations[o].operation_id = shown[o].operation_id
    BY <1>1 DEF ToPlanDescriptor
  <1> QED
    BY <1>1, <1>2, <1>3, <1>4

\* Whatever the log says of an operation, it says first that it was planned, for whom and
\* where; and what it marked critical came with a token (PerformedWasPlanned).
THEOREM PlannedFirst == ServiceSpec => []PerformedWasPlanned
  <1>1. TypeOK /\ ReportsInv /\ LogInv /\ PlansInv /\ StoreInv /\ AdmittedInv
          => PerformedWasPlanned
    <2> SUFFICES ASSUME TypeOK, ReportsInv, LogInv, PlansInv, StoreInv, AdmittedInv,
                        NEW c \in Correlations, runs[c].boot = boot,
                        NEW t \in DOMAIN audit[c], NEW o \in DOMAIN audit[c][t],
                        audit[c][t][o].operation_id # "apply"
                 PROVE  LET plan == applies[c].plan.plan_id
                            before == planned[plan][t][o]
                        IN  /\ t \in DOMAIN planned[plan] /\ o \in DOMAIN planned[plan][t]
                            /\ before.actor = audit[c][t][o].actor
                            /\ before.target_project = audit[c][t][o].target_project
                            /\ before.operation_id = audit[c][t][o].operation_id
                            /\ before.critical => applies[c].token # NoToken
      BY DEF PerformedWasPlanned
    <2> DEFINE run == runs[c]
               apply == applies[c]
               plan == apply.plan
               asked == NormalizeRequestOperations(apply.request)
               record == audit[c][t][o]
               before == planned[plan.plan_id][t][o]
    <2>1. /\ Admitted(previewed, tokens, apply, run)
          /\ plan.plan_id \in DOMAIN planStore /\ planStore[plan.plan_id] = plan
          /\ \E q \in previewed : q.plan = plan
      <3>1. run.phase # "unused"
        BY DEF LogInv, LogOK
      <3> QED
        BY <3>1, PlanOfRun
    <2>2. /\ apply.request \in Requests /\ plan.plan_hash = HashOf(apply.request)
          /\ run.job \in Jobs /\ run.job.actor = apply.request.actor
          /\ run.job.operations = asked
          /\ run.job.targets = Resolved(apply.request).targets
          /\ IsCritical(plan) => apply.token # NoToken
      BY <2>1 DEF Admitted, JobOf
    <2>3. /\ plan.actor = run.job.actor /\ plan.target_projects = run.job.targets
          /\ DOMAIN plan.operations = DOMAIN asked
          /\ \A i \in DOMAIN plan.operations :
               plan.operations[i].operation_id = asked[i].operation_id
      BY <2>1, <2>2, ShownAsAsked
    <2>4. audit[c][t] # ApplySection(run)
      BY DEF ApplySection, Record
    <2>5. /\ t \in DOMAIN run.job.targets /\ o \in DOMAIN run.job.operations
          /\ \E r : record = Entry(run, c, t, o, r)
      <3> DEFINE n == TargetsOf(run)
      <3>1. /\ n \in Nat /\ n <= Len(run.job.targets) /\ t \in 1..n
            /\ o \in 1..Len(run.job.operations)
            /\ \E r : record = Entry(run, c, t, o, r)
        BY <2>4, SectionsOf
      <3>2. /\ DOMAIN run.job.targets = 1..Len(run.job.targets)
            /\ Len(run.job.targets) \in Nat
            /\ DOMAIN run.job.operations = 1..Len(run.job.operations)
        BY <2>2, JobType, LenProperties
      <3> HIDE DEF n
      <3> QED
        BY <3>1, <3>2
    <2>6. /\ record.actor = run.job.actor /\ record.target_project = run.job.targets[t]
          /\ record.operation_id = run.job.operations[o].operation_id
      BY <2>5 DEF Entry, Record
    <2>7. planned[plan.plan_id] = LogPlanPreview(plan)
      BY <2>1 DEF StoreInv
    <2>8. /\ t \in DOMAIN planned[plan.plan_id] /\ o \in DOMAIN planned[plan.plan_id][t]
          /\ before = PlannedRecord(plan, t, o)
      BY <2>2, <2>3, <2>5, <2>7 DEF LogPlanPreview
    <2>9. /\ before.actor = plan.actor /\ before.target_project = plan.target_projects[t]
          /\ before.operation_id = plan.operations[o].operation_id
          /\ before.critical = plan.operations[o].critical
      BY <2>8 DEF PlannedRecord
    <2>10. before.critical => IsCritical(plan)
      BY <2>2, <2>3, <2>5, <2>9 DEF IsCritical
    <2> QED
      BY <2>2, <2>3, <2>5, <2>6, <2>8, <2>9, <2>10
  <1> QED
    BY <1>1, ExecutorLogs, PlansInvariant, StoreInvariant, AdmittedInvariant, PTL

-----------------------------------------------------------------------------
(* What admission checks and what the executor refuses *)

\* An operation the plan was admitted for is refused only where the management credential
\* is asked for and does not serve.
LEMMA RefusedAsProject ==
  ASSUME DOMAIN ProjectAuthContexts = {}, NEW plan, GlobalCredentialError(plan) = "none",
         NEW operation, operation.required_scopes \subseteq plan.required_scopes,
         NEW project,
         ~TargetUsable(project) \/ RefusalCode(operation, project) # "none"
  PROVE  /\ operation.action \in ProjectActions
         /\ \/ ~ProjectManagementAvailable
            \/ ManagementAuthContext = NoAuthContext
            \/ ManagementAuthContext.api_key = NoApiKey
            \/ operation.required_scopes \ ManagementAuthContext.scopes # {}
  <1> DEFINE Missing(context) ==
        FindMissingScopes(operation.required_scopes, context.scopes)
  <1>1. GlobalAuthContext # NoAuthContext /\ GlobalAuthContext.api_key # NoApiKey
    BY FallbackAssumption DEF GlobalCredentialError
  <1>2. FindMissingScopes(plan.required_scopes, GlobalAuthContext.scopes) = {}
    BY <1>1 DEF GlobalCredentialError
  <1>3. ResolveAuthContextForTarget(project) = GlobalAuthContext
    BY DEF ResolveAuthContextForTarget
  <1>4. RefusalCode(operation, project) # "none"
    BY <1>1, <1>3 DEF TargetUsable
  <1>5. Missing(GlobalAuthContext) = {}
    BY <1>2 DEF FindMissingScopes
  <1>6. ResolveOperationAuthContext(operation, project) # GlobalAuthContext
    BY <1>1, <1>4, <1>5 DEF RefusalCode
  <1>7. operation.action \in ProjectActions
    BY <1>3, <1>6 DEF ResolveOperationAuthContext
  <1>8. ASSUME ProjectManagementAvailable, ManagementAuthContext # NoAuthContext,
               ManagementAuthContext.api_key # NoApiKey
        PROVE  operation.required_scopes \ ManagementAuthContext.scopes # {}
    <2>1. ResolveOperationAuthContext(operation, project) = ManagementAuthContext
      BY <1>7, <1>8 DEF ResolveOperationAuthContext
    <2>2. Missing(ManagementAuthContext) # {}
      BY <1>4, <1>8, <2>1 DEF RefusalCode
    <2> QED
      BY <2>2 DEF FindMissingScopes
  <1> QED
    BY <1>7, <1>8

\* With one credential for all projects, whatever is refused within an apply that was let
\* in is a project.* action the management credential does not serve
\* (AdmissionCoversTheRun), for any configuration and any request.
THEOREM AdmissionCovers == ServiceSpec => []AdmissionCoversTheRun
  <1>1. ReportsInv /\ IdleInv /\ PlansInv /\ AdmittedInv => AdmissionCoversTheRun
    <2> SUFFICES ASSUME ReportsInv, IdleInv, PlansInv, AdmittedInv,
                        DOMAIN ProjectAuthContexts = {},
                        NEW c \in Correlations, NEW s \in Settled(c),
                        s[3].code \in RefusalCodes
                 PROVE  LET operation == runs[c].job.operations[s[2]]
                        IN  /\ operation.action \in ProjectActions
                            /\ \/ ~ProjectManagementAvailable
                               \/ ManagementAuthContext = NoAuthContext
                               \/ ManagementAuthContext.api_key = NoApiKey
                               \/ operation.required_scopes \ ManagementAuthContext.scopes # {}
      BY DEF AdmissionCoversTheRun
    <2> DEFINE run == runs[c]
               apply == applies[c]
               operation == run.job.operations[s[2]]
               project == run.job.targets[s[1]]
    <2>1. /\ s[2] \in DOMAIN run.job.operations
          /\ ~TargetUsable(project) \/ RefusalCode(operation, project) # "none"
      BY SettledNames DEF Names, RefusedForCause
    <2>2. Admitted(previewed, tokens, apply, run)
      BY IdleSettlesNothing DEF AdmittedInv
    <2>3. operation.required_scopes \subseteq apply.plan.required_scopes
      <3> DEFINE asked == NormalizeRequestOperations(apply.request)
      <3>1. /\ apply.request \in Requests /\ run.job.operations = asked
            /\ apply.plan.plan_hash = HashOf(apply.request)
        BY <2>2 DEF Admitted, JobOf
      <3>2. PICK q \in previewed : q.plan = apply.plan
        BY <2>2 DEF Admitted
      <3> DEFINE shown == NormalizeRequestOperations(q.request)
      <3>3. /\ q.request \in Requests /\ HashOf(apply.request) = HashOf(q.request)
            /\ apply.plan.required_scopes =
                 UNION {shown[i].required_scopes : i \in DOMAIN shown}
        BY <3>1, <3>2 DEF PlansInv, Shows
      <3>4. s[2] \in DOMAIN shown /\ asked[s[2]].required_scopes = shown[s[2]].required_scopes
        BY <2>1, <3>1, <3>3, SameHash, HashDomain
      <3> HIDE DEF shown, asked, run, apply
      <3> QED
        BY <3>1, <3>3, <3>4
    <2>4. GlobalCredentialError(apply.plan) = "none"
      BY <2>2 DEF Admitted
    <2> HIDE DEF operation, project, apply
    <2>5. /\ operation.action \in ProjectActions
          /\ \/ ~ProjectManagementAvailable
             \/ ManagementAuthContext = NoAuthContext
             \/ ManagementAuthContext.api_key = NoApiKey
             \/ operation.required_scopes \ ManagementAuthContext.scopes # {}
      BY <2>1, <2>3, <2>4, RefusedAsProject
    <2> QED
      BY <2>5 DEF operation
  <1> QED
    BY <1>1, ExecutorReports, PlansInvariant, AdmittedInvariant, PTL
=============================================================================
