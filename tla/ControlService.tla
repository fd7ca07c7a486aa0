--------------------------- MODULE ControlService ---------------------------
(***************************************************************************)
(* The control service (src/core/appwrite-control-service.ts): what stands *)
(* between a client and the executor.  A client previews a request and is  *)
(* told a plan, asks for a confirmation token for a plan hash, and applies *)
(* a request under a plan id, a plan hash and perhaps a token.             *)
(*                                                                         *)
(* preview and confirm.issue are synchronous.  changes.apply is            *)
(* synchronous from the parsing of its input to the first await of the     *)
(* executor, one step here; from there on the steps are the executor's.    *)
(* Nothing of plan, token or clock is looked at again after that step.     *)
(*                                                                         *)
(* A request that is refused changes nothing, not even the audit log: it   *)
(* is a stuttering step, and AdmissionError is the reply it gets.  The     *)
(* read-only tools (capabilities.list, context.get, targets.resolve,       *)
(* scopes.catalog.get) are stuttering steps too.                           *)
(*                                                                         *)
(* Clients keep the plans and tokens they were given when the service      *)
(* restarts; the service starts again with empty maps, on whatever secret  *)
(* it is configured with then.                                             *)
(***************************************************************************)
EXTENDS MutationExecutor, TargetResolver, PlanManager, ConfirmationToken

CONSTANTS
    Requests,               \* what clients ask for
    SupportedTransports, DefaultTransport,
    DisallowLegacyAuthUsersUpdate,
    PlanIds,                \* the plan ids randomId() may give
    ConfirmationSecrets,    \* the secret of each incarnation of the service
    TokenTtls,              \* ttl_seconds clients ask for
    TicksPerSecond,         \* resolution of the clock
    NoToken,
    MaxTime, MaxTokens      \* bounds: the clock, tokens given out

VARIABLES
    now,        \* the clock, in ticks
    planStore,  \* PlanManager.planStore
    planned,    \* the "planned" audit records of each plan in the store
    previewed,  \* plans clients were told of, with the request each was made for
    tokens,     \* tokens clients were given, with the expiry they were told
    applies     \* what each apply in progress or finished was admitted with

serviceVars == <<vars, now, planStore, planned, previewed, tokens, applies>>

ASSUME ClockAssumption ==
    /\ TicksPerSecond \in Nat \ {0}
    /\ TokenTtls \subseteq Nat
    /\ MaxTime \in Nat
    /\ DOMAIN ConfirmationSecrets = 1..MaxBoots

-----------------------------------------------------------------------------
(* From a request to the arguments of the executor *)

\* mutation-schemas.ts; requests that are malformed in other ways are not enumerated.
Parses(request) ==
    /\ request.operations # <<>>
    /\ request.targets # <<>> \/ request.target_selector # NoSelector

TransportSupported(request) ==
    (IF request.transport # Absent THEN request.transport ELSE DefaultTransport)
        \in SupportedTransports

Resolved(request) == ResolveRequest(request.targets, request.target_selector)

LegacyBlocked(request) ==
    /\ DisallowLegacyAuthUsersUpdate
    /\ \E i \in DOMAIN request.operations : request.operations[i].action = LegacyAuthUpdate

NormalizeRequestOperations(request) == WithInferredRequiredScopes(request.operations)

\* What preview and apply check first, in this order.
PreparationError(request) ==
    IF ~Parses(request) THEN "VALIDATION_ERROR"
    ELSE IF ~TransportSupported(request) THEN "CAPABILITY_UNAVAILABLE"
    ELSE IF Resolved(request).code # "none" THEN Resolved(request).code
    ELSE IF LegacyBlocked(request) THEN "VALIDATION_ERROR"
    ELSE "none"

\* Mutant: the executor gets the operations as they came, without inferred scopes.
JobAsRequested(request, plan) ==
    [actor |-> request.actor, operations |-> request.operations,
     targets |-> Resolved(request).targets, plan_targets |-> plan.target_projects]

\* The arguments execute() gets once a request passed: its own targets, and the plan's.
JobOf(request, plan) ==
    [actor |-> request.actor,
     operations |-> NormalizeRequestOperations(request),
     targets |-> Resolved(request).targets,
     plan_targets |-> plan.target_projects]

PlanFor(plan_id, request) ==
    BuildPlan(plan_id, request.actor, "preview", Resolved(request).targets,
              NormalizeRequestOperations(request), now)

\* Jobs is wide enough: whatever a request that passes becomes is one of them.
ASSUME RequestsAssumption ==
    \A request \in Requests : PreparationError(request) = "none" =>
        [actor |-> request.actor,
         operations |-> NormalizeRequestOperations(request),
         targets |-> Resolved(request).targets,
         plan_targets |-> Resolved(request).targets] \in Jobs

\* The service is always given a fallback credential: authContext is no optional option.
ASSUME FallbackAssumption ==
    DOMAIN ProjectAuthContexts = {} => GlobalAuthContext # NoAuthContext

OperationFields == {"operation_id", "action", "params", "required_scopes", "destructive",
                    "critical", "idempotency_key"}

\* An operation has all its fields; those a client left out are NoKey, {} or FALSE.
ASSUME RequestFieldsAssumption ==
    \A request \in Requests :
        /\ request # Absent
        /\ \A i \in DOMAIN request.operations :
             OperationFields \subseteq DOMAIN request.operations[i]

-----------------------------------------------------------------------------
(* The policy *)

\* Mutant: one scope of those required is enough.
AnyScopeSuffices(plan) ==
    IF /\ DOMAIN ProjectAuthContexts = {} /\ GlobalAuthContext.scopes # {}
       /\ plan.required_scopes \cap GlobalAuthContext.scopes = {}
    THEN "MISSING_SCOPE" ELSE "none"

\* Only without per-project credentials are the scopes of a plan checked up front,
\* against the global credential and for project.* actions too.
GlobalCredentialError(plan) ==
    CASE DOMAIN ProjectAuthContexts # {} -> "none"
      [] DOMAIN ProjectAuthContexts = {} /\ GlobalAuthContext.api_key = NoApiKey
           -> "AUTH_CONTEXT_REQUIRED"
      [] /\ DOMAIN ProjectAuthContexts = {} /\ GlobalAuthContext.api_key # NoApiKey
         /\ FindMissingScopes(plan.required_scopes, GlobalAuthContext.scopes) # {}
           -> "MISSING_SCOPE"
      [] OTHER -> "none"

Seconds(ticks) == ticks \div TicksPerSecond

IsCritical(plan) == \E i \in DOMAIN plan.operations : plan.operations[i].critical

\* enforceDestructivePolicy
ConfirmationError(plan, token) ==
    LET verdict == Verify(ConfirmationSecrets[boot], token, plan.plan_hash, Seconds(now))
    IN  CASE ~IsCritical(plan) -> "none"
          [] IsCritical(plan) /\ token = NoToken -> "CONFIRM_REQUIRED"
          [] IsCritical(plan) /\ token # NoToken /\ verdict = "ok" -> "none"
          [] IsCritical(plan) /\ token # NoToken /\ verdict = "expired" -> "CONFIRM_REQUIRED"
          [] IsCritical(plan) /\ token # NoToken /\ verdict \in {"invalid", "mismatch"}
               -> "INVALID_CONFIRM_TOKEN"

\* The first check an apply fails, or "none".
AdmissionError(request, plan_id, plan_hash, token) ==
    IF PreparationError(request) # "none" THEN PreparationError(request)
    ELSE IF ~MatchesPlan(planStore, plan_id, plan_hash, request.actor,
                         Resolved(request).targets, NormalizeRequestOperations(request), now)
         THEN "PLAN_MISMATCH"
    ELSE IF GlobalCredentialError(planStore[plan_id]) # "none"
         THEN GlobalCredentialError(planStore[plan_id])
    ELSE ConfirmationError(planStore[plan_id], token)

-----------------------------------------------------------------------------
(* The tools that change something *)

PlannedRecord(plan, t, o) ==
    [actor |-> plan.actor, target_project |-> plan.target_projects[t],
     operation_id |-> plan.operations[o].operation_id, outcome |-> "planned",
     destructive |-> plan.operations[o].destructive,
     critical |-> plan.operations[o].critical]

\* Mutant: the log names the first target only.
LogFirstTarget(plan) == <<[o \in DOMAIN plan.operations |-> PlannedRecord(plan, 1, o)]>>

LogPlanPreview(plan) ==
    [t \in DOMAIN plan.target_projects |->
        [o \in DOMAIN plan.operations |-> PlannedRecord(plan, t, o)]]

\* Mutant: the store keeps the last plan only.
PutOnly(map, key, value) == [k \in {key} |-> value]

\* Map.set
Put(map, key, value) ==
    [k \in DOMAIN map \cup {key} |-> IF k = key THEN value ELSE map[k]]

Preview(p, request) ==
    LET plan == PlanFor(p, request)
    IN  /\ PreparationError(request) = "none"
        /\ p \notin {q.plan.plan_id : q \in previewed}
        /\ planStore' = Put(planStore, p, plan)
        /\ planned' = Put(planned, p, LogPlanPreview(plan))
        /\ previewed' = previewed \cup
             {[plan |-> plan, request |-> request, boot |-> boot]}
        /\ UNCHANGED <<vars, now, tokens, applies>>

\* The hash need not be of a plan in the store.  expires_at is told to the millisecond,
\* the token carries the whole second before it.
IssueConfirmationToken(plan_hash, ttl) ==
    LET expires_at == now + ttl * TicksPerSecond
    IN  /\ Cardinality(tokens) < MaxTokens
        /\ tokens' = tokens \cup
             {[token |-> Issue(ConfirmationSecrets[boot], plan_hash, Seconds(expires_at)),
               expires_at |-> expires_at]}
        /\ UNCHANGED <<vars, now, planStore, planned, previewed, applies>>

Apply(c, request, plan_id, plan_hash, token) ==
    /\ AdmissionError(request, plan_id, plan_hash, token) = "none"
    /\ applies' = [applies EXCEPT ![c] =
                    [request |-> request, plan |-> planStore[plan_id],
                     token |-> token, at |-> now]]
    /\ Execute(c, JobOf(request, planStore[plan_id]))
    /\ UNCHANGED <<now, planStore, planned, previewed, tokens>>

ExecutorStep ==
    /\ \E c \in Correlations :
         \/ \E ok \in BOOLEAN : AdapterReturns(c, ok)
         \/ Resume(c)
    /\ UNCHANGED <<now, planStore, planned, previewed, tokens, applies>>

Tick ==
    /\ now < MaxTime
    /\ now' = now + 1
    /\ UNCHANGED <<vars, planStore, planned, previewed, tokens, applies>>

ServiceRestart ==
    /\ Restart
    /\ planStore' = <<>>
    /\ planned' = <<>>
    /\ UNCHANGED <<now, previewed, tokens, applies>>

-----------------------------------------------------------------------------
(* The specification *)

NoApply == [request |-> Absent, plan |-> Absent, token |-> NoToken, at |-> 0]

\* What clients send back is what they were told, or something the service never gave.
PlanIdsClaimed == {q.plan.plan_id : q \in previewed} \cup {Absent}

HashesClaimed == {q.plan.plan_hash : q \in previewed} \cup {Absent}

TokensClaimed == {k.token : k \in tokens} \cup {NoToken}

ServiceInit ==
    /\ Init
    /\ now = 0
    /\ planStore = <<>>
    /\ planned = <<>>
    /\ previewed = {}
    /\ tokens = {}
    /\ applies = [c \in Correlations |-> NoApply]

ServiceNext ==
    \/ \E p \in PlanIds, request \in Requests : Preview(p, request)
    \/ \E plan_hash \in HashesClaimed, ttl \in TokenTtls :
         IssueConfirmationToken(plan_hash, ttl)
    \/ \E c \in Correlations, request \in Requests, plan_id \in PlanIdsClaimed,
          plan_hash \in HashesClaimed, token \in TokensClaimed :
         Apply(c, request, plan_id, plan_hash, token)
    \/ ExecutorStep
    \/ Tick
    \/ ServiceRestart

ServiceSpec == ServiceInit /\ [][ServiceNext]_serviceVars

-----------------------------------------------------------------------------
(* The reply to an apply *)

\* Mutant: any failure makes the whole apply FAILED.
AllOrNothingStatus(results) == IF AllSucceeded(results) THEN "SUCCESS" ELSE "FAILED"

\* toTopLevelStatus: partial means between targets, not within one.
ToTopLevelStatus(results) ==
    LET successes == {i \in DOMAIN results : results[i].status = "SUCCESS"}
    IN  CASE successes = DOMAIN results -> "SUCCESS"
          [] successes # DOMAIN results /\ successes # {} -> "PARTIAL_SUCCESS"
          [] successes # DOMAIN results /\ successes = {} -> "FAILED"

-----------------------------------------------------------------------------
(* Properties *)

\* The store holds what was previewed since the service started, each plan under its own
\* id with its planned records, and a run in the executor is one that was admitted.
ServiceTypeOK ==
    /\ now \in 0..MaxTime
    /\ planStore \in [DOMAIN planStore -> {q.plan : q \in {r \in previewed : r.boot = boot}}]
    /\ DOMAIN planStore = {q.plan.plan_id : q \in {r \in previewed : r.boot = boot}}
    /\ DOMAIN planned = DOMAIN planStore
    /\ \A p \in DOMAIN planStore : planStore[p].plan_id = p
    /\ \A q, r \in previewed : q.plan.plan_id = r.plan.plan_id => q = r
    /\ \A c \in Correlations : applies[c] = NoApply <=> runs[c].phase = "unused"

\* Whatever reaches Appwrite was in a plan the client was told of by this incarnation of
\* the service and that had not expired when the apply came: the same actor, and at this
\* place of the plan the same project and the same operation with the same parameters
\* (requireMatchingPlan, then execute() on the request that came with the apply).
OnlyPreviewedWork ==
    \A k \in calls :
        LET c == k.id[1]
        IN  \E q \in previewed :
              /\ q.plan.plan_id = applies[c].plan.plan_id
              /\ q.boot = runs[c].boot
              /\ applies[c].at < q.plan.expires_at
              /\ q.request.actor = runs[c].job.actor
              /\ k.project = q.plan.target_projects[k.id[2]]
              /\ LET shown == q.request.operations[k.id[3]]
                 IN  /\ k.operation.operation_id = shown.operation_id
                     /\ k.operation.action = shown.action
                     /\ k.operation.params = shown.params
                     /\ k.operation.idempotency_key = shown.idempotency_key

\* A request that deletes a project, or destroys in two targets or more, or that the
\* client itself calls critical.
NeedsConfirmation(operations, targets) ==
    \E i \in DOMAIN operations :
        \/ operations[i].action = "project.delete" \/ operations[i].critical
        \/ /\ operations[i].action = "database.delete_collection" \/ operations[i].destructive
           /\ Len(targets) >= 2

\* Nothing of a request that needs confirmation is sent unless confirm.issue gave a token
\* for the very plan that was previewed, under the secret in force, and the expiry the
\* client was told had not come when the apply did (toPlanDescriptor,
\* enforceDestructivePolicy, issueConfirmationToken, verify).
CriticalWorkConfirmed ==
    \A k \in calls :
        LET c == k.id[1]
        IN  NeedsConfirmation(runs[c].job.operations, runs[c].job.targets) =>
              \E t \in tokens, q \in previewed :
                 /\ t.token = applies[c].token
                 /\ t.token.secret = ConfirmationSecrets[runs[c].boot]
                 /\ q.plan.plan_id = applies[c].plan.plan_id
                 /\ t.token.plan_hash = q.plan.plan_hash
                 /\ applies[c].at < t.expires_at

\* A client that sends back what it was shown, however it names the targets, while the
\* plan lives and with a token that has a second left where one is needed, is let in if
\* the one credential there may be has the scopes: the rebuilt hash and the rounding of
\* token expiry refuse nobody else.
HonestApplyAdmitted ==
    \A q \in previewed, request \in Requests :
        LET reply(token) ==
              AdmissionError(request, q.plan.plan_id, q.plan.plan_hash, token)
        IN  /\ q.boot = boot /\ now < q.plan.expires_at
            /\ PreparationError(request) = "none"
            /\ request.actor = q.request.actor
            /\ request.operations = q.request.operations
            /\ Resolved(request).targets = q.plan.target_projects
            /\ GlobalCredentialError(q.plan) = "none"
            =>
            IF NeedsConfirmation(request.operations, q.plan.target_projects)
            THEN /\ reply(NoToken) = "CONFIRM_REQUIRED"
                 /\ \A t \in tokens :
                      /\ t.token # NoToken
                      /\ t.token.plan_hash = q.plan.plan_hash
                      /\ t.token.secret = ConfirmationSecrets[boot]
                      /\ now + TicksPerSecond <= t.expires_at
                      => reply(t.token) = "none"
            ELSE reply(NoToken) = "none"

\* Every record the executor leaves of an operation has a "planned" record of the preview
\* before it, for the same actor, project and operation, and one marked critical was
\* confirmed (logPlanPreview, auditLogger.append in the executor).
PerformedWasPlanned ==
    \A c \in Correlations : runs[c].boot = boot =>
        LET plan == applies[c].plan.plan_id
        IN  \A t \in DOMAIN audit[c] : \A o \in DOMAIN audit[c][t] :
              audit[c][t][o].operation_id # "apply" =>
                 /\ t \in DOMAIN planned[plan] /\ o \in DOMAIN planned[plan][t]
                 /\ LET before == planned[plan][t][o]
                    IN  /\ before.actor = audit[c][t][o].actor
                        /\ before.target_project = audit[c][t][o].target_project
                        /\ before.operation_id = audit[c][t][o].operation_id
                        /\ before.critical => applies[c].token # NoToken

\* The status of the reply can be read off the log: SUCCESS when no operation has a
\* "failed" record and the log ends with "apply", FAILED when every target has one,
\* PARTIAL_SUCCESS otherwise (toTopLevelStatus against execute()).
StatusTellsTheLog ==
    \A c \in Correlations : runs[c].phase = "done" /\ runs[c].boot = boot =>
        LET targets == DOMAIN runs[c].job.targets
            clean == {t \in targets :
                        \A o \in DOMAIN audit[c][t] : audit[c][t][o].outcome # "failed"}
            closed == Len(audit[c]) = Len(runs[c].job.targets) + 1
        IN  ToTopLevelStatus(runs[c].results) =
              CASE clean = targets /\ closed -> "SUCCESS"
                [] clean = {} /\ ~closed -> "FAILED"
                [] clean \notin {{}, targets} /\ ~closed -> "PARTIAL_SUCCESS"
                [] OTHER -> "the log disagrees"

\* With one credential for all projects, an apply that was let in is not stopped half way
\* for want of a credential or a scope: what admission checked for the plan as a whole
\* covers each operation, except that a project.* action may find no management credential
\* in use, or one that lacks scopes, which admission does not look at (ensureAuthContext,
\* preflightScopes against findMissingScopes).
AdmissionCoversTheRun ==
    \A c \in Correlations : DOMAIN ProjectAuthContexts = {} =>
        \A s \in Settled(c) :
            LET operation == runs[c].job.operations[s[2]]
            IN  s[3].code \in RefusalCodes =>
                  /\ operation.action \in ProjectActions
                  /\ \/ ~ProjectManagementAvailable
                     \/ ManagementAuthContext = NoAuthContext
                     \/ ManagementAuthContext.api_key = NoApiKey
                     \/ operation.required_scopes \ ManagementAuthContext.scopes # {}

\* The service drives the executor as the executor's own specification allows.
ImplementsExecutor == Spec
=============================================================================
