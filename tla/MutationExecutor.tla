--------------------------- MODULE MutationExecutor ---------------------------
(***************************************************************************)
(* The executor behind changes.apply (src/core/mutation-executor.ts), its  *)
(* idempotency registry and the part of the audit log it writes.           *)
(*                                                                         *)
(* The process is single threaded.  Several applies are in flight at once  *)
(* and interleave only where one of them awaits, so a step of this module  *)
(* is the code between two awaits:                                         *)
(*   Execute         from the call of execute() to its first await,        *)
(*   AdapterReturns  from the adapter's answer to the end of               *)
(*                   executeOperation (registry, audit, result),           *)
(*   Resume          from `await this.executeOperation' in execute() to    *)
(*                   the next one, or to the end of the run.               *)
(* Even a cached or a refused operation is awaited: it waits in phase      *)
(* "returned" for its Resume, and other applies may run before it.         *)
(*                                                                         *)
(* A Restart kills the process: registry, audit log and the runs in flight *)
(* are lost, the requests Appwrite has already been sent are not.          *)
(*                                                                         *)
(* Abstracted: result data is the identity of the call it came from, error *)
(* bodies are their code, timestamps are left out, and the audit log is    *)
(* kept per correlation id and cut into one section per target.            *)
(***************************************************************************)
EXTENDS Naturals, Sequences, FiniteSets, OperationScopeCatalog

CONSTANTS
    Correlations,               \* correlation ids, one per call of execute()
    ProjectIds,
    Operations,                 \* operations after scope inference
    Actors, ApiKeys, Scopes,
    Jobs,                       \* the arguments execute() may be called with
    ProjectAuthContexts,        \* per-project credentials, a function on some projects
    GlobalAuthContext,          \* used when there are no per-project credentials
    ProjectManagementAvailable, \* the projectManagementAvailable option
    ManagementAuthContext,      \* the managementAuthContext option, or NoAuthContext
    NoAuthContext, NoApiKey, NoKey, NoJob, NoResult, NoCall,
    MaxBoots                    \* bound: how often the process may start

VARIABLES
    boot,       \* which incarnation of the process is running
    runs,       \* the local state of each call of execute()
    registry,   \* IdempotencyRegistry.results: a result for some keys
    audit,      \* the executor's audit records of each correlation id
    calls       \* what the adapter was asked to do, and how that ended

vars == <<boot, runs, registry, audit, calls>>

\* An operation as the schema lets it through; absent fields are NoKey, {} or FALSE.
ASSUME JobsAssumption ==
    /\ Jobs \subseteq [actor : Actors, operations : Seq(Operations),
                       targets : Seq(ProjectIds), plan_targets : Seq(ProjectIds)]
    /\ \A j \in Jobs : j.operations # <<>>
    /\ NoJob \notin Jobs

AuthContext == [api_key : ApiKeys \cup {NoApiKey}, scopes : SUBSET Scopes]

ASSUME CredentialsAssumption ==
    /\ ProjectAuthContexts \in [DOMAIN ProjectAuthContexts -> AuthContext]
    /\ {GlobalAuthContext, ManagementAuthContext} \subseteq AuthContext \cup {NoAuthContext}
    /\ NoAuthContext \notin AuthContext
    /\ NoApiKey \notin ApiKeys

ASSUME BootsAssumption == MaxBoots \in Nat \ {0}

-----------------------------------------------------------------------------
(* Credentials *)

\* Mutant: a project the file lacks gets the fallback credential.
FallsBack(project) ==
    IF project \in DOMAIN ProjectAuthContexts THEN ProjectAuthContexts[project]
    ELSE GlobalAuthContext

\* Control service: the per-project file wins; a project it lacks has no context.
ResolveAuthContextForTarget(project) ==
    CASE DOMAIN ProjectAuthContexts = {} -> GlobalAuthContext
      [] project \in DOMAIN ProjectAuthContexts -> ProjectAuthContexts[project]
      [] OTHER -> NoAuthContext

\* Both "no context" and "no endpoint or key" fail the whole target.
TargetUsable(project) ==
    LET context == ResolveAuthContextForTarget(project)
    IN  context # NoAuthContext /\ context.api_key # NoApiKey

ResolveOperationAuthContext(operation, project) ==
    IF operation.action \notin ProjectActions THEN ResolveAuthContextForTarget(project)
    ELSE IF ProjectManagementAvailable THEN ManagementAuthContext ELSE NoAuthContext

\* A credential with no scopes listed is taken to have them all.
FindMissingScopes(required, available) ==
    IF available = {} THEN {} ELSE required \ available

\* Mutant: the scopes are those of the target's credential, whichever is used.
RefusalCodeByTarget(operation, project) ==
    LET context == ResolveOperationAuthContext(operation, project)
        target == ResolveAuthContextForTarget(project)
    IN  IF context = NoAuthContext THEN "CAPABILITY_UNAVAILABLE"
        ELSE IF context.api_key = NoApiKey THEN "AUTH_CONTEXT_REQUIRED"
        ELSE IF FindMissingScopes(operation.required_scopes, target.scopes) # {}
        THEN "MISSING_SCOPE"
        ELSE "none"

\* The error code an operation is refused with before anything is sent, or "none".
RefusalCode(operation, project) ==
    LET context == ResolveOperationAuthContext(operation, project)
    IN  CASE context = NoAuthContext -> "CAPABILITY_UNAVAILABLE"
          [] context # NoAuthContext /\ context.api_key = NoApiKey
               -> "AUTH_CONTEXT_REQUIRED"
          [] context # NoAuthContext /\ context.api_key # NoApiKey
             /\ FindMissingScopes(operation.required_scopes, context.scopes) # {}
               -> "MISSING_SCOPE"
          [] OTHER -> "none"

-----------------------------------------------------------------------------
(* Results, runs and records *)

RefusalCodes == {"CAPABILITY_UNAVAILABLE", "AUTH_CONTEXT_REQUIRED", "MISSING_SCOPE"}

OperationIds == {operation.operation_id : operation \in Operations}

CallIds == Correlations \X (Nat \ {0}) \X (Nat \ {0})

ASSUME NoCallAssumption == NoCall \notin CallIds

OperationResult ==
    [operation_id : OperationIds, status : {"SUCCESS", "FAILED"},
     code : RefusalCodes \cup {"none", "UPSTREAM"}, call : CallIds \cup {NoCall}]

Failure(operation, code) ==
    [operation_id |-> operation.operation_id, status |-> "FAILED",
     code |-> code, call |-> NoCall]

Success(operation, call) ==
    [operation_id |-> operation.operation_id, status |-> "SUCCESS",
     code |-> "none", call |-> call]

TargetResult ==
    [project_id : ProjectIds, status : {"SUCCESS", "FAILED"},
     operations : Seq(OperationResult)]

AuditRecord ==
    [actor : Actors, target_project : ProjectIds,
     operation_id : OperationIds \cup {"apply"},
     outcome : {"success", "failed", "skipped"}]

\* Where a run is: the target and the operation it works on follow from what it has.
Run ==
    [phase : {"unused", "calling", "returned", "done", "lost"},
     boot : Nat, job : Jobs \cup {NoJob},
     results : Seq(TargetResult),       \* finished targets
     operations : Seq(OperationResult), \* finished operations of the current target
     pending : OperationResult \cup {NoResult}]

IdleRun ==
    [phase |-> "unused", boot |-> 0, job |-> NoJob,
     results |-> <<>>, operations |-> <<>>, pending |-> NoResult]

NewRun(job) ==
    [phase |-> "unused", boot |-> boot, job |-> job,
     results |-> <<>>, operations |-> <<>>, pending |-> NoResult]

TargetIndex(run) == Len(run.results) + 1

OperationIndex(run) == Len(run.operations) + 1

CurrentProject(run) == run.job.targets[TargetIndex(run)]

CurrentOperation(run) == run.job.operations[OperationIndex(run)]

CallId(c, run) == <<c, TargetIndex(run), OperationIndex(run)>>

\* Mutants: the key forgets the action, or distinguishes operations by their id.
KeyWithoutAction(project, operation) == <<project, operation.idempotency_key>>

KeyWithOperationId(project, operation) ==
    <<project, operation.action, operation.operation_id, operation.idempotency_key>>

IdempotencyKey(project, operation) ==
    <<project, operation.action, operation.idempotency_key>>

Record(run, project, operation_id, outcome) ==
    [actor |-> run.job.actor, target_project |-> project,
     operation_id |-> operation_id, outcome |-> outcome]

\* A record goes to the section of the target being worked on, the last one.
Log(sections, record) == [sections EXCEPT ![Len(sections)] = Append(@, record)]

-----------------------------------------------------------------------------
(* From the start of an operation to the next await *)

Refuse(c, run, sections) ==
    LET operation == CurrentOperation(run)
        code == RefusalCode(operation, CurrentProject(run))
    IN  /\ code # "none"
        /\ runs' = [runs EXCEPT ![c] = [run EXCEPT
                        !.phase = "returned", !.pending = Failure(operation, code)]]
        /\ audit' = [audit EXCEPT ![c] = Log(sections,
                        Record(run, CurrentProject(run), operation.operation_id, "failed"))]
        /\ UNCHANGED calls

\* The cached result is returned as it is, with the operation_id it was stored with.
Replay(c, run, sections) ==
    LET operation == CurrentOperation(run)
        key == IdempotencyKey(CurrentProject(run), operation)
    IN  /\ RefusalCode(operation, CurrentProject(run)) = "none"
        /\ operation.idempotency_key # NoKey
        /\ key \in DOMAIN registry
        /\ runs' = [runs EXCEPT ![c] = [run EXCEPT
                        !.phase = "returned", !.pending = registry[key]]]
        /\ audit' = [audit EXCEPT ![c] = Log(sections,
                        Record(run, CurrentProject(run), operation.operation_id, "skipped"))]
        /\ UNCHANGED calls

Send(c, run, sections) ==
    LET operation == CurrentOperation(run)
        project == CurrentProject(run)
    IN  /\ RefusalCode(operation, project) = "none"
        /\ \/ operation.idempotency_key = NoKey
           \/ IdempotencyKey(project, operation) \notin DOMAIN registry
        /\ runs' = [runs EXCEPT ![c] = [run EXCEPT
                        !.phase = "calling", !.pending = NoResult]]
        /\ audit' = [audit EXCEPT ![c] = sections]
        /\ calls' = calls \cup
             {[id |-> CallId(c, run), project |-> project, operation |-> operation,
               api_key |-> ResolveOperationAuthContext(operation, project).api_key,
               state |-> "open"]}

BeginOperation(c, run, sections) ==
    \/ Refuse(c, run, sections)
    \/ Replay(c, run, sections)
    \/ Send(c, run, sections)

-----------------------------------------------------------------------------
(* From one target to the next *)

\* Mutant: the loop looks for a usable target and does not stop at the end.
SkipsToUsable(targets, from, upto) ==
    /\ \A t \in from..(upto - 1) : ~TargetUsable(targets[t])
    /\ upto <= Len(targets) /\ TargetUsable(targets[upto])

\* Targets from..upto-1 have no usable credential; upto is the first that has, or the end.
SkipsTo(targets, from, upto) ==
    /\ \A t \in from..(upto - 1) : ~TargetUsable(targets[t])
    /\ upto <= Len(targets) => TargetUsable(targets[upto])

\* Mutant: one failure for the whole target.
RefusedTargetOnce(run, t) ==
    [project_id |-> run.job.targets[t], status |-> "FAILED",
     operations |-> <<Failure(run.job.operations[1], "AUTH_CONTEXT_REQUIRED")>>]

\* Every operation of a target without credential fails, and is logged, unsent.
RefusedTarget(run, t) ==
    [project_id |-> run.job.targets[t], status |-> "FAILED",
     operations |-> [o \in DOMAIN run.job.operations |->
                        Failure(run.job.operations[o], "AUTH_CONTEXT_REQUIRED")]]

RefusedSection(run, t) ==
    [o \in DOMAIN run.job.operations |->
        Record(run, run.job.targets[t], run.job.operations[o].operation_id, "failed")]

\* Mutant: some instead of every.
AnySucceeded(results) == \E i \in DOMAIN results : results[i].status = "SUCCESS"

AllSucceeded(results) == \A i \in DOMAIN results : results[i].status = "SUCCESS"

\* The closing "apply" records, one per target of the plan.
ApplySection(run) ==
    [t \in DOMAIN run.job.plan_targets |->
        Record(run, run.job.plan_targets[t], "apply", "success")]

Finish(c, run, sections) ==
    /\ runs' = [runs EXCEPT ![c] = [run EXCEPT !.phase = "done", !.pending = NoResult]]
    /\ audit' = [audit EXCEPT ![c] =
                    IF AllSucceeded(run.results)
                    THEN Append(sections, ApplySection(run)) ELSE sections]
    /\ UNCHANGED calls

NextTarget(c, run, sections) ==
    LET from == TargetIndex(run)
    IN  \E upto \in from..(Len(run.job.targets) + 1) :
          /\ SkipsTo(run.job.targets, from, upto)
          /\ LET run2 == [run EXCEPT !.results = @ \o
                             [i \in 1..(upto - from) |-> RefusedTarget(run, from + i - 1)]]
                 sections2 == sections \o
                             [i \in 1..(upto - from) |-> RefusedSection(run, from + i - 1)]
             IN  \/ /\ upto <= Len(run.job.targets)
                    /\ BeginOperation(c, run2, Append(sections2, <<>>))
                 \/ /\ upto > Len(run.job.targets)
                    /\ Finish(c, run2, sections2)

\* Mutant: a failed operation is tried again instead of being recorded.
SettleSuccessOnly(run) ==
    IF run.pending.status = "SUCCESS"
    THEN [run EXCEPT !.operations = Append(@, run.pending)] ELSE run

\* The operation just awaited has its result.
Settle(run) == [run EXCEPT !.operations = Append(@, run.pending)]

TargetOutcome(run) ==
    [project_id |-> CurrentProject(run),
     status |-> IF AllSucceeded(run.operations) THEN "SUCCESS" ELSE "FAILED",
     operations |-> run.operations]

\* The target has all its results.
CloseTarget(run) ==
    [run EXCEPT !.results = Append(@, TargetOutcome(run)), !.operations = <<>>]

-----------------------------------------------------------------------------
(* The steps *)

Execute(c, job) ==
    /\ runs[c].phase = "unused"
    /\ NextTarget(c, NewRun(job), <<>>)
    /\ UNCHANGED <<boot, registry>>

\* Mutant: the key is noted, its result is not.
RememberKeyOnly(key, result) ==
    [k \in DOMAIN registry \cup {key} |-> IF k = key THEN NoResult ELSE registry[k]]

\* The registry keeps successes only; the last of two concurrent ones wins.
Remember(key, result) ==
    [k \in DOMAIN registry \cup {key} |-> IF k = key THEN result ELSE registry[k]]

AdapterReturns(c, ok) ==
    LET run == runs[c]
        operation == CurrentOperation(run)
        id == CallId(c, run)
        result == IF ok THEN Success(operation, id) ELSE Failure(operation, "UPSTREAM")
    IN  /\ run.phase = "calling"
        /\ runs' = [runs EXCEPT ![c] = [run EXCEPT
                        !.phase = "returned", !.pending = result]]
        /\ calls' = {IF k.id = id
                     THEN [k EXCEPT !.state = IF ok THEN "ok" ELSE "failed"]
                     ELSE k : k \in calls}
        /\ registry' = IF ok /\ operation.idempotency_key # NoKey
                       THEN Remember(IdempotencyKey(CurrentProject(run), operation), result)
                       ELSE registry
        /\ audit' = [audit EXCEPT ![c] = Log(@,
                        Record(run, CurrentProject(run), operation.operation_id,
                               IF ok THEN "success" ELSE "failed"))]
        /\ UNCHANGED boot

Resume(c) ==
    LET run == Settle(runs[c])
    IN  /\ runs[c].phase = "returned"
        /\ \/ /\ OperationIndex(run) <= Len(run.job.operations)
              /\ BeginOperation(c, run, audit[c])
           \/ /\ OperationIndex(run) > Len(run.job.operations)
              /\ NextTarget(c, CloseTarget(run), audit[c])
        /\ UNCHANGED <<boot, registry>>

Restart ==
    /\ boot < MaxBoots
    /\ boot' = boot + 1
    /\ runs' = [c \in Correlations |->
                   IF runs[c].phase \in {"calling", "returned"}
                   THEN [runs[c] EXCEPT !.phase = "lost"] ELSE runs[c]]
    /\ registry' = <<>>
    /\ audit' = [c \in Correlations |-> <<>>]
    /\ UNCHANGED calls

Init ==
    /\ boot = 1
    /\ runs = [c \in Correlations |-> IdleRun]
    /\ registry = <<>>
    /\ audit = [c \in Correlations |-> <<>>]
    /\ calls = {}

Next ==
    \/ \E c \in Correlations :
         \/ \E job \in Jobs : Execute(c, job)
         \/ \E ok \in BOOLEAN : AdapterReturns(c, ok)
         \/ Resume(c)
    \/ Restart

Spec == Init /\ [][Next]_vars

\* The event loop drains its microtasks, and the adapter answers in the end.
Fairness ==
    \A c \in Correlations :
        /\ WF_vars(Resume(c))
        /\ WF_vars(\E ok \in BOOLEAN : AdapterReturns(c, ok))

FairSpec == Spec /\ Fairness

-----------------------------------------------------------------------------
(* Properties *)

\* The positions of a run that have a result, as <<target index, operation index, result>>:
\* those of the finished targets, of the current one, and the one it resumes with.
OfFinishedTargets(run) ==
    UNION {{<<t, o, run.results[t].operations[o]>> :
                o \in DOMAIN run.results[t].operations} : t \in DOMAIN run.results}

OfCurrentTarget(run) ==
    {<<TargetIndex(run), o, run.operations[o]>> : o \in DOMAIN run.operations}

ToResumeWith(run) ==
    {<<TargetIndex(run), OperationIndex(run), r>> :
        r \in IF run.phase = "returned" THEN {run.pending} ELSE {}}

Settled(c) ==
    OfFinishedTargets(runs[c]) \cup OfCurrentTarget(runs[c]) \cup ToResumeWith(runs[c])

\* A run that awaits something is at an operation of a target, with that target's
\* section of the log open.
RunOK(run, sections) ==
    /\ run.job = NoJob <=> run.phase = "unused"
    /\ run.phase = "returned" => run.pending \in OperationResult
    /\ run.phase \in {"calling", "returned"} =>
         /\ TargetIndex(run) <= Len(run.job.targets)
         /\ OperationIndex(run) <= Len(run.job.operations)
         /\ sections # <<>>

Call ==
    [id : CallIds, project : ProjectIds, operation : Operations, api_key : ApiKeys,
     state : {"open", "ok", "failed"}]

\* The state has its type, and what awaits is where a result can be put.
TypeOK ==
    /\ boot \in 1..MaxBoots
    /\ runs \in [Correlations -> Run]
    /\ registry \in [DOMAIN registry -> OperationResult]
    /\ audit \in [Correlations -> Seq(Seq(AuditRecord))]
    /\ calls \subseteq Call
    /\ \A c \in Correlations : RunOK(runs[c], audit[c])

\* A SUCCESS given for an operation stands for a request Appwrite really answered with
\* success while this process ran: the operation's own, or one for the same project,
\* action and idempotency key (executeOperation, buildIdempotencyKey).
SuccessIsReal ==
    \A c \in Correlations : \A s \in Settled(c) : s[3].status = "SUCCESS" =>
        LET operation == runs[c].job.operations[s[2]]
        IN  \E k \in calls :
              /\ k.id = s[3].call /\ k.state = "ok"
              /\ k.project = runs[c].job.targets[s[1]]
              /\ k.operation.action = operation.action
              /\ runs[k.id[1]].boot = runs[c].boot
              /\ \/ k.id = <<c, s[1], s[2]>> /\ k.operation = operation
                 \/ /\ operation.idempotency_key # NoKey
                    /\ k.operation.idempotency_key = operation.idempotency_key

\* Nothing the adapter answered is dropped: each answered request is the result at its
\* position of its run, and an unanswered one is what the run is waiting for, or what
\* it was waiting for when the process died (execute(), executeOperation).
CallsAreAccounted ==
    \A k \in calls :
        LET c == k.id[1]
            result == IF k.state = "ok" THEN Success(k.operation, k.id)
                      ELSE Failure(k.operation, "UPSTREAM")
        IN  IF k.state = "open"
            THEN runs[c].phase \in {"calling", "lost"} /\ k.id = CallId(c, runs[c])
            ELSE \/ <<k.id[2], k.id[3], result>> \in Settled(c)
                 \/ /\ runs[c].phase = "lost" /\ k.id = CallId(c, runs[c])
                    /\ runs[c].pending = result

\* Targets and operations are answered in the order of the request, all of them, whatever
\* failed before; a result names its own operation unless it is a replay (execute()).
ResultsFollowRequest ==
    \A c \in Correlations :
        LET run == runs[c]
        IN  /\ \A t \in DOMAIN run.results :
                 /\ run.results[t].project_id = run.job.targets[t]
                 /\ Len(run.results[t].operations) = Len(run.job.operations)
                 /\ run.results[t].status = "SUCCESS" <=>
                      \A o \in DOMAIN run.results[t].operations :
                         run.results[t].operations[o].status = "SUCCESS"
            /\ \A s \in Settled(c) :
                 \/ s[3].operation_id = run.job.operations[s[2]].operation_id
                 \/ s[3].call \notin {NoCall, <<c, s[1], s[2]>>}
            /\ run.phase = "done" => Len(run.results) = Len(run.job.targets)

\* The credentials the process holds; without per-project ones the global one is that of
\* every project.
Credentials ==
    {context \in {GlobalAuthContext, ManagementAuthContext}
                    \cup {ProjectAuthContexts[p] : p \in DOMAIN ProjectAuthContexts} :
        context # NoAuthContext /\ context.api_key # NoApiKey}

OwnCredentials(project) ==
    IF DOMAIN ProjectAuthContexts = {} THEN {GlobalAuthContext}
    ELSE {ProjectAuthContexts[p] : p \in {project} \cap DOMAIN ProjectAuthContexts}

\* A request leaves only with the key of its own project, or, for a project.* action and
\* no other, with the management key; and whichever credential that is, global and
\* management one included, its scopes suffice (resolveOperationAuthContext,
\* findMissingScopes, resolveAuthContextForTarget).
LeastPrivilege ==
    \A k \in calls :
        LET entitled == IF k.operation.action \in ProjectActions
                        THEN {ManagementAuthContext} ELSE OwnCredentials(k.project)
        IN  /\ \E context \in Credentials : context.api_key = k.api_key
            /\ \A context \in Credentials : context.api_key = k.api_key =>
                 /\ context \in entitled
                 /\ \/ context.scopes = {}
                    \/ k.operation.required_scopes \subseteq context.scopes

\* The records of a run, in order: one per settled operation that says what happened to
\* it, then, exactly when every target succeeded, one "apply" record per target
\* (auditLogger.append in executeOperation, logAndBuildFailure and execute()).
AuditTellsTheRun ==
    \A c \in Correlations : runs[c].boot = boot =>
        LET run == runs[c]
            outcome(s) == IF s[3].status = "FAILED" THEN "failed"
                          ELSE IF s[3].call = <<c, s[1], s[2]>> THEN "success"
                          ELSE "skipped"
            closed == /\ run.phase = "done"
                      /\ \A s \in Settled(c) : s[3].status = "SUCCESS"
            sections == IF closed THEN SubSeq(audit[c], 1, Len(audit[c]) - 1)
                        ELSE audit[c]
        IN  /\ \A s \in Settled(c) :
                 sections[s[1]][s[2]] =
                    Record(run, run.job.targets[s[1]],
                           run.job.operations[s[2]].operation_id, outcome(s))
            /\ Cardinality(Settled(c)) =
                 Cardinality(UNION {{<<t, o>> : o \in DOMAIN sections[t]} :
                                        t \in DOMAIN sections})
            /\ closed => audit[c][Len(audit[c])] = ApplySection(run)

SameKey(k, l) ==
    /\ k.operation.idempotency_key # NoKey
    /\ k.operation.idempotency_key = l.operation.idempotency_key
    /\ k.project = l.project /\ k.operation.action = l.operation.action

\* Once a keyed operation has succeeded, no run of this process sends it to Appwrite
\* again: only requests that were in flight together may both succeed.
NoRepeatAfterSuccess ==
    [][\A k \in calls' \ calls : \A l \in calls :
          l.state = "ok" /\ SameKey(k, l) /\ k.state = "open"
            => runs[l.id[1]].boot # boot]_vars

\* What the idempotency oracle says of repeated applies: a keyed operation is carried
\* out once.  Two applies in flight together both find the registry empty.
CarriedOutOnce ==
    \A k, l \in calls :
        /\ k.state = "ok" /\ l.state = "ok" /\ SameKey(k, l)
        /\ runs[k.id[1]].boot = runs[l.id[1]].boot
        => k = l

\* Every apply that started answers, unless the process is restarted under it.
EveryRunAnswers ==
    \A c \in Correlations :
        runs[c].phase \in {"calling", "returned"} ~> runs[c].phase \in {"done", "lost"}
=============================================================================
