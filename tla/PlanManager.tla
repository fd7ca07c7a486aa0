----------------------------- MODULE PlanManager -----------------------------
(***************************************************************************)
(* Plans and the check of an apply against one (src/core/plan-manager.ts). *)
(* The hash of a plan is its seed itself: SHA-256 over canonical JSON is   *)
(* taken to be injective and insensitive to the order of keys and scopes.  *)
(* Dropped from the seed: the constant policy and an operation's domain,   *)
(* which nothing reads; so here an apply with another domain passes that   *)
(* the code refuses.  Dropped from the plan: counts and labels that only   *)
(* go into the reply.  Time is in ticks.                                   *)
(***************************************************************************)
EXTENDS Naturals, Sequences

CONSTANT PlanTtl    \* planTtlSeconds, in ticks

ASSUME PlanTtlAssumption == PlanTtl \in Nat

DestructiveActions == {"project.delete", "database.delete_collection"}

Destructive(operation) ==
    operation.action \in DestructiveActions \/ operation.destructive

\* Mutant: destroying in several projects is not critical by itself.
CriticalByActionOnly(operation, targetCount) ==
    operation.action = "project.delete" \/ operation.critical

\* A client may raise the flags of an operation, never lower them.
Critical(operation, targetCount) ==
    \/ operation.action = "project.delete"
    \/ Destructive(operation) /\ targetCount >= 2
    \/ operation.critical

ToPlanDescriptor(operation, targetCount) ==
    [operation_id |-> operation.operation_id, action |-> operation.action,
     destructive |-> Destructive(operation),
     critical |-> Critical(operation, targetCount)]

\* Mutant: the parameters of the operations are not part of what is agreed on.
HashWithoutParams(actor, mode, targets, operations) ==
    [actor |-> actor, mode |-> mode, target_projects |-> targets,
     operations |-> [i \in DOMAIN operations |->
        [operations[i] EXCEPT
            !.params = "any",
            !.destructive = Destructive(operations[i]),
            !.critical = Critical(operations[i], Len(targets))]]]

CreatePlanHash(actor, mode, targets, operations) ==
    [actor |-> actor, mode |-> mode, target_projects |-> targets,
     operations |-> [i \in DOMAIN operations |->
        [operations[i] EXCEPT
            !.destructive = Destructive(operations[i]),
            !.critical = Critical(operations[i], Len(targets))]]]

BuildPlan(plan_id, actor, mode, targets, operations, now) ==
    [plan_id |-> plan_id,
     plan_hash |-> CreatePlanHash(actor, mode, targets, operations),
     actor |-> actor,
     target_projects |-> targets,
     operations |-> [i \in DOMAIN operations |->
                        ToPlanDescriptor(operations[i], Len(targets))],
     required_scopes |-> UNION {operations[i].required_scopes : i \in DOMAIN operations},
     expires_at |-> now + PlanTtl]

\* Mutant: the plan is hashed for the mode of the request at hand.
MatchForApplyMode(planStore, plan_id, plan_hash, actor, targets, operations, now) ==
    /\ plan_id \in DOMAIN planStore
    /\ now < planStore[plan_id].expires_at
    /\ planStore[plan_id].plan_hash = plan_hash
    /\ BuildPlan(plan_id, actor, "apply", targets, operations, now).plan_hash = plan_hash

\* requireMatchingPlan: all four ways to fail are PLAN_MISMATCH.  The plan is neither
\* consumed nor pruned.
MatchesPlan(planStore, plan_id, plan_hash, actor, targets, operations, now) ==
    /\ plan_id \in DOMAIN planStore
    /\ now < planStore[plan_id].expires_at
    /\ planStore[plan_id].plan_hash = plan_hash
    /\ BuildPlan(plan_id, actor, "preview", targets, operations, now).plan_hash = plan_hash
=============================================================================
