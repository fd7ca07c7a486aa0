----------------------------- MODULE MCManualSmoke -----------------------------
(* The suite with its default cases and an auth file of the shape of the runbook. *)
EXTENDS ManualSmoke, TLC

CONSTANTS c1, c2, c3, p1, p2, p3, pA, pB

MCTargets == <<pA, pB>>

MCCases ==
    <<[expected |-> "SUCCESS", required_scope |-> "users.read"],
      [expected |-> "PARTIAL_SUCCESS", required_scope |-> "users.write"],
      [expected |-> "FAILED", required_scope |-> "__missing_scope__"]>>

MCCaseIds == <<c1, c2, c3>>

MCPlanOf == <<p1, p2, p3>>

\* Two projects, and no scopes.
MCProjectAuthContexts ==
    (pA :> [api_key |-> "sk_a", scopes |-> {}]) @@ (pB :> [api_key |-> "sk_b", scopes |-> {}])

MCRequests == {CaseRequest(MCCases[n]) : n \in DOMAIN MCCases}

MCOperations ==
    {WithInferredRequiredScopes(request.operations)[1] : request \in MCRequests}

MCJobs ==
    {[actor |-> "smoke-runner", operations |-> <<operation>>, targets |-> MCTargets,
      plan_targets |-> MCTargets] : operation \in MCOperations}

MCEmpty == <<>>

MCSecrets == <<"s">>
=============================================================================
