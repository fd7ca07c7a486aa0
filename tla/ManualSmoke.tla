----------------------------- MODULE ManualSmoke -----------------------------
(***************************************************************************)
(* The manual smoke suite (src/e2e/manual-smoke.ts): one client that       *)
(* previews and applies its cases one after the other, on a service of its *)
(* own, and compares the status of each reply with the expected one.       *)
(*                                                                         *)
(* Abstracted: the actor, reading the configuration, and what of the       *)
(* report is not a status.  The suite takes less time than a plan lives.   *)
(***************************************************************************)
EXTENDS ControlService

CONSTANTS
    Targets,        \* APPWRITE_SMOKE_TARGETS, two or more, each once
    Cases,          \* [expected, required_scope], in order
    CaseIds, PlanOf \* the correlation id and the plan id of each case

VARIABLES
    report,     \* the status observed for each case that was run
    shown       \* the plan of the case being run, or Absent

smokeVars == <<serviceVars, report, shown>>

\* buildPreviewRequest; the apply sends the same.
CaseRequest(case) ==
    [actor |-> "smoke-runner",
     targets |-> [i \in DOMAIN Targets |-> [project_id |-> Targets[i], alias |-> Absent]],
     target_selector |-> NoSelector,
     operations |-> <<[operation_id |-> "op-1", action |-> "auth.users.list",
                       params |-> "limit 1", required_scopes |-> {case.required_scope},
                       destructive |-> FALSE, critical |-> FALSE,
                       idempotency_key |-> NoKey]>>,
     transport |-> "stdio"]

Current == Len(report) + 1

Report(status) == report' = Append(report, status)

PreviewCase ==
    /\ Current \in DOMAIN Cases /\ shown = Absent
    /\ LET request == CaseRequest(Cases[Current])
       IN  IF PreparationError(request) = "none"
           THEN /\ Preview(PlanOf[Current], request)
                /\ shown' = PlanFor(PlanOf[Current], request)
                /\ UNCHANGED report
           ELSE Report("PREVIEW_FAILED") /\ UNCHANGED <<serviceVars, shown>>

\* An apply that is refused is reported as FAILED, too.
ApplyCase ==
    /\ shown # Absent /\ runs[CaseIds[Current]].phase = "unused"
    /\ LET request == CaseRequest(Cases[Current])
       IN  IF AdmissionError(request, shown.plan_id, shown.plan_hash, NoToken) = "none"
           THEN /\ Apply(CaseIds[Current], request, shown.plan_id, shown.plan_hash, NoToken)
                /\ UNCHANGED <<report, shown>>
           ELSE Report("FAILED") /\ shown' = Absent /\ UNCHANGED serviceVars

CaseDone ==
    /\ shown # Absent /\ runs[CaseIds[Current]].phase = "done"
    /\ Report(ToTopLevelStatus(runs[CaseIds[Current]].results))
    /\ shown' = Absent
    /\ UNCHANGED serviceVars

SmokeInit == ServiceInit /\ report = <<>> /\ shown = Absent

SmokeNext ==
    \/ PreviewCase
    \/ ApplyCase
    \/ ExecutorStep /\ UNCHANGED <<report, shown>>
    \/ CaseDone

SmokeSpec == SmokeInit /\ [][SmokeNext]_smokeVars

-----------------------------------------------------------------------------

\* The case of the scope that nobody has is reported as FAILED, as the runbook says it is
\* with an auth file of the shape it gives (defaultCases, findMissingScopes).
MissingScopeFails ==
    \A n \in DOMAIN report : Cases[n].expected = "FAILED" => report[n] = "FAILED"
=============================================================================
