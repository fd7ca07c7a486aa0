----------------------- MODULE MutationExecutorProofs -----------------------
(***************************************************************************)
(* Proofs about MutationExecutor, for every set of jobs and credentials    *)
(* and any number of applies.                                              *)
(***************************************************************************)
EXTENDS MutationExecutor, SequenceTheorems, TLAPS

-----------------------------------------------------------------------------
(* Credentials *)

LEMMA ContextType ==
  ASSUME NEW operation, NEW project
  PROVE  /\ ResolveAuthContextForTarget(project) \in AuthContext \cup {NoAuthContext}
         /\ ResolveOperationAuthContext(operation, project)
              \in AuthContext \cup {NoAuthContext}
  BY CredentialsAssumption
     DEF ResolveAuthContextForTarget, ResolveOperationAuthContext

LEMMA RefusalCodeType ==
  ASSUME NEW operation, NEW project
  PROVE  RefusalCode(operation, project) \in RefusalCodes \cup {"none"}
  BY DEF RefusalCode, RefusalCodes

\* What is sent is sent with a key.
LEMMA SentWithKey ==
  ASSUME NEW operation, NEW project, RefusalCode(operation, project) = "none"
  PROVE  /\ ResolveOperationAuthContext(operation, project) \in AuthContext
         /\ ResolveOperationAuthContext(operation, project).api_key \in ApiKeys
  <1> DEFINE context == ResolveOperationAuthContext(operation, project)
  <1>1. context \in AuthContext \cup {NoAuthContext}
    BY ContextType
  <1>2. context # NoAuthContext /\ context.api_key # NoApiKey
    BY DEF RefusalCode
  <1> QED
    BY <1>1, <1>2 DEF AuthContext

-----------------------------------------------------------------------------
(* Jobs, runs and records *)

LEMMA JobType ==
  ASSUME NEW job \in Jobs
  PROVE  /\ job \in [actor : Actors, operations : Seq(Operations),
                     targets : Seq(ProjectIds), plan_targets : Seq(ProjectIds)]
         /\ job # NoJob
         /\ Len(job.operations) \in Nat \ {0}
         /\ Len(job.targets) \in Nat
  BY JobsAssumption, LenProperties, EmptySeq

\* A run that stands at an operation of one of its targets.
Positioned(run) ==
    /\ run \in Run
    /\ run.job \in Jobs
    /\ TargetIndex(run) <= Len(run.job.targets)
    /\ OperationIndex(run) <= Len(run.job.operations)

LEMMA PositionType ==
  ASSUME NEW run, Positioned(run), NEW c \in Correlations
  PROVE  /\ TargetIndex(run) \in 1..Len(run.job.targets)
         /\ OperationIndex(run) \in 1..Len(run.job.operations)
         /\ CurrentProject(run) \in ProjectIds
         /\ CurrentOperation(run) \in Operations
         /\ CallId(c, run) \in CallIds
  <1>1. /\ run.results \in Seq(TargetResult) /\ run.operations \in Seq(OperationResult)
        /\ run.job \in Jobs
    BY DEF Positioned, Run
  <1>2. Len(run.results) \in Nat /\ Len(run.operations) \in Nat
    BY <1>1, LenProperties
  <1>3. run.job.targets \in Seq(ProjectIds) /\ run.job.operations \in Seq(Operations)
    BY <1>1, JobType
  <1>4. /\ TargetIndex(run) \in 1..Len(run.job.targets)
        /\ OperationIndex(run) \in 1..Len(run.job.operations)
    BY <1>2, <1>3, LenProperties DEF Positioned, TargetIndex, OperationIndex
  <1>5. CurrentProject(run) \in ProjectIds /\ CurrentOperation(run) \in Operations
    BY <1>3, <1>4, ElementOfSeq DEF CurrentProject, CurrentOperation
  <1>6. TargetIndex(run) \in Nat \ {0} /\ OperationIndex(run) \in Nat \ {0}
    BY <1>2 DEF TargetIndex, OperationIndex
  <1> QED
    BY <1>4, <1>5, <1>6 DEF CallId, CallIds

LEMMA ResultType ==
  ASSUME NEW operation \in Operations
  PROVE  /\ \A code \in RefusalCodes \cup {"UPSTREAM"} :
              Failure(operation, code) \in OperationResult
         /\ \A id \in CallIds : Success(operation, id) \in OperationResult
  BY DEF Failure, Success, OperationResult, OperationIds, RefusalCodes

LEMMA RecordType ==
  ASSUME NEW run, run.job \in Jobs, NEW project \in ProjectIds,
         NEW id \in OperationIds \cup {"apply"},
         NEW outcome \in {"success", "failed", "skipped"}
  PROVE  Record(run, project, id, outcome) \in AuditRecord
  BY JobType DEF Record, AuditRecord

\* One more record in the last section.
LEMMA LogType ==
  ASSUME NEW sections \in Seq(Seq(AuditRecord)), sections # <<>>,
         NEW record \in AuditRecord
  PROVE  /\ Log(sections, record) \in Seq(Seq(AuditRecord))
         /\ Log(sections, record) # <<>>
         /\ Len(Log(sections, record)) = Len(sections)
  <1>1. Len(sections) \in Nat \ {0} /\ DOMAIN sections = 1..Len(sections)
    BY EmptySeq, LenProperties
  <1>2. sections[Len(sections)] \in Seq(AuditRecord)
    BY <1>1, ElementOfSeq
  <1>3. Append(sections[Len(sections)], record) \in Seq(AuditRecord)
    BY <1>2, AppendProperties
  <1>4. /\ Log(sections, record) \in Seq(Seq(AuditRecord))
        /\ Len(Log(sections, record)) = Len(sections)
    BY <1>1, <1>3, ExceptSeq DEF Log
  <1> QED
    BY <1>1, <1>4, EmptySeq

-----------------------------------------------------------------------------
(* Type correctness *)

\* A step that gives run c a new local state and a new log, and fits the rest.
LEMMA OneRunType ==
  ASSUME TypeOK, NEW c \in Correlations,
         NEW run \in Run, NEW sections \in Seq(Seq(AuditRecord)), RunOK(run, sections),
         runs' = [runs EXCEPT ![c] = run], audit' = [audit EXCEPT ![c] = sections],
         boot' = boot, registry' \in [DOMAIN registry' -> OperationResult],
         calls' \subseteq Call
  PROVE  TypeOK'
  <1>1. runs' \in [Correlations -> Run]
    BY DEF TypeOK
  <1>2. audit' \in [Correlations -> Seq(Seq(AuditRecord))]
    BY DEF TypeOK
  <1>3. ASSUME NEW d \in Correlations PROVE RunOK(runs[d], audit[d])'
    <2>1. CASE d = c
      BY <2>1 DEF TypeOK, RunOK, TargetIndex, OperationIndex
    <2>2. CASE d # c
      <3>1. runs'[d] = runs[d] /\ audit'[d] = audit[d]
        BY <2>2 DEF TypeOK
      <3> QED
        BY <3>1 DEF TypeOK, RunOK, TargetIndex, OperationIndex
    <2> QED
      BY <2>1, <2>2
  <1> QED
    BY <1>1, <1>2, <1>3 DEF TypeOK

LEMMA BeginOperationType ==
  ASSUME TypeOK, NEW c \in Correlations, NEW run, Positioned(run),
         NEW sections \in Seq(Seq(AuditRecord)), sections # <<>>,
         BeginOperation(c, run, sections), UNCHANGED <<boot, registry>>
  PROVE  TypeOK'
  <1> DEFINE operation == CurrentOperation(run)
             project == CurrentProject(run)
             code == RefusalCode(operation, project)
             key == IdempotencyKey(project, operation)
             refused == Log(sections, Record(run, project, operation.operation_id, "failed"))
             skipped == Log(sections, Record(run, project, operation.operation_id, "skipped"))
  <1>1. /\ project \in ProjectIds /\ operation \in Operations
        /\ CallId(c, run) \in CallIds
    BY PositionType
  <1>2. operation.operation_id \in OperationIds
    BY <1>1 DEF OperationIds
  <1>3. run \in Run /\ run.job \in Jobs /\ run.job # NoJob
    BY JobType DEF Positioned
  <1>4. ASSUME NEW pending \in OperationResult, NEW log \in Seq(Seq(AuditRecord)),
               log # <<>>
        PROVE  /\ [run EXCEPT !.phase = "returned", !.pending = pending] \in Run
               /\ RunOK([run EXCEPT !.phase = "returned", !.pending = pending], log)
    <2> DEFINE next == [run EXCEPT !.phase = "returned", !.pending = pending]
    <2>1. /\ next \in Run /\ next.job = run.job /\ next.phase = "returned"
          /\ next.results = run.results /\ next.operations = run.operations
          /\ next.pending = pending
      BY <1>3 DEF Run
    <2> HIDE DEF next
    <2>2. RunOK(next, log)
      BY <2>1, <1>3, <1>4 DEF Positioned, RunOK, TargetIndex, OperationIndex
    <2> QED
      BY <2>1, <2>2 DEF next
  <1>5. CASE Refuse(c, run, sections)
    <2>1. code \in RefusalCodes
      BY <1>5, RefusalCodeType DEF Refuse
    <2>2. Failure(operation, code) \in OperationResult
      BY <1>1, <2>1, ResultType
    <2>3. refused \in Seq(Seq(AuditRecord)) /\ refused # <<>>
      BY <1>1, <1>2, <1>3, RecordType, LogType
    <2>4. /\ runs' = [runs EXCEPT ![c] =
                        [run EXCEPT !.phase = "returned", !.pending = Failure(operation, code)]]
          /\ audit' = [audit EXCEPT ![c] = refused]
          /\ calls' = calls
      BY <1>5 DEF Refuse
    <2> QED
      BY <2>2, <2>3, <2>4, <1>4, OneRunType DEF TypeOK
  <1>6. CASE Replay(c, run, sections)
    <2>1. registry[key] \in OperationResult
      BY <1>6 DEF Replay, TypeOK
    <2>2. skipped \in Seq(Seq(AuditRecord)) /\ skipped # <<>>
      BY <1>1, <1>2, <1>3, RecordType, LogType
    <2>3. /\ runs' = [runs EXCEPT ![c] =
                        [run EXCEPT !.phase = "returned", !.pending = registry[key]]]
          /\ audit' = [audit EXCEPT ![c] = skipped]
          /\ calls' = calls
      BY <1>6 DEF Replay
    <2> QED
      BY <2>1, <2>2, <2>3, <1>4, OneRunType DEF TypeOK
  <1>7. CASE Send(c, run, sections)
    <2> DEFINE next == [run EXCEPT !.phase = "calling", !.pending = NoResult]
    <2>1. next \in Run /\ RunOK(next, sections)
      BY <1>3 DEF Positioned, Run, RunOK, TargetIndex, OperationIndex
    <2>2. calls' \subseteq Call
      <3>1. ResolveOperationAuthContext(operation, project).api_key \in ApiKeys
        BY <1>7, SentWithKey DEF Send
      <3> QED
        BY <1>1, <1>7, <3>1 DEF Send, Call, TypeOK
    <2>3. /\ runs' = [runs EXCEPT ![c] = next]
          /\ audit' = [audit EXCEPT ![c] = sections]
      BY <1>7 DEF Send
    <2> QED
      BY <2>1, <2>2, <2>3, OneRunType DEF TypeOK
  <1> QED
    BY <1>5, <1>6, <1>7 DEF BeginOperation

\* A run between two targets, or before the first or after the last.
Between(run) ==
    /\ run \in Run
    /\ run.job \in Jobs
    /\ run.operations = <<>>
    /\ TargetIndex(run) <= Len(run.job.targets) + 1

LEMMA FinishType ==
  ASSUME TypeOK, NEW c \in Correlations, NEW run, Between(run),
         NEW sections \in Seq(Seq(AuditRecord)),
         Finish(c, run, sections), UNCHANGED <<boot, registry>>
  PROVE  TypeOK'
  <1> DEFINE next == [run EXCEPT !.phase = "done", !.pending = NoResult]
             log == IF AllSucceeded(run.results)
                    THEN Append(sections, ApplySection(run)) ELSE sections
  <1>1. run \in Run /\ run.job \in Jobs /\ run.job # NoJob
    BY JobType DEF Between
  <1>2. next \in Run /\ RunOK(next, log)
    BY <1>1 DEF Run, RunOK
  <1>3. ApplySection(run) \in Seq(AuditRecord)
    <2>1. run.job.plan_targets \in Seq(ProjectIds)
      BY <1>1, JobType
    <2>2. /\ Len(run.job.plan_targets) \in Nat
          /\ DOMAIN run.job.plan_targets = 1..Len(run.job.plan_targets)
      BY <2>1, LenProperties
    <2>3. \A t \in DOMAIN run.job.plan_targets :
            Record(run, run.job.plan_targets[t], "apply", "success") \in AuditRecord
      BY <1>1, <2>1, <2>2, ElementOfSeq, RecordType
    <2>4. ApplySection(run) \in [1..Len(run.job.plan_targets) -> AuditRecord]
      BY <2>2, <2>3 DEF ApplySection
    <2> QED
      BY <2>2, <2>4, SeqDef
  <1>4. log \in Seq(Seq(AuditRecord))
    BY <1>3, AppendProperties
  <1> QED
    BY <1>2, <1>4, OneRunType DEF Finish, TypeOK

\* A function on 1..n is a sequence.
LEMMA ListIsSeq ==
  ASSUME NEW S, NEW n \in Nat, NEW f \in [1..n -> S]
  PROVE  f \in Seq(S) /\ Len(f) = n
  <1>1. f \in Seq(S)
    BY SeqDef
  <1> QED
    BY <1>1, LenProperties

LEMMA ConcatType ==
  ASSUME NEW S, NEW s \in Seq(S), NEW t \in Seq(S)
  PROVE  s \o t \in Seq(S) /\ Len(s \o t) = Len(s) + Len(t)
  BY ConcatProperties

LEMMA RefusedTargetType ==
  ASSUME NEW run \in Run, run.job \in Jobs, NEW t \in 1..Len(run.job.targets)
  PROVE  /\ RefusedTarget(run, t) \in TargetResult
         /\ RefusedSection(run, t) \in Seq(AuditRecord)
  <1> DEFINE ops == run.job.operations
  <1>1. /\ ops \in Seq(Operations) /\ run.job.targets[t] \in ProjectIds
        /\ Len(ops) \in Nat /\ DOMAIN ops = 1..Len(ops)
        /\ \A o \in 1..Len(ops) : ops[o] \in Operations
    BY JobType, ElementOfSeq, LenProperties
  <1>2. RefusedTarget(run, t).operations \in [1..Len(ops) -> OperationResult]
    BY <1>1, ResultType DEF RefusedTarget, RefusalCodes
  <1>3. RefusedTarget(run, t).operations \in Seq(OperationResult)
    BY <1>1, <1>2, SeqDef
  <1>4. RefusedTarget(run, t) \in TargetResult
    BY <1>1, <1>3 DEF RefusedTarget, TargetResult
  <1>5. RefusedSection(run, t) \in [1..Len(ops) -> AuditRecord]
    BY <1>1, RecordType DEF RefusedSection, OperationIds
  <1> QED
    BY <1>1, <1>4, <1>5, SeqDef

\* The skipped targets get their results and sections, up to the next usable one.
LEMMA SkippedType ==
  ASSUME NEW run, Between(run), NEW sections \in Seq(Seq(AuditRecord)),
         NEW upto \in TargetIndex(run)..(Len(run.job.targets) + 1)
  PROVE  LET from == TargetIndex(run)
             refused == [i \in 1..(upto - from) |-> RefusedTarget(run, from + i - 1)]
             run2 == [run EXCEPT !.results = @ \o refused]
             sections2 == sections \o
                            [i \in 1..(upto - from) |-> RefusedSection(run, from + i - 1)]
         IN  /\ Between(run2) /\ run2.job = run.job
             /\ TargetIndex(run2) = upto
             /\ sections2 \in Seq(Seq(AuditRecord))
  <1> DEFINE from == TargetIndex(run)
             refused == [i \in 1..(upto - from) |-> RefusedTarget(run, from + i - 1)]
             logged == [i \in 1..(upto - from) |-> RefusedSection(run, from + i - 1)]
             run2 == [run EXCEPT !.results = @ \o refused]
  <1>1. /\ run \in Run /\ run.job \in Jobs /\ run.operations = <<>>
        /\ run.results \in Seq(TargetResult)
    BY DEF Between, Run
  <1>2. from \in Nat \ {0} /\ from = Len(run.results) + 1 /\ Len(run.job.targets) \in Nat
    BY <1>1, JobType, LenProperties DEF TargetIndex
  <1>3. upto - from \in Nat
    BY <1>2
  <1>4. \A i \in 1..(upto - from) : from + i - 1 \in 1..Len(run.job.targets)
    BY <1>2
  <1>5. refused \in [1..(upto - from) -> TargetResult]
    BY <1>1, <1>4, RefusedTargetType
  <1>6. logged \in [1..(upto - from) -> Seq(AuditRecord)]
    BY <1>1, <1>4, RefusedTargetType
  <1> HIDE DEF refused, logged, from
  <1>7. refused \in Seq(TargetResult) /\ Len(refused) = upto - from
    BY <1>3, <1>5, ListIsSeq
  <1>8. logged \in Seq(Seq(AuditRecord))
    BY <1>3, <1>6, ListIsSeq
  <1>9. /\ run.results \o refused \in Seq(TargetResult)
        /\ Len(run.results \o refused) = Len(run.results) + (upto - from)
    <2>1. /\ run.results \o refused \in Seq(TargetResult)
          /\ Len(run.results \o refused) = Len(run.results) + Len(refused)
      BY <1>1, <1>7, ConcatType
    <2> QED
      BY <2>1, <1>7
  <1>10. /\ run2 \in Run /\ run2.job = run.job /\ run2.operations = <<>>
         /\ run2.results = run.results \o refused
    BY <1>1, <1>9 DEF Run
  <1>11. sections \o logged \in Seq(Seq(AuditRecord))
    BY <1>8, ConcatType
  <1>12. TargetIndex(run2) = upto
    BY <1>2, <1>9, <1>10 DEF TargetIndex
  <1>13. upto <= Len(run.job.targets) + 1
    BY DEF from
  <1> QED
    BY <1>1, <1>10, <1>11, <1>12, <1>13 DEF Between, refused, logged, from

\* At the first operation of the next target.
LEMMA FirstOperation ==
  ASSUME NEW run, Between(run), TargetIndex(run) <= Len(run.job.targets)
  PROVE  Positioned(run) /\ OperationIndex(run) = 1
  <1>1. Len(run.job.operations) \in Nat \ {0}
    BY JobType DEF Between
  <1>2. OperationIndex(run) = 1
    BY EmptySeq DEF Between, OperationIndex
  <1> QED
    BY <1>1, <1>2 DEF Between, Positioned

LEMMA NextTargetType ==
  ASSUME TypeOK, NEW c \in Correlations, NEW run, Between(run),
         NEW sections \in Seq(Seq(AuditRecord)),
         NextTarget(c, run, sections), UNCHANGED <<boot, registry>>
  PROVE  TypeOK'
  <1> DEFINE from == TargetIndex(run)
             run2(upto) == [run EXCEPT !.results = @ \o
                             [i \in 1..(upto - from) |-> RefusedTarget(run, from + i - 1)]]
             sections2(upto) == sections \o
                             [i \in 1..(upto - from) |-> RefusedSection(run, from + i - 1)]
  <1>1. PICK upto \in from..(Len(run.job.targets) + 1) :
           \/ /\ upto <= Len(run.job.targets)
              /\ BeginOperation(c, run2(upto), Append(sections2(upto), <<>>))
           \/ Finish(c, run2(upto), sections2(upto))
    BY DEF NextTarget
  <1>2. /\ Between(run2(upto)) /\ run2(upto).job = run.job
        /\ TargetIndex(run2(upto)) = upto
        /\ sections2(upto) \in Seq(Seq(AuditRecord))
    BY SkippedType
  <1> HIDE DEF run2, sections2
  <1>3. CASE Finish(c, run2(upto), sections2(upto))
    BY <1>2, <1>3, FinishType
  <1>4. CASE /\ upto <= Len(run.job.targets)
             /\ BeginOperation(c, run2(upto), Append(sections2(upto), <<>>))
    <2>1. Positioned(run2(upto))
      BY <1>2, <1>4, FirstOperation
    <2>2. /\ Append(sections2(upto), <<>>) \in Seq(Seq(AuditRecord))
          /\ Append(sections2(upto), <<>>) # <<>>
      <3> DEFINE S == Seq(AuditRecord)
      <3>1. <<>> \in S
        BY EmptySeq
      <3> HIDE DEF S
      <3>2. sections2(upto) \in Seq(S)
        BY <1>2 DEF S
      <3>3. Append(sections2(upto), <<>>) \in Seq(S)
        BY <3>1, <3>2, AppendProperties
      <3>4. Append(sections2(upto), <<>>) # <<>>
        BY <3>1, <3>2, AppendProperties
      <3> QED
        BY <3>3, <3>4 DEF S
    <2> QED
      BY <1>4, <2>1, <2>2, BeginOperationType
  <1> QED
    BY <1>1, <1>3, <1>4

LEMMA NewRunType ==
  ASSUME TypeOK, NEW job \in Jobs
  PROVE  Between(NewRun(job)) /\ NewRun(job).job = job /\ NewRun(job).boot = boot
  <1>1. boot \in Nat
    BY BootsAssumption DEF TypeOK
  <1>2. <<>> \in Seq(TargetResult) /\ <<>> \in Seq(OperationResult)
    BY EmptySeq
  <1>3. /\ NewRun(job) \in Run /\ NewRun(job).job = job /\ NewRun(job).boot = boot
        /\ NewRun(job).operations = <<>> /\ NewRun(job).results = <<>>
    BY <1>1, <1>2 DEF NewRun, Run
  <1> QED
    BY <1>3, JobType, EmptySeq DEF Between, TargetIndex

LEMMA ExecuteType ==
  ASSUME TypeOK, NEW c \in Correlations, NEW job \in Jobs, Execute(c, job)
  PROVE  TypeOK'
  <1>1. NextTarget(c, NewRun(job), <<>>) /\ UNCHANGED <<boot, registry>>
    BY DEF Execute
  <1> QED
    BY <1>1, EmptySeq, NewRunType, NextTargetType

LEMMA AdapterReturnsType ==
  ASSUME TypeOK, NEW c \in Correlations, NEW ok \in BOOLEAN, AdapterReturns(c, ok)
  PROVE  TypeOK'
  <1> DEFINE run == runs[c]
             operation == CurrentOperation(run)
             id == CallId(c, run)
             result == IF ok THEN Success(operation, id) ELSE Failure(operation, "UPSTREAM")
             record == Record(run, CurrentProject(run), operation.operation_id,
                              IF ok THEN "success" ELSE "failed")
             next == [run EXCEPT !.phase = "returned", !.pending = result]
             log == Log(audit[c], record)
  <1>1. /\ run \in Run /\ run.phase = "calling" /\ RunOK(run, audit[c])
        /\ audit[c] \in Seq(Seq(AuditRecord))
    BY DEF AdapterReturns, TypeOK
  <1>2. run.job \in Jobs /\ run.job # NoJob /\ Positioned(run) /\ audit[c] # <<>>
    BY <1>1 DEF RunOK, Run, Positioned
  <1>3. operation \in Operations /\ CurrentProject(run) \in ProjectIds /\ id \in CallIds
    BY <1>2, PositionType
  <1>4. result \in OperationResult
    BY <1>3, ResultType
  <1>5. record \in AuditRecord
    BY <1>2, <1>3, RecordType DEF OperationIds
  <1>6. log \in Seq(Seq(AuditRecord)) /\ log # <<>>
    BY <1>1, <1>2, <1>5, LogType
  <1>7. next \in Run /\ RunOK(next, log)
    <2> HIDE DEF result, log
    <2>1. /\ next \in Run /\ next.job = run.job /\ next.phase = "returned"
          /\ next.results = run.results /\ next.operations = run.operations
          /\ next.pending = result
      BY <1>1, <1>4 DEF Run
    <2> HIDE DEF next
    <2> QED
      BY <2>1, <1>1, <1>2, <1>4, <1>6 DEF Positioned, RunOK, TargetIndex, OperationIndex
  <1>8. calls' \subseteq Call
    BY DEF AdapterReturns, TypeOK, Call
  <1>9. registry' \in [DOMAIN registry' -> OperationResult]
    BY <1>4 DEF AdapterReturns, TypeOK, Remember
  <1>10. /\ runs' = [runs EXCEPT ![c] = next]
         /\ audit' = [audit EXCEPT ![c] = log] /\ boot' = boot
    BY DEF AdapterReturns, TypeOK
  <1> QED
    BY <1>6, <1>7, <1>8, <1>9, <1>10, OneRunType

LEMMA SettleType ==
  ASSUME TypeOK, NEW c \in Correlations, runs[c].phase = "returned"
  PROVE  LET run == Settle(runs[c])
         IN  /\ run \in Run /\ run.job \in Jobs /\ run.job = runs[c].job
             /\ run.results = runs[c].results
             /\ run.operations = Append(runs[c].operations, runs[c].pending)
             /\ TargetIndex(run) \in 1..Len(run.job.targets)
             /\ OperationIndex(run) = OperationIndex(runs[c]) + 1
             /\ audit[c] # <<>>
  <1>1. /\ runs[c] \in Run /\ RunOK(runs[c], audit[c])
        /\ runs[c].operations \in Seq(OperationResult)
        /\ runs[c].pending \in OperationResult
    BY DEF TypeOK, RunOK, Run
  <1>2. /\ Append(runs[c].operations, runs[c].pending) \in Seq(OperationResult)
        /\ Len(Append(runs[c].operations, runs[c].pending)) = Len(runs[c].operations) + 1
    BY <1>1, AppendProperties
  <1>3. /\ Settle(runs[c]) \in Run /\ Settle(runs[c]).job = runs[c].job
        /\ Settle(runs[c]).results = runs[c].results
        /\ Settle(runs[c]).operations = Append(runs[c].operations, runs[c].pending)
    BY <1>1, <1>2 DEF Settle, Run
  <1>4. runs[c].job \in Jobs /\ Positioned(runs[c]) /\ audit[c] # <<>>
    BY <1>1 DEF RunOK, Run, Positioned
  <1>5. TargetIndex(runs[c]) \in 1..Len(runs[c].job.targets)
    BY <1>4, PositionType
  <1> QED
    BY <1>2, <1>3, <1>4, <1>5 DEF TargetIndex, OperationIndex

LEMMA CloseTargetType ==
  ASSUME NEW run \in Run, run.job \in Jobs, TargetIndex(run) \in 1..Len(run.job.targets)
  PROVE  Between(CloseTarget(run)) /\ CloseTarget(run).job = run.job
  <1>1. CurrentProject(run) \in ProjectIds
    BY JobType, ElementOfSeq DEF CurrentProject
  <1>2. TargetOutcome(run) \in TargetResult
    BY <1>1 DEF TargetOutcome, TargetResult, Run
  <1>3. run.results \in Seq(TargetResult)
    BY DEF Run
  <1>4. /\ Append(run.results, TargetOutcome(run)) \in Seq(TargetResult)
        /\ Len(Append(run.results, TargetOutcome(run))) = Len(run.results) + 1
        /\ Len(run.results) \in Nat /\ Len(run.job.targets) \in Nat
    BY <1>2, <1>3, AppendProperties, LenProperties, JobType
  <1>5. /\ CloseTarget(run) \in Run /\ CloseTarget(run).job = run.job
        /\ CloseTarget(run).operations = <<>>
        /\ CloseTarget(run).results = Append(run.results, TargetOutcome(run))
    BY <1>4, EmptySeq DEF CloseTarget, Run
  <1> QED
    BY <1>4, <1>5 DEF Between, TargetIndex

LEMMA ResumeType ==
  ASSUME TypeOK, NEW c \in Correlations, Resume(c)
  PROVE  TypeOK'
  <1> DEFINE run == Settle(runs[c])
  <1>1. /\ run \in Run /\ run.job \in Jobs
        /\ TargetIndex(run) \in 1..Len(run.job.targets)
        /\ audit[c] \in Seq(Seq(AuditRecord)) /\ audit[c] # <<>>
    BY SettleType DEF Resume, TypeOK
  <1>2. CASE /\ OperationIndex(run) <= Len(run.job.operations)
             /\ BeginOperation(c, run, audit[c])
    <2>1. Positioned(run)
      BY <1>1, <1>2 DEF Positioned
    <2> QED
      BY <1>1, <1>2, <2>1, BeginOperationType DEF Resume
  <1>3. CASE NextTarget(c, CloseTarget(run), audit[c])
    BY <1>1, <1>3, CloseTargetType, NextTargetType DEF Resume
  <1> QED
    BY <1>2, <1>3 DEF Resume

LEMMA RestartType ==
  ASSUME TypeOK, Restart
  PROVE  TypeOK'
  <1>1. boot' \in 1..MaxBoots
    BY BootsAssumption DEF Restart, TypeOK
  <1>2. runs' \in [Correlations -> Run]
    BY DEF Restart, TypeOK, Run
  <1>3. registry' \in [DOMAIN registry' -> OperationResult]
    BY DEF Restart
  <1>4. audit' \in [Correlations -> Seq(Seq(AuditRecord))]
    BY EmptySeq DEF Restart
  <1>5. ASSUME NEW d \in Correlations PROVE RunOK(runs[d], audit[d])'
    BY DEF Restart, TypeOK, RunOK, Run
  <1> QED
    BY <1>1, <1>2, <1>3, <1>4, <1>5 DEF Restart, TypeOK

LEMMA InitType == Init => TypeOK
  BY BootsAssumption, EmptySeq
     DEF Init, TypeOK, IdleRun, Run, RunOK, Call

LEMMA StepType ==
  ASSUME TypeOK, [Next]_vars
  PROVE  TypeOK'
  <1>1. ASSUME NEW c \in Correlations, NEW job \in Jobs, Execute(c, job) PROVE TypeOK'
    BY <1>1, ExecuteType
  <1>2. ASSUME NEW c \in Correlations, NEW ok \in BOOLEAN, AdapterReturns(c, ok)
        PROVE  TypeOK'
    BY <1>2, AdapterReturnsType
  <1>3. ASSUME NEW c \in Correlations, Resume(c) PROVE TypeOK'
    BY <1>3, ResumeType
  <1>4. CASE Restart
    BY <1>4, RestartType
  <1>5. CASE UNCHANGED vars
    BY <1>5 DEF vars, TypeOK, RunOK, TargetIndex, OperationIndex
  <1> QED
    BY <1>1, <1>2, <1>3, <1>4, <1>5 DEF Next

\* Every state the executor reaches has its type (TypeOK).
THEOREM TypeCorrect == Spec => []TypeOK
  <1>1. TypeOK /\ [Next]_vars => TypeOK'
    BY StepType
  <1> QED
    BY <1>1, InitType, PTL DEF Spec

-----------------------------------------------------------------------------
(* What a step does to the calls *)

\* A call the executor may make: to operation o of target t of the job of run c.
MaySend(c, job, call) ==
    \E t \in 1..Len(job.targets), o \in 1..Len(job.operations) :
        LET operation == job.operations[o]
            project == job.targets[t]
        IN  /\ call = [id |-> <<c, t, o>>, project |-> project, operation |-> operation,
                       api_key |-> ResolveOperationAuthContext(operation, project).api_key,
                       state |-> "open"]
            /\ RefusalCode(operation, project) = "none"
            /\ \/ operation.idempotency_key = NoKey
               \/ IdempotencyKey(project, operation) \notin DOMAIN registry

\* Run c goes on with its job, and sends at most one more call.
GoesOn(c, job, b) ==
    /\ runs'[c].job = job /\ runs'[c].boot = b /\ runs'[c].phase # "unused"
    /\ \A d \in Correlations \ {c} : runs'[d] = runs[d]
    /\ boot' = boot /\ registry' = registry
    /\ \/ calls' = calls
       \/ \E call \in Call : MaySend(c, job, call) /\ calls' = calls \cup {call}

LEMMA BeginOperationGoesOn ==
  ASSUME TypeOK, NEW c \in Correlations, NEW run, Positioned(run),
         NEW sections, BeginOperation(c, run, sections), UNCHANGED <<boot, registry>>
  PROVE  GoesOn(c, run.job, run.boot)
  <1> DEFINE operation == CurrentOperation(run)
             project == CurrentProject(run)
  <1>1. run \in Run
    BY DEF Positioned
  <1>2. ASSUME NEW pending, NEW phase \in {"calling", "returned"},
               runs' = [runs EXCEPT ![c] = [run EXCEPT !.phase = phase, !.pending = pending]]
        PROVE  /\ runs'[c].job = run.job /\ runs'[c].boot = run.boot
               /\ runs'[c].phase # "unused"
               /\ \A d \in Correlations \ {c} : runs'[d] = runs[d]
    <2> DEFINE next == [run EXCEPT !.phase = phase, !.pending = pending]
    <2>1. next.job = run.job /\ next.boot = run.boot /\ next.phase = phase
      BY <1>1 DEF Run
    <2> HIDE DEF next
    <2>2. runs' = [runs EXCEPT ![c] = next]
      BY <1>2 DEF next
    <2> QED
      BY <2>1, <2>2 DEF TypeOK
  <1>3. CASE Refuse(c, run, sections)
    BY <1>2, <1>3 DEF Refuse, GoesOn
  <1>4. CASE Replay(c, run, sections)
    BY <1>2, <1>4 DEF Replay, GoesOn
  <1>5. CASE Send(c, run, sections)
    <2> DEFINE call == [id |-> CallId(c, run), project |-> project, operation |-> operation,
                        api_key |-> ResolveOperationAuthContext(operation, project).api_key,
                        state |-> "open"]
    <2>1. /\ TargetIndex(run) \in 1..Len(run.job.targets)
          /\ OperationIndex(run) \in 1..Len(run.job.operations)
          /\ project \in ProjectIds /\ operation \in Operations
          /\ CallId(c, run) \in CallIds
      BY PositionType
    <2>2. RefusalCode(operation, project) = "none"
      BY <1>5 DEF Send
    <2>3. call \in Call
      BY <2>1, <2>2, SentWithKey DEF Call
    <2>4. \/ operation.idempotency_key = NoKey
          \/ IdempotencyKey(project, operation) \notin DOMAIN registry
      BY <1>5 DEF Send
    <2>5. MaySend(c, run.job, call)
      BY <2>1, <2>2, <2>4 DEF MaySend, CallId, CurrentOperation, CurrentProject
    <2>6. calls' = calls \cup {call}
      BY <1>5 DEF Send
    <2>7. runs' = [runs EXCEPT ![c] = [run EXCEPT !.phase = "calling", !.pending = NoResult]]
      BY <1>5 DEF Send
    <2> HIDE DEF call
    <2> QED
      BY <1>2, <2>3, <2>5, <2>6, <2>7 DEF GoesOn
  <1> QED
    BY <1>3, <1>4, <1>5 DEF BeginOperation

LEMMA NextTargetGoesOn ==
  ASSUME TypeOK, NEW c \in Correlations, NEW run, Between(run),
         NEW sections \in Seq(Seq(AuditRecord)),
         NextTarget(c, run, sections), UNCHANGED <<boot, registry>>
  PROVE  GoesOn(c, run.job, run.boot)
  <1> DEFINE from == TargetIndex(run)
             run2(upto) == [run EXCEPT !.results = @ \o
                             [i \in 1..(upto - from) |-> RefusedTarget(run, from + i - 1)]]
             sections2(upto) == sections \o
                             [i \in 1..(upto - from) |-> RefusedSection(run, from + i - 1)]
  <1>1. PICK upto \in from..(Len(run.job.targets) + 1) :
           \/ /\ upto <= Len(run.job.targets)
              /\ BeginOperation(c, run2(upto), Append(sections2(upto), <<>>))
           \/ Finish(c, run2(upto), sections2(upto))
    BY DEF NextTarget
  <1>2. /\ Between(run2(upto)) /\ run2(upto).job = run.job
        /\ TargetIndex(run2(upto)) = upto
    BY SkippedType
  <1>3. run2(upto).boot = run.boot
    BY DEF Between, Run
  <1> HIDE DEF run2, sections2
  <1>4. CASE Finish(c, run2(upto), sections2(upto))
    <2> DEFINE next == [run2(upto) EXCEPT !.phase = "done", !.pending = NoResult]
    <2>1. next.job = run.job /\ next.boot = run.boot /\ next.phase = "done"
      BY <1>2, <1>3 DEF Between, Run
    <2>2. runs' = [runs EXCEPT ![c] = next] /\ calls' = calls
      BY <1>4 DEF Finish
    <2> HIDE DEF next
    <2> QED
      BY <2>1, <2>2 DEF GoesOn, TypeOK
  <1>5. CASE /\ upto <= Len(run.job.targets)
             /\ BeginOperation(c, run2(upto), Append(sections2(upto), <<>>))
    <2>1. Positioned(run2(upto))
      BY <1>2, <1>5, FirstOperation
    <2> QED
      BY <1>2, <1>3, <1>5, <2>1, BeginOperationGoesOn
  <1> QED
    BY <1>1, <1>4, <1>5

LEMMA ExecuteGoesOn ==
  ASSUME TypeOK, NEW c \in Correlations, NEW job \in Jobs, Execute(c, job)
  PROVE  GoesOn(c, job, boot)
  <1>1. NextTarget(c, NewRun(job), <<>>) /\ UNCHANGED <<boot, registry>>
    BY DEF Execute
  <1> QED
    BY <1>1, NewRunType, EmptySeq, NextTargetGoesOn

LEMMA ResumeGoesOn ==
  ASSUME TypeOK, NEW c \in Correlations, Resume(c)
  PROVE  GoesOn(c, runs[c].job, runs[c].boot)
  <1> DEFINE run == Settle(runs[c])
  <1>1. /\ run \in Run /\ run.job \in Jobs /\ run.job = runs[c].job
        /\ TargetIndex(run) \in 1..Len(run.job.targets)
        /\ audit[c] \in Seq(Seq(AuditRecord))
    BY SettleType DEF Resume, TypeOK
  <1>2. run.boot = runs[c].boot
    BY DEF Settle, TypeOK, Run
  <1>3. CloseTarget(run).boot = run.boot
    BY <1>1 DEF CloseTarget, Run
  <1> HIDE DEF run
  <1>4. CASE /\ OperationIndex(run) <= Len(run.job.operations)
             /\ BeginOperation(c, run, audit[c])
    <2>1. Positioned(run)
      BY <1>1, <1>4 DEF Positioned
    <2> QED
      BY <1>1, <1>2, <1>4, <2>1, BeginOperationGoesOn DEF Resume
  <1>5. CASE NextTarget(c, CloseTarget(run), audit[c])
    BY <1>1, <1>2, <1>3, <1>5, CloseTargetType, NextTargetGoesOn DEF Resume
  <1> QED
    BY <1>4, <1>5 DEF Resume, run

-----------------------------------------------------------------------------
(* The credentials of the calls, and what the registry knows of them *)

\* A call is the one its run makes at that position, with the credential that fits.
CallsFit ==
    \A k \in calls :
        LET run == runs[k.id[1]]
        IN  /\ run.phase # "unused"
            /\ k.id[2] \in 1..Len(run.job.targets)
            /\ k.id[3] \in 1..Len(run.job.operations)
            /\ k.project = run.job.targets[k.id[2]]
            /\ k.operation = run.job.operations[k.id[3]]
            /\ k.api_key = ResolveOperationAuthContext(k.operation, k.project).api_key
            /\ RefusalCode(k.operation, k.project) = "none"

\* No run belongs to a process that has yet to start.
BootsFit == \A c \in Correlations : runs[c].boot <= boot

\* The registry knows every keyed operation that succeeded while this process ran.
RegistryCovers ==
    \A k \in calls :
        k.state = "ok" /\ k.operation.idempotency_key # NoKey /\ runs[k.id[1]].boot = boot
          => IdempotencyKey(k.project, k.operation) \in DOMAIN registry

CallsInv == CallsFit /\ BootsFit /\ RegistryCovers

LEMMA CallOfRun ==
  ASSUME TypeOK, NEW k \in calls
  PROVE  k \in Call /\ k.id[1] \in Correlations
  BY DEF TypeOK, Call, CallIds

LEMMA GoesOnCalls ==
  ASSUME TypeOK, CallsInv, NEW c \in Correlations, NEW job, NEW b \in Nat, b <= boot,
         runs[c].phase = "unused" \/ (runs[c].job = job /\ runs[c].boot = b),
         GoesOn(c, job, b)
  PROVE  CallsInv'
  <1>1. ASSUME NEW k \in calls
        PROVE  /\ runs'[k.id[1]].phase # "unused"
               /\ runs'[k.id[1]].job = runs[k.id[1]].job
               /\ runs'[k.id[1]].boot = runs[k.id[1]].boot
    BY CallOfRun DEF CallsInv, CallsFit, GoesOn
  <1>2. BootsFit'
    BY DEF CallsInv, BootsFit, GoesOn
  <1>3. CASE calls' = calls
    BY <1>1, <1>2, <1>3 DEF CallsInv, CallsFit, RegistryCovers, GoesOn
  <1>4. ASSUME NEW call \in Call, MaySend(c, job, call), calls' = calls \cup {call}
        PROVE  CallsInv'
    <2>1. PICK t \in 1..Len(job.targets), o \in 1..Len(job.operations) :
             /\ call.id = <<c, t, o>> /\ call.state = "open"
             /\ call.project = job.targets[t] /\ call.operation = job.operations[o]
             /\ call.api_key =
                  ResolveOperationAuthContext(call.operation, call.project).api_key
             /\ RefusalCode(call.operation, call.project) = "none"
      BY <1>4 DEF MaySend
    <2>2. CallsFit'
      <3>1. runs'[c].phase # "unused" /\ runs'[c].job = job
        BY DEF GoesOn
      <3> DEFINE Fits(k) ==
            /\ runs'[k.id[1]].phase # "unused"
            /\ k.id[2] \in 1..Len(runs'[k.id[1]].job.targets)
            /\ k.id[3] \in 1..Len(runs'[k.id[1]].job.operations)
            /\ k.project = runs'[k.id[1]].job.targets[k.id[2]]
            /\ k.operation = runs'[k.id[1]].job.operations[k.id[3]]
            /\ k.api_key = ResolveOperationAuthContext(k.operation, k.project).api_key
            /\ RefusalCode(k.operation, k.project) = "none"
      <3>2. call.id[1] = c /\ call.id[2] = t /\ call.id[3] = o
        BY <2>1
      <3>3. Fits(call)
        BY <2>1, <3>1, <3>2
      <3>4. ASSUME NEW k \in calls PROVE Fits(k)
        BY <1>1, <3>4 DEF CallsInv, CallsFit
      <3>5. \A k \in calls' : Fits(k)
        BY <1>4, <3>3, <3>4
      <3> QED
        BY <3>5 DEF CallsFit
    <2>3. RegistryCovers'
      BY <1>1, <1>4, <2>1 DEF CallsInv, RegistryCovers, GoesOn
    <2> QED
      BY <1>2, <2>2, <2>3 DEF CallsInv
  <1> QED
    BY <1>3, <1>4 DEF GoesOn

LEMMA AdapterReturnsCalls ==
  ASSUME TypeOK, CallsInv, NEW c \in Correlations, NEW ok \in BOOLEAN,
         AdapterReturns(c, ok)
  PROVE  CallsInv'
  <1> DEFINE run == runs[c]
             operation == CurrentOperation(run)
             id == CallId(c, run)
             result == IF ok THEN Success(operation, id) ELSE Failure(operation, "UPSTREAM")
             key == IdempotencyKey(CurrentProject(run), operation)
  <1>1. \A d \in Correlations :
           /\ runs'[d].job = runs[d].job /\ runs'[d].boot = runs[d].boot
           /\ runs[d].phase # "unused" => runs'[d].phase # "unused"
    <2> DEFINE next == [run EXCEPT !.phase = "returned", !.pending = result]
    <2>1. next.job = run.job /\ next.boot = run.boot /\ next.phase = "returned"
      BY DEF TypeOK, Run
    <2>2. runs' = [runs EXCEPT ![c] = next]
      BY DEF AdapterReturns
    <2> HIDE DEF next
    <2> QED
      BY <2>1, <2>2 DEF TypeOK
  <1>2. ASSUME NEW k2 \in calls'
        PROVE  \E k \in calls :
                 /\ k2.id = k.id /\ k2.project = k.project /\ k2.operation = k.operation
                 /\ k2.api_key = k.api_key
                 /\ k2.state = k.state \/ (k.id = id /\ (k2.state = "ok" => ok))
    <2>1. PICK k \in calls :
             k2 = IF k.id = id
                  THEN [k EXCEPT !.state = IF ok THEN "ok" ELSE "failed"] ELSE k
      BY DEF AdapterReturns
    <2>2. k \in Call
      BY CallOfRun
    <2> QED
      BY <2>1, <2>2 DEF Call
  <1>3. CallsFit'
    <2> SUFFICES ASSUME NEW k2 \in calls'
                 PROVE  LET after == runs'[k2.id[1]]
                        IN  /\ after.phase # "unused"
                            /\ k2.id[2] \in 1..Len(after.job.targets)
                            /\ k2.id[3] \in 1..Len(after.job.operations)
                            /\ k2.project = after.job.targets[k2.id[2]]
                            /\ k2.operation = after.job.operations[k2.id[3]]
                            /\ k2.api_key =
                                 ResolveOperationAuthContext(k2.operation, k2.project).api_key
                            /\ RefusalCode(k2.operation, k2.project) = "none"
      BY DEF CallsFit
    <2>1. PICK k \in calls : /\ k2.id = k.id /\ k2.project = k.project
                             /\ k2.operation = k.operation /\ k2.api_key = k.api_key
      BY <1>2
    <2>2. /\ runs'[k.id[1]].job = runs[k.id[1]].job
          /\ runs[k.id[1]].phase # "unused" => runs'[k.id[1]].phase # "unused"
      BY <1>1, CallOfRun
    <2> QED
      BY <2>1, <2>2 DEF CallsInv, CallsFit
  <1>4. BootsFit'
    BY <1>1 DEF CallsInv, BootsFit, AdapterReturns
  <1>5. RegistryCovers'
    <2>1. DOMAIN registry \subseteq DOMAIN registry'
      BY DEF AdapterReturns, Remember
    <2>2. ok /\ operation.idempotency_key # NoKey => key \in DOMAIN registry'
      BY DEF AdapterReturns, Remember
    <2>3. ASSUME NEW k \in calls, k.id = id
          PROVE  k.project = CurrentProject(run) /\ k.operation = operation
      BY <2>3 DEF CallsInv, CallsFit, CallId, CurrentProject, CurrentOperation
    <2>4. ASSUME NEW k2 \in calls', k2.state = "ok",
                 k2.operation.idempotency_key # NoKey, runs'[k2.id[1]].boot = boot'
          PROVE  IdempotencyKey(k2.project, k2.operation) \in DOMAIN registry'
      <3>1. PICK k \in calls :
               /\ k2.id = k.id /\ k2.project = k.project /\ k2.operation = k.operation
               /\ k2.state = k.state \/ (k.id = id /\ (k2.state = "ok" => ok))
        BY <1>2
      <3>2. CASE k2.state = k.state
        <4>1. runs[k.id[1]].boot = boot
          BY <1>1, <2>4, <3>1, CallOfRun DEF AdapterReturns
        <4> QED
          BY <2>1, <2>4, <3>1, <3>2, <4>1 DEF CallsInv, RegistryCovers
      <3>3. CASE k.id = id /\ ok
        BY <2>2, <2>3, <2>4, <3>1, <3>3
      <3> QED
        BY <2>4, <3>1, <3>2, <3>3
    <2> QED
      BY <2>4 DEF RegistryCovers
  <1> QED
    BY <1>3, <1>4, <1>5 DEF CallsInv

LEMMA RestartCalls ==
  ASSUME TypeOK, CallsInv, Restart
  PROVE  CallsInv'
  <1>1. \A d \in Correlations :
           /\ runs'[d].job = runs[d].job /\ runs'[d].boot = runs[d].boot
           /\ runs[d].phase # "unused" => runs'[d].phase # "unused"
    BY DEF Restart, TypeOK, Run
  <1>2. boot' = boot + 1 /\ boot \in Nat /\ \A d \in Correlations : runs[d].boot \in Nat
    BY BootsAssumption DEF Restart, TypeOK, Run
  <1>3. CallsFit'
    BY <1>1, CallOfRun DEF CallsInv, CallsFit, Restart
  <1>4. BootsFit'
    BY <1>1, <1>2 DEF CallsInv, BootsFit
  <1>5. \A d \in Correlations : runs'[d].boot # boot'
    BY <1>1, <1>2 DEF CallsInv, BootsFit
  <1>6. RegistryCovers'
    BY <1>5, CallOfRun DEF RegistryCovers, Restart
  <1> QED
    BY <1>3, <1>4, <1>6 DEF CallsInv

LEMMA CallsInvariant == Spec => []CallsInv
  <1>1. Init => CallsInv
    BY DEF Init, CallsInv, CallsFit, BootsFit, RegistryCovers, IdleRun
  <1>2. TypeOK /\ CallsInv /\ [Next]_vars => CallsInv'
    <2> SUFFICES ASSUME TypeOK, CallsInv, [Next]_vars PROVE CallsInv'
      OBVIOUS
    <2>1. boot \in Nat /\ \A c \in Correlations : runs[c].boot \in Nat
      BY BootsAssumption DEF TypeOK, Run
    <2>2. ASSUME NEW c \in Correlations, NEW job \in Jobs, Execute(c, job) PROVE CallsInv'
      BY <2>1, <2>2, ExecuteGoesOn, GoesOnCalls DEF Execute
    <2>3. ASSUME NEW c \in Correlations, NEW ok \in BOOLEAN, AdapterReturns(c, ok)
          PROVE  CallsInv'
      BY <2>3, AdapterReturnsCalls
    <2>4. ASSUME NEW c \in Correlations, Resume(c) PROVE CallsInv'
      BY <2>1, <2>4, ResumeGoesOn, GoesOnCalls DEF CallsInv, BootsFit
    <2>5. CASE Restart
      BY <2>5, RestartCalls
    <2>6. CASE UNCHANGED vars
      BY <2>6 DEF vars, CallsInv, CallsFit, BootsFit, RegistryCovers
    <2> QED
      BY <2>2, <2>3, <2>4, <2>5, <2>6 DEF Next
  <1> QED
    BY <1>1, <1>2, TypeCorrect, PTL DEF Spec

\* Once a keyed operation has succeeded, no run of the same process sends it again
\* (NoRepeatAfterSuccess): the registry covers every success, and Send reads it first.
THEOREM NoRepeat == Spec => NoRepeatAfterSuccess
  <1> DEFINE Stays ==
        \A k \in calls' \ calls : \A l \in calls :
          l.state = "ok" /\ SameKey(k, l) /\ k.state = "open" => runs[l.id[1]].boot # boot
  <1>1. ASSUME TypeOK, CallsInv, Next PROVE Stays
    <2>1. ASSUME NEW c \in Correlations, NEW job, NEW b, GoesOn(c, job, b) PROVE Stays
      <3> SUFFICES ASSUME NEW k \in calls' \ calls, NEW l \in calls,
                          l.state = "ok", SameKey(k, l), runs[l.id[1]].boot = boot
                   PROVE  FALSE
        OBVIOUS
      <3>1. MaySend(c, job, k)
        BY <2>1 DEF GoesOn
      <3>2. \/ k.operation.idempotency_key = NoKey
            \/ IdempotencyKey(k.project, k.operation) \notin DOMAIN registry
        BY <3>1 DEF MaySend
      <3>3. IdempotencyKey(l.project, l.operation) \in DOMAIN registry
        BY <1>1 DEF CallsInv, RegistryCovers, SameKey
      <3> QED
        BY <3>2, <3>3 DEF SameKey, IdempotencyKey
    <2>2. ASSUME NEW c \in Correlations, NEW ok \in BOOLEAN, AdapterReturns(c, ok)
          PROVE  Stays
      <3>1. ASSUME NEW k \in calls' \ calls PROVE k.state # "open"
        <4>1. PICK k0 \in calls :
                 k = IF k0.id = CallId(c, runs[c])
                     THEN [k0 EXCEPT !.state = IF ok THEN "ok" ELSE "failed"] ELSE k0
          BY <2>2, <3>1 DEF AdapterReturns
        <4>2. k = [k0 EXCEPT !.state = IF ok THEN "ok" ELSE "failed"]
          BY <3>1, <4>1
        <4> QED
          BY <4>2, CallOfRun DEF Call
      <3> QED
        BY <3>1
    <2>3. CASE Restart
      BY <2>3 DEF Restart
    <2>4. ASSUME NEW c \in Correlations, NEW job \in Jobs, Execute(c, job) PROVE Stays
      BY <2>1, <2>4, <1>1, ExecuteGoesOn
    <2>5. ASSUME NEW c \in Correlations, Resume(c) PROVE Stays
      BY <2>1, <2>5, <1>1, ResumeGoesOn
    <2> QED
      BY <1>1, <2>2, <2>3, <2>4, <2>5 DEF Next
  <1>2. TypeOK /\ CallsInv /\ [Next]_vars => [Stays]_vars
    BY <1>1
  <1> QED
    BY <1>2, TypeCorrect, CallsInvariant, PTL DEF Spec, NoRepeatAfterSuccess

\* A key is one credential: wherever it is listed, it is with the same scopes.
OneCredentialPerKey ==
    \A a, b \in Credentials : a.api_key = b.api_key => a = b

\* Where a key is one credential, a request leaves only with that of its own project or,
\* for a project.* action, the management one, and whichever it is, only if its scopes
\* suffice (LeastPrivilege; resolveOperationAuthContext, findMissingScopes).
THEOREM KeysKeptApart ==
  ASSUME OneCredentialPerKey
  PROVE  Spec => []LeastPrivilege
  <1>1. TypeOK /\ CallsInv => LeastPrivilege
    <2> SUFFICES ASSUME TypeOK, CallsInv, NEW k \in calls
                 PROVE  LeastPrivilege!(k)
      BY DEF LeastPrivilege
    <2> DEFINE used == ResolveOperationAuthContext(k.operation, k.project)
               entitled == IF k.operation.action \in ProjectActions
                           THEN {ManagementAuthContext} ELSE OwnCredentials(k.project)
    <2>1. k.api_key = used.api_key /\ RefusalCode(k.operation, k.project) = "none"
      BY DEF CallsInv, CallsFit
    <2>2. /\ used # NoAuthContext /\ used.api_key # NoApiKey
          /\ FindMissingScopes(k.operation.required_scopes, used.scopes) = {}
      BY <2>1 DEF RefusalCode
    <2>3. used.scopes = {} \/ k.operation.required_scopes \subseteq used.scopes
      BY <2>2 DEF FindMissingScopes
    <2>4. used \in entitled /\ used \in Credentials
      <3>1. CASE k.operation.action \in ProjectActions
        <4>1. used = ManagementAuthContext
          BY <2>2, <3>1 DEF ResolveOperationAuthContext
        <4> QED
          BY <2>2, <3>1, <4>1 DEF Credentials
      <3>2. CASE k.operation.action \notin ProjectActions
        <4>1. used = ResolveAuthContextForTarget(k.project)
          BY <3>2 DEF ResolveOperationAuthContext
        <4>2. CASE DOMAIN ProjectAuthContexts = {}
          BY <2>2, <3>2, <4>1, <4>2 DEF ResolveAuthContextForTarget, OwnCredentials, Credentials
        <4>3. CASE DOMAIN ProjectAuthContexts # {}
          <5>1. k.project \in DOMAIN ProjectAuthContexts /\ used = ProjectAuthContexts[k.project]
            BY <2>2, <4>1, <4>3 DEF ResolveAuthContextForTarget
          <5> QED
            BY <2>2, <3>2, <4>3, <5>1 DEF OwnCredentials, Credentials
        <4> QED
          BY <4>2, <4>3
      <3> QED
        BY <3>1, <3>2
    <2>5. \A context \in Credentials : context.api_key = k.api_key => context = used
      BY <2>1, <2>4 DEF OneCredentialPerKey
    <2> HIDE DEF used
    <2> QED
      BY <2>1, <2>3, <2>4, <2>5
  <1> QED
    BY <1>1, TypeCorrect, CallsInvariant, PTL
=============================================================================
