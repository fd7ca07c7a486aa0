------------------------ MODULE ExecutorReportsProofs ------------------------
(***************************************************************************)
(* What a run reports, to its client and to the log. Its results stand     *)
(* where the request says (ResultsFollowRequest), what the adapter         *)
(* answered is among them (CallsAreAccounted), and the log has a record of *)
(* each, in order (AuditTellsTheRun).                                      *)
(*                                                                         *)
(* The argument for the results: an answer is kept at its place from the   *)
(* step that brings it, through the await of execute(), to the end of the  *)
(* run (Reported), and a result names the operation at its place unless it *)
(* came from the registry, which holds no result of a call the run has yet *)
(* to make (Names). For the log: whatever a run stands at, its sections    *)
(* are those of the targets it has finished, of the operations it has      *)
(* settled in the one it is at, the one it is about to settle included,    *)
(* and at its end the "apply" records (LogOK).                             *)
(***************************************************************************)
EXTENDS ExecutorResultsProofs, FunctionTheorems, FiniteSetTheorems

\* Result r at <<t, o>> of run is a refusal only if there is a reason for one.
RefusedForCause(run, t, o, r) ==
    r.code \in RefusalCodes =>
      \/ ~TargetUsable(run.job.targets[t])
      \/ RefusalCode(run.job.operations[o], run.job.targets[t]) # "none"

\* Result r at <<t, o>> of run, the run of c, names the operation there or is a replay.
Names(run, c, t, o, r) ==
    /\ o \in DOMAIN run.job.operations
    /\ \/ r.operation_id = run.job.operations[o].operation_id
       \/ r.call \notin {NoCall, <<c, t, o>>}
    /\ RefusedForCause(run, t, o, r)

\* The result of a target is that of the target at its place, whole.
TargetTold(run, c, t) ==
    /\ run.results[t].project_id = run.job.targets[t]
    /\ Len(run.results[t].operations) = Len(run.job.operations)
    /\ run.results[t].status = "SUCCESS" <=> AllSucceeded(run.results[t].operations)
    /\ \A o \in DOMAIN run.results[t].operations :
         Names(run, c, t, o, run.results[t].operations[o])

Told(run, c) ==
    /\ \A t \in DOMAIN run.results : TargetTold(run, c, t)
    /\ \A o \in DOMAIN run.operations :
         Names(run, c, TargetIndex(run), o, run.operations[o])

\* Run has result r at <<t, o>>.
Stored(run, t, o, r) ==
    \/ /\ t \in DOMAIN run.results /\ o \in DOMAIN run.results[t].operations
       /\ run.results[t].operations[o] = r
    \/ t = TargetIndex(run) /\ o \in DOMAIN run.operations /\ run.operations[o] = r

\* What the answer to call k is reported as.
Outcome(k) ==
    IF k.state = "ok" THEN Success(k.operation, k.id) ELSE Failure(k.operation, "UPSTREAM")

\* Call k of run is answered and stored, or what the run waits for or resumes with.
Reported(k, run, c) ==
    \/ k.state # "open" /\ Stored(run, k.id[2], k.id[3], Outcome(k))
    \/ /\ k.id = CallId(c, run)
       /\ \/ k.state = "open" /\ run.phase \in {"calling", "lost"}
          \/ /\ k.state # "open" /\ run.phase \in {"returned", "lost"}
             /\ run.pending = Outcome(k)

ReportInv(cs, run, c) ==
    /\ Told(run, c)
    /\ run.phase = "returned" =>
         Names(run, c, TargetIndex(run), OperationIndex(run), run.pending)
    /\ run.phase = "done" => Len(run.results) = Len(run.job.targets)
    /\ \A k \in cs : k.id[1] = c => Reported(k, run, c)

ReportsInv == \A c \in Correlations : ReportInv(calls, runs[c], c)

\* A run about to begin an operation or a target has stored all its answers.
Ahead(run, c) ==
    /\ Told(run, c)
    /\ \A k \in calls : k.id[1] = c =>
         k.state # "open" /\ Stored(run, k.id[2], k.id[3], Outcome(k))

-----------------------------------------------------------------------------

LEMMA ToldSame ==
  ASSUME NEW run, NEW next, next.job = run.job, next.results = run.results,
         next.operations = run.operations, NEW c
  PROVE  /\ TargetIndex(next) = TargetIndex(run)
         /\ OperationIndex(next) = OperationIndex(run)
         /\ CallId(c, next) = CallId(c, run)
         /\ Told(run, c) => Told(next, c)
         /\ \A t, o, r : Stored(run, t, o, r) => Stored(next, t, o, r)
  <1>1. /\ TargetIndex(next) = TargetIndex(run)
        /\ OperationIndex(next) = OperationIndex(run)
        /\ CallId(c, next) = CallId(c, run)
    BY DEF TargetIndex, OperationIndex, CallId
  <1>2. \A t, o, r : Names(run, c, t, o, r) => Names(next, c, t, o, r)
    BY DEF Names, RefusedForCause
  <1>3. \A t : TargetTold(run, c, t) => TargetTold(next, c, t)
    BY <1>2 DEF TargetTold
  <1>4. Told(run, c) => Told(next, c)
    BY <1>1, <1>2, <1>3 DEF Told
  <1>5. \A t, o, r : Stored(run, t, o, r) => Stored(next, t, o, r)
    BY <1>1 DEF Stored
  <1> QED
    BY <1>1, <1>4, <1>5

\* Run c goes on: what the others report is as before.
LEMMA OthersReport ==
  ASSUME TypeOK, ReportsInv, NEW c \in Correlations, NEW job, NEW b, GoesOn(c, job, b),
         ReportInv(calls', runs'[c], c)
  PROVE  ReportsInv'
  <1>1. \A k \in calls' : k \in calls \/ k.id[1] = c
    BY DEF GoesOn, MaySend
  <1>2. ASSUME NEW d \in Correlations \ {c} PROVE ReportInv(calls', runs'[d], d)
    <2>1. runs'[d] = runs[d] /\ ReportInv(calls, runs[d], d)
      BY DEF GoesOn, ReportsInv
    <2> QED
      BY <1>1, <2>1 DEF ReportInv
  <1> QED
    BY <1>2 DEF ReportsInv

\* What the registry knows is a success, and not of the call the run would make here.
LEMMA ReplayOfAnother ==
  ASSUME TypeOK, ResultsInv, NEW c \in Correlations, NEW run,
         Positioned(run), Forward(run, c), NEW key \in DOMAIN registry
  PROVE  /\ registry[key].status = "SUCCESS" /\ registry[key].code \notin RefusalCodes
         /\ registry[key].call \notin
              {NoCall, <<c, TargetIndex(run), OperationIndex(run)>>}
  <1>1. PICK k \in calls : k.id = registry[key].call
    BY DEF ResultsInv, RegistryBacked
  <1>2. k.id # NoCall
    BY NoCallAssumption, CallOfRun DEF Call
  <1>3. k.id # <<c, TargetIndex(run), OperationIndex(run)>>
    <2>1. SUFFICES ASSUME k.id = <<c, TargetIndex(run), OperationIndex(run)>> PROVE FALSE
      OBVIOUS
    <2>2. Behind(k, run)
      BY <2>1 DEF Forward
    <2>3. TargetIndex(run) \in Nat /\ OperationIndex(run) \in Nat
      BY PositionType
    <2> QED
      BY <2>1, <2>2, <2>3 DEF Behind
  <1> QED
    BY <1>1, <1>2, <1>3 DEF ResultsInv, RegistryBacked, RefusalCodes

LEMMA BeginOperationReports ==
  ASSUME TypeOK, ResultsInv, ReportsInv, NEW c \in Correlations, NEW run,
         Positioned(run), Forward(run, c), Ahead(run, c),
         NEW sections, BeginOperation(c, run, sections), UNCHANGED <<boot, registry>>
  PROVE  ReportsInv'
  <1> DEFINE operation == CurrentOperation(run)
             project == CurrentProject(run)
             key == IdempotencyKey(project, operation)
  <1>1. GoesOn(c, run.job, run.boot)
    BY BeginOperationGoesOn
  <1>2. /\ run \in Run /\ OperationIndex(run) \in DOMAIN run.job.operations
    BY PositionType DEF Positioned
  <1>3. ASSUME NEW pending, NEW phase \in {"calling", "returned"},
               runs' = [runs EXCEPT ![c] = [run EXCEPT !.phase = phase, !.pending = pending]],
               phase = "returned" =>
                 Names(run, c, TargetIndex(run), OperationIndex(run), pending),
               \A k \in calls' : k.id[1] = c => k \in calls
                 \/ (k.id = CallId(c, run) /\ k.state = "open" /\ phase = "calling")
        PROVE  ReportInv(calls', runs'[c], c)
    <2> DEFINE next == [run EXCEPT !.phase = phase, !.pending = pending]
    <2>1. /\ next.job = run.job /\ next.phase = phase /\ next.pending = pending
          /\ next.results = run.results /\ next.operations = run.operations
      BY <1>2 DEF Run
    <2>2. runs'[c] = next
      BY <1>3 DEF TypeOK
    <2> HIDE DEF next
    <2>3. /\ TargetIndex(next) = TargetIndex(run) /\ CallId(c, next) = CallId(c, run)
          /\ OperationIndex(next) = OperationIndex(run)
          /\ Told(next, c)
          /\ \A t, o, r : Stored(run, t, o, r) => Stored(next, t, o, r)
      BY <2>1, ToldSame DEF Ahead
    <2>4. ASSUME NEW k \in calls', k.id[1] = c PROVE Reported(k, next, c)
      <3>1. CASE k \in calls
        BY <2>3, <2>4, <3>1 DEF Ahead, Reported
      <3>2. CASE k.id = CallId(c, run) /\ k.state = "open" /\ phase = "calling"
        BY <2>1, <2>3, <3>2 DEF Reported
      <3> QED
        BY <1>3, <2>4, <3>1, <3>2
    <2>5. next.phase = "returned" =>
            Names(next, c, TargetIndex(next), OperationIndex(next), next.pending)
      BY <1>3, <2>1, <2>3 DEF Names, RefusedForCause
    <2> QED
      BY <1>3, <2>1, <2>2, <2>3, <2>4, <2>5 DEF ReportInv
  <1>4. CASE Refuse(c, run, sections)
    <2> DEFINE pending == Failure(operation, RefusalCode(operation, project))
    <2>1. Names(run, c, TargetIndex(run), OperationIndex(run), pending)
      BY <1>2, <1>4 DEF Names, RefusedForCause, Refuse, Failure, CurrentOperation,
                        CurrentProject
    <2>2. calls' = calls /\ runs' =
            [runs EXCEPT ![c] = [run EXCEPT !.phase = "returned", !.pending = pending]]
      BY <1>4 DEF Refuse
    <2> HIDE DEF pending
    <2>3. ReportInv(calls', runs'[c], c)
      BY <1>3, <2>1, <2>2
    <2> QED
      BY <1>1, <2>3, OthersReport
  <1>5. CASE Replay(c, run, sections)
    <2>1. Names(run, c, TargetIndex(run), OperationIndex(run), registry[key])
      BY <1>2, <1>5, ReplayOfAnother DEF Replay, Names, RefusedForCause
    <2>2. calls' = calls /\ runs' =
            [runs EXCEPT ![c] = [run EXCEPT !.phase = "returned", !.pending = registry[key]]]
      BY <1>5 DEF Replay
    <2>3. ReportInv(calls', runs'[c], c)
      BY <1>3, <2>1, <2>2
    <2> QED
      BY <1>1, <2>3, OthersReport
  <1>6. CASE Send(c, run, sections)
    <2>1. runs' = [runs EXCEPT ![c] = [run EXCEPT !.phase = "calling", !.pending = NoResult]]
      BY <1>6 DEF Send
    <2>2. \A k \in calls' : k \in calls \/ (k.id = CallId(c, run) /\ k.state = "open")
      BY <1>6 DEF Send
    <2>3. ReportInv(calls', runs'[c], c)
      BY <1>3, <2>1, <2>2
    <2> QED
      BY <1>1, <2>3, OthersReport
  <1> QED
    BY <1>4, <1>5, <1>6 DEF BeginOperation

LEMMA ConcatAt ==
  ASSUME NEW S, NEW s \in Seq(S), NEW u \in Seq(S)
  PROVE  /\ Len(s) \in Nat /\ Len(u) \in Nat /\ DOMAIN s = 1..Len(s)
         /\ DOMAIN (s \o u) = 1..(Len(s) + Len(u)) /\ Len(s \o u) = Len(s) + Len(u)
         /\ \A i \in 1..Len(s) : (s \o u)[i] = s[i]
         /\ \A i \in (Len(s) + 1)..(Len(s) + Len(u)) : (s \o u)[i] = u[i - Len(s)]
  <1> DEFINE m == Len(s)
             n == Len(u)
  <1>1. m \in Nat /\ n \in Nat /\ DOMAIN s = 1..m
    BY LenProperties
  <1>2. s \o u \in Seq(S) /\ Len(s \o u) = m + n
    BY ConcatType
  <1>3. DOMAIN (s \o u) = 1..(m + n)
    BY <1>2, LenProperties
  <1>4. \A i \in 1..(m + n) : (s \o u)[i] = IF i <= m THEN s[i] ELSE u[i - m]
    BY ConcatProperties
  <1> HIDE DEF m, n
  <1>5. ASSUME NEW i \in 1..m PROVE (s \o u)[i] = s[i]
    <2>1. i \in 1..(m + n) /\ i <= m
      BY <1>1
    <2> QED
      BY <1>4, <2>1
  <1>6. ASSUME NEW i \in (m + 1)..(m + n) PROVE (s \o u)[i] = u[i - m]
    <2>1. i \in 1..(m + n) /\ ~ (i <= m)
      BY <1>1
    <2> QED
      BY <1>4, <2>1
  <1> QED
    BY <1>1, <1>2, <1>3, <1>5, <1>6 DEF m, n

\* The targets skipped are told of as they should be, and nothing stored is lost.
LEMMA SkippedTold ==
  ASSUME NEW run, Between(run), NEW c, Told(run, c),
         NEW upto \in TargetIndex(run)..(Len(run.job.targets) + 1),
         SkipsTo(run.job.targets, TargetIndex(run), upto),
         NEW run2,
         run2.results = run.results \o
           [i \in 1..(upto - TargetIndex(run)) |->
               RefusedTarget(run, TargetIndex(run) + i - 1)],
         run2.job = run.job, run2.operations = <<>>
  PROVE  /\ Told(run2, c)
         /\ \A t, o, r : Stored(run, t, o, r) => Stored(run2, t, o, r)
  <1> DEFINE from == TargetIndex(run)
             refused == [i \in 1..(upto - from) |-> RefusedTarget(run, from + i - 1)]
             m == Len(run.results)
             n == Len(refused)
  <1>1. /\ run \in Run /\ run.job \in Jobs /\ run.results \in Seq(TargetResult)
        /\ run.operations = <<>>
    BY DEF Between, Run
  <1>2. /\ m \in Nat /\ from = m + 1 /\ Len(run.job.targets) \in Nat
        /\ Len(run.job.operations) \in Nat \ {0}
        /\ DOMAIN run.job.operations = 1..Len(run.job.operations)
    BY <1>1, JobType, LenProperties DEF TargetIndex
  <1>3. upto - from \in Nat
    BY <1>2
  <1>4. \A i \in 1..(upto - from) : from + i - 1 \in 1..Len(run.job.targets)
    BY <1>2
  <1>5. refused \in [1..(upto - from) -> TargetResult]
    BY <1>1, <1>4, RefusedTargetType
  <1>6. \A i \in 1..(upto - from) : refused[i] = RefusedTarget(run, m + i)
    BY <1>2
  <1> HIDE DEF refused
  <1>7. refused \in Seq(TargetResult) /\ n = upto - from
    BY <1>3, <1>5, ListIsSeq
  <1>8. /\ run2.results = run.results \o refused
        /\ DOMAIN run2.results = 1..(m + n) /\ DOMAIN run.results = 1..m
        /\ \A t \in 1..m : run2.results[t] = run.results[t]
        /\ \A t \in (m + 1)..(m + n) : run2.results[t] = refused[t - m]
    <2>1. run2.results = run.results \o refused
      BY DEF refused
    <2>2. /\ DOMAIN (run.results \o refused) = 1..(m + n) /\ DOMAIN run.results = 1..m
          /\ \A t \in 1..m : (run.results \o refused)[t] = run.results[t]
          /\ \A t \in (m + 1)..(m + n) : (run.results \o refused)[t] = refused[t - m]
      BY <1>1, <1>7, ConcatAt
    <2> QED
      BY <2>1, <2>2
  <1> HIDE DEF m, n, from
  <1>9. m \in Nat /\ n \in Nat
    BY <1>2, <1>3, <1>7
  <1>10. DOMAIN run2.results = 1..(m + n) /\ DOMAIN run.results = 1..m
    BY <1>8
  <1>11. ASSUME NEW t \in 1..m PROVE TargetTold(run2, c, t)
    <2>1. TargetTold(run, c, t) /\ run2.results[t] = run.results[t]
      BY <1>8 DEF Told
    <2> QED
      BY <2>1 DEF TargetTold, Names, RefusedForCause
  <1>12. ASSUME NEW t \in (m + 1)..(m + n) PROVE TargetTold(run2, c, t)
    <2>1. t - m \in 1..(upto - from) /\ m + (t - m) = t
      BY <1>2, <1>3, <1>7
    <2>2. run2.results[t] = RefusedTarget(run, t)
      BY <1>6, <1>8, <2>1
    <2> DEFINE ops == RefusedTarget(run, t).operations
    <2>3. /\ ops = [o \in DOMAIN run.job.operations |->
                      Failure(run.job.operations[o], "AUTH_CONTEXT_REQUIRED")]
          /\ RefusedTarget(run, t).status = "FAILED"
          /\ RefusedTarget(run, t).project_id = run.job.targets[t]
      BY DEF RefusedTarget
    <2>4. Len(ops) = Len(run.job.operations)
      <3>1. ops \in [1..Len(run.job.operations) -> {ops[o] : o \in 1..Len(run.job.operations)}]
        BY <1>2, <2>3
      <3> HIDE DEF ops
      <3> QED
        BY <1>2, <3>1, ListIsSeq
    <2>5. \A o \in DOMAIN ops :
             /\ ops[o].status = "FAILED"
             /\ ops[o].operation_id = run.job.operations[o].operation_id
      BY <2>3 DEF Failure
    <2>6. 1 \in DOMAIN ops
      BY <1>2, <2>3
    <2> HIDE DEF ops
    <2>7. ~ AllSucceeded(ops)
      BY <2>5, <2>6 DEF AllSucceeded
    <2>8. ~TargetUsable(run.job.targets[t])
      <3>1. t \in from..(upto - 1)
        BY <1>2, <1>3, <1>7 DEF m, n, from
      <3> QED
        BY <3>1 DEF SkipsTo, from
    <2>9. DOMAIN ops = DOMAIN run.job.operations
      BY <2>3 DEF ops
    <2>10. \A o \in DOMAIN ops : Names(run2, c, t, o, ops[o])
      BY <2>5, <2>8, <2>9 DEF Names, RefusedForCause
    <2> QED
      BY <2>2, <2>3, <2>4, <2>7, <2>10 DEF TargetTold, ops
  <1>13. Told(run2, c)
    <2>1. ASSUME NEW t \in DOMAIN run2.results
          PROVE  t \in 1..m \/ t \in (m + 1)..(m + n)
      <3>1. t \in 1..(m + n)
        BY <1>10, Zenon
      <3> QED
        BY <1>9, <3>1
    <2>2. DOMAIN run2.operations = {}
      BY EmptySeq
    <2> QED
      BY <1>11, <1>12, <2>1, <2>2 DEF Told
  <1>14. ASSUME NEW t, NEW o, NEW r, Stored(run, t, o, r) PROVE Stored(run2, t, o, r)
    <2>1. /\ t \in DOMAIN run.results /\ o \in DOMAIN run.results[t].operations
          /\ run.results[t].operations[o] = r
      BY <1>1, <1>14, EmptySeq DEF Stored
    <2>2. t \in 1..m
      BY <1>10, <2>1, Zenon
    <2>3. t \in 1..(m + n)
      BY <1>9, <2>2
    <2>4. t \in DOMAIN run2.results /\ run2.results[t] = run.results[t]
      BY <1>8, <1>10, <2>2, <2>3, Zenon
    <2> QED
      BY <2>1, <2>4 DEF Stored
  <1> QED
    BY <1>13, <1>14

LEMMA NextTargetReports ==
  ASSUME TypeOK, CallsInv, ResultsInv, ReportsInv, NEW c \in Correlations, NEW run,
         Between(run), Forward(run, c), Ahead(run, c),
         NEW sections \in Seq(Seq(AuditRecord)),
         NextTarget(c, run, sections), UNCHANGED <<boot, registry>>
  PROVE  ReportsInv'
  <1> DEFINE from == TargetIndex(run)
             run2(upto) == [run EXCEPT !.results = @ \o
                             [i \in 1..(upto - from) |-> RefusedTarget(run, from + i - 1)]]
             sections2(upto) == sections \o
                             [i \in 1..(upto - from) |-> RefusedSection(run, from + i - 1)]
  <1>1. PICK upto \in from..(Len(run.job.targets) + 1) :
           /\ SkipsTo(run.job.targets, from, upto)
           /\ \/ /\ upto <= Len(run.job.targets)
                 /\ BeginOperation(c, run2(upto), Append(sections2(upto), <<>>))
              \/ /\ upto > Len(run.job.targets)
                 /\ Finish(c, run2(upto), sections2(upto))
    BY DEF NextTarget
  <1>2. /\ Between(run2(upto)) /\ run2(upto).job = run.job
        /\ TargetIndex(run2(upto)) = upto
    BY SkippedType
  <1>3. /\ run2(upto).boot = run.boot /\ run2(upto).operations = <<>>
        /\ run2(upto).results = run.results \o
             [i \in 1..(upto - from) |-> RefusedTarget(run, from + i - 1)]
    BY DEF Between, Run
  <1>4. RunBacked(calls, runs, run2(upto), c)
    BY <1>2, <1>3, SkippedBacked DEF Forward
  <1> HIDE DEF run2, sections2
  <1>5. /\ Told(run2(upto), c)
        /\ \A t, o, r : Stored(run, t, o, r) => Stored(run2(upto), t, o, r)
    <2>1. Told(run, c)
      BY DEF Ahead
    <2> QED
      BY <1>1, <1>2, <1>3, <2>1, SkippedTold
  <1>6. Ahead(run2(upto), c)
    BY <1>5 DEF Ahead
  <1>7. Forward(run2(upto), c)
    BY <1>1, <1>2, <1>3, <1>4, SkippedForward
  <1>8. CASE /\ upto <= Len(run.job.targets)
             /\ BeginOperation(c, run2(upto), Append(sections2(upto), <<>>))
    <2>1. Positioned(run2(upto))
      BY <1>2, <1>8, FirstOperation
    <2> QED
      BY <1>6, <1>7, <1>8, <2>1, BeginOperationReports
  <1>9. CASE /\ upto > Len(run.job.targets)
             /\ Finish(c, run2(upto), sections2(upto))
    <2> DEFINE next == [run2(upto) EXCEPT !.phase = "done", !.pending = NoResult]
    <2>1. /\ next.job = run2(upto).job /\ next.phase = "done"
          /\ next.results = run2(upto).results /\ next.operations = run2(upto).operations
      BY <1>2 DEF Between, Run
    <2>2. runs' = [runs EXCEPT ![c] = next] /\ calls' = calls
      BY <1>9 DEF Finish
    <2> HIDE DEF next
    <2>3. Told(next, c) /\ \A t, o, r : Stored(run2(upto), t, o, r) => Stored(next, t, o, r)
      BY <1>5, <2>1, ToldSame
    <2>4. Len(next.results) = Len(next.job.targets)
      <3>1. /\ Len(run2(upto).results) \in Nat
            /\ Len(run2(upto).results) + 1 = upto
            /\ Len(run.job.targets) \in Nat
        BY <1>2, LenProperties, JobType DEF Between, Run, TargetIndex
      <3> QED
        BY <1>2, <1>9, <2>1, <3>1 DEF from
    <2>5. ReportInv(calls', runs'[c], c)
      BY <1>6, <2>1, <2>2, <2>3, <2>4 DEF ReportInv, Reported, Ahead, TypeOK
    <2>6. GoesOn(c, run.job, run.boot)
      BY NextTargetGoesOn
    <2> QED
      BY <2>5, <2>6, OthersReport
  <1> QED
    BY <1>1, <1>8, <1>9

LEMMA ExecuteReports ==
  ASSUME TypeOK, CallsInv, ResultsInv, ReportsInv, NEW c \in Correlations,
         NEW job \in Jobs, Execute(c, job)
  PROVE  ReportsInv'
  <1> DEFINE run == NewRun(job)
  <1>1. NextTarget(c, run, <<>>) /\ UNCHANGED <<boot, registry>> /\ runs[c].phase = "unused"
    BY DEF Execute
  <1>2. Between(run) /\ run.job = job /\ run.boot = boot
    BY NewRunType
  <1>3. RunBacked(calls, runs, run, c) /\ Told(run, c)
    BY EmptySeq DEF NewRun, RunBacked, Told
  <1>4. \A k \in calls : k.id[1] # c
    BY <1>1 DEF CallsInv, CallsFit
  <1>5. Forward(run, c) /\ Ahead(run, c)
    BY <1>1, <1>2, <1>3, <1>4 DEF Forward, Ahead
  <1> QED
    BY <1>1, <1>2, <1>5, EmptySeq, NextTargetReports

\* The operation just awaited is stored.
LEMMA SettleAhead ==
  ASSUME TypeOK, ReportsInv, NEW c \in Correlations, runs[c].phase = "returned"
  PROVE  Ahead(Settle(runs[c]), c)
  <1> DEFINE run == Settle(runs[c])
             m == Len(runs[c].operations)
  <1>1. /\ run.job = runs[c].job /\ run.results = runs[c].results
        /\ run.operations = Append(runs[c].operations, runs[c].pending)
    BY SettleType
  <1>2. runs[c].operations \in Seq(OperationResult) /\ runs[c].pending \in OperationResult
    BY DEF TypeOK, RunOK, Run
  <1>3. ReportInv(calls, runs[c], c)
    BY DEF ReportsInv
  <1> HIDE DEF run
  <1>4. TargetIndex(run) = TargetIndex(runs[c])
    BY <1>1 DEF TargetIndex
  <1>5. /\ m \in Nat /\ m + 1 = OperationIndex(runs[c])
        /\ DOMAIN runs[c].operations = 1..m /\ DOMAIN run.operations = 1..(m + 1)
        /\ \A o \in 1..m : run.operations[o] = runs[c].operations[o]
        /\ run.operations[m + 1] = runs[c].pending
    <2>1. /\ run.operations \in Seq(OperationResult) /\ Len(run.operations) = m + 1
          /\ \A o \in 1..m : run.operations[o] = runs[c].operations[o]
          /\ run.operations[m + 1] = runs[c].pending
      BY <1>1, <1>2, AppendProperties
    <2>2. m \in Nat /\ DOMAIN runs[c].operations = 1..m /\ DOMAIN run.operations = 1..(m + 1)
      BY <1>2, <2>1, LenProperties
    <2> QED
      BY <2>1, <2>2 DEF OperationIndex
  <1> HIDE DEF m
  <1>6. \A t, o, r : Names(runs[c], c, t, o, r) => Names(run, c, t, o, r)
    BY <1>1 DEF Names, RefusedForCause
  <1>7. ASSUME NEW o \in DOMAIN run.operations
        PROVE  Names(run, c, TargetIndex(run), o, run.operations[o])
    <2>1. o \in 1..m \/ o = m + 1
      <3>1. o \in 1..(m + 1)
        BY <1>5, <1>7, Zenon
      <3> QED
        BY <1>5, <3>1
    <2>2. CASE o \in 1..m
      <3>1. Names(runs[c], c, TargetIndex(runs[c]), o, runs[c].operations[o])
        BY <1>3, <1>5, <2>2 DEF ReportInv, Told
      <3> QED
        BY <1>4, <1>5, <1>6, <2>2, <3>1
    <2>3. CASE o = m + 1
      <3>1. Names(runs[c], c, TargetIndex(runs[c]), o, runs[c].pending)
        BY <1>3, <1>5, <2>3 DEF ReportInv
      <3> QED
        BY <1>4, <1>5, <1>6, <2>3, <3>1
    <2> QED
      BY <2>1, <2>2, <2>3
  <1>8. ASSUME NEW t \in DOMAIN run.results PROVE TargetTold(run, c, t)
    BY <1>1, <1>3, <1>6, <1>8 DEF ReportInv, Told, TargetTold
  <1>9. ASSUME NEW k \in calls, k.id[1] = c
        PROVE  k.state # "open" /\ Stored(run, k.id[2], k.id[3], Outcome(k))
    <2>1. Reported(k, runs[c], c)
      BY <1>3, <1>9 DEF ReportInv
    <2>2. CASE k.state # "open" /\ Stored(runs[c], k.id[2], k.id[3], Outcome(k))
      <3>1. \A o \in 1..m : o \in 1..(m + 1)
        BY <1>5
      <3> QED
        BY <1>1, <1>4, <1>5, <2>2, <3>1, Zenon DEF Stored
    <2>3. CASE /\ k.id = CallId(c, runs[c]) /\ k.state # "open"
               /\ runs[c].pending = Outcome(k)
      <3>1. m + 1 \in DOMAIN run.operations
        <4>1. m + 1 \in 1..(m + 1)
          BY <1>5
        <4> QED
          BY <1>5, <4>1
      <3>2. k.id[2] = TargetIndex(run) /\ k.id[3] = m + 1
        BY <1>4, <1>5, <2>3 DEF CallId
      <3> QED
        BY <1>5, <2>3, <3>1, <3>2 DEF Stored
    <2> QED
      BY <2>1, <2>2, <2>3 DEF Reported
  <1> QED
    BY <1>7, <1>8, <1>9 DEF Ahead, Told, run

\* So are the results of a target, once it has them all.
LEMMA CloseTargetAhead ==
  ASSUME NEW c, NEW run \in Run, run.job \in Jobs, Ahead(run, c),
         TargetIndex(run) \in 1..Len(run.job.targets),
         Len(run.operations) = Len(run.job.operations)
  PROVE  Ahead(CloseTarget(run), c)
  <1> DEFINE next == CloseTarget(run)
             outcome == TargetOutcome(run)
             m == Len(run.results)
  <1>1. /\ next.job = run.job /\ next.operations = <<>>
        /\ next.results = Append(run.results, outcome)
        /\ run.results \in Seq(TargetResult)
    BY DEF CloseTarget, Run
  <1>2. /\ outcome.project_id = run.job.targets[TargetIndex(run)]
        /\ outcome.operations = run.operations
        /\ outcome.status = "SUCCESS" <=> AllSucceeded(run.operations)
    BY DEF TargetOutcome, CurrentProject
  <1>3. outcome \in TargetResult
    <2>1. CurrentProject(run) \in ProjectIds
      BY JobType, ElementOfSeq DEF CurrentProject
    <2> QED
      BY <2>1 DEF TargetOutcome, TargetResult, Run
  <1> HIDE DEF next, outcome
  <1>4. /\ m \in Nat /\ TargetIndex(run) = m + 1 /\ TargetIndex(next) = m + 2
        /\ DOMAIN run.results = 1..m /\ DOMAIN next.results = 1..(m + 1)
        /\ \A t \in 1..m : next.results[t] = run.results[t]
        /\ next.results[m + 1] = outcome
    <2>1. /\ next.results \in Seq(TargetResult) /\ Len(next.results) = m + 1
          /\ \A t \in 1..m : next.results[t] = run.results[t]
          /\ next.results[m + 1] = outcome
      BY <1>1, <1>3, AppendProperties
    <2>2. m \in Nat /\ DOMAIN run.results = 1..m /\ DOMAIN next.results = 1..(m + 1)
      BY <1>1, <2>1, LenProperties
    <2> QED
      BY <2>1, <2>2 DEF TargetIndex
  <1> HIDE DEF m
  <1>5. \A t, o, r : Names(run, c, t, o, r) => Names(next, c, t, o, r)
    BY <1>1 DEF Names, RefusedForCause
  <1>6. /\ \A t \in 1..m : t \in 1..(m + 1)
        /\ \A t \in 1..(m + 1) : t \in 1..m \/ t = m + 1
        /\ m + 1 \in 1..(m + 1)
    BY <1>4
  <1>7. ASSUME NEW t \in DOMAIN next.results PROVE TargetTold(next, c, t)
    <2>1. CASE t \in 1..m
      <3>1. TargetTold(run, c, t) /\ next.results[t] = run.results[t]
        BY <1>4, <2>1 DEF Ahead, Told
      <3> QED
        BY <1>1, <1>5, <3>1 DEF TargetTold
    <2>2. CASE t = m + 1
      <3>1. \A o \in DOMAIN run.operations : Names(next, c, t, o, run.operations[o])
        BY <1>4, <1>5, <2>2 DEF Ahead, Told
      <3>2. next.results[t] = outcome /\ t = TargetIndex(run)
        BY <1>4, <2>2
      <3> QED
        BY <1>1, <1>2, <3>1, <3>2 DEF TargetTold
    <2> QED
      BY <1>4, <1>6, <1>7, <2>1, <2>2, Zenon
  <1>8. DOMAIN next.operations = {}
    BY <1>1, EmptySeq
  <1>9. Told(next, c)
    BY <1>7, <1>8 DEF Told
  <1>10. ASSUME NEW t, NEW o, NEW r, Stored(run, t, o, r) PROVE Stored(next, t, o, r)
    <2>1. CASE /\ t \in DOMAIN run.results /\ o \in DOMAIN run.results[t].operations
               /\ run.results[t].operations[o] = r
      <3>1. t \in DOMAIN next.results /\ next.results[t] = run.results[t]
        BY <1>4, <1>6, <2>1, Zenon
      <3> QED
        BY <2>1, <3>1 DEF Stored
    <2>2. CASE t = TargetIndex(run) /\ o \in DOMAIN run.operations /\ run.operations[o] = r
      <3>1. t \in DOMAIN next.results /\ next.results[t] = outcome
        BY <1>4, <1>6, <2>2, Zenon
      <3> QED
        BY <1>2, <2>2, <3>1 DEF Stored
    <2> QED
      BY <1>10, <2>1, <2>2 DEF Stored
  <1> QED
    BY <1>9, <1>10 DEF Ahead, next

LEMMA ResumeReports ==
  ASSUME TypeOK, CallsInv, ResultsInv, ReportsInv, NEW c \in Correlations, Resume(c)
  PROVE  ReportsInv'
  <1> DEFINE run == Settle(runs[c])
  <1>1. /\ run \in Run /\ run.job \in Jobs /\ run.job = runs[c].job
        /\ TargetIndex(run) \in 1..Len(run.job.targets)
        /\ OperationIndex(run) = OperationIndex(runs[c]) + 1
        /\ audit[c] \in Seq(Seq(AuditRecord))
    BY SettleType DEF Resume, TypeOK
  <1>2. Forward(run, c) /\ Ahead(run, c)
    BY SettleForward, SettleAhead DEF Resume
  <1>3. OperationIndex(runs[c]) <= Len(run.job.operations)
    BY <1>1 DEF Resume, TypeOK, RunOK
  <1> HIDE DEF run
  <1>4. CASE /\ OperationIndex(run) <= Len(run.job.operations)
             /\ BeginOperation(c, run, audit[c])
    <2>1. Positioned(run)
      BY <1>1, <1>4 DEF Positioned
    <2> QED
      BY <1>2, <1>4, <2>1, BeginOperationReports DEF Resume
  <1>5. CASE /\ OperationIndex(run) > Len(run.job.operations)
             /\ NextTarget(c, CloseTarget(run), audit[c])
    <2>1. Len(run.operations) = Len(run.job.operations)
      <3>1. /\ OperationIndex(run) = Len(run.operations) + 1 /\ Len(run.operations) \in Nat
            /\ OperationIndex(runs[c]) \in Nat /\ Len(run.job.operations) \in Nat
        BY <1>1, JobType, LenProperties DEF Run, OperationIndex, TypeOK
      <3> QED
        BY <1>1, <1>3, <1>5, <3>1
    <2>2. /\ Between(CloseTarget(run)) /\ Forward(CloseTarget(run), c)
          /\ Ahead(CloseTarget(run), c)
      BY <1>1, <1>2, <2>1, CloseTargetType, CloseTargetForward, CloseTargetAhead
    <2> QED
      BY <1>1, <1>5, <2>2, NextTargetReports DEF Resume
  <1> QED
    BY <1>4, <1>5 DEF Resume, run

LEMMA AdapterReturnsReports ==
  ASSUME TypeOK, CallsInv, ReportsInv, NEW c \in Correlations, NEW ok \in BOOLEAN,
         AdapterReturns(c, ok)
  PROVE  ReportsInv'
  <1> DEFINE run == runs[c]
             operation == CurrentOperation(run)
             id == CallId(c, run)
             result == IF ok THEN Success(operation, id) ELSE Failure(operation, "UPSTREAM")
             next == [run EXCEPT !.phase = "returned", !.pending = result]
             answered(k) == [k EXCEPT !.state = IF ok THEN "ok" ELSE "failed"]
  <1>1. /\ run.phase = "calling" /\ runs' = [runs EXCEPT ![c] = next]
        /\ calls' = {IF k.id = id THEN answered(k) ELSE k : k \in calls}
    BY DEF AdapterReturns
  <1>2. /\ next.job = run.job /\ next.phase = "returned" /\ next.pending = result
        /\ next.results = run.results /\ next.operations = run.operations
    BY DEF TypeOK, Run
  <1>3. result.operation_id = operation.operation_id /\ result.code \notin RefusalCodes
    BY DEF Success, Failure, RefusalCodes
  <1>4. ASSUME NEW k \in calls, k.id = id
        PROVE  /\ answered(k).id = id /\ answered(k).state # "open"
               /\ Outcome(answered(k)) = result
    <2>1. k \in Call /\ k.operation = operation
      BY <1>4, CallOfRun DEF CallsInv, CallsFit, CallId, CurrentOperation
    <2>2. /\ answered(k).id = id /\ answered(k).operation = operation
          /\ answered(k).state = IF ok THEN "ok" ELSE "failed"
      BY <1>4, <2>1 DEF Call
    <2> HIDE DEF answered
    <2> QED
      BY <2>2 DEF Outcome
  <1> HIDE DEF next, answered, result
  <1>5. /\ TargetIndex(next) = TargetIndex(run) /\ OperationIndex(next) = OperationIndex(run)
        /\ CallId(c, next) = id
        /\ Told(run, c) => Told(next, c)
        /\ \A t, o, r : Stored(run, t, o, r) => Stored(next, t, o, r)
    BY <1>2, ToldSame
  <1>6. ReportInv(calls, run, c)
    BY DEF ReportsInv
  <1>7. Names(next, c, TargetIndex(next), OperationIndex(next), next.pending)
    <2>1. OperationIndex(run) \in DOMAIN run.job.operations
      <3>1. Positioned(run)
        BY <1>1 DEF TypeOK, RunOK, Run, Positioned
      <3>2. OperationIndex(run) \in 1..Len(run.job.operations) /\ run.job \in Jobs
        BY <3>1, PositionType DEF Positioned
      <3>3. DOMAIN run.job.operations = 1..Len(run.job.operations)
        BY <3>2, JobType, LenProperties
      <3> QED
        BY <3>2, <3>3
    <2> QED
      BY <1>2, <1>3, <1>5, <2>1 DEF Names, RefusedForCause, CurrentOperation
  <1>8. ASSUME NEW k2 \in calls', k2.id[1] = c PROVE Reported(k2, next, c)
    <2>1. PICK k \in calls : k2 = IF k.id = id THEN answered(k) ELSE k
      BY <1>1
    <2>2. CASE k.id = id
      BY <1>2, <1>4, <1>5, <2>1, <2>2 DEF Reported
    <2>3. CASE k.id # id
      <3>1. Reported(k, run, c) /\ k2 = k
        BY <1>6, <1>8, <2>1, <2>3 DEF ReportInv
      <3> QED
        BY <1>5, <2>3, <3>1 DEF Reported
    <2> QED
      BY <2>2, <2>3
  <1>9. ReportInv(calls', runs'[c], c)
    <2>1. runs'[c] = next
      BY <1>1 DEF TypeOK
    <2> QED
      BY <1>2, <1>5, <1>6, <1>7, <1>8, <2>1 DEF ReportInv
  <1>10. ASSUME NEW d \in Correlations \ {c} PROVE ReportInv(calls', runs'[d], d)
    <2>1. runs'[d] = runs[d] /\ ReportInv(calls, runs[d], d)
      BY <1>1 DEF ReportsInv, TypeOK
    <2>2. ASSUME NEW k2 \in calls', k2.id[1] = d PROVE k2 \in calls
      <3>1. PICK k \in calls : k2 = IF k.id = id THEN answered(k) ELSE k
        BY <1>1
      <3> QED
        BY <1>4, <2>2, <3>1 DEF CallId
    <2> QED
      BY <2>1, <2>2 DEF ReportInv
  <1> QED
    BY <1>9, <1>10 DEF ReportsInv

LEMMA RestartReports ==
  ASSUME TypeOK, ReportsInv, Restart
  PROVE  ReportsInv'
  <1> SUFFICES ASSUME NEW d \in Correlations PROVE ReportInv(calls', runs'[d], d)
    BY DEF ReportsInv
  <1> DEFINE run == runs[d]
             next == runs'[d]
  <1>1. /\ next.job = run.job /\ next.pending = run.pending
        /\ next.results = run.results /\ next.operations = run.operations
        /\ next.phase = IF run.phase \in {"calling", "returned"} THEN "lost" ELSE run.phase
    BY DEF Restart, TypeOK, Run
  <1>2. calls' = calls /\ ReportInv(calls, run, d)
    BY DEF Restart, ReportsInv
  <1> HIDE DEF run, next
  <1>3. /\ CallId(d, next) = CallId(d, run)
        /\ Told(run, d) => Told(next, d)
        /\ \A t, o, r : Stored(run, t, o, r) => Stored(next, t, o, r)
    BY <1>1, ToldSame
  <1>4. ASSUME NEW k \in calls, k.id[1] = d PROVE Reported(k, next, d)
    BY <1>1, <1>2, <1>3, <1>4 DEF ReportInv, Reported
  <1>5. ReportInv(calls, next, d)
    BY <1>1, <1>2, <1>3, <1>4 DEF ReportInv
  <1> QED
    BY <1>2, <1>5 DEF next

-----------------------------------------------------------------------------

LEMMA ReportsInvariant == Spec => [](TypeOK /\ ReportsInv)
  <1>1. Init => ReportsInv
    <2> SUFFICES ASSUME Init PROVE ReportsInv
      OBVIOUS
    <2>1. \A c \in Correlations : runs[c] = IdleRun
      BY DEF Init
    <2> QED
      BY <2>1, EmptySeq DEF Init, ReportsInv, ReportInv, Told, IdleRun
  <1>2. TypeOK /\ CallsInv /\ ResultsInv /\ ReportsInv /\ [Next]_vars => ReportsInv'
    <2> SUFFICES ASSUME TypeOK, CallsInv, ResultsInv, ReportsInv, [Next]_vars
                 PROVE  ReportsInv'
      OBVIOUS
    <2>1. ASSUME NEW c \in Correlations, NEW job \in Jobs, Execute(c, job)
          PROVE  ReportsInv'
      BY <2>1, ExecuteReports
    <2>2. ASSUME NEW c \in Correlations, NEW ok \in BOOLEAN, AdapterReturns(c, ok)
          PROVE  ReportsInv'
      BY <2>2, AdapterReturnsReports
    <2>3. ASSUME NEW c \in Correlations, Resume(c) PROVE ReportsInv'
      BY <2>3, ResumeReports
    <2>4. CASE Restart
      BY <2>4, RestartReports
    <2>5. CASE UNCHANGED vars
      BY <2>5 DEF vars, ReportsInv
    <2> QED
      BY <2>1, <2>2, <2>3, <2>4, <2>5 DEF Next
  <1> QED
    BY <1>1, <1>2, TypeCorrect, CallsInvariant, ResultsInvariant, PTL DEF Spec

\* Nothing the adapter answered is dropped, and nothing that waits for an answer is
\* forgotten, but by a restart (CallsAreAccounted).
THEOREM NothingDropped == Spec => []CallsAreAccounted
  <1>1. TypeOK /\ ReportsInv => CallsAreAccounted
    <2> SUFFICES ASSUME TypeOK, ReportsInv, NEW k \in calls
                 PROVE  LET c == k.id[1]
                        IN  IF k.state = "open"
                            THEN /\ runs[c].phase \in {"calling", "lost"}
                                 /\ k.id = CallId(c, runs[c])
                            ELSE \/ <<k.id[2], k.id[3], Outcome(k)>> \in Settled(c)
                                 \/ /\ runs[c].phase = "lost" /\ k.id = CallId(c, runs[c])
                                    /\ runs[c].pending = Outcome(k)
      BY DEF CallsAreAccounted, Outcome
    <2> DEFINE c == k.id[1]
               run == runs[c]
    <2>1. Reported(k, run, c)
      BY CallOfRun DEF ReportsInv, ReportInv
    <2>2. CASE k.state # "open" /\ Stored(run, k.id[2], k.id[3], Outcome(k))
      <3> DEFINE t == k.id[2]
                 o == k.id[3]
      <3>1. CASE /\ t \in DOMAIN run.results /\ o \in DOMAIN run.results[t].operations
                 /\ run.results[t].operations[o] = Outcome(k)
        <4> DEFINE ofTarget(u) ==
              {<<u, p, run.results[u].operations[p]>> : p \in DOMAIN run.results[u].operations}
        <4>1. <<t, o, Outcome(k)>> \in ofTarget(t)
          BY <3>1
        <4>2. OfFinishedTargets(run) = UNION {ofTarget(u) : u \in DOMAIN run.results}
          BY DEF OfFinishedTargets
        <4> HIDE DEF ofTarget
        <4>3. <<t, o, Outcome(k)>> \in OfFinishedTargets(run)
          BY <3>1, <4>1, <4>2
        <4> QED
          BY <2>2, <4>3 DEF Settled
      <3>2. CASE /\ t = TargetIndex(run) /\ o \in DOMAIN run.operations
                 /\ run.operations[o] = Outcome(k)
        <4>1. <<t, o, Outcome(k)>> \in OfCurrentTarget(run)
          BY <3>2 DEF OfCurrentTarget
        <4> QED
          BY <2>2, <4>1 DEF Settled
      <3> QED
        BY <2>2, <3>1, <3>2 DEF Stored
    <2>3. CASE /\ k.id = CallId(c, run) /\ k.state # "open"
               /\ run.phase = "returned" /\ run.pending = Outcome(k)
      <3>1. k.id[2] = TargetIndex(run) /\ k.id[3] = OperationIndex(run)
        BY <2>3 DEF CallId
      <3>2. <<k.id[2], k.id[3], Outcome(k)>> \in ToResumeWith(run)
        BY <2>3, <3>1 DEF ToResumeWith
      <3> QED
        BY <2>3, <3>2 DEF Settled
    <2> QED
      BY <2>1, <2>2, <2>3 DEF Reported
  <1> QED
    BY <1>1, ReportsInvariant, PTL

\* A run that was never started has nothing to report.
IdleInv == \A c \in Correlations : runs[c].phase = "unused" => runs[c] = IdleRun

LEMMA IdleInvariant == Spec => []IdleInv
  <1>1. Init => IdleInv
    BY DEF Init, IdleInv
  <1>2. TypeOK /\ IdleInv /\ [Next]_vars => IdleInv'
    <2> SUFFICES ASSUME TypeOK, IdleInv, [Next]_vars PROVE IdleInv'
      OBVIOUS
    <2>1. ASSUME NEW c \in Correlations, runs'[c].phase # "unused",
                 \A d \in Correlations \ {c} : runs'[d] = runs[d]
          PROVE  IdleInv'
      BY <2>1 DEF IdleInv
    <2>2. ASSUME NEW c \in Correlations, NEW job \in Jobs, Execute(c, job) PROVE IdleInv'
      BY <2>1, <2>2, ExecuteGoesOn DEF GoesOn
    <2>3. ASSUME NEW c \in Correlations, NEW ok \in BOOLEAN, AdapterReturns(c, ok)
          PROVE  IdleInv'
      <3>1. PICK result : runs' = [runs EXCEPT ![c] =
                            [runs[c] EXCEPT !.phase = "returned", !.pending = result]]
        BY <2>3 DEF AdapterReturns
      <3> QED
        BY <2>1, <3>1 DEF TypeOK, Run
    <2>4. ASSUME NEW c \in Correlations, Resume(c) PROVE IdleInv'
      BY <2>1, <2>4, ResumeGoesOn DEF GoesOn
    <2>5. CASE Restart
      BY <2>5 DEF Restart, TypeOK, Run, IdleInv
    <2>6. CASE UNCHANGED vars
      BY <2>6 DEF vars, IdleInv
    <2> QED
      BY <2>2, <2>3, <2>4, <2>5, <2>6 DEF Next
  <1> QED
    BY <1>1, <1>2, TypeCorrect, PTL DEF Spec

LEMMA IdleSettlesNothing ==
  ASSUME IdleInv, NEW c \in Correlations, NEW s \in Settled(c)
  PROVE  runs[c].phase # "unused"
  <1> SUFFICES ASSUME runs[c] = IdleRun PROVE FALSE
    BY DEF IdleInv
  <1>1. /\ runs[c].phase = "unused" /\ DOMAIN runs[c].results = {}
        /\ DOMAIN runs[c].operations = {}
    BY EmptySeq DEF IdleRun
  <1> QED
    BY <1>1 DEF Settled, OfFinishedTargets, OfCurrentTarget, ToResumeWith

LEMMA SettledNames ==
  ASSUME ReportsInv, NEW c \in Correlations, NEW s \in Settled(c)
  PROVE  Names(runs[c], c, s[1], s[2], s[3])
  <1> DEFINE run == runs[c]
  <1>1. ReportInv(calls, run, c)
    BY DEF ReportsInv
  <1>2. CASE s \in OfFinishedTargets(run)
    BY <1>1, <1>2 DEF OfFinishedTargets, ReportInv, Told, TargetTold
  <1>3. CASE s \in OfCurrentTarget(run)
    BY <1>1, <1>3 DEF OfCurrentTarget, ReportInv, Told
  <1>4. CASE s \in ToResumeWith(run)
    BY <1>1, <1>4 DEF ToResumeWith, ReportInv
  <1> QED
    BY <1>2, <1>3, <1>4 DEF Settled

\* Targets and operations are answered in the order of the request, all of them, and each
\* result names its own operation unless it is a replay (ResultsFollowRequest).
THEOREM RequestFollowed == Spec => []ResultsFollowRequest
  <1>1. ReportsInv => ResultsFollowRequest
    <2> SUFFICES ASSUME ReportsInv, NEW c \in Correlations
                 PROVE  LET run == runs[c]
                        IN  /\ \A t \in DOMAIN run.results : TargetTold(run, c, t)
                            /\ \A s \in Settled(c) : Names(run, c, s[1], s[2], s[3])
                            /\ run.phase = "done" =>
                                 Len(run.results) = Len(run.job.targets)
      BY DEF ResultsFollowRequest, TargetTold, AllSucceeded, Names
    <2>1. ReportInv(calls, runs[c], c)
      BY DEF ReportsInv
    <2> QED
      BY <2>1, SettledNames DEF ReportInv, Told
  <1> QED
    BY <1>1, ReportsInvariant, PTL

-----------------------------------------------------------------------------
(* The log: each result has its record, at its place *)

\* What the log says of result r at <<t, o>> of the run of c.
LogWord(c, t, o, r) ==
    IF r.status = "FAILED" THEN "failed"
    ELSE IF r.call = <<c, t, o>> THEN "success" ELSE "skipped"

Entry(run, c, t, o, r) ==
    Record(run, run.job.targets[t], run.job.operations[o].operation_id, LogWord(c, t, o, r))

\* The section tells the results ops of target t, and no more.
SectionTells(run, c, t, section, ops) ==
    /\ Len(section) = Len(ops)
    /\ \A o \in DOMAIN ops : section[o] = Entry(run, c, t, o, ops[o])

FinishedLogged(run, c, sections) ==
    \A t \in DOMAIN run.results :
      SectionTells(run, c, t, sections[t], run.results[t].operations)

\* Between two targets, every finished one has its section.
LogBetween(run, c, sections) ==
    /\ Len(sections) = Len(run.results)
    /\ FinishedLogged(run, c, sections)

\* Within a target, its section is open and tells the results ops it has.
LogWithin(run, c, sections, ops) ==
    /\ Len(sections) = TargetIndex(run)
    /\ FinishedLogged(run, c, sections)
    /\ SectionTells(run, c, TargetIndex(run), sections[TargetIndex(run)], ops)

\* After the last target, the "apply" records follow when all has succeeded.
LogClosed(run, c, sections) ==
    /\ run.operations = <<>>
    /\ FinishedLogged(run, c, sections)
    /\ IF AllSucceeded(run.results)
       THEN /\ Len(sections) = Len(run.results) + 1
            /\ sections[Len(sections)] = ApplySection(run)
       ELSE Len(sections) = Len(run.results)

LogOK(run, c, sections) ==
    \/ run.phase = "calling" /\ LogWithin(run, c, sections, run.operations)
    \/ /\ run.phase = "returned"
       /\ LogWithin(run, c, sections, Append(run.operations, run.pending))
    \/ run.phase = "done" /\ LogClosed(run, c, sections)

\* The log holds the runs of this process only: a restart empties it.
LogInv == \A c \in Correlations : runs[c].boot = boot => LogOK(runs[c], c, audit[c])

LEMMA SameEntries ==
  ASSUME NEW run, NEW next, next.job = run.job, NEW c
  PROVE  /\ \A t, o, r : Entry(next, c, t, o, r) = Entry(run, c, t, o, r)
         /\ \A t, section, ops :
              SectionTells(run, c, t, section, ops) => SectionTells(next, c, t, section, ops)
  <1>1. \A t, o, r : Entry(next, c, t, o, r) = Entry(run, c, t, o, r)
    BY DEF Entry, Record
  <1> QED
    BY <1>1 DEF SectionTells

LEMMA SameLog ==
  ASSUME NEW run, NEW next, next.job = run.job, next.results = run.results, NEW c,
         NEW sections
  PROVE  /\ FinishedLogged(run, c, sections) => FinishedLogged(next, c, sections)
         /\ \A ops : LogWithin(run, c, sections, ops) => LogWithin(next, c, sections, ops)
  <1>1. FinishedLogged(run, c, sections) => FinishedLogged(next, c, sections)
    BY SameEntries DEF FinishedLogged
  <1>2. TargetIndex(next) = TargetIndex(run)
    BY DEF TargetIndex
  <1> QED
    BY <1>1, <1>2, SameEntries DEF LogWithin

\* One more result of the target, and its record.
LEMMA LogOneMore ==
  ASSUME NEW run \in Run, NEW c, NEW sections \in Seq(Seq(AuditRecord)),
         LogWithin(run, c, sections, run.operations),
         NEW pending \in OperationResult, NEW record \in AuditRecord,
         record = Entry(run, c, TargetIndex(run), OperationIndex(run), pending)
  PROVE  LogWithin(run, c, Log(sections, record), Append(run.operations, pending))
  <1> DEFINE n == Len(run.results)
             ops == run.operations
             more == Append(ops, pending)
             log == Log(sections, record)
  <1>1. /\ run.results \in Seq(TargetResult) /\ ops \in Seq(OperationResult)
        /\ n \in Nat /\ DOMAIN run.results = 1..n
        /\ TargetIndex(run) = n + 1 /\ OperationIndex(run) = Len(ops) + 1
    BY LenProperties DEF Run, TargetIndex, OperationIndex
  <1>2. Len(sections) = n + 1 /\ DOMAIN sections = 1..(n + 1)
    BY <1>1, LenProperties DEF LogWithin
  <1>3. sections[n + 1] \in Seq(AuditRecord)
    BY <1>1, <1>2, ElementOfSeq
  <1>4. /\ log[n + 1] = Append(sections[n + 1], record)
        /\ \A t \in 1..n : log[t] = sections[t]
    BY <1>1, <1>2 DEF Log
  <1>5. Len(log) = n + 1
    <2>1. sections # <<>>
      BY <1>1, <1>2, EmptySeq
    <2> QED
      BY <1>2, <2>1, LogType
  <1>6. FinishedLogged(run, c, log)
    BY <1>1, <1>4 DEF LogWithin, FinishedLogged
  <1>7. /\ Len(sections[n + 1]) = Len(ops)
        /\ \A o \in DOMAIN ops : sections[n + 1][o] = Entry(run, c, n + 1, o, ops[o])
    BY <1>1 DEF LogWithin, SectionTells
  <1>8. SectionTells(run, c, n + 1, log[n + 1], more)
    <2> DEFINE m == Len(ops)
    <2>1. /\ m \in Nat /\ DOMAIN ops = 1..m
          /\ more \in Seq(OperationResult) /\ Len(more) = m + 1
          /\ \A o \in 1..m : more[o] = ops[o]
          /\ more[m + 1] = pending
      BY <1>1, AppendProperties, LenProperties
    <2>2. /\ Len(log[n + 1]) = m + 1
          /\ \A o \in 1..m : log[n + 1][o] = sections[n + 1][o]
          /\ log[n + 1][m + 1] = record
      BY <1>3, <1>4, <1>7, AppendProperties
    <2>3. DOMAIN more = 1..(m + 1)
      BY <2>1, LenProperties
    <2>4. record = Entry(run, c, n + 1, m + 1, pending)
      BY <1>1
    <2> HIDE DEF m, more, log, ops, n
    <2>5. \A o \in 1..(m + 1) : o \in 1..m \/ o = m + 1
      BY <2>1
    <2>6. ASSUME NEW o \in 1..(m + 1)
          PROVE  log[n + 1][o] = Entry(run, c, n + 1, o, more[o])
      <3>1. CASE o \in 1..m
        BY <1>7, <2>1, <2>2, <3>1
      <3>2. CASE o = m + 1
        BY <2>1, <2>2, <2>4, <3>2
      <3> QED
        BY <2>5, <2>6, <3>1, <3>2
    <2> QED
      BY <2>1, <2>2, <2>3, <2>6 DEF SectionTells
  <1> QED
    BY <1>1, <1>5, <1>6, <1>8 DEF LogWithin

\* Run c goes on and logs in its own sections: those of the others are as before.
LEMMA OthersLog ==
  ASSUME TypeOK, LogInv, NEW c \in Correlations, NEW job, NEW b, GoesOn(c, job, b),
         NEW sections, audit' = [audit EXCEPT ![c] = sections],
         LogOK(runs'[c], c, sections)
  PROVE  LogInv'
  <1>1. ASSUME NEW d \in Correlations, runs'[d].boot = boot'
        PROVE  LogOK(runs'[d], d, audit'[d])
    <2>1. CASE d = c
      BY <2>1 DEF TypeOK
    <2>2. CASE d # c
      <3>1. runs'[d] = runs[d] /\ boot' = boot /\ audit'[d] = audit[d]
        BY <2>2 DEF GoesOn, TypeOK
      <3> QED
        BY <1>1, <3>1 DEF LogInv
    <2> QED
      BY <2>1, <2>2
  <1> QED
    BY <1>1 DEF LogInv

LEMMA BeginOperationLogs ==
  ASSUME TypeOK, ResultsInv, LogInv, NEW c \in Correlations, NEW run,
         Positioned(run), Forward(run, c),
         NEW sections \in Seq(Seq(AuditRecord)), LogWithin(run, c, sections, run.operations),
         BeginOperation(c, run, sections), UNCHANGED <<boot, registry>>
  PROVE  LogInv'
  <1> DEFINE operation == CurrentOperation(run)
             project == CurrentProject(run)
             key == IdempotencyKey(project, operation)
             record(outcome) == Record(run, project, operation.operation_id, outcome)
  <1>1. GoesOn(c, run.job, run.boot)
    BY BeginOperationGoesOn
  <1>2. /\ run \in Run /\ run.job \in Jobs
        /\ project \in ProjectIds /\ operation \in Operations
    BY PositionType DEF Positioned
  <1>3. \A outcome \in {"failed", "skipped"} : record(outcome) \in AuditRecord
    BY <1>2, RecordType DEF OperationIds
  <1>4. ASSUME NEW pending \in OperationResult,
               NEW outcome \in {"failed", "skipped"},
               runs' = [runs EXCEPT ![c] = [run EXCEPT
                           !.phase = "returned", !.pending = pending]],
               audit' = [audit EXCEPT ![c] = Log(sections, record(outcome))],
               record(outcome) =
                 Entry(run, c, TargetIndex(run), OperationIndex(run), pending)
        PROVE  LogInv'
    <2> DEFINE next == [run EXCEPT !.phase = "returned", !.pending = pending]
    <2>1. /\ next.job = run.job /\ next.phase = "returned" /\ next.pending = pending
          /\ next.results = run.results /\ next.operations = run.operations
      BY <1>2 DEF Run
    <2>2. runs'[c] = next
      BY <1>4 DEF TypeOK
    <2> HIDE DEF next, record
    <2>3. LogWithin(run, c, Log(sections, record(outcome)), Append(run.operations, pending))
      BY <1>2, <1>3, <1>4, LogOneMore
    <2>4. LogOK(next, c, Log(sections, record(outcome)))
      BY <2>1, <2>3, SameLog DEF LogOK
    <2> QED
      BY <1>1, <1>4, <2>2, <2>4, OthersLog
  <1>5. CASE Refuse(c, run, sections)
    <2> DEFINE pending == Failure(operation, RefusalCode(operation, project))
    <2>1. pending \in OperationResult /\ pending.status = "FAILED"
      <3>1. RefusalCode(operation, project) \in RefusalCodes
        BY <1>5, RefusalCodeType DEF Refuse
      <3> QED
        BY <1>2, <3>1, ResultType DEF Failure
    <2>2. /\ runs' = [runs EXCEPT ![c] = [run EXCEPT
                         !.phase = "returned", !.pending = pending]]
          /\ audit' = [audit EXCEPT ![c] = Log(sections, record("failed"))]
      BY <1>5 DEF Refuse
    <2> HIDE DEF pending
    <2>3. record("failed") =
            Entry(run, c, TargetIndex(run), OperationIndex(run), pending)
      BY <2>1 DEF Entry, LogWord, CurrentProject, CurrentOperation
    <2> HIDE DEF record
    <2> QED
      BY <1>4, <2>1, <2>2, <2>3
  <1>6. CASE Replay(c, run, sections)
    <2> DEFINE pending == registry[key]
    <2>1. /\ pending \in OperationResult /\ pending.status = "SUCCESS"
          /\ pending.call # <<c, TargetIndex(run), OperationIndex(run)>>
      <3>1. key \in DOMAIN registry
        BY <1>6 DEF Replay
      <3> HIDE DEF key
      <3> QED
        BY <3>1, ReplayOfAnother DEF TypeOK
    <2>2. /\ runs' = [runs EXCEPT ![c] = [run EXCEPT
                         !.phase = "returned", !.pending = pending]]
          /\ audit' = [audit EXCEPT ![c] = Log(sections, record("skipped"))]
      BY <1>6 DEF Replay
    <2> HIDE DEF pending
    <2>3. record("skipped") =
            Entry(run, c, TargetIndex(run), OperationIndex(run), pending)
      BY <2>1 DEF Entry, LogWord, CurrentProject, CurrentOperation
    <2> HIDE DEF record
    <2> QED
      BY <1>4, <2>1, <2>2, <2>3
  <1>7. CASE Send(c, run, sections)
    <2> DEFINE next == [run EXCEPT !.phase = "calling", !.pending = NoResult]
    <2>1. /\ next.job = run.job /\ next.phase = "calling"
          /\ next.results = run.results /\ next.operations = run.operations
      BY <1>2 DEF Run
    <2>2. runs'[c] = next /\ audit' = [audit EXCEPT ![c] = sections]
      BY <1>7 DEF Send, TypeOK
    <2> HIDE DEF next
    <2>3. LogOK(next, c, sections)
      BY <2>1, SameLog DEF LogOK
    <2> QED
      BY <1>1, <2>2, <2>3, OthersLog
  <1> QED
    BY <1>5, <1>6, <1>7 DEF BeginOperation

\* A section of failures for each target skipped.
LEMMA SkippedLogged ==
  ASSUME NEW run, Between(run), NEW c, NEW sections \in Seq(Seq(AuditRecord)),
         LogBetween(run, c, sections),
         NEW upto \in TargetIndex(run)..(Len(run.job.targets) + 1),
         NEW run2, run2.job = run.job,
         run2.results = run.results \o
           [i \in 1..(upto - TargetIndex(run)) |->
               RefusedTarget(run, TargetIndex(run) + i - 1)],
         NEW sections2,
         sections2 = sections \o
           [i \in 1..(upto - TargetIndex(run)) |->
               RefusedSection(run, TargetIndex(run) + i - 1)]
  PROVE  LogBetween(run2, c, sections2)
  <1> DEFINE from == TargetIndex(run)
             refused == [i \in 1..(upto - from) |-> RefusedTarget(run, from + i - 1)]
             logged == [i \in 1..(upto - from) |-> RefusedSection(run, from + i - 1)]
             m == Len(run.results)
             n == upto - from
  <1>1. /\ run \in Run /\ run.job \in Jobs /\ run.results \in Seq(TargetResult)
    BY DEF Between, Run
  <1>2. /\ m \in Nat /\ from = m + 1 /\ Len(run.job.targets) \in Nat
        /\ Len(run.job.operations) \in Nat \ {0}
        /\ DOMAIN run.job.operations = 1..Len(run.job.operations)
    BY <1>1, JobType, LenProperties DEF TargetIndex
  <1>3. n \in Nat
    BY <1>2
  <1>4. \A i \in 1..n : from + i - 1 \in 1..Len(run.job.targets)
    <2>1. upto \in from..(Len(run.job.targets) + 1)
      OBVIOUS
    <2> HIDE DEF m, from
    <2> QED
      BY <1>2, <2>1
  <1>5. /\ refused \in [1..n -> TargetResult]
        /\ logged \in [1..n -> Seq(AuditRecord)]
    BY <1>1, <1>4, RefusedTargetType
  <1>6. \A i \in 1..n : /\ refused[i] = RefusedTarget(run, m + i)
                        /\ logged[i] = RefusedSection(run, m + i)
    <2>1. \A i \in 1..n : from + i - 1 = m + i
      BY <1>2
    <2> HIDE DEF m, n, from
    <2> QED
      BY <2>1 DEF n
  <1>7. run2.results = run.results \o refused /\ sections2 = sections \o logged
    OBVIOUS
  <1> HIDE DEF refused, logged, n, m
  <1>8. /\ refused \in Seq(TargetResult) /\ Len(refused) = n
        /\ logged \in Seq(Seq(AuditRecord)) /\ Len(logged) = n
    BY <1>3, <1>5, ListIsSeq
  <1>9. /\ Len(run2.results) = m + n /\ DOMAIN run2.results = 1..(m + n)
        /\ DOMAIN run.results = 1..m
        /\ \A t \in 1..m : run2.results[t] = run.results[t]
        /\ \A t \in (m + 1)..(m + n) : run2.results[t] = refused[t - m]
    <2>1. LET s == run.results \o refused
          IN  /\ DOMAIN s = 1..(Len(run.results) + Len(refused))
              /\ Len(s) = Len(run.results) + Len(refused)
              /\ DOMAIN run.results = 1..Len(run.results)
              /\ \A t \in 1..Len(run.results) : s[t] = run.results[t]
              /\ \A t \in (Len(run.results) + 1)..(Len(run.results) + Len(refused)) :
                   s[t] = refused[t - Len(run.results)]
      BY <1>1, <1>8, ConcatAt
    <2> QED
      BY <1>7, <1>8, <2>1 DEF m
  <1>10. /\ Len(sections2) = m + n
         /\ \A t \in 1..m : sections2[t] = sections[t]
         /\ \A t \in (m + 1)..(m + n) : sections2[t] = logged[t - m]
    <2>1. LET s == sections \o logged
          IN  /\ Len(s) = Len(sections) + Len(logged)
              /\ \A t \in 1..Len(sections) : s[t] = sections[t]
              /\ \A t \in (Len(sections) + 1)..(Len(sections) + Len(logged)) :
                   s[t] = logged[t - Len(sections)]
      BY <1>8, ConcatAt
    <2>2. Len(sections) = m
      BY DEF LogBetween, m
    <2> QED
      BY <1>7, <1>8, <2>1, <2>2
  <1>11. ASSUME NEW t \in 1..m
         PROVE  SectionTells(run2, c, t, sections2[t], run2.results[t].operations)
    <2>1. SectionTells(run, c, t, sections[t], run.results[t].operations)
      BY <1>9 DEF LogBetween, FinishedLogged
    <2>2. sections2[t] = sections[t] /\ run2.results[t] = run.results[t]
      BY <1>9, <1>10
    <2> QED
      BY <2>1, <2>2, SameEntries
  <1>12. ASSUME NEW t \in (m + 1)..(m + n)
         PROVE  SectionTells(run2, c, t, sections2[t], run2.results[t].operations)
    <2> DEFINE ops == RefusedTarget(run, t).operations
               section == RefusedSection(run, t)
    <2>1. t - m \in 1..n /\ m + (t - m) = t
      BY <1>2, <1>3
    <2>2. run2.results[t] = RefusedTarget(run, t) /\ sections2[t] = section
      BY <1>6, <1>9, <1>10, <2>1
    <2>3. /\ ops = [o \in DOMAIN run.job.operations |->
                      Failure(run.job.operations[o], "AUTH_CONTEXT_REQUIRED")]
          /\ section = [o \in DOMAIN run.job.operations |->
                          Record(run, run.job.targets[t],
                                 run.job.operations[o].operation_id, "failed")]
      BY DEF RefusedTarget, RefusedSection
    <2>4. Len(ops) = Len(run.job.operations) /\ Len(section) = Len(run.job.operations)
      <3>1. /\ ops \in [1..Len(run.job.operations) ->
                           {ops[o] : o \in 1..Len(run.job.operations)}]
            /\ section \in [1..Len(run.job.operations) ->
                           {section[o] : o \in 1..Len(run.job.operations)}]
        BY <1>2, <2>3
      <3> HIDE DEF ops, section
      <3> QED
        BY <1>2, <3>1, ListIsSeq
    <2>5. \A o \in DOMAIN ops : section[o] = Entry(run, c, t, o, ops[o])
      BY <2>3 DEF Failure, Entry, LogWord
    <2>6. SectionTells(run, c, t, section, ops)
      BY <2>4, <2>5 DEF SectionTells
    <2> HIDE DEF ops, section
    <2> QED
      BY <2>2, <2>6, SameEntries DEF ops
  <1>13. \A t \in 1..(m + n) : t \in 1..m \/ t \in (m + 1)..(m + n)
    BY <1>2, <1>3
  <1> QED
    BY <1>9, <1>10, <1>11, <1>12, <1>13 DEF LogBetween, FinishedLogged

\* The next target opens its section.
LEMMA OpenSection ==
  ASSUME NEW run, Between(run), NEW c, NEW sections \in Seq(Seq(AuditRecord)),
         LogBetween(run, c, sections)
  PROVE  /\ Append(sections, <<>>) \in Seq(Seq(AuditRecord))
         /\ LogWithin(run, c, Append(sections, <<>>), run.operations)
  <1> DEFINE m == Len(run.results)
             log == Append(sections, <<>>)
  <1>1. /\ m \in Nat /\ DOMAIN run.results = 1..m /\ TargetIndex(run) = m + 1
        /\ run.operations = <<>> /\ Len(sections) = m
    BY LenProperties DEF Between, Run, TargetIndex, LogBetween
  <1>2. <<>> \in Seq(AuditRecord)
    BY EmptySeq
  <1>3. /\ log \in Seq(Seq(AuditRecord)) /\ Len(log) = m + 1
        /\ \A t \in 1..m : log[t] = sections[t]
        /\ log[m + 1] = <<>>
    BY <1>1, <1>2, AppendProperties
  <1> HIDE DEF log, m
  <1>4. FinishedLogged(run, c, log)
    BY <1>1, <1>3 DEF LogBetween, FinishedLogged
  <1>5. SectionTells(run, c, m + 1, log[m + 1], run.operations)
    <2>1. DOMAIN run.operations = {}
      BY <1>1, EmptySeq
    <2>2. log[m + 1] = run.operations
      BY <1>1, <1>3
    <2> QED
      BY <2>1, <2>2 DEF SectionTells
  <1> QED
    BY <1>1, <1>3, <1>4, <1>5 DEF LogWithin, log

LEMMA FinishLogs ==
  ASSUME TypeOK, LogInv, NEW c \in Correlations, NEW run, Between(run),
         NEW b, GoesOn(c, run.job, b),
         NEW sections \in Seq(Seq(AuditRecord)), LogBetween(run, c, sections),
         Finish(c, run, sections)
  PROVE  LogInv'
  <1> DEFINE next == [run EXCEPT !.phase = "done", !.pending = NoResult]
             closing == ApplySection(run)
             log == IF AllSucceeded(run.results) THEN Append(sections, closing) ELSE sections
  <1>1. /\ next.job = run.job /\ next.phase = "done" /\ next.operations = <<>>
        /\ next.results = run.results /\ run.results \in Seq(TargetResult)
    BY DEF Between, Run
  <1>2. runs'[c] = next /\ audit' = [audit EXCEPT ![c] = log]
    BY DEF Finish, TypeOK
  <1>3. closing \in Seq(AuditRecord) /\ ApplySection(next) = closing
    <2>1. /\ run.job.plan_targets \in Seq(ProjectIds) /\ Len(run.job.plan_targets) \in Nat
          /\ DOMAIN run.job.plan_targets = 1..Len(run.job.plan_targets)
      BY JobType, LenProperties DEF Between
    <2>2. closing \in [1..Len(run.job.plan_targets) -> AuditRecord]
      <3>1. \A t \in 1..Len(run.job.plan_targets) : run.job.plan_targets[t] \in ProjectIds
        BY <2>1, ElementOfSeq
      <3> QED
        BY <2>1, <3>1, RecordType DEF ApplySection, Between
    <2>3. ApplySection(next) = closing
      BY <1>1 DEF ApplySection, Record
    <2> HIDE DEF closing
    <2> QED
      BY <2>1, <2>2, <2>3, ListIsSeq
  <1> HIDE DEF next, closing
  <1>4. LogClosed(next, c, log)
    <2>1. FinishedLogged(next, c, sections) /\ Len(sections) = Len(run.results)
      BY <1>1, SameLog DEF LogBetween
    <2>2. CASE AllSucceeded(run.results)
      <3> DEFINE m == Len(run.results)
      <3>1. /\ Len(log) = m + 1 /\ \A t \in 1..m : log[t] = sections[t]
            /\ log[m + 1] = closing
        <4>1. log = Append(sections, closing)
          BY <2>2
        <4> HIDE DEF log
        <4> QED
          BY <1>3, <2>1, <4>1, AppendProperties
      <3>2. DOMAIN next.results = 1..m
        BY <1>1, LenProperties
      <3> HIDE DEF log, m
      <3>3. FinishedLogged(next, c, log)
        BY <2>1, <3>1, <3>2 DEF FinishedLogged
      <3> QED
        BY <1>1, <1>3, <2>2, <3>1, <3>3 DEF LogClosed, m
    <2>3. CASE ~AllSucceeded(run.results)
      BY <1>1, <2>1, <2>3 DEF LogClosed
    <2> QED
      BY <2>2, <2>3
  <1>5. LogOK(next, c, log)
    BY <1>1, <1>4 DEF LogOK
  <1> HIDE DEF log
  <1> QED
    BY <1>2, <1>5, OthersLog

LEMMA NextTargetLogs ==
  ASSUME TypeOK, CallsInv, ResultsInv, LogInv, NEW c \in Correlations, NEW run,
         Between(run), Forward(run, c),
         NEW sections \in Seq(Seq(AuditRecord)), LogBetween(run, c, sections),
         NextTarget(c, run, sections), UNCHANGED <<boot, registry>>
  PROVE  LogInv'
  <1> DEFINE from == TargetIndex(run)
             run2(upto) == [run EXCEPT !.results = @ \o
                             [i \in 1..(upto - from) |-> RefusedTarget(run, from + i - 1)]]
             sections2(upto) == sections \o
                             [i \in 1..(upto - from) |-> RefusedSection(run, from + i - 1)]
  <1>1. PICK upto \in from..(Len(run.job.targets) + 1) :
           \/ /\ upto <= Len(run.job.targets)
              /\ BeginOperation(c, run2(upto), Append(sections2(upto), <<>>))
           \/ Finish(c, run2(upto), sections2(upto))
    BY DEF NextTarget
  <1>2. /\ Between(run2(upto)) /\ run2(upto).job = run.job
        /\ TargetIndex(run2(upto)) = upto
        /\ sections2(upto) \in Seq(Seq(AuditRecord))
    BY SkippedType
  <1>3. /\ run2(upto).boot = run.boot /\ run2(upto).operations = <<>>
        /\ run2(upto).results = run.results \o
             [i \in 1..(upto - from) |-> RefusedTarget(run, from + i - 1)]
    BY DEF Between, Run
  <1>4. RunBacked(calls, runs, run2(upto), c)
    BY <1>2, <1>3, SkippedBacked DEF Forward
  <1>5. LogBetween(run2(upto), c, sections2(upto))
    BY <1>2, <1>3, SkippedLogged
  <1> HIDE DEF run2, sections2
  <1>6. Forward(run2(upto), c)
    BY <1>1, <1>2, <1>3, <1>4, SkippedForward
  <1>7. CASE /\ upto <= Len(run.job.targets)
             /\ BeginOperation(c, run2(upto), Append(sections2(upto), <<>>))
    <2>1. Positioned(run2(upto))
      BY <1>2, <1>7, FirstOperation
    <2>2. /\ Append(sections2(upto), <<>>) \in Seq(Seq(AuditRecord))
          /\ LogWithin(run2(upto), c, Append(sections2(upto), <<>>), run2(upto).operations)
      BY <1>2, <1>5, OpenSection
    <2> QED
      BY <1>6, <1>7, <2>1, <2>2, BeginOperationLogs
  <1>8. CASE Finish(c, run2(upto), sections2(upto))
    BY <1>2, <1>5, <1>8, NextTargetGoesOn, FinishLogs
  <1> QED
    BY <1>1, <1>7, <1>8

LEMMA ExecuteLogs ==
  ASSUME TypeOK, CallsInv, ResultsInv, LogInv, NEW c \in Correlations, NEW job \in Jobs,
         Execute(c, job)
  PROVE  LogInv'
  <1> DEFINE run == NewRun(job)
  <1>1. NextTarget(c, run, <<>>) /\ UNCHANGED <<boot, registry>> /\ runs[c].phase = "unused"
    BY DEF Execute
  <1>2. Between(run) /\ run.job = job /\ run.boot = boot
    BY NewRunType
  <1>3. RunBacked(calls, runs, run, c) /\ LogBetween(run, c, <<>>)
    BY EmptySeq DEF NewRun, RunBacked, LogBetween, FinishedLogged
  <1>4. \A k \in calls : k.id[1] # c
    BY <1>1 DEF CallsInv, CallsFit
  <1>5. Forward(run, c)
    BY <1>1, <1>2, <1>3, <1>4 DEF Forward
  <1>6. <<>> \in Seq(Seq(AuditRecord))
    BY EmptySeq
  <1> HIDE DEF run
  <1> QED
    BY <1>1, <1>2, <1>3, <1>5, <1>6, NextTargetLogs

\* The operation just awaited has its record.
LEMMA SettleLogged ==
  ASSUME TypeOK, ResultsInv, LogInv, NEW c \in Correlations, runs[c].phase = "returned"
  PROVE  LogWithin(Settle(runs[c]), c, audit[c], Settle(runs[c]).operations)
  <1> DEFINE run == Settle(runs[c])
  <1>1. /\ run.job = runs[c].job /\ run.results = runs[c].results
        /\ run.operations = Append(runs[c].operations, runs[c].pending)
    BY SettleType
  <1>2. runs[c].boot = boot
    BY DEF ResultsInv, RunInv
  <1>3. LogWithin(runs[c], c, audit[c], Append(runs[c].operations, runs[c].pending))
    BY <1>2 DEF LogInv, LogOK
  <1> HIDE DEF run
  <1>4. LogWithin(run, c, audit[c], run.operations)
    BY <1>1, <1>3, SameLog
  <1> QED
    BY <1>4 DEF run

LEMMA CloseTargetLogged ==
  ASSUME NEW c, NEW run \in Run, run.job \in Jobs,
         TargetIndex(run) \in 1..Len(run.job.targets),
         NEW sections, LogWithin(run, c, sections, run.operations)
  PROVE  LogBetween(CloseTarget(run), c, sections)
  <1> DEFINE next == CloseTarget(run)
             outcome == TargetOutcome(run)
             m == Len(run.results)
  <1>1. /\ next.job = run.job /\ next.results = Append(run.results, outcome)
        /\ run.results \in Seq(TargetResult)
    BY DEF CloseTarget, Run
  <1>2. outcome.operations = run.operations /\ outcome \in TargetResult
    <2>1. CurrentProject(run) \in ProjectIds
      BY JobType, ElementOfSeq DEF CurrentProject
    <2> QED
      BY <2>1 DEF TargetOutcome, TargetResult, Run
  <1> HIDE DEF next, outcome
  <1>3. /\ m \in Nat /\ TargetIndex(run) = m + 1 /\ Len(next.results) = m + 1
        /\ DOMAIN run.results = 1..m /\ DOMAIN next.results = 1..(m + 1)
        /\ \A t \in 1..m : next.results[t] = run.results[t]
        /\ next.results[m + 1] = outcome
    <2>1. /\ next.results \in Seq(TargetResult) /\ Len(next.results) = m + 1
          /\ \A t \in 1..m : next.results[t] = run.results[t]
          /\ next.results[m + 1] = outcome
      BY <1>1, <1>2, AppendProperties
    <2>2. m \in Nat /\ DOMAIN run.results = 1..m /\ DOMAIN next.results = 1..(m + 1)
      BY <1>1, <2>1, LenProperties
    <2> QED
      BY <2>1, <2>2 DEF TargetIndex
  <1> HIDE DEF m
  <1>4. \A t \in 1..(m + 1) : t \in 1..m \/ t = m + 1
    BY <1>3
  <1>5. ASSUME NEW t \in DOMAIN next.results
        PROVE  SectionTells(next, c, t, sections[t], next.results[t].operations)
    <2>1. CASE t \in 1..m
      <3>1. SectionTells(run, c, t, sections[t], run.results[t].operations)
        BY <1>3, <2>1 DEF LogWithin, FinishedLogged
      <3> QED
        BY <1>1, <1>3, <2>1, <3>1, SameEntries
    <2>2. CASE t = m + 1
      <3>1. SectionTells(run, c, t, sections[t], run.operations)
        BY <1>3, <2>2 DEF LogWithin
      <3> QED
        BY <1>1, <1>2, <1>3, <2>2, <3>1, SameEntries
    <2>3. t \in 1..(m + 1)
      BY <1>3, <1>5, Zenon
    <2> QED
      BY <1>4, <2>1, <2>2, <2>3
  <1>6. LogBetween(next, c, sections)
    BY <1>3, <1>5 DEF LogWithin, LogBetween, FinishedLogged
  <1> QED
    BY <1>6 DEF next

LEMMA ResumeLogs ==
  ASSUME TypeOK, CallsInv, ResultsInv, LogInv, NEW c \in Correlations, Resume(c)
  PROVE  LogInv'
  <1> DEFINE run == Settle(runs[c])
  <1>1. /\ run \in Run /\ run.job \in Jobs /\ run.job = runs[c].job
        /\ TargetIndex(run) \in 1..Len(run.job.targets)
        /\ audit[c] \in Seq(Seq(AuditRecord))
    BY SettleType DEF Resume, TypeOK
  <1>2. Forward(run, c) /\ LogWithin(run, c, audit[c], run.operations)
    BY SettleForward, SettleLogged DEF Resume
  <1> HIDE DEF run
  <1>3. CASE /\ OperationIndex(run) <= Len(run.job.operations)
             /\ BeginOperation(c, run, audit[c])
    <2>1. Positioned(run)
      BY <1>1, <1>3 DEF Positioned
    <2> QED
      BY <1>1, <1>2, <1>3, <2>1, BeginOperationLogs DEF Resume
  <1>4. CASE NextTarget(c, CloseTarget(run), audit[c])
    <2>1. /\ Between(CloseTarget(run)) /\ Forward(CloseTarget(run), c)
          /\ LogBetween(CloseTarget(run), c, audit[c])
      BY <1>1, <1>2, CloseTargetType, CloseTargetForward, CloseTargetLogged
    <2> QED
      BY <1>1, <1>4, <2>1, NextTargetLogs DEF Resume
  <1> QED
    BY <1>3, <1>4 DEF Resume, run

LEMMA AdapterReturnsLogs ==
  ASSUME TypeOK, ResultsInv, LogInv, NEW c \in Correlations, NEW ok \in BOOLEAN,
         AdapterReturns(c, ok)
  PROVE  LogInv'
  <1> DEFINE run == runs[c]
             operation == CurrentOperation(run)
             id == CallId(c, run)
             result == IF ok THEN Success(operation, id) ELSE Failure(operation, "UPSTREAM")
             next == [run EXCEPT !.phase = "returned", !.pending = result]
             outcome == IF ok THEN "success" ELSE "failed"
             record == Record(run, CurrentProject(run), operation.operation_id, outcome)
  <1>1. /\ run.phase = "calling" /\ runs' = [runs EXCEPT ![c] = next] /\ boot' = boot
        /\ audit' = [audit EXCEPT ![c] = Log(@, record)]
    BY DEF AdapterReturns
  <1>2. /\ next.job = run.job /\ next.phase = "returned" /\ next.pending = result
        /\ next.results = run.results /\ next.operations = run.operations
    BY DEF TypeOK, Run
  <1>3. Positioned(run)
    BY <1>1 DEF TypeOK, RunOK, Run, Positioned
  <1>4. /\ run \in Run /\ run.job \in Jobs /\ audit[c] \in Seq(Seq(AuditRecord))
        /\ CurrentProject(run) \in ProjectIds /\ operation \in Operations /\ id \in CallIds
    BY <1>3, PositionType DEF TypeOK, Positioned
  <1>5. LogWithin(run, c, audit[c], run.operations)
    <2>1. run.boot = boot
      BY <1>1 DEF ResultsInv, RunInv
    <2> QED
      BY <1>1, <2>1 DEF LogInv, LogOK
  <1>6. result \in OperationResult
    BY <1>4, ResultType
  <1>7. record \in AuditRecord
    BY <1>4, RecordType DEF OperationIds
  <1>8. record = Entry(run, c, TargetIndex(run), OperationIndex(run), result)
    BY DEF Entry, LogWord, CurrentProject, CurrentOperation, CallId, Success, Failure
  <1> HIDE DEF next, record, result
  <1>9. LogWithin(run, c, Log(audit[c], record), Append(run.operations, result))
    BY <1>4, <1>5, <1>6, <1>7, <1>8, LogOneMore
  <1>10. LogOK(next, c, Log(audit[c], record))
    BY <1>2, <1>9, SameLog DEF LogOK
  <1>11. ASSUME NEW d \in Correlations, runs'[d].boot = boot'
         PROVE  LogOK(runs'[d], d, audit'[d])
    <2>1. CASE d = c
      BY <1>1, <1>10, <2>1 DEF TypeOK
    <2>2. CASE d # c
      <3>1. runs'[d] = runs[d] /\ audit'[d] = audit[d]
        BY <1>1, <2>2 DEF TypeOK
      <3> QED
        BY <1>1, <1>11, <3>1 DEF LogInv
    <2> QED
      BY <2>1, <2>2
  <1> QED
    BY <1>11 DEF LogInv

\* No run of the process that died is one of the process that starts.
LEMMA RestartLogs ==
  ASSUME TypeOK, CallsInv, Restart
  PROVE  LogInv'
  <1>1. \A d \in Correlations : runs'[d].boot = runs[d].boot /\ runs[d].boot \in Nat
    BY DEF Restart, TypeOK, Run
  <1>2. boot' = boot + 1 /\ boot \in Nat
    BY BootsAssumption DEF Restart, TypeOK
  <1>3. \A d \in Correlations : runs'[d].boot # boot'
    BY <1>1, <1>2 DEF CallsInv, BootsFit
  <1> QED
    BY <1>3 DEF LogInv

LEMMA LogInvariant == Spec => [](TypeOK /\ ReportsInv /\ LogInv)
  <1>1. Init => LogInv
    <2> SUFFICES ASSUME Init PROVE LogInv
      OBVIOUS
    <2>1. \A c \in Correlations : runs[c].boot # boot
      BY DEF Init, IdleRun
    <2> QED
      BY <2>1 DEF LogInv
  <1>2. TypeOK /\ CallsInv /\ ResultsInv /\ LogInv /\ [Next]_vars => LogInv'
    <2> SUFFICES ASSUME TypeOK, CallsInv, ResultsInv, LogInv, [Next]_vars
                 PROVE  LogInv'
      OBVIOUS
    <2>1. ASSUME NEW c \in Correlations, NEW job \in Jobs, Execute(c, job)
          PROVE  LogInv'
      BY <2>1, ExecuteLogs
    <2>2. ASSUME NEW c \in Correlations, NEW ok \in BOOLEAN, AdapterReturns(c, ok)
          PROVE  LogInv'
      BY <2>2, AdapterReturnsLogs
    <2>3. ASSUME NEW c \in Correlations, Resume(c) PROVE LogInv'
      BY <2>3, ResumeLogs
    <2>4. CASE Restart
      BY <2>4, RestartLogs
    <2>5. CASE UNCHANGED vars
      BY <2>5 DEF vars, LogInv
    <2> QED
      BY <2>1, <2>2, <2>3, <2>4, <2>5 DEF Next
  <1> QED
    BY <1>1, <1>2, CallsInvariant, ResultsInvariant, ReportsInvariant, PTL DEF Spec

-----------------------------------------------------------------------------
(* The positions of a run that have a result are those of the log that have a record *)

LEMMA SameCount ==
  ASSUME NEW S, NEW P, IsFiniteSet(P),
         \A s \in S : <<s[1], s[2]>> \in P,
         \A p \in P : \E s \in S : <<s[1], s[2]>> = p,
         \A s, u \in S : <<s[1], s[2]>> = <<u[1], u[2]>> => s = u
  PROVE  Cardinality(S) = Cardinality(P)
  <1> DEFINE f == [s \in S |-> <<s[1], s[2]>>]
  <1>1. f \in [S -> P]
    OBVIOUS
  <1>2. \A s, u \in S : f[s] = f[u] => s = u
    OBVIOUS
  <1>3. \A p \in P : \E s \in S : f[s] = p
    OBVIOUS
  <1> HIDE DEF f
  <1>4. f \in Injection(S, P)
    BY <1>1, <1>2, Fun_IsInj
  <1>5. f \in Surjection(S, P)
    BY <1>1, <1>3, Fun_IsSurj
  <1> QED
    BY <1>4, <1>5, FS_Injection

\* The results run has at its target t, the one it resumes with included.
ResultsAt(run, t) ==
    IF t \in DOMAIN run.results THEN run.results[t].operations
    ELSE IF run.phase = "returned" THEN Append(run.operations, run.pending)
    ELSE run.operations

\* How many targets of run have results or are being worked on.
TargetsOf(run) == IF run.phase = "done" THEN Len(run.results) ELSE TargetIndex(run)

\* A run with a log: its results at its targets, and their records.
LEMMA LogOfResults ==
  ASSUME TypeOK, ReportsInv, LogInv, NEW c \in Correlations, runs[c].boot = boot
  PROVE  LET run == runs[c]
             n == TargetsOf(run)
             m == Len(run.job.operations)
         IN  /\ n \in Nat /\ m \in Nat
             /\ \A t \in 1..n : /\ ResultsAt(run, t) \in Seq(OperationResult)
                                /\ Len(ResultsAt(run, t)) <= m
                                /\ SectionTells(run, c, t, audit[c][t], ResultsAt(run, t))
             /\ IF run.phase = "done" /\ AllSucceeded(run.results)
                THEN Len(audit[c]) = n + 1 /\ audit[c][n + 1] = ApplySection(run)
                ELSE Len(audit[c]) = n
  <1> DEFINE run == runs[c]
             n == TargetsOf(run)
             m == Len(run.job.operations)
             k == Len(run.results)
  <1>1. LogOK(run, c, audit[c]) /\ run.phase \in {"calling", "returned", "done"}
    BY DEF LogInv, LogOK
  <1>2. /\ run \in Run /\ run.job \in Jobs
        /\ run.results \in Seq(TargetResult) /\ run.operations \in Seq(OperationResult)
        /\ RunOK(run, audit[c])
    BY <1>1 DEF TypeOK, RunOK, Run
  <1>3. /\ k \in Nat /\ DOMAIN run.results = 1..k /\ TargetIndex(run) = k + 1
        /\ m \in Nat /\ Len(run.operations) \in Nat
        /\ OperationIndex(run) = Len(run.operations) + 1
    BY <1>2, JobType, LenProperties DEF TargetIndex, OperationIndex
  <1>4. ReportInv(calls, run, c)
    BY DEF ReportsInv
  <1>5. FinishedLogged(run, c, audit[c])
    BY <1>1 DEF LogOK, LogWithin, LogClosed
  <1> DEFINE Fits(t) == /\ ResultsAt(run, t) \in Seq(OperationResult)
                        /\ Len(ResultsAt(run, t)) <= m
                        /\ SectionTells(run, c, t, audit[c][t], ResultsAt(run, t))
  <1>6. ASSUME NEW t \in 1..k PROVE Fits(t)
    <2>1. run.results[t] \in TargetResult
      BY <1>2, <1>3, ElementOfSeq
    <2>2. ResultsAt(run, t) = run.results[t].operations
      BY <1>3 DEF ResultsAt
    <2>3. Len(run.results[t].operations) = m
      BY <1>3, <1>4 DEF ReportInv, Told, TargetTold
    <2>4. SectionTells(run, c, t, audit[c][t], run.results[t].operations)
      BY <1>3, <1>5 DEF FinishedLogged
    <2> QED
      BY <1>3, <2>1, <2>2, <2>3, <2>4 DEF TargetResult
  <1>7. CASE run.phase = "done"
    <2>1. n = k
      BY <1>7 DEF TargetsOf
    <2>2. LogClosed(run, c, audit[c])
      BY <1>1, <1>7 DEF LogOK
    <2> QED
      BY <1>3, <1>6, <1>7, <2>1, <2>2 DEF LogClosed
  <1>8. CASE run.phase \in {"calling", "returned"}
    <2> DEFINE ops == ResultsAt(run, k + 1)
    <2>1. n = k + 1
      BY <1>3, <1>8 DEF TargetsOf
    <2>2. k + 1 \notin DOMAIN run.results
      BY <1>3
    <2>3. LogWithin(run, c, audit[c], ops)
      BY <1>1, <1>8, <2>2 DEF LogOK, ResultsAt
    <2>4. Len(run.operations) + 1 <= m
      BY <1>2, <1>3, <1>8 DEF RunOK
    <2>5. ops \in Seq(OperationResult) /\ Len(ops) <= m
      <3>1. CASE run.phase = "returned"
        <4>1. ops = Append(run.operations, run.pending) /\ run.pending \in OperationResult
          BY <1>2, <2>2, <3>1 DEF ResultsAt, RunOK
        <4> HIDE DEF ops
        <4>2. ops \in Seq(OperationResult) /\ Len(ops) = Len(run.operations) + 1
          BY <1>2, <4>1, AppendProperties
        <4> QED
          BY <2>4, <4>2
      <3>2. CASE run.phase # "returned"
        <4>1. ops = run.operations
          BY <2>2, <3>2 DEF ResultsAt
        <4> HIDE DEF ops
        <4> QED
          BY <1>2, <1>3, <2>4, <4>1
      <3> QED
        BY <3>1, <3>2
    <2>6. Fits(k + 1) /\ Len(audit[c]) = n
      BY <1>3, <2>1, <2>3, <2>5 DEF LogWithin
    <2>7. \A t \in 1..n : t \in 1..k \/ t = k + 1
      BY <1>3, <2>1
    <2> HIDE DEF Fits
    <2>8. \A t \in 1..n : Fits(t)
      BY <1>6, <2>6, <2>7
    <2> QED
      BY <1>3, <1>8, <2>1, <2>6, <2>8 DEF Fits
  <1> QED
    BY <1>1, <1>7, <1>8

\* What is settled is what stands in these results.
LEMMA SettledAt ==
  ASSUME TypeOK, ReportsInv, LogInv, NEW c \in Correlations, runs[c].boot = boot
  PROVE  LET run == runs[c]
             n == TargetsOf(run)
         IN  /\ \A s \in Settled(c) :
                  /\ s[1] \in 1..n /\ s[2] \in DOMAIN ResultsAt(run, s[1])
                  /\ s = <<s[1], s[2], ResultsAt(run, s[1])[s[2]]>>
             /\ \A t \in 1..n : \A o \in DOMAIN ResultsAt(run, t) :
                  <<t, o, ResultsAt(run, t)[o]>> \in Settled(c)
  <1> DEFINE run == runs[c]
             n == TargetsOf(run)
             k == Len(run.results)
             m == Len(run.operations)
             more == Append(run.operations, run.pending)
  <1>1. LogOK(run, c, audit[c]) /\ run.phase \in {"calling", "returned", "done"}
    BY DEF LogInv, LogOK
  <1>2. /\ run.results \in Seq(TargetResult) /\ run.operations \in Seq(OperationResult)
        /\ run.phase = "returned" => run.pending \in OperationResult
    BY <1>1 DEF TypeOK, RunOK, Run
  <1>3. /\ k \in Nat /\ DOMAIN run.results = 1..k /\ TargetIndex(run) = k + 1
        /\ m \in Nat /\ DOMAIN run.operations = 1..m /\ OperationIndex(run) = m + 1
    BY <1>2, LenProperties DEF TargetIndex, OperationIndex
  <1>4. run.phase = "done" => DOMAIN run.operations = {} /\ n = k
    BY <1>1, EmptySeq DEF LogOK, LogClosed, TargetsOf
  <1>5. run.phase # "done" => n = k + 1
    BY <1>3 DEF TargetsOf
  <1>6. \A t \in 1..k : t \in 1..n /\ ResultsAt(run, t) = run.results[t].operations
    BY <1>3, <1>4, <1>5 DEF ResultsAt
  <1>7. k + 1 \notin DOMAIN run.results
    BY <1>3
  <1>8. /\ run.phase = "returned" => ResultsAt(run, k + 1) = more
        /\ run.phase # "returned" => ResultsAt(run, k + 1) = run.operations
    BY <1>7 DEF ResultsAt
  <1>9. run.phase = "returned" =>
          /\ DOMAIN more = 1..(m + 1) /\ more[m + 1] = run.pending
          /\ \A o \in 1..m : more[o] = run.operations[o]
    <2> SUFFICES ASSUME run.phase = "returned"
                 PROVE  /\ DOMAIN more = 1..(m + 1) /\ more[m + 1] = run.pending
                        /\ \A o \in 1..m : more[o] = run.operations[o]
      OBVIOUS
    <2>1. /\ more \in Seq(OperationResult) /\ Len(more) = m + 1
          /\ more[m + 1] = run.pending /\ \A o \in 1..m : more[o] = run.operations[o]
      BY <1>2, AppendProperties
    <2> HIDE DEF more
    <2> QED
      BY <2>1, LenProperties
  <1>10. /\ \A o \in 1..m : o \in 1..(m + 1)
         /\ \A o \in 1..(m + 1) : o \in 1..m \/ o = m + 1
         /\ m + 1 \in 1..(m + 1)
         /\ \A t \in 1..n : t \in 1..k \/ (t = k + 1 /\ run.phase # "done")
         /\ run.phase # "done" => k + 1 \in 1..n
    <2> HIDE DEF k, m, n
    <2>1. CASE run.phase = "done"
      BY <1>3, <1>4, <2>1
    <2>2. CASE run.phase # "done"
      BY <1>3, <1>5, <2>2
    <2> QED
      BY <2>1, <2>2
  <1> HIDE DEF run, n, k, m, more
  <1>11. ASSUME NEW s \in Settled(c)
         PROVE  /\ s[1] \in 1..n /\ s[2] \in DOMAIN ResultsAt(run, s[1])
                /\ s = <<s[1], s[2], ResultsAt(run, s[1])[s[2]]>>
    <2>1. CASE s \in OfFinishedTargets(run)
      <3>1. PICK t \in 1..k : \E o \in DOMAIN run.results[t].operations :
               s = <<t, o, run.results[t].operations[o]>>
        BY <1>3, <2>1 DEF OfFinishedTargets
      <3>2. PICK o \in DOMAIN run.results[t].operations :
               s = <<t, o, run.results[t].operations[o]>>
        BY <3>1
      <3> QED
        BY <1>6, <3>2
    <2>2. CASE s \in OfCurrentTarget(run)
      <3>1. PICK o \in 1..m : s = <<k + 1, o, run.operations[o]>>
        BY <1>3, <2>2 DEF OfCurrentTarget
      <3>2. run.phase # "done"
        BY <1>3, <1>4, <3>1
      <3>3. /\ o \in DOMAIN ResultsAt(run, k + 1)
            /\ ResultsAt(run, k + 1)[o] = run.operations[o]
        BY <1>3, <1>8, <1>9, <1>10
      <3> QED
        BY <1>10, <3>1, <3>2, <3>3
    <2>3. CASE s \in ToResumeWith(run)
      <3>1. s = <<k + 1, m + 1, run.pending>> /\ run.phase = "returned"
        BY <1>3, <2>3 DEF ToResumeWith
      <3> QED
        BY <1>8, <1>9, <1>10, <3>1
    <2> QED
      BY <1>11, <2>1, <2>2, <2>3 DEF Settled, run
  <1>12. ASSUME NEW t \in 1..n, NEW o \in DOMAIN ResultsAt(run, t)
         PROVE  <<t, o, ResultsAt(run, t)[o]>> \in Settled(c)
    <2>1. CASE t \in 1..k
      <3> DEFINE ofTarget(u) ==
            {<<u, p, run.results[u].operations[p]>> : p \in DOMAIN run.results[u].operations}
      <3>1. <<t, o, ResultsAt(run, t)[o]>> \in ofTarget(t)
        BY <1>6, <1>12, <2>1
      <3>2. OfFinishedTargets(run) = UNION {ofTarget(u) : u \in DOMAIN run.results}
        BY DEF OfFinishedTargets
      <3> HIDE DEF ofTarget
      <3>3. <<t, o, ResultsAt(run, t)[o]>> \in OfFinishedTargets(run)
        BY <1>3, <2>1, <3>1, <3>2
      <3> QED
        BY <3>3 DEF Settled, run
    <2>2. CASE t = k + 1 /\ o \in 1..m
      <3>1. ResultsAt(run, t)[o] = run.operations[o]
        BY <1>8, <1>9, <2>2
      <3>2. <<t, o, ResultsAt(run, t)[o]>> \in OfCurrentTarget(run)
        BY <1>3, <2>2, <3>1 DEF OfCurrentTarget
      <3> QED
        BY <3>2 DEF Settled, run
    <2>3. CASE t = k + 1 /\ o = m + 1 /\ run.phase = "returned"
      <3>1. <<t, o, ResultsAt(run, t)[o]>> \in ToResumeWith(run)
        BY <1>3, <1>8, <1>9, <2>3 DEF ToResumeWith
      <3> QED
        BY <3>1 DEF Settled, run
    <2> QED
      BY <1>3, <1>8, <1>9, <1>10, <1>12, <2>1, <2>2, <2>3
  <1> QED
    BY <1>11, <1>12 DEF run, n

\* A section of the log tells the results of a target of the job, or closes the run.
LEMMA SectionsOf ==
  ASSUME TypeOK, ReportsInv, LogInv, NEW c \in Correlations, runs[c].boot = boot
  PROVE  LET run == runs[c]
             n == TargetsOf(run)
         IN  /\ n \in Nat /\ n <= Len(run.job.targets)
             /\ 1..n \subseteq DOMAIN audit[c]
             /\ \A t \in 1..n :
                  /\ DOMAIN audit[c][t] = DOMAIN ResultsAt(run, t)
                  /\ DOMAIN audit[c][t] \subseteq 1..Len(run.job.operations)
                  /\ \A o \in DOMAIN audit[c][t] :
                       /\ audit[c][t][o] = Entry(run, c, t, o, ResultsAt(run, t)[o])
                       /\ ResultsAt(run, t)[o] \in OperationResult
             /\ \A t \in DOMAIN audit[c] : t \in 1..n \/ audit[c][t] = ApplySection(run)
  <1> DEFINE run == runs[c]
             n == TargetsOf(run)
             m == Len(run.job.operations)
             log == audit[c]
             At(t) == ResultsAt(run, t)
  <1>1. /\ n \in Nat /\ m \in Nat
        /\ \A t \in 1..n : /\ At(t) \in Seq(OperationResult) /\ Len(At(t)) <= m
                           /\ SectionTells(run, c, t, log[t], At(t))
        /\ IF run.phase = "done" /\ AllSucceeded(run.results)
           THEN Len(log) = n + 1 /\ log[n + 1] = ApplySection(run)
           ELSE Len(log) = n
    BY LogOfResults
  <1>2. log \in Seq(Seq(AuditRecord)) /\ DOMAIN log = 1..Len(log)
    BY LenProperties DEF TypeOK
  <1>3. n <= Len(run.job.targets)
    <2>1. run.phase \in {"calling", "returned", "done"} /\ RunOK(run, log)
      BY DEF LogInv, LogOK, TypeOK
    <2>2. run.phase = "done" => Len(run.results) = Len(run.job.targets)
      BY DEF ReportsInv, ReportInv
    <2>3. CASE run.phase = "done"
      BY <1>1, <2>2, <2>3 DEF TargetsOf
    <2>4. CASE run.phase # "done"
      BY <2>1, <2>4 DEF TargetsOf, RunOK
    <2> QED
      BY <2>3, <2>4
  <1> HIDE DEF n, m, log, At
  <1>4. /\ 1..n \subseteq DOMAIN log
        /\ \A t \in DOMAIN log : t \in 1..n \/ log[t] = ApplySection(run)
    <2>1. CASE Len(log) = n
      BY <1>2, <2>1
    <2>2. CASE Len(log) = n + 1 /\ log[n + 1] = ApplySection(run)
      <3>1. \A t \in 1..(n + 1) : t \in 1..n \/ t = n + 1
        BY <1>1
      <3> QED
        BY <1>1, <1>2, <2>2, <3>1
    <2> QED
      BY <1>1, <2>1, <2>2
  <1>5. ASSUME NEW t \in 1..n
        PROVE  /\ DOMAIN log[t] = DOMAIN At(t) /\ DOMAIN log[t] \subseteq 1..m
               /\ \A o \in DOMAIN log[t] : /\ log[t][o] = Entry(run, c, t, o, At(t)[o])
                                          /\ At(t)[o] \in OperationResult
    <2>1. log[t] \in Seq(AuditRecord)
      BY <1>2, <1>4, ElementOfSeq
    <2>2. SectionTells(run, c, t, log[t], At(t)) /\ At(t) \in Seq(OperationResult)
      BY <1>1
    <2>3. /\ DOMAIN log[t] = 1..Len(log[t]) /\ DOMAIN At(t) = 1..Len(At(t))
          /\ Len(At(t)) \in Nat /\ Len(At(t)) <= m
      BY <1>1, <2>1, <2>2, LenProperties
    <2>4. \A o \in DOMAIN At(t) : At(t)[o] \in OperationResult
      BY <2>2, <2>3, ElementOfSeq
    <2> QED
      BY <1>1, <2>2, <2>3, <2>4 DEF SectionTells
  <1> QED
    BY <1>1, <1>3, <1>4, <1>5 DEF n, m, log, At

\* The records of a run say in order what happened to each of its operations, no more and
\* no less, then that the plan was applied, if every target succeeded (AuditTellsTheRun).
THEOREM LogTellsTheRun == Spec => []AuditTellsTheRun
  <1>1. TypeOK /\ ReportsInv /\ LogInv => AuditTellsTheRun
    <2> SUFFICES ASSUME TypeOK, ReportsInv, LogInv,
                        NEW c \in Correlations, runs[c].boot = boot
                 PROVE  LET run == runs[c]
                            closed == /\ run.phase = "done"
                                      /\ \A s \in Settled(c) : s[3].status = "SUCCESS"
                            sections == IF closed
                                        THEN SubSeq(audit[c], 1, Len(audit[c]) - 1)
                                        ELSE audit[c]
                        IN  /\ \A s \in Settled(c) :
                                 sections[s[1]][s[2]] = Entry(run, c, s[1], s[2], s[3])
                            /\ Cardinality(Settled(c)) =
                                 Cardinality(UNION {{<<t, o>> : o \in DOMAIN sections[t]} :
                                                        t \in DOMAIN sections})
                            /\ closed => audit[c][Len(audit[c])] = ApplySection(run)
      BY DEF AuditTellsTheRun, Entry, LogWord
    <2> DEFINE run == runs[c]
               n == TargetsOf(run)
               m == Len(run.job.operations)
               closed == /\ run.phase = "done"
                         /\ \A s \in Settled(c) : s[3].status = "SUCCESS"
               sections == IF closed THEN SubSeq(audit[c], 1, Len(audit[c]) - 1)
                           ELSE audit[c]
               At(t) == ResultsAt(run, t)
    <2>1. /\ n \in Nat /\ m \in Nat
          /\ \A t \in 1..n : /\ At(t) \in Seq(OperationResult) /\ Len(At(t)) <= m
                             /\ SectionTells(run, c, t, audit[c][t], At(t))
          /\ IF run.phase = "done" /\ AllSucceeded(run.results)
             THEN Len(audit[c]) = n + 1 /\ audit[c][n + 1] = ApplySection(run)
             ELSE Len(audit[c]) = n
      BY LogOfResults
    <2>2. /\ \A s \in Settled(c) : /\ s[1] \in 1..n /\ s[2] \in DOMAIN At(s[1])
                                   /\ s = <<s[1], s[2], At(s[1])[s[2]]>>
          /\ \A t \in 1..n : \A o \in DOMAIN At(t) : <<t, o, At(t)[o]>> \in Settled(c)
      BY SettledAt
    <2>3. closed <=> run.phase = "done" /\ AllSucceeded(run.results)
      <3> SUFFICES ASSUME run.phase = "done"
                   PROVE  (\A s \in Settled(c) : s[3].status = "SUCCESS")
                            <=> AllSucceeded(run.results)
        OBVIOUS
      <3>1. /\ n = Len(run.results) /\ DOMAIN run.results = 1..n
            /\ \A t \in 1..n : At(t) = run.results[t].operations
        BY LenProperties DEF TargetsOf, ResultsAt, TypeOK, Run
      <3>2. \A t \in 1..n :
               run.results[t].status = "SUCCESS" <=>
                 \A o \in DOMAIN At(t) : At(t)[o].status = "SUCCESS"
        BY <3>1 DEF ReportsInv, ReportInv, Told, TargetTold, AllSucceeded
      <3> HIDE DEF At, n
      <3>3. ASSUME AllSucceeded(run.results), NEW s \in Settled(c)
            PROVE  s[3].status = "SUCCESS"
        <4>1. /\ s[1] \in 1..n /\ s[2] \in DOMAIN At(s[1])
              /\ s[3] = At(s[1])[s[2]]
          BY <2>2
        <4>2. run.results[s[1]].status = "SUCCESS"
          BY <3>1, <3>3, <4>1 DEF AllSucceeded
        <4> QED
          BY <3>2, <4>1, <4>2
      <3>4. ASSUME \A s \in Settled(c) : s[3].status = "SUCCESS", NEW t \in 1..n
            PROVE  run.results[t].status = "SUCCESS"
        <4>1. ASSUME NEW o \in DOMAIN At(t) PROVE At(t)[o].status = "SUCCESS"
          <5>1. <<t, o, At(t)[o]>> \in Settled(c)
            BY <2>2
          <5>2. <<t, o, At(t)[o]>>[3].status = "SUCCESS"
            BY <3>4, <5>1
          <5> QED
            BY <5>2
        <4> QED
          BY <3>2, <4>1
      <3> QED
        BY <3>1, <3>3, <3>4 DEF AllSucceeded
    <2>4. audit[c] \in Seq(Seq(AuditRecord))
      BY DEF TypeOK
    <2> HIDE DEF closed, At, n, m
    <2>5. /\ DOMAIN sections = 1..n
          /\ \A t \in 1..n : sections[t] = audit[c][t]
      <3>1. CASE closed
        <4>1. Len(audit[c]) = n + 1
          BY <2>1, <2>3, <3>1
        <4>2. sections = SubSeq(audit[c], 1, n)
          BY <2>1, <3>1, <4>1
        <4>3. \A t \in 1..n : audit[c][t] \in Seq(AuditRecord)
          BY <2>1, <2>4, <4>1, ElementOfSeq
        <4>4. /\ sections \in Seq(Seq(AuditRecord)) /\ Len(sections) = n
              /\ \A t \in 1..n : sections[t] = audit[c][t]
          <5>1. /\ SubSeq(audit[c], 1, n) \in Seq(Seq(AuditRecord))
                /\ Len(SubSeq(audit[c], 1, n)) = IF 1 <= n THEN n - 1 + 1 ELSE 0
                /\ \A t \in 1..(n - 1 + 1) : SubSeq(audit[c], 1, n)[t] = audit[c][1 + t - 1]
            BY <2>1, <4>3, SubSeqProperties
          <5>2. n - 1 + 1 = n /\ \A t \in 1..n : 1 + t - 1 = t
            BY <2>1
          <5> QED
            BY <2>1, <4>2, <5>1, <5>2
        <4> HIDE DEF sections
        <4> QED
          BY <4>4, LenProperties
      <3>2. CASE ~closed
        BY <2>1, <2>3, <2>4, <3>2, LenProperties
      <3> QED
        BY <3>1, <3>2
    <2> HIDE DEF sections
    <2>6. ASSUME NEW t \in 1..n
          PROVE  /\ DOMAIN sections[t] = DOMAIN At(t)
                 /\ DOMAIN At(t) \subseteq 1..m
                 /\ \A o \in DOMAIN At(t) : sections[t][o] = Entry(run, c, t, o, At(t)[o])
      BY <2>5, SectionsOf DEF n, m, At
    <2>7. ASSUME NEW s \in Settled(c)
          PROVE  sections[s[1]][s[2]] = Entry(run, c, s[1], s[2], s[3])
      BY <2>2, <2>6
    <2> DEFINE Of(t) == {<<t, o>> : o \in DOMAIN sections[t]}
               P == UNION {Of(t) : t \in DOMAIN sections}
    <2>8. \A p : p \in P <=> \E t \in 1..n : \E o \in DOMAIN At(t) : p = <<t, o>>
      BY <2>5, <2>6
    <2> HIDE DEF P
    <2>9. Cardinality(Settled(c)) = Cardinality(P)
      <3>1. IsFiniteSet(P)
        <4>1. IsFiniteSet((1..n) \X (1..m))
          <5>1. n \in Int /\ m \in Int
            BY <2>1
          <5>2. IsFiniteSet(1..n) /\ IsFiniteSet(1..m)
            BY <5>1, FS_Interval
          <5> QED
            BY <5>2, FS_Product
        <4>2. P \in SUBSET ((1..n) \X (1..m))
          BY <2>6, <2>8
        <4> QED
          BY <4>1, <4>2, FS_Subset
      <3>2. \A s \in Settled(c) : <<s[1], s[2]>> \in P
        BY <2>2, <2>8
      <3>3. ASSUME NEW p \in P PROVE \E s \in Settled(c) : <<s[1], s[2]>> = p
        <4>1. PICK t \in 1..n : \E o \in DOMAIN At(t) : p = <<t, o>>
          BY <2>8
        <4>2. PICK o \in DOMAIN At(t) : p = <<t, o>>
          BY <4>1
        <4>3. <<t, o, At(t)[o]>> \in Settled(c)
          BY <2>2
        <4> QED
          BY <4>2, <4>3
      <3>4. \A s, u \in Settled(c) : <<s[1], s[2]>> = <<u[1], u[2]>> => s = u
        BY <2>2
      <3> QED
        BY <3>1, <3>2, <3>3, <3>4, SameCount
    <2>10. closed => audit[c][Len(audit[c])] = ApplySection(run)
      BY <2>1, <2>3
    <2> QED
      BY <2>7, <2>9, <2>10 DEF sections, closed, P
  <1> QED
    BY <1>1, LogInvariant, PTL
=============================================================================
