------------------------ MODULE ExecutorResultsProofs ------------------------
(***************************************************************************)
(* A SUCCESS in a result stands for a request Appwrite answered with       *)
(* success.  The argument: a run moves forward through its job, so a call  *)
(* is answered once and stays answered (Passed); the registry holds only   *)
(* results of such calls (RegistryBacked); and a result is either that of  *)
(* its own call or one the registry gave (RunBacked).                      *)
(***************************************************************************)
EXTENDS MutationExecutorProofs

\* Result r at <<t, o>> of run, the run of c, is a failure or backed by a call of cs.
Backed(cs, rs, run, c, t, o, r) ==
    r.status = "SUCCESS" =>
      \E k \in cs :
        /\ k.id = r.call /\ k.state = "ok"
        /\ k.project = run.job.targets[t]
        /\ k.operation.action = run.job.operations[o].action
        /\ rs[k.id[1]].boot = run.boot
        /\ \/ k.id = <<c, t, o>> /\ k.operation = run.job.operations[o]
           \/ /\ run.job.operations[o].idempotency_key # NoKey
              /\ k.operation.idempotency_key = run.job.operations[o].idempotency_key

\* All the results of run are.
RunBacked(cs, rs, run, c) ==
    /\ \A t \in DOMAIN run.results : \A o \in DOMAIN run.results[t].operations :
         Backed(cs, rs, run, c, t, o, run.results[t].operations[o])
    /\ \A o \in DOMAIN run.operations :
         Backed(cs, rs, run, c, TargetIndex(run), o, run.operations[o])

PendingBacked(cs, rs, run, c) ==
    run.phase = "returned" =>
      Backed(cs, rs, run, c, TargetIndex(run), OperationIndex(run), run.pending)

RegistryBacked(cs, rs, reg, b) ==
    \A key \in DOMAIN reg :
      /\ reg[key].status = "SUCCESS" /\ reg[key].code = "none"
      /\ \E k \in cs :
           /\ k.id = reg[key].call /\ k.state = "ok"
           /\ k.operation.idempotency_key # NoKey
           /\ key = IdempotencyKey(k.project, k.operation)
           /\ rs[k.id[1]].boot = b

\* Call k was made before the position of run.
Behind(k, run) ==
    \/ k.id[2] < TargetIndex(run)
    \/ k.id[2] = TargetIndex(run) /\ k.id[3] < OperationIndex(run)

\* ... or at it, and is answered unless run waits for it.
Passed(k, run, c) ==
    \/ Behind(k, run)
    \/ /\ k.id = CallId(c, run) /\ run.phase \in {"calling", "returned", "lost"}
       /\ run.phase = "calling" => k.state = "open"

PositionOK(cs, run, c) ==
    /\ \A k \in cs : k.id[1] = c => Passed(k, run, c)
    /\ run.phase = "calling" => \E k \in cs : k.id = CallId(c, run)

RunInv(cs, rs, run, c, b) ==
    /\ RunBacked(cs, rs, run, c)
    /\ PendingBacked(cs, rs, run, c)
    /\ PositionOK(cs, run, c)
    /\ run.phase \in {"calling", "returned"} => run.boot = b

ResultsInv ==
    /\ \A c \in Correlations : RunInv(calls, runs, runs[c], c, boot)
    /\ RegistryBacked(calls, runs, registry, boot)

-----------------------------------------------------------------------------
(* What backs a result goes on backing it *)

\* Answered calls stay as they are, and so does the process they belong to.
Frame ==
    \A k \in calls :
      /\ k.state = "ok" => k \in calls'
      /\ runs'[k.id[1]].boot = runs[k.id[1]].boot

LEMMA BackedStays ==
  ASSUME Frame, NEW run, NEW c, NEW t, NEW o, NEW r, Backed(calls, runs, run, c, t, o, r)
  PROVE  Backed(calls', runs', run, c, t, o, r)
  BY DEF Frame, Backed

LEMMA RunBackedStays ==
  ASSUME Frame, NEW run, NEW c, RunBacked(calls, runs, run, c)
  PROVE  RunBacked(calls', runs', run, c)
  BY BackedStays DEF RunBacked

LEMMA RegistryBackedStays ==
  ASSUME Frame, NEW reg, NEW b, RegistryBacked(calls, runs, reg, b)
  PROVE  RegistryBacked(calls', runs', reg, b)
  BY DEF Frame, RegistryBacked

LEMMA BackedSame ==
  ASSUME NEW cs, NEW rs, NEW run, NEW next, next.job = run.job, next.boot = run.boot,
         NEW c, NEW t, NEW o, NEW r, Backed(cs, rs, run, c, t, o, r)
  PROVE  Backed(cs, rs, next, c, t, o, r)
  BY DEF Backed

LEMMA RunBackedSame ==
  ASSUME NEW cs, NEW rs, NEW run, NEW next, next.job = run.job, next.boot = run.boot,
         next.results = run.results, next.operations = run.operations,
         NEW c, RunBacked(cs, rs, run, c)
  PROVE  RunBacked(cs, rs, next, c)
  BY BackedSame DEF RunBacked, TargetIndex

LEMMA GoesOnFrame ==
  ASSUME TypeOK, CallsInv, NEW c \in Correlations, NEW job, NEW b,
         runs[c].phase = "unused" \/ (runs[c].job = job /\ runs[c].boot = b),
         GoesOn(c, job, b)
  PROVE  /\ Frame
         /\ \A k \in calls : k \in calls' /\ runs'[k.id[1]].boot = runs[k.id[1]].boot
  <1>1. \A k \in calls : k \in calls' /\ runs'[k.id[1]].boot = runs[k.id[1]].boot
    BY CallOfRun DEF GoesOn, CallsInv, CallsFit
  <1> QED
    BY <1>1 DEF Frame

\* Run c goes on: the other runs keep what they have.
LEMMA OthersStay ==
  ASSUME TypeOK, CallsInv, ResultsInv, NEW c \in Correlations, NEW job, NEW b,
         runs[c].phase = "unused" \/ (runs[c].job = job /\ runs[c].boot = b),
         GoesOn(c, job, b), RunInv(calls', runs', runs'[c], c, boot)
  PROVE  ResultsInv'
  <1>1. /\ Frame
        /\ \A k \in calls : k \in calls' /\ runs'[k.id[1]].boot = runs[k.id[1]].boot
    BY GoesOnFrame
  <1>2. \A k \in calls' : k \in calls \/ k.id[1] = c
    BY DEF GoesOn, MaySend
  <1>3. ASSUME NEW d \in Correlations \ {c}
        PROVE  RunInv(calls', runs', runs'[d], d, boot')
    <2>1. runs'[d] = runs[d] /\ boot' = boot
      BY DEF GoesOn
    <2>2. RunInv(calls, runs, runs[d], d, boot)
      BY DEF ResultsInv
    <2>3. RunBacked(calls', runs', runs[d], d)
      BY <1>1, <2>2, RunBackedStays DEF RunInv
    <2>4. PendingBacked(calls', runs', runs[d], d)
      BY <1>1, <2>2, BackedStays DEF RunInv, PendingBacked
    <2>5. PositionOK(calls', runs[d], d)
      BY <1>1, <1>2, <2>2 DEF RunInv, PositionOK
    <2> QED
      BY <2>1, <2>2, <2>3, <2>4, <2>5 DEF RunInv
  <1>4. RegistryBacked(calls', runs', registry', boot')
    BY <1>1, RegistryBackedStays DEF ResultsInv, GoesOn
  <1> QED
    BY <1>3, <1>4 DEF ResultsInv, GoesOn

-----------------------------------------------------------------------------
(* The steps *)

\* A run about to begin an operation or a target: all it has is backed, and every call
\* it made is behind it.
Forward(run, c) ==
    /\ RunBacked(calls, runs, run, c)
    /\ \A k \in calls : k.id[1] = c => Behind(k, run)
    /\ run.boot = boot
    /\ runs[c].phase = "unused" \/ (runs[c].job = run.job /\ runs[c].boot = run.boot)

LEMMA BeginOperationResults ==
  ASSUME TypeOK, CallsInv, ResultsInv, NEW c \in Correlations, NEW run,
         Positioned(run), Forward(run, c),
         NEW sections, BeginOperation(c, run, sections), UNCHANGED <<boot, registry>>
  PROVE  ResultsInv'
  <1> DEFINE operation == CurrentOperation(run)
             project == CurrentProject(run)
             key == IdempotencyKey(project, operation)
  <1>1. GoesOn(c, run.job, run.boot)
    BY BeginOperationGoesOn
  <1>2. /\ Frame
        /\ \A k \in calls : k \in calls' /\ runs'[k.id[1]].boot = runs[k.id[1]].boot
    BY <1>1, GoesOnFrame DEF Forward
  <1>3. RunBacked(calls', runs', run, c)
    BY <1>2, RunBackedStays DEF Forward
  <1>4. run \in Run
    BY DEF Positioned
  <1>5. ASSUME NEW pending, NEW phase \in {"calling", "returned"},
               runs' = [runs EXCEPT ![c] = [run EXCEPT !.phase = phase, !.pending = pending]],
               phase = "returned" =>
                 Backed(calls', runs', run, c, TargetIndex(run), OperationIndex(run), pending),
               \A k \in calls' : k.id[1] = c => Behind(k, run)
                 \/ (k.id = CallId(c, run) /\ (phase = "calling" => k.state = "open")),
               phase = "calling" => \E k \in calls' : k.id = CallId(c, run)
        PROVE  RunInv(calls', runs', runs'[c], c, boot)
    <2> DEFINE next == [run EXCEPT !.phase = phase, !.pending = pending]
    <2>1. /\ next.job = run.job /\ next.boot = run.boot /\ next.phase = phase
          /\ next.results = run.results /\ next.operations = run.operations
          /\ next.pending = pending
      BY <1>4 DEF Run
    <2>2. runs'[c] = next
      BY <1>5 DEF TypeOK
    <2> HIDE DEF next
    <2>3. TargetIndex(next) = TargetIndex(run) /\ OperationIndex(next) = OperationIndex(run)
          /\ CallId(c, next) = CallId(c, run)
      BY <2>1 DEF TargetIndex, OperationIndex, CallId
    <2>4. RunBacked(calls', runs', next, c)
      BY <1>3, <2>1, RunBackedSame
    <2>5. PendingBacked(calls', runs', next, c)
      BY <1>5, <2>1, <2>3, BackedSame DEF PendingBacked
    <2>6. PositionOK(calls', next, c)
      BY <1>5, <2>1, <2>3 DEF PositionOK, Passed, Behind
    <2> QED
      BY <2>1, <2>2, <2>4, <2>5, <2>6 DEF RunInv, Forward
  <1>6. CASE Refuse(c, run, sections)
    <2> DEFINE pending == Failure(operation, RefusalCode(operation, project))
    <2>1. Backed(calls', runs', run, c, TargetIndex(run), OperationIndex(run), pending)
      BY DEF Backed, Failure
    <2>2. calls' = calls /\ runs' =
            [runs EXCEPT ![c] = [run EXCEPT !.phase = "returned", !.pending = pending]]
      BY <1>6 DEF Refuse
    <2> HIDE DEF pending
    <2>3. RunInv(calls', runs', runs'[c], c, boot)
      BY <1>5, <2>1, <2>2 DEF Forward
    <2> QED
      BY <1>1, <2>3, OthersStay DEF Forward
  <1>7. CASE Replay(c, run, sections)
    <2>1. Backed(calls', runs', run, c, TargetIndex(run), OperationIndex(run), registry[key])
      <3>1. key \in DOMAIN registry /\ operation.idempotency_key # NoKey
        BY <1>7 DEF Replay
      <3>2. PICK k \in calls :
               /\ k.id = registry[key].call /\ k.state = "ok"
               /\ key = IdempotencyKey(k.project, k.operation)
               /\ runs[k.id[1]].boot = boot
        BY <3>1 DEF ResultsInv, RegistryBacked
      <3>3. /\ k.project = project /\ k.operation.action = operation.action
            /\ k.operation.idempotency_key = operation.idempotency_key
        BY <3>2 DEF IdempotencyKey
      <3>4. k \in calls' /\ runs'[k.id[1]].boot = run.boot
        BY <1>2, <3>2 DEF Forward
      <3> QED
        BY <3>1, <3>2, <3>3, <3>4 DEF Backed, CurrentOperation, CurrentProject
    <2>2. calls' = calls /\ runs' =
            [runs EXCEPT ![c] = [run EXCEPT !.phase = "returned", !.pending = registry[key]]]
      BY <1>7 DEF Replay
    <2>3. RunInv(calls', runs', runs'[c], c, boot)
      BY <1>5, <2>1, <2>2 DEF Forward
    <2> QED
      BY <1>1, <2>3, OthersStay DEF Forward
  <1>8. CASE Send(c, run, sections)
    <2>1. runs' = [runs EXCEPT ![c] = [run EXCEPT !.phase = "calling", !.pending = NoResult]]
      BY <1>8 DEF Send
    <2>2. PICK call \in calls' :
             /\ call.id = CallId(c, run) /\ call.state = "open"
             /\ calls' = calls \cup {call}
      BY <1>8 DEF Send
    <2>3. \A k \in calls' : k.id[1] = c =>
             Behind(k, run) \/ (k.id = CallId(c, run) /\ k.state = "open")
      BY <2>2 DEF Forward
    <2>4. RunInv(calls', runs', runs'[c], c, boot)
      BY <1>5, <2>1, <2>2, <2>3
    <2> QED
      BY <1>1, <2>4, OthersStay DEF Forward
  <1> QED
    BY <1>6, <1>7, <1>8 DEF BeginOperation

\* The results of the targets skipped are failures.
LEMMA SkippedBacked ==
  ASSUME NEW run, Between(run), NEW c, NEW cs, NEW rs, RunBacked(cs, rs, run, c),
         NEW upto \in TargetIndex(run)..(Len(run.job.targets) + 1),
         NEW run2,
         run2.results = run.results \o
           [i \in 1..(upto - TargetIndex(run)) |->
               RefusedTarget(run, TargetIndex(run) + i - 1)],
         run2.job = run.job, run2.boot = run.boot, run2.operations = <<>>
  PROVE  RunBacked(cs, rs, run2, c)
  <1> DEFINE from == TargetIndex(run)
             refused == [i \in 1..(upto - from) |-> RefusedTarget(run, from + i - 1)]
  <1>1. /\ run \in Run /\ run.job \in Jobs /\ run.results \in Seq(TargetResult)
    BY DEF Between, Run
  <1>2. from \in Nat \ {0} /\ Len(run.job.targets) \in Nat
    BY <1>1, JobType, LenProperties DEF TargetIndex
  <1>3. upto - from \in Nat
    BY <1>2
  <1>4. \A i \in 1..(upto - from) : from + i - 1 \in 1..Len(run.job.targets)
    BY <1>2
  <1>5. refused \in [1..(upto - from) -> TargetResult]
    BY <1>1, <1>4, RefusedTargetType
  <1>6. \A i \in 1..(upto - from) : \A o \in DOMAIN refused[i].operations :
           refused[i].operations[o].status = "FAILED"
    BY DEF RefusedTarget, Failure
  <1> HIDE DEF refused, from
  <1>7. refused \in Seq(TargetResult) /\ Len(refused) = upto - from
    BY <1>3, <1>5, ListIsSeq
  <1>8. ASSUME NEW t \in DOMAIN run2.results, NEW o \in DOMAIN run2.results[t].operations
        PROVE  Backed(cs, rs, run2, c, t, o, run2.results[t].operations[o])
    <2>1. /\ run2.results = run.results \o refused
          /\ run.results \o refused \in Seq(TargetResult)
          /\ Len(run2.results) = Len(run.results) + Len(refused)
          /\ Len(run.results) \in Nat /\ Len(refused) \in Nat
          /\ DOMAIN run2.results = 1..Len(run2.results)
          /\ DOMAIN run.results = 1..Len(run.results)
      BY <1>1, <1>7, ConcatType, LenProperties DEF refused, from
    <2> DEFINE m == Len(run.results)
               n == Len(refused)
    <2>2. t \in 1..(m + n) /\ m \in Nat /\ n \in Nat
      BY <1>8, <2>1
    <2>3. CASE t <= Len(run.results)
      <3>1. run2.results[t] = run.results[t]
        BY <1>1, <1>7, <2>1, <2>3, <2>2, ConcatProperties
      <3>2. t \in DOMAIN run.results
        BY <2>1, <2>3, <2>2
      <3> QED
        BY <1>8, <3>1, <3>2, BackedSame DEF RunBacked
    <2>4. CASE ~(t <= Len(run.results))
      <3>1. t - m \in 1..n
        <4> HIDE DEF m, n
        <4> QED
          BY <2>4, <2>2 DEF m
      <3>2. (run.results \o refused)[t] = refused[t - Len(run.results)]
        BY <1>1, <1>7, <2>4, <2>2, ConcatProperties
      <3> QED
        BY <1>6, <1>7, <1>8, <2>1, <3>1, <3>2 DEF Backed
    <2> QED
      BY <2>3, <2>4
  <1>9. DOMAIN run2.operations = {}
    BY EmptySeq
  <1> QED
    BY <1>8, <1>9 DEF RunBacked

\* A run that skips targets stays ahead of its calls.
LEMMA SkippedForward ==
  ASSUME TypeOK, NEW c, NEW run, Between(run), Forward(run, c),
         NEW run2, Between(run2), run2.job = run.job, run2.boot = run.boot,
         TargetIndex(run) <= TargetIndex(run2), RunBacked(calls, runs, run2, c)
  PROVE  Forward(run2, c)
  <1>1. TargetIndex(run) \in Nat /\ TargetIndex(run2) \in Nat
    BY LenProperties DEF Between, Run, TargetIndex
  <1>2. OperationIndex(run2) = 1 /\ OperationIndex(run) = 1
    BY EmptySeq DEF Between, OperationIndex
  <1>3. \A k \in calls : k.id[2] \in Nat /\ k.id[3] \in Nat \ {0}
    BY CallOfRun DEF Call, CallIds
  <1>4. \A k \in calls : k.id[1] = c => Behind(k, run2)
    BY <1>1, <1>2, <1>3 DEF Forward, Behind
  <1> QED
    BY <1>4 DEF Forward

LEMMA NextTargetResults ==
  ASSUME TypeOK, CallsInv, ResultsInv, NEW c \in Correlations, NEW run,
         Between(run), Forward(run, c), NEW sections \in Seq(Seq(AuditRecord)),
         NextTarget(c, run, sections), UNCHANGED <<boot, registry>>
  PROVE  ResultsInv'
  <1> DEFINE from == TargetIndex(run)
             run2(upto) == [run EXCEPT !.results = @ \o
                             [i \in 1..(upto - from) |-> RefusedTarget(run, from + i - 1)]]
             sections2(upto) == sections \o
                             [i \in 1..(upto - from) |-> RefusedSection(run, from + i - 1)]
  <1>1. PICK upto \in from..(Len(run.job.targets) + 1) :
           \/ /\ upto <= Len(run.job.targets)
              /\ BeginOperation(c, run2(upto), Append(sections2(upto), <<>>))
           \/ Finish(c, run2(upto), sections2(upto))
    BY DEF NextTarget
  <1>2. /\ Between(run2(upto)) /\ run2(upto).job = run.job
        /\ TargetIndex(run2(upto)) = upto
    BY SkippedType
  <1>3. /\ run2(upto).boot = run.boot /\ run2(upto).operations = <<>>
        /\ run2(upto).results = run.results \o
             [i \in 1..(upto - from) |-> RefusedTarget(run, from + i - 1)]
    BY DEF Between, Run
  <1>4. RunBacked(calls, runs, run2(upto), c)
    BY <1>2, <1>3, SkippedBacked DEF Forward
  <1> HIDE DEF run2, sections2
  <1>5. Forward(run2(upto), c)
    BY <1>1, <1>2, <1>3, <1>4, SkippedForward
  <1>6. \A k \in calls : k.id[1] = c => Behind(k, run2(upto))
    BY <1>5 DEF Forward
  <1>7. CASE /\ upto <= Len(run.job.targets)
             /\ BeginOperation(c, run2(upto), Append(sections2(upto), <<>>))
    <2>1. Positioned(run2(upto))
      BY <1>2, <1>7, FirstOperation
    <2> QED
      BY <1>5, <1>7, <2>1, BeginOperationResults
  <1>8. CASE Finish(c, run2(upto), sections2(upto))
    <2> DEFINE next == [run2(upto) EXCEPT !.phase = "done", !.pending = NoResult]
    <2>1. /\ next.job = run.job /\ next.boot = run.boot /\ next.phase = "done"
          /\ next.results = run2(upto).results /\ next.operations = run2(upto).operations
      BY <1>2, <1>3 DEF Between, Run
    <2>2. runs' = [runs EXCEPT ![c] = next] /\ calls' = calls
      BY <1>8 DEF Finish
    <2> HIDE DEF next
    <2>3. GoesOn(c, run.job, run.boot)
      BY NextTargetGoesOn
    <2>4. Frame
      BY <2>3, GoesOnFrame DEF Forward
    <2>5. RunBacked(calls', runs', next, c)
      BY <1>2, <1>3, <1>4, <2>1, <2>4, RunBackedStays, RunBackedSame
    <2>6. PositionOK(calls', next, c)
      BY <1>6, <2>1, <2>2 DEF PositionOK, Passed, Behind, TargetIndex, OperationIndex
    <2>7. RunInv(calls', runs', runs'[c], c, boot)
      BY <2>1, <2>2, <2>5, <2>6 DEF RunInv, PendingBacked, TypeOK
    <2> QED
      BY <2>3, <2>7, OthersStay DEF Forward
  <1> QED
    BY <1>1, <1>7, <1>8

LEMMA ExecuteResults ==
  ASSUME TypeOK, CallsInv, ResultsInv, NEW c \in Correlations, NEW job \in Jobs,
         Execute(c, job)
  PROVE  ResultsInv'
  <1> DEFINE run == NewRun(job)
  <1>1. NextTarget(c, run, <<>>) /\ UNCHANGED <<boot, registry>> /\ runs[c].phase = "unused"
    BY DEF Execute
  <1>2. Between(run) /\ run.job = job /\ run.boot = boot
    BY NewRunType
  <1>3. RunBacked(calls, runs, run, c)
    BY EmptySeq DEF NewRun, RunBacked
  <1>4. \A k \in calls : k.id[1] # c
    BY <1>1 DEF CallsInv, CallsFit
  <1>5. Forward(run, c)
    BY <1>1, <1>2, <1>3, <1>4 DEF Forward
  <1> QED
    BY <1>1, <1>2, <1>5, EmptySeq, NextTargetResults

\* What the run has with the operation just awaited is backed, and no call is ahead.
LEMMA SettleForward ==
  ASSUME TypeOK, ResultsInv, NEW c \in Correlations, runs[c].phase = "returned"
  PROVE  Forward(Settle(runs[c]), c)
  <1> DEFINE run == Settle(runs[c])
  <1>1. /\ run \in Run /\ run.job \in Jobs /\ run.job = runs[c].job
        /\ run.results = runs[c].results
        /\ run.operations = Append(runs[c].operations, runs[c].pending)
        /\ TargetIndex(run) \in 1..Len(run.job.targets)
        /\ OperationIndex(run) = OperationIndex(runs[c]) + 1
        /\ audit[c] \in Seq(Seq(AuditRecord))
    BY SettleType DEF TypeOK
  <1>2. run.boot = runs[c].boot /\ runs[c].boot = boot /\ runs[c].phase = "returned"
    BY DEF Settle, TypeOK, Run, ResultsInv, RunInv
  <1>3. RunInv(calls, runs, runs[c], c, boot)
    BY DEF ResultsInv
  <1>4. /\ runs[c].operations \in Seq(OperationResult)
        /\ runs[c].pending \in OperationResult
        /\ runs[c].results \in Seq(TargetResult)
    BY <1>2 DEF TypeOK, RunOK, Run
  <1> HIDE DEF run
  <1>5. TargetIndex(run) = TargetIndex(runs[c]) /\ TargetIndex(run) \in Nat
        /\ OperationIndex(run) \in Nat /\ OperationIndex(runs[c]) \in Nat
    BY <1>1, <1>4, LenProperties DEF TargetIndex, OperationIndex
  <1>6. RunBacked(calls, runs, run, c)
    <2>1. \A t \in DOMAIN run.results : \A o \in DOMAIN run.results[t].operations :
             Backed(calls, runs, run, c, t, o, run.results[t].operations[o])
      BY <1>1, <1>2, <1>3, BackedSame DEF RunInv, RunBacked
    <2>2. ASSUME NEW o \in DOMAIN run.operations
          PROVE  Backed(calls, runs, run, c, TargetIndex(run), o, run.operations[o])
      <3>1. /\ DOMAIN run.operations = 1..(Len(runs[c].operations) + 1)
            /\ DOMAIN runs[c].operations = 1..Len(runs[c].operations)
            /\ Len(runs[c].operations) \in Nat
        <4>1. run.operations \in Seq(OperationResult)
              /\ Len(run.operations) = Len(runs[c].operations) + 1
          BY <1>1, <1>4, AppendProperties
        <4> QED
          BY <1>4, <4>1, LenProperties
      <3>2. CASE o \in 1..Len(runs[c].operations)
        <4>1. run.operations[o] = runs[c].operations[o]
          BY <1>1, <1>4, <3>2, AppendProperties
        <4>2. Backed(calls, runs, runs[c], c, TargetIndex(run), o, run.operations[o])
          BY <1>3, <1>5, <3>1, <3>2, <4>1 DEF RunInv, RunBacked
        <4> QED
          BY <1>1, <1>2, <4>2, BackedSame
      <3>3. CASE o = Len(runs[c].operations) + 1
        <4>1. run.operations[o] = runs[c].pending
          BY <1>1, <1>4, <3>3, AppendProperties
        <4>2. Backed(calls, runs, runs[c], c, TargetIndex(run), o, run.operations[o])
          BY <1>2, <1>3, <1>5, <3>3, <4>1 DEF RunInv, PendingBacked, OperationIndex
        <4> QED
          BY <1>1, <1>2, <4>2, BackedSame
      <3> QED
        BY <2>2, <3>1, <3>2, <3>3
    <2> QED
      BY <2>1, <2>2 DEF RunBacked
  <1>7. \A k \in calls : k.id[2] \in Nat \ {0} /\ k.id[3] \in Nat \ {0}
    BY CallOfRun DEF Call, CallIds
  <1>8. \A k \in calls : k.id[1] = c => Behind(k, run)
    BY <1>1, <1>3, <1>5, <1>7 DEF RunInv, PositionOK, Passed, Behind, CallId
  <1> QED
    BY <1>1, <1>2, <1>6, <1>8 DEF Forward, run

LEMMA CloseTargetForward ==
  ASSUME TypeOK, NEW c \in Correlations, NEW run \in Run, run.job \in Jobs,
         TargetIndex(run) \in 1..Len(run.job.targets), Forward(run, c)
  PROVE  Forward(CloseTarget(run), c)
  <1> DEFINE next == CloseTarget(run)
             outcome == TargetOutcome(run)
  <1>1. Between(next) /\ next.job = run.job
    BY CloseTargetType
  <1>2. /\ next.boot = run.boot /\ next.operations = <<>>
        /\ next.results = Append(run.results, outcome)
        /\ outcome.operations = run.operations
    BY DEF CloseTarget, Run, TargetOutcome
  <1>3. outcome \in TargetResult
    <2>1. CurrentProject(run) \in ProjectIds
      BY JobType, ElementOfSeq DEF CurrentProject
    <2> QED
      BY <2>1 DEF TargetOutcome, TargetResult, Run
  <1> HIDE DEF next, outcome
  <1>4. /\ TargetIndex(next) = TargetIndex(run) + 1
        /\ DOMAIN next.results = 1..(Len(run.results) + 1)
        /\ DOMAIN run.results = 1..Len(run.results)
        /\ TargetIndex(run) = Len(run.results) + 1 /\ Len(run.results) \in Nat
        /\ \A t \in 1..Len(run.results) : next.results[t] = run.results[t]
        /\ next.results[TargetIndex(run)] = outcome
    <2>1. run.results \in Seq(TargetResult)
      BY DEF Run
    <2>2. /\ next.results \in Seq(TargetResult)
          /\ Len(next.results) = Len(run.results) + 1
          /\ \A t \in 1..Len(run.results) : next.results[t] = run.results[t]
          /\ next.results[Len(run.results) + 1] = outcome
      BY <1>2, <1>3, <2>1, AppendProperties
    <2> QED
      BY <2>1, <2>2, LenProperties DEF TargetIndex
  <1>5. RunBacked(calls, runs, next, c)
    <2>1. ASSUME NEW t \in DOMAIN next.results, NEW o \in DOMAIN next.results[t].operations
          PROVE  Backed(calls, runs, run, c, t, o, next.results[t].operations[o])
      <3>1. CASE t \in 1..Len(run.results)
        BY <1>4, <2>1, <3>1 DEF Forward, RunBacked
      <3>2. CASE t = TargetIndex(run)
        BY <1>2, <1>4, <2>1, <3>2 DEF Forward, RunBacked
      <3> QED
        BY <1>4, <2>1, <3>1, <3>2
    <2> QED
      BY <1>1, <1>2, <2>1, BackedSame, EmptySeq DEF RunBacked
  <1>6. \A k \in calls : k.id[1] = c => Behind(k, next)
    <2>1. /\ TargetIndex(run) \in Nat /\ OperationIndex(run) \in Nat
          /\ OperationIndex(next) = 1
      BY <1>2, EmptySeq, LenProperties DEF Run, TargetIndex, OperationIndex
    <2>2. \A k \in calls : k.id[2] \in Nat \ {0} /\ k.id[3] \in Nat \ {0}
      BY CallOfRun DEF Call, CallIds
    <2> QED
      BY <1>4, <2>1, <2>2 DEF Forward, Behind
  <1> QED
    BY <1>1, <1>2, <1>5, <1>6 DEF Forward, next

LEMMA ResumeResults ==
  ASSUME TypeOK, CallsInv, ResultsInv, NEW c \in Correlations, Resume(c)
  PROVE  ResultsInv'
  <1> DEFINE run == Settle(runs[c])
  <1>1. /\ run \in Run /\ run.job \in Jobs
        /\ TargetIndex(run) \in 1..Len(run.job.targets)
        /\ audit[c] \in Seq(Seq(AuditRecord))
    BY SettleType DEF Resume, TypeOK
  <1>2. Forward(run, c)
    BY SettleForward DEF Resume
  <1> HIDE DEF run
  <1>3. CASE /\ OperationIndex(run) <= Len(run.job.operations)
             /\ BeginOperation(c, run, audit[c])
    <2>1. Positioned(run)
      BY <1>1, <1>3 DEF Positioned
    <2> QED
      BY <1>2, <1>3, <2>1, BeginOperationResults DEF Resume
  <1>4. CASE NextTarget(c, CloseTarget(run), audit[c])
    <2>1. Between(CloseTarget(run)) /\ Forward(CloseTarget(run), c)
      BY <1>1, <1>2, CloseTargetType, CloseTargetForward
    <2> QED
      BY <1>1, <1>4, <2>1, NextTargetResults DEF Resume
  <1> QED
    BY <1>3, <1>4 DEF Resume, run

LEMMA AdapterReturnsResults ==
  ASSUME TypeOK, CallsInv, ResultsInv, NEW c \in Correlations, NEW ok \in BOOLEAN,
         AdapterReturns(c, ok)
  PROVE  ResultsInv'
  <1> DEFINE run == runs[c]
             operation == CurrentOperation(run)
             project == CurrentProject(run)
             id == CallId(c, run)
             result == IF ok THEN Success(operation, id) ELSE Failure(operation, "UPSTREAM")
             next == [run EXCEPT !.phase = "returned", !.pending = result]
             answered(k) == [k EXCEPT !.state = IF ok THEN "ok" ELSE "failed"]
  <1>1. /\ run.phase = "calling" /\ runs' = [runs EXCEPT ![c] = next] /\ boot' = boot
        /\ calls' = {IF k.id = id THEN answered(k) ELSE k : k \in calls}
        /\ registry' = IF ok /\ operation.idempotency_key # NoKey
                       THEN Remember(IdempotencyKey(project, operation), result)
                       ELSE registry
    BY DEF AdapterReturns
  <1>2. /\ next.job = run.job /\ next.boot = run.boot /\ next.phase = "returned"
        /\ next.results = run.results /\ next.operations = run.operations
        /\ next.pending = result
    BY DEF TypeOK, Run
  <1>3. RunInv(calls, runs, run, c, boot)
    BY DEF ResultsInv
  <1> HIDE DEF next
  <1>4. ASSUME NEW d \in Correlations PROVE runs'[d].boot = runs[d].boot
    BY <1>1, <1>2 DEF TypeOK
  <1>5. ASSUME NEW k \in calls, k.id = id
        PROVE  /\ k.state = "open" /\ answered(k) \in calls'
               /\ answered(k).id = id /\ (ok => answered(k).state = "ok")
               /\ answered(k).project = project /\ answered(k).operation = operation
    <2>1. k \in Call /\ k.id[1] = c
      BY <1>5, CallOfRun DEF CallId
    <2>2. ~Behind(k, run)
      BY <1>5, LenProperties DEF TypeOK, Run, Behind, CallId, TargetIndex, OperationIndex
    <2>3. k.state = "open"
      BY <1>1, <1>3, <2>1, <2>2 DEF RunInv, PositionOK, Passed
    <2>4. k.project = project /\ k.operation = operation
      BY <1>5 DEF CallsInv, CallsFit, CallId, CurrentProject, CurrentOperation
    <2>5. /\ answered(k).id = id /\ (ok => answered(k).state = "ok")
          /\ answered(k).project = project /\ answered(k).operation = operation
      BY <1>5, <2>1, <2>4 DEF Call
    <2>6. answered(k) \in calls'
      BY <1>1, <1>5
    <2> QED
      BY <2>3, <2>5, <2>6
  <1>6. ASSUME NEW k2 \in calls'
        PROVE  \E k \in calls : k2.id = k.id /\ (k2 = k \/ k.id = id)
    <2>1. PICK k \in calls : k2 = IF k.id = id THEN answered(k) ELSE k
      BY <1>1
    <2> QED
      BY <2>1, <1>5
  <1>7. \A k \in calls : k.id # id => k \in calls'
    BY <1>1
  <1>8. Frame
    BY <1>4, <1>5, <1>7, CallOfRun DEF Frame
  <1>9. PICK mine \in calls : mine.id = id
    BY <1>1, <1>3 DEF RunInv, PositionOK
  <1>10. run.boot = boot
    BY <1>1, <1>3 DEF RunInv
  <1>11. /\ TargetIndex(next) = TargetIndex(run) /\ OperationIndex(next) = OperationIndex(run)
         /\ CallId(c, next) = id
    BY <1>2 DEF TargetIndex, OperationIndex, CallId
  <1>12. RunInv(calls', runs', next, c, boot')
    <2>1. RunBacked(calls', runs', next, c)
      BY <1>2, <1>3, <1>8, RunBackedStays, RunBackedSame DEF RunInv
    <2>2. PendingBacked(calls', runs', next, c)
      <3>1. CASE ok
        <4>1. result.call = id
          BY <3>1 DEF Success
        <4>2. /\ answered(mine) \in calls' /\ answered(mine).id = result.call
              /\ answered(mine).state = "ok" /\ answered(mine).project = project
              /\ answered(mine).operation = operation
          BY <1>5, <1>9, <3>1, <4>1
        <4>3. runs'[answered(mine).id[1]].boot = next.boot
          BY <1>2, <1>4, <1>5, <1>9 DEF CallId
        <4>4. /\ project = next.job.targets[TargetIndex(next)]
              /\ operation = next.job.operations[OperationIndex(next)]
          BY <1>2, <1>11 DEF CurrentProject, CurrentOperation
        <4>5. answered(mine).id = <<c, TargetIndex(next), OperationIndex(next)>>
          BY <1>5, <1>9, <1>11 DEF CallId
        <4> HIDE DEF answered, result
        <4> QED
          BY <1>2, <4>2, <4>3, <4>4, <4>5 DEF PendingBacked, Backed
      <3>2. CASE ~ok
        BY <1>2, <3>2 DEF PendingBacked, Backed, Failure
      <3> QED
        BY <3>1, <3>2
    <2>3. PositionOK(calls', next, c)
      <3>1. ASSUME NEW k2 \in calls', k2.id[1] = c
            PROVE  Passed(k2, next, c)
        <4>1. PICK k \in calls : k2.id = k.id /\ (k2 = k \/ k.id = id)
          BY <1>6
        <4>2. Passed(k, run, c)
          BY <1>3, <3>1, <4>1 DEF RunInv, PositionOK
        <4> QED
          BY <1>2, <1>11, <4>1, <4>2 DEF Passed, Behind
      <3> QED
        BY <1>2, <3>1 DEF PositionOK
    <2> QED
      BY <1>1, <1>2, <1>10, <2>1, <2>2, <2>3 DEF RunInv
  <1>13. ASSUME NEW d \in Correlations \ {c}
         PROVE  RunInv(calls', runs', runs'[d], d, boot')
    <2>1. runs'[d] = runs[d] /\ RunInv(calls, runs, runs[d], d, boot)
      BY <1>1 DEF ResultsInv, TypeOK
    <2>2. RunBacked(calls', runs', runs[d], d) /\ PendingBacked(calls', runs', runs[d], d)
      BY <1>8, <2>1, RunBackedStays, BackedStays DEF RunInv, PendingBacked
    <2>3. PositionOK(calls', runs[d], d)
      <3>1. ASSUME NEW k2 \in calls', k2.id[1] = d PROVE k2 \in calls
        <4>1. PICK k \in calls : k2.id = k.id /\ (k2 = k \/ k.id = id)
          BY <1>6
        <4> QED
          BY <3>1, <4>1 DEF CallId
      <3>2. \A k \in calls : k.id = CallId(d, runs[d]) => k \in calls'
        BY <1>7 DEF CallId
      <3> QED
        BY <2>1, <3>1, <3>2 DEF RunInv, PositionOK
    <2> QED
      BY <1>1, <2>1, <2>2, <2>3 DEF RunInv
  <1>14. RegistryBacked(calls', runs', registry', boot')
    <2>1. RegistryBacked(calls', runs', registry, boot)
      BY <1>8, RegistryBackedStays DEF ResultsInv
    <2>2. CASE ~(ok /\ operation.idempotency_key # NoKey)
      BY <1>1, <2>1, <2>2
    <2>3. CASE ok /\ operation.idempotency_key # NoKey
      <3> DEFINE key == IdempotencyKey(project, operation)
      <3>1. registry' = [k \in DOMAIN registry \cup {key} |->
                            IF k = key THEN result ELSE registry[k]]
        BY <1>1, <2>3 DEF Remember
      <3>2. /\ answered(mine) \in calls' /\ answered(mine).id = result.call
            /\ answered(mine).state = "ok" /\ answered(mine).project = project
            /\ answered(mine).operation = operation
            /\ result.status = "SUCCESS" /\ result.code = "none"
        BY <1>5, <1>9, <2>3 DEF Success
      <3>3. runs'[answered(mine).id[1]].boot = boot
        BY <1>4, <1>5, <1>9, <1>10 DEF CallId
      <3> HIDE DEF answered, result, key
      <3>4. ASSUME NEW k \in DOMAIN registry'
            PROVE  /\ registry'[k].status = "SUCCESS" /\ registry'[k].code = "none"
                   /\ \E call \in calls' :
                        /\ call.id = registry'[k].call /\ call.state = "ok"
                        /\ call.operation.idempotency_key # NoKey
                        /\ k = IdempotencyKey(call.project, call.operation)
                        /\ runs'[call.id[1]].boot = boot'
        <4>1. CASE k = key
          BY <1>1, <2>3, <3>1, <3>2, <3>3, <4>1 DEF key
        <4>2. CASE k # key
          BY <1>1, <2>1, <3>1, <3>4, <4>2 DEF RegistryBacked
        <4> QED
          BY <4>1, <4>2
      <3> QED
        BY <3>4 DEF RegistryBacked
    <2> QED
      BY <2>2, <2>3
  <1>15. RunInv(calls', runs', runs'[c], c, boot')
    BY <1>1, <1>12 DEF TypeOK
  <1> QED
    BY <1>13, <1>14, <1>15 DEF ResultsInv

LEMMA RestartResults ==
  ASSUME TypeOK, CallsInv, ResultsInv, Restart
  PROVE  ResultsInv'
  <1>1. ASSUME NEW d \in Correlations
        PROVE  /\ runs'[d].job = runs[d].job /\ runs'[d].boot = runs[d].boot
               /\ runs'[d].results = runs[d].results
               /\ runs'[d].operations = runs[d].operations
               /\ runs'[d].phase \notin {"calling", "returned"}
               /\ runs[d].phase \in {"calling", "returned", "lost"}
                    => runs'[d].phase = "lost"
    BY DEF Restart, TypeOK, Run
  <1>2. calls' = calls /\ Frame
    BY <1>1, CallOfRun DEF Restart, Frame
  <1>3. ASSUME NEW d \in Correlations
        PROVE  RunInv(calls', runs', runs'[d], d, boot')
    <2>1. RunInv(calls, runs, runs[d], d, boot)
      BY DEF ResultsInv
    <2>2. RunBacked(calls', runs', runs'[d], d)
      BY <1>1, <1>2, <2>1, RunBackedStays, RunBackedSame DEF RunInv
    <2>3. PositionOK(calls', runs'[d], d)
      BY <1>1, <1>2, <2>1
         DEF RunInv, PositionOK, Passed, Behind, CallId, TargetIndex, OperationIndex
    <2> QED
      BY <1>1, <2>2, <2>3 DEF RunInv, PendingBacked
  <1>4. DOMAIN registry' = {}
    BY EmptySeq DEF Restart
  <1> QED
    BY <1>3, <1>4 DEF ResultsInv, RegistryBacked

-----------------------------------------------------------------------------

LEMMA ResultsInvariant == Spec => []ResultsInv
  <1>1. Init => ResultsInv
    <2> SUFFICES ASSUME Init PROVE ResultsInv
      OBVIOUS
    <2>1. \A c \in Correlations : runs[c] = IdleRun
      BY DEF Init
    <2>2. DOMAIN registry = {} /\ calls = {}
      BY EmptySeq DEF Init
    <2> QED
      BY <2>1, <2>2, EmptySeq
         DEF ResultsInv, RunInv, RunBacked, PendingBacked, PositionOK, RegistryBacked, IdleRun
  <1>2. TypeOK /\ CallsInv /\ ResultsInv /\ [Next]_vars => ResultsInv'
    <2> SUFFICES ASSUME TypeOK, CallsInv, ResultsInv, [Next]_vars PROVE ResultsInv'
      OBVIOUS
    <2>1. ASSUME NEW c \in Correlations, NEW job \in Jobs, Execute(c, job)
          PROVE  ResultsInv'
      BY <2>1, ExecuteResults
    <2>2. ASSUME NEW c \in Correlations, NEW ok \in BOOLEAN, AdapterReturns(c, ok)
          PROVE  ResultsInv'
      BY <2>2, AdapterReturnsResults
    <2>3. ASSUME NEW c \in Correlations, Resume(c) PROVE ResultsInv'
      BY <2>3, ResumeResults
    <2>4. CASE Restart
      BY <2>4, RestartResults
    <2>5. CASE UNCHANGED vars
      BY <2>5 DEF vars, ResultsInv
    <2> QED
      BY <2>1, <2>2, <2>3, <2>4, <2>5 DEF Next
  <1> QED
    BY <1>1, <1>2, TypeCorrect, CallsInvariant, PTL DEF Spec

\* A SUCCESS given for an operation stands for a request Appwrite answered with success
\* while this process ran (SuccessIsReal): whatever the interleaving of the applies,
\* the replays and the restarts.
THEOREM EverySuccessIsReal == Spec => []SuccessIsReal
  <1>1. ResultsInv => SuccessIsReal
    <2> SUFFICES ASSUME ResultsInv, NEW c \in Correlations, NEW s \in Settled(c),
                        s[3].status = "SUCCESS"
                 PROVE  Backed(calls, runs, runs[c], c, s[1], s[2], s[3])
      BY DEF SuccessIsReal, Backed
    <2> DEFINE run == runs[c]
    <2>1. RunBacked(calls, runs, run, c) /\ PendingBacked(calls, runs, run, c)
      BY DEF ResultsInv, RunInv
    <2>2. CASE s \in OfFinishedTargets(run)
      BY <2>1, <2>2 DEF OfFinishedTargets, RunBacked
    <2>3. CASE s \in OfCurrentTarget(run)
      BY <2>1, <2>3 DEF OfCurrentTarget, RunBacked
    <2>4. CASE s \in ToResumeWith(run)
      BY <2>1, <2>4 DEF ToResumeWith, PendingBacked
    <2> QED
      BY <2>2, <2>3, <2>4 DEF Settled
  <1> QED
    BY <1>1, ResultsInvariant, PTL
=============================================================================
