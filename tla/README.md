# appwrite-mcp in TLA+

This directory holds a TLA+ model of appwrite-mcp, the MCP server that puts a
preview/apply protocol in front of Appwrite: what its parts do step by step,
what TLC checks about them on small instances, and what TLAPS proves about them
for every instance. Paths such as `core/mutation-executor.ts` are relative to
`src/` of the repository.

## 1. The system

A client speaks JSON-RPC to one Node process, over stdio or HTTP. It *previews*
a list of operations against a list of target projects and gets a plan (an id,
a hash, an expiry). If the plan is critical it asks for a *confirmation token*
for the hash. It then *applies* the same request under the plan's id and hash.
The executor goes through targets and operations in order and awaits the HTTP
adapter for each one. All state is in memory.

| Component | State | Operations | Talks to |
| --- | --- | --- | --- |
| `mcp/streamable-http-jsonrpc-server.ts` | the listener, bodies being read | start, stop, one request | router |
| `mcp/stdio-jsonrpc-server.ts`, `mcp/jsonrpc-tool-router.ts`, `mcp/protocol.ts` | none of their own | one line, one tool call | control service |
| `core/appwrite-control-service.ts` | configuration only | preview, apply, issueConfirmationToken, four read-only tools | all of `core/` |
| `core/plan-manager.ts` (`plan-hash.ts`, `canonical-json.ts`) | `planStore` | buildAndStorePlan, requireMatchingPlan | |
| `core/confirmation-token-service.ts` | the secret | issue, verify | |
| `core/target-resolver.ts` | configuration only | resolveRequest, resolve | |
| `core/mutation-schemas.ts`, `core/operation-scope-catalog.ts` | none | parse, infer scopes | |
| `core/mutation-executor.ts`, `core/idempotency-registry.ts`, `core/audit-log.ts` | locals of each `execute()`, registry, log | execute | adapter |
| `adapters/http-appwrite-adapter.ts` | locals of each call | executeOperation | Appwrite |
| `config/runtime-config.ts` | none | environment and auth file to options | everything, at start |
| `e2e/manual-smoke.ts` | none | preview and apply three cases | control service |
| `domain/redaction.ts`, `domain/errors.ts`, `index.ts` | none | | |

**What is hard.** The process is single threaded, but applies interleave at every
`await`, and they share registry and log. The idempotency registry is read before
an await and written after it. Plan, token and clock are looked at once, before the
first await. A restart forgets plans, registry and log, while clients keep plan ids
and tokens, and Appwrite keeps what it did. A request may take effect in Appwrite
after the adapter has given up on it. Expiry is computed in milliseconds and compared
in seconds. A single operation or a single target may fail in the middle of a run.

**What makes each part correct.**

- *Executor*: a reported success is real; nothing answered is dropped; results and
  records line up with the request; each request leaves with the right credential;
  a keyed operation known to have succeeded is not sent again; every run ends.
- *Control service, plans, tokens*: only previewed, unexpired and where needed
  confirmed work reaches Appwrite, and a client that sends back what it was shown is
  not turned away; plan, log and reply tell the same story.
- *HTTP adapter*: an answer once and always; success only if the operation was carried
  out; no second attempt of what must not be repeated; no final failure for work that
  may have been done.
- *Servers and router*: one reply per request, its own and of the right kind; a slow apply
  holds up nobody; a request reaches the service only whole; `start()` and `stop()` in any
  order tell the truth and lose no listener; the process exits when its client is gone.
- *Resolver, configuration*: a process that starts is fit to serve; each request ends up
  at the projects it names, in order, and those of a selector once each.

`PROJECT.json` lists the hazards by line with the properties that cover them, and why
some are not covered.

## 2. Modules

| Module | Models | Uses |
| --- | --- | --- |
| `OperationScopeCatalog` | actions and scopes | |
| `MutationExecutor` | executor, registry, executor's log | `OperationScopeCatalog` |
| `TargetResolver`, `PlanManager`, `ConfirmationToken` | pure operators of those components | |
| `ControlService` | service, plan store, tokens, clock, around the executor | the five above |
| `AppwriteRequests` | operation to HTTP request | `OperationScopeCatalog` |
| `HttpAppwriteAdapter` | attempts, timeout, retries; Appwrite as environment | `AppwriteRequests`, `AdapterContract` |
| `AdapterContract` | abstract: what an adapter promises | |
| `ApplyOverHttp` | executor and adapter composed | `MutationExecutor`, `HttpAppwriteAdapter` |
| `JsonRpcToolRouter` | methods, tools, replies | |
| `StdioJsonRpcServer`, `StreamableHttpJsonRpcServer` | the two servers | `JsonRpcToolRouter` |
| `JsonRpcServers` | a process with one of them | both servers, `RequestReply` |
| `RequestReply` | abstract: one fitting reply per request | |
| `RuntimeConfig` | environment, arguments, auth file, start of the process | `TargetResolver` |
| `ManualSmoke` | the smoke suite as a client | `ControlService` |
| `MC...` | instances for TLC | |
| `...Proofs` | theorems, section 4 | the module they are named for, TLAPS |

### MutationExecutor

A step is the code between two awaits. `Execute` is the call of `execute()` up to its
first await: it may skip several targets without credential on the way and, when no
target is usable, it ends the run. `AdapterReturns` is the rest of `executeOperation`
after the adapter's answer: registry, audit record, result. `Resume` is the rest of
`execute()` after `await this.executeOperation`: it stores the result, closes the target
if that was the last operation, begins the next operation or ends the run with the
"apply" records. Cached and refused operations wait for a `Resume` as well, because the
code awaits them too: another apply may run in between.

| TLA+ | Code |
| --- | --- |
| `runs[c]` | the locals of the call with correlation id `c`: target and operation reached (implied by the lengths of `results` and `operations`), `results`, `operations`, and the value the await will give (`pending`) |
| `registry` | `IdempotencyRegistry.results` |
| `audit[c]` | the records with correlation id `c`, one section per target |
| `calls` | what the adapter was asked, with the key it was given and how it ended (Appwrite's side, survives restarts) |
| `boot` | the incarnation of the process |

`Restart` loses registry, log and the runs in flight ("lost"); `calls` stay. The registry
key is the triple of project, action and key rather than the joined string: the action
comes from a fixed list without colons and Appwrite ids have none.

### ControlService

`Preview`, `IssueConfirmationToken` and `Apply` are the tools that change something.
`Apply` is one step from the parsing of the input to the first await of the executor and
does what `Execute` does; its checks are `AdmissionError`, in the order of the code.
A refused request changes nothing, so it is a stuttering step; so are the read-only tools.
`planStore` is the map of the plan manager, `planned` the log records of previews;
`previewed` and `tokens` are what clients were told and survive restarts; `applies` is
history, what each apply was admitted with. The hash of a plan is the record it is
computed from, and a token carries the secret it was signed with: SHA-256 is taken to be
injective and HMAC to be unforgeable. Clients send back any combination of what they were
told and of values the service never gave.

### HttpAppwriteAdapter and AdapterContract

`Start` is `executeOperation` up to the first `fetch`; an operation that lacks a param, a
context that lacks endpoint or key, and an endpoint that is no URL are answered without
sending anything. `HeadersArrive`, `BodyArrives`, `AttemptThrows` and `Wake` are the
awaits of the loop in `performHttpRequest`. The abort timer is cleared when the headers
are there, so "AbortError" is possible only before. `UpstreamActs` is Appwrite: it may
act on any attempt at any time, also after the adapter timed out and retried, or answered.
A 2xx was carried out, a 4xx was not, anything else may have been. The list of statuses to
retry is any list, as in the code. A status outside 2xx and 4xx that is not on it (501 or 505
with the default list) is *unclear*: the code reports it as final although Appwrite may have
done the work (`Unclear`, `EndedUnclear`).

`AdapterContract` has three variables per call (what was asked, how it was answered, how
often Appwrite carried it out). It says: answered once; "ok" only if carried out; what is
neither a read nor keyed is carried out at most once, and not at all, then or later, when
its call is refused. "Refused" is a final failure of something that was not sent or that Appwrite
answered with a 4xx; every other failure, one with an unclear status included, promises nothing. Reads are the actions the repository's README lists as read-only,
while the adapter decides by HTTP method: that these agree is part of what the refinement
shows. The constants `Invocations`, `calls` of the executor and the states open, ok and
failed (the contract's refused or failed) correspond: it is the contract the executor's `AdapterReturns` assumes.

### ApplyOverHttp

The executor's module knows of the adapter only that each call is answered. Here the request
of an operation and the adapter's `Start` are one step, as they are in the code up to the first
`fetch`; the adapter goes on by the actions of `HttpAppwriteAdapter`; its answer and the
executor's `AdapterReturns` are one step (`Answered`). The adapter's calls die with the
process, Appwrite does not: what was sent may be carried out at any later time. Properties relate
what clients were told to what Appwrite did, and the composition is shown to implement
`MutationExecutor!FairSpec`: that the adapter answers, assumed there, follows here from timers
and the bound on retries.

### The servers

`JsonRpcToolRouter` has the dispatch of `handle()` by kind of reply. Only `changes.apply` waits
for anything; every other request is worked off in the step that dispatches it and only its
reply waits for the event loop. `StdioJsonRpcServer` reads lines one by one and never awaits a
handler, so replies come in any order; nothing ends the process but Node's having nothing left
to do. `StreamableHttpJsonRpcServer` has `this.server`, each `http.Server` it was ever given
(`listeners`), the promises of `start()` and `stop()`, and requests from their first byte to
their reply: bodies come chunk by chunk, may pass the limit, break off or be abandoned.
Binding, connections and `server.close()` are Node's and marked external.
`RequestReply` is what both look like from outside.

### RuntimeConfig and ManualSmoke

`RuntimeConfig` is `main()`: the builder of the service and the configuration of the server read
the same environment one after the other, each by its own rules, and either may refuse. Numbers and
booleans are modelled after parsing, with `Garbage` for what does not parse. `Prepare` then
asks the running service for the targets of a request, so the derivations of the auth file (aliases,
auto targets) are judged by what requests come to mean. `ManualSmoke` is the
suite of `e2e/manual-smoke.ts`, one case after the other, on `ControlService` unchanged.

## 3. What TLC checks

| Run | Instance | Properties | Shows |
| --- | --- | --- | --- |
| `executor` | 3 applies, 4 jobs, 2 incarnations, 128 thousand states | `TypeOK`, `SuccessIsReal`, `CallsAreAccounted`, `ResultsFollowRequest`, `LeastPrivilege`, `AuditTellsTheRun`, `NoRepeatAfterSuccess` | interleaved applies keep results, log, credentials and registry consistent |
| `executor_live` | 2 applies, targets without credential, no management channel, 7 thousand states | `EveryRunAnswers` | every apply that started ends |
| `executor_once` | 2 applies | `CarriedOutOnce`, violated | see section 6 |
| `gate` | 1 apply, 2 plans, 1 token, 7 requests, clock 0..3, 2 incarnations, 304 thousand states | `ServiceTypeOK`, `OnlyPreviewedWork`, `CriticalWorkConfirmed`, `HonestApplyAdmitted` | what the service lets through, and whom it lets in |
| `applies` | 2 applies, 2 plans, the 4 requests that can be applied, 1 incarnation, 213 thousand states | `PerformedWasPlanned`, `StatusTellsTheLog`, `ImplementsExecutor` | log, plan and reply agree; the service uses the executor as specified |
| `single` | 1 apply, one global and one management credential with other scopes, 85 thousand states | `AdmissionCoversTheRun`, `LeastPrivilege` | what admission checks for the whole plan covers every operation of the run; neither credential is used beyond its own |
| `adapter` | 1 call, all 25 actions, 3 sets of params, keyed or not, 2 retries, 5 statuses, 129 thousand states | `TypeOK`, `FinalFailureUntouched`, `ImplementsContract`, `EveryCallAnswers` | the adapter keeps its contract and always answers |
| `wire` | 1 apply of up to 3 operations, 1 retry, 4 statuses, 2 incarnations, 212 thousand states | `UnkeyedSuccessIsSettled`, `EffectsInOrder`, `ImplementsFairExecutor` | late effects stay in order except where the client was warned; every apply is answered |
| `wire_shared` | 2 applies that share a key, 1 retry, 3 statuses, 2.2 million states | `SuccessWasCarriedOut`, `EffectsAreReported` | what clients are told, replays included, is what Appwrite did |
| `servers` | 6 inputs of stdin, 2 HTTP requests of 6 kinds, 2 starts, 2 stops, 327 thousand states | `ServedAsReceived`, `ListenersAreHeld`, `ImplementsRequestReply`, `StartTellsTheTruth`, `ApplyHoldsUpNobody`, `ShutsDown` | each request is served and answered once, the listener's life cycle settles |
| `config` | 385 environments, 51 auth files, 14 requests, 85 thousand states | `ServesItsOwnTransport`, `StartsFitToServe`, `TargetsHaveCredentials`, `ResolvesAsNamed` | what starts is fit to serve, requests mean what they name |
| `smoke` | the 3 default cases, 2 targets | `MissingScopeFails`, violated | see section 6 |

**Why the bounds are enough.** The executor's jobs have a repeated target, targets without
credential first, in the middle and last, a key shared by two operations, by two actions
and by two applies, an operation refused for its scopes, one refused for want of a
management channel, one that uses it, and one for which the management credential lacks a scope. The
fallback credential beside those of the projects is the first of them, as the builder hands it over. Conflicts are between pairs of applies; the
third lets a result go through the registry while two others are in flight. Two incarnations are enough for anything that
must not cross a restart. In `gate`, a second is two ticks, plans live two ticks and tokens one
second, so a plan and a token expire at different moments, a token is issued in the middle
of a second, and each expiry is met exactly. `gate` asks about admission, so one apply is enough, and
interleavings after admission are those of `executor` and `applies`. The adapter keeps no
state between calls (its fields are read-only), so one call is enough; three attempts have a
first, a middle and a last one. In `wire` one retry and the statuses 201, 409, 503 and 501 (carried
out, refused, ambiguous and to be retried, unclear) stand for the rest, which `adapter` covers: two attempts are
enough for one to be late. `wire_shared` does without 503, since an attempt that times out is retried as well.
`gate` has one actor and one secret; that both are compared is part of `NothingUnseen` and `CriticalConfirmed`
(section 4), which hold for any. In `servers` a body limit of two chunks has bodies below, at and beyond it,
and two starts and stops have each overtake the other; the two servers share nothing, so each is explored
by itself. `config` varies together what the code reads together (transport, management and secret,
the adapter's numbers) and leaves the rest at its default.
Bounds are `MaxBoots`, `MaxTime`, `MaxTokens`, the number of
correlation and plan ids, `MaxStarts`, `MaxStops`, `MaxRequests`, and `MaxRetries`, which is the code's own.

Deadlock is not checked: a server without requests stops, and here correlation ids run out.
Symmetry (correlation ids, plan ids) is used in safety runs only.

**Fairness.** `MutationExecutor`: a `Resume` is a microtask and the event loop drains those,
and the adapter answers in the end. The latter is what `EveryCallAnswers` shows of the HTTP
adapter, and `ImplementsFairExecutor` of the two together, under the adapter's own fairness: timers fire, so an attempt that waits for headers ends and a
delay is over; and a body that has begun either comes to its end or breaks off. No timer of the adapter
covers the body; Node's `fetch` breaks off a body that stalls. `JsonRpcServers`: lines that were
typed are read, promises go on, a body that is being received ends or breaks off (Node's request timeout), binding and
closing come to an end, and Node exits when it has nothing to do; not that an apply ends, nor
that anybody closes stdin or calls `start()` or `stop()`: `ShutsDown` has the end of applies as its premise, and
`ApplyHoldsUpNobody` holds without it. Nothing is assumed of Appwrite, of clients or of restarts.

**Mutants.** Each property has a mutant of the code it must catch, defined just before the
definition it replaces and marked "Mutant": a registry key without the action, results kept only
of successes, a plan hash without the parameters, and so on. Nothing else uses these definitions.

## 4. What is proved

Eight modules hold proofs. Each theorem is about a specification that a run checks on a small instance, and
holds for every value of its constants: any jobs, requests, credentials, projects, environments and statuses,
any number of applies, retries, calls, listeners and restarts. Every safety property that a passing run checks is the
statement of one of them.

| Theorem | States |
| --- | --- |
| `MutationExecutorProofs!TypeCorrect` | `Spec => []TypeOK` |
| `MutationExecutorProofs!NoRepeat` | `Spec => NoRepeatAfterSuccess` |
| `MutationExecutorProofs!KeysKeptApart` | `Spec => []LeastPrivilege`, if `OneCredentialPerKey` |
| `ExecutorResultsProofs!EverySuccessIsReal` | `Spec => []SuccessIsReal` |
| `ExecutorReportsProofs!NothingDropped` | `Spec => []CallsAreAccounted` |
| `ExecutorReportsProofs!RequestFollowed` | `Spec => []ResultsFollowRequest` |
| `ExecutorReportsProofs!LogTellsTheRun` | `Spec => []AuditTellsTheRun` |
| `ControlServiceProofs!ServiceExecutes` | `ServiceSpec => Spec`, the executor's |
| `ControlServiceProofs!ServiceTypeCorrect` | `ServiceSpec => []ServiceTypeOK` |
| `ControlServiceProofs!NothingUnseen` | `ServiceSpec => []OnlyPreviewedWork` |
| `ControlServiceProofs!CriticalConfirmed` | `ServiceSpec => []CriticalWorkConfirmed` |
| `ControlServiceProofs!HonestAdmitted` | `ServiceSpec => []HonestApplyAdmitted` |
| `ControlServiceProofs!StatusInLog` | `ServiceSpec => []StatusTellsTheLog` |
| `ControlServiceProofs!PlannedFirst` | `ServiceSpec => []PerformedWasPlanned` |
| `ControlServiceProofs!AdmissionCovers` | `ServiceSpec => []AdmissionCoversTheRun` |
| `HttpAppwriteAdapterProofs!AdapterTypeCorrect` | `Spec => []TypeOK` |
| `HttpAppwriteAdapterProofs!FinalFailures` | `Spec => []FinalFailureUntouched` |
| `HttpAppwriteAdapterProofs!ContractKept` | `Spec => ImplementsContract` |
| `ApplyOverHttpProofs!SystemExecutes` | `SystemSpec => Spec`, the executor's |
| `ApplyOverHttpProofs!SystemAdapts` | `SystemSpec => Spec`, the adapter's |
| `ApplyOverHttpProofs!ContractKeptInSystem` | the system keeps the adapter's contract, and `FinalFailureUntouched` |
| `ApplyOverHttpProofs!ReportedWasCarriedOut` | `SystemSpec => []SuccessWasCarriedOut` |
| `ApplyOverHttpProofs!NoHiddenEffects` | `SystemSpec => []EffectsAreReported` |
| `ApplyOverHttpProofs!UnkeyedIsOver` | `SystemSpec => []UnkeyedSuccessIsSettled` |
| `ApplyOverHttpProofs!WorkInOrder` | `SystemSpec => EffectsInOrder` |
| `JsonRpcServersProofs!NoListenerLost` | `ServersSpec => []ListenersAreHeld` |
| `JsonRpcServersProofs!StartKeepsItsPromise` | `ServersSpec => StartTellsTheTruth` |
| `JsonRpcServersProofs!NothingServedOtherwise` | `ServersSpec => []ServedAsReceived` |
| `JsonRpcServersProofs!OneReplyEach` | `ServersSpec => ImplementsRequestReply` |
| `RuntimeConfigProofs!OwnTransportServed` | `Spec => []ServesItsOwnTransport` |
| `RuntimeConfigProofs!FitToServe` | `Spec => []StartsFitToServe` |
| `RuntimeConfigProofs!CredentialsFound` | `Spec => []TargetsHaveCredentials` |
| `RuntimeConfigProofs!NamesResolved` | `Spec => []ResolvesAsNamed` |

**Assumptions.** All are named, stand in the module that declares the constants, and are evaluated by TLC.

- Types: `JobsAssumption` (an apply has at least one operation, as the schema demands), `CredentialsAssumption`,
  `BootsAssumption`, `RetriesAssumption`, `ClockAssumption`, `PlanTtlAssumption`, `InputsAssumption`, `RequestFieldsAssumption`,
  `ClientsAssumption` and, for the configuration, `AuthFilesAssumption` and `RequestsAssumption` (the lists in an auth file or
  a request are sequences).
- Placeholders are no real values: `NoCallAssumption`, `NoAnswerAssumption`.
- `RequestsAssumption` of the service: what its requests resolve to is among the `Jobs` the executor is specified for.
- `FallbackAssumption`: a service without project credentials has a global one, since `authContext` is not an
  optional option of the service.
- `StatusesAssumption`: statuses are numbers, none is the placeholder. It says nothing of the list of statuses to retry.
- `HttpAssumption`: the constants of the composition meet the assumptions of the adapter; `AdapterAssumptions` derives those from it.

None of them restricts how the program may be configured; the hypothesis of `KeysKeptApart` does, and is named there.

**The executor.**

- *TypeCorrect*. `TypeOK` says besides types that a run which awaits something stands at an
  operation of one of its targets (`RunOK`); with that conjunct it is inductive. The work is in the step
  that skips targets (`SkippedType`, `NextTargetType`).
- *NoRepeat*. `CallsInv` = `CallsFit` (a call is one of its run's job, and only started runs have
  calls) and `BootsFit` and `RegistryCovers` (what this incarnation carried out with a key is in the registry).
  A keyed operation is sent only if its key is not in the registry, so `RegistryCovers` is all
  the action property needs; it is inductive because answer and registration are one step, and
  a restart makes all earlier calls another incarnation's.
- *KeysKeptApart*. `LeastPrivilege` looks up, for the key a request carried, every credential the process holds
  with that key: each must be one the operation is entitled to, and its scopes must suffice, those of the management and
  of the global credential too. That cannot hold if an operator lists one key twice with different scopes.
  `OneCredentialPerKey` says that a key comes with the same scopes wherever it is listed; `docs/ops-runbook.md` asks for more ("Do not reuse tenant/project keys for management operations"). It is a hypothesis of this theorem alone.
  Every call then has the key of the credential `ResolveOperationAuthContext` chose for its own project
  and operation (`CallsFit`), and `RefusalCode` has checked that credential's scopes.
- *EverySuccessIsReal*. `SuccessIsReal` is not inductive: a replayed result comes from the registry,
  and a result must stay backed. `ResultsInv` adds that a run only moves forward, so that a call
  is answered once and keeps its answer (`Passed`, `Behind`), that the registry holds only results of
  answered calls of this incarnation (`RegistryBacked`), and that the result a run is about to
  resume with is backed (`PendingBacked`).
- *NothingDropped* and *RequestFollowed*. `ReportsInv` follows an answer from the step that brings it to the
  end of the run: it is what the run resumes with, or stands at its place (`Reported`). A result names the
  operation at its place or is a replay (`Names`); that a replay is not of a call the run has yet to make comes from `ResultsInv`.
- *LogTellsTheRun*. `LogInv` reads the log off the run, phase by phase (`LogOK`). A run that waits for the adapter has
  the sections of the targets it has finished and the records of the operations it has settled in the one it is at. One that
  waits for `Resume` has one record more than results, that of `pending`: the record is written before the await and the result
  stored after it, and this is why the property by itself is not inductive. A run that has ended has a section per
  target, each with its "apply" record. The runs of an earlier process have no log at all, which is why `LogInv` is about `boot`.

**The service.** `PlansInv` says that a plan in the store is the one its request was shown, with the hash of that
request. With it every `Apply` that is admitted is an `Execute` of a job, so the service implements the executor, and
each theorem about the executor holds of the service. `AdmittedInv` keeps, for every run, what was checked when it was
admitted; the plan store may change under the run, that record does not. The equality of two hashes gives the equality of what was
shown and what is sent. `TimesInv` relates expiry in ticks to expiry in seconds; it is what the rounding argument of
`CriticalConfirmed` and `HonestAdmitted` needs. *StatusInLog* and *PlannedFirst* read the executor's log, which carries over
with `LogInv`, against the reply and against the plan the run was admitted with; that this plan is still in the store and its preview
still in the log is `StoreInv`, since neither is ever pruned within a process. *AdmissionCovers* needs that a refusal has a cause
(`RefusedForCause`, part of `ReportsInv`), and that the causes are what admission has already excluded for the whole plan:
without project credentials every target has the one credential that was checked.

**The adapter.** `AdapterInv` takes one call at a time: an exchange per attempt, what each status says of Appwrite, and that
what a call has heard is what Appwrite did in its *last* attempt. A retry needs `CanRetryRequest`, so a call not to be
repeated has one attempt, which is the contract's bound.

**Executor and adapter.** `SystemStep` shows that a step of the system is a step or a stutter of the executor and at the same time of the
adapter. So both specifications are implemented, and what was proved of each alone holds here without being proved again: the
executor's invariants by `SystemExecutes`, the adapter's by `SystemAdapts`. `SystemInv` has one conjunct that
is about both, `Tied`: a call the executor made and a call the adapter was started with are the same, with the same operation,
and agree on their answer. The properties then are read off the two sides.

- *ReportedWasCarriedOut*: a reported success is that of an answered call (`SuccessIsReal`), which the adapter answers
  "ok" only with a 2xx.
- *NoHiddenEffects*: what was sent is a call of the executor (`Tied`), which is at its place or awaited (`ReportsInv`); if it is
  reported failed for good, `FinalFailureUntouched` says that the attempt the answer is about has no effect, unless its status was
  unclear, which `EffectsAreReported` excepts. So what was carried out are earlier attempts, and only a keyed operation has any.
- *UnkeyedIsOver*: without a key there is no replay, so the result is of the call at its own place, and a write without a key has one attempt.
- *WorkInOrder*, of every step. A later place has been sent only if the call of this one was answered, because a run only moves
  forward (`OpenIsLast`); and after an answer Appwrite acts only on an attempt whose status the adapter never saw, which is the last one, and
  then the answer says it may be retried, or an earlier one of a keyed call (`EffectsOfStep`, `LeftOpen`).

**The servers.** `LifeInv`, the life of the listener: this.server was never closed; a listener that is let go of while it may still
listen has a rejected `stop()`; one that is not listening yet has a pending `start()`, one that failed a rejected one.
For requests, `ServersInv` adds that only one transport runs, what the lines of stdin and the requests of HTTP have been given so far
(`LinesInv`, `RequestsInv`), and that what was served is what went on from the router, once each, and from stdin in the order of the lines (`ServedInv`).
A request never goes back, `Successor` and `LineGoesOn` say where it goes from each of its states, and so
*NothingServedOtherwise* needs no history of the wire. *OneReplyEach* maps each step to one of `RequestReply` or to a
stutter: a reply is new only where a request that had none goes on.

**Configuration.** `ConfigInv`: environment and file are never written, so service and transport remain what the checks made them
(*OwnTransportServed*, *FitToServe*). *CredentialsFound* and *NamesResolved* are about the operators of `TargetResolver` on
lists of any length. `Mentions(r, meant)` says that `r` is what a list of names stands for, position by position: what is in `r` is
meant at some place, later elements at later places, and everything meant is in `r` from there or earlier. Each step of the
resolver (filter, renaming of aliases, dropping of repetitions) keeps that (`KeptMentions`, `RenamedMentions`, `UniqueOrderedIs`), so
it holds between the names in the request and the resolved targets (`ByIdResolves`, `ByAliasResolves`, `AutoResolves`).
The filter is a recursive function and needs an induction on the length; the library's induction theorems take
an operator as a parameter, which the provers cannot instantiate, so `KeptUpToIs` takes instead the least length for which the claim
fails (`Least`, from the well-foundedness of `<` on the naturals).

**CASE.** Version 1.4.5 of tlapm encodes `CASE` in a way that may identify two different `CASE` expressions with the same first arm.
No proof rests on that: all eight modules were also proved with every `CASE` of the models written as a chain of `IF`.

**Only model-checked.** Liveness under fairness is out of the prover's reach: `EveryRunAnswers`, `EveryCallAnswers`,
`ApplyHoldsUpNobody`, `ShutsDown`, and of `ImplementsFairExecutor` the fairness (its safety part is `SystemExecutes`). The two properties that runs
show violated are in section 6.

## 5. Plan

Done: executor, control service, adapter, their composition, servers, configuration, smoke runner, and the proofs above. Left:

1. *Abstract gate*: what preview and apply promise together (propose, confirm, perform) as a specification
   of its own, implemented by `ControlService`. The three properties of `gate` say it piecewise today.
2. *Executor refined*: what an apply promises (each operation done at most once per target and answered in order)
   as an abstract specification that `MutationExecutor` implements.

## 6. Disagreements of code and repository

`executor_once`. The idempotency oracle (`test/oracle-fixtures.test.ts`, ORC-FX-011, "supports idempotency")
applies a request twice and expects the keyed operation to have reached the adapter once. It awaits the first
apply before the second. When both are in flight, both look up the registry before either has an answer, and both
send: TLC finds it in a few steps. What does hold, and is proved, is
`NoRepeatAfterSuccess`: once a success has been recorded, the operation is not sent again until a restart.

`smoke`. `docs/scn-020-manual-smoke.md` expects CASE-03 to be `FAILED` for want of the scope `__missing_scope__`, and
gives the shape of an auth file without scopes. A credential that lists no scopes is not checked for any
(`findMissingScopes` returns nothing), so with that file the case is sent to Appwrite and reported as whatever
comes back.

## 7. Not modelled

- Text: redaction, error messages, summaries, risk labels, tool descriptors. They change nothing the properties
  speak of; redaction is rewriting by regular expression, which TLC has no use for.
- zod's field by field validation: a request that fails it is refused before anything else happens. What the
  schemas decide that matters later, the need for targets or a selector, is modelled.
- Growth of plan store, registry and log: the code never prunes them, so there is no limit to state.
- The `domain` of an operation, which nothing but the plan hash reads: the code refuses an apply
  that differs from its plan in the domain alone, the model lets it in and sends the same work.
- Three behaviours that are modelled, and that properties have to make an exception for because the
  repository promises nothing else: a keyed POST that timed out after taking effect is repeated by the retry (the key is not sent
  to Appwrite), which `EffectsInOrder` and `EffectsAreReported` name; an unclear status is reported as a final failure
  although Appwrite may have acted, which `FinalFailureUntouched` and `EffectsAreReported` name; and the deprecated
  `auth.users.update` sends only the first of several fields.
