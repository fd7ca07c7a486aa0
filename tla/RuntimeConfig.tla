----------------------------- MODULE RuntimeConfig -----------------------------
(***************************************************************************)
(* From the environment, the arguments and the auth file to a service and  *)
(* a server (src/config/runtime-config.ts, main of src/index.ts), and from *)
(* there to the projects a request is for.  Environment and file are read  *)
(* once: buildAppwriteControlService first, resolveRuntimeServerConfig     *)
(* after it, each on its own reading of the transport; either may throw,   *)
(* which ends the process.                                                 *)
(*                                                                         *)
(* An environment is a record of values, Unset for a variable that is not  *)
(* there, Garbage for one without a number where a number is read.  An     *)
(* auth file is                                                            *)
(*   projects    in file order, [id, api_key, aliases, default_for_auto]   *)
(*   auto        defaults.auto_target_project_ids                          *)
(*   selector    defaults.target_selector, or NoSelector                   *)
(*   management  the management key, or Unset                              *)
(* or Unreadable: missing, no JSON, or refused by its schema.              *)
(*                                                                         *)
(* Abstracted: endpoints, scopes, paths, and ports but for their range.    *)
(***************************************************************************)
EXTENDS Integers, Sequences, Functions

CONSTANTS
    Environments, AuthFiles,    \* what a process may be started with
    Requests,                   \* [targets, target_selector, transport]
    Unset, Garbage, Unreadable, NoService, NoServer, NoReply,
    NoSelector, Absent, Blank   \* of TargetResolver

VARIABLES
    env, authFile,
    phase,      \* "starting", "built" (there is a service), "running", "exited"
    service,    \* the options of the control service
    transport,  \* the server's
    reply       \* to the last request: what it is for, or the error code

ASSUME AuthFilesAssumption ==
    \A file \in AuthFiles \ {Unreadable} :
        /\ file.projects \in Seq(Range(file.projects))
        /\ file.auto \in Seq(Range(file.auto))

ASSUME RequestsAssumption ==
    \A request \in Requests :
        LET selector == request.target_selector
        IN  /\ request.targets \in Seq(Range(request.targets))
            /\ selector # NoSelector =>
                 /\ selector.mode \in {"auto", "project_id", "alias"}
                 /\ selector.values \in Seq(Range(selector.values))

configVars == <<env, authFile, phase, service, transport, reply>>

Resolver == INSTANCE TargetResolver WITH
    AliasMap <- service.aliasMap,
    KnownProjectIds <- service.knownProjectIds,
    AutoTargetProjectIds <- service.autoTargetProjectIds,
    DefaultTargetSelector <- service.defaultTargetSelector

Or(value, fallback) == IF value = Unset THEN fallback ELSE value

UnsetOr(value, values) == value = Unset \/ value \in values

-----------------------------------------------------------------------------
(* The auth file *)

KnownIds(file) == [i \in DOMAIN file.projects |-> file.projects[i].id]

Entry(file, id) == CHOOSE p \in Range(file.projects) : p.id = id

\* An alias two projects claim is the later one's.
FileAliases(file) ==
    LET claims(alias) == {i \in DOMAIN file.projects : alias \in file.projects[i].aliases}
        last(alias) == CHOOSE i \in claims(alias) : \A j \in claims(alias) : j <= i
    IN  [alias \in UNION {p.aliases : p \in Range(file.projects)} |->
            file.projects[last(alias)].id]

AutoTargets(file) ==
    IF file.auto # <<>> THEN file.auto
    ELSE Resolver!Kept(KnownIds(file),
                       {i \in DOMAIN file.projects : file.projects[i].default_for_auto})

\* Mutant: the ids of defaults.auto_target_project_ids are taken as they come.
AnyAutoTargets(file) == file # Unreadable /\ file.projects # <<>>

\* What readProjectAuthFile gets past.
Loads(file) ==
    /\ file # Unreadable
    /\ file.projects # <<>>
    /\ Range(AutoTargets(file)) \subseteq Range(KnownIds(file))

-----------------------------------------------------------------------------
(* The environment *)

RequestedTransport(e) == Or(e.argument, e.transport)

\* Mutant: HTTP is never announced.
StdioOnly(e) == {"stdio"}

SupportedTransports(e) ==
    IF e.enable_http THEN {"stdio", "streamable-http"} ELSE {"stdio"}

SecretAccepted(e) == ~ (e.production /\ Or(e.secret, "default") = "default")

\* Bounds are checked on the values that will be used, the defaults included.
AdapterConfigAccepted(e) ==
    /\ UnsetOr(e.timeout_ms, Nat \ {0})
    /\ UnsetOr(e.max_retries, Nat)
    /\ UnsetOr(e.base_delay_ms, Nat \ {0})
    /\ UnsetOr(e.max_delay_ms, Nat \ {0})
    /\ Or(e.base_delay_ms, 100) <= Or(e.max_delay_ms, 2000)
    /\ UnsetOr(e.retry_status_codes, (SUBSET (100..599)) \ {{}})

\* Aliases of the environment win, and nobody asks whether their projects are known.
Aliases(e, file) ==
    [alias \in DOMAIN e.aliases \cup DOMAIN FileAliases(file) |->
        IF alias \in DOMAIN e.aliases THEN e.aliases[alias] ELSE FileAliases(file)[alias]]

\* Mutant: project management may be switched on without a key for it.
BuildableUnmanaged(e, file) ==
    Loads(file) /\ SecretAccepted(e) /\ AdapterConfigAccepted(e)

Buildable(e, file) ==
    /\ Loads(file)
    /\ e.enable_management => file.management # Unset
    /\ SecretAccepted(e)
    /\ AdapterConfigAccepted(e)

ServerConfigAccepted(e) ==
    LET selected == Or(RequestedTransport(e), "stdio")
    IN  /\ selected \in {"stdio", "streamable-http"}
        /\ selected = "streamable-http" =>
             /\ e.enable_http
             /\ UnsetOr(e.host, {"127.0.0.1", "localhost", "::1"}) \/ e.allow_remote
        /\ UnsetOr(e.port, 1..65535)

-----------------------------------------------------------------------------
(* The process *)

ServiceOptions(e, file) ==
    [projectAuthContexts |-> [id \in Range(KnownIds(file)) |-> Entry(file, id).api_key],
     managementAuthContext |-> file.management,
     projectManagementAvailable |-> e.enable_management,
     aliasMap |-> Aliases(e, file),
     knownProjectIds |-> KnownIds(file),
     autoTargetProjectIds |-> AutoTargets(file),
     defaultTargetSelector |-> file.selector,
     confirmationSecret |-> Or(e.secret, "default"),
     supportedTransports |-> SupportedTransports(e),
     requestedTransport |-> RequestedTransport(e),
     maxRetries |-> Or(e.max_retries, 2)]

BuildAppwriteControlService ==
    /\ phase = "starting"
    /\ IF Buildable(env, authFile)
       THEN phase' = "built" /\ service' = ServiceOptions(env, authFile)
       ELSE phase' = "exited" /\ UNCHANGED service
    /\ UNCHANGED <<env, authFile, transport, reply>>

ResolveRuntimeServerConfig ==
    /\ phase = "built"
    /\ IF ServerConfigAccepted(env)
       THEN phase' = "running" /\ transport' = Or(RequestedTransport(env), "stdio")
       ELSE phase' = "exited" /\ UNCHANGED transport
    /\ UNCHANGED <<env, authFile, service, reply>>

ParsesTargets(request) == request.targets # <<>> \/ request.target_selector # NoSelector

\* A request for no transport is for the one the process was asked to start.
TransportSupported(request) ==
    LET requested == IF request.transport # Absent THEN request.transport
                     ELSE Or(service.requestedTransport, "stdio")
    IN  requested \in service.supportedTransports

\* preview and apply up to the resolution of their targets.
Prepare(request) ==
    LET refused(code) == [request |-> request, code |-> code, targets |-> <<>>]
        resolved == Resolver!ResolveRequest(request.targets, request.target_selector)
    IN  /\ phase = "running"
        /\ reply' =
             CASE ~ ParsesTargets(request) -> refused("VALIDATION_ERROR")
               [] ParsesTargets(request) /\ ~ TransportSupported(request) ->
                    refused("CAPABILITY_UNAVAILABLE")
               [] OTHER -> [request |-> request, code |-> resolved.code,
                            targets |-> resolved.targets]
        /\ UNCHANGED <<env, authFile, phase, service, transport>>

Init ==
    /\ env \in Environments
    /\ authFile \in AuthFiles
    /\ phase = "starting"
    /\ service = NoService /\ transport = NoServer /\ reply = NoReply

Next ==
    \/ BuildAppwriteControlService
    \/ ResolveRuntimeServerConfig
    \/ \E request \in Requests : Prepare(request)

Spec == Init /\ [][Next]_configVars

-----------------------------------------------------------------------------
(* Properties *)

\* A process that runs serves requests that name no transport, and those that name its
\* own: the service's and the server's readings of arguments and environment agree
\* (supportedTransports, resolveRuntimeServerConfig, resolveTransport).
ServesItsOwnTransport ==
    reply # NoReply /\ reply.request.transport \in {Absent, transport} =>
        reply.code # "CAPABILITY_UNAVAILABLE"

\* What a process that runs was given is what executor and adapter are modelled with: a
\* credential for each known project, so that the fallback credential is never used; one
\* for project management where that is on; a secret that is not the default one in
\* production; at least one attempt for each request (MutationExecutor, ControlService,
\* HttpAppwriteAdapter).
StartsFitToServe ==
    phase = "running" =>
        /\ Range(service.knownProjectIds) = DOMAIN service.projectAuthContexts
        /\ service.projectAuthContexts # <<>>
        /\ service.projectManagementAvailable => service.managementAuthContext # Unset
        /\ env.production => service.confirmationSecret # "default"
        /\ service.maxRetries >= 0

LeadsToItsOwn(r) ==
    \A i \in DOMAIN r.targets :
        \/ r.targets[i] \in DOMAIN service.projectAuthContexts
        \/ \E t \in Range(r.request.targets) : t.project_id = r.targets[i]
        \/ r.targets[i] \in Range(env.aliases)

\* A request gets as far as a project without a credential only when it names the id of
\* that project itself, or an alias of the environment: auto targets, selectors by id and
\* the aliases of the file lead to projects of the file (readProjectAuthFile, aliasMap).
TargetsHaveCredentials == reply # NoReply => LeadsToItsOwn(reply)

NamesProject(alias) ==
    alias \in DOMAIN service.aliasMap /\ service.aliasMap[alias] # Blank

\* What a value of a selector stands for, none or one project.
Means(mode, value) ==
    IF value = Blank THEN {}
    ELSE IF mode = "project_id" THEN {value} \cap Range(service.knownProjectIds)
    ELSE IF NamesProject(value) THEN {service.aliasMap[value]} ELSE {}

\* The projects a selector stands for, value by value.
MeantBy(selector) ==
    IF selector.mode # "auto"
    THEN [i \in DOMAIN selector.values |-> Means(selector.mode, selector.values[i])]
    ELSE LET auto == IF service.autoTargetProjectIds # <<>> THEN service.autoTargetProjectIds
                     ELSE IF Len(service.knownProjectIds) = 1 THEN service.knownProjectIds
                     ELSE <<>>
         IN  [i \in DOMAIN auto |-> {auto[i]}]

FirstMention(meant, id) ==
    CHOOSE i \in DOMAIN meant : id \in meant[i] /\ \A j \in 1..(i - 1) : id \notin meant[j]

AnsweredAsNamed(r) ==
    r.code # "CAPABILITY_UNAVAILABLE" /\ ParsesTargets(r.request) =>
        IF r.request.targets # <<>>
        THEN LET known(t) == t.project_id # Absent \/ NamesProject(t.alias)
             IN  IF \A t \in Range(r.request.targets) : known(t)
                 THEN Len(r.targets) = Len(r.request.targets)
                 ELSE r.code = "TARGET_NOT_FOUND"
        ELSE LET meant == MeantBy(r.request.target_selector)
             IN  /\ Range(r.targets) = UNION Range(meant)
                 /\ r.code = "none" <=> UNION Range(meant) # {}
                 /\ \A i, j \in DOMAIN r.targets : i < j =>
                      FirstMention(meant, r.targets[i]) < FirstMention(meant, r.targets[j])

\* A selector that is accepted stands for each project it names once, in the order of first
\* mention, whichever of its names are used, and one that is refused names none; targets
\* are taken one by one.  defaults.target_selector has no say in either (resolveRequest).
ResolvesAsNamed == reply # NoReply => AnsweredAsNamed(reply)
=============================================================================
