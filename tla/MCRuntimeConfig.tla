---------------------------- MODULE MCRuntimeConfig ----------------------------
(* A small instance of RuntimeConfig for TLC. *)
EXTENDS RuntimeConfig, TLC

CONSTANTS pA, pB, pC, aA, aB

usual ==
    [argument |-> Unset, transport |-> Unset, enable_http |-> FALSE, allow_remote |-> FALSE,
     host |-> Unset, port |-> Unset, enable_management |-> FALSE, production |-> FALSE,
     secret |-> Unset, aliases |-> <<>>, timeout_ms |-> Unset, max_retries |-> Unset,
     base_delay_ms |-> Unset, max_delay_ms |-> Unset, retry_status_codes |-> Unset]

Transports == {Unset, "stdio", "streamable-http", "other"}

\* All that has a say in the server; all that has one in the service; the adapter's
\* numbers around their bounds and against each other's defaults.
MCEnvironments ==
    {[usual EXCEPT !.argument = argument, !.transport = name, !.enable_http = enable,
                   !.allow_remote = allow, !.host = host] :
        argument \in Transports, name \in Transports, enable \in BOOLEAN, allow \in BOOLEAN,
        host \in {Unset, "0.0.0.0"}}
    \cup {[usual EXCEPT !.port = port] : port \in {0, 1, 65535, 65536, Garbage}}
    \cup {[usual EXCEPT !.enable_management = enable, !.production = production,
                        !.secret = secret, !.aliases = aliases] :
             enable \in BOOLEAN, production \in BOOLEAN, secret \in {Unset, "default", "own"},
             aliases \in {<<>>, aA :> pB, aB :> pC}}
    \cup {[usual EXCEPT !.timeout_ms = timeout, !.max_retries = retries,
                        !.base_delay_ms = base, !.max_delay_ms = most,
                        !.retry_status_codes = codes] :
             timeout \in {0, 1}, retries \in {-1, 0, Garbage}, base \in {Unset, 0, 2001},
             most \in {Unset, 99, 2001}, codes \in {Unset, {}, {99}, {503}}}

Project(id, aliases, default_for_auto) ==
    [id |-> id, api_key |-> id, aliases |-> aliases, default_for_auto |-> default_for_auto]

AuthFile(projects, auto) ==
    [projects |-> projects, auto |-> auto, selector |-> NoSelector, management |-> Unset]

\* One project and two, no aliases, two of one project, one two projects claim; auto
\* targets by list, by flag and not at all, repeated and unknown; a default selector.
MCAuthFiles ==
    {Unreadable, AuthFile(<<>>, <<>>), AuthFile(<<Project(pA, {}, FALSE)>>, <<>>)}
    \cup {[AuthFile(<<Project(pA, {aA}, flag), Project(pB, aliases, FALSE)>>, auto)
             EXCEPT !.management = key, !.selector = selector] :
             flag \in BOOLEAN, aliases \in {{aB}, {aA, aB}},
             auto \in {<<>>, <<pB, pA, pB>>, <<pC>>}, key \in {Unset, "key"},
             selector \in {NoSelector, [mode |-> "project_id", values |-> <<pA>>]}}

ById(p) == [project_id |-> p, alias |-> Absent]
ByAlias(a) == [project_id |-> Absent, alias |-> a]

Selectors ==
    {[mode |-> "auto", values |-> <<>>]}
    \cup {[mode |-> "project_id", values |-> v] : v \in {<<pB, pA, pB>>, <<pC, pB>>, <<pC>>}}
    \cup {[mode |-> "alias", values |-> v] : v \in {<<aA, aB, aA>>, <<aB>>, <<pA>>, <<pA, aB>>}}

ARequest(targets, selector, name) ==
    [targets |-> targets, target_selector |-> selector, transport |-> name]

MCRequests ==
    {ARequest(<<>>, selector, Absent) : selector \in Selectors \cup {NoSelector}}
    \cup {ARequest(targets, NoSelector, Absent) :
             targets \in {<<ById(pA), ByAlias(aB), ById(pA)>>, <<ById(pC)>>, <<ByAlias(pA)>>}}
    \cup {ARequest(<<ById(pA)>>, NoSelector, name) : name \in {"stdio", "streamable-http"}}
=============================================================================
