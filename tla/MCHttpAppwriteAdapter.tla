------------------------ MODULE MCHttpAppwriteAdapter ------------------------
(* A small instance of HttpAppwriteAdapter for TLC: one call, for every action. *)
EXTENDS HttpAppwriteAdapter

CONSTANTS i1    \* the call

Action(action, params, keyed) ==
    [action |-> action, params |-> params, keyed |-> keyed]

\* One params object with every name the code reads, and ones that lack a name.
AllParams ==
    {"projectId", "teamId", "name", "database_id", "collection_id", "user_id", "email",
     "status", "password", "phone", "emailVerification", "phoneVerification", "mfa",
     "labels", "prefs", "function_id", "execution_id", "code"}

MCParams ==
    {AllParams, AllParams \ {"collection_id", "name", "code", "prefs"},
     {"user_id", "name", "labels"}}

MCInputs ==
    {[operation |-> Action(a, p, k), credentials |-> "usable"] :
        a \in OperationAction, p \in MCParams, k \in BOOLEAN}
    \cup
    {[operation |-> Action("database.create", AllParams, k), credentials |-> c] :
        c \in {"incomplete", "malformed"}, k \in BOOLEAN}
=============================================================================
