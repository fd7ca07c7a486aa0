--------------------------- MODULE MCApplyOverHttp ---------------------------
(* Small instances of ApplyOverHttp for TLC. *)
EXTENDS ApplyOverHttp, TLC

CONSTANTS c1, c2, pA

Op(id, action, params, key) ==
    [operation_id |-> id, action |-> action, params |-> params,
     required_scopes |-> ActionRequiredScopes[action],
     destructive |-> FALSE, critical |-> FALSE, idempotency_key |-> key]

create == Op("op-create", "database.create", {"name"}, NoKey)
createKeyed == Op("op-keyed", "database.create", {"name"}, "k1")
list == Op("op-list", "database.list", {}, NoKey)
drop == Op("op-drop", "database.delete_collection", {"database_id"}, NoKey)

MCOperations == {create, createKeyed, list, drop}

Job(operations) ==
    [actor |-> "alice", operations |-> operations,
     targets |-> <<pA>>, plan_targets |-> <<pA>>]

\* Writes whose order matters, with a keyed one before and after, the same key twice; a
\* write the adapter refuses to send, for it lacks a param, before a read.
MCJobs ==
    {Job(<<create, createKeyed, create>>), Job(<<createKeyed, createKeyed>>),
     Job(<<drop, list>>)}

\* The same keyed operation in two applies, and an unkeyed one.
MCSharedKey == {Job(<<create, createKeyed>>), Job(<<createKeyed>>), Job(<<drop>>)}

Symm == Permutations(Correlations)

MCProjectAuthContexts == pA :> [api_key |-> "keyA", scopes |-> {}]
=============================================================================
