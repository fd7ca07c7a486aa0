------------------------- MODULE MCMutationExecutor -------------------------
(* Small instances of MutationExecutor for TLC. *)
EXTENDS MutationExecutor, TLC

CONSTANTS c1, c2, c3,   \* applies in flight
          pA, pB, pX    \* projects; pX has no credential

Op(id, action, params, key) ==
    [operation_id |-> id, action |-> action, params |-> params,
     required_scopes |-> ActionRequiredScopes[action],
     destructive |-> FALSE, critical |-> FALSE, idempotency_key |-> key]

create == Op("op-create", "database.create", "x", "k1")
createAgain == Op("op-again", "database.create", "y", "k1")  \* the key used again
upsert == Op("op-upsert", "database.upsert_collection", "x", "k1")
users == Op("op-users", "auth.users.list", "x", NoKey)      \* pB lacks the scope
drop == Op("op-drop", "project.delete", "x", NoKey)
dropMore == [Op("op-more", "project.delete", "y", NoKey)    \* management lacks a scope
             EXCEPT !.required_scopes = @ \cup {"users.read"}]

MCOperations == {create, createAgain, upsert, users, drop, dropMore}

Job(operations, targets) ==
    [actor |-> "alice", operations |-> operations,
     targets |-> targets, plan_targets |-> targets]

\* The same target twice, a target without credential first, in the middle and last,
\* a key shared by two operations, by two actions and by two applies.
MCJobs ==
    {Job(<<create>>, <<pA, pA>>),
     Job(<<createAgain, upsert>>, <<pA>>),
     Job(<<users, create>>, <<pX, pB, pX>>),
     Job(<<drop, dropMore>>, <<pA>>)}

MCProjectAuthContexts ==
    (pA :> [api_key |-> "keyA", scopes |-> {}]) @@
    (pB :> [api_key |-> "keyB", scopes |-> {"databases.write"}])

\* What the builder hands over beside per-project credentials: the first of them.
MCFallback == MCProjectAuthContexts[pA]

MCManagement == [api_key |-> "keyM", scopes |-> {"projects.write", "databases.write"}]

Symm == Permutations(Correlations)
=============================================================================
