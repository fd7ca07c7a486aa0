-------------------------- MODULE MCControlService --------------------------
(* Small instances of ControlService for TLC. *)
EXTENDS ControlService, TLC

CONSTANTS c1, c2, p1, p2, pA, pB, aA

Op(id, action, params, key) ==
    [operation_id |-> id, action |-> action, params |-> params,
     required_scopes |-> {}, destructive |-> FALSE, critical |-> FALSE,
     idempotency_key |-> key]

write == Op("op-write", "database.create", "x", "k1")
writeOther == Op("op-write", "database.create", "y", "k1")
wipe == Op("op-wipe", "database.delete_collection", "x", NoKey)
legacy == Op("op-legacy", LegacyAuthUpdate, "x", NoKey)

ById(p) == [project_id |-> p, alias |-> Absent]
ByAlias(a) == [project_id |-> Absent, alias |-> a]

Request(targets, selector, operations) ==
    [actor |-> "alice", targets |-> targets, target_selector |-> selector,
     operations |-> operations, transport |-> Absent]

\* The same work named in three ways, work that differs in a parameter, work that is
\* critical because of its two targets, and requests that never get past preparation.
MCRequests ==
    {Request(<<ByAlias(aA)>>, NoSelector, <<write>>),
     Request(<<>>, [mode |-> "project_id", values |-> <<pA, Blank, pA>>], <<write>>),
     Request(<<ById(pA)>>, NoSelector, <<writeOther>>),
     Request(<<>>, [mode |-> "auto", values |-> <<>>], <<wipe>>),
     Request(<<ByAlias(pA)>>, NoSelector, <<write>>),
     Request(<<>>, NoSelector, <<write>>),
     Request(<<ById(pA)>>, NoSelector, <<legacy>>)}

\* Those of them that get past preparation.
MCPreparedRequests == {r \in MCRequests : PreparationError(r) = "none"}

Normal(request) == NormalizeRequestOperations(request)

MCOperations == UNION {{Normal(r)[i] : i \in DOMAIN r.operations} : r \in MCRequests}

MCJobs ==
    {[actor |-> "alice", operations |-> Normal(r), targets |-> targets,
      plan_targets |-> targets] : r \in MCRequests, targets \in {<<pA>>, <<pA, pB>>}}

\* Without per-project credentials: scopes the global credential has, lacks, and has in
\* part; a project action it has the scope for and the management credential has not.
users == Op("op-users", "auth.users.list", "x", NoKey)
newProject == [Op("op-create", "project.create", "x", NoKey)
              EXCEPT !.required_scopes = {"databases.write"}]

MCSingleRequests ==
    {Request(<<ById(pA), ById(pB)>>, NoSelector, operations) :
        operations \in {<<write>>, <<users>>, <<write, users>>, <<newProject, write>>}}

MCSingleOperations ==
    UNION {{Normal(r)[i] : i \in DOMAIN r.operations} : r \in MCSingleRequests}

MCSingleJobs ==
    {[actor |-> "alice", operations |-> Normal(r), targets |-> <<pA, pB>>,
      plan_targets |-> <<pA, pB>>] : r \in MCSingleRequests}

MCNoProjects == <<>>

MCGlobal == [api_key |-> "keyG", scopes |-> {"databases.write", "projects.write"}]

MCManagement == [api_key |-> "keyM", scopes |-> {"projects.write"}]

MCProjectAuthContexts ==
    (pA :> [api_key |-> "keyA", scopes |-> {}]) @@
    (pB :> [api_key |-> "keyB", scopes |-> {"databases.write"}])

MCAliasMap == aA :> pA

MCKnown == <<pA, pB>>

MCSecrets == <<"s", "s">>

MCOneSecret == <<"s">>

PlanSymm == Permutations(PlanIds)

Symm == Permutations(Correlations) \cup Permutations(PlanIds)
=============================================================================
