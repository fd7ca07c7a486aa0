-------------------------- MODULE AppwriteRequests --------------------------
(***************************************************************************)
(* From an operation to the HTTP request Appwrite gets for it              *)
(* (buildRequest in src/adapters/http-appwrite-adapter.ts).  The params of *)
(* an operation are the set of the names under which it has a value of the *)
(* type the code tests for; a request is its method, its path, the params  *)
(* its body or query is made of and whether it names the project.          *)
(***************************************************************************)
EXTENDS OperationScopeCatalog, Naturals, Sequences

Request(method, path, sent) ==
    [method |-> method, path |-> path, sent |-> sent, project_header |-> TRUE]

\* The endpoints that update one field of a user, in the order the code tries them.
UserUpdate(action, field, method, path) ==
    [action |-> action, field |-> field, method |-> method, path |-> path]

UserUpdates ==
    <<UserUpdate("auth.users.update.email", "email", "PATCH", <<"email">>),
      UserUpdate("auth.users.update.name", "name", "PATCH", <<"name">>),
      UserUpdate("auth.users.update.status", "status", "PATCH", <<"status">>),
      UserUpdate("auth.users.update.password", "password", "PATCH", <<"password">>),
      UserUpdate("auth.users.update.phone", "phone", "PATCH", <<"phone">>),
      UserUpdate("auth.users.update.email_verification", "emailVerification", "PATCH",
                 <<"verification">>),
      UserUpdate("auth.users.update.phone_verification", "phoneVerification", "PATCH",
                 <<"verification", "phone">>),
      UserUpdate("auth.users.update.mfa", "mfa", "PATCH", <<"mfa">>),
      UserUpdate("auth.users.update.labels", "labels", "PUT", <<"labels">>),
      UserUpdate("auth.users.update.prefs", "prefs", "PATCH", <<"prefs">>)>>

\* The places of the updates an operation may be, of those it has the field for.
UserUpdatesAsked(operation) ==
    {n \in DOMAIN UserUpdates :
        /\ operation.action \in {UserUpdates[n].action, LegacyAuthUpdate}
        /\ UserUpdates[n].field \in operation.params}

FirstUserUpdate(operation) ==
    UserUpdates[CHOOSE n \in UserUpdatesAsked(operation) :
                    \A m \in UserUpdatesAsked(operation) : n <= m]

\* The names one of which must be among the params.
RequiredParams(action) ==
    CASE action = "project.create" ->
           {{"projectId", "project_id"}, {"teamId", "team_id"}, {"name"}}
      [] action = "project.delete" -> {{"projectId", "project_id", "delete_project_id"}}
      [] action = "database.upsert_collection" -> {{"database_id"}}
      [] action = "database.delete_collection" -> {{"database_id"}, {"collection_id"}}
      [] action \in AuthWrites \ {"auth.users.create"} -> {{"user_id"}}
      [] action \in {"function.update", "function.execution.trigger"} -> {{"function_id"}}
      [] action = "function.deployment.trigger" -> {{"function_id"}, {"code"}}
      [] action = "function.execution.status" -> {{"function_id"}, {"execution_id"}}
      [] OTHER -> {}

\* Everything else is a VALIDATION_ERROR thrown before anything is sent.
Buildable(operation) ==
    /\ \A names \in RequiredParams(operation.action) : names \cap operation.params # {}
    /\ operation.action \in AuthWrites \ {"auth.users.create"} =>
         UserUpdatesAsked(operation) # {}

DeploymentParams == {"code", "activate", "entrypoint", "commands"}

BuildRequest(operation) ==
    LET action == operation.action
        params == operation.params
        update == FirstUserUpdate(operation)
    IN  CASE action = "project.create" ->
               [Request("POST", <<"projects">>, params) EXCEPT !.project_header = FALSE]
          [] action = "project.delete" ->
               [Request("DELETE", <<"projects", "{projectId}">>, {})
                    EXCEPT !.project_header = FALSE]
          [] action = "database.list" -> Request("GET", <<"databases">>, params)
          [] action = "database.create" -> Request("POST", <<"databases">>, params)
          [] action = "database.upsert_collection" /\ "collection_id" \in params ->
               Request("PUT", <<"databases", "{databaseId}", "collections",
                                "{collectionId}">>, params)
          [] action = "database.upsert_collection" /\ "collection_id" \notin params ->
               Request("POST", <<"databases", "{databaseId}", "collections">>, params)
          [] action = "database.delete_collection" ->
               Request("DELETE", <<"databases", "{databaseId}", "collections",
                                   "{collectionId}">>, {})
          [] action = "auth.users.list" -> Request("GET", <<"users">>, params)
          [] action = "auth.users.create" -> Request("POST", <<"users">>, params)
          [] action \in AuthWrites \ {"auth.users.create"} ->
               Request(update.method, <<"users", "{userId}">> \o update.path, {update.field})
          [] action = "function.list" -> Request("GET", <<"functions">>, params)
          [] action = "function.create" -> Request("POST", <<"functions">>, params)
          [] action = "function.update" ->
               Request("PUT", <<"functions", "{functionId}">>, params)
          [] action = "function.deployment.trigger" ->
               Request("POST", <<"functions", "{functionId}", "deployments">>,
                       (params \cap DeploymentParams) \cup {"activate"})
          [] action = "function.execution.trigger" ->
               Request("POST", <<"functions", "{functionId}", "executions">>, params)
          [] action = "function.execution.status" ->
               Request("GET", <<"functions", "{functionId}", "executions",
                                "{executionId}">>, {})
=============================================================================
