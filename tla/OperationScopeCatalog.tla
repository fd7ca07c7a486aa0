------------------------ MODULE OperationScopeCatalog ------------------------
(***************************************************************************)
(* The actions a client may ask for and the scopes each one needs          *)
(* (src/core/operation-scope-catalog.ts, the enum of mutation-schemas.ts). *)
(* An action is kept as the string of the source because its prefix        *)
(* decides which credential is used and which domain it belongs to.        *)
(***************************************************************************)

ProjectActions == {"project.create", "project.delete"}

DatabaseReads == {"database.list"}

DatabaseWrites == {"database.create", "database.upsert_collection",
                   "database.delete_collection"}

AuthReads == {"auth.users.list"}

LegacyAuthUpdate == "auth.users.update"

AuthWrites == {"auth.users.create", "auth.users.update.email",
               "auth.users.update.name", "auth.users.update.status",
               "auth.users.update.password", "auth.users.update.phone",
               "auth.users.update.email_verification",
               "auth.users.update.phone_verification",
               "auth.users.update.mfa", "auth.users.update.labels",
               "auth.users.update.prefs", LegacyAuthUpdate}

FunctionReads == {"function.list"}

\* function.execution.status is catalogued under functions.write.
FunctionWrites == {"function.create", "function.update",
                   "function.deployment.trigger", "function.execution.trigger",
                   "function.execution.status"}

OperationAction == ProjectActions \cup DatabaseReads \cup DatabaseWrites
                   \cup AuthReads \cup AuthWrites
                   \cup FunctionReads \cup FunctionWrites

ActionRequiredScopes ==
    [a \in OperationAction |->
        CASE a \in ProjectActions -> {"projects.write"}
          [] a \in DatabaseReads  -> {"databases.read"}
          [] a \in DatabaseWrites -> {"databases.write"}
          [] a \in AuthReads      -> {"users.read"}
          [] a \in AuthWrites     -> {"users.write"}
          [] a \in FunctionReads  -> {"functions.read"}
          [] a \in FunctionWrites -> {"functions.write"}]

\* Every operation gets the catalogued scopes on top of those the client names.
WithInferredRequiredScopes(operations) ==
    [i \in DOMAIN operations |->
        [operations[i] EXCEPT
            !.required_scopes = ActionRequiredScopes[operations[i].action] \cup @]]

=============================================================================
