---------------------------- MODULE TargetResolver ----------------------------
(***************************************************************************)
(* From what a client says about targets to an ordered list of project ids *)
(* (src/core/target-resolver.ts).  A target is [project_id, alias], with   *)
(* Absent for a field left out; a selector is [mode, values], where values *)
(* is the source's [value, ...values], trimmed, and Blank is the empty     *)
(* string.  A missing mode is "auto".                                      *)
(***************************************************************************)
EXTENDS Naturals, Sequences

CONSTANTS
    AliasMap,               \* alias -> project id
    KnownProjectIds,        \* in the order of the configuration
    AutoTargetProjectIds,   \* defaults.auto_target_project_ids
    DefaultTargetSelector,  \* defaults.target_selector, or NoSelector
    NoSelector, Absent, Blank

Found(targets) == [code |-> "none", targets |-> targets]

Unresolved(code) == [code |-> code, targets |-> <<>>]

\* External: filter.  Of the elements of s those at the positions in kept, in their order.
KeptUpTo(s, kept) ==
    LET upTo[n \in 0..Len(s)] ==
          IF n = 0 THEN <<>>
          ELSE IF n \in kept THEN Append(upTo[n - 1], s[n]) ELSE upTo[n - 1]
    IN  upTo

Kept(s, kept) == KeptUpTo(s, kept)[Len(s)]

\* What is not among the values before it.
UniqueOrdered(values) ==
    Kept(values, {i \in DOMAIN values : \A j \in 1..(i - 1) : values[j] # values[i]})

EnsureNotEmpty(values) ==
    IF values = <<>> THEN Unresolved("TARGET_NOT_FOUND") ELSE Found(values)

SelectorValues(selector) ==
    LET values == selector.values
    IN  UniqueOrdered(Kept(values, {i \in DOMAIN values : values[i] # Blank}))

ResolveFromAuto ==
    IF AutoTargetProjectIds # <<>> THEN Found(UniqueOrdered(AutoTargetProjectIds))
    ELSE IF Len(KnownProjectIds) = 1 THEN Found(KnownProjectIds)
    ELSE Unresolved("TARGET_AMBIGUOUS")

\* An alias of the project with the empty id leads nowhere.
NamesProject(alias) == alias \in DOMAIN AliasMap /\ AliasMap[alias] # Blank

Projects(aliases) ==
    LET known == Kept(aliases, {i \in DOMAIN aliases : NamesProject(aliases[i])})
    IN  [i \in DOMAIN known |-> AliasMap[known[i]]]

\* Mutant: duplicates are dropped before aliases are mapped, not after.
DealiasDistinct(aliases) == Projects(UniqueOrdered(aliases))

\* Aliases are mapped before duplicates are dropped: two aliases of a project give one.
Dealias(aliases) == UniqueOrdered(Projects(aliases))

KnownAmong(values) ==
    Kept(values, {i \in DOMAIN values :
                    \E k \in DOMAIN KnownProjectIds : KnownProjectIds[k] = values[i]})

ResolveFromSelector(selector) ==
    LET values == SelectorValues(selector)
    IN  CASE selector.mode = "auto" -> ResolveFromAuto
          [] selector.mode # "auto" /\ values = <<>> -> Unresolved("VALIDATION_ERROR")
          [] selector.mode = "project_id" /\ values # <<>> ->
               EnsureNotEmpty(KnownAmong(values))
          [] selector.mode = "alias" /\ values # <<>> ->
               EnsureNotEmpty(Dealias(values))

ResolvableTarget(target) ==
    target.project_id # Absent \/ NamesProject(target.alias)

\* Explicit targets are taken as they come: repeated ones stay, unknown ids too.
Resolve(targets) ==
    IF \A i \in DOMAIN targets : ResolvableTarget(targets[i])
    THEN Found([i \in DOMAIN targets |->
                  IF targets[i].project_id # Absent THEN targets[i].project_id
                  ELSE AliasMap[targets[i].alias]])
    ELSE Unresolved("TARGET_NOT_FOUND")

ResolveRequest(targets, target_selector) ==
    LET selector == IF target_selector # NoSelector THEN target_selector
                    ELSE DefaultTargetSelector
    IN  CASE targets # <<>> -> Resolve(targets)
          [] targets = <<>> /\ selector # NoSelector -> ResolveFromSelector(selector)
          [] targets = <<>> /\ selector = NoSelector -> ResolveFromAuto
=============================================================================
