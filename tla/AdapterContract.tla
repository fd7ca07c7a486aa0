--------------------------- MODULE AdapterContract ---------------------------
(***************************************************************************)
(* What an AppwriteAdapter (src/core/appwrite-adapter.ts) promises the     *)
(* executor that awaits executeOperation: the call is answered once; a     *)
(* success means the operation was carried out; an operation that is       *)
(* neither a read nor keyed is carried out at most once; and when such an  *)
(* operation is refused, by Appwrite or before it was sent, it is not      *)
(* carried out at all.  Appwrite may still carry out an operation after    *)
(* its call has failed: the caller stopped listening, the request did not  *)
(* stop.                                                                   *)
(***************************************************************************)
EXTENDS Naturals

CONSTANTS
    Invocations,    \* calls of executeOperation
    Operations,     \* what they may ask for
    Once(_),        \* the operations that must not be carried out twice
    MaxTimes,       \* how often one of the others may be carried out
    NoOperation

VARIABLES
    asked,          \* the operation of each call
    answers,        \* "none", "open", "ok", "refused" or "failed"
    times           \* how often Appwrite has carried the operation out

contractVars == <<asked, answers, times>>

Limit(operation) == IF Once(operation) THEN 1 ELSE MaxTimes

Ask(i, operation) ==
    /\ answers[i] = "none"
    /\ asked' = [asked EXCEPT ![i] = operation]
    /\ answers' = [answers EXCEPT ![i] = "open"]
    /\ UNCHANGED times

\* Answered at once, nothing having been sent.
Decline(i, operation, answer) ==
    /\ answers[i] = "none"
    /\ asked' = [asked EXCEPT ![i] = operation]
    /\ answers' = [answers EXCEPT ![i] = answer]
    /\ UNCHANGED times

CarryOut(i) ==
    /\ answers[i] # "none"
    /\ times[i] < Limit(asked[i])
    /\ ~ (Once(asked[i]) /\ answers[i] = "refused")
    /\ times' = [times EXCEPT ![i] = @ + 1]
    /\ UNCHANGED <<asked, answers>>

Answer(i, answer) ==
    /\ answers[i] = "open"
    /\ answer = "ok" => times[i] > 0
    /\ answer = "refused" => ~ Once(asked[i]) \/ times[i] = 0
    /\ answers' = [answers EXCEPT ![i] = answer]
    /\ UNCHANGED <<asked, times>>

ContractInit ==
    /\ asked = [i \in Invocations |-> NoOperation]
    /\ answers = [i \in Invocations |-> "none"]
    /\ times = [i \in Invocations |-> 0]

ContractNext ==
    \E i \in Invocations :
        \/ \E operation \in Operations : Ask(i, operation)
        \/ \E operation \in Operations, answer \in {"refused", "failed"} :
              Decline(i, operation, answer)
        \/ CarryOut(i)
        \/ \E answer \in {"ok", "refused", "failed"} : Answer(i, answer)

ContractSpec == ContractInit /\ [][ContractNext]_contractVars
=============================================================================
