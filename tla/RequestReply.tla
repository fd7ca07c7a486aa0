----------------------------- MODULE RequestReply -----------------------------
(***************************************************************************)
(* What a client of the server may count on, over either transport: a      *)
(* request gets one reply at the most, after it was received, of a kind    *)
(* that fits it, and the reply stays as it is.                             *)
(***************************************************************************)
CONSTANTS
    Clients,        \* one for each request
    Requests,       \* what may be asked
    Fits(_, _),     \* whether a reply fits a request
    NoRequest, NoReply

VARIABLES
    asked,          \* the request of each client
    told            \* the reply it got

requestVars == <<asked, told>>

Ask(c) ==
    /\ asked[c] = NoRequest
    /\ \E request \in Requests : asked' = [asked EXCEPT ![c] = request]

Tell(c) ==
    /\ told[c] = NoReply /\ told'[c] # NoReply
    /\ told' = [told EXCEPT ![c] = told'[c]]
    /\ asked'[c] # NoRequest
    /\ Fits(asked'[c], told'[c])

RequestInit ==
    /\ asked = [c \in Clients |-> NoRequest]
    /\ told = [c \in Clients |-> NoReply]

\* A request may be turned down as soon as it is read.
RequestNext ==
    \E c \in Clients :
        \/ Ask(c) /\ UNCHANGED told
        \/ Tell(c) /\ UNCHANGED asked
        \/ Ask(c) /\ Tell(c)

RequestSpec == RequestInit /\ [][RequestNext]_requestVars
=============================================================================
