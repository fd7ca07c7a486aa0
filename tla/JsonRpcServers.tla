---------------------------- MODULE JsonRpcServers ----------------------------
(***************************************************************************)
(* A process with one of the two servers, as src/index.ts starts it, or a  *)
(* program that embeds the HTTP server and calls start() and stop() as it  *)
(* likes.  To the client they are one thing: RequestReply.                 *)
(***************************************************************************)
EXTENDS StdioJsonRpcServer, StreamableHttpJsonRpcServer

CONSTANTS
    NoLines,        \* an input without lines
    MaxClients,     \* bound: lines of stdin, or requests over HTTP
    NoRequest

VARIABLES transport

serversVars == <<stdioVars, httpVars, served, transport>>

LineMessages == UNION {{lines[n] : n \in DOMAIN lines} : lines \in Inputs}

Ids ==
    {NullId} \cup {line.id : line \in LineMessages}
             \cup {request.message.id : request \in HttpRequests}

\* What the router may reply, and what goes out as a response to it.
Replies ==
    [id : Ids, code : {0, -32700, -32600, -32601, -32603},
     status : {"none", "SUCCESS", "PARTIAL_SUCCESS", "FAILED"}]

HttpReplies == [status : {200, 400, 404, 405}, json : Replies \cup {NoReply}]

ASSUME ClientsAssumption ==
    /\ MaxClients \in Nat /\ MaxRequests \in 0..MaxClients /\ MaxBodyUnits \in Nat
    /\ \A lines \in Inputs : lines \in Seq(LineMessages) /\ Len(lines) <= MaxClients
    /\ \A request \in HttpRequests : request.length \in Nat
    /\ LineMessages \cap HttpRequests = {}
    /\ NoRequest \notin LineMessages \cup HttpRequests
    /\ NoReply \notin Replies \cup HttpReplies
    /\ BadParams \notin Tools

ServersInit ==
    /\ transport \in {"stdio", "streamable-http"}
    /\ served = <<>>
    /\ StdioInit /\ (transport = "streamable-http" => input = NoLines)
    /\ HttpInit

ServersNext ==
    \/ transport = "stdio" /\ StdioNext /\ UNCHANGED <<httpVars, transport>>
    \/ transport = "streamable-http" /\ HttpNext /\ UNCHANGED <<stdioVars, transport>>

ServersSpec == ServersInit /\ [][ServersNext]_serversVars

Stdio(A) == transport = "stdio" /\ A /\ UNCHANGED <<httpVars, transport>>

OverHttp(A) == transport = "streamable-http" /\ A /\ UNCHANGED <<stdioVars, transport>>

\* Lines that were typed are read, promises go on, bodies come to their end or break off,
\* binding and closing come to an end, and Node exits when it has nothing to do.  Not that
\* an apply ends, nor that anybody closes stdin or calls start() or stop().
Fairness ==
    /\ WF_serversVars(\E n \in Lines : Stdio(OnLine(n)))
    /\ WF_serversVars(\E n \in Lines : Stdio(Write(n)))
    /\ WF_serversVars(Stdio(Exit))
    /\ WF_serversVars(\E c \in DOMAIN requests : OverHttp(AfterBody(c) \/ WriteJson(c)))
    /\ WF_serversVars(\E c \in DOMAIN requests : OverHttp(OnData(c) \/ OnEnd(c)))
    /\ WF_serversVars(\E s \in DOMAIN listeners : OverHttp(OnError(s) \/ OnListening(s)))
    /\ WF_serversVars(\E s \in DOMAIN listeners : OverHttp(Closed(s)))

FairServersSpec == ServersSpec /\ Fairness

-----------------------------------------------------------------------------
(* Properties *)

\* A tool call reaches the control service when its line is read, whatever waits for its
\* reply, so those of stdin do in the order of the lines; over HTTP only what came by POST
\* to the path and with its whole body, within the limit (onLine and onRequest up to the
\* router, readBody).
ServedAsReceived ==
    /\ transport = "stdio" =>
         /\ {served[k] : k \in DOMAIN served} =
               {n \in 1..read : input[n].form = "request" /\ CallsTool(input[n])}
         /\ \A j, k \in DOMAIN served : j < k => served[j] < served[k]
    /\ transport = "streamable-http" =>
         /\ \A k \in DOMAIN served :
              LET r == requests[served[k]]
              IN  /\ r.request.path = "/mcp" /\ r.request.method = "POST"
                  /\ r.request.length <= MaxBodyUnits
                  /\ r.bytes = r.request.length
         /\ \A j, k \in DOMAIN served : served[j] = served[k] => j = k

Clients == 1..MaxClients

\* What was asked and what was told, the same for both transports.
Asked ==
    [c \in Clients |->
        CASE transport = "stdio" /\ c <= read -> input[c]
          [] c \in DOMAIN requests -> requests[c].request
          [] OTHER -> NoRequest]

Told ==
    [c \in Clients |->
        CASE \E k \in DOMAIN output : output[k].line = c ->
               output[CHOOSE k \in DOMAIN output : output[k].line = c].reply
          [] c \in DOMAIN requests /\ requests[c].phase = "answered" -> requests[c].reply
          [] OTHER -> NoReply]

\* HTTP says by the status whose fault it was; what reaches the parser is answered in
\* JSON-RPC.
FitsHttp(request, reply) ==
    CASE request.path # "/mcp" -> reply.status = 404 /\ reply.json = NoReply
      [] request.path = "/mcp" /\ request.method # "POST" ->
           reply.status = 405 /\ reply.json = NoReply
      [] OTHER ->
           /\ request.length <= MaxBodyUnits
           /\ reply.status = 400 <=> request.message.form \in {"unparsable", "invalid"}
           /\ reply.status \in {200, 400} /\ reply.json # NoReply
           /\ FitsMessage(request.message, reply.json)

Fits(request, reply) ==
    IF request \in HttpRequests THEN FitsHttp(request, reply) ELSE FitsMessage(request, reply)

Contract == INSTANCE RequestReply WITH
    Requests <- LineMessages \cup HttpRequests,
    asked <- Asked,
    told <- Told

\* Over both transports a request gets one reply at the most, its own and of the kind its
\* form calls for; a line of stdin gets one on the output and no line gets two (write,
\* writeJson, writeError, handle).
ImplementsRequestReply ==
    /\ Contract!RequestSpec
    /\ [](\A j, k \in DOMAIN output : output[j].line = output[k].line => j = k)

\* A start() that is fulfilled means that the server listens, unless an earlier start() of
\* the same server failed, or waits, or the server was stopped since (start, onError).
StartTellsTheTruth ==
    [][\A k \in DOMAIN starts' :
          LET s == starts'[k].server
          IN  /\ starts'[k].phase = "resolved"
              /\ k \in DOMAIN starts => starts[k].phase # "resolved"
              => \/ listeners'[s] = "listening"
                 \/ \E j \in 1..(k - 1) : starts[j] \in [phase : {"pending", "rejected"},
                                                         server : {s}]
      ]_serversVars

\* A server that listens is the one stop() closes, unless stop() was called before it
\* listened; that one can no longer be closed, and its stop() said so (stop).
ListenersAreHeld ==
    \A s \in DOMAIN listeners : listeners[s] = "listening" =>
        \/ server = s
        \/ \E k \in DOMAIN stops : stops[k] = [phase |-> "rejected", server |-> s]

Applying ==
    \/ \E n \in Lines : handlers[n].phase = "applying"
    \/ \E c \in DOMAIN requests : requests[c].phase = "applying"

\* An apply that takes as long as it likes holds up the reply of no other request: all
\* that is received and is no such apply is answered, over both transports (onLine is not
\* awaited, the body is read with listeners).
ApplyHoldsUpNobody ==
    []<>(/\ \A n \in Lines : n <= read => handlers[n].phase \in {"done", "applying"}
         /\ \A c \in DOMAIN requests : requests[c].phase \in {"applying", "answered"})

\* Once applies have ended, the process exits after stdin was closed, and every call of
\* start() and of stop() is settled (the comment "server exits naturally" in start; onError,
\* server.close).  That requests are answered is ApplyHoldsUpNobody and the guard of Exit.
ShutsDown ==
    <>[](~ Applying) =>
        /\ []<>(process # "closed")
        /\ []<>(\A k \in DOMAIN starts : starts[k].phase # "pending")
        /\ []<>(\A k \in DOMAIN stops : stops[k].phase # "pending")
=============================================================================
