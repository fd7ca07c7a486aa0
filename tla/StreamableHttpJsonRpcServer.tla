---------------------- MODULE StreamableHttpJsonRpcServer ----------------------
(***************************************************************************)
(* The server on HTTP (src/mcp/streamable-http-jsonrpc-server.ts): the     *)
(* life of the listener under start() and stop(), and that of a request.   *)
(*                                                                         *)
(* this.server is set before the listener is bound and cleared before it   *)
(* is closed.  A request is in                                             *)
(*   "reading"   the promise of readBody pending,                          *)
(*   "read"      that promise settled, onRequest yet to go on,             *)
(*   "applying"  in the executor,                                          *)
(*   "replying"  the router's promise resolved,                            *)
(*   "answered"  response.end was called.                                  *)
(*                                                                         *)
(* External: binding, accepting, chunks, and connections.  A response goes *)
(* nowhere once its connection is gone, and request.destroy() takes the    *)
(* connection with it.                                                     *)
(*                                                                         *)
(* Abstracted: a body is its length in chunks of one unit and what it      *)
(* parses to; a port is free when no server of this object has it.         *)
(***************************************************************************)
EXTENDS JsonRpcToolRouter

CONSTANTS
    HttpRequests,           \* what may be sent: [path, method, length, message]
    MaxBodyUnits,           \* MAX_BODY_BYTES
    MaxRequests, MaxStarts, MaxStops    \* bounds

VARIABLES
    server,     \* this.server, an index into listeners or NoServer
    listeners,  \* the state of each http.Server created
    starts,     \* the calls of start(): pending, resolved or rejected, and of which server
    stops,      \* the calls of stop(), likewise
    requests    \* the onRequest() of each request accepted

httpVars == <<server, listeners, starts, stops, requests>>

NoServer == 0

-----------------------------------------------------------------------------
(* The listener *)

\* Mutant: start() is over once listen() was called.
StartWithoutWaiting ==
    /\ Len(starts) < MaxStarts /\ server = NoServer
    /\ server' = Len(listeners) + 1
    /\ listeners' = Append(listeners, "binding")
    /\ starts' = Append(starts, [phase |-> "resolved", server |-> server'])
    /\ UNCHANGED <<stops, requests, served>>

\* A start() that finds a server is over at once, whatever became of that server.
Start ==
    /\ Len(starts) < MaxStarts
    /\ \/ /\ server # NoServer
          /\ starts' = Append(starts, [phase |-> "resolved", server |-> server])
          /\ UNCHANGED <<server, listeners>>
       \/ /\ server = NoServer
          /\ server' = Len(listeners) + 1
          /\ listeners' = Append(listeners, "binding")
          /\ starts' = Append(starts, [phase |-> "pending", server |-> server'])
    /\ UNCHANGED <<stops, requests, served>>

Settled(callsOf, s, phase) ==
    [k \in DOMAIN callsOf |->
        IF callsOf[k] = [phase |-> "pending", server |-> s]
        THEN [callsOf[k] EXCEPT !.phase = phase] ELSE callsOf[k]]

\* Mutant: nobody listens for the error.
OnErrorUnheard(s) ==
    /\ listeners[s] = "binding"
    /\ listeners' = [listeners EXCEPT ![s] = "failed"]
    /\ UNCHANGED <<server, starts, stops, requests, served>>

\* this.server stays.
OnError(s) ==
    /\ listeners[s] = "binding"
    /\ listeners' = [listeners EXCEPT ![s] = "failed"]
    /\ starts' = Settled(starts, s, "rejected")
    /\ UNCHANGED <<server, stops, requests, served>>

OnListening(s) ==
    /\ listeners[s] = "binding"
    /\ \A other \in DOMAIN listeners : listeners[other] # "listening"
    /\ listeners' = [listeners EXCEPT ![s] = "listening"]
    /\ starts' = Settled(starts, s, "resolved")
    /\ UNCHANGED <<server, stops, requests, served>>

\* Mutant: the server is let go of, not closed.
StopForgets ==
    /\ Len(stops) < MaxStops
    /\ server' = NoServer
    /\ stops' = Append(stops, [phase |-> "resolved", server |-> server])
    /\ UNCHANGED <<listeners, starts, requests, served>>

\* External: close() of a server that is not listening is an error and closes nothing,
\* not even one that is about to listen.
Stop ==
    /\ Len(stops) < MaxStops
    /\ server' = NoServer
    /\ LET listening == server # NoServer /\ listeners[server] = "listening"
           phase == IF server = NoServer THEN "resolved"
                    ELSE IF listening THEN "pending" ELSE "rejected"
       IN  /\ stops' = Append(stops, [phase |-> phase, server |-> server])
           /\ listeners' = IF listening THEN [listeners EXCEPT ![server] = "closing"]
                           ELSE listeners
    /\ UNCHANGED <<starts, requests, served>>

\* External: close() is done when the connections it has accepted are.
Closed(s) ==
    /\ listeners[s] = "closing"
    /\ \A c \in DOMAIN requests :
         requests[c].server = s => requests[c].phase = "answered" \/ ~ requests[c].connected
    /\ listeners' = [listeners EXCEPT ![s] = "closed"]
    /\ stops' = Settled(stops, s, "resolved")
    /\ UNCHANGED <<server, starts, requests, served>>

-----------------------------------------------------------------------------
(* A request *)

HttpReply(status, reply) == [status |-> status, json |-> reply]

\* response.end: a reply nobody is there to get is none.
Answer(request, status, reply) ==
    [request EXCEPT !.phase = "answered",
                    !.reply = IF request.connected THEN HttpReply(status, reply) ELSE NoReply]

\* onRequest up to its first await.
OnRequest(request, s) ==
    LET accepted == [phase |-> "reading", request |-> request, server |-> s, bytes |-> 0,
                     body |-> "none", connected |-> TRUE, reply |-> NoReply]
    IN  /\ Len(requests) < MaxRequests
        /\ listeners[s] = "listening"
        /\ requests' = Append(requests,
              CASE request.path # "/mcp" -> Answer(accepted, 404, NoReply)
                [] request.path = "/mcp" /\ request.method # "POST" ->
                     Answer(accepted, 405, NoReply)
                [] OTHER -> accepted)
        /\ UNCHANGED <<server, listeners, starts, stops, served>>

\* Mutant: only a single chunk may be too large.
OnDataByChunk(c) ==
    /\ requests[c].phase = "reading" /\ requests[c].connected
    /\ requests[c].bytes < requests[c].request.length
    /\ requests' = [requests EXCEPT ![c].bytes = @ + 1]
    /\ UNCHANGED <<server, listeners, starts, stops, served>>

OnData(c) ==
    LET r == requests[c]
        bytes == r.bytes + 1
    IN  /\ r.phase = "reading" /\ r.connected
        /\ r.bytes < r.request.length
        /\ requests' = [requests EXCEPT ![c] =
              IF bytes > MaxBodyUnits
              THEN [r EXCEPT !.bytes = bytes, !.phase = "read", !.body = "too large",
                             !.connected = FALSE]
              ELSE [r EXCEPT !.bytes = bytes]]
        /\ UNCHANGED <<server, listeners, starts, stops, served>>

OnEnd(c) ==
    /\ requests[c].phase = "reading" /\ requests[c].connected
    /\ requests[c].bytes = requests[c].request.length
    /\ requests' = [requests EXCEPT ![c].phase = "read", ![c].body = "whole"]
    /\ UNCHANGED <<server, listeners, starts, stops, served>>

\* The client goes: the body errors if it is still being read, an apply goes on.
ClientLeaves(c) ==
    /\ requests[c].connected /\ requests[c].phase # "answered"
    /\ requests' = [requests EXCEPT ![c] =
          IF @.phase = "reading"
          THEN [@ EXCEPT !.connected = FALSE, !.phase = "read", !.body = "broken"]
          ELSE [@ EXCEPT !.connected = FALSE]]
    /\ UNCHANGED <<server, listeners, starts, stops, served>>

Respond(c, status, reply) ==
    /\ requests' = [requests EXCEPT ![c] = Answer(@, status, reply)]
    /\ UNCHANGED served

AtRouter(request, phase, reply) == [request EXCEPT !.phase = phase, !.reply = reply]

\* The body is there or it is not: from the await of readBody to that of the router.
AfterBody(c) ==
    LET message == requests[c].request.message
    IN  /\ requests[c].phase = "read"
        /\ \/ requests[c].body = "too large" /\ Respond(c, 413, NoReply)
           \/ requests[c].body = "broken" /\ Respond(c, 500, InternalError(NullId))
           \/ /\ requests[c].body = "whole"
              /\ \/ message.form = "unparsable" /\ Respond(c, 400, ParseError)
                 \/ message.form = "invalid" /\ Respond(c, 400, InvalidRequest)
                 \/ /\ message.form = "request"
                    /\ \E phase \in {"replying", "applying"},
                          reply \in RepliesAtOnce(message) \cup {NoReply} :
                         /\ Handle(message, c, phase, reply)
                         /\ requests' = [requests EXCEPT ![c] = AtRouter(@, phase, reply)]
        /\ UNCHANGED <<server, listeners, starts, stops>>

\* The executor has finished an apply.
RequestApplied(c) ==
    /\ requests[c].phase = "applying"
    /\ \E reply \in RepliesOfApply(requests[c].request.message) :
         requests' = [requests EXCEPT ![c] = AtRouter(@, "replying", reply)]
    /\ UNCHANGED <<server, listeners, starts, stops, served>>

\* The rest of onRequest after `await this.router.handle'.
WriteJson(c) ==
    /\ requests[c].phase = "replying"
    /\ Respond(c, 200, requests[c].reply)
    /\ UNCHANGED <<server, listeners, starts, stops>>

HttpInit ==
    /\ server = NoServer
    /\ listeners = <<>> /\ starts = <<>> /\ stops = <<>>
    /\ requests = <<>>

HttpNext ==
    \/ Start
    \/ Stop
    \/ \E s \in DOMAIN listeners :
         \/ OnError(s) \/ OnListening(s) \/ Closed(s)
         \/ \E request \in HttpRequests : OnRequest(request, s)
    \/ \E c \in DOMAIN requests :
         \/ OnData(c) \/ OnEnd(c) \/ ClientLeaves(c)
         \/ AfterBody(c) \/ RequestApplied(c) \/ WriteJson(c)
=============================================================================
