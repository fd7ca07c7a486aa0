--------------------------- MODULE JsonRpcToolRouter ---------------------------
(***************************************************************************)
(* The dispatch of JSON-RPC requests to the control service                *)
(* (src/mcp/jsonrpc-tool-router.ts, src/mcp/protocol.ts), for either       *)
(* server.  A message is                                                   *)
(*   form    "unparsable", "invalid" (JSON, but no JSON-RPC request) or    *)
(*           "request"; for a line of stdin also "blank"                   *)
(*   id      its id, NullId when it has none or null                       *)
(*   method  its method                                                    *)
(*   tool    the tool a tools/call names, or BadParams                     *)
(*                                                                         *)
(* handle() is asynchronous, but nothing in it waits except changes.apply: *)
(* all else, the work of the other tools included, is done in the step     *)
(* that dispatches the message, and only the reply comes later.            *)
(*                                                                         *)
(* Abstracted: what the control service does is modelled in ControlService;*)
(* here a tool call may come out either way.                               *)
(***************************************************************************)
EXTENDS Integers, Sequences

CONSTANTS NullId, BadParams, NoReply

VARIABLES
    served      \* the tool calls the control service got, in order, by who asked

Tools ==
    {"capabilities.list", "context.get", "targets.resolve", "scopes.catalog.get",
     "changes.preview", "changes.apply", "confirm.issue"}

ErrorReply(id, code) == [id |-> id, code |-> code, status |-> "none"]

Result(id) == [id |-> id, code |-> 0, status |-> "none"]

Payload(id, status) == [id |-> id, code |-> 0, status |-> status]

ParseError == ErrorReply(NullId, -32700)

InvalidRequest == ErrorReply(NullId, -32600)

InternalError(id) == ErrorReply(id, -32603)

CallsTool(message) == message.method = "tools/call" /\ message.tool \in Tools

\* A tool call that fails in the service still is a JSON-RPC result; these two cannot fail.
ToolStatuses(tool) ==
    IF tool \in {"context.get", "scopes.catalog.get"} THEN {"SUCCESS"}
    ELSE {"SUCCESS", "FAILED"}

\* Mutant: the reply to a request the router cannot make sense of names no request.
AnonymousReplies(message) ==
    IF CallsTool(message) THEN {Payload(message.id, s) : s \in ToolStatuses(message.tool)}
    ELSE {InternalError(NullId)}

\* What handle() may come to without waiting; an apply that is refused, too.
RepliesAtOnce(message) ==
    CASE message.method \in {"initialize", "tools/list"} -> {Result(message.id)}
      [] message.method = "tools/call" /\ message.tool = BadParams ->
           {InternalError(message.id)}
      [] CallsTool(message) ->
           IF message.tool = "changes.apply" THEN {Payload(message.id, "FAILED")}
           ELSE {Payload(message.id, status) : status \in ToolStatuses(message.tool)}
      [] message.method = "tools/call" /\ message.tool \notin Tools \cup {BadParams} ->
           {Payload(message.id, "FAILED")}
      [] OTHER -> {ErrorReply(message.id, -32601)}

\* An apply that is let in waits for the executor.
Waits(message) == CallsTool(message) /\ message.tool = "changes.apply"

RepliesOfApply(message) ==
    {Payload(message.id, status) : status \in {"SUCCESS", "PARTIAL_SUCCESS", "FAILED"}}

Serve(message, from) ==
    served' = IF CallsTool(message) THEN Append(served, from) ELSE served

\* handle() up to where it waits: how far it comes, and the reply it has by then.
Handle(message, from, phase, reply) ==
    /\ \/ phase = "replying" /\ reply \in RepliesAtOnce(message)
       \/ phase = "applying" /\ reply = NoReply /\ Waits(message)
    /\ Serve(message, from)

-----------------------------------------------------------------------------
(* What a reply may be, by what JSON-RPC and MCP say of the request *)

FitsMessage(message, reply) ==
    CASE message.form = "unparsable" -> reply = ErrorReply(NullId, -32700)
      [] message.form = "invalid" -> reply = ErrorReply(NullId, -32600)
      [] message.form = "request" ->
           /\ reply.id = message.id
           /\ reply.code \in {0, -32601, -32603}
           /\ reply.code = -32601 <=>
                message.method \notin {"initialize", "tools/list", "tools/call"}
           /\ reply.status # "none" => message.method = "tools/call"
           /\ reply.status \in {"SUCCESS", "PARTIAL_SUCCESS"} => message.tool \in Tools
           /\ reply.status = "PARTIAL_SUCCESS" => message.tool = "changes.apply"
      [] OTHER -> FALSE
=============================================================================
