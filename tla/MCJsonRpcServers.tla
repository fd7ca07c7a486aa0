--------------------------- MODULE MCJsonRpcServers ---------------------------
(* A small instance of JsonRpcServers for TLC. *)
EXTENDS JsonRpcServers

Message(form, id, method, tool) ==
    [form |-> form, id |-> id, method |-> method, tool |-> tool]

apply == Message("request", 1, "tools/call", "changes.apply")
preview == Message("request", 2, "tools/call", "changes.preview")
context == Message("request", 2, "tools/call", "context.get")
noTool == Message("request", 2, "tools/call", "changes.undo")
badParams == Message("request", NullId, "tools/call", BadParams)
initialize == Message("request", 1, "initialize", BadParams)
noMethod == Message("request", 1, "resources/list", BadParams)
blank == Message("blank", NullId, "none", BadParams)
unparsable == Message("unparsable", NullId, "none", BadParams)
invalid == Message("invalid", NullId, "none", BadParams)

MCNoLines == <<>>

\* Applies before other calls, the same id twice, and every way a line can be refused.
MCInputs ==
    {MCNoLines,
     <<apply, preview, apply>>, <<preview, context, apply>>,
     <<blank, apply, unparsable, invalid>>, <<badParams, apply, initialize>>,
     <<noTool, noMethod, apply>>}

HttpRequest(path, method, length, message) ==
    [path |-> path, method |-> method, length |-> length, message |-> message]

\* A path and a method that are refused, a body at the limit and one beyond.
MCHttpRequests ==
    {HttpRequest("/", "POST", 1, apply), HttpRequest("/mcp", "GET", 0, unparsable),
     HttpRequest("/mcp", "POST", 2, apply), HttpRequest("/mcp", "POST", 3, apply),
     HttpRequest("/mcp", "POST", 0, unparsable), HttpRequest("/mcp", "POST", 1, preview)}
=============================================================================
