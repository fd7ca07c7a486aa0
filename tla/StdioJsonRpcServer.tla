-------------------------- MODULE StdioJsonRpcServer --------------------------
(***************************************************************************)
(* The server on stdin and stdout (src/mcp/stdio-jsonrpc-server.ts).  Each *)
(* line is handled as it comes, without waiting for those before it, and   *)
(* replies are written as they are ready.                                  *)
(***************************************************************************)
EXTENDS JsonRpcToolRouter

CONSTANTS
    Inputs      \* what may be typed: sequences of messages

VARIABLES
    input,      \* the lines of this run, those not read yet included
    read,       \* how many were read
    handlers,   \* the onLine() of each line read
    output,     \* the replies written, each with the line it is for
    process     \* "reading", "closed" (stdin is), "exited"

stdioVars == <<input, read, handlers, output, process>>

Lines == DOMAIN input

\* onLine up to its await, or to its end: what is no request is answered on the spot.
OnLine(n) ==
    LET line == input[n]
        write(reply) == /\ handlers' = [handlers EXCEPT ![n].phase = "done"]
                        /\ output' = Append(output, [line |-> n, reply |-> reply])
                        /\ UNCHANGED served
    IN  /\ process = "reading"
        /\ n = read + 1 /\ n \in Lines
        /\ read' = n
        /\ \/ /\ line.form = "blank"
              /\ handlers' = [handlers EXCEPT ![n].phase = "done"]
              /\ UNCHANGED <<output, served>>
           \/ line.form = "unparsable" /\ write(ParseError)
           \/ line.form = "invalid" /\ write(InvalidRequest)
           \/ /\ line.form = "request"
              /\ \E phase \in {"replying", "applying"},
                    reply \in RepliesAtOnce(line) \cup {NoReply} :
                   /\ Handle(line, n, phase, reply)
                   /\ handlers' = [handlers EXCEPT ![n] =
                                      [phase |-> phase, reply |-> reply]]
              /\ UNCHANGED output
        /\ UNCHANGED <<input, process>>

\* The executor has finished an apply.
LineApplied(n) ==
    /\ handlers[n].phase = "applying"
    /\ \E reply \in RepliesOfApply(input[n]) :
         handlers' = [handlers EXCEPT ![n] = [phase |-> "replying", reply |-> reply]]
    /\ UNCHANGED <<input, read, output, process, served>>

\* Mutant: replies are held back until those of all earlier lines are out.
WriteInOrder(n) ==
    /\ handlers[n].phase = "replying"
    /\ \A k \in 1..(n - 1) : handlers[k].phase = "done"
    /\ handlers' = [handlers EXCEPT ![n].phase = "done"]
    /\ output' = Append(output, [line |-> n, reply |-> handlers[n].reply])
    /\ UNCHANGED <<input, read, process, served>>

\* The rest of onLine after `await this.router.handle'.
Write(n) ==
    /\ handlers[n].phase = "replying"
    /\ handlers' = [handlers EXCEPT ![n].phase = "done"]
    /\ output' = Append(output, [line |-> n, reply |-> handlers[n].reply])
    /\ UNCHANGED <<input, read, process, served>>

\* The client closes stdin; lines it has typed are still read before.
StdinCloses ==
    /\ process = "reading" /\ read = Len(input)
    /\ process' = "closed"
    /\ UNCHANGED <<input, read, handlers, output, served>>

\* External: Node exits once nothing is left that could run.
Exit ==
    /\ process = "closed"
    /\ \A n \in Lines : handlers[n].phase = "done"
    /\ process' = "exited"
    /\ UNCHANGED <<input, read, handlers, output, served>>

StdioInit ==
    /\ input \in Inputs
    /\ read = 0
    /\ handlers = [n \in DOMAIN input |-> [phase |-> "unread", reply |-> NoReply]]
    /\ output = <<>>
    /\ process = "reading"

StdioNext ==
    \/ \E n \in Lines : OnLine(n) \/ LineApplied(n) \/ Write(n)
    \/ StdinCloses
    \/ Exit
=============================================================================
