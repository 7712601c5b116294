------------------------------ MODULE McpPipes ------------------------------
(***************************************************************************)
(* One MCP server of the manager (mcp/manager.py): a child process that    *)
(* reads requests from its stdin and writes an answer per request to its   *)
(* stdout, one line each.  Start-up is a handshake of two requests; later  *)
(* callers write and read on the same two pipes, and an answer carries the *)
(* id of its request, which _send_jsonrpc does not look at.  Servers share *)
(* nothing, and startup_all starts them one after the other.               *)
(***************************************************************************)
EXTENDS Naturals, Sequences

CONSTANTS Callers,    \* tasks that call a tool of the server
          Startup,    \* the task of startup_all
          Nothing,    \* no answer
          MaxCalls    \* bound on the calls of one caller

ASSUME McpAssumption == Startup \notin Callers /\ MaxCalls \in Nat

VARIABLES lifecycle,  \* McpServerState.lifecycle
          child,      \* the process
          stdin,      \* requests written and not yet served
          stdout,     \* answers written and not yet read
          task,       \* where each caller stands in _send_jsonrpc
          request,    \* the number of its present request
          tools       \* the answer the tools were read from

mcpVars == <<lifecycle, child, stdin, stdout, task, request, tools>>

Tasks == Callers \cup {Startup}
Requests == Tasks \X (1..(MaxCalls + 2))

McpTypeOK ==
    /\ lifecycle \in {"not_started", "initializing", "ready", "failed", "shutdown"}
    /\ child \in {"none", "up", "gone"}
    /\ stdin \in Seq(Requests) /\ stdout \in Seq(Requests)
    /\ task \in [Tasks -> {"idle", "written", "reading"}]
    /\ request \in [Tasks -> 0..(MaxCalls + 2)]
    /\ tools \in Requests \cup {Nothing}

McpInit ==
    /\ lifecycle = "not_started" /\ child = "none"
    /\ stdin = <<>> /\ stdout = <<>>
    /\ task = [t \in Tasks |-> "idle"]
    /\ request = [t \in Tasks |-> 0]
    /\ tools = Nothing

----------------------------------------------------------------------------
(* _send_jsonrpc, step by step.                                            *)

Write(t) ==
    /\ task' = [task EXCEPT ![t] = "written"]
    /\ request' = [request EXCEPT ![t] = @ + 1]
    /\ stdin' = IF child = "up" THEN Append(stdin, <<t, request[t] + 1>>) ELSE stdin

\* A call ends, well or not; what was written stays in the pipes.
Return(t) == task' = [task EXCEPT ![t] = "idle"]

\* readline: a line that is there is taken; a pipe that is being waited on
\* refuses a second reader; otherwise the task waits.
Waits(t) ==
    /\ task[t] = "written" /\ stdout = <<>> /\ child = "up"
    /\ \A u \in Tasks : task[u] # "reading"
    /\ task' = [task EXCEPT ![t] = "reading"]
    /\ UNCHANGED <<lifecycle, child, stdin, stdout, request, tools>>

Refused(t) ==
    /\ task[t] = "written" /\ stdout = <<>>
    /\ \E u \in Tasks : task[u] = "reading"

Takes(t) == task[t] # "idle" /\ stdout # <<>>

Closed(t) == task[t] # "idle" /\ stdout = <<>> /\ child # "up"

TimesOut(t) == task[t] = "reading"

NoAnswer(t) == Refused(t) \/ Closed(t) \/ TimesOut(t)

----------------------------------------------------------------------------
(* _start_server.                                                          *)

Start ==
    /\ lifecycle = "not_started"
    /\ \/ /\ child' = "up"
          /\ lifecycle' = "initializing"
          /\ stdin' = <<<<Startup, 1>>>>
          /\ request' = [request EXCEPT ![Startup] = 1]
          /\ task' = [task EXCEPT ![Startup] = "written"]
          /\ UNCHANGED <<stdout, tools>>
       \/ /\ lifecycle' = "failed"       \* the command cannot be run
          /\ UNCHANGED <<child, stdin, stdout, task, request, tools>>

\* initialize is answered: the notification (which has no answer) and
\* tools/list are written.
Initialized ==
    /\ request[Startup] = 1 /\ Takes(Startup)
    /\ stdout' = Tail(stdout)
    /\ Write(Startup)
    /\ UNCHANGED <<lifecycle, child, tools>>

ToolsListed ==
    /\ request[Startup] = 2 /\ Takes(Startup)
    /\ tools' = Head(stdout) /\ stdout' = Tail(stdout)
    /\ lifecycle' = "ready"
    /\ Return(Startup)
    /\ UNCHANGED <<child, stdin, request>>

(* Mutant: a failed start leaves the process alone.                        *)
LeaveProcess == UNCHANGED <<child, stdin, stdout>>

\* _dispose_process: terminated, killed after five seconds, pipes drained.
Dispose == child' = "gone" /\ stdin' = <<>> /\ stdout' = <<>>

(* Mutant: a start-up request that times out is given up, the next is made. *)
StartGoesOn ==
    /\ NoAnswer(Startup)
    /\ \/ /\ request[Startup] = 1 /\ child = "up" /\ Write(Startup)
          /\ UNCHANGED <<lifecycle, child, stdout, tools>>
       \/ /\ lifecycle' = "failed" /\ Return(Startup) /\ Dispose
          /\ UNCHANGED <<request, tools>>

\* No answer, or an answer that is an error, ends the start.
StartFails ==
    /\ NoAnswer(Startup) \/ Takes(Startup)
    /\ lifecycle' = "failed"
    /\ Return(Startup)
    /\ Dispose
    /\ UNCHANGED <<request, tools>>

----------------------------------------------------------------------------
(* call_tool and shutdown_all.                                             *)

Call(c) ==
    /\ lifecycle = "ready" /\ task[c] = "idle" /\ request[c] < MaxCalls
    /\ Write(c)
    /\ UNCHANGED <<lifecycle, child, stdout, tools>>

Answered(c) ==
    /\ Takes(c)
    /\ stdout' = Tail(stdout)
    /\ Return(c)
    /\ UNCHANGED <<lifecycle, child, stdin, request, tools>>

CallFails(c) ==
    /\ NoAnswer(c)
    /\ Return(c)
    /\ UNCHANGED <<lifecycle, child, stdin, stdout, request, tools>>

\* Draining the pipes fails when a caller waits on them: the process has been
\* asked to stop, and nobody waits for it.
Shutdown ==
    /\ lifecycle \in {"ready", "failed"}
    /\ lifecycle' = "shutdown"
    /\ IF child = "none" THEN UNCHANGED <<child, stdin, stdout>>
       ELSE \/ Dispose
            \/ /\ \E c \in Callers : task[c] = "reading"
               /\ UNCHANGED <<child, stdin, stdout>>
    /\ UNCHANGED <<task, request, tools>>

----------------------------------------------------------------------------
(* The server.                                                             *)

Serve ==
    /\ child = "up" /\ stdin # <<>>
    /\ stdout' = Append(stdout, Head(stdin)) /\ stdin' = Tail(stdin)
    /\ UNCHANGED <<lifecycle, child, task, request, tools>>

Die ==
    /\ child = "up"
    /\ child' = "gone" /\ stdin' = <<>>
    /\ UNCHANGED <<lifecycle, stdout, task, request, tools>>

McpNext ==
    \/ Start \/ Initialized \/ ToolsListed \/ StartFails \/ Shutdown
    \/ \E t \in Tasks : Waits(t)
    \/ \E c \in Callers : Call(c) \/ Answered(c) \/ CallFails(c)
    \/ Serve \/ Die

McpSpec == McpInit /\ [][McpNext]_mcpVars

----------------------------------------------------------------------------

\* A server that is ready took its tools from the answer to tools/list, and
\* from no late answer of the handshake; one that failed to start has left no
\* process behind.
StartedRight ==
    /\ lifecycle = "ready" => tools = <<Startup, 2>>
    /\ lifecycle = "failed" => child # "up"

\* A call returns the answer to its own request.
OwnAnswer ==
    [][\A c \in Callers :
         task[c] # "idle" /\ task'[c] = "idle" /\ stdout' # stdout
         /\ lifecycle' = lifecycle
         => Head(stdout) = <<c, request[c]>>]_mcpVars
=============================================================================
