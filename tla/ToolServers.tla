---------------------------- MODULE ToolServers ----------------------------
(***************************************************************************)
(* The two MCP servers that the gateway starts for a Capability, speaking  *)
(* JSON-RPC over stdin and stdout: mcp-exec-server runs the commands of a  *)
(* CLI one after the other, tool-bridge runs the tools of packages all at  *)
(* once.                                                                   *)
(***************************************************************************)
EXTENDS Naturals, Sequences

CONSTANT MaxRequests   \* bound on the lines sent

ASSUME MaxRequestsAssumption == MaxRequests \in Nat

VARIABLES
  kind,      \* which of the two servers this is
  ended,     \* whether it is still loading, works ("no"), or how it ended
  sent,      \* the lines on its stdin
  closed,    \* whether the stdin was closed after them
  taken,     \* how many lines it has read
  running,   \* the lines being worked on
  process,   \* the command mcp-exec-server has started
  answers    \* the lines answered, in the order of the answers

toolVars == <<kind, ended, sent, closed, taken, running, process, answers>>

Kinds == {"exec", "bridge"}

\* A line may be no JSON, a notification, a request answered at once (a list of
\* tools, a ping, what is refused before it runs), too long for the scanner of
\* mcp-exec-server ("huge"), or a call. A call ends by itself; never ("endless":
\* a command that waits for its stderr to be read is one of those, as stdout is
\* read first); or leaves a child behind that holds its stdout ("daemon").
Calls == {"quick", "endless", "daemon"}
Lines == {"notification", "garbage", "request", "huge"} \union Calls

WantsAnswer(line) == line # "notification"

\* Whether the command runs, and whether its stdout is held by a child.
NoProcess == [alive |-> FALSE, held |-> FALSE]
Started(line) == [alive |-> TRUE, held |-> line = "daemon"]

ToolTypeOK ==
  /\ kind \in Kinds /\ ended \in {"loading", "no", "drained", "cut"}
  /\ sent \in Seq(Lines) /\ Len(sent) <= MaxRequests
  /\ closed \in BOOLEAN
  /\ taken \in 0..Len(sent) /\ running \subseteq 1..taken
  /\ process \in [alive : BOOLEAN, held : BOOLEAN]
  /\ answers \in Seq(1..taken)

ToolInit ==
  /\ kind \in Kinds
  /\ ended = IF kind = "bridge" THEN "loading" ELSE "no"
  /\ sent = <<>> /\ closed = FALSE /\ taken = 0
  /\ running = {} /\ process = NoProcess /\ answers = <<>>

NextLine == sent[taken + 1]

\* What the gateway writes to its stdin, and that it closes it.
Send(line) ==
  /\ ended \in {"loading", "no"} /\ ~closed /\ Len(sent) < MaxRequests
  /\ sent' = Append(sent, line)
  /\ UNCHANGED <<kind, ended, closed, taken, running, process, answers>>

CloseStdin ==
  /\ ended \in {"loading", "no"} /\ ~closed
  /\ closed' = TRUE
  /\ UNCHANGED <<kind, ended, sent, taken, running, process, answers>>

Reads(server) == kind = server /\ ended = "no" /\ taken < Len(sent)

-----------------------------------------------------------------------------
\* mcp-exec-server: one goroutine reads a line and answers it before the next.
ExecAnswers ==
  /\ Reads("exec") /\ running = {} /\ NextLine \notin Calls \union {"huge"}
  /\ taken' = taken + 1
  /\ answers' = IF WantsAnswer(NextLine) THEN Append(answers, taken + 1) ELSE answers
  /\ UNCHANGED <<kind, ended, sent, closed, running, process>>

\* Mutant: a line is read while a command still runs.
ExecStartsMore ==
  /\ Reads("exec") /\ NextLine \in Calls
  /\ taken' = taken + 1 /\ running' = running \union {taken + 1} /\ process' = Started(NextLine)
  /\ UNCHANGED <<kind, ended, sent, closed, answers>>

ExecStarts ==
  /\ Reads("exec") /\ running = {} /\ NextLine \in Calls
  /\ taken' = taken + 1 /\ running' = {taken + 1} /\ process' = Started(NextLine)
  /\ UNCHANGED <<kind, ended, sent, closed, answers>>

\* What is longer than its buffer ends the scanner, and with it the server.
ExecOverflows ==
  /\ Reads("exec") /\ running = {} /\ NextLine = "huge"
  /\ taken' = taken + 1 /\ ended' = "cut"
  /\ UNCHANGED <<kind, sent, closed, running, process, answers>>

CommandEnds ==
  /\ process.alive /\ kind = "exec" /\ \A p \in running : sent[p] # "endless"
  /\ process' = [process EXCEPT !.alive = FALSE]
  /\ UNCHANGED <<kind, ended, sent, closed, taken, running, answers>>

\* Mutant: a command runs without a deadline.
NoDeadline == FALSE /\ UNCHANGED toolVars

\* The context of the command kills it, not its children.
CommandTimesOut ==
  /\ process.alive /\ kind = "exec"
  /\ process' = [process EXCEPT !.alive = FALSE]
  /\ UNCHANGED <<kind, ended, sent, closed, taken, running, answers>>

ChildEnds ==
  /\ process.held
  /\ process' = [process EXCEPT !.held = FALSE]
  /\ UNCHANGED <<kind, ended, sent, closed, taken, running, answers>>

\* Its output is complete when everybody who could write it is gone.
ExecReplies ==
  /\ kind = "exec" /\ ended = "no" /\ process = NoProcess
  /\ \E p \in running : running' = running \ {p} /\ answers' = Append(answers, p)
  /\ UNCHANGED <<kind, ended, sent, closed, taken, process>>

ExecEnds ==
  /\ kind = "exec" /\ ended = "no" /\ closed /\ taken = Len(sent) /\ running = {}
  /\ ended' = "drained"
  /\ UNCHANGED <<kind, sent, closed, taken, running, process, answers>>

-----------------------------------------------------------------------------
\* tool-bridge: the tools are imported before the first line is read.
BridgeLoads ==
  /\ kind = "bridge" /\ ended = "loading"
  /\ ended' = "no"
  /\ UNCHANGED <<kind, sent, closed, taken, running, process, answers>>

\* Mutant: a line is handed to its handler and stays in the buffer.
BridgeKeepsLine ==
  /\ Reads("bridge")
  /\ running' = running \union {taken + 1}
  /\ UNCHANGED <<kind, ended, sent, closed, taken, process, answers>>

\* Every line has a handler of its own, which awaits; only what is no JSON is
\* answered before the next line.
BridgeReads ==
  /\ Reads("bridge")
  /\ taken' = taken + 1
  /\ running' = running \union {p \in {taken + 1} : NextLine \in Calls \union {"request", "huge"}}
  /\ answers' = IF NextLine = "garbage" THEN Append(answers, taken + 1) ELSE answers
  /\ UNCHANGED <<kind, ended, sent, closed, process>>

\* A handler that got its result, or an error, writes the answer.
BridgeReplies(p) ==
  /\ kind = "bridge" /\ ended = "no" /\ p \in running
  /\ running' = running \ {p} /\ answers' = Append(answers, p)
  /\ UNCHANGED <<kind, ended, sent, closed, taken, process>>

\* When the stdin has ended the process exits, whatever still runs.
BridgeEnds ==
  /\ kind = "bridge" /\ ended = "no" /\ closed /\ taken = Len(sent)
  /\ ended' = "cut"
  /\ UNCHANGED <<kind, sent, closed, taken, running, process, answers>>

\* A signal ends either of them at once; a command goes on without a reader.
Signalled ==
  /\ ended \in {"loading", "no"}
  /\ ended' = "cut"
  /\ UNCHANGED <<kind, sent, closed, taken, running, process, answers>>

-----------------------------------------------------------------------------
Exec ==
  \/ ExecAnswers \/ ExecStarts \/ ExecOverflows \/ CommandEnds \/ CommandTimesOut
  \/ ExecReplies \/ ExecEnds

Bridge ==
  \/ BridgeLoads \/ BridgeReads \/ BridgeEnds \/ \E p \in 1..MaxRequests : BridgeReplies(p)

ToolNext ==
  \/ (\E line \in Lines : Send(line)) \/ CloseStdin
  \/ Exec \/ Bridge \/ ChildEnds \/ Signalled

ToolSpec == ToolInit /\ [][ToolNext]_toolVars

\* Seen from its stdin and stdout a server is one that keeps its promise, the
\* exec server in order, the bridge in any order: no answer twice, none to a
\* notification, and none lost when the exec server's stdin ends
\* (mcp-exec-server main.go:503-539, tool-bridge.ts:357-399).
RR ==
  INSTANCE RequestReply WITH
    ordered <- kind = "exec",
    asked <- [p \in DOMAIN sent |-> WantsAnswer(sent[p])],
    answers <- answers,
    ended <- IF ended = "loading" THEN "no" ELSE ended

ImplementsRequestReply == RR!Spec
=============================================================================
