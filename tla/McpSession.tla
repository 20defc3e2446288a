---------------------------- MODULE McpSession -----------------------------
(***************************************************************************)
(* One session of the capability gateway (pkg/gateway/mcp/handler.go): the *)
(* SSE handler, the goroutine that reads the server's output, the one that *)
(* waits for the server's exit, the bounded channel between them, and the  *)
(* server process itself.                                                  *)
(***************************************************************************)
EXTENDS Naturals, Sequences

CONSTANTS
  Calls,      \* the JSON-RPC messages of the client
  Room,       \* capacity of the channel `messages' (64 in the code)
  PipeRoom    \* messages the stdin pipe holds before a write blocks

ASSUME SessionAssumption == Room \in Nat \ {0} /\ PipeRoom \in Nat \ {0}

VARIABLES
  client,     \* the SSE connection: "absent", "connected", "stalled" (connected, but
              \* it reads nothing and the buffers of the connection are full), "left"
  sse,        \* handleSSE: "none", "failed", "streaming" (in its select), "writing",
              \* "returned", "deleted", "closed"
  process,    \* the server: "none", "running", "exited"
  done,       \* sess.done is closed
  reader,     \* readFromServer: "none", "scanning", "holding", "ended"
  held,       \* the lines it holds: none, or one
  messages,   \* the channel
  closed,     \* the channel is closed
  sending,    \* what handleSSE writes to the client: none, or one message
  stdin,      \* written for the server and not read by it
  stdout,     \* written by the server and not scanned
  produced,   \* history: the replies the server wrote
  delivered   \* history: what the client received

sessionVars == <<client, sse, process, done, reader, held, messages, closed,
                 sending, stdin, stdout, produced, delivered>>

Reply(c) == [kind |-> "reply", call |-> c]
Denial(c) == [kind |-> "denial", call |-> c]

\* A line of output: a reply, a line that is no JSON, or one that exceeds
\* the buffer of the scanner.
Replies == { Reply(c) : c \in Calls }
Lines == Replies \union {[kind |-> "junk"], [kind |-> "oversized"]}
Messages == Replies \union { Denial(c) : c \in Calls }

SessionTypeOK ==
  /\ client \in {"absent", "connected", "stalled", "left"}
  /\ sse \in {"none", "failed", "streaming", "writing", "returned", "deleted", "closed"}
  /\ process \in {"none", "running", "exited"}
  /\ reader \in {"none", "scanning", "holding", "ended"}
  /\ done \in BOOLEAN /\ closed \in BOOLEAN
  /\ held \in Seq(Replies) /\ Len(held) = IF reader = "holding" THEN 1 ELSE 0
  /\ messages \in Seq(Messages) /\ Len(messages) <= Room
  /\ sending \in Seq(Messages) /\ Len(sending) = IF sse = "writing" THEN 1 ELSE 0
  /\ stdin \in Seq(Calls) /\ Len(stdin) <= PipeRoom
  /\ stdout \in Seq(Lines)
  /\ produced \in Seq(Replies)
  /\ delivered \in Seq(Messages)

SessionInit ==
  /\ client = "absent" /\ sse = "none" /\ process = "none" /\ reader = "none"
  /\ done = FALSE /\ closed = FALSE
  /\ held = <<>> /\ messages = <<>> /\ sending = <<>> /\ stdin = <<>> /\ stdout = <<>>
  /\ produced = <<>> /\ delivered = <<>>

-----------------------------------------------------------------------------
(* handleSSE.                                                              *)

\* The server is spawned, the session registered, the reader started.
Spawn ==
  /\ sse = "none"
  /\ client' = "connected" /\ sse' = "streaming"
  /\ process' = "running" /\ reader' = "scanning"
  /\ UNCHANGED <<done, held, messages, closed, sending, stdin, stdout, produced,
                 delivered>>

SpawnFails ==
  /\ sse = "none"
  /\ sse' = "failed"
  /\ UNCHANGED <<client, process, done, reader, held, messages, closed, sending, stdin,
                 stdout, produced, delivered>>

\* h.sessions holds the session.
Registered == sse \in {"streaming", "writing", "returned"}

\* The select picks a message.
Take ==
  /\ sse = "streaming" /\ messages # <<>>
  /\ sse' = "writing"
  /\ sending' = <<Head(messages)>>
  /\ messages' = Tail(messages)
  /\ UNCHANGED <<client, process, done, reader, held, closed, stdin, stdout,
                 produced, delivered>>

\* Fprintf and Flush return: not while the client stalls, as the server sets
\* no WriteTimeout.  What is written after the client has left is lost.
Flush ==
  /\ sse = "writing" /\ client # "stalled"
  /\ sse' = "streaming"
  /\ delivered' = IF client = "left" THEN delivered ELSE delivered \o sending
  /\ sending' = <<>>
  /\ UNCHANGED <<client, process, done, reader, held, messages, closed, stdin,
                 stdout, produced>>

\* The other cases of the select: channel closed, server gone, client gone.
StreamEnds ==
  /\ sse = "streaming"
  /\ (messages = <<>> /\ closed) \/ done \/ client = "left"
  /\ sse' = "returned"
  /\ UNCHANGED <<client, process, done, reader, held, messages, closed, sending, stdin,
                 stdout, produced, delivered>>

\* The deferred function: first the session is taken from the map ...
DeleteSession ==
  /\ sse = "returned"
  /\ sse' = "deleted"
  /\ UNCHANGED <<client, process, done, reader, held, messages, closed, sending, stdin,
                 stdout, produced, delivered>>

\* ... then close() closes stdin and kills the server (ProcessDies).
CloseSession ==
  /\ sse = "deleted"
  /\ sse' = "closed"
  /\ UNCHANGED <<client, process, done, reader, held, messages, closed, sending, stdin,
                 stdout, produced, delivered>>

StdinOpen == sse # "closed" /\ process = "running"

-----------------------------------------------------------------------------
(* readFromServer.                                                         *)

\* Variant with a fault: the line is sent as a slice of the scanner's buffer
\* (Bytes for Text), and the next line overwrites what is still queued.
ScanInPlace ==
  /\ reader = "scanning" /\ stdout # <<>> /\ Head(stdout) \in Replies
  /\ reader' = "holding"
  /\ held' = <<Head(stdout)>>
  /\ messages' = [i \in DOMAIN messages |-> Head(stdout)]
  /\ stdout' = Tail(stdout)
  /\ UNCHANGED <<client, sse, process, done, closed, sending, stdin, produced, delivered>>

Scan ==
  /\ reader = "scanning" /\ stdout # <<>> /\ Head(stdout) \in Replies
  /\ reader' = "holding"
  /\ held' = <<Head(stdout)>>
  /\ stdout' = Tail(stdout)
  /\ UNCHANGED <<client, sse, process, done, messages, closed, sending, stdin, produced,
                 delivered>>

SkipLine ==
  /\ reader = "scanning" /\ stdout # <<>> /\ Head(stdout).kind = "junk"
  /\ stdout' = Tail(stdout)
  /\ UNCHANGED <<client, sse, process, done, reader, held, messages, closed, sending,
                 stdin, produced, delivered>>

\* Variant with a fault: a queue without a limit.
PutBeyondRoom ==
  /\ reader = "holding"
  /\ reader' = "scanning"
  /\ held' = <<>>
  /\ messages' = messages \o held
  /\ UNCHANGED <<client, sse, process, done, closed, sending, stdin, stdout, produced,
                 delivered>>

\* Variant with a fault: a full channel drops the line, as it does a denial.
PutOrDrop ==
  /\ reader = "holding"
  /\ reader' = "scanning"
  /\ held' = <<>>
  /\ messages' = IF Len(messages) < Room THEN messages \o held ELSE messages
  /\ UNCHANGED <<client, sse, process, done, closed, sending, stdin, stdout, produced,
                 delivered>>

Put ==
  /\ reader = "holding" /\ Len(messages) < Room
  /\ reader' = "scanning"
  /\ held' = <<>>
  /\ messages' = messages \o held
  /\ UNCHANGED <<client, sse, process, done, closed, sending, stdin, stdout, produced,
                 delivered>>

\* Variant with a fault: the reader waits for room in the channel only.
NeverGiveUp == FALSE /\ UNCHANGED sessionVars

\* It does not close the channel then.
GiveUp ==
  /\ reader = "holding" /\ done
  /\ reader' = "ended"
  /\ held' = <<>>
  /\ UNCHANGED <<client, sse, process, done, messages, closed, sending, stdin, stdout,
                 produced, delivered>>

\* End of the output, or a line too long to scan.
ReaderEnds ==
  /\ reader = "scanning"
  /\ \/ stdout = <<>> /\ process = "exited"
     \/ stdout # <<>> /\ Head(stdout).kind = "oversized"
  /\ reader' = "ended"
  /\ closed' = TRUE
  /\ UNCHANGED <<client, sse, process, done, held, messages, sending, stdin, stdout,
                 produced, delivered>>

-----------------------------------------------------------------------------
(* The server process, its exit and the client.                            *)

\* It reads a message and writes a line, or nothing.
ServerStep ==
  /\ process = "running" /\ stdin # <<>>
  /\ stdin' = Tail(stdin)
  /\ \/ UNCHANGED <<stdout, produced>>
     \/ /\ stdout' = Append(stdout, Reply(Head(stdin)))
        /\ produced' = Append(produced, Reply(Head(stdin)))
     \/ /\ \E l \in Lines \ Replies : stdout' = Append(stdout, l)
        /\ UNCHANGED produced
  /\ UNCHANGED <<client, sse, process, done, reader, held, messages, closed, sending, delivered>>

Exit ==
  /\ process = "running"
  /\ process' = "exited"
  /\ stdin' = <<>>
  /\ UNCHANGED <<client, sse, done, reader, held, messages, closed, sending, stdout,
                 produced, delivered>>

\* Killed by close() or because the context of the request ended.
Killed == (sse = "closed" \/ client = "left") /\ Exit

\* cmd.Wait closes the pipe: what the reader has not got from it is lost.
WaitReturns ==
  /\ process = "exited" /\ ~done
  /\ done' = TRUE
  /\ \E n \in 0..Len(stdout) : stdout' = SubSeq(stdout, 1, n)
  /\ UNCHANGED <<client, sse, process, reader, held, messages, closed, sending, stdin,
                 produced, delivered>>

\* It no longer reads, and the buffers of the connection are full ...
ClientStalls ==
  /\ client = "connected"
  /\ client' = "stalled"
  /\ UNCHANGED <<sse, process, done, reader, held, messages, closed, sending, stdin,
                 stdout, produced, delivered>>

\* ... until it reads again.
ClientResumes ==
  /\ client = "stalled"
  /\ client' = "connected"
  /\ UNCHANGED <<sse, process, done, reader, held, messages, closed, sending, stdin,
                 stdout, produced, delivered>>

ClientLeaves ==
  /\ client \in {"connected", "stalled"}
  /\ client' = "left"
  /\ UNCHANGED <<sse, process, done, reader, held, messages, closed, sending, stdin,
                 stdout, produced, delivered>>

Streaming == Take \/ StreamEnds
Ending == DeleteSession \/ CloseSession
Reading == Scan \/ SkipLine \/ Put \/ GiveUp \/ ReaderEnds
Serving == ServerStep \/ Exit
Client == ClientStalls \/ ClientResumes \/ ClientLeaves
=============================================================================
