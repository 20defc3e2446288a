------------------------------ MODULE Gateway ------------------------------
(***************************************************************************)
(* The capability gateway: a session, the requests that post messages to   *)
(* it (handleMessage, a goroutine each), the rate limiter that charges     *)
(* them and the watcher whose rules they are checked against.              *)
(***************************************************************************)
EXTENDS RateLimiter, ConfigWatcher, McpSession

CONSTANT SessionId   \* the key of the session; the other keys have none

ASSUME GatewayAssumption == SessionId \in Keys

\* Each request: where it is, then its answer; the key it names; and, as a
\* history, whether some rules in force since its post allowed it.
VARIABLE call

vars == <<limiterVars, watcherVars, sessionVars, call>>

Answers == {"202", "400", "404", "429", "500", "denied", "aborted"}

CallTypeOK ==
  call \in [Calls -> [pc : {"idle", "admitted", "found", "cleared"} \union Answers,
                      key : Keys, allowed : BOOLEAN]]

TypeOK == LimiterTypeOK /\ WatcherTypeOK /\ SessionTypeOK /\ CallTypeOK

\* main loads the rules before the server listens.
Init ==
  /\ LimiterInit /\ WatcherInit /\ SessionInit
  /\ call = [c \in Calls |-> [pc |-> "idle", key |-> SessionId, allowed |-> FALSE]]

Listening == ~config.watch \/ watcher \in {"watching", "failed"}

Denied(c) == c \in Rules

Request(c, k, pc) ==
  call' = [call EXCEPT ![c] = [pc |-> pc, key |-> k, allowed |-> ~Denied(c)]]

Goto(c, pc) == call' = [call EXCEPT ![c].pc = pc]

-----------------------------------------------------------------------------
(* handleMessage, step by step.                                            *)

\* The limiter is asked before the session is looked up.
Post(c, k) ==
  /\ Listening
  /\ call[c].pc = "idle" /\ c \in config.calls
  /\ \/ /\ Unlimited
        /\ Request(c, k, "admitted")
        /\ UNCHANGED limiterVars
     \/ /\ Allow(k)
        /\ Request(c, k, "admitted")
     \/ /\ Exceeded(k)
        /\ Request(c, k, "429")
        /\ UNCHANGED limiterVars
  /\ UNCHANGED <<watcherVars, sessionVars>>

LookUp(c) ==
  /\ call[c].pc = "admitted"
  /\ Goto(c, IF Registered /\ call[c].key = SessionId THEN "found" ELSE "404")
  /\ UNCHANGED <<limiterVars, watcherVars, sessionVars>>

\* The body cannot be read or is no JSON.
BadRequest(c) ==
  /\ call[c].pc = "found"
  /\ Goto(c, "400")
  /\ UNCHANGED <<limiterVars, watcherVars, sessionVars>>

Clear(c) ==
  /\ call[c].pc = "found" /\ ~Denied(c)
  /\ Goto(c, "cleared")
  /\ UNCHANGED <<limiterVars, watcherVars, sessionVars>>

\* Variant with a fault: a denial that finds no room lets the call through.
DenyIfRoom(c) ==
  /\ call[c].pc = "found" /\ Denied(c) /\ ~closed
  /\ \/ Len(messages) < Room /\ messages' = Append(messages, Denial(c)) /\ Goto(c, "denied")
     \/ Len(messages) = Room /\ UNCHANGED messages /\ Goto(c, "cleared")
  /\ UNCHANGED <<limiterVars, watcherVars, client, sse, process, done, reader, held,
                 closed, sending, stdin, stdout, produced, delivered>>

\* The error is put on the channel, or dropped if the channel is full.
Deny(c) ==
  /\ call[c].pc = "found" /\ Denied(c) /\ ~closed
  /\ \/ Len(messages) < Room /\ messages' = Append(messages, Denial(c))
     \/ Len(messages) = Room /\ UNCHANGED messages
  /\ Goto(c, "denied")
  /\ UNCHANGED <<limiterVars, watcherVars, client, sse, process, done, reader, held,
                 closed, sending, stdin, stdout, produced, delivered>>

\* A send on the closed channel panics; the HTTP server drops the connection.
DenyPanics(c) ==
  /\ call[c].pc = "found" /\ Denied(c) /\ closed
  /\ Goto(c, "aborted")
  /\ UNCHANGED <<limiterVars, watcherVars, sessionVars>>

\* The write blocks while the pipe is full.
Forward(c) ==
  /\ call[c].pc = "cleared"
  /\ StdinOpen /\ Len(stdin) < PipeRoom
  /\ stdin' = Append(stdin, c)
  /\ Goto(c, "202")
  /\ UNCHANGED <<limiterVars, watcherVars, client, sse, process, done, reader, held,
                 messages, closed, sending, stdout, produced, delivered>>

ForwardFails(c) ==
  /\ call[c].pc = "cleared"
  /\ ~StdinOpen
  /\ Goto(c, "500")
  /\ UNCHANGED <<limiterVars, watcherVars, sessionVars>>

Handling(c) ==
  \/ LookUp(c) \/ BadRequest(c) \/ Clear(c) \/ Deny(c) \/ DenyPanics(c)
  \/ Forward(c) \/ ForwardFails(c)

-----------------------------------------------------------------------------
Connect == Listening /\ ((config.command /\ Spawn) \/ SpawnFails)

Others == <<limiterVars, watcherVars, call>>

Session ==
  /\ \/ Connect \/ Streaming \/ Flush \/ Ending \/ Reading
     \/ Serving \/ Client \/ Killed \/ WaitReturns
  /\ UNCHANGED Others

Watch(A) ==
  /\ config.watch
  /\ A
  /\ call' = [c \in Calls |->
                [pc |-> call[c].pc, key |-> call[c].key,
                 allowed |-> call[c].allowed \/ (call[c].pc # "idle" /\ ~Denied(c)')]]
  /\ UNCHANGED <<limiterVars, sessionVars>>

Clock == ~Unlimited /\ Tick /\ UNCHANGED <<watcherVars, sessionVars, call>>

Next ==
  \/ \E c \in Calls, k \in Keys : Post(c, k)
  \/ \E c \in Calls : Handling(c)
  \/ Session
  \/ Watch(Watching \/ WriteFile)
  \/ Clock

Spec == Init /\ [][Next]_vars

(***************************************************************************)
(* Fairness: every goroutine that can go on does, the watcher's loop too;  *)
(* a killed process ends and is waited for.  The write to the client is    *)
(* strongly fair, because a client that reads again and again empties the  *)
(* buffers it is blocked on.  Nothing is assumed of the server, of the     *)
(* client (it may stall for ever), of the posts and of the file's changes. *)
(***************************************************************************)
InSession(A) == A /\ UNCHANGED Others

Fairness ==
  /\ \A c \in Calls : WF_vars(Handling(c))
  /\ WF_vars(InSession(Streaming)) /\ SF_vars(InSession(Flush))
  /\ WF_vars(InSession(Ending))
  /\ WF_vars(InSession(Reading))
  /\ WF_vars(InSession(Killed)) /\ WF_vars(InSession(WaitReturns))
  /\ WF_vars(Watch(Watching))

FairSpec == Spec /\ Fairness

-----------------------------------------------------------------------------
IsReply(m) == m.kind = "reply"

\* t is what remains of s without what is no reply.
AreReplies(t, s) ==
  \E at \in [DOMAIN t -> DOMAIN s] :
    /\ \A i, j \in DOMAIN t : i < j => at[i] < at[j]
    /\ \A i \in DOMAIN t : t[i] = s[at[i]]
    /\ \A p \in DOMAIN s : IsReply(s[p]) <=> \E i \in DOMAIN t : at[i] = p

\* The replies in s are the first ones the server wrote.
FirstReplies(s) ==
  \E n \in 0..Len(produced) : AreReplies(SubSeq(produced, 1, n), s)

\* The client receives the replies of the server in the order they were
\* written, without a gap: what a dying session loses is the end of the
\* sequence (handler.go:141-164, 425-474).
RepliesInOrder == FirstReplies(delivered)

\* Nothing is lost while the server is alive: every reply is delivered or
\* under way, however full the channel.
NoReplyLost ==
  client \in {"connected", "stalled"} /\ ~done =>
    AreReplies(produced, delivered \o sending \o messages \o held \o stdout)

\* A call that every rule set in force since its post denies does not reach
\* the server, whether or not the client can be told so
\* (handler.go:235-240, 335-345).
DeniedStaysOut ==
  \A c \in Calls : call[c].pc \in {"202", "500"} => call[c].allowed

\* A session is over: the server is gone, no goroutine is left behind, no
\* request hangs.
SessionOver ==
  /\ process = "exited" /\ done
  /\ sse = "closed" /\ reader = "ended"
  /\ \A c \in Calls : call[c].pc \in Answers \union {"idle"}

\* handleSSE is stuck in a write to a client that stalls.
Stuck == client = "stalled" /\ sse = "writing"

\* A session whose client has left or whose server has exited comes to an
\* end, unless its handler hangs for ever in a write to a client that
\* neither reads nor leaves (handler.go:114-117, 141-164, 425-482).
SessionCleansUp ==
  (client = "left" \/ process = "exited") ~> (SessionOver \/ []Stuck)
=============================================================================
