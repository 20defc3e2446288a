---------------------------- MODULE TelegramBot ----------------------------
(***************************************************************************)
(* The Telegram channel: every update has a goroutine that finds the       *)
(* session of its user, aborts what the session is busy with, posts the    *)
(* text and sends the response, and the OpenCode server it talks to.       *)
(***************************************************************************)
EXTENDS Naturals, Sequences

CONSTANTS
  Messages,      \* the text messages that may be sent to the bot
  Sender,        \* the user each is from
  AllowedUsers,  \* the users the bot answers; empty: all of them
  MaxSessions,   \* bound on the sessions created
  NoSession      \* no session

ASSUME MaxSessionsAssumption == MaxSessions \in Nat

ASSUME NoSessionAssumption == NoSession \notin Nat

VARIABLES
  updates,       \* the goroutine of each message: its step and session
  sessions,      \* the session of each user, in the memory of the bot
  prompts,       \* OpenCode: the prompts of each session, the first one running
  created,       \* OpenCode: how many sessions it has created
  known          \* OpenCode: the sessions it still has

botVars == <<updates, sessions, prompts, created, known>>

Users == {Sender[m] : m \in Messages}

SessionIDs == 1..MaxSessions

Steps ==
  {"unsent", "arrived", "lookup", "create", "store", "status", "abort", "post",
   "wait", "reply", "replied", "silent", "lost"}

BotTypeOK ==
  /\ updates \in [Messages -> [pc : Steps, session : SessionIDs \union {NoSession}]]
  /\ sessions \in [Users -> SessionIDs \union {NoSession}]
  /\ prompts \in [SessionIDs -> Seq(Messages)]
  /\ created \in 0..MaxSessions /\ known \subseteq 1..created

BotInit ==
  /\ updates = [m \in Messages |-> [pc |-> "unsent", session |-> NoSession]]
  /\ sessions = [u \in Users |-> NoSession]
  /\ prompts = [s \in SessionIDs |-> <<>>]
  /\ created = 0 /\ known = {}

Goto(m, pc) == updates' = [updates EXCEPT ![m].pc = pc]

Session(m) == updates[m].session

\* The webhook is answered at once, and a goroutine started.
HandleWebhook(m) ==
  /\ updates[m].pc = "unsent" /\ Goto(m, "arrived")
  /\ UNCHANGED <<sessions, prompts, created, known>>

\* Who is not allowed gets a refusal; the others see the bot typing.
CheckUser(m) ==
  /\ updates[m].pc = "arrived"
  /\ Goto(m, IF AllowedUsers = {} \/ Sender[m] \in AllowedUsers THEN "lookup" ELSE "reply")
  /\ UNCHANGED <<sessions, prompts, created, known>>

\* Mutant: the bot has one session for all.
LookupAnySession(m) ==
  LET s == CHOOSE t \in {sessions[u] : u \in Users} : TRUE IN
  /\ updates[m].pc = "lookup"
  /\ updates' = [updates EXCEPT ![m] = [pc |-> IF s = NoSession THEN "create" ELSE "status",
                                        session |-> s]]
  /\ UNCHANGED <<sessions, prompts, created, known>>

LookupSession(m) ==
  LET s == sessions[Sender[m]] IN
  /\ updates[m].pc = "lookup"
  /\ updates' = [updates EXCEPT ![m] = [pc |-> IF s = NoSession THEN "create" ELSE "status",
                                        session |-> s]]
  /\ UNCHANGED <<sessions, prompts, created, known>>

\* The session is created without the lock, so that two may be.
CreateSession(m) ==
  /\ updates[m].pc = "create" /\ created < MaxSessions
  /\ created' = created + 1 /\ known' = known \union {created + 1}
  /\ updates' = [updates EXCEPT ![m] = [pc |-> "store", session |-> created + 1]]
  /\ UNCHANGED <<sessions, prompts>>

\* The later one is kept, whoever was first.
StoreSession(m) ==
  /\ updates[m].pc = "store"
  /\ sessions' = [sessions EXCEPT ![Sender[m]] = Session(m)]
  /\ Goto(m, "status")
  /\ UNCHANGED <<prompts, created, known>>

In(m, queue) == \E i \in DOMAIN queue : queue[i] = m

Busy(s) == prompts[s] # <<>>

GetStatus(m) ==
  /\ updates[m].pc = "status"
  /\ Goto(m, IF Busy(Session(m)) THEN "abort" ELSE "post")
  /\ UNCHANGED <<sessions, prompts, created, known>>

\* Whatever runs in the session by now is aborted; who waits for it is told.
Abort(m) ==
  LET s == Session(m) IN
  /\ updates[m].pc = "abort"
  /\ prompts' = [prompts EXCEPT ![s] = <<>>]
  /\ updates' = [n \in Messages |->
       CASE n = m -> [updates[n] EXCEPT !.pc = "post"]
         [] In(n, prompts[s]) /\ updates[n].pc = "wait" -> [updates[n] EXCEPT !.pc = "reply"]
         [] OTHER -> updates[n]]
  /\ UNCHANGED <<sessions, created, known>>

\* A session that got busy again refuses the prompt, or takes it in turn; one
\* that OpenCode no longer has is an error.
Post(m) ==
  LET s == Session(m) IN
  /\ updates[m].pc = "post"
  /\ \/ /\ s \in known
        /\ prompts' = [prompts EXCEPT ![s] = Append(@, m)]
        /\ Goto(m, "wait")
     \/ /\ s \notin known \/ Busy(s)
        /\ Goto(m, "reply") /\ UNCHANGED prompts
  /\ UNCHANGED <<sessions, created, known>>

\* Mutant: the HTTP client has no timeout.
NoTimeout(m) == FALSE /\ UNCHANGED botVars

\* Every call to OpenCode ends after two minutes; without a status the text is
\* posted all the same, and what was posted goes on without a reader.
ClientTimesOut(m) ==
  /\ updates[m].pc \in {"create", "status", "abort", "post", "wait"}
  /\ Goto(m, IF updates[m].pc \in {"status", "abort"} THEN "post" ELSE "reply")
  /\ UNCHANGED <<sessions, prompts, created, known>>

\* The response, or an apology, is sent to the chat.
Reply(m) ==
  /\ updates[m].pc = "reply" /\ Goto(m, "replied")
  /\ UNCHANGED <<sessions, prompts, created, known>>

\* Telegram refuses the text (it is sent as Markdown), or there is none.
ReplyRefused(m) ==
  /\ updates[m].pc = "reply" /\ Goto(m, "silent")
  /\ UNCHANGED <<sessions, prompts, created, known>>

Working(m) == updates[m].pc \notin {"unsent", "replied", "silent", "lost"}

\* The shutdown waits for HTTP handlers, not for goroutines; the sessions are
\* only in memory.
BotRestarts ==
  /\ updates' = [m \in Messages |->
       IF Working(m) THEN [updates[m] EXCEPT !.pc = "lost"] ELSE updates[m]]
  /\ sessions' = [u \in Users |-> NoSession]
  /\ UNCHANGED <<prompts, created, known>>

-----------------------------------------------------------------------------
\* OpenCode ends its work on a prompt and answers who waits.
Respond(s) ==
  /\ Busy(s)
  /\ prompts' = [prompts EXCEPT ![s] = Tail(@)]
  /\ LET m == Head(prompts[s]) IN
     updates' = [updates EXCEPT ![m].pc = IF @ = "wait" THEN "reply" ELSE @]
  /\ UNCHANGED <<sessions, created, known>>

\* OpenCode restarts: the prompts are gone, and what it has no disk for.
OpenCodeRestarts ==
  /\ prompts' = [s \in SessionIDs |-> <<>>]
  /\ updates' = [m \in Messages |->
       IF updates[m].pc = "wait" THEN [updates[m] EXCEPT !.pc = "reply"] ELSE updates[m]]
  /\ UNCHANGED <<sessions, created, known>>

ForgetSessions ==
  /\ known # {} /\ \A s \in SessionIDs : ~Busy(s)
  /\ known' = {}
  /\ UNCHANGED <<updates, sessions, prompts, created>>

Goroutine(m) ==
  \/ CheckUser(m) \/ LookupSession(m) \/ CreateSession(m) \/ StoreSession(m)
  \/ GetStatus(m) \/ Abort(m) \/ Post(m) \/ ClientTimesOut(m) \/ Reply(m)
=============================================================================
