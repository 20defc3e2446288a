---------------------------- MODULE Conversation ----------------------------
(***************************************************************************)
(* A conversation: messages come in through the Telegram bot, OpenCode     *)
(* works on them and calls a tool, and the tool server of the Capability   *)
(* answers, or a client talks to the tool server directly.                 *)
(***************************************************************************)
EXTENDS TelegramBot, ToolServers

CONSTANT Setups   \* which messages come, which server there is, the lines of a
                  \* direct client, the calls of OpenCode, a bound on the faults

ASSUME SetupsAssumption ==
  Setups \subseteq [messages : SUBSET Messages, kind : Kinds, lines : SUBSET Lines,
                    calls : SUBSET Lines, mishaps : Nat]

VARIABLES
  setup,     \* the setup this behaviour is about
  calls,     \* the call OpenCode has made for each message, 0 for none
  mishaps    \* how many faults there were

vars == <<setup, calls, mishaps, botVars, toolVars>>

TypeOK ==
  /\ setup \in Setups /\ mishaps \in 0..setup.mishaps
  /\ calls \in [Messages -> 0..Len(sent)]
  /\ BotTypeOK /\ ToolTypeOK

Init ==
  /\ setup \in Setups /\ mishaps = 0
  /\ calls = [m \in Messages |-> 0]
  /\ BotInit /\ ToolInit /\ kind = setup.kind

Mishap == mishaps < setup.mishaps /\ mishaps' = mishaps + 1

AnswerIs(p) == \E i \in DOMAIN answers : answers[i] = p

\* OpenCode calls a tool for the prompt it works on.
CallTool(s) ==
  /\ Busy(s) /\ calls[Head(prompts[s])] = 0
  /\ \E line \in setup.calls : Send(line)
  /\ calls' = [calls EXCEPT ![Head(prompts[s])] = Len(sent) + 1]
  /\ UNCHANGED <<setup, mishaps, botVars>>

\* It responds once its call is answered, or its tool server is gone.
OpenCodeResponds(s) ==
  /\ Busy(s)
  /\ LET p == calls[Head(prompts[s])] IN p = 0 \/ AnswerIs(p) \/ ended \in {"drained", "cut"}
  /\ Respond(s)
  /\ UNCHANGED <<setup, calls, mishaps, toolVars>>

Bot(m) == Goroutine(m) /\ UNCHANGED <<setup, calls, mishaps, toolVars>>

Server == (Exec \/ Bridge) /\ UNCHANGED <<setup, calls, mishaps, botVars>>

Client ==
  /\ setup.lines # {}
  /\ CloseStdin \/ \E line \in setup.lines : Send(line)
  /\ UNCHANGED <<setup, calls, mishaps, botVars>>

Telegram ==
  /\ \E m \in setup.messages : HandleWebhook(m)
  /\ UNCHANGED <<setup, calls, mishaps, toolVars>>

Faults ==
  /\ Mishap
  /\ \/ /\ BotRestarts \/ OpenCodeRestarts \/ ForgetSessions
           \/ \E m \in Messages : ReplyRefused(m)
        /\ UNCHANGED toolVars
     \/ Signalled /\ UNCHANGED botVars
  /\ UNCHANGED <<setup, calls>>

Next ==
  \/ \E m \in Messages : Bot(m)
  \/ \E s \in SessionIDs : CallTool(s) \/ OpenCodeResponds(s)
  \/ Server \/ Client \/ Telegram \/ Faults
  \/ ChildEnds /\ UNCHANGED <<setup, calls, mishaps, botVars>>

(***************************************************************************)
(* Fairness: goroutines and handlers take their steps, HTTP calls to       *)
(* OpenCode and commands reach their deadline, Telegram answers, and tools *)
(* that end by themselves do.  Nothing is assumed of OpenCode, of the      *)
(* client, of a child that holds an output, and of faults.                 *)
(***************************************************************************)
Fairness ==
  /\ \A m \in Messages : WF_vars(Bot(m))
  /\ WF_vars(Exec /\ UNCHANGED <<setup, calls, mishaps, botVars>>)
  /\ WF_vars((BridgeLoads \/ BridgeReads \/ BridgeEnds)
               /\ UNCHANGED <<setup, calls, mishaps, botVars>>)
  /\ \A p \in 1..MaxRequests :
       WF_vars(p \in running /\ sent[p] # "endless" /\ BridgeReplies(p)
                 /\ UNCHANGED <<setup, calls, mishaps, botVars>>)

Spec == Init /\ [][Next]_vars /\ Fairness

-----------------------------------------------------------------------------
Wanted(p) == p \in DOMAIN sent /\ WantsAnswer(sent[p])

\* The tool behind a call to the bridge never ends: the bridge has no deadline.
NeverEnds(p) == kind = "bridge" /\ p \in DOMAIN sent /\ sent[p] = "endless"

\* Users are kept apart: a session has prompts of one user, also when two were
\* created at once, so that no message is aborted by somebody else's
\* (opencode.go:75-96, 175-188).
SessionsAreApart ==
  /\ \A s \in SessionIDs : \A i, j \in DOMAIN prompts[s] :
       Sender[prompts[s][i]] = Sender[prompts[s][j]]
  /\ \A m, n \in Messages :
       Session(m) # NoSession /\ Session(m) = Session(n) => Sender[m] = Sender[n]

\* Who writes to the bot is answered, whatever the agent and its tools do,
\* unless the bot restarts or Telegram refuses the answer
\* (handler.go:86-140, opencode.go:29-32).
MessagesAnswered ==
  \A m \in Messages :
    updates[m].pc = "arrived"
      ~> updates[m].pc = "replied" \/ (updates[m].pc \in {"lost", "silent"} /\ mishaps > 0)

\* A call is answered, also behind a command that never ends and has to be
\* killed, unless the server is ended, the tool itself never ends in the
\* bridge, or the child of a command holds its output for ever
\* (mcp-exec-server main.go:354-377, 503-526; tool-bridge.ts:357-394).
CallsAnswered ==
  <>[]process.held
  \/ \A p \in 1..MaxRequests :
       Wanted(p) ~> AnswerIs(p) \/ ended = "cut" \/ NeverEnds(p)
=============================================================================
