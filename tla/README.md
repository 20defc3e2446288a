# The agent operator, specified

This directory specifies the *agent operator*: a Kubernetes operator whose users
declare `Agent`s with their `Capability`s and Git workspaces, and `Workflow`s (a
list of steps, each a prompt for an agent); whose events and schedules create
`WorkflowRun`s; and whose controllers make each Agent ready and drive each run to
its end.  Five models cover five protocols of it: the **life of a run**, the
**gateway** between an agent and its tools, the **readiness** of an Agent, the **intake**
of work (webhooks, schedules, and the kinds a user declares), and a **conversation**
from a chat message to a tool and back.  The modules are translated from the Go and
TypeScript source under `src/`; TLC checks them on small instances and TLAPS proves
the central theorems for every instance.

## 1. The system

| Part | Source | State it keeps | Operations | Modelled by |
|---|---|---|---|---|
| WorkflowRun controller | `internal/controller/workflowrun_controller.go` | the status of the run: phase, CurrentStep, a result per step | reconcile: initialize, evaluate a condition, mark running, start or poll a session, complete, skip, fail, send outputs, succeed | `WorkflowRun`, `RunStatus` |
| Pi Jobs | `internal/controller/workflowrun_piagent.go` | one Job per step, its name in the result | create (or adopt) a Job, poll it, read its log | `WorkflowRun` |
| Callback handler | `internal/webhook/callback.go` | none of its own: it appends trace events to the status of a run | one HTTP post, three attempts | `CallbackHandler` |
| pi-runner | `images/pi-runner/src/runner.ts` | - | posts each trace event once, prints it to its log as well | `CallbackHandler` (`Post`, `Drop`) |
| API server, informer caches | external; used by all | versions of each object | conditional update, delivery to the cache | `RunStore` |
| Operator process | `cmd/operator/main.go` | - | starts all controllers and HTTP servers in one process, with one cache | `RunSystem` (`Restart`) |
| Webhook server | `internal/webhook/server.go` | none; reads Workflows from the cache | match a delivery, create a run of each Workflow that matches | `WebhookServer` |
| Workflow controller | `internal/controller/workflow_controller.go` | the Ready condition, counts of runs, the CronJob of a schedule | reconcile: check the references, write the CronJob, report | `WorkflowTriggers` |
| Capability gateway | `pkg/gateway`, `cmd/capability-gateway` | rate-limit buckets, deny rules, sessions with goroutines and a server process | open a stream, post a message, check it, forward it, reload the rules | `RateLimiter`, `ConfigWatcher`, `McpSession`, `Gateway` |
| Agent controller | `internal/controller/agent_controller.go` | phase and conditions; a ConfigMap and a Deployment | reconcile: check capabilities, create and check workspaces, build, apply, report | `AgentReadiness` |
| Capability controller | `internal/controller/capability_controller.go` | phase, usedBy; the Deployment of an MCP server | reconcile: validate, run the server, report | `Capabilities` |
| GitRepo controller | `internal/controller/gitworkspace_controller.go` | phase, discovered repositories | reconcile: validate, discover, again after a while | `GitSync` |
| GitWorkspace controller | same file | phase; the Deployment that clones | reconcile: find the repository, clone, report; `EnsureGitWorkspace` | `GitSync`, `AgentReadiness` |
| Caches, watches, work queues | external (controller-runtime); `SetupWithManager` of each controller | cached objects, queued keys, timers | deliver an event, map it to keys | `Cluster` |
| PiAgent controller | `internal/controller/piagent_controller.go` | a verdict | reconcile: validate source, providers, tools; write the verdict | `PiAgents` |
| Channel controller | `internal/controller/channel_controller.go`, `internal/resources/channel.go` | phase and URL; a Deployment, a Service, an Ingress | reconcile: find the Agent, apply the three, report | `Channels` |
| Telegram channel | `channels/telegram` | the session of each user, in memory; a goroutine per update | answer a webhook, find or create a session, abort, post, reply | `TelegramBot` |
| MCP exec server | `images/mcp-exec-server/main.go` | the command it runs | read a line, run the command, answer, one after the other | `ToolServers` |
| Tool bridge | `images/tool-bridge/src/tool-bridge.ts` | the calls in flight | read a line, call the tool, answer, all at once | `ToolServers` |
| OCI and forge clients, command validator, builders of manifests | `pkg/oci`, `internal/forge`, `pkg/cmdvalidator`, `internal/resources` | - | pure functions and single HTTP calls | left out but for their outcomes, section 8 |

How the parts interact: the webhook server (or a CronJob) *creates* a run; the
WorkflowRun controller is *called back* by its work queue until the run is
terminal; for a step of an Agent it calls the OpenCode server of the agent over
HTTP (create a session, send the prompt, poll, fetch); for a step of the Pi
runtime it creates a Job, whose pod posts trace events to the callback handler
and leaves its output in its log.  Reconciler and callback handlers *share* one
object, the status of the run, and one cache.  The capability gateway is a process
of its own: an MCP client opens a stream to it and posts messages; the gateway
spawns a server per stream, forwards what the rate limit and the deny rules let
through to its stdin, and streams its stdout back.  That server is the exec server or the tool
bridge.  The Telegram bot talks to the OpenCode server of an Agent as the WorkflowRun
controller does.  The controllers of Agents,
Capabilities, GitRepos and GitWorkspaces never call each other: each reads the
others' statuses from the cache and relies on *watches* to be woken when they
change; only the Agent controller also creates an object of another controller's
kind (a GitWorkspace).  Those of Workflows, PiAgents and Channels read an Agent, a
ConfigMap or a Secret the same way, but only the Channel controller watches any of them.

What is hard here, and what the properties are about:

* **two writers of one status** from copies of different age, with optimistic
  concurrency at the API server as their only protection;
* **a cache that lags**: a reconcile may read the run as it was before its own
  last write, and may not see the Job it just created;
* **non-atomic sequences**: the Job before its name, the prompt before the
  sessionID, the result of a step before CurrentStep, the outputs before the
  Succeeded phase; a restart or a refused write may fall between any two;
* **lost answers**: a write may have happened although the call failed;
* **retries**: three attempts of a handler, every reconcile a retry of the last;
* **Workflows that change** while a run walks over them;
* controllers that **wait for each other's statuses**: a wake-up that no watch
  delivers is lost for ever, and one that each write delivers may never end;
* **deliveries** that are matched with a cache, start several runs one by one, are cut off
  between two of them and sent again;
* **edits** of what is being reconciled, by users, by other people's hands on what a
  controller owns, and refusals of the API server that never go away;
* **one goroutine per message** over one table of sessions, and an abort that is decided
  on an older answer than it is sent on;
* a server that **waits for a pipe** that a command, or a child of it, holds open;
* in the gateway, **goroutines that end at different times** around one bounded
  channel, one pipe and one process, and **rules that change** under a request.

## 2. The modules

```
  RunStatus    the status of a run and every edit the code makes to it; templates, conditions
      |
  RunStore     the API server's object and the lagging cache: Persist, IsLatest, CacheSync
     / \
WorkflowRun   CallbackHandler     the reconciler with Jobs and sessions | the HTTP handlers
     \ /
  RunSystem    their composition, Restart, fairness, the properties
      |                        \ INSTANCE ... WITH
  MCRunSystem (constants)     RunLifecycle   the abstract life of a run


RateLimiter   ConfigWatcher   McpSession     buckets | rules and reload | one session's goroutines
          \        |        /
              Gateway                        the requests (handleMessage), composition, properties
                 |
             MCGateway (constants)


Cluster          the API server's objects, the cache, watches, queues, timers
   |
Capabilities     capability controller and its servers
   |
AgentReadiness   agent controller, EnsureGitWorkspace
   |
GitSync          GitRepo and GitWorkspace controllers, the pods that clone
   |
Readiness        the workers together, users, pods, Restart, fairness, properties
   |
MCReadiness (constants)


ApiObjects         objects, cache, queue, the writes of a controller, edits of users
   |      \        \
WorkflowTriggers  PiAgents  Channels        a controller each
   |              /         /
WebhookServer    /         /                the HTTP handlers that create runs
          \     /         /
           Intake                           their composition, Restart, properties
             |
          MCIntake (constants)


TelegramBot   ToolServers --INSTANCE ... WITH--> RequestReply     (what a server promises)
        \      /
      Conversation                          OpenCode between them, faults, fairness, properties
            |
     MCConversation (constants)
```

Proofs, each module over the one it is named after: `SeqFacts` (facts on `Append`, `Len`,
`EXCEPT`), `RunLifecycleProofs`, `RunSystemProofs` (the edits of a status, type correctness,
copies in flight, terminal runs, events, write-ahead, Jobs), `RunOrderProofs` (the order of the
steps and the refinement of `RunLifecycle`, on top of `RunSystemProofs`), `GatewayProofs` (rate limiter, deny
rules, the flow of replies), `ReadinessProofs`, `IntakeProofs`, `ConversationProofs` (tool
servers, sessions).

### State and code

* `versions` (RunStore) are the statuses from the one in the informer cache (`seen`) to
  the one at the API server (`rv`, its resourceVersion).  `Persist(st)` is an accepted
  `Status().Update`, which `IsLatest` allows only for a copy of the latest version.  The cache may be up to `MaxLag` versions behind.
* `ctl` (WorkflowRun) is the one reconcile that can be under way (controller-
  runtime never runs two for one key): where it is (`idle`, `begun`, `write`,
  `outputs`), the copy it read with its version, what it will do after a write.
  Between `begun` and `write` lies everything the reconciler does outside the
  API server, one action per branch of the code (`SkipStep`, `StartStep`,
  `CreateJob`, `AdoptJob`, `JobSucceeded`, `StartSession`, `SessionFinished`...).
  The write itself has three outcomes (`UpdateOk`, `UpdateConflict`,
  `UpdateError`); the last may or may not have reached the server.
* `jobs`, `prompts`, `created`, `outputs`, `expired`, `edits` are the world: the
  Jobs by *name* (two steps may share one), and how often the code has executed
  what.  They are what the properties compare the status with.
* `req[e]` (CallbackHandler) is the post of event `e`: idle, posted, held (the
  handler has read a copy and appended to it), retry, accepted, refused or dropped.

* `logs[j]` (WorkflowRun) is what the pod of Job `j` has printed: a line for each event the runner
  posts (`Logged(e)`), the same event that the post brings (`Posted(e)`); the results keep of
  each stored event which way it came.

* `sse`, `reader`, `process`, `done`, `closed` (McpSession) are the three
  goroutines of a session, its server and the two Go channels they signal each
  other with; `sse` is `writing` while the handler is in the write of a message to the
  client, which does not return as long as the `client` is `stalled`; `messages`, `stdin`, `stdout` the queues between them, `held` the line
  the reader is blocked on.  `produced` and `delivered` are histories.
* `call[c]` (Gateway) is the goroutine of one POST, from the limiter to its
  answer.  A call whose session's server reads its message is `stdin`'s head.
* `loaded`, `file`, `event`, `pending` (ConfigWatcher) are the rules in memory, those
  on disk, fsnotify's event and the debounce timer; rules are the set of the
  calls they deny.
* `buckets`, `now` (RateLimiter) are the map of the limiter and a clock in ticks.

* `stored` (Cluster) are the objects at the API server, `seen` those in the cache;
  `Deliver(o)` is an informer's event, which puts on `queue` the keys that `Itself`
  (For), `Owner` (Owns) and `Watchers` (Watches) map the object to.  `behind` are the objects with
  a version the cache has not seen; it stands for the resourceVersions, and values would not do
  in its place: an object that is deleted and created again, or changed and changed back, has its
  old value and a new version.  A write of an object read from the cache succeeds if the cache is
  current (`Update`), a creation if there is none.  `timers` are the keys with a RequeueAfter.  Each controller has one worker
  (`capWork`, `agentWork`, `repoWork`, `workspaceWork`), whose steps are the reads and writes
  of its Reconcile in their order.
* `refs` is what an Agent refers to and, per setup, how many `mishaps` (edits,
  deletions, failures, restarts) TLC may let happen.  `leftOut` (what was not to be had when the
  ConfigMap, and when the Deployment of an Agent was last made: a failed pull, a ConfigMap that could
  not be read) and `cloned` are histories.
* `usedBy` of a Capability is a sequence: `UserLists` has the Agents of the cache in every order, as
  the cache lists the keys of a Go map, and `CapStatus` compares it with the stored one as it is.
* Every status write of a GitRepo or GitWorkspace sets its LastTransitionTime anew, and is thus a
  `Touch`: a new version, and an event, although nothing but the time may differ.

* `stored`, `seen`, `queue` (ApiObjects) are again the objects, their cached copies and the
  keys to reconcile; a failed reconcile leaves its key on the queue (`Requeued`), and
  controller-runtime's back-off is no more than that.  `Wakes` is `For`, `Owns` and `Watches` of
  the three controllers.  `behind` is the one of `Cluster`: a `Write` of the value that is there
  makes no version, as at the API server, and a `Touch` makes one although nothing but a time
  differs.
* `wfWork`, `piWork`, `channelWork` are the one worker of each controller: its step and the
  copy of the spec it works on.  Each step is one read or one write of Reconcile.
* `http[d]` (WebhookServer) is the handler of a delivery: which Workflows it matched, which
  are still to get a run, how many it counts; `runs` are the runs created, each with the
  delivery that caused it, or `NoCause` when a CronJob did.
* `updates[m]` (TelegramBot) is the goroutine of a message and the session it works with,
  `sessions` the table of the bot; `prompts`, `created` and `known` are the OpenCode server.
* `sent`, `taken`, `running`, `answers` (ToolServers) are the lines on the stdin of a server, how
  many it has read, which it works on and in which order it has answered; `process` is the
  command of the exec server and whether a child of it holds the stdout.  A line is one of
  the kinds the code tells apart (`Lines`).
* `calls[m]` (Conversation) is the line OpenCode sent for message `m`.

Text is abstract: an output is `none`, `match` (what the conditions look for) or `other`,
together with the step whose prompt it answers; a template parses or not, and renders unless it
indexes into a field that is not there (a missing key alone is rendered as `<no value>`); a condition looks at the output of an earlier step.

## 3. What the runs check

| Run | Instance | Shows |
|---|---|---|
| `core` | `MCCore`: two steps, agent and Pi in either order, with a condition, a template and `continueOnError`, and both simple modes; one event; lag 1; restarts at any time; one edit of the Workflow at any time, into more or fewer steps, the other mode, or away | the safety of a run: copies in flight, write-ahead, one Job per step, skipped steps, outputs, the meaning of Succeeded, a terminal run stays as it is |
| `callbacks` | one Pi step, two events racing each other and the copy of the log; lag 1 | what was accepted is stored, no post and no line of the log is stored twice, no write overwritten |
| `live` | all modes and kinds, `FairSpec` | a run implements `RunLifecycle`; its steps are dispatched in order and record their own output; every run ends or is `LeftBehind` |
| `intake` | one setup per part: a scheduled Workflow, three sets of deliveries, a PiAgent, a Channel; one to three edits, failures, foreign changes or restarts at any time | no edit is lost by the controllers of Workflows, PiAgents and Channels; a delivery starts a Workflow once at most, and only one that matched; a Service does not run ahead of the pods |
| `conversation` | one or two users, three messages, each of the two servers with its own client or behind OpenCode; one fault | the servers implement `RequestReply`; every call and every message is answered; users are kept apart |
| `gateway` | one session and a key without one, two calls, rules that change once, a client that stalls, resumes or leaves, `FairSpec` | nothing denied is forwarded, no reply lost or reordered, rules arrive, a session that ends leaves no goroutine, process or request behind, unless its client stalls for ever in the middle of a write |
| `limiter` | one session, six calls, a limit of two, five ticks, no server | no more than twice the limit within a minute, also around the end of a bucket |
| `readiness` | an Agent with an MCP server, with pulled content, with content from a ConfigMap, or with a workspace; or a workspace alone; up to two edits, failures or restarts at any time | every settled capability and Agent has the phase, the ConfigMap and the Deployment its parts give it (no wake-up is lost); no workspace is forgotten; nothing that was never cloned is mounted |
| `settles` | an Agent with an MCP server, or with pulled content, and one mishap; or two Agents that share a Capability, one of which waits for another; `FairSpecOfUsers` | left alone, the controllers of Capabilities and Agents fall silent, or write nothing but the list of the two users in another order: they do not wake each other for ever |
| `left_behind`, `stored_twice`, `hot_loop` | smallest instance each, expected to fail | what a comment of the code says and the code does not do (section 7) |

Bounds.  `MaxLag` bounds how far a cache may be behind; 1 suffices for every
hazard of the code between two consecutive writes, 2 lets two writes of
different writers hide from a reader.  `MaxStarts` saturates the counters of
prompts and Jobs at 2, "more than once".  `MaxEdits` is the number of edits of the
Workflow during the run, `Editable` the Workflows that are edited into each other: they
differ in the number of steps, the mode and the runtime, which is all that an edit can
change under a run in progress.  `MaxRetries` = 3 is the constant of the code.
Numbers of steps: two, since every relation in the properties is between a step
and its predecessor.

For the gateway, `Room` = 1 (64 in the code) and `PipeRoom` = 1 make every queue
both empty and full in a few steps; `MaxWrites` = 1 change of the rules is what a
request can see between two of its steps.  The run `limiter` has no server, since the limiter shares
with a session nothing but the call it admits.  Six calls against a limit of two let a session be
granted more than `2*rpm`, of which the property compares the first and the last; `Minute` = 1 and
`MaxNow` = 4 ticks let it spend two buckets around one end and then begin a third.  The calls
are interchangeable there, hence the symmetry.  One key is enough, as buckets share nothing; the
theorem is for any number.

In `readiness` one Agent, one reference of each kind and one mishap are
enough to bring every controller between any two of its steps into contact with a
stale copy, a refused write and a late event: the hazards are between the pairs of
controllers that watch each other, and each pair is in one of the setups.  The
setup with Agent and workspace has no mishap, the one with a workspace alone has one;
`Recreated` has two, so that what a reconcile is about to write can be deleted and created
again.  That makes 1.6 million states.  `settles` leaves the git
controllers out since these do not settle (section 7).  With one Agent no list of users has two
orders, so that `Settles` says there that the queues run empty.  With two it allows one other end:
that from some time on nothing is written but lists of users in another order.  The two start
when the objects of the users exist, but for the Capability one of them waits for, and have no mishap.

In `intake` each setup deploys one kind of work, since the kinds share the cache, the
queue and the process, but no object except the Agent; `mishaps` counts all that nobody
asked for, so that three of them are, for instance, an edit, a failed write and a restart (1.0
million states).
Two Workflows are needed for a delivery that starts one run and not the other; two stars
in a branch pattern, and a branch with a slash, are in `OnPush`.

In `conversation`, `MaxRequests` = 3 lets two calls be answered out of order around a third
line, or a call wait behind two; `MaxSessions` = 2 is what two racing messages create.
The clients of `DirectExec` and `DirectBridge` send every kind of line in every order; where
OpenCode sends the lines, the kinds are those that a tool call can be.

Deadlock is checked in the runs of a WorkflowRun.  The other runs end
(`CHECK_DEADLOCK FALSE`): a session that is closed, requests that are answered, messages
that were replied to and controllers that have settled have nothing left to do.

Fairness.  controller-runtime hands a run out again after every return (weak
fairness of `Begin` and the writes); the steps that an error can pre-empt are
strongly fair, since nothing prefers the error; watches deliver; Jobs end, at
the latest by `activeDeadlineSeconds`.  That a session becomes idle some time is
an assumption about the agent.  In the gateway each goroutine that can go on
does, a killed process ends and `cmd.Wait` returns for it; the server, the client
and the posts may stop at any point.  The write to the client is strongly fair: a client that stalls again and
again, but reads in between, takes the message some time.  One that stalls for ever keeps the handler in
its write (`Stuck`), since the server sets no WriteTimeout (`cmd/capability-gateway/main.go:86`).  For readiness, informers deliver and the
workers work (weak fairness each); nothing is assumed of timers, so that what must
happen by an event cannot be owed to a timer.  In a conversation goroutines and handlers take
their steps, an HTTP call to OpenCode ends at the latest by the timeout of the client and a
command by the deadline of its context, calls to Telegram end, and so does a tool of
the bridge unless it is an endless one; nothing is assumed of OpenCode, of the client of a
server, of a child that holds an output, or of the faults.  The properties of `intake` are
safety: they say what a controller that has nothing left to do has done, and a lost
wake-up violates them without any fairness.  No fairness is assumed anywhere of
callbacks, users, pods, failures, restarts, edits or garbage collection.

## 4. Proofs

All theorems hold for every value of the constants under the assumptions named in
the modules: a JobName for each name and none of the reserved words among the names
(`JobNameAssumption`, `NoJobAssumption`, `NamesAssumption`), at least two starts to count
(`MaxStartsAssumption`), natural numbers as bounds (`MaxLagAssumption`, `MaxStepsAssumption`,
`MaxEditsAssumption`, `MaxRequestsAssumption`, `MaxSessionsAssumption`), well-formed Workflows
(`WorkflowsAssumption`), for the gateway `LimiterAssumption`, `SessionAssumption` and
`GatewayAssumption` (and `WatcherAssumption`, the bound on changes of the rules), and for a
conversation a "no session" that is no session (`NoSessionAssumption`) and well-formed setups.
For readiness, setups are of the names there are and the Agents finitely many, as a list of them is
stored (`ClusterAssumption`, `CapsAssumption`), and
"no object" is none of the objects (`AbsentAssumption`).  For the intake there is a Workflow, and finitely
many (`ApiObjects!WorkflowsAssumption`, which the count of a delivery needs), setups deploy
objects there are (`SetupsAssumption`), what a user may write is what the API server would take
(`WorkflowSpecsAssumption`, `PiSpecsAssumption`), "no object" is none that a controller creates
(`OwnedAssumption`), and the cause of a scheduled run is no delivery
(`CausesAssumption`).  TLC evaluates all of them in the runs.

| Theorem | Module | Says | How |
|---|---|---|---|
| `LifecycleOneStepAtATime` | `RunLifecycleProofs` | in the abstract life of a run, steps do not overlap | `LifecycleInv`: the property, the type, CurrentStep in range, and a run that has not started is at its first step; each step either changes one result at CurrentStep or advances over an ended one |
| `TypeCorrect` | `RunSystemProofs` | `[]TypeOK` of the whole run system | `TypeOK` is inductive; one lemma per edit of a status, one per action |
| `CopiesInFlight` | `RunSystemProofs` | `[]InFlight`: whoever holds a copy of the latest version differs from it only by its own edit | inductive with `TypeOK`: `Persist` is refused for older copies, and every other writer moves the version |
| `TerminalRunsAreFinal` | `RunSystemProofs` | `[][...]_vars`: a terminal run keeps its phase and results, whatever a stale reconcile or handler does, through restarts and edits | from `InFlight`: a write goes through only from the latest copy, and no reconcile edits a terminal one (`WhoWrites`, `AppendKeepsResults`) |
| `EventsAreNeverLost`, `AcceptedEventsAreStored`, `NoEventTwice` | `RunSystemProofs` | an event in the stored results stays there, one that was answered with 202 is there, and no post and no line of a log is there twice (one that was posted *and* copied may be, section 7) | `EventsInv`: `CopiesKeep` says that a copy the API server would accept still has every result with its events and differs by its holder's edit (`KeepsRecord`), `OnlyOfSettled` that a stored event is of a post that is over (accepted, or refused with the write done all the same); `EventsOfStep` is what one step can do to the events; `LogsInv` that no log has a line twice and each line is of an event that was posted, so that what is copied into an empty result is copied once (`CopiedOnce`), while `PostedOnce` follows from the posts that are over |
| `StartsAreWrittenAhead` | `RunSystemProofs` | nothing is executed for a step the API server does not have as started | `StartedInv`: every version still in the cache, and the copy of a reconcile that has begun, has no step started that the stored run has not (`VersionsStarted`, `CopyStarted`), since started steps stay started |
| `JobCreatedOnce` | `RunSystemProofs` | one Job per step, while none is collected and the Workflow is not edited | `JobsInv`: who had a Job created has one of that name still (`JobKept`), and the Workflow of the copy is the one at the server (`WorkflowKept`) |
| `StepsNeverOverlap` | `RunOrderProofs` | `[]OneStepAtATime` of the stored run, edits of the Workflow included | `OrderInv`: what each writer holds differs from the stored run by a move of `RunMoves` or `StepMoves` (`CopyMoves`), copies the API server would take are in order themselves (`GoodCopies`), and every version still in the cache is an earlier one of the same run (`LaterCopies`) |
| `RunImplementsLifecycle` | `RunOrderProofs` | the stored status of a run whose Workflow is not edited implements `RunLifecycle` | `RunMoves` and `StepMoves` say what one write does to the stored run; under `CourseInv` each of them is a step of the abstract run or a stutter |
| `SuccessIsEarned`, `DispatchIsInOrder`, `SkippedStepsNeverRan`, `OutputsComeLast` | `RunOrderProofs` | a succeeded run has every step over; nothing is executed for a step before those ahead of it are over in the *stored* run, nor ever for a skipped one; outputs are sent last | `CourseInv`, about a Workflow that is not edited: copies have the steps of the Workflow (`FittingCopies`), who sends the outputs or finishes has all steps over (`FinishesAllOver`), a prompt or a Job has its step Running or later in each copy (`RanCopies`) |
| `OutputIsOwn` | `RunOrderProofs` | if no two steps of a Workflow have the same Job, `[]OwnOutput` | `OwnInv`: results, Jobs and the Jobs in the cache are those of their own step.  The hypothesis is needed: names of steps are not checked to differ, and the name of a Job is cut at 63 bytes (section 7) |
| `LimiterBoundsEveryMinute` | `GatewayProofs` | no session is granted more than twice its limit in any window of a minute | `LimiterInv`: `Spread` relates the k-th last grant to the bucket's end, `Apart` says grants 2*rpm apart are more than a minute apart; `GrantSpread` is the arithmetic |
| `DeniedCallsStayOut` | `GatewayProofs` | no call reaches the server that all rules in force since its post deny | `AllowedInv`: a call that is past the check was allowed by some rules of its time |
| `RepliesArriveInOrder`, `NoReplyIsLost` | `GatewayProofs` | the client has the first replies of the server in their order; while both are there, every reply is delivered or under way | `FlowInv`: `RepliesFlow` says of the whole way (delivered, channel, the reader's hand, pipe) that it holds the replies without a gap, all of them while the reader may go on and their beginning afterwards; `SessionShape` that there is nothing before there is a session.  Denials share the channel, hence replies are compared and not messages |
| `GatewayTypes` | `GatewayProofs` | `[]TypeOK`: also that neither channel nor pipe exceeds its capacity | from `FlowInv`, which knows whether a session is there to be written to |
| `ReadinessTypes`, `CapabilitiesSettle`, `AgentsSettle`, `WorkspacesAreDue`, `OnlyClonedIsMounted` | `ReadinessProofs` | the types; no wake-up of a capability or an Agent is lost; a workspace that is known is queued, in work or has a timer; an Agent mounts only what was cloned | `IInv`: for each controller, a key nobody has queued is either at rest, with a status that fits what the *cache* shows, or in work by a reconcile that still knows what the cache shows (`CapInv`, `AgentInv`); of an Agent also that the ConfigMap and the Deployment are the ones it needs (`Configured`, `Deployed`), as far as the reconcile under way has made them (`MadeSoFar`), each but for what was left out of it, `leftOut` being written with it; `CacheInv` relates cache and API server by `behind`; `ClonedInv` that all that looks cloned, also in the cache, was |
| `WorkflowsSettle`, `PiAgentsSettle`, `ChannelsSettle`, `ServicesFollowPods`, `IntakeTypes` | `IntakeProofs` | no edit of a Workflow, a PiAgent or a Channel is lost; a Channel's Service is not turned away from its pods; the types | `IInv`, again in terms of the cache: `WorkflowInv`, `VerdictInv` and `ChannelInv` say at each step of a reconcile what is done already, *or* the key is queued, *or* what it owns is behind (which will queue it); `UnreadInv` that the verdict of the first failed read differs from the one there was, so that writing it wakes the controller once more; `SelectorInv` that a Deployment keeps its type.  `Step(written, taken)` is the frame: what one actor writes and takes off the queue leaves the others' parts true |
| `RunsAnswered` | `IntakeProofs` | for any number of deliveries at once: one attempt starts a Workflow at most once, only if it matched; the answer counts runs there are | `RunsInv`: what a handler has still to do it has not done, what it has done is what it matched without that, and no run has an attempt that is to come |
| `ServersKeepPromise` | `ConversationProofs` | the exec server and the tool bridge implement `RequestReply`: a request is answered once at most and nothing else is answered; the exec server answers in order, and has answered all requests when it ends because its input did | the refinement step by step (`StepRefines`) under `ToolInv`: what is worked on is unanswered, and the exec server works on the last line it read and has answered those before |
| `UsersKeptApart` | `ConversationProofs` | `[]SessionsAreApart`: no session has messages of two users | `SessionInv`: a session has one owner, be it by the table or by a message in work (`OneOwner`), exists (`OwnedExist`), and has only messages that were posted to it (`QueuedInOwn`) |
| `ConversationTypeCorrect` | `ConversationProofs` | `[]TypeOK` of a conversation | from the two invariants |

`InFlight` is needed because `TerminalIsFinal` is not inductive: from a state in which a
reconciler holds the latest, terminal version with a changed phase, one write would break
it; that no such state is reachable is what `InFlight` says.  `CopiesKeep` is needed for the same reason: an event could be
dropped by a copy that never had it.  `SessionsAreApart` does not say who may *become* the
owner of a session: two goroutines of one user create two sessions, and only `OneOwner`
rules out that the table gives one of them to somebody else.  `LimiterInv` likewise: from a
bucket alone one cannot tell when earlier grants were given.

`CapInv`, `AgentInv` and the parts of the intake's `IInv` are needed because "settled" says nothing
of a reconcile that is under way: it may end, and leave the key off the queue, with a status
computed from what is no longer so.  That its read was overtaken is visible only in the cache
and the queue, which is why the invariants relate the reconcile to these and not to the API server.

The proofs corrected the models in three places.  With values in the place of versions
no invariant of the caches was inductive: an object that is deleted and created again, or
changed and changed back, between two steps of a reconcile passed for unchanged.  `behind` is the
result, and the setup `Recreated` has such a case.  Two `CASE`s of `PiAgents` had overlapping guards, of which TLC takes
the first and the proof system any.  And a write of a Workflow's condition always carries the present
second, which makes a version that differs in nothing else: it is a `Touch` now.

## 5. What is only model-checked

Liveness (`RunEndsOrLeftBehind`, `SessionCleansUp`, `RulesArriveUnlessMissed`, `Settles`,
`MessagesAnswered`, `CallsAnswered`), which is out of reach of the proof system, and the
properties of the runs that are expected to fail.  Every invariant and every action property of a
passing run is the statement of a theorem.  What the theorems do not say: `RunImplementsLifecycle` and
those that rest on `CourseInv` are about runs whose Workflow is not edited, as the properties themselves are.

## 6. Plan

What is left, in this order:

1. The safety part of a run's liveness: that a run is `LeftBehind` only behind a step that was
   completed and not followed, and the ranking of its steps as an action property.
2. The file system of a clone: a pod replaced in the middle of `git clone`, and the next one that
   takes what is there for a clone (`gitworkspace.go:292`).
3. The Job of a Pi step that waits for a workspace of its own (`gitRef`).

## 7. Where code and text disagree

With a run that shows it:

* `left_behind`: a run whose step was completed but not followed by the second write never ends.
* `hot_loop`: the status writes of a GitRepo wake its own reconcile; `syncInterval` paces nothing.
* `stored_twice`: the events of a log are "a fallback" for those of the callbacks
  (`workflowrun_piagent.go:185-186`), but a callback that comes after the copy stores its event again.

Seen while modelling, without a run of their own:

* A Pi step with `continueOnError` fails the run all the same: `failStep` writes it
  (`workflowrun_controller.go:719-727`) before `ContinueOnError` is looked at (`297`), which "allows the
  workflow to continue if this step fails" (`workflow_types.go:287`).
* A stale copy starts a second session and sends the prompt of a step twice
  (`workflowrun_controller.go:319-320`).
* A Job too young for the cache fails its step as one that "may have been cleaned up"
  (`workflowrun_piagent.go:162`).
* Steps with one name share a Job, and the second records the output of the first
  (`workflowrun_piagent.go:128`, `239-248`).
* The `timeout` of a step (`workflow_types.go:282`) is not enforced for steps of an Agent.
* A denial sent on a closed channel panics, and the client gets neither the error nor 202
  (`handler.go:337`, `237`); one that finds the channel full is dropped (`handler.go:340`).
* Rules that change between the first load and the watch are not loaded
  (`configwatcher.go:52-55`); `MCPDenyRules` "Returns nil if no file" (`80`) but a removed file leaves
  the old rules; a closed error channel ends the watch without the last reload (`140`).
* The "sliding window" (`gateway.go:80`) is a fixed one that allows twice the limit around
  its end, which is what `TwiceRpmPerMinute` states.
* The TTL of a workspace (`gitworkspace_types.go:320`) never fires: nothing sets `LastFetchTime`.
* `EnsureGitWorkspace` is said to fail when the repository is not discovered
  (`gitworkspace_controller.go:1004-1006`) and does not look.
* A GitRepo or GitWorkspace in error writes a new time with each reconcile and so wakes itself
  too; a GitRepo that is `Syncing` puts its ready workspaces into `Error` (`545`).
* `WorkspacesReady` of an Agent is set to False but never back to True
  (`agent_controller.go:500-528`, `758-812`).
* What could not be pulled from a registry is skipped and not tried again (`agent_controller.go:249`).
  Content is resolved once for the ConfigMap and once for the hash in the Deployment (lines 127 and 618):
  if it can be had only the second time, the pods restart for content that their ConfigMap has not before
  the next reconcile.
* A session whose server has died stays open, with its handler, for as long as its client stalls
  (`handler.go:155`).
* An Agent that was looked at before its GitRepo was cached is not woken when that comes (no watch,
  `agent_controller.go:858-877`, and no requeue, `75-81`): its GitWorkspace, created "on demand"
  (`agent_types.go:348`), is not created before something else wakes the Agent.
* An Agent deployed while the ConfigMap of a skill or plugin (`configMapRef`) could not be read is not given
  it when the ConfigMap comes (`agent_controller.go:239-246`, `267-272`), although deployment should be blocked
  "until" the capabilities are ready (`57`).
* `usedBy` of a capability follows no change of Agents (`capability_controller.go:550`).  It is written
  again, and wakes the Capability and its Agents, when the cache lists the same Agents in another
  order (`436-450`, `569-579`), against "Only update if status actually changed" (`468`).
* `runCount` (`workflow_types.go:303`) counts the runs with a label that scheduled runs do not
  carry, as a cache shows them (`workflow_controller.go:164-172`, `245`).
* A Workflow whose references fail keeps the CronJob it had, also when it is suspended
  (`workflow_types.go:52`); one whose schedule is removed keeps it for ever; a Ready condition
  that was False never becomes True; `AgentNotFound` stays when the Agent comes.
* The verdict on a PiAgent does not follow its ConfigMap or Secret.
* A Channel of another type is refused by its own Deployment for ever (the selector is immutable);
  an Ingress of its name is taken over, or deleted, whoever made it; an image that was changed
  by hand stays, since only a hash of what is desired is compared.
* `**` in a branch pattern is not recursive (`server.go:464`); the `secret` of a generic webhook
  (`workflow_types.go:172`) is read by nobody.
* A user of the bot who writes twice at once gets two sessions (`opencode.go:21` speaks of one).
  Updates are answered before they are handled, and lost with a restart; calls to Telegram
  have no timeout (`handler.go:176`).
* `command timed out` is reported only if the read of the output ended first
  (`mcp-exec-server/main.go:387-391`).
* The tool bridge drops the calls in flight when its stdin ends (`tool-bridge.ts:396`).

## 8. What is not modelled

Wording, layout and manifests (`internal/resources` but for names, hashes, what a controller compares
and the clone's phases); HTTP clients of forges and registries and signature verification (single
calls whose outcomes are choices: valid or not, found or not, pulled or not); the parsing and
matching of deny rules (`pkg/cmdvalidator`), which are the set of calls they deny; the shutdown of the
gateway and its audit log; files of rules that cannot be read, and an overflow of the notifications of
their changes (`configwatcher.go:140-144`, `176-184`); volumes, Services and NetworkPolicies of an Agent, which can only fail;
workspaceCount and consumers, which nothing reads; the update of a clone to a changed
specification; the file system of a volume; the agent itself and its model; the generated
deepcopy code.

Two abstractions are on the safe side of nothing and have to be known.  `Denied` of the gateway is a set of
calls: that a `tools/call` whose params cannot be parsed, and a batch, are let through without a check
(`handler.go:280-297`) is left out, so "denied" means denied by `checkToolsCallDeny`.  And the resync: by default
controller-runtime delivers every object again after ten hours or so (`main.go` sets no SyncPeriod).  It is not
modelled, since what has to wait for it is as good as lost: where this text says that a controller is
never woken, read "not before the resync".  (`left_behind` is of another kind, no wake-up helps such a run.)

Of a ConfigMap that a Capability refers to, the model has whether it can be read, not its text; a change
of the text wakes nobody either.

Of the webhook server, the JSON of a payload is what its fields say (event, source, branch,
action, labels), signatures are right or wrong, and the trigger of a Workflow is one
record, whatever its kind.  Of the Workflow controller, the errors of a spec are one kind, and
lastTriggered and lastRunStatus follow the list of runs the count is taken from.  Of the Telegram
bot, texts and what is sent to the chat are left out; of the servers, what a tool
computes.

In the readiness and intake models a work queue is a set (as it is in
controller-runtime, which merges equal keys) and its rate limits are left out; of the resource versions
there is left whether the cache has the latest one (`behind`).
