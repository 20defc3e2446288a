------------------------------- MODULE Intake -------------------------------
(***************************************************************************)
(* What brings work in, together: the webhook server and the controllers   *)
(* of Workflows, PiAgents and Channels, each with one worker, in one       *)
(* process that may restart.                                               *)
(***************************************************************************)
EXTENDS WebhookServer, PiAgents, Channels

others == <<http, piVars, channelWork>>

vars == <<objectVars, wfVars, http, piVars, channelWork>>

TypeOK ==
  /\ setup \in Setups /\ behind \subseteq Objects /\ queue \subseteq Keys
  /\ mishaps \in Nat /\ mishaps <= setup.mishaps
  /\ \A o \in Objects \ setup.objects : o \in Keys => ~Exists(o)
  /\ WfTypeOK /\ HttpTypeOK /\ PiTypeOK /\ ChannelTypeOK

\* The first version of an object that is deployed.
Deployed(o) ==
  CASE o[1] = "workflow" -> {NewWorkflow(s) : s \in setup.specs}
    [] o = PiAgent -> {NewPiAgent(s) : s \in setup.specs}
    [] o = Channel -> {NewChannel(s) : s \in setup.specs}
    [] o = Agent -> {[agent |-> TRUE], Absent}
    [] o \in {ConfigMap, Secret} -> {[key |-> TRUE], Absent}
    [] OTHER -> {Absent}

\* The operator is started when its objects exist already.
Init ==
  /\ setup \in Setups
  /\ \E deployed \in [setup.objects -> UNION {Deployed(o) : o \in setup.objects}] :
       /\ \A o \in setup.objects : deployed[o] \in Deployed(o)
       /\ stored = [o \in Objects |-> IF o \in setup.objects THEN deployed[o] ELSE Absent]
  /\ seen = [o \in Objects |-> Absent]
  /\ behind = {o \in Objects : Exists(o)}
  /\ queue = {} /\ mishaps = 0
  /\ wfWork = NoWfWork /\ runs = <<>>
  /\ http = [d \in Deliveries |-> Unsent]
  /\ piWork = NoPiWork /\ unread = 0
  /\ channelWork = NoChannelWork

\* Workers and handlers stop, the caches are filled again and every key is queued.
Restart ==
  /\ Mishap
  /\ seen' = stored /\ behind' = {}
  /\ queue' = {o \in Keys : Exists(o)}
  /\ wfWork' = NoWfWork /\ piWork' = NoPiWork /\ channelWork' = NoChannelWork
  /\ http' = [d \in Deliveries |-> Broken(http[d])]
  /\ UNCHANGED <<setup, stored, runs, unread>>

Informers == (\E o \in Objects : Deliver(o)) /\ UNCHANGED <<wfVars, others>>

WorkflowWorker == (ReconcileWorkflow \/ WorkflowFails) /\ UNCHANGED others

Handlers ==
  /\ \E d \in Deliveries : Serve(d) \/ ServeFails(d)
  /\ UNCHANGED <<piVars, channelWork>>

PiAgentWorker ==
  /\ ValidatePiAgent \/ WritePiStatus \/ PiStatusFails \/ ReadFails
  /\ UNCHANGED <<wfVars, http, channelWork>>

ChannelWorker == (ReconcileChannel \/ ChannelFails) /\ UNCHANGED <<wfVars, http, piVars>>

Users ==
  \/ (\E w \in Workflows : EditWorkflow(w) \/ EditCronJob(w)) /\ UNCHANGED others
  \/ (EditPiAgent \/ EditReferenced) /\ UNCHANGED <<wfVars, http, channelWork>>
  \/ (EditChannel \/ EditOwned) /\ UNCHANGED <<wfVars, http, piVars>>
  \/ UserWrites(Agent, IF Exists(Agent) THEN Absent ELSE [agent |-> TRUE]) /\ UNCHANGED <<wfVars, others>>

Cluster ==
  \/ (\E w \in Workflows : CronJobDue(w) \/ CollectCronJob(w)) /\ UNCHANGED others
  \/ (ChannelPods \/ \E o \in Objects : CollectOwned(o)) /\ UNCHANGED <<wfVars, http, piVars>>

Next ==
  \/ Informers \/ WorkflowWorker \/ Handlers \/ PiAgentWorker \/ ChannelWorker
  \/ Users \/ Cluster \/ Restart

Spec == Init /\ [][Next]_vars

-----------------------------------------------------------------------------
\* A worker has nothing to do for a key, and what wakes it has been delivered.
Settled(key, looksAt, idle) ==
  /\ Exists(key) /\ key \notin queue /\ idle
  /\ \A o \in looksAt \union {key} : Current(o)

\* No edit of a Workflow is lost: one nobody has queued has been judged by its
\* present spec, and what runs by a schedule runs by the present one, or not
\* at all when it is suspended (workflow_controller.go:48-125, 220-234).
WorkflowSettled ==
  \A w \in Workflows :
    LET wf == stored[Workflow(w)]
        cron == stored[CronJob(w)]
    IN Settled(Workflow(w), {CronJob(w)}, wfWork.key # w \/ wfWork.pc = "idle") =>
         /\ wf.spec.both => wf.reason = "InvalidSpec"
         /\ wf.reason = "Unset" =>
              /\ wf.url = (wf.spec.trigger.kind = "generic")
              /\ wf.spec.schedule # NoSchedule =>
                   /\ cron # Absent
                   /\ cron.schedule = wf.spec.schedule /\ cron.suspend = wf.spec.suspend

RunsFor(d, w) == {i \in DOMAIN runs : runs[i] = RunFor(d, w)}

\* A webhook starts a Workflow at most once each time it is delivered, and only
\* a Workflow that matched it; its answer counts runs that exist, and without
\* failures all of them do (server.go:74-100).
AnsweredRuns ==
  \A d \in Deliveries :
    LET started == {w \in Workflows : RunsFor(d, w) # {}} IN
    /\ \A w \in Workflows : Cardinality(RunsFor(d, w)) <= 1
    /\ started \subseteq http[d].matched
    /\ http[d].pc = "answered" =>
         /\ http[d].made <= Cardinality(started)
         /\ mishaps = 0 => started = http[d].matched

\* No edit of a PiAgent is lost either: its verdict is one its present spec can
\* get, and a read that failed once is not the last word, although nothing is
\* tried again for it (piagent_controller.go:35-95, 217-250).
PiAgentSettled ==
  Settled(PiAgent, {}, piWork.pc = "idle") =>
    LET agent == stored[PiAgent] IN
    /\ Gives(agent.spec, agent.verdict)
    /\ unread <= 1 => agent.verdict[2] # "unread"

\* What a Channel owns is what its present spec asks for, whoever changed it,
\* and its status tells of its pods (channel_controller.go:36-90, 274-286).
ChannelSettled ==
  Settled(Channel, {Deployment, Service, Ingress}, channelWork.pc = "idle") =>
    LET spec == stored[Channel].spec IN
    /\ Exists(Deployment) /\ Exists(Service)
    /\ stored[Deployment].hash = spec.image
    /\ stored[Service] = ServiceFor(spec)
    /\ stored[Ingress] = IF spec.webhook = NoWebhook THEN Absent ELSE IngressFor(spec)
    /\ stored[Channel].url = spec.webhook
    /\ stored[Channel].phase = IF stored[Deployment].ready THEN "Ready" ELSE "Pending"

\* The controller never turns a Service away from the pods there are: while a
\* new type is refused by the Deployment, the Service keeps the old selector
\* (channel_controller.go:57-67).
ServiceFollowsPods ==
  [][channelWork.pc = "service" /\ channelWork'.pc = "ingress"
       /\ stored'[Service] # stored[Service] /\ Exists(Deployment)
       => stored'[Service].selector = stored[Deployment].type]_vars
=============================================================================
