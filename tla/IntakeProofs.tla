---------------------------- MODULE IntakeProofs ----------------------------
(* Theorems about Intake, for every set of Workflows, deliveries and        *)
(* setups: no edit is lost, a delivery starts a Workflow at most once, and  *)
(* a Service is not turned away from its pods.                              *)
EXTENDS Intake, TLAPS, FiniteSetTheorems, SequenceTheorems

-----------------------------------------------------------------------------
(* What is true of every state.                                            *)

\* What an object may be, by its kind.
ObjectsOf(o) ==
  {Absent} \union
    CASE o[1] = "workflow" -> WorkflowObject
      [] o[1] = "cronjob" -> CronJobObject(setup.specs)
      [] o[1] = "agent" -> [agent : {TRUE}]
      [] o[1] = "piagent" -> PiAgentObject
      [] o[1] \in {"configmap", "secret"} -> [key : BOOLEAN]
      [] o[1] = "channel" -> ChannelObject
      [] o[1] = "deployment" -> DeploymentObject(setup.specs)
      [] o[1] = "service" -> ServiceObject(setup.specs)
      [] OTHER -> IngressObject(setup.specs)

StoreInv ==
  /\ stored = [o \in Objects |-> stored[o]] /\ seen = [o \in Objects |-> seen[o]]
  /\ \A o \in Objects : stored[o] \in ObjectsOf(o) /\ seen[o] \in ObjectsOf(o)
  /\ \A o \in Keys \ setup.objects : stored[o] = Absent /\ seen[o] = Absent
  /\ setup \in Setups
  /\ behind \subseteq Objects /\ queue \subseteq Keys
  /\ mishaps \in Nat /\ mishaps <= setup.mishaps

\* The cache has what the API server has, but for what is behind.
CacheInv == \A o \in Objects : o \notin behind => seen[o] = stored[o]

\* A reconcile under way is one of an object that was deployed.
WfWorkInv ==
  /\ wfWork \in [pc : {"idle", "refs", "cron", "status"}, key : Workflows,
                 spec : setup.specs \union {Absent}]
  /\ wfWork.pc # "idle" => Workflow(wfWork.key) \in setup.objects /\ wfWork.spec \in setup.specs

PiWorkInv ==
  /\ piWork \in [pc : {"idle", "source", "providers", "tools", "status"},
                 spec : setup.specs \union {Absent}, verdict : Verdicts]
  /\ piWork.pc # "idle" => PiAgent \in setup.objects /\ piWork.spec \in setup.specs
  /\ unread \in Nat

ChannelWorkInv ==
  /\ channelWork \in [pc : {"idle", "agent", "deployment", "service", "ingress", "status"},
                      spec : setup.specs \union {Absent}]
  /\ channelWork.pc # "idle" => Channel \in setup.objects /\ channelWork.spec \in setup.specs

WorkInv == WfWorkInv /\ PiWorkInv /\ ChannelWorkInv

\* A CronJob runs by a schedule; a Workflow and its CronJob are as they should be.
Follows(cron, spec) ==
  cron # Absent /\ cron.schedule = spec.schedule /\ cron.suspend = spec.suspend

Judged(w) ==
  LET wf == seen[Workflow(w)] IN
  /\ wf.spec.both => wf.reason = "InvalidSpec"
  /\ wf.reason = "Unset" =>
       /\ wf.url = (wf.spec.trigger.kind = "generic")
       /\ wf.spec.schedule # NoSchedule => Follows(seen[CronJob(w)], wf.spec)

\* A Workflow nobody has queued is judged by what the cache shows; a reconcile
\* of it that nothing has overtaken is about to do so.
WorkflowInv ==
  \A w \in Workflows :
    seen[Workflow(w)] # Absent /\ Workflow(w) \notin queue =>
      IF wfWork.pc # "idle" /\ wfWork.key = w
      THEN /\ wfWork.spec = seen[Workflow(w)].spec
           /\ wfWork.pc \in {"cron", "status"} => ~wfWork.spec.both
           /\ wfWork.pc = "status" /\ wfWork.spec.schedule # NoSchedule
              /\ CronJob(w) \notin behind => Follows(seen[CronJob(w)], wfWork.spec)
      ELSE Workflow(w) \notin behind /\ CronJob(w) \notin behind => Judged(w)

\* The same for the PiAgent, whose verdict is one its spec can get.
OneSource(spec) == spec.source \notin {"none", "several"}

VerdictInv ==
  /\ piWork.pc \in {"providers", "tools"} => OneSource(piWork.spec)
  /\ piWork.pc = "tools" => piWork.spec.knownModel
  /\ piWork.pc = "status" => Gives(piWork.spec, piWork.verdict)
  /\ seen[PiAgent] # Absent /\ PiAgent \notin queue =>
       IF piWork.pc # "idle"
       THEN piWork.spec = seen[PiAgent].spec
       ELSE PiAgent \notin behind => Gives(seen[PiAgent].spec, seen[PiAgent].verdict)

\* A verdict of a read that failed tells of a failure, and two that follow
\* each other of two.
IsUnread(object) == object # Absent /\ object.verdict[2] = "unread"

UnreadInv ==
  /\ IsUnread(stored[PiAgent]) \/ IsUnread(seen[PiAgent]) \/ piWork.verdict[2] = "unread" =>
       unread >= 1
  /\ piWork.verdict[2] = "unread" /\ unread <= 1 =>
       ~IsUnread(stored[PiAgent]) /\ ~IsUnread(seen[PiAgent])
  /\ PiAgent \notin queue /\ piWork.pc = "idle" /\ PiAgent \notin behind /\ unread <= 1 =>
       ~IsUnread(seen[PiAgent])

\* The same for the Channel, which owns three objects.
DeploymentFits(spec) ==
  Deployment \notin behind => seen[Deployment] # Absent /\ seen[Deployment].hash = spec.image
ServiceFits(spec) ==
  Service \notin behind => seen[Service] = ServiceFor(spec)
IngressFits(spec) ==
  Ingress \notin behind =>
    seen[Ingress] = IF spec.webhook = NoWebhook THEN Absent ELSE IngressFor(spec)

ChannelFits ==
  LET spec == seen[Channel].spec IN
  /\ DeploymentFits(spec) /\ ServiceFits(spec) /\ IngressFits(spec)
  /\ seen[Channel].url = spec.webhook
  /\ Deployment \notin behind =>
       seen[Channel].phase = IF seen[Deployment].ready THEN "Ready" ELSE "Pending"

ChannelInv ==
  seen[Channel] # Absent /\ Channel \notin queue =>
    IF channelWork.pc # "idle"
    THEN /\ channelWork.spec = seen[Channel].spec
         /\ channelWork.pc \in {"service", "ingress", "status"} => DeploymentFits(channelWork.spec)
         /\ channelWork.pc \in {"ingress", "status"} => ServiceFits(channelWork.spec)
         /\ channelWork.pc = "status" => IngressFits(channelWork.spec)
    ELSE Channel \notin behind => ChannelFits

\* The type of a Deployment stays what it was when it was created.
SelectorInv ==
  /\ seen[Deployment] # Absent /\ stored[Deployment] # Absent =>
       seen[Deployment].type = stored[Deployment].type
  /\ channelWork.pc = "service" /\ stored[Deployment] # Absent =>
       stored[Deployment].type = channelWork.spec.type

\* What a delivery has still to start it has not started.
Started(d) == {w \in Workflows : RunsFor(d, w) # {}}

DeliveryInv(d) ==
  /\ \A w \in Workflows : \A i, j \in RunsFor(d, w) : i = j
  /\ \A w \in http[d].todo : RunsFor(d, w) = {}
  /\ Started(d) \subseteq http[d].matched /\ http[d].todo \subseteq http[d].matched
  /\ http[d].pc # "creating" => http[d].todo = {}
  /\ http[d].pc \in {"creating", "answered"} =>
       /\ http[d].made <= Cardinality(Started(d))
       /\ mishaps = 0 => Started(d) = http[d].matched \ http[d].todo

RunsInv ==
  /\ runs \in Seq([workflow : Workflows, cause : {NoCause} \union (Deliveries \X Nat)])
  /\ HttpTypeOK
  /\ \A i \in DOMAIN runs, d \in Deliveries, n \in Nat :
       runs[i].cause = <<d, n>> => n <= http[d].attempt
  /\ \A d \in Deliveries : DeliveryInv(d)

\* All but the runs.
Rest ==
  /\ StoreInv /\ CacheInv /\ WorkInv
  /\ WorkflowInv /\ VerdictInv /\ UnreadInv /\ ChannelInv /\ SelectorInv

IInv == Rest /\ RunsInv

-----------------------------------------------------------------------------
(* Objects, their kinds and their types.                                   *)

LEMMA Kinds ==
  /\ \A w : /\ Workflow(w)[1] = "workflow" /\ Workflow(w)[2] = w
            /\ CronJob(w)[1] = "cronjob" /\ CronJob(w)[2] = w
  /\ Agent[1] = "agent" /\ PiAgent[1] = "piagent"
  /\ ConfigMap[1] = "configmap" /\ Secret[1] = "secret"
  /\ Channel[1] = "channel" /\ Deployment[1] = "deployment"
  /\ Service[1] = "service" /\ Ingress[1] = "ingress"
BY DEF Workflow, CronJob, Agent, PiAgent, ConfigMap, Secret, Channel, Deployment, Service, Ingress

LEMMA KeysAreObjects ==
  /\ Keys \subseteq Objects
  /\ \A w \in Workflows : Workflow(w) \in Keys /\ CronJob(w) \in Objects
  /\ PiAgent \in Keys /\ Channel \in Keys
  /\ {Agent, ConfigMap, Secret, Deployment, Service, Ingress} \subseteq Objects
BY DEF Keys, Objects

\* The object of each kind.
LEMMA ObjectKinds ==
  ASSUME NEW o \in Objects
  PROVE  \/ o[1] = "workflow" /\ o[2] \in Workflows /\ o = Workflow(o[2]) /\ o \in Keys
         \/ o[1] = "cronjob" /\ o[2] \in Workflows /\ o = CronJob(o[2])
         \/ o[1] = "agent" /\ o = Agent
         \/ o[1] = "piagent" /\ o = PiAgent /\ o \in Keys
         \/ o[1] = "configmap" /\ o = ConfigMap
         \/ o[1] = "secret" /\ o = Secret
         \/ o[1] = "channel" /\ o = Channel /\ o \in Keys
         \/ o[1] = "deployment" /\ o = Deployment
         \/ o[1] = "service" /\ o = Service
         \/ o[1] = "ingress" /\ o = Ingress
BY Kinds DEF Objects, Keys

LEMMA KeyKinds ==
  ASSUME NEW o \in Keys
  PROVE  \/ o[1] = "workflow" /\ o[2] \in Workflows /\ o = Workflow(o[2])
         \/ o[1] = "piagent" /\ o = PiAgent
         \/ o[1] = "channel" /\ o = Channel
BY Kinds DEF Keys

LEMMA KindTypes ==
  /\ \A w : /\ ObjectsOf(Workflow(w)) = {Absent} \union WorkflowObject
            /\ ObjectsOf(CronJob(w)) = {Absent} \union CronJobObject(setup.specs)
  /\ ObjectsOf(Agent) = {Absent} \union [agent : {TRUE}]
  /\ ObjectsOf(PiAgent) = {Absent} \union PiAgentObject
  /\ ObjectsOf(ConfigMap) = {Absent} \union [key : BOOLEAN]
  /\ ObjectsOf(Secret) = {Absent} \union [key : BOOLEAN]
  /\ ObjectsOf(Channel) = {Absent} \union ChannelObject
  /\ ObjectsOf(Deployment) = {Absent} \union DeploymentObject(setup.specs)
  /\ ObjectsOf(Service) = {Absent} \union ServiceObject(setup.specs)
  /\ ObjectsOf(Ingress) = {Absent} \union IngressObject(setup.specs)
  /\ \A o : Absent \in ObjectsOf(o)
<1>1. \A w : ObjectsOf(Workflow(w)) = {Absent} \union WorkflowObject
  BY Kinds DEF ObjectsOf
<1>2. \A w : ObjectsOf(CronJob(w)) = {Absent} \union CronJobObject(setup.specs)
  BY Kinds DEF ObjectsOf
<1>3. ObjectsOf(Agent) = {Absent} \union [agent : {TRUE}]
  BY Kinds DEF ObjectsOf
<1>4. ObjectsOf(PiAgent) = {Absent} \union PiAgentObject
  BY Kinds DEF ObjectsOf
<1>5. ObjectsOf(ConfigMap) = {Absent} \union [key : BOOLEAN]
  BY Kinds DEF ObjectsOf
<1>6. ObjectsOf(Secret) = {Absent} \union [key : BOOLEAN]
  BY Kinds DEF ObjectsOf
<1>7. ObjectsOf(Channel) = {Absent} \union ChannelObject
  BY Kinds DEF ObjectsOf
<1>8. ObjectsOf(Deployment) = {Absent} \union DeploymentObject(setup.specs)
  BY Kinds DEF ObjectsOf
<1>9. ObjectsOf(Service) = {Absent} \union ServiceObject(setup.specs)
  BY Kinds DEF ObjectsOf
<1>10. ObjectsOf(Ingress) = {Absent} \union IngressObject(setup.specs)
  BY Kinds DEF ObjectsOf
<1>11. \A o : Absent \in ObjectsOf(o)
  BY DEF ObjectsOf
<1> QED BY <1>1, <1>2, <1>3, <1>4, <1>5, <1>6, <1>7, <1>8, <1>9, <1>10, <1>11

\* What the API server and the cache have of each object.
LEMMA StoredTypes ==
  ASSUME StoreInv, NEW objects \in {stored, seen}
  PROVE  /\ \A w \in Workflows :
              /\ objects[Workflow(w)] \in {Absent} \union WorkflowObject
              /\ objects[CronJob(w)] \in {Absent} \union CronJobObject(setup.specs)
         /\ objects[PiAgent] \in {Absent} \union PiAgentObject
         /\ objects[ConfigMap] \in {Absent} \union [key : BOOLEAN]
         /\ objects[Secret] \in {Absent} \union [key : BOOLEAN]
         /\ objects[Channel] \in {Absent} \union ChannelObject
         /\ objects[Deployment] \in {Absent} \union DeploymentObject(setup.specs)
         /\ objects[Service] \in {Absent} \union ServiceObject(setup.specs)
         /\ objects[Ingress] \in {Absent} \union IngressObject(setup.specs)
<1>1. \A o \in Objects : objects[o] \in ObjectsOf(o)
  BY DEF StoreInv
<1> QED BY <1>1, KeysAreObjects, KindTypes

\* The invariant is TypeOK and more.
LEMMA InvTypes ==
  ASSUME StoreInv, WorkInv, RunsInv
  PROVE  TypeOK
<1>1. WorkflowsTyped(stored) /\ WorkflowsTyped(seen)
  BY StoredTypes DEF WorkflowsTyped
<1>2. WfTypeOK
  <2>1. \A r \in ToSet(runs) : r.workflow \in Workflows
    <3> DEFINE R == [workflow : Workflows, cause : {NoCause} \union (Deliveries \X Nat)]
    <3>1. runs \in Seq(R)
      BY DEF RunsInv
    <3>2. \A r \in R : r.workflow \in Workflows
      OBVIOUS
    <3> HIDE DEF R
    <3>3. \A i \in DOMAIN runs : runs[i] \in R
      BY <3>1
    <3>4. \A r \in ToSet(runs) : \E i \in DOMAIN runs : r = runs[i]
      BY DEF ToSet
    <3> QED BY <3>2, <3>3, <3>4
  <2> QED BY <1>1, <2>1 DEF WfTypeOK, WorkInv, WfWorkInv
<1>3. PiTypeOK
  BY StoredTypes DEF PiTypeOK, PiAgentsTyped, WorkInv, PiWorkInv
<1>4. ChannelTypeOK
  BY StoredTypes DEF ChannelTypeOK, ChannelsTyped, WorkInv, ChannelWorkInv
<1>5. \A o \in Objects \ setup.objects : o \in Keys => ~Exists(o)
  BY DEF StoreInv, Exists
<1> QED BY <1>2, <1>3, <1>4, <1>5 DEF TypeOK, StoreInv, RunsInv

-----------------------------------------------------------------------------
(* What a write does: some objects change, and what has changed is behind.  *)

Moves(written) ==
  /\ stored' = [o \in Objects |-> stored'[o]]
  /\ \A o \in Objects : stored'[o] \in ObjectsOf(o)
  /\ \A o \in Objects : o \notin behind' \/ o \notin written => stored'[o] = stored[o]
  /\ \A o \in Keys : stored[o] = Absent => stored'[o] = Absent
  /\ behind \subseteq behind' /\ behind' \subseteq Objects

LEMMA KeptMoves ==
  ASSUME StoreInv, UNCHANGED api, NEW written
  PROVE  Moves(written)
BY DEF StoreInv, Moves, api

LEMMA TouchMoves ==
  ASSUME StoreInv, NEW o \in Objects, NEW v \in ObjectsOf(o), Touch(o, v), Exists(o) \/ o \notin Keys
  PROVE  Moves({o}) /\ stored'[o] = v /\ o \in behind'
BY DEF StoreInv, Touch, Moves, Exists

LEMMA WriteMoves ==
  ASSUME StoreInv, NEW o \in Objects, NEW v \in ObjectsOf(o), Write(o, v), Exists(o) \/ o \notin Keys
  PROVE  Moves({o}) /\ stored'[o] = v /\ (o \in behind' \/ stored[o] = v)
<1>1. CASE v = stored[o]
  <2>1. UNCHANGED api
    BY <1>1 DEF Write
  <2> QED BY <1>1, <2>1, KeptMoves DEF api
<1>2. CASE v # stored[o]
  BY <1>2, TouchMoves DEF Write
<1> QED BY <1>1, <1>2

LEMMA WiderMoves ==
  ASSUME NEW written, NEW wider, written \subseteq wider, Moves(written)
  PROVE  Moves(wider)
BY DEF Moves

\* An object that was applied is what it should be, unless the cache is behind.
LEMMA ApplyMoves ==
  ASSUME StoreInv, CacheInv, NEW o \in Objects \ Keys, NEW new \in ObjectsOf(o) \ {Absent},
         NEW changed, Known(o) => changed \in ObjectsOf(o), Apply(o, new, changed)
  PROVE  /\ Moves({o}) /\ (o \notin behind' => Known(o) /\ seen[o] = changed)
         /\ \/ ~Known(o) /\ stored'[o] = new
            \/ Known(o) /\ Exists(o) /\ seen[o] # changed /\ stored'[o] = changed
            \/ Known(o) /\ seen[o] = changed /\ stored'[o] = stored[o]
<1>1. CASE ~Known(o) /\ Create(o, new)
  BY <1>1, WriteMoves DEF Create, Exists
<1>2. CASE Known(o) /\ seen[o] # changed /\ Update(o, changed)
  <2>1. Exists(o) /\ Write(o, changed) /\ stored[o] # changed
    BY <1>2 DEF Update, Current, CacheInv
  <2> QED BY <1>2, <2>1, WriteMoves
<1>3. CASE Known(o) /\ seen[o] = changed /\ UNCHANGED api
  BY <1>3, KeptMoves DEF api
<1> QED BY <1>1, <1>2, <1>3 DEF Apply

-----------------------------------------------------------------------------
(* A step of a worker, of users or of the cluster: the cache stays as it    *)
(* is, some objects are written and some keys taken off the queue.          *)

Step(written, taken) ==
  /\ Moves(written)
  /\ UNCHANGED <<setup, seen>>
  /\ queue' \subseteq Keys /\ \A k \in queue \ taken : k \in queue'
  /\ UNCHANGED mishaps \/ Mishap

LEMMA WiderStep ==
  ASSUME NEW written, NEW taken, NEW written2, NEW taken2,
         written \subseteq written2, taken \subseteq taken2, Step(written, taken)
  PROVE  Step(written2, taken2)
BY WiderMoves DEF Step

LEMMA MishapCounts ==
  ASSUME StoreInv, UNCHANGED setup, UNCHANGED mishaps \/ Mishap
  PROVE  /\ mishaps' \in Nat /\ mishaps' <= setup'.mishaps
         /\ mishaps' = 0 => mishaps = 0 /\ ~Mishap
<1>1. mishaps \in Nat /\ mishaps <= setup.mishaps /\ setup.mishaps \in Nat
  BY SetupsAssumption DEF StoreInv
<1> QED BY <1>1 DEF Mishap

LEMMA SameTypes ==
  ASSUME UNCHANGED setup, NEW o
  PROVE  ObjectsOf(o)' = ObjectsOf(o)
BY DEF ObjectsOf, WorkflowObject, PiAgentObject, ChannelObject

LEMMA StepStore ==
  ASSUME StoreInv, NEW written, NEW taken, Step(written, taken)
  PROVE  StoreInv'
<1>1. UNCHANGED <<setup, seen>> /\ Moves(written)
  BY DEF Step
<1>2. \A o \in Objects : stored'[o] \in ObjectsOf(o)' /\ seen'[o] \in ObjectsOf(o)'
  BY <1>1, SameTypes DEF Moves, StoreInv
<1>3. mishaps' \in Nat /\ mishaps' <= setup'.mishaps
  BY <1>1, MishapCounts DEF Step
<1>4. \A o \in Keys \ setup'.objects : stored'[o] = Absent /\ seen'[o] = Absent
  BY <1>1 DEF Moves, StoreInv
<1> QED BY <1>1, <1>2, <1>3, <1>4 DEF Step, Moves, StoreInv

LEMMA StepCache ==
  ASSUME CacheInv, NEW written, NEW taken, Step(written, taken)
  PROVE  CacheInv'
BY DEF Step, Moves, CacheInv

\* What a step of others leaves true.
LEMMA WorkflowKept ==
  ASSUME WorkflowInv, NEW written, NEW taken, Step(written, taken),
         \A w \in Workflows : Workflow(w) \notin taken, UNCHANGED wfWork
  PROVE  WorkflowInv'
<1>1. \A o : o \notin behind' => o \notin behind
  BY DEF Step, Moves
<1>2. \A w \in Workflows : Workflow(w) \notin queue' => Workflow(w) \notin queue
  BY DEF Step
<1>3. UNCHANGED seen
  BY DEF Step
<1>4. \A w : Judged(w)' <=> Judged(w)
  BY <1>3 DEF Judged, Follows
<1> QED BY <1>1, <1>2, <1>3, <1>4 DEF WorkflowInv

LEMMA VerdictKept ==
  ASSUME VerdictInv, NEW written, NEW taken, Step(written, taken),
         PiAgent \notin taken, UNCHANGED piWork
  PROVE  VerdictInv'
<1>1. \A o : o \notin behind' => o \notin behind
  BY DEF Step, Moves
<1>2. PiAgent \notin queue' => PiAgent \notin queue
  BY DEF Step
<1>3. UNCHANGED <<seen, piWork>>
  BY DEF Step
<1> QED BY <1>1, <1>2, <1>3 DEF VerdictInv

LEMMA UnreadKept ==
  ASSUME UnreadInv, NEW written, NEW taken, Step(written, taken),
         PiAgent \notin taken, UNCHANGED piVars,
         IsUnread(stored'[PiAgent]) => IsUnread(stored[PiAgent])
  PROVE  UnreadInv'
<1>1. \A o : o \notin behind' => o \notin behind
  BY DEF Step, Moves
<1>2. PiAgent \notin queue' => PiAgent \notin queue
  BY DEF Step
<1>3. UNCHANGED <<seen, piWork, unread>>
  BY DEF Step, piVars
<1> QED BY <1>1, <1>2, <1>3 DEF UnreadInv

LEMMA ChannelKept ==
  ASSUME ChannelInv, NEW written, NEW taken, Step(written, taken),
         Channel \notin taken, UNCHANGED channelWork
  PROVE  ChannelInv'
<1>1. \A o : o \notin behind' => o \notin behind
  BY DEF Step, Moves
<1>2. Channel \notin queue' => Channel \notin queue
  BY DEF Step
<1>3. UNCHANGED <<seen, channelWork>>
  BY DEF Step
<1>4. \A spec : /\ DeploymentFits(spec) => DeploymentFits(spec)'
                /\ ServiceFits(spec) => ServiceFits(spec)'
                /\ IngressFits(spec) => IngressFits(spec)'
  BY <1>1, <1>3 DEF DeploymentFits, ServiceFits, IngressFits
<1>5. /\ channelWork' = channelWork /\ seen' = seen
      /\ \A spec : /\ DeploymentFits(spec) => DeploymentFits(spec)'
                   /\ ServiceFits(spec) => ServiceFits(spec)'
                   /\ IngressFits(spec) => IngressFits(spec)'
  BY <1>3, <1>4
<1>6. ChannelFits => ChannelFits'
  BY <1>1, <1>5 DEF ChannelFits
<1> QED BY <1>1, <1>2, <1>5, <1>6 DEF ChannelInv

\* A Deployment that is there was there, with its type.
TypeKept ==
  stored'[Deployment] # Absent =>
    /\ stored[Deployment] # Absent
    /\ stored'[Deployment].type = stored[Deployment].type

LEMMA SelectorKept ==
  ASSUME SelectorInv, UNCHANGED <<seen, channelWork>>, TypeKept
  PROVE  SelectorInv'
BY DEF SelectorInv, TypeKept

LEMMA UnwrittenKept ==
  ASSUME NEW written, Moves(written)
  PROVE  /\ Deployment \notin written => TypeKept
         /\ PiAgent \notin written => (IsUnread(stored'[PiAgent]) => IsUnread(stored[PiAgent]))
<1>1. Deployment \in Objects /\ PiAgent \in Objects
  BY KeysAreObjects
<1> QED BY <1>1 DEF Moves, TypeKept

LEMMA WorkKept ==
  ASSUME UNCHANGED setup
  PROVE  /\ WfWorkInv /\ UNCHANGED wfWork => WfWorkInv'
         /\ PiWorkInv /\ UNCHANGED piVars => PiWorkInv'
         /\ ChannelWorkInv /\ UNCHANGED channelWork => ChannelWorkInv'
BY DEF WfWorkInv, PiWorkInv, ChannelWorkInv, piVars

LEMMA RunsKept ==
  ASSUME StoreInv, RunsInv, UNCHANGED <<setup, runs, http>>, UNCHANGED mishaps \/ Mishap
  PROVE  RunsInv'
<1>1. mishaps' = 0 => mishaps = 0
  BY MishapCounts
<1>2. \A d, w : RunsFor(d, w)' = RunsFor(d, w)
  BY DEF RunsFor, RunFor
<1>3. \A d : Started(d)' = Started(d)
  BY <1>2 DEF Started
<1>4. \A d : DeliveryInv(d) => DeliveryInv(d)'
  BY <1>1, <1>2, <1>3 DEF DeliveryInv
<1> QED BY <1>4 DEF RunsInv, HttpTypeOK

-----------------------------------------------------------------------------
(* The Workflow controller.                                                 *)

WorkflowObjects == {Workflow(w) : w \in Workflows} \union {CronJob(w) : w \in Workflows}

\* What a step of it leaves true of Workflows.
WorkflowStep ==
  /\ Step(WorkflowObjects, {Workflow(w) : w \in Workflows})
  /\ WfWorkInv' /\ WorkflowInv'

\* A step of the reconcile of w disturbs what is known of w alone.
LEMMA WorkflowInvStep ==
  ASSUME WorkflowInv, NEW w \in Workflows, NEW taken \in SUBSET {Workflow(w)},
         Step(WorkflowObjects, taken),
         wfWork.pc # "idle" => wfWork.key = w, wfWork'.pc # "idle" => wfWork'.key = w,
         seen[Workflow(w)] # Absent /\ Workflow(w) \notin queue' =>
           IF wfWork'.pc # "idle"
           THEN /\ wfWork'.spec = seen[Workflow(w)].spec
                /\ wfWork'.pc \in {"cron", "status"} => ~wfWork'.spec.both
                /\ wfWork'.pc = "status" /\ wfWork'.spec.schedule # NoSchedule
                   /\ CronJob(w) \notin behind' => Follows(seen[CronJob(w)], wfWork'.spec)
           ELSE Workflow(w) \notin behind' /\ CronJob(w) \notin behind' => Judged(w)
  PROVE  WorkflowInv'
<1>1. \A o : o \notin behind' => o \notin behind
  BY DEF Step, Moves
<1>2. \A v \in Workflows \ {w} : Workflow(v) \notin queue' => Workflow(v) \notin queue
  BY Kinds DEF Step
<1>3. UNCHANGED seen
  BY DEF Step
<1>4. \A v : Judged(v)' <=> Judged(v)
  BY <1>3 DEF Judged, Follows
<1> QED BY <1>1, <1>2, <1>3, <1>4 DEF WorkflowInv

LEMMA NoWorkflowWork ==
  /\ NoWfWork.pc = "idle"
  /\ \A S : NoWfWork \in [pc : {"idle", "refs", "cron", "status"}, key : Workflows,
                          spec : S \union {Absent}]
BY WorkflowsAssumption DEF NoWfWork

\* A reconcile ends: its key is queued, or the Workflow is judged.
LEMMA WorkflowEnds ==
  ASSUME StoreInv, WfWorkInv, WorkflowInv, NEW failed \in BOOLEAN, FinishWorkflow(failed),
         Moves(WorkflowObjects), UNCHANGED <<setup, seen>>, UNCHANGED mishaps \/ Mishap,
         wfWork.pc # "idle",
         failed \/ Self \in queue \/ seen[Self] = Absent
         \/ Self \in behind' \/ CronJob(wfWork.key) \in behind' \/ Judged(wfWork.key)
  PROVE  WorkflowStep
<1> DEFINE w == wfWork.key
<1>1. w \in Workflows /\ Self = Workflow(w) /\ Self \in Keys
  BY KeysAreObjects DEF WfWorkInv, Self
<1>2. wfWork' = NoWfWork /\ queue' \subseteq Keys /\ queue \subseteq queue'
      /\ (failed => Self \in queue')
  BY <1>1 DEF FinishWorkflow, Requeued, StoreInv
<1>3. Step(WorkflowObjects, {})
  BY <1>2 DEF Step
<1>4. WfWorkInv'
  BY <1>2, NoWorkflowWork DEF WfWorkInv
<1>5. WorkflowInv'
  <2> HIDE DEF w
  <2> QED BY <1>1, <1>2, <1>3, NoWorkflowWork, WorkflowInvStep DEF w
<1>6. Step(WorkflowObjects, {Workflow(v) : v \in Workflows})
  BY <1>3, WiderStep
<1> QED BY <1>4, <1>5, <1>6 DEF WorkflowStep

\* What the worker knows, unless its reconcile was overtaken.
LEMMA WorkflowKnown ==
  ASSUME WfWorkInv, WorkflowInv, wfWork.pc # "idle", Self \notin queue, seen[Self] # Absent
  PROVE  /\ wfWork.spec = seen[Self].spec
         /\ wfWork.pc \in {"cron", "status"} => ~wfWork.spec.both
         /\ wfWork.pc = "status" /\ wfWork.spec.schedule # NoSchedule
            /\ CronJob(wfWork.key) \notin behind => Follows(seen[CronJob(wfWork.key)], wfWork.spec)
BY DEF WfWorkInv, WorkflowInv, Self

\* It goes on.
LEMMA WorkflowGoes ==
  ASSUME StoreInv, WfWorkInv, WorkflowInv, NEW pc \in {"cron", "status"},
         wfWork' = [wfWork EXCEPT !.pc = pc], UNCHANGED queue,
         Moves(WorkflowObjects), UNCHANGED <<setup, seen, mishaps>>, wfWork.pc # "idle",
         Self \notin queue /\ seen[Self] # Absent =>
           /\ ~wfWork.spec.both
           /\ pc = "status" /\ wfWork.spec.schedule # NoSchedule
              /\ CronJob(wfWork.key) \notin behind' => Follows(seen[CronJob(wfWork.key)], wfWork.spec)
  PROVE  WorkflowStep
<1> DEFINE w == wfWork.key
<1>1. w \in Workflows /\ Self = Workflow(w) /\ Self \in Keys
  BY KeysAreObjects DEF WfWorkInv, Self
<1>2. wfWork'.pc = pc /\ wfWork'.key = w /\ wfWork'.spec = wfWork.spec
      /\ wfWork' \in [pc : {"idle", "refs", "cron", "status"}, key : Workflows,
                      spec : setup.specs \union {Absent}]
  BY DEF WfWorkInv
<1>3. Step(WorkflowObjects, {})
  BY DEF Step, StoreInv
<1>4. WfWorkInv'
  BY <1>2 DEF WfWorkInv
<1>5. WorkflowInv'
  <2> HIDE DEF w
  <2> QED BY <1>1, <1>2, <1>3, WorkflowKnown, WorkflowInvStep DEF w
<1>6. Step(WorkflowObjects, {Workflow(v) : v \in Workflows})
  BY <1>3, WiderStep
<1> QED BY <1>4, <1>5, <1>6 DEF WorkflowStep

LEMMA SelfTypes ==
  ASSUME StoreInv, WfWorkInv
  PROVE  /\ Self \in Keys /\ Self \in Objects /\ Self = Workflow(wfWork.key)
         /\ wfWork.key \in Workflows
         /\ {Self} \subseteq WorkflowObjects /\ {CronJob(wfWork.key)} \subseteq WorkflowObjects
         /\ CronJob(wfWork.key) \in Objects \ Keys
         /\ ObjectsOf(Self) = {Absent} \union WorkflowObject
         /\ ObjectsOf(CronJob(wfWork.key)) = {Absent} \union CronJobObject(setup.specs)
         /\ Known(Self) => seen[Self] \in WorkflowObject
         /\ Known(CronJob(wfWork.key)) => seen[CronJob(wfWork.key)] \in CronJobObject(setup.specs)
<1>1. wfWork.key \in Workflows /\ Self = Workflow(wfWork.key)
  BY DEF WfWorkInv, Self
<1>2. CronJob(wfWork.key) \notin Keys
  BY Kinds, KeyKinds
<1> QED BY <1>1, <1>2, KeysAreObjects, KindTypes, StoredTypes DEF WorkflowObjects, Known

LEMMA BeginWorkflowKeeps ==
  ASSUME StoreInv, WfWorkInv, WorkflowInv, CacheInv, NEW w \in Workflows, BeginWorkflow(w),
         UNCHANGED <<setup, seen, mishaps>>
  PROVE  WorkflowStep
<1>1. Moves(WorkflowObjects)
  BY KeptMoves DEF BeginWorkflow
<1>2. Step(WorkflowObjects, {Workflow(w)})
  BY <1>1 DEF BeginWorkflow, Step, StoreInv
<1>3. Step(WorkflowObjects, {Workflow(v) : v \in Workflows})
  BY <1>2, WiderStep
<1>4. CASE Known(Workflow(w))
  <2>1. seen[Workflow(w)] \in WorkflowObject /\ Workflow(w) \in setup.objects
    BY <1>4, StoredTypes, KeysAreObjects DEF Known, StoreInv
  <2>2. wfWork' = [pc |-> "refs", key |-> w, spec |-> seen[Workflow(w)].spec]
    BY <1>4 DEF BeginWorkflow
  <2>3. seen[Workflow(w)].spec \in setup.specs
    BY <2>1 DEF WorkflowObject
  <2>4. WfWorkInv'
    BY <2>1, <2>2, <2>3 DEF WfWorkInv
  <2>5. WorkflowInv'
    BY <1>2, <2>2, WorkflowInvStep DEF BeginWorkflow
  <2> QED BY <1>3, <2>4, <2>5 DEF WorkflowStep
<1>5. CASE ~Known(Workflow(w))
  <2>1. UNCHANGED wfWork /\ wfWork.pc = "idle"
    BY <1>5 DEF BeginWorkflow
  <2>2. WfWorkInv'
    BY <2>1, WorkKept
  <2>3. WorkflowInv'
    BY <1>2, <1>5, <2>1, WorkflowInvStep DEF Known
  <2> QED BY <1>3, <2>2, <2>3 DEF WorkflowStep
<1> QED BY <1>4, <1>5

LEMMA StatusErrorKeeps ==
  ASSUME StoreInv, WfWorkInv, WorkflowInv, CacheInv, wfWork.pc = "refs",
         NEW reason \in {"InvalidSpec", "AgentNotFound"}, StatusError(reason),
         wfWork.spec.both => reason = "InvalidSpec",
         UNCHANGED <<setup, seen, mishaps>>
  PROVE  WorkflowStep
<1>1. CASE Refused(Self) /\ FinishWorkflow(TRUE)
  <2>1. Moves(WorkflowObjects)
    BY <1>1, KeptMoves DEF Refused
  <2> QED BY <1>1, <2>1, WorkflowEnds
<1>2. CASE ~(Refused(Self) /\ FinishWorkflow(TRUE))
  <2> DEFINE new == [seen[Self] EXCEPT !.reason = reason]
  <2>1. Exists(Self) /\ Self \notin behind /\ (Write(Self, new) \/ Touch(Self, new))
        /\ FinishWorkflow(FALSE)
    BY <1>2 DEF StatusError, Current
  <2>2. seen[Self] = stored[Self] /\ Known(Self)
    BY <2>1, SelfTypes DEF CacheInv, Exists, Known
  <2>3. new \in WorkflowObject /\ new.reason = reason
    BY <2>2, SelfTypes DEF WorkflowObject, Reasons
  <2>4. Moves(WorkflowObjects) /\ (Self \in behind' \/ stored[Self] = new)
    <3> HIDE DEF new
    <3>1. Moves({Self}) /\ (Self \in behind' \/ stored[Self] = new)
      BY <2>1, <2>3, SelfTypes, WriteMoves, TouchMoves
    <3> QED BY <3>1, SelfTypes, WiderMoves
  <2>5. Self \in queue \/ Self \in behind' \/ Judged(wfWork.key)
    <3> SUFFICES ASSUME Self \notin queue, Self \notin behind' PROVE Judged(wfWork.key)
      OBVIOUS
    <3>1. seen[Self].reason = reason /\ wfWork.spec = seen[Self].spec
      BY <2>2, <2>3, <2>4, WorkflowKnown DEF Known
    <3> QED BY <3>1 DEF Judged, Self
  <2> QED BY <2>1, <2>4, <2>5, WorkflowEnds
<1> QED BY <1>1, <1>2

LEMMA CheckRefsKeeps ==
  ASSUME StoreInv, WfWorkInv, WorkflowInv, CacheInv, CheckRefs, UNCHANGED <<setup, seen, mishaps>>
  PROVE  WorkflowStep
<1>1. CASE wfWork.spec.both /\ StatusError("InvalidSpec")
  BY <1>1, StatusErrorKeeps DEF CheckRefs
<1>2. CASE ~wfWork.spec.both /\ StatusError("AgentNotFound")
  BY <1>2, StatusErrorKeeps DEF CheckRefs
<1>3. CASE ~(wfWork.spec.both /\ StatusError("InvalidSpec"))
           /\ ~(~wfWork.spec.both /\ StatusError("AgentNotFound"))
  <2> DEFINE pc == IF wfWork.spec.schedule # NoSchedule THEN "cron" ELSE "status"
  <2>1. /\ ~wfWork.spec.both /\ wfWork' = [wfWork EXCEPT !.pc = pc]
        /\ UNCHANGED <<api, queue>> /\ wfWork.pc = "refs"
    BY <1>3 DEF CheckRefs
  <2>2. Moves(WorkflowObjects)
    BY <2>1, KeptMoves
  <2>3. pc \in {"cron", "status"} /\ (pc = "status" => wfWork.spec.schedule = NoSchedule)
    OBVIOUS
  <2> HIDE DEF pc
  <2> QED BY <2>1, <2>2, <2>3, WorkflowGoes
<1> QED BY <1>1, <1>2, <1>3

LEMMA ScheduleTriggerKeeps ==
  ASSUME StoreInv, WfWorkInv, WorkflowInv, CacheInv, ScheduleTrigger,
         UNCHANGED <<setup, seen, mishaps>>
  PROVE  WorkflowStep
<1> DEFINE o == CronJob(wfWork.key)
           spec == wfWork.spec
           new == [schedule |-> spec.schedule, suspend |-> spec.suspend]
           changed == [seen[o] EXCEPT !.schedule = spec.schedule, !.suspend = spec.suspend]
<1>1. wfWork.pc = "cron" /\ o \in Objects \ Keys
  BY SelfTypes DEF ScheduleTrigger
<1>2. new \in CronJobObject(setup.specs) /\ new # Absent /\ Follows(new, spec)
  <2>1. Workflow(wfWork.key) \in setup.objects /\ spec \in setup.specs /\ wfWork.key \in Workflows
        /\ setup \in Setups
    BY <1>1 DEF WfWorkInv, StoreInv
  <2>2. spec.suspend \in BOOLEAN /\ Absent \notin CronJobObject(setup.specs)
    BY <2>1, WorkflowSpecsAssumption
  <2>3. new \in CronJobObject(setup.specs)
    BY <2>1, <2>2 DEF CronJobObject
  <2> QED BY <2>2, <2>3 DEF Follows
<1>3. CASE ~Known(o) /\ Create(o, new) /\ wfWork' = [wfWork EXCEPT !.pc = "status"] /\ UNCHANGED queue
  <2>1. Moves({o}) /\ o \in behind'
    <3> HIDE DEF o, new
    <3> QED BY <1>1, <1>2, <1>3, SelfTypes, WriteMoves DEF Create, Exists, o
  <2>2. Moves(WorkflowObjects)
    BY <2>1, SelfTypes, WiderMoves
  <2> QED BY <1>1, <1>3, <2>1, <2>2, WorkflowGoes, WorkflowKnown
<1>4. CASE Known(o) /\ Update(o, changed) /\ wfWork' = [wfWork EXCEPT !.pc = "status"] /\ UNCHANGED queue
  <2>1. seen[o] \in CronJobObject(setup.specs)
    BY <1>4, SelfTypes
  <2>2. changed = new
    <3>1. seen[o] = [schedule |-> seen[o].schedule, suspend |-> seen[o].suspend]
      BY <2>1 DEF CronJobObject
    <3> DEFINE once == [seen[o] EXCEPT !.schedule = spec.schedule]
    <3>2. once = [schedule |-> spec.schedule, suspend |-> seen[o].suspend]
      <4> HIDE DEF o, spec
      <4> QED BY <3>1
    <3>3. [once EXCEPT !.suspend = spec.suspend] = new
      <4> HIDE DEF once, spec
      <4> QED BY <3>2
    <3> QED BY <3>3
  <2>3. Exists(o) /\ Write(o, new) /\ seen[o] = stored[o]
    BY <1>1, <1>4, <2>2 DEF Update, CacheInv, Current
  <2>4. Moves({o}) /\ (o \in behind' \/ stored[o] = new)
    <3> HIDE DEF o, new
    <3> QED BY <1>1, <1>2, <2>3, SelfTypes, WriteMoves DEF o
  <2>5. Moves(WorkflowObjects)
    BY <2>4, SelfTypes, WiderMoves
  <2>6. o \notin behind' => Follows(seen[o], spec)
    BY <1>2, <2>3, <2>4
  <2> QED BY <1>1, <1>4, <2>5, <2>6, WorkflowGoes, WorkflowKnown
<1>5. CASE (IF Known(o) THEN Refused(o) ELSE Exists(o) /\ UNCHANGED api) /\ FinishWorkflow(TRUE)
  <2>1. Moves(WorkflowObjects)
    <3>1. UNCHANGED api
      BY <1>5 DEF Refused
    <3> QED BY <3>1, KeptMoves
  <2> QED BY <1>1, <1>5, <2>1, WorkflowEnds
<1> QED BY <1>3, <1>4, <1>5 DEF ScheduleTrigger

LEMMA WorkflowStatusKeeps ==
  ASSUME StoreInv, WfWorkInv, WorkflowInv, CacheInv, WorkflowStatus,
         UNCHANGED <<setup, seen, mishaps>>
  PROVE  WorkflowStep
<1>1. wfWork.pc = "status"
  BY DEF WorkflowStatus
<1>2. CASE Refused(Self) /\ FinishWorkflow(TRUE)
  <2>1. Moves(WorkflowObjects)
    BY <1>2, KeptMoves DEF Refused
  <2> QED BY <1>1, <1>2, <2>1, WorkflowEnds
<1>3. CASE ~(Refused(Self) /\ FinishWorkflow(TRUE))
  <2> DEFINE url == (wfWork.spec.trigger.kind = "generic")
             new(n) == [seen[Self] EXCEPT !.count = n, !.url = url]
  <2>1. Known(Self) /\ FinishWorkflow(FALSE) /\ seen[Self] \in WorkflowObject
    BY <1>3, SelfTypes DEF WorkflowStatus
  <2>2. PICK n \in seen[Self].count..Cardinality(Labelled(wfWork.key)) :
          IF new(n) = seen[Self] THEN UNCHANGED api ELSE Update(Self, new(n))
    BY <1>3 DEF WorkflowStatus
  <2>3. new(n) \in WorkflowObject /\ new(n).url = url
    <3>1. seen[Self].count \in Nat /\ n \in Int /\ seen[Self].count <= n
      BY <2>1, <2>2 DEF WorkflowObject
    <3>2. n \in Nat
      BY <3>1
    <3>3. url \in BOOLEAN
      OBVIOUS
    <3> HIDE DEF url
    <3> QED BY <2>1, <3>2, <3>3 DEF WorkflowObject
  <2>4. Moves(WorkflowObjects) /\ (Self \in behind' \/ new(n) = seen[Self])
    <3>1. CASE new(n) = seen[Self]
      BY <2>2, <3>1, KeptMoves
    <3>2. CASE new(n) # seen[Self]
      <4>1. Exists(Self) /\ Write(Self, new(n)) /\ stored[Self] = seen[Self]
        BY <2>2, <3>2, SelfTypes DEF Update, Current, CacheInv
      <4>2. Moves({Self}) /\ Self \in behind'
        <5> HIDE DEF new
        <5> QED BY <2>3, <3>2, <4>1, SelfTypes, WriteMoves
      <4> QED BY <4>2, SelfTypes, WiderMoves
    <3> QED BY <3>1, <3>2
  <2>5. ASSUME Self \notin queue, Self \notin behind', CronJob(wfWork.key) \notin behind'
        PROVE  Judged(wfWork.key)
    <3>1. CronJob(wfWork.key) \notin behind
      BY <2>4, <2>5 DEF Moves
    <3>2. /\ wfWork.spec = seen[Self].spec /\ ~wfWork.spec.both
          /\ wfWork.spec.schedule # NoSchedule => Follows(seen[CronJob(wfWork.key)], wfWork.spec)
      BY <1>1, <2>1, <2>5, <3>1, WorkflowKnown DEF Known
    <3>3. seen[Self].url = url
      BY <2>3, <2>4, <2>5
    <3> QED BY <3>2, <3>3 DEF Judged, Self
  <2>6. Self \in queue \/ Self \in behind' \/ CronJob(wfWork.key) \in behind' \/ Judged(wfWork.key)
    BY <2>5
  <2> HIDE DEF url
  <2> QED BY <1>1, <2>1, <2>4, <2>6, WorkflowEnds
<1> QED BY <1>2, <1>3

LEMMA WorkflowWorkerKeeps ==
  ASSUME StoreInv, WfWorkInv, WorkflowInv, CacheInv, WorkflowWorker
  PROVE  WorkflowStep /\ UNCHANGED <<runs, others>>
<1>1. UNCHANGED others
  BY DEF WorkflowWorker
<1>2. CASE ReconcileWorkflow
  <2>1. UNCHANGED <<setup, seen, mishaps, runs>>
    BY <1>2 DEF ReconcileWorkflow
  <2>2. CASE \E w \in Workflows : BeginWorkflow(w)
    BY <1>1, <2>1, <2>2, BeginWorkflowKeeps
  <2>3. CASE CheckRefs
    BY <1>1, <2>1, <2>3, CheckRefsKeeps
  <2>4. CASE ScheduleTrigger
    BY <1>1, <2>1, <2>4, ScheduleTriggerKeeps
  <2>5. CASE WorkflowStatus
    BY <1>1, <2>1, <2>5, WorkflowStatusKeeps
  <2> QED BY <1>2, <2>2, <2>3, <2>4, <2>5 DEF ReconcileWorkflow
<1>3. CASE WorkflowFails
  <2>1. wfWork.pc # "idle" /\ Mishap /\ FinishWorkflow(TRUE) /\ UNCHANGED <<setup, api, seen, runs>>
    BY <1>3 DEF WorkflowFails
  <2>2. Moves(WorkflowObjects)
    BY <2>1, KeptMoves
  <2>3. WorkflowStep
    BY <2>1, <2>2, WorkflowEnds
  <2> QED BY <1>1, <2>1, <2>3
<1> QED BY <1>2, <1>3 DEF WorkflowWorker

-----------------------------------------------------------------------------
(* The PiAgent controller.                                                  *)

\* What a step of it leaves true of the PiAgent.
PiAgentStep ==
  /\ Step({PiAgent}, {PiAgent})
  /\ PiWorkInv' /\ VerdictInv' /\ UnreadInv'

LEMMA PiAgentTypes ==
  ASSUME StoreInv
  PROVE  /\ PiAgent \in Keys /\ PiAgent \in Objects
         /\ ObjectsOf(PiAgent) = {Absent} \union PiAgentObject
         /\ Known(PiAgent) => seen[PiAgent] \in PiAgentObject /\ PiAgent \in setup.objects
BY KeysAreObjects, KindTypes, StoredTypes DEF Known, StoreInv

LEMMA VerdictsGiven ==
  ASSUME NEW spec
  PROVE  /\ ~OneSource(spec) => Gives(spec, <<"SourceInvalid", "spec">>)
         /\ spec.source = "oci" /\ spec.verify => Gives(spec, <<"SourceInvalid", "signature">>)
         /\ spec.source = "configmap" =>
              \A m \in {"not found", "no key", "unread"} : Gives(spec, <<"SourceInvalid", m>>)
         /\ OneSource(spec) /\ spec.needsKey =>
              \A m \in {"not found", "no key", "unread"} : Gives(spec, <<"ProviderInvalid", m>>)
         /\ OneSource(spec) /\ ~spec.knownModel => Gives(spec, <<"ModelInvalid", "spec">>)
         /\ OneSource(spec) /\ spec.knownModel /\ spec.verify =>
              Gives(spec, <<"ToolRefInvalid", "signature">>)
         /\ OneSource(spec) /\ spec.knownModel => Gives(spec, Validated)
<1>1. ~OneSource(spec) => Gives(spec, <<"SourceInvalid", "spec">>)
  BY DEF Gives, OneSource, Validated
<1>2. spec.source = "oci" /\ spec.verify => Gives(spec, <<"SourceInvalid", "signature">>)
  BY DEF Gives, Validated
<1>3. spec.source = "configmap" =>
        \A m \in {"not found", "no key", "unread"} : Gives(spec, <<"SourceInvalid", m>>)
  BY DEF Gives, Validated
<1>4. OneSource(spec) /\ spec.needsKey =>
        \A m \in {"not found", "no key", "unread"} : Gives(spec, <<"ProviderInvalid", m>>)
  BY DEF Gives, OneSource, Validated
<1>5. OneSource(spec) /\ ~spec.knownModel => Gives(spec, <<"ModelInvalid", "spec">>)
  BY DEF Gives, OneSource, Validated
<1>6. OneSource(spec) /\ spec.knownModel /\ spec.verify =>
        Gives(spec, <<"ToolRefInvalid", "signature">>)
  BY DEF Gives, OneSource, Validated
<1>7. OneSource(spec) /\ spec.knownModel => Gives(spec, Validated)
  BY DEF Gives, OneSource, Validated
<1> QED BY <1>1, <1>2, <1>3, <1>4, <1>5, <1>6, <1>7

\* A validation goes on, or has its verdict.
LEMMA PiAgentGoes ==
  ASSUME StoreInv, PiWorkInv, VerdictInv, UnreadInv, piWork.pc # "idle",
         NEW pc \in {"providers", "tools", "status"}, NEW v \in Verdicts,
         piWork' = [pc |-> pc, spec |-> piWork.spec, verdict |-> v],
         UNCHANGED <<setup, api, seen, queue>>, UNCHANGED mishaps \/ Mishap,
         \/ unread' = unread /\ (v = piWork.verdict \/ v[2] # "unread")
         \/ unread' = unread + 1,
         pc \in {"providers", "tools"} => OneSource(piWork.spec),
         pc = "tools" => piWork.spec.knownModel,
         pc = "status" => Gives(piWork.spec, v)
  PROVE  PiAgentStep
<1>1. Moves({PiAgent})
  BY KeptMoves
<1>2. Step({PiAgent}, {PiAgent})
  BY <1>1 DEF Step, StoreInv
<1>3. PiWorkInv'
  BY DEF PiWorkInv
<1>4. VerdictInv'
  BY DEF VerdictInv
<1>5. UnreadInv'
  <2>1. unread \in Nat /\ UNCHANGED <<stored, seen>> /\ piWork'.verdict = v /\ piWork'.pc = pc
    BY DEF PiWorkInv, api
  <2> QED BY <2>1 DEF UnreadInv
<1> QED BY <1>2, <1>3, <1>4, <1>5 DEF PiAgentStep

\* The reconcile ends: its key is queued, or the verdict is the one it came to.
LEMMA PiAgentEnds ==
  ASSUME StoreInv, PiWorkInv, VerdictInv, UnreadInv, piWork.pc = "status",
         NEW failed \in BOOLEAN, FinishPiAgent(failed),
         Moves({PiAgent}), UNCHANGED <<setup, seen, unread>>, UNCHANGED mishaps \/ Mishap,
         IsUnread(stored'[PiAgent]) => IsUnread(stored[PiAgent]) \/ piWork.verdict[2] = "unread",
         failed \/ (Known(PiAgent) /\
                      (PiAgent \in behind' \/ seen[PiAgent].verdict = piWork.verdict))
  PROVE  PiAgentStep
<1>1. /\ piWork' = NoPiWork /\ queue' \subseteq Keys /\ queue \subseteq queue'
      /\ failed => PiAgent \in queue'
  BY PiAgentTypes DEF FinishPiAgent, Requeued, StoreInv
<1>2. Step({PiAgent}, {PiAgent})
  BY <1>1 DEF Step
<1>3. PiWorkInv'
  <2>1. NoPiWork \in [pc : {"idle"}, spec : {Absent}, verdict : Verdicts]
    BY DEF NoPiWork, Unset, Verdicts
  <2> QED BY <1>1, <2>1 DEF PiWorkInv
<1>4. VerdictInv'
  <2>1. piWork'.pc = "idle"
    BY <1>1 DEF NoPiWork
  <2>2. ASSUME seen[PiAgent] # Absent, PiAgent \notin queue', PiAgent \notin behind'
        PROVE  Gives(seen[PiAgent].spec, seen[PiAgent].verdict)
    BY <1>1, <2>2 DEF VerdictInv
  <2> QED BY <2>1, <2>2 DEF VerdictInv
<1>5. UnreadInv'
  <2>1. piWork'.pc = "idle" /\ piWork'.verdict[2] = ""
    BY <1>1 DEF NoPiWork, Unset
  <2>2. unread' = unread /\ unread \in Nat /\ seen' = seen
    BY DEF PiWorkInv
  <2>3. ASSUME PiAgent \notin queue', PiAgent \notin behind', unread <= 1
        PROVE  ~IsUnread(seen[PiAgent])
    <3>1. Known(PiAgent) /\ seen[PiAgent].verdict = piWork.verdict
      BY <1>1, <2>3
    <3>2. CASE piWork.verdict[2] = "unread"
      BY <2>3, <3>2 DEF UnreadInv
    <3>3. CASE piWork.verdict[2] # "unread"
      BY <3>1, <3>3 DEF IsUnread
    <3> QED BY <3>2, <3>3
  <2> QED BY <2>1, <2>2, <2>3 DEF UnreadInv
<1> QED BY <1>2, <1>3, <1>4, <1>5 DEF PiAgentStep

\* What reading an object comes to.
LEMMA Readings ==
  ASSUME NEW o, NEW reason \in {"SourceInvalid", "ProviderInvalid"}, Reading(o, reason) # Validated
  PROVE  \E m \in {"not found", "no key"} :
           Reading(o, reason) = <<reason, m>> /\ <<reason, m>> \in Verdicts
BY DEF Reading, Verdicts

LEMMA BeginPiAgentKeeps ==
  ASSUME StoreInv, CacheInv, PiWorkInv, VerdictInv, UnreadInv, BeginPiAgent,
         UNCHANGED <<setup, api, seen, mishaps, unread>>
  PROVE  PiAgentStep
<1>1. Step({PiAgent}, {PiAgent})
  <2>1. Moves({PiAgent})
    BY KeptMoves
  <2> QED BY <2>1 DEF BeginPiAgent, Step, StoreInv
<1>2. UNCHANGED <<stored, behind>> /\ queue' = queue \ {PiAgent} /\ piWork.pc = "idle"
  BY DEF BeginPiAgent, api
<1>3. CASE Known(PiAgent)
  <2>1. piWork' = [pc |-> "source", spec |-> seen[PiAgent].spec, verdict |-> Unset]
    BY <1>3 DEF BeginPiAgent
  <2>2. seen[PiAgent].spec \in setup.specs /\ PiAgent \in setup.objects
    BY <1>3, PiAgentTypes DEF PiAgentObject
  <2>3. Unset \in Verdicts /\ Unset[2] # "unread"
    BY DEF Unset, Verdicts
  <2>4. PiWorkInv'
    BY <2>1, <2>2, <2>3 DEF PiWorkInv
  <2>5. VerdictInv'
    BY <2>1 DEF VerdictInv
  <2>6. UnreadInv'
    BY <1>2, <2>1, <2>3 DEF UnreadInv
  <2> QED BY <1>1, <2>4, <2>5, <2>6 DEF PiAgentStep
<1>4. CASE ~Known(PiAgent)
  <2>1. UNCHANGED piWork /\ seen[PiAgent] = Absent
    BY <1>4 DEF BeginPiAgent, Known
  <2>2. PiWorkInv'
    BY <2>1 DEF PiWorkInv
  <2>3. VerdictInv'
    BY <2>1 DEF VerdictInv
  <2>4. UnreadInv'
    BY <1>2, <2>1 DEF UnreadInv, IsUnread
  <2> QED BY <1>1, <2>2, <2>3, <2>4 DEF PiAgentStep
<1> QED BY <1>3, <1>4

LEMMA VerdictGoes ==
  ASSUME StoreInv, PiWorkInv, VerdictInv, UnreadInv, piWork.pc # "idle",
         NEW v \in Verdicts, Verdict(v), Gives(piWork.spec, v),
         v[2] = "unread" => unread' = unread + 1, v[2] # "unread" => unread' = unread,
         UNCHANGED <<setup, api, seen, queue>>, UNCHANGED mishaps \/ Mishap
  PROVE  PiAgentStep
<1>1. piWork' = [pc |-> "status", spec |-> piWork.spec, verdict |-> v]
  BY DEF Verdict, PiWorkInv
<1> QED BY <1>1, PiAgentGoes

LEMMA GotoGoes ==
  ASSUME StoreInv, PiWorkInv, VerdictInv, UnreadInv, piWork.pc # "idle",
         NEW pc \in {"providers", "tools"}, PiGoto(pc), OneSource(piWork.spec),
         pc = "tools" => piWork.spec.knownModel,
         UNCHANGED <<setup, api, seen, queue, mishaps, unread>>
  PROVE  PiAgentStep
<1>1. piWork' = [pc |-> pc, spec |-> piWork.spec, verdict |-> piWork.verdict]
      /\ piWork.verdict \in Verdicts
  BY DEF PiGoto, PiWorkInv
<1> QED BY <1>1, PiAgentGoes

LEMMA ValidateSourceKeeps ==
  ASSUME StoreInv, PiWorkInv, VerdictInv, UnreadInv, ValidateSource,
         UNCHANGED <<setup, api, seen, mishaps, unread>>
  PROVE  PiAgentStep
<1>1. piWork.pc = "source" /\ UNCHANGED queue
  BY DEF ValidateSource
<1>2. CASE piWork.spec.source \in {"none", "several"}
  <2>1. Verdict(<<"SourceInvalid", "spec">>)
    BY <1>2 DEF ValidateSource, ReadsSource
  <2>2. <<"SourceInvalid", "spec">> \in Verdicts /\ Gives(piWork.spec, <<"SourceInvalid", "spec">>)
    BY <1>2, VerdictsGiven DEF Verdicts, OneSource
  <2> QED BY <1>1, <2>1, <2>2, VerdictGoes
<1>3. CASE ReadsSource /\ Reading(ConfigMap, "SourceInvalid") # Validated
  <2> DEFINE v == Reading(ConfigMap, "SourceInvalid")
  <2>1. Verdict(v)
    BY <1>3 DEF ValidateSource, ReadsSource
  <2>2. PICK m \in {"not found", "no key"} : v = <<"SourceInvalid", m>> /\ v \in Verdicts
    BY <1>3, Readings
  <2>3. Gives(piWork.spec, v) /\ v[2] # "unread"
    <3> HIDE DEF v
    <3> QED BY <1>3, <2>2, VerdictsGiven DEF ReadsSource
  <2> HIDE DEF v
  <2> QED BY <1>1, <2>1, <2>2, <2>3, VerdictGoes
<1>4. CASE /\ piWork.spec.source \notin {"none", "several"}
           /\ ~(ReadsSource /\ Reading(ConfigMap, "SourceInvalid") # Validated)
  <2>1. PiGoto("providers") /\ OneSource(piWork.spec)
    BY <1>4 DEF ValidateSource, OneSource
  <2> QED BY <1>1, <2>1, GotoGoes
<1> QED BY <1>2, <1>3, <1>4

LEMMA ValidateProvidersKeeps ==
  ASSUME StoreInv, PiWorkInv, VerdictInv, UnreadInv, ValidateProviders,
         UNCHANGED <<setup, api, seen, mishaps, unread>>
  PROVE  PiAgentStep
<1>1. piWork.pc = "providers" /\ UNCHANGED queue /\ OneSource(piWork.spec)
  BY DEF ValidateProviders, VerdictInv
<1>2. CASE ReadsSecret /\ Reading(Secret, "ProviderInvalid") # Validated
  <2> DEFINE v == Reading(Secret, "ProviderInvalid")
  <2>1. Verdict(v)
    BY <1>2 DEF ValidateProviders
  <2>2. PICK m \in {"not found", "no key"} : v = <<"ProviderInvalid", m>> /\ v \in Verdicts
    BY <1>2, Readings
  <2>3. Gives(piWork.spec, v) /\ v[2] # "unread"
    <3> HIDE DEF v
    <3> QED BY <1>1, <1>2, <2>2, VerdictsGiven DEF ReadsSecret
  <2> HIDE DEF v
  <2> QED BY <1>1, <2>1, <2>2, <2>3, VerdictGoes
<1>3. CASE ~(ReadsSecret /\ Reading(Secret, "ProviderInvalid") # Validated) /\ ~piWork.spec.knownModel
  <2>1. Verdict(<<"ModelInvalid", "spec">>)
    BY <1>3 DEF ValidateProviders
  <2>2. <<"ModelInvalid", "spec">> \in Verdicts /\ Gives(piWork.spec, <<"ModelInvalid", "spec">>)
    BY <1>1, <1>3, VerdictsGiven DEF Verdicts
  <2> QED BY <1>1, <2>1, <2>2, VerdictGoes
<1>4. CASE ~(ReadsSecret /\ Reading(Secret, "ProviderInvalid") # Validated) /\ piWork.spec.knownModel
  <2>1. PiGoto("tools")
    BY <1>4 DEF ValidateProviders
  <2> QED BY <1>1, <1>4, <2>1, GotoGoes
<1> QED BY <1>2, <1>3, <1>4

LEMMA RejectSourceKeeps ==
  ASSUME StoreInv, PiWorkInv, VerdictInv, UnreadInv, RejectSource,
         UNCHANGED <<setup, api, seen, mishaps, unread>>
  PROVE  PiAgentStep
<1>1. piWork.pc = "source" /\ Verdict(<<"SourceInvalid", "signature">>) /\ UNCHANGED queue
  BY DEF RejectSource
<1>2. <<"SourceInvalid", "signature">> \in Verdicts
      /\ Gives(piWork.spec, <<"SourceInvalid", "signature">>)
  BY VerdictsGiven DEF RejectSource, Verdicts
<1> QED BY <1>1, <1>2, VerdictGoes

LEMMA ValidateToolRefsKeeps ==
  ASSUME StoreInv, PiWorkInv, VerdictInv, UnreadInv, ValidateToolRefs,
         UNCHANGED <<setup, api, seen, mishaps, unread>>
  PROVE  PiAgentStep
<1>1. piWork.pc = "tools" /\ UNCHANGED queue /\ OneSource(piWork.spec) /\ piWork.spec.knownModel
  BY DEF ValidateToolRefs, VerdictInv
<1>2. CASE Verdict(Validated)
  <2>1. Validated \in Verdicts /\ Validated[2] # "unread"
    BY DEF Validated, Verdicts
  <2> QED BY <1>1, <1>2, <2>1, VerdictsGiven, VerdictGoes
<1>3. CASE piWork.spec.verify /\ Verdict(<<"ToolRefInvalid", "signature">>)
  <2>1. <<"ToolRefInvalid", "signature">> \in Verdicts
        /\ Gives(piWork.spec, <<"ToolRefInvalid", "signature">>)
    BY <1>1, <1>3, VerdictsGiven DEF Verdicts
  <2> QED BY <1>1, <1>3, <2>1, VerdictGoes
<1> QED BY <1>2, <1>3 DEF ValidateToolRefs

LEMMA ReadFailsKeeps ==
  ASSUME StoreInv, PiWorkInv, VerdictInv, UnreadInv, ReadFails
  PROVE  PiAgentStep
<1> DEFINE v == <<IF ReadsSource THEN "SourceInvalid" ELSE "ProviderInvalid", "unread">>
<1>1. /\ Verdict(v) /\ Mishap /\ unread' = unread + 1 /\ UNCHANGED <<setup, api, seen, queue>>
      /\ piWork.pc # "idle"
  BY DEF ReadFails, ReadsSource, ReadsSecret
<1>2. v[2] = "unread" /\ v \in Verdicts
  BY DEF Verdicts
<1>3. Gives(piWork.spec, v)
  <2>1. CASE ReadsSource
    BY <2>1, VerdictsGiven DEF ReadsSource
  <2>2. CASE ~ReadsSource /\ ReadsSecret
    <3>1. OneSource(piWork.spec) /\ piWork.spec.needsKey
      BY <2>2 DEF ReadsSecret, VerdictInv
    <3> QED BY <2>2, <3>1, VerdictsGiven
  <2> QED BY <2>1, <2>2 DEF ReadFails
<1> HIDE DEF v
<1> QED BY <1>1, <1>2, <1>3, VerdictGoes

LEMMA SetPiStatusKeeps ==
  ASSUME StoreInv, CacheInv, PiWorkInv, VerdictInv, UnreadInv, SetPiStatus,
         UNCHANGED <<setup, seen, mishaps, unread>>
  PROVE  PiAgentStep
<1> DEFINE new == [seen[PiAgent] EXCEPT !.verdict = piWork.verdict]
<1>1. piWork.pc = "status"
  BY DEF SetPiStatus
<1>2. CASE Refused(PiAgent) /\ FinishPiAgent(TRUE)
  <2>1. UNCHANGED api
    BY <1>2 DEF Refused
  <2>2. Moves({PiAgent}) /\ stored' = stored
    BY <2>1, KeptMoves DEF api
  <2> QED BY <1>1, <1>2, <2>2, PiAgentEnds
<1>3. CASE /\ Known(PiAgent) /\ FinishPiAgent(FALSE)
           /\ IF new = seen[PiAgent] THEN UNCHANGED api ELSE Update(PiAgent, new)
  <2>1. new \in PiAgentObject /\ new.verdict = piWork.verdict
    BY <1>3, PiAgentTypes DEF PiAgentObject, PiWorkInv
  <2>2. CASE new = seen[PiAgent]
    <3>1. UNCHANGED api
      BY <1>3, <2>2
    <3>2. Moves({PiAgent}) /\ stored' = stored
      BY <3>1, KeptMoves DEF api
    <3> QED BY <1>1, <1>3, <2>1, <2>2, <3>2, PiAgentEnds
  <2>3. CASE new # seen[PiAgent]
    <3>1. Exists(PiAgent) /\ Write(PiAgent, new) /\ stored[PiAgent] = seen[PiAgent]
      BY <1>3, <2>3, PiAgentTypes DEF Update, Current, CacheInv
    <3>2. Moves({PiAgent}) /\ PiAgent \in behind' /\ stored'[PiAgent] = new
      <4> HIDE DEF new
      <4> QED BY <2>1, <2>3, <3>1, PiAgentTypes, WriteMoves
    <3>3. IsUnread(stored'[PiAgent]) => piWork.verdict[2] = "unread"
      BY <2>1, <3>2 DEF IsUnread
    <3> QED BY <1>1, <1>3, <3>2, <3>3, PiAgentEnds
  <2> QED BY <2>2, <2>3
<1> QED BY <1>2, <1>3 DEF SetPiStatus

LEMMA PiAgentWorkerKeeps ==
  ASSUME StoreInv, CacheInv, PiWorkInv, VerdictInv, UnreadInv, PiAgentWorker
  PROVE  PiAgentStep /\ UNCHANGED <<wfVars, http, channelWork>>
<1>1. UNCHANGED <<wfVars, http, channelWork>>
  BY DEF PiAgentWorker
<1>2. CASE ValidatePiAgent
  <2>1. UNCHANGED <<setup, api, seen, mishaps, unread>>
    BY <1>2 DEF ValidatePiAgent
  <2>2. ValidateSource \/ RejectSource \/ ValidateProviders \/ ValidateToolRefs \/ BeginPiAgent
    BY <1>2 DEF ValidatePiAgent
  <2> QED BY <1>1, <2>1, <2>2, ValidateSourceKeeps, RejectSourceKeeps, ValidateProvidersKeeps,
             ValidateToolRefsKeeps, BeginPiAgentKeeps
<1>3. CASE WritePiStatus
  <2>1. SetPiStatus /\ UNCHANGED <<setup, seen, mishaps, unread>>
    BY <1>3 DEF WritePiStatus
  <2> QED BY <1>1, <2>1, SetPiStatusKeeps
<1>4. CASE PiStatusFails
  <2>1. /\ piWork.pc = "status" /\ Mishap /\ FinishPiAgent(TRUE)
        /\ UNCHANGED <<setup, api, seen, unread>>
    BY <1>4 DEF PiStatusFails
  <2>2. Moves({PiAgent}) /\ stored' = stored
    BY <2>1, KeptMoves DEF api
  <2> QED BY <1>1, <2>1, <2>2, PiAgentEnds
<1>5. CASE ReadFails
  BY <1>1, <1>5, ReadFailsKeeps
<1> QED BY <1>2, <1>3, <1>4, <1>5 DEF PiAgentWorker

-----------------------------------------------------------------------------
(* The Channel controller.                                                  *)

ChannelObjects == {Channel, Deployment, Service, Ingress}

\* The step of ServiceFollowsPods.
FollowsPods ==
  channelWork.pc = "service" /\ channelWork'.pc = "ingress"
  /\ stored'[Service] # stored[Service] /\ Exists(Deployment)
    => stored'[Service].selector = stored[Deployment].type

\* What a step of it leaves true of the Channel.
ChannelStep ==
  /\ Step(ChannelObjects, {Channel})
  /\ ChannelWorkInv' /\ ChannelInv' /\ SelectorInv' /\ FollowsPods

LEMMA ChannelTypes ==
  ASSUME StoreInv
  PROVE  /\ Channel \in Keys /\ Channel \in Objects
         /\ {Deployment, Service, Ingress} \subseteq Objects \ Keys
         /\ \A o \in ChannelObjects : {o} \subseteq ChannelObjects /\ o \in Objects
         /\ Deployment # Service /\ Deployment # Ingress /\ Deployment # Channel
         /\ Service # Ingress /\ Service # Channel /\ Ingress # Channel
         /\ ObjectsOf(Channel) = {Absent} \union ChannelObject
         /\ ObjectsOf(Deployment) = {Absent} \union DeploymentObject(setup.specs)
         /\ ObjectsOf(Service) = {Absent} \union ServiceObject(setup.specs)
         /\ ObjectsOf(Ingress) = {Absent} \union IngressObject(setup.specs)
         /\ Known(Channel) => seen[Channel] \in ChannelObject /\ Channel \in setup.objects
         /\ Known(Deployment) => seen[Deployment] \in DeploymentObject(setup.specs)
<1>1. {Deployment, Service, Ingress} \subseteq Objects \ Keys
  BY Kinds, KeyKinds, KeysAreObjects
<1>2. /\ Deployment # Service /\ Deployment # Ingress /\ Deployment # Channel
      /\ Service # Ingress /\ Service # Channel /\ Ingress # Channel
  BY Kinds
<1>3. Known(Channel) => Channel \in setup.objects
  BY KeysAreObjects DEF Known, StoreInv
<1> QED BY <1>1, <1>2, <1>3, KeysAreObjects, KindTypes, StoredTypes DEF Known, ChannelObjects

\* What the worker knows, unless its reconcile was overtaken.
LEMMA ChannelKnown ==
  ASSUME ChannelInv, channelWork.pc # "idle", Channel \notin queue, Known(Channel)
  PROVE  /\ channelWork.spec = seen[Channel].spec
         /\ channelWork.pc \in {"service", "ingress", "status"} => DeploymentFits(channelWork.spec)
         /\ channelWork.pc \in {"ingress", "status"} => ServiceFits(channelWork.spec)
         /\ channelWork.pc = "status" => IngressFits(channelWork.spec)
BY DEF ChannelInv, Known

\* What fits still does after a write that leaves the cache alone.
LEMMA FitsKept ==
  ASSUME NEW written, Moves(written), UNCHANGED seen, NEW spec
  PROVE  /\ DeploymentFits(spec) => DeploymentFits(spec)'
         /\ ServiceFits(spec) => ServiceFits(spec)'
         /\ IngressFits(spec) => IngressFits(spec)'
BY DEF Moves, DeploymentFits, ServiceFits, IngressFits

\* A reconcile goes on.
LEMMA ChannelGoes ==
  ASSUME StoreInv, ChannelWorkInv, ChannelInv, channelWork.pc # "idle",
         NEW pc \in {"deployment", "service", "ingress", "status"}, ChannelGoto(pc),
         Moves(ChannelObjects), UNCHANGED <<setup, seen, mishaps>>,
         Channel \notin queue /\ Known(Channel) =>
           /\ pc \in {"service", "ingress", "status"} => DeploymentFits(channelWork.spec)'
           /\ pc \in {"ingress", "status"} => ServiceFits(channelWork.spec)'
           /\ pc = "status" => IngressFits(channelWork.spec)'
  PROVE  /\ Step(ChannelObjects, {Channel}) /\ ChannelWorkInv' /\ ChannelInv'
         /\ channelWork'.pc = pc /\ channelWork'.spec = channelWork.spec
<1>1. /\ channelWork' = [pc |-> pc, spec |-> channelWork.spec] /\ UNCHANGED queue
      /\ channelWork'.pc = pc /\ channelWork'.spec = channelWork.spec
  BY DEF ChannelGoto, ChannelWorkInv
<1>2. Step(ChannelObjects, {Channel})
  BY <1>1 DEF Step, StoreInv
<1>3. ChannelWorkInv'
  BY <1>1 DEF ChannelWorkInv
<1>4. ChannelInv'
  BY <1>1, ChannelKnown DEF ChannelInv, Known, DeploymentFits, ServiceFits, IngressFits,
                            ServiceFor, IngressFor
<1> QED BY <1>1, <1>2, <1>3, <1>4

\* A reconcile ends: its key is queued, or the Channel fits what it owns.
LEMMA ChannelEnds ==
  ASSUME StoreInv, ChannelWorkInv, ChannelInv, SelectorInv, channelWork.pc # "idle",
         NEW failed \in BOOLEAN, FinishChannel(failed),
         Moves(ChannelObjects), UNCHANGED <<setup, seen>>, UNCHANGED mishaps \/ Mishap, TypeKept,
         failed \/ Channel \in queue \/ ~Known(Channel) \/ Channel \in behind' \/ ChannelFits'
  PROVE  ChannelStep
<1>1. /\ channelWork' = NoChannelWork /\ queue' \subseteq Keys /\ queue \subseteq queue'
      /\ failed => Channel \in queue'
  BY ChannelTypes DEF FinishChannel, Requeued, StoreInv
<1>2. channelWork'.pc = "idle" /\ channelWork'.spec = Absent
  BY <1>1 DEF NoChannelWork
<1>3. Step(ChannelObjects, {Channel})
  BY <1>1 DEF Step
<1>4. ChannelWorkInv'
  BY <1>1 DEF ChannelWorkInv, NoChannelWork
<1>5. ChannelInv'
  BY <1>1, <1>2 DEF ChannelInv, Known
<1>6. SelectorInv'
  BY <1>2 DEF SelectorInv, TypeKept
<1> QED BY <1>2, <1>3, <1>4, <1>5, <1>6 DEF ChannelStep, FollowsPods

LEMMA BeginChannelKeeps ==
  ASSUME StoreInv, CacheInv, ChannelWorkInv, ChannelInv, SelectorInv, BeginChannel,
         UNCHANGED <<setup, seen, mishaps>>
  PROVE  ChannelStep
<1>1. UNCHANGED api /\ stored' = stored /\ behind' = behind /\ queue' = queue \ {Channel}
      /\ channelWork.pc = "idle"
  BY DEF BeginChannel, api
<1>2. Step(ChannelObjects, {Channel})
  <2>1. Moves(ChannelObjects)
    BY <1>1, KeptMoves
  <2> QED BY <1>1, <2>1 DEF Step, StoreInv
<1>3. CASE Known(Channel)
  <2>1. channelWork' = [pc |-> "agent", spec |-> seen[Channel].spec]
    BY <1>3 DEF BeginChannel
  <2>2. seen[Channel].spec \in setup.specs /\ Channel \in setup.objects
    BY <1>3, ChannelTypes DEF ChannelObject
  <2>3. ChannelWorkInv'
    BY <2>1, <2>2 DEF ChannelWorkInv
  <2>4. ChannelInv'
    BY <2>1 DEF ChannelInv
  <2>5. SelectorInv'
    BY <1>1, <2>1 DEF SelectorInv
  <2> QED BY <1>1, <1>2, <2>3, <2>4, <2>5 DEF ChannelStep, FollowsPods
<1>4. CASE ~Known(Channel)
  <2>1. UNCHANGED channelWork /\ seen'[Channel] = Absent
    BY <1>4 DEF BeginChannel, Known
  <2>2. ChannelWorkInv'
    BY <2>1, WorkKept
  <2>3. ChannelInv'
    BY <2>1 DEF ChannelInv
  <2>4. SelectorInv'
    BY <1>1, <2>1 DEF SelectorInv
  <2> QED BY <1>1, <1>2, <2>2, <2>3, <2>4 DEF ChannelStep, FollowsPods
<1> QED BY <1>3, <1>4

LEMMA ResolveAgentKeeps ==
  ASSUME StoreInv, CacheInv, ChannelWorkInv, ChannelInv, SelectorInv, ResolveAgent,
         UNCHANGED <<setup, seen, mishaps>>
  PROVE  ChannelStep
<1>1. UNCHANGED api /\ stored' = stored /\ channelWork.pc = "agent"
  BY DEF ResolveAgent, api
<1>2. Moves(ChannelObjects) /\ TypeKept
  BY <1>1, KeptMoves DEF TypeKept
<1>3. CASE Known(Agent)
  <2>1. ChannelGoto("deployment")
    BY <1>3 DEF ResolveAgent
  <2>2. /\ Step(ChannelObjects, {Channel}) /\ ChannelWorkInv' /\ ChannelInv'
        /\ channelWork'.pc = "deployment"
    BY <1>1, <1>2, <2>1, ChannelGoes
  <2>3. SelectorInv'
    BY <1>1, <2>2 DEF SelectorInv
  <2> QED BY <1>1, <2>2, <2>3 DEF ChannelStep, FollowsPods
<1>4. CASE ~Known(Agent)
  <2>1. FinishChannel(TRUE)
    BY <1>4 DEF ResolveAgent
  <2> QED BY <1>1, <1>2, <2>1, ChannelEnds
<1> QED BY <1>3, <1>4

\* What the reconcile wants to be there.
LEMMA DesiredObjects ==
  ASSUME StoreInv, ChannelWorkInv, channelWork.pc # "idle"
  PROVE  LET spec == channelWork.spec IN
         /\ DeploymentFor(spec) \in DeploymentObject(setup.specs) \ {Absent}
         /\ ServiceFor(spec) \in ServiceObject(setup.specs) \ {Absent}
         /\ IngressFor(spec) \in IngressObject(setup.specs) \ {Absent}
         /\ Known(Deployment) =>
              /\ ChangedDeployment \in DeploymentObject(setup.specs)
              /\ ChangedDeployment.hash = spec.image /\ ChangedDeployment.type = spec.type
<1> DEFINE spec == channelWork.spec
<1>1. Channel \in setup.objects /\ setup \in Setups /\ spec \in setup.specs
  BY DEF ChannelWorkInv, StoreInv
<1>2. Absent \notin DeploymentObject(setup.specs) \union ServiceObject(setup.specs)
                    \union IngressObject(setup.specs)
  BY <1>1, OwnedAssumption
<1> HIDE DEF spec
<1>3. DeploymentFor(spec) \in DeploymentObject(setup.specs)
  BY <1>1 DEF DeploymentFor, DeploymentObject
<1>4. ServiceFor(spec) \in ServiceObject(setup.specs)
  BY <1>1 DEF ServiceFor, ServiceObject
<1>5. IngressFor(spec) \in IngressObject(setup.specs)
  BY <1>1 DEF IngressFor, IngressObject
<1>6. ASSUME Known(Deployment)
      PROVE  /\ ChangedDeployment \in DeploymentObject(setup.specs)
             /\ ChangedDeployment.hash = spec.image /\ ChangedDeployment.type = spec.type
  <2>1. seen[Deployment] \in DeploymentObject(setup.specs)
    BY <1>6, ChannelTypes
  <2>2. seen[Deployment].ready \in BOOLEAN
    BY <2>1 DEF DeploymentObject
  <2> DEFINE new == DeploymentFor(spec)
             other == [new EXCEPT !.ready = seen[Deployment].ready]
  <2>3. /\ other \in DeploymentObject(setup.specs)
        /\ other.hash = spec.image /\ other.type = spec.type
        /\ new.hash = spec.image /\ new.type = spec.type
    BY <1>3, <2>2 DEF DeploymentFor, DeploymentObject
  <2>4. ChangedDeployment \in {seen[Deployment], other}
        /\ (ChangedDeployment = seen[Deployment] /\ seen[Deployment] # other =>
              seen[Deployment].hash = new.hash /\ seen[Deployment].type = new.type)
    BY DEF ChangedDeployment, spec
  <2> HIDE DEF new, other
  <2> QED BY <2>1, <2>3, <2>4
<1> QED BY <1>2, <1>3, <1>4, <1>5, <1>6 DEF spec

LEMMA ReconcileDeploymentKeeps ==
  ASSUME StoreInv, CacheInv, ChannelWorkInv, ChannelInv, SelectorInv, ReconcileDeployment,
         UNCHANGED <<setup, seen, mishaps>>
  PROVE  ChannelStep
<1> DEFINE new == DeploymentFor(channelWork.spec)
           changed == ChangedDeployment
<1>1. channelWork.pc = "deployment"
  BY DEF ReconcileDeployment
<1>2. CASE /\ Known(Deployment) /\ changed # seen[Deployment] => ~SelectorChanges
           /\ Apply(Deployment, new, changed) /\ ChannelGoto("service")
  <2>1. /\ new \in ObjectsOf(Deployment) \ {Absent} /\ Deployment \in Objects \ Keys
        /\ new.type = channelWork.spec.type
        /\ Known(Deployment) => /\ changed \in ObjectsOf(Deployment)
                                /\ changed.hash = channelWork.spec.image
                                /\ changed.type = channelWork.spec.type
    BY <1>1, DesiredObjects, ChannelTypes DEF DeploymentFor
  <2>2. /\ Moves({Deployment})
        /\ Deployment \notin behind' => Known(Deployment) /\ seen[Deployment] = changed
        /\ \/ ~Known(Deployment) /\ stored'[Deployment] = new
           \/ /\ Known(Deployment) /\ Exists(Deployment) /\ seen[Deployment] # changed
              /\ stored'[Deployment] = changed
           \/ /\ Known(Deployment) /\ seen[Deployment] = changed
              /\ stored'[Deployment] = stored[Deployment]
    <3> HIDE DEF new, changed
    <3> QED BY <1>2, <2>1, ApplyMoves
  <2> HIDE DEF new, changed
  <2>3. DeploymentFits(channelWork.spec)'
    <3>1. channelWork'.spec = channelWork.spec
      BY <1>2 DEF ChannelGoto, ChannelWorkInv
    <3> QED BY <2>1, <2>2, <3>1 DEF Known, DeploymentFits
  <2>4. Moves(ChannelObjects)
    BY <2>2, ChannelTypes, WiderMoves DEF ChannelObjects
  <2>5. /\ Step(ChannelObjects, {Channel}) /\ ChannelWorkInv' /\ ChannelInv'
        /\ channelWork'.pc = "service" /\ channelWork'.spec = channelWork.spec
    BY <1>1, <1>2, <2>3, <2>4, ChannelGoes
  <2>6. stored'[Deployment] # Absent => stored'[Deployment].type = channelWork.spec.type
    BY <2>1, <2>2 DEF SelectorInv, Known
  <2>7. Known(Deployment) /\ stored'[Deployment] # Absent =>
          seen[Deployment].type = channelWork.spec.type
    BY <1>2, <2>1, <2>2 DEF SelectorInv, SelectorChanges, Known, Exists
  <2>8. SelectorInv'
    BY <2>5, <2>6, <2>7 DEF SelectorInv, Known
  <2> QED BY <1>1, <2>5, <2>8 DEF ChannelStep, FollowsPods
<1>3. CASE UNCHANGED api /\ FinishChannel(TRUE)
  <2>1. Moves(ChannelObjects) /\ TypeKept
    BY <1>3, KeptMoves DEF TypeKept, api
  <2> QED BY <1>1, <1>3, <2>1, ChannelEnds
<1> QED BY <1>2, <1>3 DEF ReconcileDeployment, ApplyFails

\* The spec a reconcile works with does not change when it goes on.
LEMMA SameChannelSpec ==
  ASSUME ChannelWorkInv, NEW pc, ChannelGoto(pc)
  PROVE  channelWork'.spec = channelWork.spec
BY DEF ChannelGoto, ChannelWorkInv

LEMMA ReconcileServiceKeeps ==
  ASSUME StoreInv, CacheInv, ChannelWorkInv, ChannelInv, SelectorInv, ReconcileService,
         UNCHANGED <<setup, seen, mishaps>>
  PROVE  ChannelStep
<1> DEFINE desired == ServiceFor(channelWork.spec)
<1>1. channelWork.pc = "service" /\ Service \in Objects \ Keys /\ {Service} \subseteq ChannelObjects
      /\ Deployment \in Objects /\ Deployment # Service
  BY ChannelTypes DEF ReconcileService, ChannelObjects
<1>2. CASE Apply(Service, desired, desired) /\ ChannelGoto("ingress")
  <2>1. /\ Moves({Service}) /\ (Service \notin behind' => seen[Service] = desired)
        /\ stored'[Service] \in {stored[Service], desired}
    <3>1. desired \in ObjectsOf(Service) \ {Absent}
      BY <1>1, DesiredObjects, ChannelTypes
    <3> HIDE DEF desired
    <3> QED BY <1>1, <1>2, <3>1, ApplyMoves
  <2>2. Moves(ChannelObjects) /\ stored'[Deployment] = stored[Deployment]
    <3>1. stored'[Deployment] = stored[Deployment]
      BY <1>1, <2>1 DEF Moves
    <3> QED BY <1>1, <2>1, <3>1, WiderMoves
  <2>3. ServiceFits(channelWork.spec)'
    BY <1>2, <2>1, SameChannelSpec DEF ServiceFits, ServiceFor
  <2>4. Channel \notin queue /\ Known(Channel) => DeploymentFits(channelWork.spec)'
    BY <1>1, <1>2, <2>2, ChannelKnown, FitsKept, SameChannelSpec DEF DeploymentFits
  <2>5. /\ Step(ChannelObjects, {Channel}) /\ ChannelWorkInv' /\ ChannelInv'
        /\ channelWork'.pc = "ingress"
    BY <1>1, <1>2, <2>2, <2>3, <2>4, ChannelGoes
  <2>6. SelectorInv'
    BY <2>2, <2>5 DEF SelectorInv
  <2>7. FollowsPods
    BY <1>1, <2>1 DEF FollowsPods, SelectorInv, ServiceFor, Exists
  <2> QED BY <2>5, <2>6, <2>7 DEF ChannelStep
<1>3. CASE ApplyFails(Service, desired) /\ FinishChannel(TRUE)
  <2>1. UNCHANGED api
    BY <1>3 DEF ApplyFails
  <2>2. Moves(ChannelObjects) /\ TypeKept
    BY <2>1, KeptMoves DEF TypeKept, api
  <2> QED BY <1>1, <1>3, <2>2, ChannelEnds
<1> QED BY <1>2, <1>3 DEF ReconcileService

LEMMA ReconcileIngressKeeps ==
  ASSUME StoreInv, CacheInv, ChannelWorkInv, ChannelInv, SelectorInv, ReconcileIngress,
         UNCHANGED <<setup, seen, mishaps>>
  PROVE  ChannelStep
<1> DEFINE desired == IngressFor(channelWork.spec)
<1>1. channelWork.pc = "ingress" /\ Ingress \in Objects \ Keys /\ {Ingress} \subseteq ChannelObjects
      /\ Deployment \in Objects /\ Deployment # Ingress
  BY ChannelTypes DEF ReconcileIngress, ChannelObjects
<1>2. ASSUME Moves({Ingress}), ChannelGoto("status"),
             Ingress \notin behind' => seen[Ingress] =
               IF channelWork.spec.webhook = NoWebhook THEN Absent ELSE desired
      PROVE  ChannelStep
  <2>1. Moves(ChannelObjects) /\ stored'[Deployment] = stored[Deployment]
    <3>1. stored'[Deployment] = stored[Deployment]
      BY <1>1, <1>2 DEF Moves
    <3> QED BY <1>1, <1>2, <3>1, WiderMoves
  <2>2. IngressFits(channelWork.spec)'
    BY <1>2, SameChannelSpec DEF IngressFits, IngressFor
  <2>3. Channel \notin queue /\ Known(Channel) =>
          DeploymentFits(channelWork.spec)' /\ ServiceFits(channelWork.spec)'
    BY <1>1, <1>2, <2>1, ChannelKnown, FitsKept, SameChannelSpec DEF DeploymentFits, ServiceFits, ServiceFor
  <2>4. /\ Step(ChannelObjects, {Channel}) /\ ChannelWorkInv' /\ ChannelInv'
        /\ channelWork'.pc = "status"
    BY <1>1, <1>2, <2>1, <2>2, <2>3, ChannelGoes
  <2>5. SelectorInv'
    BY <2>1, <2>4 DEF SelectorInv
  <2> QED BY <1>1, <2>4, <2>5 DEF ChannelStep, FollowsPods
<1>3. ASSUME UNCHANGED api, FinishChannel(TRUE)
      PROVE  ChannelStep
  <2>1. Moves(ChannelObjects) /\ TypeKept
    BY <1>3, KeptMoves DEF TypeKept, api
  <2> QED BY <1>1, <1>3, <2>1, ChannelEnds
<1>4. CASE channelWork.spec.webhook # NoWebhook
  <2>1. CASE Apply(Ingress, desired, desired) /\ ChannelGoto("status")
    <3>1. desired \in ObjectsOf(Ingress) \ {Absent}
      BY <1>1, DesiredObjects, ChannelTypes
    <3>2. Moves({Ingress}) /\ (Ingress \notin behind' => seen[Ingress] = desired)
      <4> HIDE DEF desired
      <4> QED BY <1>1, <2>1, <3>1, ApplyMoves
    <3> QED BY <1>2, <1>4, <2>1, <3>2
  <2>2. CASE ApplyFails(Ingress, desired) /\ FinishChannel(TRUE)
    BY <1>3, <2>2 DEF ApplyFails
  <2> QED BY <1>4, <2>1, <2>2 DEF ReconcileIngress
<1>5. CASE channelWork.spec.webhook = NoWebhook
  <2>1. CASE ~Known(Ingress) /\ UNCHANGED api /\ ChannelGoto("status")
    <3>1. Moves({Ingress})
      BY <2>1, KeptMoves
    <3> QED BY <1>2, <1>5, <2>1, <3>1 DEF Known
  <2>2. CASE Known(Ingress) /\ Exists(Ingress) /\ Write(Ingress, Absent) /\ ChannelGoto("status")
    <3>1. Absent \in ObjectsOf(Ingress)
      BY KindTypes
    <3>2. Moves({Ingress}) /\ Ingress \in behind'
      BY <1>1, <2>2, <3>1, WriteMoves DEF Exists
    <3> QED BY <1>2, <2>2, <3>2
  <2>3. CASE Known(Ingress) /\ ~Exists(Ingress) /\ UNCHANGED api /\ FinishChannel(TRUE)
    BY <1>3, <2>3
  <2> QED BY <1>5, <2>1, <2>2, <2>3 DEF ReconcileIngress
<1> QED BY <1>4, <1>5

LEMMA StatusTypes ==
  ASSUME StoreInv, ChannelWorkInv, channelWork.pc # "idle", Known(Channel)
  PROVE  /\ ChannelStatus \in ChannelObject
         /\ ChannelStatus.phase =
              IF Known(Deployment) /\ seen[Deployment].ready THEN "Ready" ELSE "Pending"
         /\ ChannelStatus.url = channelWork.spec.webhook
<1> DEFINE phase == IF Known(Deployment) /\ seen[Deployment].ready THEN "Ready" ELSE "Pending"
           url == channelWork.spec.webhook
           once == [seen[Channel] EXCEPT !.phase = phase]
<1>1. seen[Channel] \in ChannelObject
  BY ChannelTypes
<1>2. phase \in {"Unset", "Pending", "Ready"}
  OBVIOUS
<1>3. url \in {NoWebhook} \union {p.webhook : p \in setup.specs}
  BY DEF ChannelWorkInv
<1>4. once \in ChannelObject /\ once.phase = phase
  <2> HIDE DEF phase
  <2> QED BY <1>1, <1>2 DEF ChannelObject
<1>5. ChannelStatus = [once EXCEPT !.url = url]
  BY DEF ChannelStatus
<1> HIDE DEF phase, url, once
<1>6. ChannelStatus \in ChannelObject /\ ChannelStatus.phase = phase /\ ChannelStatus.url = url
  BY <1>3, <1>4, <1>5 DEF ChannelObject
<1> QED BY <1>6 DEF phase, url

LEMMA WriteChannelStatusKeeps ==
  ASSUME StoreInv, CacheInv, ChannelWorkInv, ChannelInv, SelectorInv, WriteChannelStatus,
         UNCHANGED <<setup, seen, mishaps>>
  PROVE  ChannelStep
<1>1. channelWork.pc = "status" /\ {Channel} \subseteq ChannelObjects
      /\ Deployment \in Objects /\ Deployment # Channel
  BY ChannelTypes DEF WriteChannelStatus, ChannelObjects
<1>2. CASE Refused(Channel) /\ FinishChannel(TRUE)
  <2>1. UNCHANGED api
    BY <1>2 DEF Refused
  <2>2. Moves(ChannelObjects) /\ TypeKept
    BY <2>1, KeptMoves DEF TypeKept, api
  <2> QED BY <1>1, <1>2, <2>2, ChannelEnds
<1>3. CASE /\ Known(Channel) /\ FinishChannel(FALSE)
           /\ IF ChannelStatus = seen[Channel] THEN UNCHANGED api ELSE Update(Channel, ChannelStatus)
  <2>1. Moves({Channel}) /\ (Channel \in behind' \/ ChannelStatus = seen[Channel])
    <3>1. CASE ChannelStatus = seen[Channel]
      <4>1. UNCHANGED api
        BY <1>3, <3>1
      <4> QED BY <3>1, <4>1, KeptMoves
    <3>2. CASE ChannelStatus # seen[Channel]
      <4>1. Exists(Channel) /\ Write(Channel, ChannelStatus) /\ stored[Channel] = seen[Channel]
        BY <1>3, <3>2, ChannelTypes DEF Update, Current, CacheInv
      <4>2. ChannelStatus \in ObjectsOf(Channel)
        BY <1>1, <1>3, StatusTypes, ChannelTypes
      <4> QED BY <3>2, <4>1, <4>2, ChannelTypes, WriteMoves
    <3> QED BY <3>1, <3>2
  <2>2. Moves(ChannelObjects) /\ TypeKept
    <3>1. TypeKept
      BY <1>1, <2>1, UnwrittenKept
    <3> QED BY <1>1, <2>1, <3>1, WiderMoves
  <2>3. ASSUME Channel \notin queue, Channel \notin behind'
        PROVE  ChannelFits'
    <3> DEFINE spec == seen[Channel].spec
    <3>1. spec = channelWork.spec /\ DeploymentFits(spec) /\ ServiceFits(spec) /\ IngressFits(spec)
      BY <1>1, <1>3, <2>3, ChannelKnown
    <3>2. /\ seen[Channel].url = channelWork.spec.webhook
          /\ seen[Channel].phase =
               IF Known(Deployment) /\ seen[Deployment].ready THEN "Ready" ELSE "Pending"
      BY <1>1, <1>3, <2>1, <2>3, StatusTypes
    <3>3. Deployment \notin behind' => Known(Deployment)
      BY <3>1, <2>1 DEF Moves, DeploymentFits, Known
    <3>4. spec' = spec /\ seen' = seen
      OBVIOUS
    <3>5. DeploymentFits(spec)' /\ ServiceFits(spec)' /\ IngressFits(spec)'
      BY <2>1, <3>1, <3>4 DEF Moves, DeploymentFits, ServiceFits, IngressFits, ServiceFor, IngressFor
    <3> QED BY <3>1, <3>2, <3>3, <3>4, <3>5 DEF ChannelFits
  <2>4. Channel \in queue \/ Channel \in behind' \/ ChannelFits'
    BY <2>3
  <2> QED BY <1>1, <1>3, <2>2, <2>4, ChannelEnds
<1> QED BY <1>2, <1>3 DEF WriteChannelStatus

LEMMA ChannelWorkerKeeps ==
  ASSUME StoreInv, CacheInv, ChannelWorkInv, ChannelInv, SelectorInv, ChannelWorker
  PROVE  ChannelStep /\ UNCHANGED <<wfVars, http, piVars>>
<1>1. UNCHANGED <<wfVars, http, piVars>>
  BY DEF ChannelWorker
<1>2. CASE ReconcileChannel
  <2>1. UNCHANGED <<setup, seen, mishaps>>
        /\ (BeginChannel \/ ResolveAgent \/ ReconcileDeployment
            \/ ReconcileService \/ ReconcileIngress \/ WriteChannelStatus)
    BY <1>2 DEF ReconcileChannel
  <2> QED BY <1>1, <2>1, BeginChannelKeeps, ResolveAgentKeeps, ReconcileDeploymentKeeps,
             ReconcileServiceKeeps, ReconcileIngressKeeps, WriteChannelStatusKeeps
<1>3. CASE ChannelFails
  <2>1. /\ channelWork.pc # "idle" /\ Mishap /\ FinishChannel(TRUE)
        /\ UNCHANGED <<setup, api, seen>>
    BY <1>3 DEF ChannelFails
  <2>2. Moves(ChannelObjects) /\ TypeKept
    BY <2>1, KeptMoves DEF TypeKept, api
  <2> QED BY <1>1, <2>1, <2>2, ChannelEnds
<1> QED BY <1>2, <1>3 DEF ChannelWorker

-----------------------------------------------------------------------------
(* The runs of a delivery.                                                  *)

Runs == [workflow : Workflows, cause : {NoCause} \union (Deliveries \X Nat)]

\* One more run.
LEMMA OneMoreRun ==
  ASSUME runs \in Seq(Runs), NEW r \in Runs, runs' = Append(runs, r)
  PROVE  /\ runs' \in Seq(Runs)
         /\ Len(runs) + 1 \notin DOMAIN runs
         /\ DOMAIN runs' = DOMAIN runs \union {Len(runs) + 1}
         /\ \A i \in DOMAIN runs : runs'[i] = runs[i]
         /\ runs'[Len(runs) + 1] = r
OBVIOUS

\* A run of a CronJob is none of a delivery; one of a delivery counts there.
LEMMA RunsAfter ==
  ASSUME runs \in Seq(Runs), NEW r \in Runs, runs' = Append(runs, r),
         NEW e \in Deliveries, NEW v \in Workflows, http'[e].attempt = http[e].attempt
  PROVE  RunsFor(e, v)' = IF r = RunFor(e, v) THEN RunsFor(e, v) \union {Len(runs) + 1}
                          ELSE RunsFor(e, v)
<1>1. RunFor(e, v)' = RunFor(e, v)
  BY DEF RunFor
<1>2. RunsFor(e, v)' = {i \in DOMAIN runs' : runs'[i] = RunFor(e, v)}
  BY <1>1 DEF RunsFor
<1> QED BY <1>2, OneMoreRun DEF RunsFor

HttpRecord ==
  [pc : {"unsent", "creating", "answered", "failed", "broken"}, attempt : Nat,
   todo : SUBSET Workflows, matched : SUBSET Workflows, made : Nat]

\* A field of the record of a delivery changes, and nothing else.
LEMMA ChangedDelivery ==
  ASSUME NEW f \in [Deliveries -> HttpRecord], NEW d \in Deliveries, NEW h \in HttpRecord
  PROVE  /\ [f EXCEPT ![d] = h] \in [Deliveries -> HttpRecord]
         /\ [f EXCEPT ![d] = h][d] = h
         /\ \A e \in Deliveries \ {d} : [f EXCEPT ![d] = h][e] = f[e]
OBVIOUS

LEMMA HandledRecord ==
  ASSUME HttpTypeOK, NEW d \in Deliveries, NEW w, NEW made \in 0..1, Handled(d, w, made)
  PROVE  /\ HttpTypeOK'
         /\ http'[d] = [pc |-> IF http[d].todo \ {w} = {} THEN "answered" ELSE "creating",
                        attempt |-> http[d].attempt, todo |-> http[d].todo \ {w},
                        matched |-> http[d].matched, made |-> http[d].made + made]
         /\ \A e \in Deliveries \ {d} : http'[e] = http[e]
<1> DEFINE left == http[d].todo \ {w}
           pc == IF left = {} THEN "answered" ELSE "creating"
           a == [http[d] EXCEPT !.todo = left]
           fa == [http EXCEPT ![d] = a]
           b == [fa[d] EXCEPT !.made = http[d].made + made]
           fb == [fa EXCEPT ![d] = b]
           c == [fb[d] EXCEPT !.pc = pc]
<1>1. http' = [fb EXCEPT ![d] = c]
  BY DEF Handled
<1>2. http \in [Deliveries -> HttpRecord] /\ http[d] \in HttpRecord
  BY DEF HttpTypeOK, HttpRecord
<1>3. a = [http[d] EXCEPT !.todo = left] /\ a \in HttpRecord
  BY <1>2 DEF HttpRecord
<1>4. fa \in [Deliveries -> HttpRecord] /\ fa[d] = a
      /\ \A e \in Deliveries \ {d} : fa[e] = http[e]
  <2> HIDE DEF a
  <2> QED BY <1>2, <1>3, ChangedDelivery
<1>5. b = [pc |-> http[d].pc, attempt |-> http[d].attempt, todo |-> left,
           matched |-> http[d].matched, made |-> http[d].made + made]
  <2>1. /\ a.pc = http[d].pc /\ a.attempt = http[d].attempt /\ a.todo = left
        /\ a.matched = http[d].matched /\ a.made = http[d].made
    BY <1>2 DEF HttpRecord
  <2> HIDE DEF fa, a, left
  <2>2. a = [pc |-> http[d].pc, attempt |-> http[d].attempt, todo |-> left,
             matched |-> http[d].matched, made |-> http[d].made]
    BY <1>3, <2>1 DEF HttpRecord
  <2> QED BY <1>4, <2>2
<1>6. b \in HttpRecord
  <2> HIDE DEF b
  <2> QED BY <1>2, <1>5 DEF HttpRecord
<1>7. fb \in [Deliveries -> HttpRecord] /\ fb[d] = b
      /\ \A e \in Deliveries \ {d} : fb[e] = fa[e]
  <2> HIDE DEF b, fa
  <2> QED BY <1>4, <1>6, ChangedDelivery
<1>8. c = [pc |-> pc, attempt |-> http[d].attempt, todo |-> left,
           matched |-> http[d].matched, made |-> http[d].made + made]
  <2> HIDE DEF fb, b, left, pc
  <2> QED BY <1>5, <1>7
<1>9. c \in HttpRecord
  <2> HIDE DEF c
  <2> QED BY <1>2, <1>8 DEF HttpRecord
<1>10. http' \in [Deliveries -> HttpRecord] /\ http'[d] = c
       /\ \A e \in Deliveries \ {d} : http'[e] = http[e]
  <2> HIDE DEF c, fb, fa
  <2>1. http' \in [Deliveries -> HttpRecord] /\ http'[d] = c
        /\ \A e \in Deliveries \ {d} : http'[e] = fb[e]
    BY <1>1, <1>7, <1>9, ChangedDelivery
  <2> QED BY <1>4, <1>7, <2>1
<1>11. HttpTypeOK'
  BY <1>10 DEF HttpTypeOK, HttpRecord
<1> QED BY <1>8, <1>10, <1>11

\* What is known of another delivery stays true.
LEMMA OtherDelivery ==
  ASSUME NEW e, DeliveryInv(e), http'[e] = http[e],
         \A w \in Workflows : RunsFor(e, w)' = RunsFor(e, w),
         http[e].todo \subseteq Workflows, mishaps' = 0 => mishaps = 0
  PROVE  DeliveryInv(e)'
<1>1. Started(e)' = Started(e)
  BY DEF Started
<1> QED BY <1>1 DEF DeliveryInv

LEMMA SameRuns ==
  ASSUME UNCHANGED runs, NEW e, http'[e].attempt = http[e].attempt
  PROVE  (\A w : RunsFor(e, w)' = RunsFor(e, w)) /\ Started(e)' = Started(e)
<1>1. \A w : RunsFor(e, w)' = RunsFor(e, w)
  BY DEF RunsFor, RunFor
<1> QED BY <1>1 DEF Started

\* A new attempt has started nothing.
LEMMA NewAttempt ==
  ASSUME RunsInv, UNCHANGED runs, NEW d \in Deliveries,
         http'[d].attempt = http[d].attempt + 1
  PROVE  (\A w \in Workflows : RunsFor(d, w)' = {}) /\ Started(d)' = {}
<1>1. http[d].attempt \in Nat
  BY DEF RunsInv, HttpTypeOK
<1>2. ASSUME NEW w \in Workflows, NEW i \in RunsFor(d, w)'
      PROVE  FALSE
  <2>1. i \in DOMAIN runs /\ runs[i].cause = <<d, http[d].attempt + 1>>
    BY <1>2 DEF RunsFor, RunFor
  <2>2. http[d].attempt + 1 <= http[d].attempt
    BY <1>1, <2>1 DEF RunsInv
  <2> QED BY <1>1, <2>2
<1>3. \A w \in Workflows : RunsFor(d, w)' = {}
  BY <1>2
<1> QED BY <1>3 DEF Started

LEMMA DeliverySteps ==
  ASSUME RunsInv, UNCHANGED runs, HttpTypeOK',
         \A e \in Deliveries : http'[e].attempt >= http[e].attempt /\ DeliveryInv(e)'
  PROVE  RunsInv'
<1>1. \A i \in DOMAIN runs', e \in Deliveries, n \in Nat :
        runs'[i].cause = <<e, n>> => n <= http'[e].attempt
  <2>1. \A e \in Deliveries : http[e].attempt \in Nat /\ http'[e].attempt \in Nat
    BY DEF RunsInv, HttpTypeOK
  <2> QED BY <2>1 DEF RunsInv
<1> QED BY <1>1 DEF RunsInv

\* One delivery is handled, and starts nothing.
LEMMA OneDelivery ==
  ASSUME StoreInv, RunsInv, UNCHANGED <<setup, runs>>, UNCHANGED mishaps \/ Mishap,
         NEW d \in Deliveries, NEW h \in HttpRecord, http' = [http EXCEPT ![d] = h],
         h.attempt >= http[d].attempt, DeliveryInv(d)'
  PROVE  RunsInv'
<1>1. /\ http' \in [Deliveries -> HttpRecord] /\ http'[d] = h
      /\ \A e \in Deliveries \ {d} : http'[e] = http[e]
  BY ChangedDelivery DEF RunsInv, HttpTypeOK, HttpRecord
<1>2. HttpTypeOK'
  BY <1>1 DEF HttpTypeOK, HttpRecord
<1>3. ASSUME NEW e \in Deliveries \ {d}
      PROVE  http'[e].attempt >= http[e].attempt /\ DeliveryInv(e)'
  <2>1. http'[e] = http[e] /\ http[e].attempt \in Nat /\ http[e].todo \subseteq Workflows
    BY <1>1, <1>3 DEF RunsInv, HttpTypeOK
  <2>2. \A w : RunsFor(e, w)' = RunsFor(e, w)
    BY <2>1, SameRuns
  <2>3. mishaps' = 0 => mishaps = 0
    BY MishapCounts
  <2> QED BY <1>3, <2>1, <2>2, <2>3, OtherDelivery DEF RunsInv
<1> QED BY <1>1, <1>2, <1>3, DeliverySteps

LEMMA ReceiveRuns ==
  ASSUME StoreInv, RunsInv, NEW d \in Deliveries, Receive(d)
  PROVE  RunsInv'
<1> DEFINE m == Matching(d)
           h == [pc |-> IF m = {} THEN "answered" ELSE "creating",
                 attempt |-> http[d].attempt + 1, todo |-> m, matched |-> m, made |-> 0]
<1>1. http' = [http EXCEPT ![d] = h] /\ UNCHANGED <<setup, runs, mishaps>>
  BY DEF Receive, objectVars, wfVars
<1>2. http[d].attempt \in Nat /\ m \subseteq Workflows
  BY DEF RunsInv, HttpTypeOK, Matching
<1>3. h \in HttpRecord
  <2> HIDE DEF m
  <2> QED BY <1>2 DEF HttpRecord
<1> HIDE DEF m
<1>4. http'[d] = h
  <2> HIDE DEF h
  <2> QED BY <1>1, <1>3, ChangedDelivery DEF RunsInv, HttpTypeOK, HttpRecord
<1>5. (\A w \in Workflows : RunsFor(d, w)' = {}) /\ Started(d)' = {}
  BY <1>1, <1>4, NewAttempt
<1>6. DeliveryInv(d)'
  <2>1. 0 <= Cardinality(Started(d)')
    BY <1>5, FS_EmptySet
  <2> QED BY <1>2, <1>4, <1>5, <2>1 DEF DeliveryInv
<1>7. h.attempt >= http[d].attempt
  BY <1>2
<1> QED BY <1>1, <1>3, <1>6, <1>7, OneDelivery

LEMMA ListFailsRuns ==
  ASSUME StoreInv, RunsInv, NEW d \in Deliveries, ListFails(d)
  PROVE  RunsInv'
<1> DEFINE h == [pc |-> "failed", attempt |-> http[d].attempt + 1, todo |-> http[d].todo,
                 matched |-> http[d].matched, made |-> http[d].made]
<1>1. http[d] \in HttpRecord /\ http \in [Deliveries -> HttpRecord]
  BY DEF RunsInv, HttpTypeOK, HttpRecord
<1>2. http' = [http EXCEPT ![d].pc = "failed", ![d].attempt = http[d].attempt + 1]
      /\ UNCHANGED <<setup, runs>> /\ Mishap /\ http[d].pc = "unsent"
  BY DEF ListFails, wfVars
<1>3. http' = [http EXCEPT ![d] = h]
  <2> DEFINE a == [http[d] EXCEPT !.pc = "failed"]
             fa == [http EXCEPT ![d] = a]
             b == [fa[d] EXCEPT !.attempt = http[d].attempt + 1]
  <2>1. http' = [fa EXCEPT ![d] = b]
    BY <1>2
  <2>2. fa[d] = a
    BY <1>1
  <2>3. a \in HttpRecord /\ a.pc = "failed" /\ a.todo = http[d].todo
        /\ a.matched = http[d].matched /\ a.made = http[d].made
    BY <1>1 DEF HttpRecord
  <2> HIDE DEF a
  <2>4. a = [pc |-> "failed", attempt |-> a.attempt, todo |-> http[d].todo,
             matched |-> http[d].matched, made |-> http[d].made]
    BY <2>3 DEF HttpRecord
  <2>5. b = h
    <3> HIDE DEF fa
    <3> QED BY <2>2, <2>4
  <2>6. http' = [fa EXCEPT ![d] = h]
    BY <2>1, <2>5
  <2> HIDE DEF h, b
  <2> QED BY <1>1, <2>6
<1>4. h \in HttpRecord /\ h.attempt >= http[d].attempt
  BY <1>1 DEF HttpRecord
<1>5. http'[d] = h
  <2> HIDE DEF h
  <2> QED BY <1>1, <1>3, <1>4, ChangedDelivery
<1>6. (\A w \in Workflows : RunsFor(d, w)' = {}) /\ Started(d)' = {}
  <2>1. UNCHANGED runs /\ http'[d].attempt = http[d].attempt + 1
    BY <1>2, <1>5
  <2> QED BY <2>1, NewAttempt
<1>7. http[d].todo = {}
  BY <1>2 DEF RunsInv, DeliveryInv
<1>8. DeliveryInv(d)'
  BY <1>5, <1>6, <1>7 DEF DeliveryInv
<1> QED BY <1>2, <1>3, <1>4, <1>8, OneDelivery

\* What a delivery has started stays started when it ends or starts anew.
LEMMA EndedDelivery ==
  ASSUME StoreInv, RunsInv, UNCHANGED <<setup, runs>>, UNCHANGED mishaps \/ Mishap,
         NEW d \in Deliveries, NEW pc \in {"unsent", "failed", "broken"}, NEW h \in HttpRecord,
         http' = [http EXCEPT ![d] = h],
         h.pc = pc, h.todo = {}, h.attempt = http[d].attempt, h.matched = http[d].matched
  PROVE  RunsInv'
<1>1. http \in [Deliveries -> HttpRecord] /\ h.attempt >= http[d].attempt
  BY DEF RunsInv, HttpTypeOK, HttpRecord
<1>2. http'[d] = h
  BY <1>1, ChangedDelivery
<1>3. (\A w : RunsFor(d, w)' = RunsFor(d, w)) /\ Started(d)' = Started(d)
  BY <1>2, SameRuns
<1>4. DeliveryInv(d)'
  BY <1>2, <1>3 DEF DeliveryInv, RunsInv
<1> QED BY <1>1, <1>4, OneDelivery

LEMMA SenderRuns ==
  ASSUME StoreInv, RunsInv, NEW d \in Deliveries, SenderGivesUp(d) \/ SendAgain(d)
  PROVE  RunsInv'
<1>1. http[d] \in HttpRecord /\ http \in [Deliveries -> HttpRecord]
  BY DEF RunsInv, HttpTypeOK, HttpRecord
<1>2. CASE SendAgain(d)
  <2> DEFINE h == [http[d] EXCEPT !.pc = "unsent"]
  <2>1. http' = [http EXCEPT ![d] = h] /\ UNCHANGED <<setup, runs>> /\ Mishap
    BY <1>2 DEF SendAgain, wfVars
  <2>2. http[d].todo = {}
    BY <1>2 DEF SendAgain, RunsInv, DeliveryInv
  <2>3. /\ h \in HttpRecord /\ h.pc = "unsent" /\ h.todo = {}
        /\ h.attempt = http[d].attempt /\ h.matched = http[d].matched
    BY <1>1, <2>2 DEF HttpRecord
  <2> HIDE DEF h
  <2> QED BY <2>1, <2>3, EndedDelivery
<1>3. CASE SenderGivesUp(d)
  <2> DEFINE h == [pc |-> "broken", attempt |-> http[d].attempt, todo |-> {},
                   matched |-> http[d].matched, made |-> http[d].made]
             a == [http[d] EXCEPT !.pc = "broken"]
             fa == [http EXCEPT ![d] = a]
             b == [fa[d] EXCEPT !.todo = {}]
  <2>1. http' = [fa EXCEPT ![d] = b] /\ UNCHANGED <<setup, runs>> /\ Mishap
    BY <1>3 DEF SenderGivesUp, wfVars
  <2>2. fa[d] = a
    BY <1>1
  <2>3. a \in HttpRecord /\ a.pc = "broken" /\ a.attempt = http[d].attempt
        /\ a.matched = http[d].matched /\ a.made = http[d].made
    BY <1>1 DEF HttpRecord
  <2> HIDE DEF a
  <2>4. a = [pc |-> "broken", attempt |-> http[d].attempt, todo |-> a.todo,
             matched |-> http[d].matched, made |-> http[d].made]
    BY <2>3 DEF HttpRecord
  <2>5. b = h
    <3> HIDE DEF fa
    <3> QED BY <2>2, <2>4
  <2>6. http' = [http EXCEPT ![d] = h]
    <3>1. http' = [fa EXCEPT ![d] = h]
      BY <2>1, <2>5
    <3> HIDE DEF h, b
    <3> QED BY <1>1, <3>1
  <2>7. h \in HttpRecord /\ h.pc = "broken" /\ h.todo = {}
        /\ h.attempt = http[d].attempt /\ h.matched = http[d].matched
    BY <1>1 DEF HttpRecord
  <2> HIDE DEF h, b
  <2> QED BY <2>1, <2>6, <2>7, EndedDelivery
<1> QED BY <1>2, <1>3

\* A run of w, one of those still to be created, is created, and no other.
LEMMA StartedRuns ==
  ASSUME StoreInv, RunsInv, UNCHANGED setup, UNCHANGED mishaps \/ Mishap,
         NEW d \in Deliveries, NEW w \in http[d].todo, NEW made \in 0..1, Handled(d, w, made),
         http[d].pc = "creating", runs' = Append(runs, RunFor(d, w)),
         made = 0 => Mishap
  PROVE  RunsInv'
<1> DEFINE r == RunFor(d, w)
<1>1. /\ HttpTypeOK' /\ (\A e \in Deliveries \ {d} : http'[e] = http[e])
      /\ http'[d] = [pc |-> IF http[d].todo \ {w} = {} THEN "answered" ELSE "creating",
                     attempt |-> http[d].attempt, todo |-> http[d].todo \ {w},
                     matched |-> http[d].matched, made |-> http[d].made + made]
  BY HandledRecord DEF RunsInv
<1>2. /\ w \in Workflows /\ http[d].todo \subseteq http[d].matched
      /\ http[d].matched \subseteq Workflows
      /\ http[d].made \in Nat
      /\ \A e \in Deliveries : http[e].attempt \in Nat /\ http'[e].attempt = http[e].attempt
      /\ \A e \in Deliveries : http[e].todo \subseteq Workflows
  <2>1. \A e \in Deliveries : /\ http[e].attempt \in Nat /\ http[e].made \in Nat
                              /\ http[e].todo \subseteq Workflows
                              /\ http[e].matched \subseteq Workflows
    BY DEF RunsInv, HttpTypeOK
  <2>2. http[d].todo \subseteq http[d].matched
    BY DEF RunsInv, DeliveryInv
  <2>3. \A e \in Deliveries : http'[e].attempt = http[e].attempt
    BY <1>1
  <2> QED BY <2>1, <2>2, <2>3
<1>3. r \in Runs /\ r.cause = <<d, http[d].attempt>> /\ runs \in Seq(Runs)
  BY <1>2 DEF RunFor, Runs, RunsInv
<1>4. \A e \in Deliveries, v \in Workflows :
        RunsFor(e, v)' = IF r = RunFor(e, v) THEN RunsFor(e, v) \union {Len(runs) + 1}
                         ELSE RunsFor(e, v)
  <2> HIDE DEF r
  <2> QED BY <1>2, <1>3, RunsAfter DEF r
<1>5. \A e \in Deliveries, v \in Workflows : r = RunFor(e, v) <=> e = d /\ v = w
  BY DEF RunFor
<1> HIDE DEF r
<1>6. \A e \in Deliveries \ {d} : DeliveryInv(e)'
  <2>1. mishaps' = 0 => mishaps = 0
    BY MishapCounts
  <2>2. \A e \in Deliveries \ {d}, v \in Workflows : RunsFor(e, v)' = RunsFor(e, v)
    BY <1>4, <1>5
  <2> QED BY <1>1, <1>2, <2>1, <2>2, OtherDelivery DEF RunsInv
<1>7. /\ RunsFor(d, w) = {} /\ RunsFor(d, w)' = {Len(runs) + 1}
      /\ \A v \in Workflows \ {w} : RunsFor(d, v)' = RunsFor(d, v)
  BY <1>2, <1>4, <1>5 DEF RunsInv, DeliveryInv
<1>8. Started(d)' = Started(d) \union {w} /\ w \notin Started(d)
  BY <1>2, <1>7 DEF Started
<1>9. /\ Cardinality(Started(d)') = Cardinality(Started(d)) + 1
      /\ Cardinality(Started(d)) \in Nat
  <2>1. IsFiniteSet(Started(d))
    BY FS_Subset, WorkflowsAssumption DEF Started
  <2> QED BY <1>8, <2>1, FS_AddElement, FS_CardinalityType
<1>10. DeliveryInv(d)'
  <2>1. \A v \in Workflows : \A i, j \in RunsFor(d, v)' : i = j
    BY <1>7 DEF RunsInv, DeliveryInv
  <2>2. \A v \in http'[d].todo : RunsFor(d, v)' = {}
    BY <1>1, <1>2, <1>7 DEF RunsInv, DeliveryInv
  <2>3. Started(d)' \subseteq http'[d].matched /\ http'[d].todo \subseteq http'[d].matched
    BY <1>1, <1>2, <1>8 DEF RunsInv, DeliveryInv
  <2>4. http'[d].pc # "creating" => http'[d].todo = {}
    BY <1>1
  <2>5. http'[d].made <= Cardinality(Started(d)')
    <3>1. http[d].made <= Cardinality(Started(d))
      BY DEF RunsInv, DeliveryInv
    <3> QED BY <1>1, <1>2, <1>9, <3>1
  <2>6. mishaps' = 0 => Started(d)' = http'[d].matched \ http'[d].todo
    <3>1. mishaps' = 0 => Started(d) = http[d].matched \ http[d].todo
      BY MishapCounts DEF RunsInv, DeliveryInv
    <3> QED BY <1>1, <1>2, <1>8, <3>1
  <2> QED BY <2>1, <2>2, <2>3, <2>4, <2>5, <2>6 DEF DeliveryInv
<1>11. \A i \in DOMAIN runs', e \in Deliveries, n \in Nat :
         runs'[i].cause = <<e, n>> => n <= http'[e].attempt
  <2>1. /\ DOMAIN runs' = DOMAIN runs \union {Len(runs) + 1}
        /\ \A i \in DOMAIN runs : runs'[i] = runs[i]
        /\ runs'[Len(runs) + 1] = r /\ runs' \in Seq(Runs)
    BY <1>3, OneMoreRun DEF r
  <2>2. \A i \in DOMAIN runs, e \in Deliveries, n \in Nat :
          runs[i].cause = <<e, n>> => n <= http[e].attempt
    BY DEF RunsInv
  <2>3. \A e \in Deliveries : http'[e].attempt = http[e].attempt
    BY <1>1, <1>2
  <2>4. \A e \in Deliveries, n \in Nat : r.cause = <<e, n>> => n = http[e].attempt
    BY <1>3
  <2>5. \A e \in Deliveries : http[e].attempt \in Nat
    BY DEF RunsInv, HttpTypeOK
  <2> TAKE i \in DOMAIN runs', e \in Deliveries, n \in Nat
  <2> HAVE runs'[i].cause = <<e, n>>
  <2>6. CASE i \in DOMAIN runs
    BY <2>1, <2>2, <2>3, <2>6
  <2>7. CASE i = Len(runs) + 1
    BY <2>1, <2>3, <2>4, <2>5, <2>7
  <2> QED BY <2>1, <2>6, <2>7
<1>12. runs' \in Seq(Runs)
  BY <1>3, OneMoreRun DEF r
<1> QED BY <1>1, <1>6, <1>10, <1>11, <1>12 DEF RunsInv, Runs

\* A run that is not created is none: a failure says why.
LEMMA UnstartedRuns ==
  ASSUME StoreInv, RunsInv, UNCHANGED <<setup, runs>>, Mishap,
         NEW d \in Deliveries, NEW w \in http[d].todo, Handled(d, w, 0),
         http[d].pc = "creating"
  PROVE  RunsInv'
<1>1. /\ HttpTypeOK' /\ (\A e \in Deliveries \ {d} : http'[e] = http[e])
      /\ http'[d] = [pc |-> IF http[d].todo \ {w} = {} THEN "answered" ELSE "creating",
                     attempt |-> http[d].attempt, todo |-> http[d].todo \ {w},
                     matched |-> http[d].matched, made |-> http[d].made + 0]
  <2>1. HttpTypeOK /\ 0 \in 0..1
    BY DEF RunsInv
  <2> QED BY <2>1, HandledRecord
<1>2. \A e \in Deliveries : /\ http[e].attempt \in Nat /\ http'[e].attempt = http[e].attempt
                            /\ http[e].todo \subseteq Workflows
  BY <1>1 DEF RunsInv, HttpTypeOK
<1>3. \A e \in Deliveries : (\A v : RunsFor(e, v)' = RunsFor(e, v)) /\ Started(e)' = Started(e)
  BY <1>2, SameRuns
<1>4. mishaps' # 0
  BY MishapCounts
<1>5. \A e \in Deliveries \ {d} : DeliveryInv(e)'
  BY <1>1, <1>2, <1>3, <1>4, OtherDelivery DEF RunsInv
<1>6. DeliveryInv(d)'
  <2>1. http'[d].made = http[d].made
    BY <1>1 DEF RunsInv, HttpTypeOK
  <2> QED BY <1>1, <1>3, <1>4, <2>1 DEF RunsInv, DeliveryInv
<1> QED BY <1>1, <1>2, <1>5, <1>6, DeliverySteps

LEMMA HandlersKeep ==
  ASSUME StoreInv, RunsInv, Handlers
  PROVE  /\ RunsInv' /\ Step({}, {}) /\ UNCHANGED <<stored, wfWork, piVars, channelWork>>
<1>1. UNCHANGED <<setup, stored, behind, seen, queue, wfWork, piVars, channelWork>>
  BY DEF Handlers, Serve, ServeFails, Receive, CreateRun, ListFails, CreateFails,
         SenderGivesUp, SendAgain, objectVars, api, wfVars
<1>2. UNCHANGED mishaps \/ Mishap
  BY DEF Handlers, Serve, ServeFails, Receive, CreateRun, ListFails, CreateFails,
         SenderGivesUp, SendAgain, objectVars
<1>3. Step({}, {})
  <2>1. Moves({})
    BY <1>1, KeptMoves DEF api
  <2> QED BY <1>1, <1>2, <2>1 DEF Step, StoreInv
<1>4. RunsInv'
  <2>1. PICK d \in Deliveries : Serve(d) \/ ServeFails(d)
    BY DEF Handlers
  <2>2. ASSUME NEW w \in Workflows, CreateRun(d, w)
        PROVE  RunsInv'
    <3>1. /\ w \in http[d].todo /\ http[d].pc = "creating" /\ Handled(d, w, 1)
          /\ runs' = Append(runs, RunFor(d, w))
      BY <2>2 DEF CreateRun
    <3> QED BY <1>1, <1>2, <3>1, StartedRuns
  <2>3. ASSUME NEW w \in Workflows, CreateFails(d, w)
        PROVE  RunsInv'
    <3>1. w \in http[d].todo /\ http[d].pc = "creating" /\ Handled(d, w, 0) /\ Mishap
      BY <2>3 DEF CreateFails
    <3>2. CASE runs' = Append(runs, RunFor(d, w))
      BY <1>1, <3>1, <3>2, StartedRuns
    <3>3. CASE UNCHANGED runs
      BY <1>1, <3>1, <3>3, UnstartedRuns
    <3> QED BY <2>3, <3>2, <3>3 DEF CreateFails
  <2> QED BY <2>1, <2>2, <2>3, ReceiveRuns, ListFailsRuns, SenderRuns DEF Serve, ServeFails
<1> QED BY <1>1, <1>3, <1>4

-----------------------------------------------------------------------------
(* Users and the cluster write objects, and no key is taken off the queue.  *)

LEMMA RestKept ==
  ASSUME Rest, NEW written, Step(written, {}), UNCHANGED <<wfWork, piVars, channelWork>>,
         TypeKept, IsUnread(stored'[PiAgent]) => IsUnread(stored[PiAgent])
  PROVE  Rest'
<1>1. UNCHANGED <<setup, seen, piWork>>
  BY DEF Step, piVars
<1>2. StoreInv' /\ CacheInv'
  BY StepStore, StepCache DEF Rest
<1>3. WorkInv'
  BY <1>1, WorkKept DEF Rest, WorkInv
<1>4. WorkflowInv'
  BY WorkflowKept DEF Rest
<1>5. VerdictInv' /\ UnreadInv'
  BY <1>1, VerdictKept, UnreadKept DEF Rest
<1>6. ChannelInv'
  BY ChannelKept DEF Rest
<1>7. SelectorInv'
  BY <1>1, SelectorKept DEF Rest
<1> QED BY <1>2, <1>3, <1>4, <1>5, <1>6, <1>7 DEF Rest

LEMMA UserStep ==
  ASSUME StoreInv, NEW o \in Objects, NEW v \in ObjectsOf(o), UserWrites(o, v),
         Exists(o) \/ o \notin Keys
  PROVE  Step({o}, {}) /\ stored'[o] = v
<1>1. Write(o, v) /\ UNCHANGED <<setup, seen, queue>> /\ Mishap
  BY DEF UserWrites
<1>2. Moves({o}) /\ stored'[o] = v
  BY <1>1, WriteMoves
<1> QED BY <1>1, <1>2 DEF Step, StoreInv

\* Kinds of objects differ.
LEMMA Distinct ==
  /\ Deployment \notin {PiAgent, Channel, Agent, ConfigMap, Secret, Service, Ingress}
  /\ PiAgent \notin {Channel, Agent, ConfigMap, Secret, Service, Ingress}
  /\ Deployment \notin WorkflowObjects /\ PiAgent \notin WorkflowObjects
  /\ {Agent, ConfigMap, Secret, Deployment, Service, Ingress} \intersect Keys = {}
  /\ \A w : CronJob(w) \notin Keys
<1>1. {Agent, ConfigMap, Secret, Deployment, Service, Ingress} \intersect Keys = {}
  BY Kinds, KeyKinds
<1>2. \A w : CronJob(w) \notin Keys
  BY Kinds, KeyKinds
<1> QED BY <1>1, <1>2, Kinds DEF WorkflowObjects

\* A user changes neither the type of a Deployment nor a verdict.
LEMMA UserKeeps ==
  ASSUME Rest, NEW o \in Objects, NEW v \in ObjectsOf(o), UserWrites(o, v),
         Exists(o) \/ o \notin Keys, UNCHANGED <<wfWork, piVars, channelWork>>,
         o = Deployment /\ v # Absent => Exists(o) /\ v.type = stored[o].type,
         o = PiAgent /\ v # Absent => Exists(o) /\ v.verdict = stored[o].verdict
  PROVE  Rest' /\ UNCHANGED setup /\ Mishap
<1>1. StoreInv
  BY DEF Rest
<1>2. Step({o}, {}) /\ stored'[o] = v
  BY <1>1, UserStep
<1>3. Moves({o})
  BY <1>2 DEF Step
<1>4. TypeKept
  <2>1. CASE o = Deployment
    BY <1>2, <2>1 DEF TypeKept, Exists
  <2>2. CASE o # Deployment
    BY <1>3, <2>2, UnwrittenKept
  <2> QED BY <2>1, <2>2
<1>5. IsUnread(stored'[PiAgent]) => IsUnread(stored[PiAgent])
  <2>1. CASE o = PiAgent
    BY <1>2, <2>1 DEF IsUnread, Exists
  <2>2. CASE o # PiAgent
    BY <1>3, <2>2, UnwrittenKept
  <2> QED BY <2>1, <2>2
<1> QED BY <1>2, <1>4, <1>5, RestKept DEF UserWrites

LEMMA EditWorkflowKeeps ==
  ASSUME Rest, NEW w \in Workflows, EditWorkflow(w) \/ EditCronJob(w), UNCHANGED others
  PROVE  Rest' /\ UNCHANGED <<setup, runs, http>> /\ Mishap
<1>1. UNCHANGED <<wfWork, runs, http, piVars, channelWork>>
  BY DEF EditWorkflow, EditCronJob, wfVars, others
<1>2. StoreInv /\ Workflow(w) \in Objects /\ CronJob(w) \in Objects
  BY KeysAreObjects DEF Rest
<1>3. CASE EditWorkflow(w)
  <2>1. PICK v : UserWrites(Workflow(w), v) /\ Exists(Workflow(w))
                 /\ \/ v = Absent
                    \/ \E s \in setup.specs : v = [stored[Workflow(w)] EXCEPT !.spec = s]
    BY <1>3 DEF EditWorkflow
  <2>2. stored[Workflow(w)] \in WorkflowObject
    BY <1>2, <2>1, StoredTypes DEF Exists
  <2>3. v \in ObjectsOf(Workflow(w))
    <3>1. v \in {Absent} \union WorkflowObject
      BY <2>1, <2>2 DEF WorkflowObject
    <3> QED BY <3>1, KindTypes
  <2>4. Workflow(w) # Deployment /\ Workflow(w) # PiAgent
    BY Kinds
  <2> QED BY <1>1, <1>2, <2>1, <2>3, <2>4, UserKeeps
<1>4. CASE EditCronJob(w)
  <2>1. PICK v : UserWrites(CronJob(w), v) /\ Exists(CronJob(w))
                 /\ \/ v = Absent
                    \/ v = [stored[CronJob(w)] EXCEPT !.suspend = ~stored[CronJob(w)].suspend]
    BY <1>4 DEF EditCronJob
  <2>2. stored[CronJob(w)] \in CronJobObject(setup.specs)
    BY <1>2, <2>1, StoredTypes DEF Exists
  <2>3. v \in ObjectsOf(CronJob(w))
    <3>1. v \in {Absent} \union CronJobObject(setup.specs)
      BY <2>1, <2>2 DEF CronJobObject
    <3> QED BY <3>1, KindTypes
  <2>4. CronJob(w) # Deployment /\ CronJob(w) # PiAgent
    BY Kinds
  <2> QED BY <1>1, <1>2, <2>1, <2>3, <2>4, UserKeeps
<1> QED BY <1>3, <1>4

LEMMA EditPiAgentKeeps ==
  ASSUME Rest, EditPiAgent \/ EditReferenced, UNCHANGED <<wfVars, http, channelWork>>
  PROVE  Rest' /\ UNCHANGED <<setup, runs, http>> /\ Mishap
<1>1. UNCHANGED <<wfWork, runs, http, piVars, channelWork>>
  BY DEF EditPiAgent, EditReferenced, wfVars
<1>2. StoreInv
  BY DEF Rest
<1>3. CASE EditPiAgent
  <2>1. PICK v : UserWrites(PiAgent, v) /\ Exists(PiAgent)
                 /\ \/ v = Absent
                    \/ \E s \in setup.specs : v = [stored[PiAgent] EXCEPT !.spec = s]
    BY <1>3 DEF EditPiAgent
  <2>2. stored[PiAgent] \in PiAgentObject
    BY <1>2, <2>1, StoredTypes DEF Exists
  <2>3. v \in ObjectsOf(PiAgent)
    <3>1. v \in {Absent} \union PiAgentObject
      BY <2>1, <2>2 DEF PiAgentObject
    <3> QED BY <3>1, KindTypes
  <2>4. v # Absent => v.verdict = stored[PiAgent].verdict
    BY <2>1, <2>2 DEF PiAgentObject
  <2> QED BY <1>1, <1>2, <2>1, <2>3, <2>4, PiAgentTypes, Distinct, UserKeeps
<1>4. CASE EditReferenced
  <2>1. PICK o \in {ConfigMap, Secret}, v \in {Absent, [key |-> TRUE], [key |-> FALSE]} :
          UserWrites(o, v)
    BY <1>4 DEF EditReferenced
  <2>2. v \in ObjectsOf(o)
    <3>1. [key |-> TRUE] \in [key : BOOLEAN]
      BY Zenon
    <3>2. [key |-> FALSE] \in [key : BOOLEAN]
      BY Zenon
    <3>3. v \in {Absent} \union [key : BOOLEAN]
      <4>1. v = Absent \/ v = [key |-> TRUE] \/ v = [key |-> FALSE]
        BY Zenon
      <4> QED BY <3>1, <3>2, <4>1, Zenon
    <3> QED BY <2>1, <3>3, KindTypes
  <2>3. o \in Objects /\ o \notin Keys /\ o # Deployment /\ o # PiAgent
    BY <2>1, KeysAreObjects, Distinct
  <2> QED BY <1>1, <2>1, <2>2, <2>3, UserKeeps
<1> QED BY <1>3, <1>4

LEMMA EditChannelKeeps ==
  ASSUME Rest, EditChannel \/ EditOwned, UNCHANGED <<wfVars, http, piVars>>
  PROVE  Rest' /\ UNCHANGED <<setup, runs, http>> /\ Mishap
<1>1. UNCHANGED <<wfWork, runs, http, piVars, channelWork>>
  BY DEF EditChannel, EditOwned, wfVars
<1>2. StoreInv
  BY DEF Rest
<1>3. CASE EditChannel
  <2>1. PICK v : UserWrites(Channel, v) /\ Exists(Channel)
                 /\ \/ v = Absent
                    \/ \E s \in setup.specs : v = [stored[Channel] EXCEPT !.spec = s]
    BY <1>3 DEF EditChannel
  <2>2. stored[Channel] \in ChannelObject
    BY <1>2, <2>1, StoredTypes DEF Exists
  <2>3. v \in ObjectsOf(Channel)
    <3>1. v \in {Absent} \union ChannelObject
      BY <2>1, <2>2 DEF ChannelObject
    <3> QED BY <3>1, KindTypes
  <2> QED BY <1>1, <1>2, <2>1, <2>3, ChannelTypes, Distinct, UserKeeps
<1>4. CASE EditOwned
  <2> DEFINE Owned(o, v) ==
        \/ v = Absent
        \/ o = Deployment /\ Exists(o) /\ v = [stored[o] EXCEPT !.image = "patched"]
        \/ o = Service /\ Exists(o) /\ v = [selector |-> "patched"]
        \/ o = Ingress /\ Exists(o) /\ v = [host |-> "patched"]
  <2>0. PICK o \in {Deployment, Service, Ingress} : \E v : UserWrites(o, v) /\ Owned(o, v)
    BY <1>4 DEF EditOwned
  <2>1. PICK v : UserWrites(o, v) /\ Owned(o, v)
    BY <2>0
  <2>2. Exists(Deployment) => stored[Deployment] \in DeploymentObject(setup.specs)
    BY <1>2, StoredTypes DEF Exists
  <2>3. v \in ObjectsOf(o)
    <3>1. CASE o = Deployment
      <4>1. v \in {Absent} \union DeploymentObject(setup.specs)
        BY <2>1, <2>2, <3>1, Distinct DEF DeploymentObject
      <4> QED BY <3>1, <4>1, KindTypes
    <3>2. CASE o = Service
      <4>1. v \in {Absent} \union ServiceObject(setup.specs)
        BY <2>1, <3>2, Kinds DEF ServiceObject
      <4> QED BY <3>2, <4>1, KindTypes
    <3>3. CASE o = Ingress
      <4>1. v \in {Absent} \union IngressObject(setup.specs)
        BY <2>1, <3>3, Kinds DEF IngressObject
      <4> QED BY <3>3, <4>1, KindTypes
    <3> QED BY <2>1, <3>1, <3>2, <3>3
  <2>4. o = Deployment /\ v # Absent => Exists(o) /\ v.type = stored[o].type
    BY <2>1, <2>2, Kinds DEF DeploymentObject
  <2>5. o \in Objects /\ o \notin Keys /\ o # PiAgent
    BY <2>1, KeysAreObjects, Distinct
  <2> QED BY <1>1, <2>1, <2>3, <2>4, <2>5, UserKeeps
<1> QED BY <1>3, <1>4

LEMMA UsersKeep ==
  ASSUME Rest, Users
  PROVE  Rest' /\ UNCHANGED <<setup, runs, http, channelWork>> /\ Mishap
<1>1. CASE \E w \in Workflows : (EditWorkflow(w) \/ EditCronJob(w)) /\ UNCHANGED others
  BY <1>1, EditWorkflowKeeps DEF others
<1>2. CASE (EditPiAgent \/ EditReferenced) /\ UNCHANGED <<wfVars, http, channelWork>>
  BY <1>2, EditPiAgentKeeps
<1>3. CASE (EditChannel \/ EditOwned) /\ UNCHANGED <<wfVars, http, piVars>>
  BY <1>3, EditChannelKeeps DEF EditChannel, EditOwned
<1>4. CASE UserWrites(Agent, IF Exists(Agent) THEN Absent ELSE [agent |-> TRUE])
           /\ UNCHANGED <<wfVars, others>>
  <2> DEFINE v == IF Exists(Agent) THEN Absent ELSE [agent |-> TRUE]
  <2>1. v \in ObjectsOf(Agent)
    BY KindTypes
  <2>2. Agent \in Objects /\ Agent \notin Keys /\ Agent # Deployment /\ Agent # PiAgent
    BY KeysAreObjects, Distinct
  <2>3. UNCHANGED <<wfWork, runs, http, piVars, channelWork>>
    BY <1>4 DEF wfVars, others
  <2> HIDE DEF v
  <2> QED BY <1>4, <2>1, <2>2, <2>3, UserKeeps DEF v
<1> QED BY <1>1, <1>2, <1>3, <1>4 DEF Users

\* A run of a CronJob is none of a delivery.
LEMMA CronJobRuns ==
  ASSUME StoreInv, RunsInv, UNCHANGED <<setup, http>>, Mishap, NEW w \in Workflows,
         runs' = Append(runs, [workflow |-> w, cause |-> NoCause])
  PROVE  RunsInv'
<1> DEFINE r == [workflow |-> w, cause |-> NoCause]
<1>1. r \in Runs /\ runs \in Seq(Runs)
  BY DEF Runs, RunsInv
<1>2. \A e \in Deliveries : http[e].attempt \in Nat /\ http[e].todo \subseteq Workflows
  BY DEF RunsInv, HttpTypeOK
<1>3. \A e \in Deliveries, n \in Nat : r.cause # <<e, n>>
  BY CausesAssumption
<1>4. \A e \in Deliveries, v \in Workflows : r # RunFor(e, v)
  BY <1>2, <1>3 DEF RunFor
<1>5. \A e \in Deliveries, v \in Workflows : RunsFor(e, v)' = RunsFor(e, v)
  <2> HIDE DEF r
  <2> QED BY <1>1, <1>4, RunsAfter DEF r
<1>6. \A e \in Deliveries : DeliveryInv(e)'
  <2>1. mishaps' = 0 => mishaps = 0
    BY MishapCounts
  <2> QED BY <1>2, <1>5, <2>1, OtherDelivery DEF RunsInv
<1>7. /\ runs' \in Seq(Runs) /\ DOMAIN runs' = DOMAIN runs \union {Len(runs) + 1}
      /\ \A i \in DOMAIN runs : runs'[i] = runs[i]
      /\ runs'[Len(runs) + 1] = r
  <2> HIDE DEF r
  <2> QED BY <1>1, OneMoreRun DEF r
<1>8. \A i \in DOMAIN runs', e \in Deliveries, n \in Nat :
        runs'[i].cause = <<e, n>> => n <= http'[e].attempt
  <2> HIDE DEF r
  <2>1. \A i \in DOMAIN runs, e \in Deliveries, n \in Nat :
          runs[i].cause = <<e, n>> => n <= http[e].attempt
    BY DEF RunsInv
  <2> TAKE i \in DOMAIN runs', e \in Deliveries, n \in Nat
  <2> HAVE runs'[i].cause = <<e, n>>
  <2>2. CASE i \in DOMAIN runs
    BY <1>7, <2>1, <2>2
  <2>3. i # Len(runs) + 1
    BY <1>3, <1>7
  <2> QED BY <1>7, <2>2, <2>3
<1>9. HttpTypeOK'
  BY DEF RunsInv, HttpTypeOK
<1> QED BY <1>6, <1>7, <1>8, <1>9 DEF RunsInv, Runs

LEMMA CronJobKeeps ==
  ASSUME Rest, RunsInv, NEW w \in Workflows, CronJobDue(w) \/ CollectCronJob(w), UNCHANGED others
  PROVE  Rest' /\ RunsInv' /\ UNCHANGED setup
<1> DEFINE o == CronJob(w)
<1>1. UNCHANGED <<wfWork, http, piVars, channelWork, setup, seen, queue>> /\ Exists(o)
  BY DEF CronJobDue, CollectCronJob, wfVars, others
<1>2. StoreInv /\ o \in Objects /\ o \notin Keys /\ o # Deployment /\ o # PiAgent
      /\ stored[o] \in ObjectsOf(o) /\ Absent \in ObjectsOf(o)
  BY KeysAreObjects, Kinds, Distinct, KindTypes DEF Rest, StoreInv
<1>3. Moves({o})
  <2> HIDE DEF o
  <2>1. CASE CronJobDue(w)
    BY <1>1, <1>2, <2>1, TouchMoves DEF CronJobDue, o
  <2>2. CASE CollectCronJob(w)
    BY <1>1, <1>2, <2>2, WriteMoves DEF CollectCronJob, o
  <2> QED BY <2>1, <2>2
<1>4. UNCHANGED mishaps \/ Mishap
  BY DEF CronJobDue, CollectCronJob
<1>5. Step({o}, {})
  BY <1>1, <1>2, <1>3, <1>4 DEF Step, StoreInv
<1>6. Rest'
  BY <1>1, <1>2, <1>3, <1>5, UnwrittenKept, RestKept
<1>7. RunsInv'
  <2>1. CASE CronJobDue(w)
    BY <1>1, <1>2, <2>1, CronJobRuns DEF CronJobDue
  <2>2. CASE CollectCronJob(w)
    BY <1>1, <1>2, <1>4, <2>2, RunsKept DEF CollectCronJob, wfVars
  <2> QED BY <2>1, <2>2
<1> QED BY <1>1, <1>6, <1>7

LEMMA CollectOwnedKeeps ==
  ASSUME Rest, NEW o \in Objects, CollectOwned(o), UNCHANGED <<wfVars, http, piVars>>
  PROVE  Rest' /\ UNCHANGED <<setup, runs, http, mishaps>>
<1>1. UNCHANGED <<wfWork, runs, http, piVars, channelWork, setup, seen, queue, mishaps>>
      /\ Exists(o) /\ o \in {Deployment, Service, Ingress} /\ Write(o, Absent)
  BY DEF CollectOwned, wfVars
<1>2. StoreInv /\ Absent \in ObjectsOf(o) /\ o # PiAgent
  BY <1>1, KindTypes, Distinct DEF Rest
<1>3. Moves({o}) /\ stored'[o] = Absent
  BY <1>1, <1>2, WriteMoves
<1>4. Step({o}, {})
  BY <1>1, <1>2, <1>3 DEF Step, StoreInv
<1>5. TypeKept
  BY <1>3, UnwrittenKept DEF TypeKept
<1> QED BY <1>1, <1>2, <1>3, <1>4, <1>5, UnwrittenKept, RestKept

LEMMA ChannelPodsKeeps ==
  ASSUME Rest, ChannelPods, UNCHANGED <<wfVars, http, piVars>>
  PROVE  Rest' /\ UNCHANGED <<setup, runs, http>> /\ (UNCHANGED mishaps \/ Mishap)
<1> DEFINE new == [stored[Deployment] EXCEPT !.ready = ~stored[Deployment].ready]
<1>1. UNCHANGED <<wfWork, runs, http, piVars, channelWork, setup, seen, queue>>
      /\ Exists(Deployment) /\ Write(Deployment, new)
  BY DEF ChannelPods, wfVars
<1>2. StoreInv /\ mishaps \in Nat
  BY DEF Rest, StoreInv
<1>3. stored[Deployment] \in DeploymentObject(setup.specs)
  BY <1>1, <1>2, StoredTypes DEF Exists
<1>4. new \in DeploymentObject(setup.specs) /\ new.type = stored[Deployment].type
  BY <1>3 DEF DeploymentObject
<1>5. new \in ObjectsOf(Deployment) /\ Deployment \in Objects
  <2> HIDE DEF new
  <2> QED BY <1>4, KindTypes, KeysAreObjects
<1>6. UNCHANGED mishaps \/ Mishap
  BY <1>2 DEF ChannelPods, Mishap
<1> HIDE DEF new
<1>7. Moves({Deployment}) /\ stored'[Deployment] = new
  BY <1>1, <1>2, <1>5, WriteMoves
<1>8. Step({Deployment}, {})
  BY <1>1, <1>2, <1>6, <1>7 DEF Step, StoreInv
<1>9. TypeKept
  BY <1>1, <1>4, <1>7 DEF TypeKept, Exists
<1> QED BY <1>1, <1>6, <1>7, <1>8, <1>9, Distinct, UnwrittenKept, RestKept

LEMMA ClusterKeeps ==
  ASSUME Rest, RunsInv, Cluster
  PROVE  Rest' /\ RunsInv' /\ UNCHANGED <<setup, channelWork>>
<1>1. CASE (\E w \in Workflows : CronJobDue(w) \/ CollectCronJob(w)) /\ UNCHANGED others
  BY <1>1, CronJobKeeps DEF others
<1>2. CASE (ChannelPods \/ \E o \in Objects : CollectOwned(o)) /\ UNCHANGED <<wfVars, http, piVars>>
  <2>1. Rest' /\ UNCHANGED <<setup, runs, http>> /\ (UNCHANGED mishaps \/ Mishap)
    BY <1>2, ChannelPodsKeeps, CollectOwnedKeeps
  <2>2. UNCHANGED channelWork
    BY <1>2 DEF ChannelPods, CollectOwned
  <2> QED BY <2>1, <2>2, RunsKept DEF Rest
<1> QED BY <1>1, <1>2 DEF Cluster

-----------------------------------------------------------------------------
(* The informers and a restart change the cache.                            *)

LEMMA WakesKeys ==
  ASSUME NEW o \in Objects
  PROVE  /\ Wakes(o) \subseteq Keys
         /\ \A w \in Workflows : o \in {Workflow(w), CronJob(w)} => Workflow(w) \in Wakes(o)
         /\ o = PiAgent => PiAgent \in Wakes(o)
         /\ o \in ChannelObjects => Channel \in Wakes(o)
<1>1. CASE o[1] = "workflow"
  BY <1>1, ObjectKinds, Kinds DEF Wakes, ChannelObjects
<1>2. CASE o[1] = "cronjob"
  BY <1>2, ObjectKinds, Kinds, KeysAreObjects DEF Wakes, ChannelObjects
<1>3. CASE o \in {Deployment, Service, Ingress}
  BY <1>3, Kinds, KeysAreObjects DEF Wakes, ChannelObjects
<1>4. CASE o = Agent
  BY <1>4, Kinds, KeysAreObjects DEF Wakes, ChannelObjects
<1>5. CASE o \in {PiAgent, Channel, ConfigMap, Secret}
  BY <1>5, Kinds, KeysAreObjects DEF Wakes, ChannelObjects
<1> QED BY <1>1, <1>2, <1>3, <1>4, <1>5, ObjectKinds

LEMMA DeliverKeeps ==
  ASSUME Rest, NEW o \in Objects, Deliver(o), UNCHANGED <<wfWork, piVars, channelWork>>
  PROVE  Rest' /\ UNCHANGED <<setup, mishaps>>
<1>1. /\ StoreInv /\ CacheInv /\ WorkInv
      /\ WorkflowInv /\ VerdictInv /\ UnreadInv /\ ChannelInv /\ SelectorInv
  BY DEF Rest
<1>2. /\ UNCHANGED <<setup, stored, mishaps, piWork, unread>> /\ behind' = behind \ {o}
      /\ queue' = queue \union Wakes(o)
  BY DEF Deliver, piVars
<1>3. /\ seen' = [p \in Objects |-> seen'[p]] /\ seen'[o] = stored[o]
      /\ \A p \in Objects \ {o} : seen'[p] = seen[p] /\ (p \in behind' <=> p \in behind)
  BY <1>1 DEF Deliver, StoreInv
<1>4. StoreInv'
  <2>1. \A p \in Objects : stored'[p] \in ObjectsOf(p)' /\ seen'[p] \in ObjectsOf(p)'
    BY <1>1, <1>2, <1>3, SameTypes DEF StoreInv
  <2>2. queue' \subseteq Keys
    BY <1>1, <1>2, WakesKeys DEF StoreInv
  <2>3. \A p \in Keys \ setup'.objects : stored'[p] = Absent /\ seen'[p] = Absent
    BY <1>1, <1>2, <1>3, KeysAreObjects DEF StoreInv
  <2> QED BY <1>1, <1>2, <1>3, <2>1, <2>2, <2>3 DEF StoreInv
<1>5. CacheInv'
  BY <1>1, <1>2, <1>3 DEF CacheInv
<1>6. WorkInv'
  BY <1>1, <1>2, WorkKept DEF WorkInv
<1>7. WorkflowInv'
  <2> SUFFICES ASSUME NEW w \in Workflows, seen'[Workflow(w)] # Absent, Workflow(w) \notin queue'
               PROVE  IF wfWork.pc # "idle" /\ wfWork.key = w
                      THEN /\ wfWork.spec = seen'[Workflow(w)].spec
                           /\ wfWork.pc \in {"cron", "status"} => ~wfWork.spec.both
                           /\ wfWork.pc = "status" /\ wfWork.spec.schedule # NoSchedule
                              /\ CronJob(w) \notin behind' => Follows(seen'[CronJob(w)], wfWork.spec)
                      ELSE Workflow(w) \notin behind' /\ CronJob(w) \notin behind' => Judged(w)'
    BY <1>2 DEF WorkflowInv, Follows
  <2>1. /\ Workflow(w) \in Objects /\ CronJob(w) \in Objects
        /\ o # Workflow(w) /\ o # CronJob(w) /\ Workflow(w) \notin queue
    BY <1>2, WakesKeys, KeysAreObjects
  <2>2. /\ seen'[Workflow(w)] = seen[Workflow(w)] /\ seen'[CronJob(w)] = seen[CronJob(w)]
        /\ (Workflow(w) \in behind' <=> Workflow(w) \in behind)
        /\ (CronJob(w) \in behind' <=> CronJob(w) \in behind)
    BY <1>3, <2>1
  <2>3. Judged(w)' <=> Judged(w)
    BY <2>2 DEF Judged, Follows
  <2> QED BY <1>1, <2>1, <2>2, <2>3 DEF WorkflowInv
<1>8. PiAgent \notin queue' =>
        /\ PiAgent \notin queue /\ seen'[PiAgent] = seen[PiAgent]
        /\ PiAgent \in behind' <=> PiAgent \in behind
  BY <1>2, <1>3, WakesKeys, KeysAreObjects
<1>9. VerdictInv'
  BY <1>1, <1>2, <1>8 DEF VerdictInv
<1>10. UnreadInv'
  <2>1. seen'[PiAgent] \in {seen[PiAgent], stored[PiAgent]}
    BY <1>3, KeysAreObjects
  <2> QED BY <1>1, <1>2, <1>8, <2>1 DEF UnreadInv
<1>11. ChannelInv'
  <2> SUFFICES ASSUME seen'[Channel] # Absent, Channel \notin queue'
               PROVE  ChannelInv'
    BY DEF ChannelInv
  <2>1. ChannelObjects \subseteq Objects /\ o \notin ChannelObjects /\ Channel \notin queue
    BY <1>2, WakesKeys, KeysAreObjects DEF ChannelObjects
  <2>2. \A p \in ChannelObjects : seen'[p] = seen[p] /\ (p \in behind' <=> p \in behind)
    BY <1>3, <2>1
  <2>3. \A spec : /\ DeploymentFits(spec)' <=> DeploymentFits(spec)
                  /\ ServiceFits(spec)' <=> ServiceFits(spec)
                  /\ IngressFits(spec)' <=> IngressFits(spec)
    BY <2>2 DEF ChannelObjects, DeploymentFits, ServiceFits, IngressFits
  <2>4. Channel \in ChannelObjects /\ Deployment \in ChannelObjects
    BY DEF ChannelObjects
  <2> QED BY <1>1, <2>1, <2>2, <2>3, <2>4 DEF ChannelInv, ChannelFits
<1>12. SelectorInv'
  BY <1>1, <1>2, <1>3, KeysAreObjects DEF SelectorInv
<1> QED BY <1>2, <1>4, <1>5, <1>6, <1>7, <1>9, <1>10, <1>11, <1>12 DEF Rest

LEMMA NoWork ==
  /\ NoPiWork.pc = "idle" /\ NoPiWork.verdict = <<"Unset", "">>
  /\ NoPiWork.verdict[2] # "unread"
  /\ \A S : NoPiWork \in [pc : {"idle", "source", "providers", "tools", "status"},
                          spec : S \union {Absent}, verdict : Verdicts]
  /\ NoChannelWork.pc = "idle"
  /\ \A S : NoChannelWork \in
       [pc : {"idle", "agent", "deployment", "service", "ingress", "status"}, spec : S \union {Absent}]
BY DEF NoPiWork, NoChannelWork, Unset, Verdicts

LEMMA RestartKeeps ==
  ASSUME Rest, Restart
  PROVE  Rest' /\ UNCHANGED <<setup, runs>> /\ Mishap
<1>1. /\ StoreInv /\ UnreadInv
  BY DEF Rest
<1>2. /\ UNCHANGED <<setup, stored, runs, unread>> /\ Mishap
      /\ seen' = stored /\ behind' = {} /\ queue' = {o \in Keys : stored[o] # Absent}
      /\ wfWork' = NoWfWork /\ piWork' = NoPiWork /\ channelWork' = NoChannelWork
  BY DEF Restart, Exists
<1>3. StoreInv'
  <2>1. \A o \in Objects : stored'[o] \in ObjectsOf(o)' /\ seen'[o] \in ObjectsOf(o)'
    BY <1>1, <1>2, SameTypes DEF StoreInv
  <2>2. mishaps' \in Nat /\ mishaps' <= setup'.mishaps
    BY <1>1, <1>2, MishapCounts
  <2> QED BY <1>1, <1>2, <2>1, <2>2 DEF StoreInv
<1>4. CacheInv'
  BY <1>2 DEF CacheInv
<1>5. WorkInv'
  BY <1>1, <1>2, NoWork, NoWorkflowWork DEF WorkInv, WfWorkInv, PiWorkInv, ChannelWorkInv, Rest
<1>6. \A k \in Keys : seen'[k] # Absent => k \in queue'
  BY <1>2
<1>7. WorkflowInv' /\ VerdictInv' /\ ChannelInv'
  <2>1. \A w \in Workflows : Workflow(w) \in Keys
    BY KeysAreObjects
  <2> QED BY <1>2, <1>6, <2>1, NoWork, KeysAreObjects DEF WorkflowInv, VerdictInv, ChannelInv
<1>8. UnreadInv'
  BY <1>1, <1>2, <1>6, NoWork, KeysAreObjects DEF UnreadInv, IsUnread
<1>9. SelectorInv'
  BY <1>2, NoWork DEF SelectorInv
<1> QED BY <1>2, <1>3, <1>4, <1>5, <1>7, <1>8, <1>9 DEF Rest

\* A delivery that was handled when the process stopped is not answered.
LEMMA RestartRuns ==
  ASSUME StoreInv, RunsInv, Restart
  PROVE  RunsInv'
<1>1. http' = [d \in Deliveries |-> Broken(http[d])] /\ UNCHANGED <<setup, runs>> /\ Mishap
  BY DEF Restart
<1>2. \A d \in Deliveries :
        /\ http'[d] \in HttpRecord /\ http'[d].attempt = http[d].attempt /\ http[d].attempt \in Nat
        /\ http'[d].matched = http[d].matched
        /\ http[d].pc = "creating" => http'[d].pc = "broken" /\ http'[d].todo = {}
        /\ http[d].pc # "creating" => http'[d] = http[d]
  <2> TAKE d \in Deliveries
  <2>1. http[d] \in HttpRecord /\ http'[d] = Broken(http[d])
    BY <1>1 DEF RunsInv, HttpTypeOK, HttpRecord
  <2> QED BY <2>1 DEF Broken, HttpRecord
<1>3. HttpTypeOK'
  <2>1. http' \in [Deliveries -> HttpRecord]
    BY <1>1, <1>2
  <2> QED BY <2>1 DEF HttpTypeOK, HttpRecord
<1>4. ASSUME NEW d \in Deliveries
      PROVE  DeliveryInv(d)'
  <2>1. (\A w : RunsFor(d, w)' = RunsFor(d, w)) /\ Started(d)' = Started(d)
    BY <1>1, <1>2, SameRuns
  <2>2. DeliveryInv(d) /\ (mishaps' = 0 => mishaps = 0)
    BY <1>1, MishapCounts DEF RunsInv
  <2> QED BY <1>2, <2>1, <2>2 DEF DeliveryInv
<1>5. \A d \in Deliveries : http'[d].attempt >= http[d].attempt /\ DeliveryInv(d)'
  BY <1>2, <1>4
<1> QED BY <1>1, <1>3, <1>5, DeliverySteps

-----------------------------------------------------------------------------
(* The invariant is inductive.                                              *)

LEMMA DeployedTypes ==
  ASSUME setup \in Setups, NEW o \in setup.objects, NEW v \in Deployed(o)
  PROVE  /\ v \in ObjectsOf(o) /\ o \in Objects
         /\ o \in {Deployment, Service, Ingress} => v = Absent
         /\ o = PiAgent => ~IsUnread(v)
<1>1. o \in Objects
  BY SetupsAssumption
<1>2. CASE o[1] = "workflow"
  <2>3. o = Workflow(o[2]) /\ o \notin {PiAgent, Channel, Agent, ConfigMap, Secret}
    BY <1>1, <1>2, ObjectKinds, Kinds
  <2>4. Deployed(o) = {NewWorkflow(s) : s \in setup.specs}
    BY <1>2, <2>3 DEF Deployed
  <2>1. PICK s \in setup.specs : v = NewWorkflow(s)
    BY <2>4
  <2>2. v \in WorkflowObject
    BY <2>1 DEF NewWorkflow, WorkflowObject, Reasons
  <2> QED BY <1>1, <1>2, <2>2, <2>3, KindTypes, Kinds
<1>3. CASE o = PiAgent
  <2>1. PICK s \in setup.specs : v = NewPiAgent(s)
    BY <1>3, Kinds DEF Deployed
  <2>2. v \in PiAgentObject
    BY <2>1 DEF NewPiAgent, PiAgentObject, Unset, Verdicts
  <2>3. ~IsUnread(v)
    <3>1. Unset[2] = ""
      BY DEF Unset
    <3>2. v.verdict = Unset
      BY <2>1 DEF NewPiAgent
    <3> QED BY <3>1, <3>2 DEF IsUnread
  <2>4. o \notin {Deployment, Service, Ingress}
    BY <1>3, Kinds
  <2> QED BY <1>1, <1>3, <2>2, <2>3, <2>4, KindTypes
<1>4. CASE o = Channel
  <2>1. PICK s \in setup.specs : v = NewChannel(s)
    BY <1>4, Kinds DEF Deployed
  <2>2. v \in ChannelObject
    BY <2>1 DEF NewChannel, ChannelObject
  <2> QED BY <1>1, <1>4, <2>2, KindTypes, Kinds
<1>5. CASE o = Agent
  <2>1. v \in {[agent |-> TRUE], Absent}
    BY <1>5, Kinds DEF Deployed
  <2>2. [agent |-> TRUE] \in [agent : {TRUE}]
    BY Zenon
  <2>3. v \in {Absent} \union [agent : {TRUE}]
    BY <2>1, <2>2, Zenon
  <2> QED BY <1>1, <1>5, <2>3, KindTypes, Kinds
<1>6. CASE o \in {ConfigMap, Secret}
  <2>1. v \in {[key |-> TRUE], Absent}
    BY <1>6, Kinds DEF Deployed
  <2>2. [key |-> TRUE] \in [key : BOOLEAN]
    BY Zenon
  <2>3. v \in {Absent} \union [key : BOOLEAN]
    BY <2>1, <2>2, Zenon
  <2> QED BY <1>1, <1>6, <2>3, KindTypes, Kinds
<1>7. CASE o[1] = "cronjob" \/ o \in {Deployment, Service, Ingress}
  <2>1. v = Absent
    BY <1>7, Kinds DEF Deployed
  <2> QED BY <1>1, <1>7, <2>1, KindTypes DEF IsUnread
<1> QED BY <1>1, <1>2, <1>3, <1>4, <1>5, <1>6, <1>7, ObjectKinds

LEMMA InitKeeps ==
  ASSUME Init
  PROVE  IInv
<1>1. /\ setup \in Setups /\ seen = [o \in Objects |-> Absent]
      /\ behind = {o \in Objects : stored[o] # Absent} /\ queue = {} /\ mishaps = 0
      /\ wfWork = NoWfWork /\ runs = <<>> /\ http = [d \in Deliveries |-> Unsent]
      /\ piWork = NoPiWork /\ unread = 0 /\ channelWork = NoChannelWork
  BY DEF Init, Exists
<1>2. PICK deployed : /\ \A o \in setup.objects : deployed[o] \in Deployed(o)
                      /\ stored = [o \in Objects |-> IF o \in setup.objects
                                                     THEN deployed[o] ELSE Absent]
  BY DEF Init
<1>3. \A o \in Objects : /\ stored[o] \in ObjectsOf(o) /\ seen[o] = Absent
                         /\ o \notin setup.objects => stored[o] = Absent
                         /\ o = PiAgent => ~IsUnread(stored[o])
  BY <1>1, <1>2, DeployedTypes, KindTypes DEF IsUnread
<1>4. StoreInv
  <2>1. mishaps \in Nat /\ mishaps <= setup.mishaps
    BY <1>1, SetupsAssumption
  <2>2. stored = [o \in Objects |-> stored[o]] /\ seen = [o \in Objects |-> seen[o]]
    BY <1>1, <1>2
  <2> QED BY <1>1, <1>3, <2>1, <2>2, KindTypes, KeysAreObjects DEF StoreInv
<1>5. CacheInv
  BY <1>1, <1>3 DEF CacheInv
<1>6. WorkInv
  BY <1>1, NoWork, NoWorkflowWork DEF WorkInv, WfWorkInv, PiWorkInv, ChannelWorkInv
<1>7. WorkflowInv /\ VerdictInv /\ ChannelInv
  BY <1>1, <1>3, NoWork, KeysAreObjects DEF WorkflowInv, VerdictInv, ChannelInv
<1>8. UnreadInv
  BY <1>1, <1>3, NoWork, KeysAreObjects DEF UnreadInv, IsUnread
<1>9. SelectorInv
  BY <1>1, <1>3, NoWork, KeysAreObjects DEF SelectorInv
<1>10. RunsInv
  <2>1. \A d \in Deliveries : http[d] = Unsent
    BY <1>1
  <2>2. HttpTypeOK
    BY <1>1 DEF HttpTypeOK, Unsent
  <2>3. runs \in Seq(Runs) /\ DOMAIN runs = {}
    BY <1>1
  <2>4. \A d \in Deliveries : Started(d) = {} /\ \A w : RunsFor(d, w) = {}
    BY <2>3 DEF Started, RunsFor
  <2>5. \A d \in Deliveries : DeliveryInv(d)
    BY <2>1, <2>4 DEF DeliveryInv, Unsent
  <2> QED BY <2>2, <2>3, <2>5 DEF RunsInv, Runs
<1> QED BY <1>4, <1>5, <1>6, <1>7, <1>8, <1>9, <1>10 DEF IInv, Rest

LEMMA NextKeeps ==
  ASSUME IInv, [Next]_vars
  PROVE  IInv' /\ FollowsPods
<1>1. /\ Rest /\ RunsInv /\ StoreInv /\ CacheInv /\ WfWorkInv /\ PiWorkInv /\ ChannelWorkInv
      /\ WorkflowInv /\ VerdictInv /\ UnreadInv /\ ChannelInv /\ SelectorInv
  BY DEF IInv, Rest, WorkInv
<1>2. channelWork'.pc # "ingress" \/ channelWork'.pc = channelWork.pc => FollowsPods
  BY DEF FollowsPods
<1>3. CASE Informers
  <2>1. PICK o \in Objects : Deliver(o)
    BY <1>3 DEF Informers
  <2>2. UNCHANGED <<wfWork, runs, http, piVars, channelWork>>
    BY <1>3 DEF Informers, wfVars, others
  <2>3. Rest' /\ UNCHANGED <<setup, mishaps>>
    BY <1>1, <2>1, <2>2, DeliverKeeps
  <2> QED BY <1>1, <1>2, <2>2, <2>3, RunsKept DEF IInv
<1>4. CASE WorkflowWorker
  <2>1. /\ Step(WorkflowObjects, {Workflow(w) : w \in Workflows}) /\ WfWorkInv' /\ WorkflowInv'
        /\ UNCHANGED <<runs, http, piVars, channelWork>>
    BY <1>1, <1>4, WorkflowWorkerKeeps DEF WorkflowStep, others
  <2>2. UNCHANGED <<setup, seen, piWork>> /\ Moves(WorkflowObjects)
        /\ (UNCHANGED mishaps \/ Mishap)
    BY <2>1 DEF Step, piVars
  <2>3. StoreInv' /\ CacheInv'
    BY <1>1, <2>1, StepStore, StepCache
  <2>4. WorkInv'
    BY <1>1, <2>1, <2>2, WorkKept DEF WorkInv
  <2>5. PiAgent \notin {Workflow(w) : w \in Workflows} /\ Channel \notin {Workflow(w) : w \in Workflows}
    BY Kinds
  <2>6. TypeKept /\ (IsUnread(stored'[PiAgent]) => IsUnread(stored[PiAgent]))
    BY <2>2, Distinct, UnwrittenKept
  <2>7. VerdictInv' /\ UnreadInv'
    BY <1>1, <2>1, <2>2, <2>5, <2>6, VerdictKept, UnreadKept
  <2>8. ChannelInv'
    BY <1>1, <2>1, <2>5, ChannelKept
  <2>9. SelectorInv'
    BY <1>1, <2>1, <2>2, <2>6, SelectorKept
  <2>10. RunsInv'
    BY <1>1, <2>1, <2>2, RunsKept
  <2> QED BY <1>2, <2>1, <2>3, <2>4, <2>7, <2>8, <2>9, <2>10 DEF IInv, Rest
<1>5. CASE Handlers
  <2>1. RunsInv' /\ Step({}, {}) /\ UNCHANGED <<stored, wfWork, piVars, channelWork>>
    BY <1>1, <1>5, HandlersKeep
  <2>2. TypeKept /\ (IsUnread(stored'[PiAgent]) => IsUnread(stored[PiAgent]))
    BY <2>1 DEF TypeKept
  <2> QED BY <1>1, <1>2, <2>1, <2>2, RestKept DEF IInv
<1>6. CASE PiAgentWorker
  <2>1. /\ Step({PiAgent}, {PiAgent}) /\ PiWorkInv' /\ VerdictInv' /\ UnreadInv'
        /\ UNCHANGED <<wfWork, runs, http, channelWork>>
    BY <1>1, <1>6, PiAgentWorkerKeeps DEF PiAgentStep, wfVars
  <2>2. UNCHANGED <<setup, seen>> /\ Moves({PiAgent}) /\ (UNCHANGED mishaps \/ Mishap)
    BY <2>1 DEF Step
  <2>3. StoreInv' /\ CacheInv'
    BY <1>1, <2>1, StepStore, StepCache
  <2>4. WorkInv'
    BY <1>1, <2>1, <2>2, WorkKept DEF WorkInv
  <2>5. WorkflowInv'
    BY <1>1, <2>1, Kinds, WorkflowKept
  <2>6. ChannelInv'
    BY <1>1, <2>1, Distinct, ChannelKept
  <2>7. SelectorInv'
    <3>1. TypeKept
      BY <2>2, Distinct, UnwrittenKept
    <3> QED BY <1>1, <2>1, <2>2, <3>1, SelectorKept
  <2>8. RunsInv'
    BY <1>1, <2>1, <2>2, RunsKept
  <2> QED BY <1>2, <2>1, <2>3, <2>4, <2>5, <2>6, <2>7, <2>8 DEF IInv, Rest
<1>7. CASE ChannelWorker
  <2>1. /\ Step(ChannelObjects, {Channel}) /\ ChannelWorkInv' /\ ChannelInv' /\ SelectorInv'
        /\ FollowsPods /\ UNCHANGED <<wfWork, runs, http, piVars>>
    BY <1>1, <1>7, ChannelWorkerKeeps DEF ChannelStep, wfVars
  <2>2. UNCHANGED <<setup, seen, piWork>> /\ Moves(ChannelObjects)
        /\ (UNCHANGED mishaps \/ Mishap)
    BY <2>1 DEF Step, piVars
  <2>3. StoreInv' /\ CacheInv'
    BY <1>1, <2>1, StepStore, StepCache
  <2>4. WorkInv'
    BY <1>1, <2>1, <2>2, WorkKept DEF WorkInv
  <2>5. WorkflowInv'
    BY <1>1, <2>1, Kinds, WorkflowKept
  <2>6. VerdictInv' /\ UnreadInv'
    <3>1. PiAgent \notin {Channel} /\ PiAgent \notin ChannelObjects
      BY Distinct DEF ChannelObjects
    <3>2. IsUnread(stored'[PiAgent]) => IsUnread(stored[PiAgent])
      BY <2>2, <3>1, UnwrittenKept
    <3> QED BY <1>1, <2>1, <2>2, <3>1, <3>2, VerdictKept, UnreadKept
  <2>7. RunsInv'
    BY <1>1, <2>1, <2>2, RunsKept
  <2> QED BY <2>1, <2>3, <2>4, <2>5, <2>6, <2>7 DEF IInv, Rest
<1>8. CASE Users
  <2>1. Rest' /\ UNCHANGED <<setup, runs, http, channelWork>> /\ Mishap
    BY <1>1, <1>8, UsersKeep
  <2> QED BY <1>1, <1>2, <2>1, RunsKept DEF IInv
<1>9. CASE Cluster
  BY <1>1, <1>2, <1>9, ClusterKeeps DEF IInv
<1>10. CASE Restart
  <2>1. Rest' /\ RunsInv' /\ channelWork' = NoChannelWork
    BY <1>1, <1>10, RestartKeeps, RestartRuns DEF Restart
  <2> QED BY <1>2, <2>1, NoWork DEF IInv
<1>11. CASE UNCHANGED vars
  <2>1. UNCHANGED <<setup, stored, behind, seen, queue, mishaps, wfWork, runs, http, piVars, channelWork>>
    BY <1>11 DEF vars, objectVars, api, wfVars
  <2>2. Step({}, {})
    <3>1. Moves({})
      BY <1>1, <2>1, KeptMoves DEF api
    <3> QED BY <1>1, <2>1, <3>1 DEF Step, StoreInv
  <2>3. TypeKept /\ (IsUnread(stored'[PiAgent]) => IsUnread(stored[PiAgent]))
    BY <2>1 DEF TypeKept
  <2>4. RunsInv'
    BY <1>1, <2>1, RunsKept
  <2> QED BY <1>1, <1>2, <2>1, <2>2, <2>3, <2>4, RestKept DEF IInv
<1> QED BY <1>3, <1>4, <1>5, <1>6, <1>7, <1>8, <1>9, <1>10, <1>11 DEF Next

-----------------------------------------------------------------------------
LEMMA SettledKey ==
  ASSUME Rest, NEW key \in Keys, NEW looksAt \in SUBSET Objects, NEW idle,
         Settled(key, looksAt, idle)
  PROVE  /\ seen[key] = stored[key] /\ stored[key] # Absent /\ key \notin queue /\ key \notin behind
         /\ idle
         /\ \A o \in looksAt : seen[o] = stored[o] /\ o \notin behind
<1>1. CacheInv /\ key \in Objects
  BY KeysAreObjects DEF Rest
<1> QED BY <1>1 DEF Settled, Exists, Current, CacheInv

LEMMA InvWorkflows ==
  ASSUME Rest
  PROVE  WorkflowSettled
<1> SUFFICES ASSUME NEW w \in Workflows,
                    Settled(Workflow(w), {CronJob(w)}, wfWork.key # w \/ wfWork.pc = "idle")
             PROVE  LET wf == stored[Workflow(w)]
                        cron == stored[CronJob(w)]
                    IN /\ wf.spec.both => wf.reason = "InvalidSpec"
                       /\ wf.reason = "Unset" =>
                            /\ wf.url = (wf.spec.trigger.kind = "generic")
                            /\ wf.spec.schedule # NoSchedule =>
                                 /\ cron # Absent
                                 /\ cron.schedule = wf.spec.schedule
                                 /\ cron.suspend = wf.spec.suspend
  BY DEF WorkflowSettled
<1>1. /\ seen[Workflow(w)] = stored[Workflow(w)] /\ seen[CronJob(w)] = stored[CronJob(w)]
      /\ seen[Workflow(w)] # Absent
      /\ Workflow(w) \notin queue /\ Workflow(w) \notin behind /\ CronJob(w) \notin behind
      /\ (wfWork.key # w \/ wfWork.pc = "idle")
  BY SettledKey, KeysAreObjects
<1>2. Judged(w)
  BY <1>1 DEF Rest, WorkflowInv
<1> QED BY <1>1, <1>2 DEF Judged, Follows

LEMMA InvRuns ==
  ASSUME RunsInv
  PROVE  AnsweredRuns
<1> SUFFICES ASSUME NEW d \in Deliveries
             PROVE  /\ \A w \in Workflows : Cardinality(RunsFor(d, w)) <= 1
                    /\ Started(d) \subseteq http[d].matched
                    /\ http[d].pc = "answered" =>
                         /\ http[d].made <= Cardinality(Started(d))
                         /\ mishaps = 0 => Started(d) = http[d].matched
  BY DEF AnsweredRuns, Started
<1>1. DeliveryInv(d)
  BY DEF RunsInv
<1>2. ASSUME NEW w \in Workflows
      PROVE  Cardinality(RunsFor(d, w)) <= 1
  <2>1. CASE RunsFor(d, w) = {}
    BY <2>1, FS_EmptySet
  <2>2. CASE RunsFor(d, w) # {}
    <3>1. PICK i : i \in RunsFor(d, w)
      BY <2>2
    <3>2. RunsFor(d, w) = {i}
      BY <1>1, <3>1 DEF DeliveryInv
    <3>3. Cardinality({i}) = 1
      BY FS_Singleton
    <3> QED BY <3>2, <3>3
  <2> QED BY <2>1, <2>2
<1> QED BY <1>1, <1>2 DEF DeliveryInv

LEMMA InvPiAgent ==
  ASSUME Rest
  PROVE  PiAgentSettled
<1> SUFFICES ASSUME Settled(PiAgent, {}, piWork.pc = "idle")
             PROVE  /\ Gives(stored[PiAgent].spec, stored[PiAgent].verdict)
                    /\ unread <= 1 => stored[PiAgent].verdict[2] # "unread"
  BY DEF PiAgentSettled
<1>1. /\ seen[PiAgent] = stored[PiAgent] /\ seen[PiAgent] # Absent
      /\ PiAgent \notin queue /\ PiAgent \notin behind /\ piWork.pc = "idle"
  BY SettledKey, KeysAreObjects
<1>2. Gives(seen[PiAgent].spec, seen[PiAgent].verdict)
  BY <1>1 DEF Rest, VerdictInv
<1>3. unread <= 1 => ~IsUnread(seen[PiAgent])
  BY <1>1 DEF Rest, UnreadInv
<1> QED BY <1>1, <1>2, <1>3 DEF IsUnread

LEMMA InvChannel ==
  ASSUME Rest
  PROVE  ChannelSettled
<1> SUFFICES ASSUME Settled(Channel, {Deployment, Service, Ingress}, channelWork.pc = "idle")
             PROVE  LET spec == stored[Channel].spec IN
                    /\ Exists(Deployment) /\ Exists(Service)
                    /\ stored[Deployment].hash = spec.image
                    /\ stored[Service] = ServiceFor(spec)
                    /\ stored[Ingress] = IF spec.webhook = NoWebhook THEN Absent ELSE IngressFor(spec)
                    /\ stored[Channel].url = spec.webhook
                    /\ stored[Channel].phase = IF stored[Deployment].ready THEN "Ready" ELSE "Pending"
  BY DEF ChannelSettled
<1> DEFINE spec == stored[Channel].spec
<1>1. /\ seen[Channel] = stored[Channel] /\ seen[Channel] # Absent
      /\ Channel \notin queue /\ Channel \notin behind /\ channelWork.pc = "idle"
      /\ \A o \in {Deployment, Service, Ingress} : seen[o] = stored[o] /\ o \notin behind
  BY SettledKey, KeysAreObjects
<1>2. ChannelFits
  BY <1>1 DEF Rest, ChannelInv
<1>3. /\ seen[Deployment] # Absent /\ seen[Deployment].hash = spec.image
      /\ seen[Service] = ServiceFor(spec)
      /\ seen[Ingress] = IF spec.webhook = NoWebhook THEN Absent ELSE IngressFor(spec)
      /\ seen[Channel].url = spec.webhook
      /\ seen[Channel].phase = IF seen[Deployment].ready THEN "Ready" ELSE "Pending"
  BY <1>1, <1>2 DEF ChannelFits, DeploymentFits, ServiceFits, IngressFits
<1>4. ServiceFor(spec) # Absent
  <2>1. StoreInv
    BY DEF Rest
  <2>2. Channel \in setup.objects /\ setup \in Setups /\ stored[Channel] \in ChannelObject
    BY <1>1, <2>1, StoredTypes, KeysAreObjects DEF StoreInv
  <2>3. spec \in setup.specs
    BY <2>2 DEF ChannelObject
  <2>4. ServiceFor(spec) \in ServiceObject(setup.specs)
    <3> HIDE DEF spec
    <3> QED BY <2>3 DEF ServiceFor, ServiceObject
  <2> QED BY <2>2, <2>4, OwnedAssumption
<1> QED BY <1>1, <1>3, <1>4 DEF Exists

LEMMA IntakeInvariant == Spec => []IInv
<1>1. IInv /\ [Next]_vars => IInv'
  BY NextKeeps
<1> QED BY InitKeeps, <1>1, PTL DEF Spec

\* Objects, caches, work and runs are what they should be (all of Intake).
THEOREM IntakeTypes == Spec => []TypeOK
<1>1. IInv => TypeOK
  BY InvTypes DEF IInv, Rest
<1> QED BY <1>1, IntakeInvariant, PTL

\* No edit of a Workflow is lost, however its reconciles, the edits and what
\* the cache shows interleave (workflow_controller.go:48-125, 220-234).
THEOREM WorkflowsSettle == Spec => []WorkflowSettled
<1>1. IInv => WorkflowSettled
  BY InvWorkflows DEF IInv
<1> QED BY <1>1, IntakeInvariant, PTL

\* A delivery starts a Workflow at most once each time it is delivered, only
\* one that matched, and its answer counts runs there are (server.go:74-100).
THEOREM RunsAnswered == Spec => []AnsweredRuns
<1>1. IInv => AnsweredRuns
  BY InvRuns DEF IInv
<1> QED BY <1>1, IntakeInvariant, PTL

\* A PiAgent nobody has to reconcile has a verdict its present spec can get,
\* and one failed read is not the last word (piagent_controller.go:35-95, 217-250).
THEOREM PiAgentsSettle == Spec => []PiAgentSettled
<1>1. IInv => PiAgentSettled
  BY InvPiAgent DEF IInv
<1> QED BY <1>1, IntakeInvariant, PTL

\* What a Channel owns comes to be what its present spec asks for, whoever
\* changed it, and its status tells of its pods (channel_controller.go:36-90, 274-286).
THEOREM ChannelsSettle == Spec => []ChannelSettled
<1>1. IInv => ChannelSettled
  BY InvChannel DEF IInv
<1> QED BY <1>1, IntakeInvariant, PTL

\* No reconcile turns a Service away from the pods there are, although the
\* selector of a Deployment cannot follow a new type (channel_controller.go:57-67).
THEOREM ServicesFollowPods == Spec => ServiceFollowsPods
<1>1. IInv /\ [Next]_vars => [channelWork.pc = "service" /\ channelWork'.pc = "ingress"
                               /\ stored'[Service] # stored[Service] /\ Exists(Deployment)
                               => stored'[Service].selector = stored[Deployment].type]_vars
  BY NextKeeps DEF FollowsPods
<1> QED BY <1>1, IntakeInvariant, PTL DEF Spec, ServiceFollowsPods
=============================================================================
