----------------------------- MODULE ApiObjects -----------------------------
(***************************************************************************)
(* The objects that bring work in, at the API server and in the cache of   *)
(* the operator: Workflows with their CronJobs, a PiAgent with what it     *)
(* refers to, a Channel with what it owns, and the Agent they name.        *)
(***************************************************************************)
EXTENDS Naturals, FiniteSets

CONSTANTS
  Workflows,    \* names of Workflows
  Absent,       \* no object
  Setups        \* what may be deployed: the objects, what a user may write in
                \* them, the webhooks that may be sent, and a bound on the
                \* edits, failures, schedules due and restarts

Workflow(w) == <<"workflow", w>>
CronJob(w) == <<"cronjob", w>>
Agent == <<"agent">>
PiAgent == <<"piagent">>
ConfigMap == <<"configmap">>
Secret == <<"secret">>
Channel == <<"channel">>
Deployment == <<"deployment">>
Service == <<"service">>
Ingress == <<"ingress">>

Keys == {Workflow(w) : w \in Workflows} \union {PiAgent, Channel}

Objects ==
  Keys \union {CronJob(w) : w \in Workflows}
  \union {Agent, ConfigMap, Secret, Deployment, Service, Ingress}

ASSUME WorkflowsAssumption == Workflows # {} /\ IsFiniteSet(Workflows)

ASSUME SetupsAssumption ==
  \A s \in Setups : s.objects \subseteq Objects /\ s.mishaps \in Nat

VARIABLES
  setup,     \* the setup this behaviour is about
  stored,    \* the objects at the API server
  seen,      \* the objects in the cache
  behind,    \* the objects that have changed since the cache saw them
  queue,     \* the keys to be reconciled
  mishaps    \* how much has happened that nobody asked for

api == <<stored, behind>>

objectVars == <<setup, api, seen, queue, mishaps>>

\* The cache has the version of the API server.
Current(o) == o \notin behind

\* A new version of an object, in which only a time may differ.
Touch(o, v) == stored' = [stored EXCEPT ![o] = v] /\ behind' = behind \union {o}

\* An object that is written as it is keeps its version.
Write(o, v) == IF v = stored[o] THEN UNCHANGED api ELSE Touch(o, v)

Exists(o) == stored[o] # Absent

Known(o) == seen[o] # Absent

Mishap == mishaps < setup.mishaps /\ mishaps' = mishaps + 1

\* A new object: refused when it exists, whatever the cache says.
Create(o, v) == ~Exists(o) /\ Write(o, v)

\* A write of an object read from the cache: refused unless the cache is current.
Update(o, v) == Exists(o) /\ Current(o) /\ Write(o, v)

Refused(o) == ~(Exists(o) /\ Current(o)) /\ UNCHANGED api

\* Create what the cache does not show, else change it where it differs.
Apply(o, new, changed) ==
  \/ ~Known(o) /\ Create(o, new)
  \/ Known(o) /\ seen[o] # changed /\ Update(o, changed)
  \/ Known(o) /\ seen[o] = changed /\ UNCHANGED api

ApplyFails(o, changed) ==
  /\ \/ ~Known(o) /\ Exists(o)
     \/ Known(o) /\ seen[o] # changed /\ ~Current(o)
  /\ UNCHANGED api

\* Mutant: controllers that do not own what they create.
WakesUnowned(o) ==
  IF o = Agent THEN {k \in {Channel} : Known(k)} ELSE {o} \intersect Keys

\* Mutant: a watch that maps an object to itself, not to its owner.
WakesItself(o) == {k \in {o} : Known(k) \/ Exists(k)}

\* The controllers an object wakes: its own, its owner's, and for an Agent
\* the Channel that names it.
Wakes(o) ==
  CASE o[1] = "cronjob" -> {Workflow(o[2])}
    [] o \in {Deployment, Service, Ingress} -> {Channel}
    [] o = Agent -> {k \in {Channel} : Known(k)}
    [] OTHER -> {o} \intersect Keys

\* An informer catches up with an object.
Deliver(o) ==
  /\ o \in behind
  /\ behind' = behind \ {o}
  /\ seen' = [seen EXCEPT ![o] = stored[o]]
  /\ queue' = queue \union Wakes(o)
  /\ UNCHANGED <<setup, stored, mishaps>>

\* What a reconcile that ended leaves on the queue: its key when it failed.
Requeued(key, failed) == queue' = queue \union {k \in {key} : failed}

\* A user writes an object.
UserWrites(o, v) ==
  /\ o \in setup.objects /\ stored[o] # v
  /\ Mishap /\ Write(o, v)
  /\ UNCHANGED <<setup, seen, queue>>
=============================================================================
