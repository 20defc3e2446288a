----------------------------- MODULE Readiness -----------------------------
(***************************************************************************)
(* The controllers that make an Agent ready, together: Capabilities,       *)
(* GitRepos, GitWorkspaces and Agents, each with one worker and the watches *)
(* that wake it, in one process that may restart.                          *)
(***************************************************************************)
EXTENDS GitSync

\* "Absent" is none of the names and objects.
ASSUME AbsentAssumption ==
  /\ Absent \notin Agents /\ Absent \notin Caps /\ Absent \notin Workspaces
  /\ Absent \notin CapObject /\ Absent \notin ServerObject /\ Absent \notin SourceObject
  /\ Absent \notin AgentObject /\ Absent \notin DeploymentObject
  /\ Absent \notin RepoObject /\ Absent \notin WorkspaceObject
  /\ Absent \notin CloneObject

vars == <<clusterVars, capWork, agentVars, gitVars>>

TypeOK ==
  /\ refs \in [Agents -> Setups]
  /\ behind \subseteq Objects /\ queue \subseteq Keys /\ timers \subseteq Keys
  /\ mishaps \in Nat /\ \A a \in Agents : mishaps <= refs[a].mishaps
  /\ CapTypeOK /\ AgentTypeOK /\ GitTypeOK

Exists(o) == stored[o] # Absent

\* What users create.
UserObjects ==
  {Capability(c) : c \in Caps} \union {Source(c) : c \in Referred}
  \union {Agent(a) : a \in Agents} \union {GitRepo}

InUse(o) ==
  \E a \in Agents :
    CASE o[1] \in {"capability", "source"} -> o[2] \in refs[a].caps
      [] o[1] = "gitrepo" -> refs[a].workspaces # {}
      [] OTHER -> o[2] = a /\ refs[a].agent

\* The operator is started when some of its objects exist already.
Init ==
  /\ refs \in [Agents -> Setups]
  /\ \E created \in SUBSET {o \in UserObjects : InUse(o)}, s \in Specs :
       stored = [o \in Objects |->
         IF o \notin created THEN Absent
         ELSE CASE o[1] = "capability" -> NewCap(s)
                [] o[1] = "source" -> "readable"
                [] o[1] = "agent" -> NewAgent
                [] OTHER -> NewRepo(TRUE)]
  /\ seen = [o \in Objects |-> Absent]
  /\ behind = {o \in Objects : Exists(o)}
  /\ queue = {} /\ timers = {} /\ mishaps = 0
  /\ capWork = NoCapWork
  /\ agentWork = NoAgentWork
  /\ leftOut = [a \in Agents |-> [config |-> {}, deploy |-> {}]]
  /\ repoWork = NoRepoWork /\ workspaceWork = NoWorkspaceWork /\ cloned = {}

\* The workers stop, the caches are filled again and every key is queued.
Restart ==
  /\ Mishap
  /\ seen' = stored /\ behind' = {}
  /\ queue' = {o \in Keys : Exists(o)}
  /\ timers' = {}
  /\ capWork' = NoCapWork /\ agentWork' = NoAgentWork
  /\ repoWork' = NoRepoWork /\ workspaceWork' = NoWorkspaceWork
  /\ UNCHANGED <<refs, stored, leftOut, cloned>>

Informers ==
  /\ \E o \in Objects : Deliver(o)
  /\ UNCHANGED <<capWork, agentVars, gitVars>>

Timer(o) == TimerFires(o) /\ UNCHANGED <<capWork, agentVars, gitVars>>

CapWorker == (ReconcileCap \/ ServerFails) /\ UNCHANGED <<agentVars, gitVars>>

AgentWorker ==
  (ReconcileAgent \/ AgentFails) /\ UNCHANGED <<capWork, gitVars>>

RepoWorker ==
  (ReconcileRepo \/ DiscoverOthers \/ DiscoverFails) /\ UNCHANGED <<capWork, agentVars>>

WorkspaceWorker == ReconcileWorkspace /\ UNCHANGED <<capWork, agentVars>>

Users ==
  \/ /\ \E a \in Agents : CreateAgent(a)
     /\ UNCHANGED <<capWork, gitVars>>
  \/ /\ \E c \in Caps : InUse(Capability(c)) /\ (EditCap(c) \/ CreateSource(c) \/ DeleteSource(c))
     /\ UNCHANGED <<agentVars, gitVars>>
  \/ /\ \/ InUse(GitRepo) /\ (CreateRepo \/ EditRepo)
        \/ \E w \in Workspaces : CreateWorkspace(w) \/ DeleteWorkspace(w)
     /\ UNCHANGED <<capWork, agentVars>>

Pods ==
  \/ /\ \E c \in Caps : ServerComesUp(c) \/ ServerGoesDown(c)
     /\ UNCHANGED <<agentVars, gitVars>>
  \/ /\ \E a \in Agents : PodsComeUp(a) \/ PodsGoDown(a)
     /\ UNCHANGED <<capWork, gitVars>>
  \/ /\ \E w \in Workspaces : CloneAdvances(w) \/ CloneFails(w)
     /\ UNCHANGED <<capWork, agentVars>>

Next ==
  \/ Informers \/ \E o \in Keys : Timer(o)
  \/ CapWorker \/ AgentWorker \/ RepoWorker \/ WorkspaceWorker
  \/ Users \/ Pods \/ Restart

Spec == Init /\ [][Next]_vars

-----------------------------------------------------------------------------
(***************************************************************************)
(* Fairness: informers deliver and workers work.  Nothing is assumed of    *)
(* users, pods, failures, restarts and timers.                             *)
(***************************************************************************)
Fairness ==
  /\ \A o \in Objects : WF_vars(Deliver(o) /\ UNCHANGED <<capWork, agentVars, gitVars>>)
  /\ WF_vars(ReconcileCap /\ UNCHANGED <<agentVars, gitVars>>)
  /\ WF_vars(ReconcileAgent /\ UNCHANGED <<capWork, gitVars>>)
  /\ WF_vars(ReconcileRepo /\ UNCHANGED <<capWork, agentVars>>)
  /\ WF_vars(WorkspaceWorker)

FairSpec == Spec /\ Fairness

-----------------------------------------------------------------------------
\* A worker has nothing to do for a key, and all it looks at has been delivered.
Settled(key, looksAt, work) ==
  key \notin queue /\ work /\ \A o \in looksAt \union {key} : Current(o)

IsServed(c) == c \in Servers =>
  /\ Exists(Server(c)) /\ stored[Server(c)].available

\* No wake-up is lost: a capability nobody has queued has the phase its spec
\* and its server give it (capability_controller.go:40-97, 525-563).
CapabilitySettled ==
  \A c \in Caps :
    LET cap == stored[Capability(c)] IN
    cap # Absent /\ Settled(Capability(c), {Server(c)}, capWork.key # c) =>
      /\ (cap.phase = "Ready") = (cap.spec \in Valid /\ IsServed(c))
      /\ (cap.phase = "Failed") = (cap.spec \notin Valid)

AgentLooksAt(a) ==
  {Capability(c) : c \in refs[a].caps} \union {Workspace(w) : w \in refs[a].workspaces}
  \union {ConfigMap(a), Deployment(a), GitRepo}

AllReady(a) == UnreadyCaps(a) = {} /\ UnreadyWorkspaces(a) = {}

\* Nor one of an Agent: it is Pending as long as something is not ready; then
\* its ConfigMap, and the Deployment that restarts with it, have the content of
\* all its capabilities, each but for what was not to be had when it was last
\* made (agent_controller.go:44-123, 246, 269, 917-941).
AgentSettled ==
  \A a \in Agents :
    LET agent == stored[Agent(a)]
        dep == stored[Deployment(a)]
    IN agent # Absent /\ Settled(Agent(a), AgentLooksAt(a), agentWork.key # a) =>
         IF AllReady(a)
         THEN /\ stored[ConfigMap(a)] = ContentWithout(a, leftOut[a].config)
              /\ dep # Absent /\ dep.mounts = refs[a].workspaces
              /\ dep.content = ContentWithout(a, leftOut[a].deploy)
              /\ (agent.phase = "Running") = dep.ready
         ELSE agent.phase = "Pending"

\* An Agent's Deployment mounts a workspace only when its clone has been
\* finished (agent_controller.go:72-82).
MountsClonedOnly ==
  [][\A a \in Agents : Exists(Deployment(a))' =>
       stored'[Deployment(a)].mounts \subseteq
         (IF Exists(Deployment(a)) THEN stored[Deployment(a)].mounts ELSE {}) \union cloned]_vars

\* A workspace is not forgotten: one that exists is due to be reconciled, at
\* once or after a while, so that no error lasts for ever
\* (gitworkspace_controller.go:525-531, 800-803).
WorkspaceIsDue ==
  \A w \in Workspaces :
    LET o == Workspace(w) IN
    Exists(o) /\ Current(o) /\ workspaceWork.key # w => o \in queue \union timers

\* A capability's users are written in another order.
Reordered(c) ==
  LET o == Capability(c) IN
  /\ Exists(o) /\ Exists(o)' /\ ToSet(stored[o].usedBy) = ToSet(stored'[o].usedBy)
  /\ stored[o].usedBy # stored'[o].usedBy
  /\ stored' = [stored EXCEPT ![o].usedBy = stored'[o].usedBy]

Reorders == \E c \in Caps : Reordered(c)

\* The controllers do not wake each other for ever: once users, pods and
\* failures leave them alone, the queues run empty; or what keeps them awake is
\* nothing but lists of users, written again and again in another order (the
\* Watches of capability_controller.go and agent_controller.go, and their
\* comparisons before a status is written).
Settles ==
  \/ <>[](queue = {} /\ \A o \in Objects : Current(o))
  \/ []<><<Reorders>>_vars /\ <>[][stored' = stored \/ Reorders]_vars

\* "Requeue on syncInterval for periodic re-resolution"
\* (gitworkspace_controller.go:38): repositories are not discovered for ever
\* unless the timer fires for ever.
DiscoversOnTimer ==
  []<><<Discover>>_vars => []<><<Timer(GitRepo)>>_vars
=============================================================================
