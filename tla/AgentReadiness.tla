--------------------------- MODULE AgentReadiness ---------------------------
(***************************************************************************)
(* The Agent controller (agent_controller.go): an Agent waits for its      *)
(* capabilities and workspaces, then gets a ConfigMap and a Deployment     *)
(* made of them.                                                           *)
(***************************************************************************)
EXTENDS Capabilities

VARIABLES
  agentWork,   \* the reconcile under way
  leftOut      \* history: the capabilities whose content was not to be had when the
               \* ConfigMap, and when the Deployment, of an Agent was last made

agentVars == <<agentWork, leftOut>>

\* A condition of an Agent; the reasons name what is not ready.
Condition == [ready : {"unset", "true", "false"}, reasons : SUBSET (Caps \union Workspaces)]
Unset == [ready |-> "unset", reasons |-> {}]
True == [ready |-> "true", reasons |-> {}]
False(reasons) == [ready |-> "false", reasons |-> reasons]

AgentObject ==
  [phase : {"unset", "Pending", "Running"}, caps : Condition, workspaces : Condition]

\* What a ConfigMap and a Deployment are made of.
Content == SUBSET (Caps \X Specs)
DeploymentObject ==
  [content : Content, mounts : SUBSET Workspaces, ready : BOOLEAN]

NoAgentWork == [pc |-> "idle", key |-> Absent]

AgentTypeOK ==
  /\ agentWork \in [pc : {"idle", "workspaces", "config", "deploy", "status"},
                    key : Agents \union {Absent}]
  /\ leftOut \in [Agents -> [config : SUBSET (Pulled \union Referred),
                            deploy : SUBSET (Pulled \union Referred)]]
  /\ \A a \in Agents :
       /\ {stored[Agent(a)], seen[Agent(a)]} \subseteq AgentObject \union {Absent}
       /\ {stored[ConfigMap(a)], seen[ConfigMap(a)]} \subseteq Content \union {Absent}
       /\ {stored[Deployment(a)], seen[Deployment(a)]} \subseteq DeploymentObject \union {Absent}

\* A GitWorkspace, and one as EnsureGitWorkspace creates it.
WorkspaceObject == [phase : {"unset", "Pending", "Cloning", "Ready", "Error"}]
NewWorkspace == [phase |-> "unset"]

NewAgent == [phase |-> "unset", caps |-> Unset, workspaces |-> Unset]

-----------------------------------------------------------------------------
Self == agentWork.key
AgentAt(pc) == agentWork.pc = pc
AgentGoto(pc) == agentWork' = [agentWork EXCEPT !.pc = pc]

\* Reconcile returns an error and is called again.
AgentRetries == agentWork' = NoAgentWork /\ queue' = queue \union {Agent(Self)}

PhaseOf(o) == IF seen[o] = Absent THEN "absent" ELSE seen[o].phase

\* checkCapabilityReadiness.
UnreadyCaps(a) == {c \in refs[a].caps : PhaseOf(Capability(c)) # "Ready"}

\* Mutant: a clone under way is good enough.
UnreadyUnlessCloning(a) ==
  {w \in refs[a].workspaces : PhaseOf(Workspace(w)) \notin {"Ready", "Cloning"}}

\* checkWorkspaceReadiness.
UnreadyWorkspaces(a) == {w \in refs[a].workspaces : PhaseOf(Workspace(w)) # "Ready"}

\* The workspaces EnsureGitWorkspace creates: not in the cache, and their
\* GitRepo is.
Missing(a) ==
  {w \in refs[a].workspaces : seen[Workspace(w)] = Absent /\ seen[GitRepo] # Absent}

\* updateStatusWaiting, updateStatusWaitingWorkspaces and updateStatus read the
\* status again and write it if it changes.
WaitingForCaps(a) ==
  [seen[Agent(a)] EXCEPT !.phase = "Pending", !.caps = False(UnreadyCaps(a))]

WaitingForWorkspaces(a) ==
  [seen[Agent(a)] EXCEPT !.phase = "Pending", !.workspaces = False(UnreadyWorkspaces(a))]

Running(a) ==
  LET dep == seen[Deployment(a)] IN
  [seen[Agent(a)] EXCEPT !.phase = IF dep # Absent /\ dep.ready THEN "Running" ELSE "Pending",
                         !.caps = True]

\* The reconcile ends with a status; a refused write makes it begin again.
EndWithStatus(a, status, left) ==
  LET old == seen[Agent(a)]
      same == old # Absent /\ status = old
  IN
  /\ agentWork' = NoAgentWork
  /\ \/ same /\ queue' = left /\ UNCHANGED api
     \/ /\ ~same /\ old # Absent
        /\ Update(Agent(a), status)
        /\ queue' = left
     \/ /\ ~same
        /\ old = Absent \/ ~Current(Agent(a))
        /\ queue' = left \union {Agent(a)}
        /\ UNCHANGED api

\* Reconcile up to its first write: the capabilities and workspaces are looked
\* up in the cache.
BeginAgent(a) ==
  /\ AgentAt("idle") /\ Agent(a) \in queue
  /\ LET left == queue \ {Agent(a)} IN
     \/ /\ seen[Agent(a)] = Absent
        /\ queue' = left
        /\ UNCHANGED <<api, agentWork>>
     \/ /\ seen[Agent(a)] # Absent /\ UnreadyCaps(a) # {}
        /\ EndWithStatus(a, WaitingForCaps(a), left)
     \/ /\ seen[Agent(a)] # Absent /\ UnreadyCaps(a) = {}
        /\ Missing(a) = {} /\ UnreadyWorkspaces(a) # {}
        /\ EndWithStatus(a, WaitingForWorkspaces(a), left)
     \* What exists already, but is not in the cache yet, is left alone.
     \/ /\ seen[Agent(a)] # Absent /\ UnreadyCaps(a) = {} /\ Missing(a) # {}
        /\ Become([o \in Objects |->
              IF stored[o] = Absent /\ o \in {Workspace(w) : w \in Missing(a)}
              THEN NewWorkspace ELSE stored[o]])
        /\ agentWork' = [pc |-> "workspaces", key |-> a]
        /\ queue' = left
     \/ /\ seen[Agent(a)] # Absent /\ UnreadyCaps(a) = {} /\ UnreadyWorkspaces(a) = {}
        /\ agentWork' = [pc |-> "config", key |-> a]
        /\ queue' = left
        /\ UNCHANGED api
  /\ UNCHANGED <<refs, seen, timers, mishaps, leftOut>>

\* The workspaces that were just created are looked up in the same cache.
CheckWorkspaces ==
  /\ AgentAt("workspaces")
  /\ \/ UnreadyWorkspaces(Self) # {} /\ EndWithStatus(Self, WaitingForWorkspaces(Self), queue)
     \/ UnreadyWorkspaces(Self) = {} /\ AgentGoto("config") /\ UNCHANGED <<api, queue>>
  /\ UNCHANGED <<refs, seen, timers, mishaps, leftOut>>

\* The capabilities resolveCapabilities makes content of: it reads them again,
\* and leaves out those that are not ready (any more).
Usable(a) == {c \in refs[a].caps : PhaseOf(Capability(c)) = "Ready"}

\* Those whose ConfigMap is not in the cache, and those that must be pulled: of
\* two references the ConfigMap comes first.
Unreadable(a) == {c \in Usable(a) \intersect Referred : seen[Source(c)] = Absent}
ToPull(a) == Usable(a) \intersect (Pulled \ (Referred \ Unreadable(a)))

\* What cannot be read or pulled is left out without an error.
Resolve(out) ==
  \E failed \in SUBSET ToPull(Self) :
    /\ out = (Unreadable(Self) \ Pulled) \union failed
    /\ IF failed = {} THEN UNCHANGED mishaps ELSE Mishap

ContentWithout(a, out) == {<<c, seen[Capability(c)].spec>> : c \in Usable(a) \ out}

\* Create or update of an object made from the cache; nothing if it is as
\* desired; an error if the cache is behind.
Apply(o, desired, same, next) ==
  \/ same /\ AgentGoto(next) /\ UNCHANGED <<api, queue>>
  \/ ~same /\ Update(o, desired) /\ AgentGoto(next) /\ UNCHANGED queue
  \/ ~same /\ ~Current(o) /\ AgentRetries /\ UNCHANGED api

\* Mutant: made once, as a volume is.
CreateConfigMapOnly(out) ==
  LET content == ContentWithout(Self, out) IN
  /\ AgentAt("config")
  /\ Resolve(out)
  /\ Apply(ConfigMap(Self), content, seen[ConfigMap(Self)] # Absent, "deploy")
  /\ leftOut' = [leftOut EXCEPT ![Self].config = out]
  /\ UNCHANGED <<refs, seen, timers>>

ReconcileConfigMap(out) ==
  LET content == ContentWithout(Self, out) IN
  /\ AgentAt("config")
  /\ Resolve(out)
  /\ Apply(ConfigMap(Self), content, seen[ConfigMap(Self)] = content, "deploy")
  /\ leftOut' = [leftOut EXCEPT ![Self].config = out]
  /\ UNCHANGED <<refs, seen, timers>>

\* resolveGitWorkspaces mounts the workspaces it still finds.
Mounts(a) == {w \in refs[a].workspaces : seen[Workspace(w)] # Absent}

\* The capabilities are resolved again, for the hash of what the ConfigMap
\* should be.  The rollout keeps the replicas of an updated Deployment.
ReconcileDeployment(out) ==
  LET o == Deployment(Self)
      ready == seen[o] # Absent /\ seen[o].ready
      desired == [content |-> ContentWithout(Self, out), mounts |-> Mounts(Self), ready |-> ready]
  IN /\ AgentAt("deploy")
     /\ Resolve(out)
     /\ Apply(o, desired, seen[o] = desired, "status")
     /\ leftOut' = [leftOut EXCEPT ![Self].deploy = out]
     /\ UNCHANGED <<refs, seen, timers>>

\* The Service and the NetworkPolicy, and whatever else may fail on the way.
AgentFails ==
  /\ ~AgentAt("idle")
  /\ Mishap
  /\ AgentRetries
  /\ UNCHANGED <<refs, api, seen, timers, leftOut>>

\* updateStatus.
WriteRunning ==
  /\ AgentAt("status")
  /\ EndWithStatus(Self, Running(Self), queue)
  /\ UNCHANGED <<refs, seen, timers, mishaps, leftOut>>

ReconcileAgent ==
  \/ \E a \in Agents : BeginAgent(a)
  \/ CheckWorkspaces
  \/ \E out \in SUBSET Caps : ReconcileConfigMap(out) \/ ReconcileDeployment(out)
  \/ WriteRunning

-----------------------------------------------------------------------------
CreateAgent(a) ==
  /\ refs[a].agent /\ stored[Agent(a)] = Absent
  /\ Write(Agent(a), NewAgent)
  /\ UNCHANGED <<refs, seen, queue, timers, mishaps, agentVars>>

PodsComeUp(a) ==
  /\ stored[Deployment(a)] # Absent /\ ~stored[Deployment(a)].ready
  /\ Write(Deployment(a), [stored[Deployment(a)] EXCEPT !.ready = TRUE])
  /\ UNCHANGED <<refs, seen, queue, timers, mishaps, agentVars>>

PodsGoDown(a) ==
  /\ stored[Deployment(a)] # Absent /\ stored[Deployment(a)].ready
  /\ Mishap
  /\ Write(Deployment(a), [stored[Deployment(a)] EXCEPT !.ready = FALSE])
  /\ UNCHANGED <<refs, seen, queue, timers, agentVars>>
=============================================================================
