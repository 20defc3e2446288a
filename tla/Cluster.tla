------------------------------ MODULE Cluster ------------------------------
(***************************************************************************)
(* The API server as the controllers see it: objects that are written      *)
(* directly and read from an informer cache, whose deliveries put the keys *)
(* of the watching controllers on their work queues.                       *)
(***************************************************************************)
EXTENDS Naturals, FiniteSets

CONSTANTS
  Agents, Caps, Workspaces,   \* names of Agents, Capabilities, GitWorkspaces
  Repo,                       \* the name of the one GitRepo
  Absent,                     \* no object
  Setups                      \* what may be deployed: the references of an Agent,
                              \* whether there is one at all, and a bound on the
                              \* edits by users, failures and restarts

ASSUME ClusterAssumption ==
  /\ IsFiniteSet(Agents)
  /\ Setups \subseteq [caps : SUBSET Caps, workspaces : SUBSET Workspaces,
                       agent : BOOLEAN, mishaps : Nat]

Capability(c) == <<"capability", c>>
Server(c) == <<"server", c>>           \* Deployment of an MCP server
Source(c) == <<"source", c>>           \* ConfigMap of a user with the content of a capability
Agent(a) == <<"agent", a>>
ConfigMap(a) == <<"configmap", a>>
Deployment(a) == <<"deployment", a>>   \* Deployment of an Agent
GitRepo == <<"gitrepo", Repo>>
Workspace(w) == <<"workspace", w>>
Clone(w) == <<"clone", w>>             \* Deployment of a GitWorkspace

Keys ==
  {Capability(c) : c \in Caps} \union {Agent(a) : a \in Agents}
  \union {Workspace(w) : w \in Workspaces} \union {GitRepo}

Objects ==
  Keys \union {Server(c) : c \in Caps} \union {Source(c) : c \in Caps}
  \union {ConfigMap(a) : a \in Agents} \union {Deployment(a) : a \in Agents}
  \union {Clone(w) : w \in Workspaces}

VARIABLES
  refs,      \* the setup of each Agent
  stored,    \* the objects at the API server
  seen,      \* the objects in the cache
  behind,    \* the objects that have changed since the cache saw them
  queue,     \* the keys to be reconciled
  timers,    \* keys to be put on the queue after a while (RequeueAfter)
  mishaps    \* how much has gone wrong

api == <<stored, behind>>

clusterVars == <<refs, api, seen, queue, timers, mishaps>>

\* The cache has the version of the API server.
Current(o) == o \notin behind

Become(objects) ==
  /\ stored' = objects
  /\ behind' = behind \union {o \in Objects : objects[o] # stored[o]}

Write(o, v) == Become([stored EXCEPT ![o] = v])

\* A new version of an object in which only a time may differ.
Touch(o, v) == stored' = [stored EXCEPT ![o] = v] /\ behind' = behind \union {o}

\* A write of an object read from the cache: refused unless the cache is current.
Update(o, v) == Current(o) /\ Write(o, v)

Mishap == (\A a \in Agents : mishaps < refs[a].mishaps) /\ mishaps' = mishaps + 1

CapUsers(c) == {a \in Agents : seen[Agent(a)] # Absent /\ c \in refs[a].caps}

Consumers(w) == {a \in Agents : seen[Agent(a)] # Absent /\ w \in refs[a].workspaces}

\* The workspaces of an Agent, and those of the GitRepo.
WorkspacesOf(a) == {Workspace(w) : w \in refs[a].workspaces}

AllWorkspaces == {Workspace(w) : w \in {v \in Workspaces : seen[Workspace(v)] # Absent}}

\* The keys an object puts on the queues by For: its own.
Itself(o) == {o} \intersect Keys

\* Mutants: a controller without Owns; the Agent controller without its watch
\* on Capabilities.
NoOwner(o) == {}
NoCapabilityWatch(o) ==
  CASE o[1] = "agent" -> WorkspacesOf(o[2])
    [] o[1] = "gitrepo" -> AllWorkspaces
    [] o[1] = "workspace" -> {GitRepo} \union {Agent(a) : a \in Consumers(o[2])}
    [] OTHER -> {}

\* By Owns: that of its controller.
Owner(o) ==
  CASE o[1] = "server" -> {Capability(o[2])}
    [] o[1] \in {"configmap", "deployment"} -> {Agent(o[2])}
    [] o[1] = "clone" -> {Workspace(o[2])}
    [] OTHER -> {}

\* By Watches: those of the objects that refer to it, and back.
Watchers(o) ==
  CASE o[1] = "capability" -> {Agent(a) : a \in CapUsers(o[2])}
    [] o[1] = "agent" -> WorkspacesOf(o[2])
    [] o[1] = "gitrepo" -> AllWorkspaces
    [] o[1] = "workspace" -> {GitRepo} \union {Agent(a) : a \in Consumers(o[2])}
    [] OTHER -> {}

\* An informer catches up with an object.
Deliver(o) ==
  /\ o \in behind
  /\ seen' = [seen EXCEPT ![o] = stored[o]]
  /\ behind' = behind \ {o}
  /\ queue' = queue \union Itself(o) \union Owner(o) \union Watchers(o)
  /\ UNCHANGED <<refs, stored, timers, mishaps>>

TimerFires(o) ==
  /\ o \in timers
  /\ timers' = timers \ {o}
  /\ queue' = queue \union {o}
  /\ UNCHANGED <<refs, api, seen, mishaps>>
=============================================================================
