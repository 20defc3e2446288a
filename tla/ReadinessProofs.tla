-------------------------- MODULE ReadinessProofs --------------------------
(* Theorems about Readiness, for every set of Agents, capabilities and     *)
(* workspaces: no wake-up is lost, and nothing is mounted that was never   *)
(* cloned.                                                                 *)
EXTENDS Readiness, TLAPS, FiniteSetTheorems

-----------------------------------------------------------------------------
(* What is true of every state.                                            *)

\* What an object may be, by its kind.
ObjectsOf(o) ==
  {Absent} \union
    CASE o[1] = "capability" -> CapObject
      [] o[1] = "server" -> ServerObject
      [] o[1] = "source" -> SourceObject
      [] o[1] = "agent" -> AgentObject
      [] o[1] = "configmap" -> Content
      [] o[1] = "deployment" -> DeploymentObject
      [] o[1] = "gitrepo" -> RepoObject
      [] o[1] = "workspace" -> WorkspaceObject
      [] OTHER -> CloneObject

StoreInv ==
  /\ stored = [o \in Objects |-> stored[o]] /\ seen = [o \in Objects |-> seen[o]]
  /\ \A o \in Objects : stored[o] \in ObjectsOf(o) /\ seen[o] \in ObjectsOf(o)
  /\ refs \in [Agents -> Setups]
  /\ behind \subseteq Objects /\ queue \subseteq Keys /\ timers \subseteq Keys
  /\ mishaps \in Nat /\ \A a \in Agents : mishaps <= refs[a].mishaps

\* A reconcile under way is that of a key, and knows what it began with.
CapWorkInv ==
  /\ capWork \in [pc : {"idle", "server", "Ready", "Pending", "Failed"},
                  key : Caps \union {Absent}, spec : Specs \union {Absent}, retry : BOOLEAN]
  /\ IF capWork.pc = "idle" THEN capWork.key = Absent
     ELSE capWork.key \in Caps /\ capWork.spec \in Specs

LeftOuts ==
  [Agents -> [config : SUBSET (Pulled \union Referred), deploy : SUBSET (Pulled \union Referred)]]

AgentWorkInv ==
  /\ agentWork \in [pc : {"idle", "workspaces", "config", "deploy", "status"},
                    key : Agents \union {Absent}]
  /\ agentWork.pc = "idle" <=> agentWork.key = Absent
  /\ leftOut \in LeftOuts

RepoWorkInv ==
  /\ repoWork \in [pc : {"idle", "discover"}, base : RepoObject \union {Absent},
                   outdated : BOOLEAN]
  /\ repoWork.pc = "discover" => repoWork.base \in RepoObject

WorkspaceWorkInv ==
  /\ workspaceWork \in [pc : {"idle", "status"}, key : Workspaces \union {Absent}]
  /\ workspaceWork.pc = "idle" <=> workspaceWork.key = Absent
  /\ cloned \subseteq Workspaces

WorkInv == CapWorkInv /\ AgentWorkInv /\ RepoWorkInv /\ WorkspaceWorkInv

\* The cache has what the API server has, but for what is behind.
CacheInv == \A o \in Objects : o \notin behind => seen[o] = stored[o]

\* A workspace in the cache is due.
DueInv ==
  \A w \in Workspaces :
    seen[Workspace(w)] # Absent /\ workspaceWork.key # w =>
      Workspace(w) \in queue \union timers

\* What looks cloned was.
LooksCloned(objects, w) ==
  \/ objects[Clone(w)] = "available"
  \/ objects[Workspace(w)] # Absent /\ objects[Workspace(w)].phase = "Ready"

ClonedInv ==
  /\ \A w \in Workspaces : LooksCloned(stored, w) \/ LooksCloned(seen, w) => w \in cloned
  /\ agentWork.pc \in {"config", "deploy", "status"} =>
       refs[agentWork.key].workspaces \subseteq cloned

\* The phase fits the capability and its server in the cache.
CapFits(c, phase) ==
  LET spec == seen[Capability(c)].spec IN
  /\ (phase = "Ready") = (spec \in Valid /\
       (c \in Servers => seen[Server(c)] # Absent /\ seen[Server(c)].available))
  /\ (phase = "Failed") = (spec \notin Valid)

\* A capability nobody has queued has a phase that fits; a reconcile of it
\* that nothing has overtaken is about to give it one.
CapInv ==
  \A c \in Caps :
    seen[Capability(c)] # Absent /\ Capability(c) \notin queue =>
      IF capWork.key = c
      THEN /\ capWork.spec = seen[Capability(c)].spec
           /\ capWork.pc = "server" => c \in Servers /\ capWork.spec \in Valid
           /\ capWork.pc # "server" /\ ~capWork.retry => CapFits(c, capWork.pc)
      ELSE Capability(c) \notin behind => CapFits(c, seen[Capability(c)].phase)

\* The ConfigMap and the Deployment in the cache are the ones the Agent needs.
Configured(a) ==
  ConfigMap(a) \notin behind =>
    seen[ConfigMap(a)] = ContentWithout(a, leftOut[a].config)

Deployed(a) ==
  LET dep == seen[Deployment(a)] IN
  Deployment(a) \notin behind =>
    /\ dep # Absent /\ dep.mounts = refs[a].workspaces
    /\ dep.content = ContentWithout(a, leftOut[a].deploy)

\* What the reconcile under way has made.
MadeSoFar(a) ==
  /\ agentWork.pc \in {"deploy", "status"} => Configured(a)
  /\ agentWork.pc = "status" => Deployed(a)

AgentFits(a) ==
  IF AllReady(a)
  THEN /\ Configured(a) /\ Deployed(a)
       /\ Deployment(a) \notin behind =>
            (seen[Agent(a)].phase = "Running") = seen[Deployment(a)].ready
  ELSE seen[Agent(a)].phase = "Pending"

\* The same for an Agent.
AgentInv ==
  \A a \in Agents :
    seen[Agent(a)] # Absent /\ Agent(a) \notin queue =>
      IF agentWork.key = a
      THEN /\ UnreadyCaps(a) = {}
           /\ agentWork.pc # "workspaces" => UnreadyWorkspaces(a) = {}
           /\ MadeSoFar(a)
      ELSE Agent(a) \notin behind => AgentFits(a)

IInv == StoreInv /\ WorkInv /\ CacheInv /\ DueInv /\ ClonedInv /\ CapInv /\ AgentInv

-----------------------------------------------------------------------------
(* Objects, their kinds and their types.                                   *)

LEMMA Kinds ==
  /\ \A c : /\ Capability(c)[1] = "capability" /\ Capability(c)[2] = c
            /\ Server(c)[1] = "server" /\ Server(c)[2] = c
            /\ Source(c)[1] = "source" /\ Source(c)[2] = c
  /\ \A a : /\ Agent(a)[1] = "agent" /\ Agent(a)[2] = a
            /\ ConfigMap(a)[1] = "configmap" /\ ConfigMap(a)[2] = a
            /\ Deployment(a)[1] = "deployment" /\ Deployment(a)[2] = a
  /\ GitRepo[1] = "gitrepo"
  /\ \A w : /\ Workspace(w)[1] = "workspace" /\ Workspace(w)[2] = w
            /\ Clone(w)[1] = "clone" /\ Clone(w)[2] = w
BY DEF Capability, Server, Source, Agent, ConfigMap, Deployment, GitRepo, Workspace, Clone

LEMMA KeysAreObjects ==
  /\ Keys \subseteq Objects
  /\ GitRepo \in Keys
  /\ \A c \in Caps : /\ Capability(c) \in Keys
                     /\ Server(c) \in Objects /\ Source(c) \in Objects
  /\ \A a \in Agents : /\ Agent(a) \in Keys /\ ConfigMap(a) \in Objects
                       /\ Deployment(a) \in Objects
  /\ \A w \in Workspaces : Workspace(w) \in Keys /\ Clone(w) \in Objects
BY DEF Keys, Objects

\* The object of each kind.
LEMMA ObjectKinds ==
  ASSUME NEW o \in Objects
  PROVE  \/ o[1] = "capability" /\ o[2] \in Caps /\ o = Capability(o[2])
         \/ o[1] = "server" /\ o[2] \in Caps /\ o = Server(o[2])
         \/ o[1] = "source" /\ o[2] \in Caps /\ o = Source(o[2])
         \/ o[1] = "agent" /\ o[2] \in Agents /\ o = Agent(o[2])
         \/ o[1] = "configmap" /\ o[2] \in Agents /\ o = ConfigMap(o[2])
         \/ o[1] = "deployment" /\ o[2] \in Agents /\ o = Deployment(o[2])
         \/ o[1] = "gitrepo" /\ o = GitRepo
         \/ o[1] = "workspace" /\ o[2] \in Workspaces /\ o = Workspace(o[2])
         \/ o[1] = "clone" /\ o[2] \in Workspaces /\ o = Clone(o[2])
BY Kinds DEF Objects, Keys

LEMMA KindTypes ==
  /\ \A c : /\ ObjectsOf(Capability(c)) = {Absent} \union CapObject
            /\ ObjectsOf(Server(c)) = {Absent} \union ServerObject
            /\ ObjectsOf(Source(c)) = {Absent} \union SourceObject
  /\ \A a : /\ ObjectsOf(Agent(a)) = {Absent} \union AgentObject
            /\ ObjectsOf(ConfigMap(a)) = {Absent} \union Content
            /\ ObjectsOf(Deployment(a)) = {Absent} \union DeploymentObject
  /\ ObjectsOf(GitRepo) = {Absent} \union RepoObject
  /\ \A w : /\ ObjectsOf(Workspace(w)) = {Absent} \union WorkspaceObject
            /\ ObjectsOf(Clone(w)) = {Absent} \union CloneObject
  /\ \A o : Absent \in ObjectsOf(o)
<1>1. \A c : ObjectsOf(Capability(c)) = {Absent} \union CapObject
  BY Kinds DEF ObjectsOf
<1>2. \A c : ObjectsOf(Server(c)) = {Absent} \union ServerObject
  BY Kinds DEF ObjectsOf
<1>3. \A a : ObjectsOf(Agent(a)) = {Absent} \union AgentObject
  BY Kinds DEF ObjectsOf
<1>4. \A a : ObjectsOf(ConfigMap(a)) = {Absent} \union Content
  BY Kinds DEF ObjectsOf
<1>5. \A a : ObjectsOf(Deployment(a)) = {Absent} \union DeploymentObject
  BY Kinds DEF ObjectsOf
<1>6. ObjectsOf(GitRepo) = {Absent} \union RepoObject
  BY Kinds DEF ObjectsOf
<1>7. \A w : ObjectsOf(Workspace(w)) = {Absent} \union WorkspaceObject
  BY Kinds DEF ObjectsOf
<1>8. \A w : ObjectsOf(Clone(w)) = {Absent} \union CloneObject
  BY Kinds DEF ObjectsOf
<1>9. \A o : Absent \in ObjectsOf(o)
  BY DEF ObjectsOf
<1>10. \A c : ObjectsOf(Source(c)) = {Absent} \union SourceObject
  BY Kinds DEF ObjectsOf
<1> QED BY <1>1, <1>2, <1>3, <1>4, <1>5, <1>6, <1>7, <1>8, <1>9, <1>10

\* What the API server and the cache have of each object.
LEMMA StoredTypes ==
  ASSUME StoreInv
  PROVE  /\ \A c \in Caps :
              /\ stored[Capability(c)] \in {Absent} \union CapObject
              /\ seen[Capability(c)] \in {Absent} \union CapObject
              /\ stored[Server(c)] \in {Absent} \union ServerObject
              /\ seen[Server(c)] \in {Absent} \union ServerObject
              /\ stored[Source(c)] \in {Absent} \union SourceObject
              /\ seen[Source(c)] \in {Absent} \union SourceObject
         /\ \A a \in Agents :
              /\ stored[Agent(a)] \in {Absent} \union AgentObject
              /\ seen[Agent(a)] \in {Absent} \union AgentObject
              /\ stored[ConfigMap(a)] \in {Absent} \union Content
              /\ seen[ConfigMap(a)] \in {Absent} \union Content
              /\ stored[Deployment(a)] \in {Absent} \union DeploymentObject
              /\ seen[Deployment(a)] \in {Absent} \union DeploymentObject
         /\ stored[GitRepo] \in {Absent} \union RepoObject
         /\ seen[GitRepo] \in {Absent} \union RepoObject
         /\ \A w \in Workspaces :
              /\ stored[Workspace(w)] \in {Absent} \union WorkspaceObject
              /\ seen[Workspace(w)] \in {Absent} \union WorkspaceObject
              /\ stored[Clone(w)] \in {Absent} \union CloneObject
              /\ seen[Clone(w)] \in {Absent} \union CloneObject
<1>1. \A o \in Objects : stored[o] \in ObjectsOf(o) /\ seen[o] \in ObjectsOf(o)
  BY DEF StoreInv
<1> QED BY <1>1, KeysAreObjects, KindTypes

LEMMA SetupTypes ==
  ASSUME StoreInv, NEW a \in Agents
  PROVE  /\ refs[a].caps \subseteq Caps /\ refs[a].workspaces \subseteq Workspaces
         /\ refs[a].agent \in BOOLEAN /\ refs[a].mishaps \in Nat
BY ClusterAssumption DEF StoreInv

\* StoreInv and WorkInv are TypeOK and more.
LEMMA InvTypes == StoreInv /\ WorkInv => TypeOK
<1> SUFFICES ASSUME StoreInv, WorkInv PROVE TypeOK
  OBVIOUS
<1>1. CapTypeOK
  BY StoredTypes DEF CapTypeOK, WorkInv, CapWorkInv
<1>2. AgentTypeOK
  BY StoredTypes DEF AgentTypeOK, WorkInv, AgentWorkInv, LeftOuts
<1>3. GitTypeOK
  BY StoredTypes DEF GitTypeOK, WorkInv, RepoWorkInv, WorkspaceWorkInv
<1> QED BY <1>1, <1>2, <1>3 DEF TypeOK, StoreInv

-----------------------------------------------------------------------------
(* What a write does: objects of some kinds change, and what has changed is *)
(* behind.                                                                  *)

Moves(kinds) ==
  /\ stored' = [o \in Objects |-> stored'[o]]
  /\ \A o \in Objects : stored'[o] \in ObjectsOf(o)
  /\ \A o \in Objects : o \notin behind' \/ o[1] \notin kinds => stored'[o] = stored[o]
  /\ behind \subseteq behind' /\ behind' \subseteq Objects

LEMMA KeptMoves ==
  ASSUME StoreInv, UNCHANGED api, NEW kinds
  PROVE  Moves(kinds)
BY DEF StoreInv, Moves, api

LEMMA BecomeMoves ==
  ASSUME StoreInv, NEW objects, Become(objects), NEW kinds,
         objects = [o \in Objects |-> objects[o]],
         \A o \in Objects : objects[o] \in ObjectsOf(o),
         \A o \in Objects : o[1] \notin kinds => objects[o] = stored[o]
  PROVE  Moves(kinds)
BY DEF StoreInv, Moves, Become

LEMMA WriteMoves ==
  ASSUME StoreInv, NEW o \in Objects, NEW v \in ObjectsOf(o), Write(o, v)
  PROVE  Moves({o[1]}) /\ stored'[o] = v /\ \A p \in Objects \ {o} : stored'[p] = stored[p]
<1> DEFINE objects == [stored EXCEPT ![o] = v]
<1>1. /\ objects = [p \in Objects |-> objects[p]]
      /\ objects[o] = v /\ \A p \in Objects \ {o} : objects[p] = stored[p]
  BY DEF StoreInv
<1>2. \A p \in Objects : objects[p] \in ObjectsOf(p)
  BY <1>1 DEF StoreInv
<1>3. Become(objects)
  BY DEF Write
<1>4. Moves({o[1]})
  <2> HIDE DEF objects
  <2> QED BY <1>1, <1>2, <1>3, BecomeMoves
<1>5. stored' = objects
  BY <1>3 DEF Become
<1> QED BY <1>1, <1>4, <1>5

LEMMA TouchMoves ==
  ASSUME StoreInv, NEW o \in Objects, NEW v \in ObjectsOf(o), Touch(o, v)
  PROVE  Moves({o[1]}) /\ stored'[o] = v /\ \A p \in Objects \ {o} : stored'[p] = stored[p]
<1>1. /\ stored' = [p \in Objects |-> stored'[p]]
      /\ stored'[o] = v /\ \A p \in Objects \ {o} : stored'[p] = stored[p]
      /\ behind' = behind \union {o}
  BY DEF StoreInv, Touch
<1>2. \A p \in Objects : stored'[p] \in ObjectsOf(p)
  BY <1>1 DEF StoreInv
<1> QED BY <1>1, <1>2 DEF Moves, StoreInv

\* What was written differs and is behind, unless it is as it was.
LEMMA WriteIsBehind ==
  ASSUME StoreInv, NEW o \in Objects, NEW v, Write(o, v)
  PROVE  o \in behind' \/ stored[o] = v
BY DEF StoreInv, Write, Become

LEMMA WiderMoves ==
  ASSUME NEW kinds, NEW wider, kinds \subseteq wider, Moves(kinds)
  PROVE  Moves(wider)
BY DEF Moves

\* A Deployment mounts nothing new but what was cloned.
MountsCloned ==
  \A a \in Agents : Exists(Deployment(a))' =>
    stored'[Deployment(a)].mounts \subseteq
      (IF Exists(Deployment(a)) THEN stored[Deployment(a)].mounts ELSE {}) \union cloned

LEMMA MovesKeepMounts ==
  ASSUME NEW kinds, Moves(kinds), "deployment" \notin kinds
  PROVE  MountsCloned
<1>1. \A a \in Agents : stored'[Deployment(a)] = stored[Deployment(a)]
  BY Kinds, KeysAreObjects DEF Moves
<1> QED BY <1>1 DEF MountsCloned, Exists

-----------------------------------------------------------------------------
(* A step of a worker, of users or of pods: the cache stays as it is, some  *)
(* kinds of objects are written and some kinds of keys taken off the queue. *)

Step(written, taken) ==
  /\ Moves(written)
  /\ UNCHANGED <<refs, seen>>
  /\ queue' \subseteq Keys /\ \A k \in queue : k[1] \notin taken => k \in queue'
  /\ timers' \subseteq Keys /\ timers \subseteq queue' \union timers'
  /\ UNCHANGED mishaps \/ Mishap

LEMMA WiderStep ==
  ASSUME NEW written, NEW taken, NEW written2, NEW taken2,
         written \subseteq written2, taken \subseteq taken2, Step(written, taken)
  PROVE  Step(written2, taken2)
BY WiderMoves DEF Step

LEMMA StepStore ==
  ASSUME StoreInv, NEW written, NEW taken, Step(written, taken)
  PROVE  StoreInv'
<1>1. mishaps' \in Nat /\ \A a \in Agents : mishaps' <= refs'[a].mishaps
  <2>1. mishaps \in Nat /\ \A a \in Agents : refs[a].mishaps \in Nat /\ mishaps <= refs[a].mishaps
    BY SetupTypes DEF StoreInv
  <2>2. refs' = refs /\ (mishaps' = mishaps \/
          ((\A a \in Agents : mishaps < refs[a].mishaps) /\ mishaps' = mishaps + 1))
    BY DEF Step, Mishap
  <2> QED BY <2>1, <2>2
<1>2. seen' = [o \in Objects |-> seen'[o]] /\ \A o \in Objects : seen'[o] \in ObjectsOf(o)
  BY DEF Step, StoreInv
<1>3. stored' = [o \in Objects |-> stored'[o]] /\ \A o \in Objects : stored'[o] \in ObjectsOf(o)
  BY DEF Step, Moves
<1> QED BY <1>1, <1>2, <1>3 DEF Step, Moves, StoreInv, ObjectsOf

LEMMA StepCache ==
  ASSUME CacheInv, NEW written, NEW taken, Step(written, taken)
  PROVE  CacheInv'
BY DEF Step, Moves, CacheInv

LEMMA DueKept ==
  ASSUME StoreInv, DueInv, NEW written, NEW taken, Step(written, taken),
         "workspace" \notin taken, UNCHANGED workspaceWork
  PROVE  DueInv'
BY Kinds DEF Step, DueInv

LEMMA ClonedKept ==
  ASSUME StoreInv, ClonedInv, NEW written, NEW taken, Step(written, taken),
         "workspace" \notin written, "clone" \notin written,
         cloned \subseteq cloned', UNCHANGED agentWork
  PROVE  ClonedInv'
<1>1. \A w \in Workspaces : /\ stored'[Workspace(w)] = stored[Workspace(w)]
                            /\ stored'[Clone(w)] = stored[Clone(w)]
  BY Kinds, KeysAreObjects DEF Step, Moves
<1>2. seen' = seen /\ refs' = refs
  BY DEF Step
<1> QED BY <1>1, <1>2 DEF ClonedInv, LooksCloned

LEMMA CapKept ==
  ASSUME StoreInv, CapInv, NEW written, NEW taken, Step(written, taken),
         "capability" \notin taken, UNCHANGED capWork
  PROVE  CapInv'
<1>1. \A c \in Caps : Capability(c) \notin queue' => Capability(c) \notin queue
  BY Kinds DEF Step
<1>2. \A o : o \notin behind' => o \notin behind
  BY DEF Step, Moves
<1>3. seen' = seen
  BY DEF Step
<1>4. \A c, p : CapFits(c, p)' <=> CapFits(c, p)
  BY <1>3 DEF CapFits
<1> QED BY <1>1, <1>2, <1>3, <1>4 DEF CapInv

\* What an Agent reads in the cache.
LEMMA SameView ==
  ASSUME NEW a, UNCHANGED <<refs, seen>>
  PROVE  /\ UnreadyCaps(a)' = UnreadyCaps(a) /\ UnreadyWorkspaces(a)' = UnreadyWorkspaces(a)
         /\ AllReady(a)' <=> AllReady(a)
         /\ \A out : ContentWithout(a, out)' = ContentWithout(a, out)
BY DEF UnreadyCaps, UnreadyWorkspaces, AllReady, ContentWithout, Usable, PhaseOf

LEMMA SameFit ==
  ASSUME NEW a, UNCHANGED <<refs, seen>>, behind \subseteq behind',
         leftOut'[a] = leftOut[a]
  PROVE  /\ Configured(a) => Configured(a)'
         /\ Deployed(a) => Deployed(a)'
         /\ AgentFits(a) => AgentFits(a)'
<1>1. Configured(a) => Configured(a)'
  BY SameView DEF Configured, ContentWithout, Usable, PhaseOf
<1>2. Deployed(a) => Deployed(a)'
  BY SameView DEF Deployed, ContentWithout, Usable, PhaseOf
<1> QED BY <1>1, <1>2, SameView DEF AgentFits

LEMMA AgentKept ==
  ASSUME StoreInv, AgentInv, NEW written, NEW taken, Step(written, taken),
         "agent" \notin taken, UNCHANGED agentVars
  PROVE  AgentInv'
<1> SUFFICES ASSUME NEW a \in Agents, seen'[Agent(a)] # Absent, Agent(a) \notin queue'
             PROVE  IF agentWork'.key = a
                    THEN /\ UnreadyCaps(a)' = {}
                         /\ agentWork'.pc # "workspaces" => UnreadyWorkspaces(a)' = {}
                         /\ MadeSoFar(a)'
                    ELSE Agent(a) \notin behind' => AgentFits(a)'
  BY DEF AgentInv
<1>1. Agent(a) \notin queue
  BY Kinds DEF Step
<1>2. UNCHANGED <<refs, seen, agentWork, leftOut>> /\ behind \subseteq behind'
  BY DEF Step, Moves, agentVars
<1>3. MadeSoFar(a) => MadeSoFar(a)'
  BY <1>2, SameFit DEF MadeSoFar
<1> QED BY <1>1, <1>2, <1>3, SameView, SameFit DEF AgentInv

-----------------------------------------------------------------------------
(* The Capability controller.                                               *)

\* A step of the reconcile of c disturbs what is known of c alone.
LEMMA CapInvStep ==
  ASSUME StoreInv, CapInv, NEW written, Step(written, {"capability"}),
         NEW c \in Caps, capWork.key \notin Caps \ {c}, capWork'.key \notin Caps \ {c},
         \A d \in Caps : d # c /\ Capability(d) \in queue => Capability(d) \in queue',
         seen[Capability(c)] # Absent /\ Capability(c) \notin queue' =>
           IF capWork'.key = c
           THEN /\ capWork'.spec = seen[Capability(c)].spec
                /\ capWork'.pc = "server" => c \in Servers /\ capWork'.spec \in Valid
                /\ capWork'.pc # "server" /\ ~capWork'.retry => CapFits(c, capWork'.pc)
           ELSE Capability(c) \notin behind' => CapFits(c, seen[Capability(c)].phase)
  PROVE  CapInv'
<1>1. seen' = seen /\ behind \subseteq behind'
  BY DEF Step, Moves
<1>2. \A d : /\ CapFits(d, capWork.pc)' <=> CapFits(d, capWork'.pc)
            /\ CapFits(d, seen[Capability(d)].phase)' <=> CapFits(d, seen[Capability(d)].phase)
  BY <1>1 DEF CapFits
<1>3. ASSUME NEW d \in Caps, seen'[Capability(d)] # Absent, Capability(d) \notin queue'
      PROVE  IF capWork'.key = d
             THEN /\ capWork'.spec = seen'[Capability(d)].spec
                  /\ capWork'.pc = "server" => d \in Servers /\ capWork'.spec \in Valid
                  /\ capWork'.pc # "server" /\ ~capWork'.retry => CapFits(d, capWork.pc)'
             ELSE Capability(d) \notin behind' => CapFits(d, seen[Capability(d)].phase)'
  <2>1. CASE d = c
    BY <2>1, <1>1, <1>3 DEF CapFits
  <2>2. CASE d # c
    BY <2>2, <1>1, <1>2, <1>3 DEF CapInv
  <2> QED BY <2>1, <2>2
<1> QED BY <1>3 DEF CapInv

LEMMA BeginCapStep ==
  ASSUME StoreInv, CapWorkInv, CapInv, NEW c \in Caps, BeginCap(c)
  PROVE  Step({}, {"capability"}) /\ CapWorkInv' /\ CapInv'
<1>1. Step({}, {"capability"})
  BY KeptMoves, Kinds DEF BeginCap, Step, StoreInv
<1>2. capWork.pc = "idle" /\ capWork.key \notin Caps
  BY AbsentAssumption DEF BeginCap, CapWorkInv
<1>3. \A d \in Caps : d # c /\ Capability(d) \in queue => Capability(d) \in queue'
  BY Kinds DEF BeginCap
<1>4. CASE seen[Capability(c)] = Absent
  <2>1. capWork' = capWork
    BY <1>4 DEF BeginCap
  <2> QED BY <1>1, <1>2, <1>3, <1>4, <2>1, CapInvStep DEF CapWorkInv
<1>5. CASE seen[Capability(c)] # Absent
  <2> DEFINE spec == seen[Capability(c)].spec
  <2>1. spec \in Specs
    BY <1>5, StoredTypes DEF CapObject
  <2>2. capWork' = [pc |-> IF spec \notin Valid THEN "Failed"
                           ELSE IF c \in Servers THEN "server" ELSE "Ready",
                    key |-> c, spec |-> spec, retry |-> FALSE]
    BY <1>5 DEF BeginCap, IsValid
  <2>3. CapWorkInv'
    BY <2>1, <2>2 DEF CapWorkInv
  <2>4. capWork'.pc # "server" => CapFits(c, capWork'.pc)
    BY <2>2 DEF CapFits
  <2>5. /\ capWork'.key = c /\ capWork'.spec = seen[Capability(c)].spec
        /\ capWork'.pc = "server" => c \in Servers /\ capWork'.spec \in Valid
    BY <2>2
  <2>6. CapInv'
    BY <1>1, <1>2, <1>3, <2>4, <2>5, CapInvStep
  <2> QED BY <1>1, <2>3, <2>6
<1> QED BY <1>4, <1>5

\* What a reconcile at its server may go on to: an error to be retried, or the
\* phase that fits the server in the cache.
LEMMA ServerStep ==
  ASSUME StoreInv, CapWorkInv, CapInv, capWork.pc = "server",
         NEW written, Step(written, {}), UNCHANGED queue,
         NEW pc \in {"Ready", "Pending", "Failed"}, NEW retry \in BOOLEAN,
         capWork' = [capWork EXCEPT !.pc = pc, !.retry = retry],
         retry \/ (capWork.key \in Servers /\ capWork.spec \in Valid
                   /\ capWork.spec = seen[Capability(capWork.key)].spec
                     => CapFits(capWork.key, pc))
  PROVE  Step(written, {}) /\ CapWorkInv' /\ CapInv'
<1> DEFINE c == capWork.key
<1>1. c \in Caps /\ capWork.spec \in Specs /\ c = capWork.key
  BY DEF CapWorkInv
<1>2. capWork'.key = c /\ capWork'.spec = capWork.spec /\ capWork'.pc = pc /\ capWork'.retry = retry
  BY DEF CapWorkInv
<1>3. CapWorkInv'
  BY <1>1 DEF CapWorkInv
<1>4. seen[Capability(c)] # Absent /\ Capability(c) \notin queue =>
        /\ capWork.spec = seen[Capability(c)].spec /\ c \in Servers /\ capWork.spec \in Valid
  BY <1>1 DEF CapInv
<1>5. Step(written, {"capability"})
  BY WiderStep
<1> HIDE DEF c
<1>6. seen[Capability(c)] # Absent /\ Capability(c) \notin queue =>
        /\ capWork'.spec = seen[Capability(c)].spec /\ capWork'.pc # "server"
        /\ ~capWork'.retry => CapFits(c, capWork'.pc)
  BY <1>1, <1>2, <1>4
<1>7. CapInv'
  BY <1>1, <1>2, <1>5, <1>6, CapInvStep
<1> QED BY <1>3, <1>7

LEMMA CreateServerStep ==
  ASSUME StoreInv, CapWorkInv, CapInv, CreateServer
  PROVE  Step({"server"}, {}) /\ CapWorkInv' /\ CapInv'
<1> DEFINE c == capWork.key
           new == [spec |-> capWork.spec, available |-> FALSE]
<1>1. /\ c \in Caps /\ capWork.pc = "server" /\ capWork.spec \in Specs
      /\ seen[Server(c)] = Absent
      /\ UNCHANGED <<refs, seen, queue, timers, mishaps>>
  BY DEF CreateServer, CapWorkInv
<1>2. CASE Write(Server(c), new) /\ CapGoto("Pending")
  <2>1. new \in ObjectsOf(Server(c)) /\ Server(c) \in Objects /\ Server(c)[1] = "server"
    BY <1>1, KindTypes, KeysAreObjects, Kinds DEF ServerObject
  <2>2. Step({"server"}, {})
    BY <1>1, <1>2, <2>1, WriteMoves DEF Step, StoreInv
  <2>3. capWork' = [capWork EXCEPT !.pc = "Pending", !.retry = capWork.retry]
          /\ capWork.retry \in BOOLEAN
    BY <1>1, <1>2 DEF CapGoto, CapWorkInv
  <2>4. c \in Servers /\ capWork.spec \in Valid /\ capWork.spec = seen[Capability(c)].spec
          => CapFits(c, "Pending")
    BY <1>1 DEF CapFits
  <2> QED BY <1>1, <2>2, <2>3, <2>4, ServerStep
<1>3. CASE ServerError /\ UNCHANGED api
  <2>1. Step({"server"}, {})
    BY <1>1, <1>3, KeptMoves DEF Step, StoreInv
  <2> QED BY <1>1, <1>3, <2>1, ServerStep DEF ServerError
<1> QED BY <1>2, <1>3 DEF CreateServer

LEMMA UpdateServerStep ==
  ASSUME StoreInv, CapWorkInv, CapInv, UpdateServer
  PROVE  Step({"server"}, {}) /\ CapWorkInv' /\ CapInv'
<1> DEFINE c == capWork.key
           new == [seen[Server(c)] EXCEPT !.spec = capWork.spec]
<1>1. /\ c \in Caps /\ capWork.pc = "server" /\ capWork.spec \in Specs
      /\ seen[Server(c)] # Absent
      /\ UNCHANGED <<refs, seen, queue, timers, mishaps>>
  BY DEF UpdateServer, CapWorkInv
<1>2. seen[Server(c)] \in ServerObject
  BY <1>1, StoredTypes
<1>3. CASE Update(Server(c), new) /\ CapGoto(ServerPhase(c))
  <2>1. new \in ObjectsOf(Server(c)) /\ Server(c) \in Objects /\ Server(c)[1] = "server"
    BY <1>1, <1>2, KindTypes, KeysAreObjects, Kinds DEF ServerObject
  <2>2. Step({"server"}, {})
    BY <1>1, <1>3, <2>1, WriteMoves DEF Step, StoreInv, Update
  <2>3. capWork' = [capWork EXCEPT !.pc = ServerPhase(c), !.retry = capWork.retry]
          /\ capWork.retry \in BOOLEAN
    BY <1>1, <1>3 DEF CapGoto, CapWorkInv
  <2>4. c \in Servers /\ capWork.spec \in Valid /\ capWork.spec = seen[Capability(c)].spec
          => CapFits(c, ServerPhase(c))
    BY <1>1, <1>2 DEF CapFits, ServerPhase, ServerObject
  <2>5. ServerPhase(c) \in {"Ready", "Pending", "Failed"}
    BY DEF ServerPhase
  <2> QED BY <1>1, <2>2, <2>3, <2>4, <2>5, ServerStep
<1>4. CASE ServerError /\ UNCHANGED api
  <2>1. Step({"server"}, {})
    BY <1>1, <1>4, KeptMoves DEF Step, StoreInv
  <2> QED BY <1>1, <1>4, <2>1, ServerStep DEF ServerError
<1> QED BY <1>3, <1>4 DEF UpdateServer

LEMMA KeepServerStep ==
  ASSUME StoreInv, CapWorkInv, CapInv, KeepServer \/ ServerFails
  PROVE  Step({}, {}) /\ CapWorkInv' /\ CapInv'
<1> DEFINE c == capWork.key
<1>1. /\ c \in Caps /\ capWork.pc = "server" /\ capWork.spec \in Specs
      /\ UNCHANGED <<refs, api, seen, queue, timers>>
  BY DEF KeepServer, ServerFails, CapWorkInv, clusterVars
<1>2. Step({}, {})
  BY <1>1, KeptMoves DEF Step, StoreInv, KeepServer, ServerFails, clusterVars
<1>3. CASE KeepServer
  <2>1. seen[Server(c)] \in ServerObject
    BY <1>1, <1>3, StoredTypes DEF KeepServer
  <2>2. capWork' = [capWork EXCEPT !.pc = ServerPhase(c), !.retry = capWork.retry]
          /\ capWork.retry \in BOOLEAN
    BY <1>1, <1>3 DEF KeepServer, CapGoto, CapWorkInv
  <2>3. c \in Servers /\ capWork.spec \in Valid /\ capWork.spec = seen[Capability(c)].spec
          => CapFits(c, ServerPhase(c))
    BY <2>1, AbsentAssumption DEF CapFits, ServerPhase, ServerObject
  <2>4. ServerPhase(c) \in {"Ready", "Pending", "Failed"}
    BY DEF ServerPhase
  <2> QED BY <1>1, <1>2, <2>2, <2>3, <2>4, ServerStep
<1>4. CASE ServerFails
  BY <1>1, <1>2, <1>4, ServerStep DEF ServerFails, ServerError
<1> QED BY <1>3, <1>4

LEMMA UserListTypes ==
  ASSUME NEW c, NEW users \in UserLists(c)
  PROVE  users \in Seq(Agents)
<1>1. CapUsers(c) \subseteq Agents
  BY DEF CapUsers
<1>2. Cardinality(CapUsers(c)) \in Nat
  BY <1>1, ClusterAssumption, FS_Subset, FS_CardinalityType
<1>3. users \in [1..Cardinality(CapUsers(c)) -> CapUsers(c)]
  BY DEF UserLists, SetToSeqs
<1> QED BY <1>1, <1>2, <1>3

LEMMA WriteCapStatusStep ==
  ASSUME StoreInv, CapWorkInv, CacheInv, CapInv,
         NEW users \in UserLists(capWork.key), WriteCapStatus(users)
  PROVE  Step({"capability"}, {}) /\ CapWorkInv' /\ CapInv'
<1> DEFINE c == capWork.key
           o == Capability(c)
           old == seen[o]
           new == CapStatus(old, capWork.pc, users)
<1>1. /\ c \in Caps /\ capWork.pc \in {"Ready", "Pending", "Failed"}
      /\ capWork' = NoCapWork
      /\ UNCHANGED <<refs, seen, timers, mishaps>>
  BY DEF WriteCapStatus, CapWorkInv
<1>2. CapWorkInv' /\ capWork'.key = Absent
  BY <1>1 DEF CapWorkInv, NoCapWork
<1>3. \/ /\ old # Absent /\ new = old
         /\ queue' = queue \union {k \in {o} : capWork.retry}
         /\ UNCHANGED api
      \/ /\ old # Absent /\ Update(o, new)
         /\ queue' = queue \union {k \in {o} : capWork.retry}
      \/ /\ queue' = queue \union {o}
         /\ UNCHANGED api
  BY DEF WriteCapStatus
<1>4. o \in Keys /\ o \in Objects /\ o[1] = "capability"
  BY <1>1, KeysAreObjects, Kinds
<1>5. old # Absent => /\ old \in CapObject /\ new \in CapObject
                      /\ new.phase = capWork.pc /\ new.spec = old.spec
  <2>1. old # Absent => old \in CapObject
    BY <1>1, StoredTypes
  <2>2. users \in Seq(Agents)
    BY UserListTypes
  <2> QED BY <1>1, <2>1, <2>2 DEF CapStatus, CapObject, Phases
<1>6. queue' \subseteq Keys /\ queue \subseteq queue'
  <2> HIDE DEF o, new, old
  <2> QED BY <1>3, <1>4 DEF StoreInv
<1>7. Moves({"capability"})
  <2>1. CASE UNCHANGED api
    BY <2>1, KeptMoves
  <2>2. CASE old # Absent /\ Update(o, new)
    <3>1. new \in ObjectsOf(o)
      BY <1>5, <2>2, KindTypes
    <3> HIDE DEF o, new
    <3> QED BY <1>4, <2>2, <3>1, WriteMoves DEF Update
  <2> QED BY <1>3, <2>1, <2>2
<1>8. Step({"capability"}, {}) /\ Step({"capability"}, {"capability"})
  <2> HIDE DEF o
  <2> QED BY <1>1, <1>6, <1>7 DEF Step, StoreInv
<1>9. old # Absent /\ o \notin queue' /\ o \notin behind' => CapFits(c, old.phase)
  <2> SUFFICES ASSUME old # Absent, o \notin queue', o \notin behind'
               PROVE  CapFits(c, old.phase)
    OBVIOUS
  <2>1. ~capWork.retry
    <3> HIDE DEF o, new
    <3> QED BY <1>3
  <2>2. o \notin queue
    BY <1>6
  <2>3. CapFits(c, capWork.pc)
    BY <1>1, <2>1, <2>2 DEF CapInv
  <2>4. new = old
    <3>1. CASE Update(o, new)
      <4>1. stored[o] = old
        BY <3>1, <1>4 DEF Update, Current, CacheInv
      <4>2. stored[o] = new
        <5> HIDE DEF o, new
        <5> QED BY <1>4, <3>1, WriteIsBehind DEF Update
      <4> QED BY <4>1, <4>2
    <3>2. CASE queue' = queue \union {o}
      BY <3>2
    <3> QED BY <1>3, <3>1, <3>2
  <2> HIDE DEF new
  <2> QED BY <1>5, <2>3, <2>4
<1>10. CapInv'
  <2>1. capWork.key \notin Caps \ {c} /\ capWork'.key \notin Caps \ {c} /\ capWork'.key # c
    BY <1>1, <1>2, AbsentAssumption
  <2>2. \A d \in Caps : d # c /\ Capability(d) \in queue => Capability(d) \in queue'
    <3> HIDE DEF o
    <3> QED BY <1>6
  <2> HIDE DEF c
  <2> QED BY <1>1, <1>8, <1>9, <2>1, <2>2, CapInvStep
<1> QED BY <1>2, <1>8, <1>10

LEMMA CapWorkerInv ==
  ASSUME IInv, CapWorker
  PROVE  IInv' /\ MountsCloned
<1>1. StoreInv /\ WorkInv /\ CapWorkInv /\ CacheInv /\ DueInv /\ ClonedInv /\ CapInv /\ AgentInv
  BY DEF IInv, WorkInv
<1>2. UNCHANGED <<agentVars, agentWork, leftOut, repoWork, workspaceWork, cloned>>
  BY DEF CapWorker, agentVars, gitVars
<1>3. Step({"capability", "server"}, {"capability"}) /\ CapWorkInv' /\ CapInv'
  <2>1. CASE \E c \in Caps : BeginCap(c)
    BY <1>1, <2>1, BeginCapStep, WiderStep
  <2>2. CASE CreateServer \/ UpdateServer
    BY <1>1, <2>2, CreateServerStep, UpdateServerStep, WiderStep
  <2>3. CASE KeepServer \/ ServerFails
    BY <1>1, <2>3, KeepServerStep, WiderStep
  <2>4. CASE \E users \in UserLists(capWork.key) : WriteCapStatus(users)
    BY <1>1, <2>4, WriteCapStatusStep, WiderStep
  <2> QED BY <2>1, <2>2, <2>3, <2>4 DEF CapWorker, ReconcileCap
<1>4. StoreInv' /\ CacheInv'
  BY <1>1, <1>3, StepStore, StepCache
<1>5. DueInv' /\ ClonedInv' /\ AgentInv'
  BY <1>1, <1>2, <1>3, DueKept, ClonedKept, AgentKept
<1>6. WorkInv'
  BY <1>1, <1>2, <1>3 DEF WorkInv, IInv, AgentWorkInv, RepoWorkInv, WorkspaceWorkInv
<1>7. MountsCloned
  BY <1>3, MovesKeepMounts DEF Step
<1> QED BY <1>3, <1>4, <1>5, <1>6, <1>7 DEF IInv

-----------------------------------------------------------------------------
(* The Agent controller.                                                    *)

\* A step of the reconcile of an Agent disturbs what is known of it alone.
LEMMA AgentInvStep ==
  ASSUME StoreInv, AgentInv, NEW written, Step(written, {"agent"}),
         NEW a \in Agents, agentWork.key \notin Agents \ {a}, agentWork'.key \notin Agents \ {a},
         \A b \in Agents : b # a /\ Agent(b) \in queue => Agent(b) \in queue',
         \A b \in Agents : b # a => leftOut'[b] = leftOut[b],
         seen[Agent(a)] # Absent /\ Agent(a) \notin queue' =>
           IF agentWork'.key = a
           THEN /\ UnreadyCaps(a) = {}
                /\ agentWork'.pc # "workspaces" => UnreadyWorkspaces(a) = {}
                /\ MadeSoFar(a)'
           ELSE Agent(a) \notin behind' => AgentFits(a)'
  PROVE  AgentInv'
<1>1. UNCHANGED <<refs, seen>> /\ behind \subseteq behind'
  BY DEF Step, Moves
<1>2. ASSUME NEW b \in Agents, seen'[Agent(b)] # Absent, Agent(b) \notin queue'
      PROVE  IF agentWork'.key = b
             THEN /\ UnreadyCaps(b)' = {}
                  /\ agentWork'.pc # "workspaces" => UnreadyWorkspaces(b)' = {}
                  /\ MadeSoFar(b)'
             ELSE Agent(b) \notin behind' => AgentFits(b)'
  <2>1. UnreadyCaps(b)' = UnreadyCaps(b) /\ UnreadyWorkspaces(b)' = UnreadyWorkspaces(b)
    BY <1>1, SameView
  <2>2. CASE b = a
    BY <2>1, <2>2, <1>1, <1>2
  <2>3. CASE b # a
    <3>1. AgentFits(b) => AgentFits(b)'
      BY <1>1, <2>3, SameFit
    <3>2. Agent(b) \notin queue /\ agentWork.key # b /\ agentWork'.key # b
      BY <1>2, <2>3
    <3> QED BY <3>1, <3>2, <1>1, <1>2 DEF AgentInv
  <2> QED BY <2>2, <2>3
<1> QED BY <1>2 DEF AgentInv

\* The reconcile ends: with the status it wants, or to begin again.
LEMMA StatusStep ==
  ASSUME StoreInv, CacheInv, NEW a \in Agents, NEW status, NEW left,
         EndWithStatus(a, status, left),
         seen[Agent(a)] # Absent => status \in AgentObject,
         UNCHANGED <<refs, seen, timers, mishaps, leftOut>>,
         left \subseteq queue, \A k \in queue : k[1] # "agent" => k \in left
  PROVE  /\ Step({"agent"}, {"agent"})
         /\ left \subseteq queue'
         /\ agentWork' = NoAgentWork
         /\ seen[Agent(a)] # Absent /\ Agent(a) \notin queue' /\ Agent(a) \notin behind' =>
              status = seen[Agent(a)]
<1> DEFINE o == Agent(a)
<1>1. o \in Keys /\ o \in Objects /\ o[1] = "agent"
  BY KeysAreObjects, Kinds
<1>2. \/ seen[o] # Absent /\ status = seen[o] /\ queue' = left /\ UNCHANGED api
      \/ seen[o] # Absent /\ Update(o, status) /\ queue' = left
      \/ queue' = left \union {o} /\ UNCHANGED api
  BY DEF EndWithStatus
<1>3. Moves({"agent"})
  <2>1. CASE UNCHANGED api
    BY <2>1, KeptMoves
  <2>2. CASE seen[o] # Absent /\ Update(o, status)
    <3>1. status \in ObjectsOf(o)
      BY <2>2, KindTypes
    <3> HIDE DEF o
    <3> QED BY <1>1, <2>2, <3>1, WriteMoves DEF Update
  <2> QED BY <1>2, <2>1, <2>2
<1>4. queue' \subseteq Keys /\ left \subseteq queue'
  <2> HIDE DEF o
  <2> QED BY <1>1, <1>2 DEF StoreInv
<1>5. Step({"agent"}, {"agent"})
  <2> HIDE DEF o
  <2> QED BY <1>3, <1>4 DEF Step, StoreInv
<1>6. ASSUME o \notin queue', o \notin behind', seen[o] # Absent PROVE status = seen[o]
  <2>1. CASE Update(o, status)
    <3>1. stored[o] = seen[o]
      BY <1>1, <2>1 DEF Update, Current, CacheInv
    <3> HIDE DEF o
    <3> QED BY <1>1, <1>6, <2>1, <3>1, WriteIsBehind DEF Update
  <2>2. CASE queue' = left \union {o}
    BY <1>6, <2>2
  <2> QED BY <1>2, <2>1, <2>2
<1> QED BY <1>4, <1>5, <1>6 DEF EndWithStatus

\* The statuses an Agent gets.
LEMMA StatusTypes ==
  ASSUME StoreInv, NEW a \in Agents, seen[Agent(a)] # Absent
  PROVE  /\ seen[Agent(a)] \in AgentObject
         /\ WaitingForCaps(a) \in AgentObject /\ WaitingForCaps(a).phase = "Pending"
         /\ WaitingForWorkspaces(a) \in AgentObject /\ WaitingForWorkspaces(a).phase = "Pending"
         /\ Running(a) \in AgentObject
         /\ Running(a).phase = IF seen[Deployment(a)] # Absent /\ seen[Deployment(a)].ready
                               THEN "Running" ELSE "Pending"
<1>1. seen[Agent(a)] \in AgentObject
  BY StoredTypes
<1>2. /\ False(UnreadyCaps(a)) \in Condition /\ False(UnreadyWorkspaces(a)) \in Condition
      /\ True \in Condition
  BY SetupTypes DEF False, True, Condition, UnreadyCaps, UnreadyWorkspaces
<1>3. WaitingForCaps(a) \in AgentObject /\ WaitingForCaps(a).phase = "Pending"
  BY <1>1, <1>2 DEF WaitingForCaps, AgentObject
<1>4. WaitingForWorkspaces(a) \in AgentObject /\ WaitingForWorkspaces(a).phase = "Pending"
  BY <1>1, <1>2 DEF WaitingForWorkspaces, AgentObject
<1>5. /\ Running(a) \in AgentObject
      /\ Running(a).phase = IF seen[Deployment(a)] # Absent /\ seen[Deployment(a)].ready
                            THEN "Running" ELSE "Pending"
  BY <1>1, <1>2 DEF Running, AgentObject
<1> QED BY <1>1, <1>3, <1>4, <1>5

\* An Agent whose workspaces are all ready has them cloned.
LEMMA ReadyMeansCloned ==
  ASSUME StoreInv, ClonedInv, NEW a \in Agents, UnreadyWorkspaces(a) = {}
  PROVE  refs[a].workspaces \subseteq cloned
<1>1. \A w \in refs[a].workspaces : PhaseOf(Workspace(w)) = "Ready"
  BY DEF UnreadyWorkspaces
<1>2. \A w \in refs[a].workspaces : LooksCloned(seen, w)
  BY <1>1 DEF PhaseOf, LooksCloned
<1> QED BY <1>2, SetupTypes DEF ClonedInv

\* Workspaces that were just created do not look cloned.
EnsureWorkspaces(a) ==
  [o \in Objects |-> IF stored[o] = Absent /\ o \in {Workspace(w) : w \in Missing(a)}
                     THEN NewWorkspace ELSE stored[o]]

LEMMA EnsureStep ==
  ASSUME StoreInv, NEW a \in Agents, Become(EnsureWorkspaces(a))
  PROVE  /\ Moves({"workspace"})
         /\ \A w \in Workspaces : LooksCloned(stored, w)' => LooksCloned(stored, w)
<1>1. Missing(a) \subseteq Workspaces
  BY SetupTypes DEF Missing
<1>2. \A o \in Objects : EnsureWorkspaces(a)[o] # stored[o] =>
        /\ stored[o] = Absent /\ EnsureWorkspaces(a)[o] = NewWorkspace
        /\ \E w \in Workspaces : o = Workspace(w)
  BY <1>1 DEF EnsureWorkspaces
<1>3. NewWorkspace \in WorkspaceObject /\ NewWorkspace.phase # "Ready"
  BY DEF NewWorkspace, WorkspaceObject
<1>4. \A o \in Objects : EnsureWorkspaces(a)[o] \in ObjectsOf(o)
  BY <1>2, <1>3, KindTypes DEF StoreInv
<1>5. \A o \in Objects : o[1] \notin {"workspace"} => EnsureWorkspaces(a)[o] = stored[o]
  BY <1>2, Kinds
<1>6. EnsureWorkspaces(a) = [o \in Objects |-> EnsureWorkspaces(a)[o]]
  BY DEF EnsureWorkspaces
<1>7. Moves({"workspace"})
  BY <1>4, <1>5, <1>6, BecomeMoves
<1>8. stored' = EnsureWorkspaces(a)
  BY DEF Become
<1>9. ASSUME NEW w \in Workspaces, LooksCloned(stored, w)' PROVE LooksCloned(stored, w)
  <2>1. stored'[Clone(w)] = stored[Clone(w)]
    BY <1>5, <1>8, Kinds, KeysAreObjects
  <2>2. stored'[Workspace(w)] = stored[Workspace(w)] \/ stored'[Workspace(w)] = NewWorkspace
    BY <1>2, <1>8, KeysAreObjects
  <2> QED BY <1>3, <1>9, <2>1, <2>2 DEF LooksCloned
<1> QED BY <1>7, <1>9

LEMMA BeginAgentStep ==
  ASSUME StoreInv, CacheInv, AgentWorkInv, ClonedInv, AgentInv, UNCHANGED cloned,
         NEW a \in Agents, BeginAgent(a)
  PROVE  Step({"agent", "workspace"}, {"agent"}) /\ AgentWorkInv' /\ ClonedInv' /\ AgentInv'
<1> DEFINE left == queue \ {Agent(a)}
<1>1. /\ agentWork.pc = "idle" /\ agentWork.key = Absent /\ agentWork.key \notin Agents
      /\ UNCHANGED <<refs, seen, timers, mishaps, leftOut>>
  BY AbsentAssumption DEF BeginAgent, AgentAt, AgentWorkInv
<1>2. /\ left \subseteq queue /\ \A k \in queue : k[1] # "agent" => k \in left
      /\ \A b \in Agents : b # a /\ Agent(b) \in queue => Agent(b) \in left
  BY Kinds
<1>3. CASE seen[Agent(a)] = Absent
  <2>1. queue' = left /\ UNCHANGED <<api, agentWork>>
    BY <1>3 DEF BeginAgent
  <2>2. Step({"agent", "workspace"}, {"agent"})
    BY <1>1, <1>2, <2>1, KeptMoves DEF Step, StoreInv
  <2>3. Step({}, {"agent"})
    BY <1>1, <1>2, <2>1, KeptMoves DEF Step, StoreInv
  <2>4. ClonedInv'
    BY <2>1, <2>3, ClonedKept
  <2>5. AgentInv'
    <3> HIDE DEF left
    <3> QED BY <1>1, <1>2, <1>3, <2>1, <2>2, <2>3, AgentInvStep
  <2>6. AgentWorkInv'
    BY <1>1, <2>1 DEF AgentWorkInv
  <2> QED BY <2>2, <2>4, <2>5, <2>6
<1>4. CASE seen[Agent(a)] # Absent /\ UnreadyCaps(a) = {} /\ Missing(a) # {}
           /\ Become(EnsureWorkspaces(a)) /\ agentWork' = [pc |-> "workspaces", key |-> a]
           /\ queue' = left
  <2>1. Moves({"workspace"}) /\ \A w \in Workspaces : LooksCloned(stored, w)' => LooksCloned(stored, w)
    BY <1>4, EnsureStep
  <2>2. Step({"workspace"}, {"agent"})
    BY <1>1, <1>2, <1>4, <2>1 DEF Step, StoreInv
  <2>3. AgentWorkInv'
    BY <1>1, <1>4, AbsentAssumption DEF AgentWorkInv
  <2>4. ClonedInv'
    <3>1. agentWork'.pc = "workspaces" /\ \A w : LooksCloned(seen, w)' <=> LooksCloned(seen, w)
      BY <1>1, <1>4 DEF LooksCloned
    <3> QED BY <2>1, <3>1 DEF ClonedInv
  <2>5. agentWork'.key = a /\ agentWork'.pc = "workspaces" /\ MadeSoFar(a)'
    BY <1>4 DEF MadeSoFar
  <2>6. AgentInv'
    <3> HIDE DEF left
    <3> QED BY <1>1, <1>2, <1>4, <2>2, <2>5, AgentInvStep
  <2> QED BY <2>2, <2>3, <2>4, <2>6, WiderStep
<1>5. CASE seen[Agent(a)] # Absent /\ UnreadyCaps(a) = {} /\ UnreadyWorkspaces(a) = {}
           /\ agentWork' = [pc |-> "config", key |-> a] /\ queue' = left /\ UNCHANGED api
  <2>1. Step({}, {"agent"})
    BY <1>1, <1>2, <1>5, KeptMoves DEF Step, StoreInv
  <2>2. AgentWorkInv'
    BY <1>1, <1>5, AbsentAssumption DEF AgentWorkInv
  <2>3. refs[a].workspaces \subseteq cloned
    BY <1>5, ReadyMeansCloned
  <2>4. agentWork'.key = a /\ agentWork'.pc = "config" /\ MadeSoFar(a)'
    BY <1>5 DEF MadeSoFar
  <2>5. ClonedInv'
    BY <1>1, <1>5, <2>3, <2>4 DEF ClonedInv, LooksCloned, api
  <2>6. AgentInv'
    <3> HIDE DEF left
    <3> QED BY <1>1, <1>2, <1>5, <2>1, <2>4, AgentInvStep
  <2> QED BY <2>1, <2>2, <2>5, <2>6, WiderStep
<1>6. ASSUME seen[Agent(a)] # Absent, ~AllReady(a),
             NEW status \in AgentObject, status.phase = "Pending",
             EndWithStatus(a, status, left)
      PROVE  Step({"agent", "workspace"}, {"agent"}) /\ AgentWorkInv' /\ ClonedInv' /\ AgentInv'
  <2>1. /\ Step({"agent"}, {"agent"}) /\ left \subseteq queue' /\ agentWork' = NoAgentWork
        /\ Agent(a) \notin queue' /\ Agent(a) \notin behind' => status = seen[Agent(a)]
    <3> HIDE DEF left
    <3> QED BY <1>1, <1>2, <1>6, StatusStep
  <2>2. AgentWorkInv' /\ agentWork'.key = Absent
    BY <1>1, <2>1 DEF AgentWorkInv, NoAgentWork
  <2>3. agentWork' = agentWork
    BY <1>1, <2>1 DEF AgentWorkInv, NoAgentWork
  <2>4. ClonedInv'
    BY <2>1, <2>3, ClonedKept
  <2>5. Agent(a) \notin queue' /\ Agent(a) \notin behind' => AgentFits(a)'
    BY <1>1, <1>6, <2>1, SameView DEF AgentFits
  <2>6. AgentInv'
    <3> HIDE DEF left
    <3> QED BY <1>1, <1>2, <2>1, <2>2, <2>5, AbsentAssumption, AgentInvStep
  <2> QED BY <2>1, <2>2, <2>4, <2>6, WiderStep
<1>7. CASE seen[Agent(a)] # Absent /\ UnreadyCaps(a) # {} /\ EndWithStatus(a, WaitingForCaps(a), left)
  BY <1>6, <1>7, StatusTypes DEF AllReady
<1>8. CASE seen[Agent(a)] # Absent /\ UnreadyWorkspaces(a) # {}
           /\ EndWithStatus(a, WaitingForWorkspaces(a), left)
  BY <1>6, <1>8, StatusTypes DEF AllReady
<1> QED BY <1>3, <1>4, <1>5, <1>7, <1>8 DEF BeginAgent, EnsureWorkspaces

\* A reconcile under way goes on, and does not touch the clones.
LEMMA CheckWorkspacesStep ==
  ASSUME StoreInv, CacheInv, AgentWorkInv, ClonedInv, AgentInv, UNCHANGED cloned,
         CheckWorkspaces
  PROVE  Step({"agent"}, {"agent"}) /\ AgentWorkInv' /\ ClonedInv' /\ AgentInv'
<1> PICK a \in Agents : a = agentWork.key
  BY DEF CheckWorkspaces, AgentAt, AgentWorkInv
<1>1. /\ a \in Agents /\ a = agentWork.key /\ agentWork.pc = "workspaces"
      /\ UNCHANGED <<refs, seen, timers, mishaps, leftOut>>
  BY DEF CheckWorkspaces, AgentAt, AgentWorkInv
<1>2. CASE UnreadyWorkspaces(a) # {} /\ EndWithStatus(a, WaitingForWorkspaces(a), queue)
  <2>1. /\ Step({"agent"}, {"agent"}) /\ queue \subseteq queue' /\ agentWork' = NoAgentWork
        /\ seen[Agent(a)] # Absent /\ Agent(a) \notin queue' /\ Agent(a) \notin behind' =>
             WaitingForWorkspaces(a) = seen[Agent(a)]
    BY <1>1, <1>2, StatusStep, StatusTypes
  <2>2. AgentWorkInv' /\ agentWork'.key = Absent /\ agentWork'.pc = "idle"
    BY <1>1, <2>1 DEF AgentWorkInv, NoAgentWork
  <2>3. /\ \A w \in Workspaces : /\ stored'[Workspace(w)] = stored[Workspace(w)]
                                 /\ stored'[Clone(w)] = stored[Clone(w)]
    BY <2>1, Kinds, KeysAreObjects DEF Step, Moves
  <2>4. ClonedInv'
    BY <1>1, <2>2, <2>3 DEF ClonedInv, LooksCloned
  <2>5. seen[Agent(a)] # Absent /\ Agent(a) \notin queue' /\ Agent(a) \notin behind' => AgentFits(a)'
    BY <1>1, <1>2, <2>1, SameView, StatusTypes DEF AgentFits, AllReady
  <2>6. AgentInv'
    BY <1>1, <2>1, <2>2, <2>5, AbsentAssumption, AgentInvStep
  <2> QED BY <2>1, <2>2, <2>4, <2>6
<1>3. CASE UnreadyWorkspaces(a) = {} /\ AgentGoto("config") /\ UNCHANGED <<api, queue>>
  <2>1. Step({}, {"agent"})
    BY <1>1, <1>3, KeptMoves DEF Step, StoreInv
  <2>2. AgentWorkInv' /\ agentWork'.key = a /\ agentWork'.pc = "config" /\ MadeSoFar(a)'
    BY <1>1, <1>3, AbsentAssumption DEF AgentWorkInv, AgentGoto, MadeSoFar
  <2>3. refs[a].workspaces \subseteq cloned
    BY <1>1, <1>3, ReadyMeansCloned
  <2>4. ClonedInv'
    BY <1>1, <1>3, <2>2, <2>3 DEF ClonedInv, LooksCloned, api
  <2>5. seen[Agent(a)] # Absent /\ Agent(a) \notin queue' => UnreadyCaps(a) = {}
    BY <1>1, <1>3 DEF AgentInv
  <2>6. AgentInv'
    BY <1>1, <1>3, <2>1, <2>2, <2>5, AgentInvStep
  <2> QED BY <2>1, <2>2, <2>4, <2>6, WiderStep
<1> QED BY <1>2, <1>3 DEF CheckWorkspaces, Self

\* The content an Agent is given.
LEMMA ContentTypes ==
  ASSUME StoreInv, NEW a \in Agents, NEW out
  PROVE  ContentWithout(a, out) \in Content
<1>1. \A c \in refs[a].caps : c \in Caps /\ (PhaseOf(Capability(c)) = "Ready" =>
        seen[Capability(c)] \in CapObject \/ seen[Capability(c)] = Absent)
  BY SetupTypes, StoredTypes
<1>2. \A c \in refs[a].caps : PhaseOf(Capability(c)) = "Ready" => seen[Capability(c)] # Absent
  BY DEF PhaseOf
<1> QED BY <1>1, <1>2 DEF ContentWithout, Usable, Content, CapObject

\* An object is created, updated or left alone, or the reconcile begins again.
LEMMA ApplyStep ==
  ASSUME StoreInv, CacheInv, NEW o \in Objects, NEW desired \in ObjectsOf(o), NEW next,
         agentWork.key \in Agents,
         Apply(o, desired, seen[o] = desired, next),
         UNCHANGED <<refs, seen, timers>>, UNCHANGED mishaps \/ Mishap
  PROVE  /\ Step({o[1]}, {})
         /\ queue \subseteq queue'
         /\ \/ AgentGoto(next) /\ (o \in behind' \/ seen[o] = desired)
            \/ AgentRetries
<1>1. \/ seen[o] = desired /\ AgentGoto(next) /\ UNCHANGED <<api, queue>>
      \/ Update(o, desired) /\ seen[o] # desired /\ AgentGoto(next) /\ UNCHANGED queue
      \/ AgentRetries /\ UNCHANGED api
  BY DEF Apply
<1>2. Moves({o[1]})
  BY <1>1, KeptMoves, WriteMoves DEF Update
<1>3. queue \subseteq queue' /\ queue' \subseteq Keys
  BY <1>1, KeysAreObjects DEF AgentRetries, StoreInv, Self
<1>4. Step({o[1]}, {})
  BY <1>2, <1>3 DEF Step, StoreInv
<1>5. Update(o, desired) /\ seen[o] # desired => o \in behind'
  BY WriteIsBehind DEF Update, Current, CacheInv
<1> QED BY <1>1, <1>3, <1>4, <1>5

\* A reconcile that begins again.
LEMMA RetryStep ==
  ASSUME StoreInv, AgentWorkInv, ClonedInv, AgentInv, NEW written, Step(written, {}),
         "workspace" \notin written, "clone" \notin written,
         agentWork.pc # "idle", AgentRetries, UNCHANGED cloned,
         leftOut' \in LeftOuts, \A b \in Agents : b # agentWork.key => leftOut'[b] = leftOut[b]
  PROVE  AgentWorkInv' /\ ClonedInv' /\ AgentInv'
<1> DEFINE a == agentWork.key
<1>1. a \in Agents /\ a = agentWork.key
  BY DEF AgentWorkInv
<1>2. agentWork' = NoAgentWork /\ queue' = queue \union {Agent(a)}
  BY DEF AgentRetries, Self
<1>3. AgentWorkInv' /\ agentWork'.key = Absent /\ agentWork'.pc = "idle"
  BY <1>1, <1>2 DEF AgentWorkInv, NoAgentWork
<1>4. /\ \A w \in Workspaces : /\ stored'[Workspace(w)] = stored[Workspace(w)]
                               /\ stored'[Clone(w)] = stored[Clone(w)]
      /\ UNCHANGED <<refs, seen>>
  BY Kinds, KeysAreObjects DEF Step, Moves
<1>5. ClonedInv'
  BY <1>3, <1>4 DEF ClonedInv, LooksCloned
<1>6. Step(written, {"agent"}) /\ Agent(a) \in queue'
  BY <1>2, WiderStep
<1>7. AgentInv'
  <2> HIDE DEF a
  <2> QED BY <1>1, <1>2, <1>3, <1>6, AbsentAssumption, AgentInvStep
<1> QED BY <1>3, <1>5, <1>7

\* A reconcile that goes on to its next part.
LEMMA GotoStep ==
  ASSUME StoreInv, AgentWorkInv, ClonedInv, AgentInv, NEW written, Step(written, {}),
         "workspace" \notin written, "clone" \notin written,
         agentWork.pc \in {"config", "deploy"}, NEW next \in {"deploy", "status"},
         AgentGoto(next), UNCHANGED cloned, leftOut' \in LeftOuts,
         NEW a \in Agents, a = agentWork.key,
         \A b \in Agents : b # a => leftOut'[b] = leftOut[b],
         seen[Agent(a)] # Absent /\ Agent(a) \notin queue' => MadeSoFar(a)'
  PROVE  AgentWorkInv' /\ ClonedInv' /\ AgentInv'
<1>1. agentWork' = [agentWork EXCEPT !.pc = next]
  BY DEF AgentGoto
<1>2. agentWork'.key = a /\ agentWork'.pc = next
  BY <1>1 DEF AgentWorkInv
<1>3. AgentWorkInv'
  BY <1>1 DEF AgentWorkInv
<1>4. /\ \A w \in Workspaces : /\ stored'[Workspace(w)] = stored[Workspace(w)]
                               /\ stored'[Clone(w)] = stored[Clone(w)]
      /\ UNCHANGED <<refs, seen>>
  BY Kinds, KeysAreObjects DEF Step, Moves
<1>5. ClonedInv'
  BY <1>2, <1>4 DEF ClonedInv, LooksCloned
<1>6. seen[Agent(a)] # Absent /\ Agent(a) \notin queue' =>
        UnreadyCaps(a) = {} /\ UnreadyWorkspaces(a) = {}
  BY Kinds DEF AgentInv, Step
<1>7. Step(written, {"agent"}) /\ queue \subseteq queue'
  BY WiderStep DEF Step
<1>8. AgentInv'
  BY <1>2, <1>6, <1>7, AgentInvStep DEF AllReady
<1> QED BY <1>3, <1>5, <1>8

\* What is left out could not be read or pulled.
LEMMA ResolveTypes ==
  ASSUME NEW out, Resolve(out)
  PROVE  out \in SUBSET (Pulled \union Referred) /\ (UNCHANGED mishaps \/ Mishap)
BY DEF Resolve, Unreadable, ToPull

LEMMA ConfigMapStep ==
  ASSUME StoreInv, CacheInv, AgentWorkInv, ClonedInv, AgentInv, UNCHANGED cloned,
         NEW out, ReconcileConfigMap(out)
  PROVE  Step({"configmap"}, {}) /\ AgentWorkInv' /\ ClonedInv' /\ AgentInv'
<1> PICK a \in Agents : a = agentWork.key
  BY DEF ReconcileConfigMap, AgentAt, AgentWorkInv
<1> DEFINE o == ConfigMap(a)
           content == ContentWithout(a, out)
<1>1. /\ agentWork.pc = "config" /\ Resolve(out)
      /\ UNCHANGED <<refs, seen, timers>>
      /\ Apply(o, content, seen[o] = content, "deploy")
      /\ leftOut' = [leftOut EXCEPT ![a].config = out]
  BY DEF ReconcileConfigMap, AgentAt, Self
<1>2. out \in SUBSET (Pulled \union Referred) /\ (UNCHANGED mishaps \/ Mishap)
  BY <1>1, ResolveTypes
<1>3. content \in Content
  BY ContentTypes
<1>4. o \in Objects /\ content \in ObjectsOf(o) /\ o[1] = "configmap"
  BY <1>3, KeysAreObjects, KindTypes, Kinds
<1>5. /\ leftOut' \in LeftOuts /\ leftOut'[a].config = out
      /\ \A b \in Agents : b # a => leftOut'[b] = leftOut[b]
  BY <1>1, <1>2 DEF AgentWorkInv, LeftOuts
<1>6. /\ Step({"configmap"}, {})
      /\ \/ AgentGoto("deploy") /\ (o \in behind' \/ seen[o] = content)
         \/ AgentRetries
  <2> HIDE DEF o, content
  <2> QED BY <1>1, <1>2, <1>4, ApplyStep
<1>7. CASE AgentGoto("deploy") /\ (o \in behind' \/ seen[o] = content)
  <2>1. agentWork'.pc = "deploy"
    BY <1>7 DEF AgentGoto, AgentWorkInv
  <2>2. content' = ContentWithout(a, out)
    BY <1>1, SameView
  <2>3. Configured(a)'
    BY <1>1, <1>5, <1>7, <2>2 DEF Configured
  <2>4. MadeSoFar(a)'
    BY <2>1, <2>3 DEF MadeSoFar
  <2> HIDE DEF o, content
  <2> QED BY <1>1, <1>5, <1>6, <1>7, <2>4, GotoStep
<1>8. CASE AgentRetries
  <2> HIDE DEF o, content
  <2> QED BY <1>1, <1>5, <1>6, <1>8, RetryStep
<1> QED BY <1>6, <1>7, <1>8

\* The Deployment is made of the content and the workspaces of the cache.
LEMMA DeploymentStep ==
  ASSUME StoreInv, CacheInv, AgentWorkInv, ClonedInv, AgentInv, UNCHANGED cloned,
         NEW out, ReconcileDeployment(out)
  PROVE  /\ Step({"deployment"}, {}) /\ AgentWorkInv' /\ ClonedInv' /\ AgentInv'
         /\ MountsCloned
<1> PICK a \in Agents : a = agentWork.key
  BY DEF ReconcileDeployment, AgentAt, AgentWorkInv
<1> DEFINE o == Deployment(a)
           content == ContentWithout(a, out)
           desired == [content |-> content, mounts |-> Mounts(a),
                       ready |-> seen[o] # Absent /\ seen[o].ready]
<1>1. /\ agentWork.pc = "deploy" /\ Resolve(out)
      /\ UNCHANGED <<refs, seen, timers>>
      /\ Apply(o, desired, seen[o] = desired, "status")
      /\ leftOut' = [leftOut EXCEPT ![a].deploy = out]
  BY DEF ReconcileDeployment, AgentAt, Self
<1>2. /\ content \in Content /\ out \in SUBSET (Pulled \union Referred)
      /\ UNCHANGED mishaps \/ Mishap
  BY <1>1, ResolveTypes, ContentTypes
<1>3. desired \in DeploymentObject
  <2>1. Mounts(a) \subseteq Workspaces
    BY SetupTypes DEF Mounts
  <2>2. (seen[o] # Absent /\ seen[o].ready) \in BOOLEAN
    BY StoredTypes DEF DeploymentObject
  <2> QED BY <1>2, <2>1, <2>2 DEF DeploymentObject
<1>4. o \in Objects /\ desired \in ObjectsOf(o) /\ o[1] = "deployment"
  BY <1>3, KeysAreObjects, KindTypes, Kinds
<1>5. /\ desired # Absent /\ desired.content = content /\ desired.mounts = Mounts(a)
  BY <1>3, AbsentAssumption
<1> HIDE DEF desired
<1>6. /\ Step({"deployment"}, {})
      /\ \/ AgentGoto("status") /\ (o \in behind' \/ seen[o] = desired)
         \/ AgentRetries
  <2> HIDE DEF o
  <2> QED BY <1>1, <1>2, <1>4, ApplyStep
<1>7. /\ leftOut' \in LeftOuts /\ leftOut'[a].deploy = out /\ leftOut'[a].config = leftOut[a].config
      /\ \A b \in Agents : b # a => leftOut'[b] = leftOut[b]
  BY <1>1, <1>2 DEF AgentWorkInv, LeftOuts
<1>8. MountsCloned
  <2>1. Mounts(a) \subseteq cloned
    BY <1>1 DEF Mounts, ClonedInv
  <2>2. stored'[o] = stored[o] \/ stored'[o] = desired
    BY <1>1, <1>4 DEF Apply, Update, Write, Become, api, StoreInv
  <2>3. \A b \in Agents \ {a} : stored'[Deployment(b)] = stored[Deployment(b)]
    <3>1. \A b \in Agents \ {a} : Deployment(b) # o
      BY Kinds
    <3> HIDE DEF o
    <3> QED BY <1>1, <1>4, <3>1, KeysAreObjects DEF Apply, Update, Write, Become, api, StoreInv
  <2> QED BY <1>5, <2>1, <2>2, <2>3 DEF MountsCloned, Exists
<1>9. CASE AgentGoto("status") /\ (o \in behind' \/ seen[o] = desired)
  <2>1. ASSUME AllReady(a), Deployment(a) \notin behind'
        PROVE  /\ seen'[Deployment(a)] # Absent
               /\ seen'[Deployment(a)].mounts = refs'[a].workspaces
               /\ seen'[Deployment(a)].content = ContentWithout(a, out)'
    <3>1. seen' = seen /\ refs' = refs /\ seen[Deployment(a)] = desired
      BY <1>1, <1>9, <2>1
    <3>2. Mounts(a) = refs[a].workspaces
      BY <2>1, SetupTypes DEF AllReady, Mounts, UnreadyWorkspaces, PhaseOf
    <3>3. ContentWithout(a, out)' = ContentWithout(a, out)
      BY <3>1, SameView
    <3> QED BY <1>5, <3>1, <3>2, <3>3
  <2>2. AllReady(a) => Deployed(a)'
    BY <1>7, <2>1 DEF Deployed
  <2>3. agentWork'.pc = "status"
    BY <1>9 DEF AgentGoto, AgentWorkInv
  <2>4. seen[Agent(a)] # Absent /\ Agent(a) \notin queue' => AllReady(a) /\ Configured(a)
    BY <1>1, <1>6, Kinds DEF AgentInv, Step, AllReady, MadeSoFar
  <2>5. Configured(a) => Configured(a)'
    BY <1>1, <1>6, <1>7, SameView DEF Configured, Step, Moves, ContentWithout, Usable, PhaseOf
  <2>6. seen[Agent(a)] # Absent /\ Agent(a) \notin queue' => MadeSoFar(a)'
    BY <2>2, <2>3, <2>4, <2>5 DEF MadeSoFar
  <2> HIDE DEF o, content
  <2> QED BY <1>1, <1>6, <1>7, <1>8, <1>9, <2>6, GotoStep
<1>10. CASE AgentRetries
  BY <1>1, <1>6, <1>7, <1>8, <1>10, RetryStep
<1> QED BY <1>6, <1>9, <1>10

LEMMA AgentFailsStep ==
  ASSUME StoreInv, AgentWorkInv, ClonedInv, AgentInv, UNCHANGED cloned, AgentFails
  PROVE  Step({}, {}) /\ AgentWorkInv' /\ ClonedInv' /\ AgentInv'
<1>1. /\ agentWork.pc # "idle" /\ agentWork.key \in Agents
      /\ AgentRetries /\ Mishap
      /\ UNCHANGED <<refs, api, seen, timers, leftOut>>
  BY DEF AgentFails, AgentAt, AgentWorkInv
<1>2. queue \subseteq queue' /\ queue' \subseteq Keys
  BY <1>1, KeysAreObjects DEF AgentRetries, StoreInv, Self
<1>3. Step({}, {})
  BY <1>1, <1>2, KeptMoves DEF Step, StoreInv
<1>4. leftOut' = leftOut /\ leftOut' \in LeftOuts
  BY <1>1 DEF AgentWorkInv
<1> QED BY <1>1, <1>3, <1>4, RetryStep

LEMMA WriteRunningStep ==
  ASSUME StoreInv, CacheInv, AgentWorkInv, ClonedInv, AgentInv, UNCHANGED cloned, WriteRunning
  PROVE  Step({"agent"}, {"agent"}) /\ AgentWorkInv' /\ ClonedInv' /\ AgentInv'
<1> PICK a \in Agents : a = agentWork.key
  BY DEF WriteRunning, AgentAt, AgentWorkInv
<1>1. /\ agentWork.pc = "status" /\ EndWithStatus(a, Running(a), queue)
      /\ UNCHANGED <<refs, seen, timers, mishaps, leftOut>>
  BY DEF WriteRunning, AgentAt, Self
<1>2. /\ Step({"agent"}, {"agent"}) /\ queue \subseteq queue' /\ agentWork' = NoAgentWork
      /\ seen[Agent(a)] # Absent /\ Agent(a) \notin queue' /\ Agent(a) \notin behind' =>
           Running(a) = seen[Agent(a)]
  BY <1>1, StatusStep, StatusTypes
<1>3. AgentWorkInv' /\ agentWork'.key = Absent /\ agentWork'.pc = "idle"
  BY <1>1, <1>2 DEF AgentWorkInv, NoAgentWork
<1>4. /\ \A w \in Workspaces : /\ stored'[Workspace(w)] = stored[Workspace(w)]
                               /\ stored'[Clone(w)] = stored[Clone(w)]
      /\ behind \subseteq behind'
  BY <1>2, Kinds, KeysAreObjects DEF Step, Moves
<1>5. ClonedInv'
  BY <1>1, <1>3, <1>4 DEF ClonedInv, LooksCloned
<1>6. ASSUME seen[Agent(a)] # Absent, Agent(a) \notin queue', Agent(a) \notin behind'
      PROVE  AgentFits(a)
  <2>1. AllReady(a) /\ Configured(a) /\ Deployed(a)
    BY <1>1, <1>2, <1>6 DEF AgentInv, AllReady, MadeSoFar
  <2>2. seen[Agent(a)].phase = IF seen[Deployment(a)] # Absent /\ seen[Deployment(a)].ready
                               THEN "Running" ELSE "Pending"
    BY <1>2, <1>6, StatusTypes
  <2>3. Deployment(a) \notin behind =>
          seen[Deployment(a)] # Absent /\ seen[Deployment(a)].ready \in BOOLEAN
    BY <2>1, StoredTypes DEF Deployed, DeploymentObject
  <2> QED BY <2>1, <2>2, <2>3 DEF AgentFits
<1>7. AgentFits(a) => AgentFits(a)'
  BY <1>1, <1>4, SameFit
<1>8. AgentInv'
  BY <1>1, <1>2, <1>3, <1>6, <1>7, AbsentAssumption, AgentInvStep
<1> QED BY <1>2, <1>3, <1>5, <1>8

LEMMA AgentWorkerInv ==
  ASSUME IInv, AgentWorker
  PROVE  IInv' /\ MountsCloned
<1>1. StoreInv /\ WorkInv /\ AgentWorkInv /\ CacheInv /\ DueInv /\ ClonedInv /\ CapInv /\ AgentInv
  BY DEF IInv, WorkInv
<1>2. UNCHANGED <<capWork, repoWork, workspaceWork, cloned>>
  BY DEF AgentWorker, gitVars
<1>3. /\ Step({"agent", "workspace", "configmap", "deployment"}, {"agent"})
      /\ AgentWorkInv' /\ ClonedInv' /\ AgentInv' /\ MountsCloned
  <2>1. CASE \E a \in Agents : BeginAgent(a)
    BY <1>1, <1>2, <2>1, BeginAgentStep, WiderStep, MovesKeepMounts DEF Step
  <2>2. CASE CheckWorkspaces \/ WriteRunning
    BY <1>1, <1>2, <2>2, CheckWorkspacesStep, WriteRunningStep, WiderStep, MovesKeepMounts DEF Step
  <2>3. CASE \E out \in SUBSET Caps : ReconcileConfigMap(out)
    BY <1>1, <1>2, <2>3, ConfigMapStep, WiderStep, MovesKeepMounts DEF Step
  <2>4. CASE \E out \in SUBSET Caps : ReconcileDeployment(out)
    BY <1>1, <1>2, <2>4, DeploymentStep, WiderStep
  <2>5. CASE AgentFails
    <3>1. Step({}, {}) /\ AgentWorkInv' /\ ClonedInv' /\ AgentInv'
      BY <1>1, <1>2, <2>5, AgentFailsStep
    <3>2. MountsCloned
      BY <3>1, MovesKeepMounts DEF Step
    <3> QED BY <3>1, <3>2, WiderStep
  <2> QED BY <2>1, <2>2, <2>3, <2>4, <2>5 DEF AgentWorker, ReconcileAgent
<1>4. StoreInv' /\ CacheInv'
  BY <1>1, <1>3, StepStore, StepCache
<1>5. DueInv' /\ CapInv'
  BY <1>1, <1>2, <1>3, DueKept, CapKept
<1>6. WorkInv'
  BY <1>1, <1>2, <1>3 DEF WorkInv, IInv, CapWorkInv, RepoWorkInv, WorkspaceWorkInv
<1> QED BY <1>3, <1>4, <1>5, <1>6 DEF IInv

-----------------------------------------------------------------------------
(* The controllers of GitRepos and GitWorkspaces.                           *)

\* A phase written to an object of the cache.
LEMMA RewriteStep ==
  ASSUME StoreInv, CacheInv, NEW o \in Objects, NEW phase, Rewrite(o, phase),
         [seen[o] EXCEPT !.phase = phase] \in ObjectsOf(o)
  PROVE  /\ Moves({o[1]})
         /\ stored[o] = seen[o]
         /\ stored'[o] = [seen[o] EXCEPT !.phase = phase]
         /\ \A p \in Objects \ {o} : stored'[p] = stored[p]
<1> DEFINE status == [seen[o] EXCEPT !.phase = phase]
<1>1. status \in ObjectsOf(o) /\ (Write(o, status) \/ Touch(o, status)) /\ stored[o] = seen[o]
  BY DEF Rewrite, Current, CacheInv
<1> HIDE DEF status
<1>2. /\ Moves({o[1]}) /\ stored'[o] = status /\ \A p \in Objects \ {o} : stored'[p] = stored[p]
  BY <1>1, WriteMoves, TouchMoves
<1> QED BY <1>1, <1>2 DEF status

LEMMA RepoRewriteStep ==
  ASSUME StoreInv, CacheInv, NEW phase \in RepoPhases, Rewrite(GitRepo, phase),
         seen[GitRepo] # Absent
  PROVE  Moves({"gitrepo"})
<1>1. seen[GitRepo] \in RepoObject
  BY StoredTypes
<1>2. [seen[GitRepo] EXCEPT !.phase = phase] \in ObjectsOf(GitRepo)
  BY <1>1, KindTypes DEF RepoObject
<1> QED BY <1>2, RewriteStep, KeysAreObjects, Kinds

LEMMA BeginRepoStep ==
  ASSUME StoreInv, CacheInv, RepoWorkInv, BeginRepo
  PROVE  Step({"gitrepo"}, {"gitrepo"}) /\ RepoWorkInv' /\ UNCHANGED <<workspaceWork, cloned>>
<1> DEFINE copy == seen[GitRepo]
<1>1. UNCHANGED <<refs, seen, timers, mishaps, workspaceWork, cloned>>
  BY DEF BeginRepo
<1>2. /\ \/ UNCHANGED api
         \/ copy # Absent /\ \E phase \in {"Failed", "Syncing"} : Rewrite(GitRepo, phase)
      /\ UNCHANGED repoWork \/ (copy # Absent /\ Discovering(copy))
      /\ queue' = queue \/ queue' = queue \ {GitRepo}
  BY DEF BeginRepo
<1>3. Moves({"gitrepo"})
  BY <1>2, KeptMoves, RepoRewriteStep DEF RepoPhases
<1>4. Step({"gitrepo"}, {"gitrepo"})
  BY <1>1, <1>2, <1>3, Kinds DEF Step, StoreInv
<1>5. RepoWorkInv'
  <2>1. CASE UNCHANGED repoWork
    BY <2>1 DEF RepoWorkInv
  <2>2. CASE copy # Absent /\ Discovering(copy)
    <3>1. [copy EXCEPT !.phase = "Syncing"] \in RepoObject
      BY <2>2, StoredTypes DEF RepoObject, RepoPhases
    <3> HIDE DEF copy
    <3> QED BY <2>2, <3>1 DEF Discovering, RepoWorkInv, Current
  <2> QED BY <1>2, <2>1, <2>2
<1> QED BY <1>1, <1>4, <1>5

LEMMA EndRepoStep ==
  ASSUME StoreInv, RepoWorkInv, NEW phase \in RepoPhases, NEW found \in BOOLEAN,
         EndRepo(phase, found), UNCHANGED mishaps \/ Mishap
  PROVE  Step({"gitrepo"}, {}) /\ RepoWorkInv' /\ UNCHANGED <<workspaceWork, cloned>>
<1> DEFINE v == [repoWork.base EXCEPT !.phase = phase, !.found = found]
<1>1. /\ repoWork.pc = "discover" /\ repoWork' = NoRepoWork
      /\ UNCHANGED <<refs, seen, workspaceWork, cloned>>
      /\ \/ /\ Write(GitRepo, v)
            /\ timers' = timers \union {k \in {GitRepo} : phase = "Ready"}
            /\ UNCHANGED queue
         \/ queue' = queue \union {GitRepo} /\ UNCHANGED <<api, timers>>
  BY DEF EndRepo
<1>2. v \in ObjectsOf(GitRepo)
  BY <1>1, KindTypes DEF RepoWorkInv, RepoObject
<1> HIDE DEF v
<1>3. Moves({"gitrepo"})
  BY <1>1, <1>2, KeptMoves, WriteMoves, KeysAreObjects, Kinds
<1>4. /\ queue \subseteq queue' /\ queue' \subseteq Keys
      /\ timers \subseteq timers' /\ timers' \subseteq Keys
  BY <1>1, KeysAreObjects DEF StoreInv
<1>5. Step({"gitrepo"}, {})
  BY <1>1, <1>3, <1>4 DEF Step
<1>6. RepoWorkInv'
  BY <1>1 DEF NoRepoWork, RepoWorkInv
<1> QED BY <1>1, <1>5, <1>6

LEMMA RepoWorkerInv ==
  ASSUME IInv, RepoWorker
  PROVE  IInv' /\ MountsCloned
<1>1. StoreInv /\ WorkInv /\ RepoWorkInv /\ CacheInv /\ DueInv /\ ClonedInv /\ CapInv /\ AgentInv
  BY DEF IInv, WorkInv
<1>2. UNCHANGED <<capWork, agentVars, agentWork, leftOut>>
  BY DEF RepoWorker, agentVars
<1>3. Step({"gitrepo"}, {"gitrepo"}) /\ RepoWorkInv' /\ UNCHANGED <<workspaceWork, cloned>>
  <2>1. CASE BeginRepo
    BY <1>1, <2>1, BeginRepoStep
  <2>2. CASE Discover \/ DiscoverOthers \/ DiscoverFails
    <3>1. repoWork.pc = "discover" => repoWork.base.found \in BOOLEAN
      BY <1>1 DEF RepoWorkInv, RepoObject
    <3>2. \E phase \in RepoPhases, found \in BOOLEAN : EndRepo(phase, found)
      BY <2>2, <3>1 DEF Discover, DiscoverOthers, DiscoverFails, RepoPhases, EndRepo
    <3>3. UNCHANGED mishaps \/ Mishap
      BY <2>2 DEF Discover, DiscoverOthers, DiscoverFails
    <3> QED BY <1>1, <3>2, <3>3, EndRepoStep, WiderStep
  <2> QED BY <2>1, <2>2 DEF RepoWorker, ReconcileRepo
<1>4. StoreInv' /\ CacheInv'
  BY <1>1, <1>3, StepStore, StepCache
<1>5. DueInv' /\ ClonedInv' /\ CapInv' /\ AgentInv'
  BY <1>1, <1>2, <1>3, DueKept, ClonedKept, CapKept, AgentKept
<1>6. WorkInv'
  BY <1>1, <1>2, <1>3 DEF WorkInv, IInv, CapWorkInv, AgentWorkInv, WorkspaceWorkInv
<1>7. MountsCloned
  BY <1>3, MovesKeepMounts DEF Step
<1> QED BY <1>4, <1>5, <1>6, <1>7 DEF IInv

\* A step of the reconcile of a workspace disturbs what is due of it alone.
LEMMA DueStep ==
  ASSUME DueInv, NEW written, Step(written, {"workspace"}), NEW w \in Workspaces,
         workspaceWork.key \notin Workspaces \ {w}, workspaceWork'.key \notin Workspaces \ {w},
         timers \subseteq timers',
         \A v \in Workspaces : v # w /\ Workspace(v) \in queue => Workspace(v) \in queue',
         \/ seen[Workspace(w)] = Absent
         \/ workspaceWork'.key = w \/ Workspace(w) \in queue' \union timers'
  PROVE  DueInv'
<1>1. seen' = seen
  BY DEF Step
<1>2. ASSUME NEW v \in Workspaces, seen'[Workspace(v)] # Absent, workspaceWork'.key # v
      PROVE  Workspace(v) \in queue' \union timers'
  <2>1. CASE v = w
    BY <1>1, <1>2, <2>1
  <2>2. CASE v # w
    BY <1>1, <1>2, <2>2 DEF DueInv
  <2> QED BY <2>1, <2>2
<1> QED BY <1>2 DEF DueInv

\* What newly looks cloned has been.
LEMMA ClonedStep ==
  ASSUME ClonedInv, NEW written, NEW taken, Step(written, taken), UNCHANGED agentWork,
         cloned \subseteq cloned', \A w \in Workspaces : LooksCloned(stored, w)' => w \in cloned'
  PROVE  ClonedInv'
<1>1. UNCHANGED <<refs, seen>>
  BY DEF Step
<1>2. \A w : LooksCloned(seen, w)' <=> LooksCloned(seen, w)
  BY <1>1 DEF LooksCloned
<1> QED BY <1>1, <1>2 DEF ClonedInv

LEMMA WorkspaceRewriteStep ==
  ASSUME StoreInv, CacheInv, ClonedInv, NEW w \in Workspaces,
         NEW phase \in {"Pending", "Cloning", "Ready", "Error"},
         Rewrite(Workspace(w), phase), seen[Workspace(w)] # Absent, UNCHANGED cloned,
         phase = "Ready" => w \in cloned
  PROVE  /\ Moves({"workspace"})
         /\ \A v \in Workspaces : LooksCloned(stored, v)' => v \in cloned'
<1> DEFINE status == [seen[Workspace(w)] EXCEPT !.phase = phase]
<1>1. seen[Workspace(w)] \in WorkspaceObject
  BY StoredTypes
<1>2. status \in ObjectsOf(Workspace(w)) /\ status.phase = phase
  BY <1>1, KindTypes DEF WorkspaceObject
<1>3. /\ Moves({"workspace"})
      /\ stored'[Workspace(w)] = status
      /\ \A o \in Objects \ {Workspace(w)} : stored'[o] = stored[o]
  <2>1. Workspace(w) \in Objects /\ Workspace(w)[1] = "workspace"
    BY KeysAreObjects, Kinds
  <2>2. [seen[Workspace(w)] EXCEPT !.phase = phase] \in ObjectsOf(Workspace(w))
    BY <1>2
  <2> QED BY <2>1, <2>2, RewriteStep
<1> HIDE DEF status
<1>4. ASSUME NEW v \in Workspaces, LooksCloned(stored, v)' PROVE v \in cloned'
  <2>1. stored'[Clone(v)] = stored[Clone(v)]
    <3>1. Clone(v) # Workspace(w) /\ Clone(v) \in Objects
      BY Kinds, KeysAreObjects
    <3> QED BY <1>3, <3>1
  <2>2. CASE v = w
    BY <1>2, <1>3, <1>4, <2>1, <2>2 DEF LooksCloned, ClonedInv
  <2>3. CASE v # w
    <3>1. Workspace(v) # Workspace(w) /\ Workspace(v) \in Objects
      BY <2>3, Kinds, KeysAreObjects
    <3> QED BY <1>3, <1>4, <2>1, <3>1 DEF LooksCloned, ClonedInv
  <2> QED BY <2>2, <2>3
<1> QED BY <1>3, <1>4

\* The two ends of a reconcile.
LEMMA EndErrorStep ==
  ASSUME StoreInv, CacheInv, ClonedInv, NEW w \in Workspaces, NEW left,
         EndWithError(w, left), seen[Workspace(w)] # Absent,
         UNCHANGED <<refs, seen, mishaps, cloned>>,
         left \subseteq queue, \A k \in queue : k[1] # "workspace" => k \in left
  PROVE  /\ Step({"workspace"}, {"workspace"})
         /\ left \subseteq queue' /\ timers \subseteq timers'
         /\ Workspace(w) \in queue' \union timers'
         /\ \A v \in Workspaces : LooksCloned(stored, v)' => v \in cloned'
<1> DEFINE o == Workspace(w)
<1>1. o \in Keys
  BY KeysAreObjects
<1>2. \/ Rewrite(o, "Error") /\ timers' = timers \union {o} /\ queue' = left
      \/ queue' = left \union {o} /\ UNCHANGED <<api, timers>>
  BY DEF EndWithError
<1>3. Moves({"workspace"}) /\ \A v \in Workspaces : LooksCloned(stored, v)' => v \in cloned'
  <2>1. CASE Rewrite(o, "Error")
    BY <2>1, WorkspaceRewriteStep
  <2>2. CASE UNCHANGED api
    BY <2>2, KeptMoves DEF ClonedInv, LooksCloned, api
  <2> QED BY <1>2, <2>1, <2>2
<1> HIDE DEF o
<1>4. /\ left \subseteq queue' /\ queue' \subseteq Keys
      /\ timers \subseteq timers' /\ timers' \subseteq Keys
      /\ o \in queue' \union timers'
  BY <1>1, <1>2 DEF StoreInv
<1>5. Step({"workspace"}, {"workspace"})
  BY <1>3, <1>4 DEF Step
<1> QED BY <1>3, <1>4, <1>5 DEF o

LEMMA EndPhaseStep ==
  ASSUME StoreInv, CacheInv, ClonedInv, NEW w \in Workspaces, NEW left,
         EndWithPhase(w, left), UNCHANGED <<refs, seen, mishaps, cloned>>,
         left \subseteq queue, \A k \in queue : k[1] # "workspace" => k \in left
  PROVE  /\ Step({"workspace"}, {"workspace"})
         /\ left \subseteq queue' /\ timers \subseteq timers'
         /\ Workspace(w) \in timers'
         /\ \A v \in Workspaces : LooksCloned(stored, v)' => v \in cloned'
<1> DEFINE o == Workspace(w)
<1>1. o \in Keys
  BY KeysAreObjects
<1>2. /\ timers' = timers \union {o} /\ queue' = left
      /\ (seen[o] # Absent /\ Rewrite(o, ClonePhase(w))) \/ UNCHANGED api
  BY DEF EndWithPhase
<1>3. /\ ClonePhase(w) \in {"Pending", "Cloning", "Ready", "Error"}
      /\ ClonePhase(w) = "Ready" => w \in cloned
  <2>1. ClonePhase(w) = "Ready" => seen[Clone(w)] = "available"
    BY DEF ClonePhase
  <2> QED BY <2>1 DEF ClonePhase, ClonedInv, LooksCloned
<1>4. Moves({"workspace"}) /\ \A v \in Workspaces : LooksCloned(stored, v)' => v \in cloned'
  <2>1. CASE seen[o] # Absent /\ Rewrite(o, ClonePhase(w))
    BY <1>3, <2>1, WorkspaceRewriteStep
  <2>2. CASE UNCHANGED api
    BY <2>2, KeptMoves DEF ClonedInv, LooksCloned, api
  <2> QED BY <1>2, <2>1, <2>2
<1> HIDE DEF o
<1>5. /\ left \subseteq queue' /\ queue' \subseteq Keys
      /\ timers \subseteq timers' /\ timers' \subseteq Keys /\ o \in timers'
  BY <1>1, <1>2 DEF StoreInv
<1>6. Step({"workspace"}, {"workspace"})
  BY <1>4, <1>5 DEF Step
<1> QED BY <1>4, <1>5, <1>6 DEF o

LEMMA CloneWriteStep ==
  ASSUME StoreInv, ClonedInv, NEW w \in Workspaces, NEW s \in CloneObject, Write(Clone(w), s),
         cloned \subseteq cloned', s = "available" => w \in cloned'
  PROVE  /\ Moves({"clone"})
         /\ \A v \in Workspaces : LooksCloned(stored, v)' => v \in cloned'
<1>1. s \in ObjectsOf(Clone(w)) /\ Clone(w) \in Objects /\ Clone(w)[1] = "clone"
  BY KindTypes, KeysAreObjects, Kinds
<1>2. /\ Moves({"clone"}) /\ stored'[Clone(w)] = s
      /\ \A o \in Objects \ {Clone(w)} : stored'[o] = stored[o]
  BY <1>1, WriteMoves
<1>3. ASSUME NEW v \in Workspaces, LooksCloned(stored, v)' PROVE v \in cloned'
  <2>1. stored'[Workspace(v)] = stored[Workspace(v)]
    <3>1. Workspace(v) # Clone(w) /\ Workspace(v) \in Objects
      BY Kinds, KeysAreObjects
    <3> QED BY <1>2, <3>1
  <2>2. CASE v = w
    BY <1>2, <1>3, <2>1, <2>2 DEF LooksCloned, ClonedInv
  <2>3. CASE v # w
    <3>1. Clone(v) # Clone(w) /\ Clone(v) \in Objects
      BY <2>3, Kinds, KeysAreObjects
    <3> QED BY <1>2, <1>3, <2>1, <3>1 DEF LooksCloned, ClonedInv
  <2> QED BY <2>2, <2>3
<1> QED BY <1>2, <1>3

LEMMA BeginWorkspaceStep ==
  ASSUME StoreInv, CacheInv, WorkspaceWorkInv, DueInv, ClonedInv, UNCHANGED agentWork,
         NEW w \in Workspaces, BeginWorkspace(w)
  PROVE  /\ Step({"workspace", "clone"}, {"workspace"})
         /\ WorkspaceWorkInv' /\ DueInv' /\ ClonedInv' /\ UNCHANGED repoWork
<1> DEFINE left == queue \ {Workspace(w)}
<1>1. /\ workspaceWork.pc = "idle" /\ workspaceWork.key \notin Workspaces
      /\ UNCHANGED <<refs, seen, mishaps, repoWork, cloned>>
  BY AbsentAssumption DEF BeginWorkspace, WorkspaceWorkInv
<1>2. /\ left \subseteq queue /\ \A k \in queue : k[1] # "workspace" => k \in left
      /\ \A v \in Workspaces : v # w /\ Workspace(v) \in queue => Workspace(v) \in left
  BY Kinds
<1>3. CASE seen[Workspace(w)] = Absent
  <2>1. queue' = left /\ UNCHANGED <<api, timers, workspaceWork>>
    BY <1>3 DEF BeginWorkspace, CreateClone
  <2>2. Step({}, {"workspace"})
    BY <1>1, <1>2, <2>1, KeptMoves DEF Step, StoreInv
  <2>3. DueInv'
    <3> HIDE DEF left
    <3> QED BY <1>1, <1>2, <1>3, <2>1, <2>2, DueStep
  <2>4. ClonedInv'
    BY <1>1, <2>1, <2>2, ClonedKept
  <2> QED BY <1>1, <2>1, <2>2, <2>3, <2>4, WiderStep DEF WorkspaceWorkInv
<1>4. CASE seen[Workspace(w)] # Absent /\ EndWithError(w, left) /\ UNCHANGED workspaceWork
  <2>1. /\ Step({"workspace"}, {"workspace"})
        /\ left \subseteq queue' /\ timers \subseteq timers'
        /\ Workspace(w) \in queue' \union timers'
        /\ \A v \in Workspaces : LooksCloned(stored, v)' => v \in cloned'
    <3> HIDE DEF left
    <3> QED BY <1>1, <1>2, <1>4, EndErrorStep
  <2>2. DueInv' /\ ClonedInv'
    <3> HIDE DEF left
    <3> QED BY <1>1, <1>2, <1>4, <2>1, DueStep, ClonedStep
  <2> QED BY <1>1, <1>4, <2>1, <2>2, WiderStep DEF WorkspaceWorkInv
<1>5. CASE EndWithPhase(w, left) /\ UNCHANGED workspaceWork
  <2>1. /\ Step({"workspace"}, {"workspace"})
        /\ left \subseteq queue' /\ timers \subseteq timers'
        /\ Workspace(w) \in timers'
        /\ \A v \in Workspaces : LooksCloned(stored, v)' => v \in cloned'
    <3> HIDE DEF left
    <3> QED BY <1>1, <1>2, <1>5, EndPhaseStep
  <2>2. DueInv' /\ ClonedInv'
    <3> HIDE DEF left
    <3> QED BY <1>1, <1>2, <1>5, <2>1, DueStep, ClonedStep
  <2> QED BY <1>1, <1>5, <2>1, <2>2, WiderStep DEF WorkspaceWorkInv
<1>6. CASE /\ Write(Clone(w), "unscheduled") /\ workspaceWork' = [pc |-> "status", key |-> w]
           /\ queue' = left /\ UNCHANGED timers
  <2>1. "unscheduled" \in CloneObject
    BY DEF CloneObject
  <2>2. Moves({"clone"}) /\ \A v \in Workspaces : LooksCloned(stored, v)' => v \in cloned'
    BY <1>1, <1>6, <2>1, CloneWriteStep
  <2>3. Step({"clone"}, {"workspace"})
    BY <1>1, <1>2, <1>6, <2>2 DEF Step, StoreInv
  <2>4. workspaceWork'.key = w
    BY <1>6
  <2>5. DueInv' /\ ClonedInv'
    <3> HIDE DEF left
    <3> QED BY <1>1, <1>2, <1>6, <2>2, <2>3, <2>4, DueStep, ClonedStep
  <2>6. WorkspaceWorkInv'
    BY <1>1, <1>6, AbsentAssumption DEF WorkspaceWorkInv
  <2>7. Step({"workspace", "clone"}, {"workspace"})
    BY <2>3, WiderStep
  <2> QED BY <1>1, <2>5, <2>6, <2>7
<1> QED BY <1>3, <1>4, <1>5, <1>6 DEF BeginWorkspace, CreateClone

LEMMA EndWorkspaceStep ==
  ASSUME StoreInv, CacheInv, WorkspaceWorkInv, DueInv, ClonedInv, UNCHANGED agentWork,
         EndWorkspace
  PROVE  /\ Step({"workspace"}, {"workspace"})
         /\ WorkspaceWorkInv' /\ DueInv' /\ ClonedInv' /\ UNCHANGED repoWork
<1> PICK w \in Workspaces : w = workspaceWork.key
  BY DEF EndWorkspace, WorkspaceWorkInv
<1>1. /\ workspaceWork' = NoWorkspaceWork /\ EndWithPhase(w, queue)
      /\ UNCHANGED <<refs, seen, mishaps, repoWork, cloned>>
  BY DEF EndWorkspace
<1>2. /\ Step({"workspace"}, {"workspace"})
      /\ queue \subseteq queue' /\ timers \subseteq timers'
      /\ Workspace(w) \in timers'
      /\ \A v \in Workspaces : LooksCloned(stored, v)' => v \in cloned'
  BY <1>1, EndPhaseStep
<1>3. workspaceWork'.key = Absent /\ WorkspaceWorkInv'
  BY <1>1 DEF NoWorkspaceWork, WorkspaceWorkInv
<1>4. DueInv' /\ ClonedInv'
  BY <1>1, <1>2, <1>3, AbsentAssumption, DueStep, ClonedStep
<1> QED BY <1>1, <1>2, <1>3, <1>4

LEMMA WorkspaceWorkerInv ==
  ASSUME IInv, WorkspaceWorker
  PROVE  IInv' /\ MountsCloned
<1>1. /\ StoreInv /\ WorkInv /\ WorkspaceWorkInv /\ CacheInv /\ DueInv /\ ClonedInv
      /\ CapInv /\ AgentInv
  BY DEF IInv, WorkInv
<1>2. UNCHANGED <<capWork, agentVars, agentWork, leftOut>>
  BY DEF WorkspaceWorker, agentVars
<1>3. /\ Step({"workspace", "clone"}, {"workspace"})
      /\ WorkspaceWorkInv' /\ DueInv' /\ ClonedInv' /\ UNCHANGED repoWork
  BY <1>1, <1>2, BeginWorkspaceStep, EndWorkspaceStep, WiderStep
     DEF WorkspaceWorker, ReconcileWorkspace
<1>4. StoreInv' /\ CacheInv'
  BY <1>1, <1>3, StepStore, StepCache
<1>5. CapInv' /\ AgentInv'
  BY <1>1, <1>2, <1>3, CapKept, AgentKept
<1>6. WorkInv'
  BY <1>1, <1>2, <1>3 DEF WorkInv, IInv, CapWorkInv, AgentWorkInv, RepoWorkInv
<1>7. MountsCloned
  BY <1>3, MovesKeepMounts DEF Step
<1> QED BY <1>3, <1>4, <1>5, <1>6, <1>7 DEF IInv

-----------------------------------------------------------------------------
(* Users and pods.                                                          *)

\* What they do to one object, while the workers stand still.
LEMMA OutsideInv ==
  ASSUME IInv, NEW written, Moves(written), "workspace" \notin written, "clone" \notin written,
         UNCHANGED <<refs, seen, queue, timers, capWork, agentWork, leftOut, workspaceWork,
                     cloned>>,
         UNCHANGED mishaps \/ Mishap, RepoWorkInv'
  PROVE  IInv' /\ ("deployment" \notin written => MountsCloned)
<1>1. StoreInv /\ WorkInv /\ CacheInv /\ DueInv /\ ClonedInv /\ CapInv /\ AgentInv
  BY DEF IInv
<1>2. Step(written, {})
  BY <1>1 DEF Step, StoreInv
<1>3. StoreInv' /\ CacheInv'
  BY <1>1, <1>2, StepStore, StepCache
<1>4. DueInv' /\ ClonedInv' /\ CapInv' /\ AgentInv'
  BY <1>1, <1>2, DueKept, ClonedKept, CapKept, AgentKept DEF agentVars
<1>5. WorkInv'
  BY <1>1 DEF WorkInv, CapWorkInv, AgentWorkInv, WorkspaceWorkInv
<1> QED BY <1>3, <1>4, <1>5, MovesKeepMounts DEF IInv

\* What they do to a workspace and its clone.
LEMMA OutsideCloneInv ==
  ASSUME IInv, NEW written, Moves(written),
         UNCHANGED <<refs, seen, queue, timers, capWork, agentWork, leftOut, repoWork,
                     workspaceWork>>,
         UNCHANGED mishaps \/ Mishap, cloned \subseteq cloned', cloned' \subseteq Workspaces,
         \A w \in Workspaces : LooksCloned(stored, w)' => w \in cloned'
  PROVE  IInv' /\ ("deployment" \notin written => MountsCloned)
<1>1. StoreInv /\ WorkInv /\ CacheInv /\ DueInv /\ ClonedInv /\ CapInv /\ AgentInv
  BY DEF IInv
<1>2. Step(written, {})
  BY <1>1 DEF Step, StoreInv
<1>3. StoreInv' /\ CacheInv'
  BY <1>1, <1>2, StepStore, StepCache
<1>4. DueInv' /\ ClonedInv' /\ CapInv' /\ AgentInv'
  BY <1>1, <1>2, DueKept, ClonedStep, CapKept, AgentKept DEF agentVars
<1>5. WorkInv'
  BY <1>1 DEF WorkInv, CapWorkInv, AgentWorkInv, RepoWorkInv, WorkspaceWorkInv
<1> QED BY <1>3, <1>4, <1>5, MovesKeepMounts DEF IInv

LEMMA CreateAgentInv ==
  ASSUME IInv, NEW a \in Agents, CreateAgent(a), UNCHANGED <<capWork, gitVars>>
  PROVE  IInv' /\ MountsCloned
<1>1. StoreInv /\ RepoWorkInv
  BY DEF IInv, WorkInv
<1>2. NewAgent \in AgentObject
  BY DEF NewAgent, AgentObject, Unset, Condition
<1>3. Write(Agent(a), NewAgent) /\ UNCHANGED <<refs, seen, queue, timers, mishaps, agentVars>>
  BY DEF CreateAgent
<1>4. Moves({"agent"})
  BY <1>1, <1>2, <1>3, WriteMoves, KindTypes, KeysAreObjects, Kinds
<1> QED BY <1>1, <1>3, <1>4, OutsideInv DEF agentVars, gitVars, RepoWorkInv

LEMMA EditCapInv ==
  ASSUME IInv, NEW c \in Caps, EditCap(c), UNCHANGED <<agentVars, gitVars>>
  PROVE  IInv' /\ MountsCloned
<1> DEFINE o == Capability(c)
<1>1. StoreInv /\ RepoWorkInv
  BY DEF IInv, WorkInv
<1>2. Mishap /\ UNCHANGED <<refs, seen, queue, timers, capWork>>
  BY DEF EditCap
<1>3. o \in Objects /\ o[1] = "capability" /\ ObjectsOf(o) = {Absent} \union CapObject
  BY KeysAreObjects, KindTypes, Kinds
<1>4. CASE \E v \in CapObject : Write(o, v)
  <2> HIDE DEF o
  <2>1. Moves({"capability"})
    BY <1>1, <1>3, <1>4, WriteMoves
  <2> QED BY <1>1, <1>2, <2>1, OutsideInv DEF agentVars, gitVars, RepoWorkInv
<1>5. CASE Become([stored EXCEPT ![Capability(c)] = Absent, ![Server(c)] = Absent])
  <2> DEFINE objects == [stored EXCEPT ![Capability(c)] = Absent, ![Server(c)] = Absent]
  <2>1. /\ objects = [p \in Objects |-> objects[p]]
        /\ \A p \in Objects : objects[p] = stored[p] \/ objects[p] = Absent
        /\ \A p \in Objects : p # Capability(c) /\ p # Server(c) => objects[p] = stored[p]
    BY <1>1 DEF StoreInv
  <2> HIDE DEF objects
  <2>2. \A p \in Objects : objects[p] \in ObjectsOf(p)
    BY <1>1, <2>1, KindTypes DEF StoreInv
  <2>3. \A p \in Objects : p[1] \notin {"capability", "server"} => objects[p] = stored[p]
    BY <2>1, Kinds
  <2>4. Become(objects)
    BY <1>5 DEF objects
  <2>5. Moves({"capability", "server"})
    BY <1>1, <2>1, <2>2, <2>3, <2>4, BecomeMoves
  <2> QED BY <1>1, <1>2, <2>5, OutsideInv DEF agentVars, gitVars, RepoWorkInv
<1>6. \/ \E s \in Specs : Write(o, NewCap(s))
      \/ /\ stored[o] # Absent
         /\ \E s \in Specs : Write(o, [stored[o] EXCEPT !.spec = s])
      \/ Become([stored EXCEPT ![Capability(c)] = Absent, ![Server(c)] = Absent])
  BY DEF EditCap
<1>7. \A s \in Specs : NewCap(s) \in CapObject
  BY DEF NewCap, CapObject, Phases
<1>8. stored[o] # Absent => \A s \in Specs : [stored[o] EXCEPT !.spec = s] \in CapObject
  BY <1>1, StoredTypes DEF CapObject
<1> HIDE DEF o
<1> QED BY <1>4, <1>5, <1>6, <1>7, <1>8

LEMMA SourceInv ==
  ASSUME IInv, NEW c \in Caps, CreateSource(c) \/ DeleteSource(c), UNCHANGED <<agentVars, gitVars>>
  PROVE  IInv' /\ MountsCloned
<1>1. StoreInv /\ RepoWorkInv
  BY DEF IInv, WorkInv
<1>2. /\ \E v \in {"readable", Absent} : Write(Source(c), v)
      /\ UNCHANGED <<refs, seen, queue, timers, capWork>>
      /\ UNCHANGED mishaps \/ Mishap
  BY DEF CreateSource, DeleteSource
<1>3. Moves({"source"})
  BY <1>1, <1>2, WriteMoves, KindTypes, KeysAreObjects, Kinds DEF SourceObject
<1> QED BY <1>1, <1>2, <1>3, OutsideInv DEF agentVars, gitVars, RepoWorkInv

LEMMA RepoUserInv ==
  ASSUME IInv, CreateRepo \/ EditRepo, UNCHANGED <<capWork, agentVars>>
  PROVE  IInv' /\ MountsCloned
<1>1. StoreInv /\ RepoWorkInv
  BY DEF IInv, WorkInv
<1>2. /\ UNCHANGED <<refs, seen, queue, timers, workspaceWork, cloned>>
      /\ UNCHANGED mishaps \/ Mishap
  BY DEF CreateRepo, EditRepo, gitVars
<1>3. RepoWorkInv'
  <2>1. CASE CreateRepo
    BY <1>1, <2>1 DEF CreateRepo, gitVars, RepoWorkInv
  <2>2. CASE EditRepo
    BY <1>1, <2>2 DEF EditRepo, RepoWorkInv
  <2> QED BY <2>1, <2>2
<1>4. \E v \in ObjectsOf(GitRepo) : Write(GitRepo, v)
  <2>1. NewRepo(TRUE) \in RepoObject
    BY DEF NewRepo, RepoObject, RepoPhases
  <2>2. stored[GitRepo] # Absent =>
          [stored[GitRepo] EXCEPT !.valid = ~stored[GitRepo].valid] \in RepoObject
    BY <1>1, StoredTypes DEF RepoObject
  <2>3. ObjectsOf(GitRepo) = {Absent} \union RepoObject
    BY KindTypes
  <2>4. CASE CreateRepo
    BY <2>1, <2>3, <2>4 DEF CreateRepo
  <2>5. CASE EditRepo
    BY <2>2, <2>3, <2>5 DEF EditRepo
  <2> QED BY <2>4, <2>5
<1>5. Moves({"gitrepo"})
  BY <1>1, <1>4, WriteMoves, KeysAreObjects, Kinds
<1> QED BY <1>2, <1>3, <1>5, OutsideInv DEF agentVars

LEMMA WorkspaceUserInv ==
  ASSUME IInv, NEW w \in Workspaces, CreateWorkspace(w) \/ DeleteWorkspace(w),
         UNCHANGED <<capWork, agentVars>>
  PROVE  IInv' /\ MountsCloned
<1> DEFINE
      created == [stored EXCEPT ![Workspace(w)] = NewWorkspace]
      deleted == [stored EXCEPT ![Workspace(w)] = Absent, ![Clone(w)] = Absent]
      objects == IF CreateWorkspace(w) THEN created ELSE deleted
<1>1. StoreInv /\ ClonedInv /\ cloned \subseteq Workspaces
  BY DEF IInv, WorkInv, WorkspaceWorkInv
<1>2. /\ UNCHANGED <<refs, seen, queue, timers, gitVars>>
      /\ UNCHANGED mishaps \/ Mishap
      /\ Become(objects)
  BY DEF CreateWorkspace, DeleteWorkspace, gitVars, Write
<1>3. /\ objects = [p \in Objects |-> objects[p]]
      /\ \A p \in Objects : p # Workspace(w) /\ p # Clone(w) => objects[p] = stored[p]
      /\ objects[Workspace(w)] \in {Absent, NewWorkspace}
      /\ objects[Clone(w)] \in {Absent, stored[Clone(w)]}
  <2>1. Workspace(w) \in Objects /\ Clone(w) \in Objects /\ Workspace(w) # Clone(w)
    BY KeysAreObjects, Kinds
  <2>2. /\ created = [p \in Objects |-> created[p]]
        /\ \A p \in Objects : p # Workspace(w) => created[p] = stored[p]
        /\ created[Workspace(w)] = NewWorkspace
    BY <1>1, <2>1 DEF StoreInv
  <2>3. /\ deleted = [p \in Objects |-> deleted[p]]
        /\ \A p \in Objects : p # Workspace(w) /\ p # Clone(w) => deleted[p] = stored[p]
        /\ deleted[Workspace(w)] = Absent /\ deleted[Clone(w)] = Absent
    BY <1>1, <2>1 DEF StoreInv
  <2> HIDE DEF created, deleted
  <2> QED BY <2>1, <2>2, <2>3
<1> HIDE DEF objects
<1>4. NewWorkspace \in WorkspaceObject /\ NewWorkspace.phase # "Ready"
  BY DEF NewWorkspace, WorkspaceObject
<1>5. \A p \in Objects : objects[p] \in ObjectsOf(p)
  <2>1. objects[Workspace(w)] \in ObjectsOf(Workspace(w))
    BY <1>3, <1>4, KindTypes
  <2>2. objects[Clone(w)] \in ObjectsOf(Clone(w))
    BY <1>1, <1>3, StoredTypes, KindTypes
  <2> QED BY <1>1, <1>3, <2>1, <2>2 DEF StoreInv
<1>6. \A p \in Objects : p[1] \notin {"workspace", "clone"} => objects[p] = stored[p]
  BY <1>3, Kinds
<1>7. Moves({"workspace", "clone"})
  BY <1>1, <1>2, <1>3, <1>5, <1>6, BecomeMoves
<1>8. stored' = objects
  BY <1>2 DEF Become
<1>9. Absent # "available"
  BY AbsentAssumption DEF CloneObject
<1>10. ASSUME NEW v \in Workspaces, LooksCloned(stored, v)' PROVE v \in cloned
  <2>1. CASE v = w
    BY <1>1, <1>3, <1>4, <1>8, <1>9, <1>10, <2>1 DEF LooksCloned, ClonedInv
  <2>2. CASE v # w
    <3>1. /\ Workspace(v) \in Objects /\ Clone(v) \in Objects
          /\ Workspace(v) # Workspace(w) /\ Workspace(v) # Clone(w)
          /\ Clone(v) # Workspace(w) /\ Clone(v) # Clone(w)
      BY <2>2, Kinds, KeysAreObjects
    <3> QED BY <1>1, <1>3, <1>8, <1>10, <3>1 DEF LooksCloned, ClonedInv
  <2> QED BY <2>1, <2>2
<1> QED BY <1>1, <1>2, <1>7, <1>10, OutsideCloneInv DEF gitVars, agentVars

LEMMA UsersInv ==
  ASSUME IInv, Users
  PROVE  IInv' /\ MountsCloned
BY CreateAgentInv, EditCapInv, SourceInv, RepoUserInv, WorkspaceUserInv DEF Users

LEMMA PodsInv ==
  ASSUME IInv, Pods
  PROVE  IInv' /\ MountsCloned
<1>1. StoreInv /\ RepoWorkInv /\ ClonedInv /\ cloned \subseteq Workspaces
  BY DEF IInv, WorkInv, WorkspaceWorkInv
<1>2. ASSUME NEW c \in Caps, ServerComesUp(c) \/ ServerGoesDown(c), UNCHANGED <<agentVars, gitVars>>
      PROVE  IInv' /\ MountsCloned
  <2>1. /\ stored[Server(c)] # Absent
        /\ \E b \in BOOLEAN : Write(Server(c), [stored[Server(c)] EXCEPT !.available = b])
        /\ UNCHANGED mishaps \/ Mishap
        /\ UNCHANGED <<refs, seen, queue, timers, capWork>>
    BY <1>2 DEF ServerComesUp, ServerGoesDown
  <2>2. \A b \in BOOLEAN : [stored[Server(c)] EXCEPT !.available = b] \in ObjectsOf(Server(c))
    BY <1>1, <2>1, StoredTypes, KindTypes DEF ServerObject
  <2>3. Moves({"server"})
    BY <1>1, <2>1, <2>2, WriteMoves, KeysAreObjects, Kinds
  <2> QED BY <1>1, <1>2, <2>1, <2>3, OutsideInv DEF agentVars, gitVars, RepoWorkInv
<1>3. ASSUME NEW a \in Agents, PodsComeUp(a) \/ PodsGoDown(a), UNCHANGED <<capWork, gitVars>>
      PROVE  IInv' /\ MountsCloned
  <2>1. /\ stored[Deployment(a)] # Absent
        /\ \E b \in BOOLEAN : Write(Deployment(a), [stored[Deployment(a)] EXCEPT !.ready = b])
        /\ UNCHANGED mishaps \/ Mishap
        /\ UNCHANGED <<refs, seen, queue, timers, agentVars>>
    BY <1>3 DEF PodsComeUp, PodsGoDown
  <2>2. \A b \in BOOLEAN : [stored[Deployment(a)] EXCEPT !.ready = b] \in ObjectsOf(Deployment(a))
    BY <1>1, <2>1, StoredTypes, KindTypes DEF DeploymentObject
  <2>3. Moves({"deployment"})
    BY <1>1, <2>1, <2>2, WriteMoves, KeysAreObjects, Kinds
  <2>4. /\ stored'[Deployment(a)].mounts = stored[Deployment(a)].mounts
        /\ \A b \in Agents \ {a} : stored'[Deployment(b)] = stored[Deployment(b)]
    <3>1. stored[Deployment(a)] \in DeploymentObject
      BY <1>1, <2>1, StoredTypes
    <3>2. \A b \in Agents \ {a} : Deployment(b) # Deployment(a)
      BY Kinds
    <3> QED BY <1>1, <2>1, <3>1, <3>2, KeysAreObjects DEF Write, Become, StoreInv, DeploymentObject
  <2>5. MountsCloned
    BY <2>1, <2>4 DEF MountsCloned, Exists
  <2> QED BY <1>1, <1>3, <2>1, <2>3, <2>5, OutsideInv DEF agentVars, gitVars, RepoWorkInv
<1>4. ASSUME NEW w \in Workspaces, CloneAdvances(w) \/ CloneFails(w), UNCHANGED <<capWork, agentVars>>
      PROVE  IInv' /\ MountsCloned
  <2>1. /\ \E s \in CloneObject : Write(Clone(w), s) /\ (s = "available" => w \in cloned')
        /\ UNCHANGED mishaps \/ Mishap
        /\ UNCHANGED <<refs, seen, queue, timers, repoWork, workspaceWork>>
        /\ cloned \subseteq cloned' /\ cloned' \subseteq Workspaces
    BY <1>1, <1>4 DEF CloneAdvances, CloneFails, CloneObject, gitVars
  <2>2. Moves({"clone"}) /\ \A v \in Workspaces : LooksCloned(stored, v)' => v \in cloned'
    BY <1>1, <2>1, CloneWriteStep
  <2> QED BY <1>4, <2>1, <2>2, OutsideCloneInv DEF agentVars
<1> QED BY <1>2, <1>3, <1>4 DEF Pods

-----------------------------------------------------------------------------
(* Deliveries, timers and restarts.                                         *)

\* Whom a delivery wakes.
LEMMA Wakes ==
  ASSUME StoreInv, NEW o \in Objects, Deliver(o)
  PROVE  /\ queue \subseteq queue' /\ queue' \subseteq Keys
         /\ o \in Keys => o \in queue'
         /\ \A c \in Caps : o = Server(c) => Capability(c) \in queue'
         /\ \A a \in Agents : o = ConfigMap(a) \/ o = Deployment(a) => Agent(a) \in queue'
         /\ \A a \in Agents : seen[Agent(a)] # Absent =>
              /\ \A c \in refs[a].caps : o = Capability(c) => Agent(a) \in queue'
              /\ \A w \in refs[a].workspaces : o = Workspace(w) => Agent(a) \in queue'
<1>1. queue' = queue \union Itself(o) \union Owner(o) \union Watchers(o)
  BY DEF Deliver
<1>2. Itself(o) \subseteq Keys /\ (o \in Keys => o \in Itself(o))
  BY DEF Itself
<1>3. Owner(o) \subseteq Keys
  BY ObjectKinds, KeysAreObjects, Kinds DEF Owner
<1>4. Watchers(o) \subseteq Keys
  <2>1. \A c : CapUsers(c) \subseteq Agents
    BY DEF CapUsers
  <2>2. \A w : Consumers(w) \subseteq Agents
    BY DEF Consumers
  <2>3. \A a \in Agents : WorkspacesOf(a) \subseteq Keys
    BY SetupTypes, KeysAreObjects DEF WorkspacesOf
  <2>4. AllWorkspaces \subseteq Keys
    BY KeysAreObjects DEF AllWorkspaces
  <2>5. CASE o[1] = "capability"
    BY <2>1, <2>5, KeysAreObjects DEF Watchers
  <2>6. CASE o[1] = "agent"
    BY <2>3, <2>6, ObjectKinds DEF Watchers
  <2>7. CASE o[1] = "gitrepo"
    BY <2>4, <2>7 DEF Watchers
  <2>8. CASE o[1] = "workspace"
    BY <2>2, <2>8, KeysAreObjects DEF Watchers
  <2>9. CASE o[1] \notin {"capability", "agent", "gitrepo", "workspace"}
    BY <2>9 DEF Watchers
  <2> QED BY <2>5, <2>6, <2>7, <2>8, <2>9
<1>5. \A c \in Caps : o = Server(c) => Capability(c) \in Owner(o)
  BY Kinds DEF Owner
<1>6. \A a \in Agents : o = ConfigMap(a) \/ o = Deployment(a) => Agent(a) \in Owner(o)
  BY Kinds DEF Owner
<1>7. \A a \in Agents : seen[Agent(a)] # Absent =>
        \A c \in refs[a].caps : o = Capability(c) => Agent(a) \in Watchers(o)
  BY Kinds DEF Watchers, CapUsers
<1>8. \A a \in Agents : seen[Agent(a)] # Absent =>
        \A w \in refs[a].workspaces : o = Workspace(w) => Agent(a) \in Watchers(o)
  BY Kinds DEF Watchers, Consumers
<1> QED BY <1>1, <1>2, <1>3, <1>4, <1>5, <1>6, <1>7, <1>8 DEF StoreInv

LEMMA DeliverInv ==
  ASSUME IInv, NEW o \in Objects, Deliver(o), UNCHANGED <<capWork, agentVars, gitVars>>
  PROVE  IInv'
<1>1. StoreInv /\ WorkInv /\ CacheInv /\ DueInv /\ ClonedInv /\ CapInv /\ AgentInv
  BY DEF IInv
<1>2. /\ UNCHANGED <<refs, stored, timers, mishaps, capWork, agentWork, leftOut, repoWork,
                     workspaceWork, cloned>>
      /\ behind' = behind \ {o}
  BY DEF Deliver, agentVars, gitVars
<1>3. /\ seen' = [p \in Objects |-> seen'[p]]
      /\ seen'[o] = stored[o] /\ \A p \in Objects \ {o} : seen'[p] = seen[p]
  BY <1>1 DEF Deliver, StoreInv
<1>4. StoreInv'
  <2>1. \A p \in Objects : seen'[p] \in ObjectsOf(p)
    BY <1>1, <1>3 DEF StoreInv
  <2>2. queue' \subseteq Keys
    BY <1>1, Wakes
  <2> QED BY <1>1, <1>2, <1>3, <2>1, <2>2 DEF StoreInv, ObjectsOf
<1>5. WorkInv'
  BY <1>1, <1>2 DEF WorkInv, CapWorkInv, AgentWorkInv, RepoWorkInv, WorkspaceWorkInv
<1>6. CacheInv'
  BY <1>1, <1>2, <1>3 DEF CacheInv
<1>7. DueInv'
  <2> SUFFICES ASSUME NEW w \in Workspaces, seen'[Workspace(w)] # Absent, workspaceWork'.key # w
               PROVE  Workspace(w) \in queue' \union timers'
    BY DEF DueInv
  <2> QED BY <1>1, <1>2, <1>3, Wakes, KeysAreObjects DEF DueInv
<1>8. ClonedInv'
  <2>1. ASSUME NEW w \in Workspaces, LooksCloned(seen, w)'
        PROVE  LooksCloned(stored, w) \/ LooksCloned(seen, w)
    BY <1>3, <2>1, KeysAreObjects DEF LooksCloned
  <2>2. \A w : LooksCloned(stored, w)' <=> LooksCloned(stored, w)
    BY <1>2 DEF LooksCloned
  <2> QED BY <1>1, <1>2, <2>1, <2>2 DEF ClonedInv
<1>9. CapInv'
  <2> SUFFICES ASSUME NEW c \in Caps, seen'[Capability(c)] # Absent, Capability(c) \notin queue'
               PROVE  IF capWork'.key = c
                      THEN /\ capWork'.spec = seen'[Capability(c)].spec
                           /\ capWork'.pc = "server" => c \in Servers /\ capWork'.spec \in Valid
                           /\ capWork'.pc # "server" /\ ~capWork'.retry => CapFits(c, capWork.pc)'
                      ELSE Capability(c) \notin behind' => CapFits(c, seen[Capability(c)].phase)'
    BY DEF CapInv
  <2>1. o # Capability(c) /\ o # Server(c) /\ Capability(c) \notin queue
    BY <1>1, Wakes, KeysAreObjects
  <2>2. seen'[Capability(c)] = seen[Capability(c)] /\ seen'[Server(c)] = seen[Server(c)]
    BY <1>3, <2>1, KeysAreObjects
  <2>3. \A p : CapFits(c, p) =>
          /\ (p = "Ready") = (seen'[Capability(c)].spec \in Valid /\
               (c \in Servers => seen'[Server(c)] # Absent /\ seen'[Server(c)].available))
          /\ (p = "Failed") = (seen'[Capability(c)].spec \notin Valid)
    BY <2>2 DEF CapFits
  <2>4. CASE capWork.key = c
    BY <1>1, <1>2, <2>1, <2>2, <2>3, <2>4 DEF CapInv, CapFits
  <2>5. CASE capWork.key # c
    <3>1. Capability(c) \notin behind' => CapFits(c, seen[Capability(c)].phase)
      BY <1>1, <1>2, <2>1, <2>2, <2>5 DEF CapInv
    <3>2. Capability(c) \notin behind' => CapFits(c, seen[Capability(c)].phase)'
      BY <2>2, <3>1 DEF CapFits
    <3> QED BY <1>2, <2>5, <3>2
  <2> QED BY <2>4, <2>5
<1>10. AgentInv'
  <2> SUFFICES ASSUME NEW a \in Agents, seen'[Agent(a)] # Absent, Agent(a) \notin queue'
               PROVE  IF agentWork'.key = a
                      THEN /\ UnreadyCaps(a)' = {}
                           /\ agentWork'.pc # "workspaces" => UnreadyWorkspaces(a)' = {}
                           /\ MadeSoFar(a)'
                      ELSE Agent(a) \notin behind' => AgentFits(a)'
    BY DEF AgentInv
  <2>1. /\ o # Agent(a) /\ o # ConfigMap(a) /\ o # Deployment(a) /\ Agent(a) \notin queue
        /\ seen'[Agent(a)] = seen[Agent(a)] /\ seen'[ConfigMap(a)] = seen[ConfigMap(a)]
        /\ seen'[Deployment(a)] = seen[Deployment(a)]
    BY <1>1, <1>3, Wakes, KeysAreObjects
  <2>2. /\ \A c \in refs[a].caps : seen'[Capability(c)] = seen[Capability(c)]
        /\ \A w \in refs[a].workspaces : seen'[Workspace(w)] = seen[Workspace(w)]
    BY <1>1, <1>3, <2>1, Wakes, KeysAreObjects, SetupTypes
  <2>3. /\ UnreadyCaps(a)' = UnreadyCaps(a) /\ UnreadyWorkspaces(a)' = UnreadyWorkspaces(a)
        /\ \A out : ContentWithout(a, out)' = ContentWithout(a, out)
    BY <1>2, <2>2 DEF UnreadyCaps, UnreadyWorkspaces, ContentWithout, Usable, PhaseOf
  <2>4. /\ Agent(a) \notin behind' => Agent(a) \notin behind
        /\ ConfigMap(a) \notin behind' => ConfigMap(a) \notin behind
        /\ Deployment(a) \notin behind' => Deployment(a) \notin behind
    BY <1>2, <2>1
  <2>5. Deployed(a) => Deployed(a)'
    BY <1>2, <2>1, <2>2, <2>4 DEF Deployed, ContentWithout, Usable, PhaseOf
  <2>6. Configured(a) => Configured(a)'
    BY <1>2, <2>1, <2>2, <2>4 DEF Configured, ContentWithout, Usable, PhaseOf
  <2>7. AgentFits(a) => AgentFits(a)'
    BY <1>2, <2>1, <2>3, <2>4, <2>5, <2>6 DEF AgentFits, AllReady
  <2>8. MadeSoFar(a) => MadeSoFar(a)'
    BY <1>2, <2>5, <2>6 DEF MadeSoFar
  <2> QED BY <1>1, <1>2, <2>1, <2>3, <2>4, <2>7, <2>8 DEF AgentInv
<1> QED BY <1>4, <1>5, <1>6, <1>7, <1>8, <1>9, <1>10 DEF IInv

LEMMA TimerInv ==
  ASSUME IInv, NEW o \in Keys, Timer(o)
  PROVE  IInv'
<1>1. StoreInv /\ WorkInv /\ CacheInv /\ DueInv /\ ClonedInv /\ CapInv /\ AgentInv
  BY DEF IInv
<1>2. /\ UNCHANGED <<refs, api, seen, mishaps, capWork, agentVars, agentWork, leftOut,
                     repoWork, workspaceWork, cloned>>
      /\ timers' = timers \ {o} /\ queue' = queue \union {o}
  BY DEF Timer, TimerFires, agentVars, gitVars
<1>3. Step({}, {})
  BY <1>1, <1>2, KeptMoves DEF Step, StoreInv
<1>4. StoreInv' /\ CacheInv'
  BY <1>1, <1>3, StepStore, StepCache
<1>5. DueInv' /\ ClonedInv' /\ CapInv' /\ AgentInv'
  BY <1>1, <1>2, <1>3, DueKept, ClonedKept, CapKept, AgentKept
<1>6. WorkInv'
  BY <1>1, <1>2 DEF WorkInv, CapWorkInv, AgentWorkInv, RepoWorkInv, WorkspaceWorkInv
<1> QED BY <1>4, <1>5, <1>6 DEF IInv

\* After a restart everything that exists is queued.
LEMMA RestartInv ==
  ASSUME IInv, Restart
  PROVE  IInv'
<1>1. StoreInv /\ WorkInv /\ ClonedInv
  BY DEF IInv
<1>2. /\ seen' = stored /\ stored' = stored /\ behind' = {} /\ timers' = {}
      /\ queue' = {o \in Keys : stored[o] # Absent}
      /\ capWork' = NoCapWork /\ agentWork' = NoAgentWork
      /\ repoWork' = NoRepoWork /\ workspaceWork' = NoWorkspaceWork
      /\ UNCHANGED <<refs, leftOut, cloned>> /\ Mishap
  BY DEF Restart, Exists
<1>3. StoreInv'
  <2>1. mishaps' \in Nat /\ \A a \in Agents : mishaps' <= refs[a].mishaps
    BY <1>1, <1>2, SetupTypes DEF Mishap, StoreInv
  <2> QED BY <1>1, <1>2, <2>1 DEF StoreInv, ObjectsOf
<1>4. WorkInv'
  BY <1>1, <1>2 DEF WorkInv, CapWorkInv, AgentWorkInv, RepoWorkInv, WorkspaceWorkInv,
     NoCapWork, NoAgentWork, NoRepoWork, NoWorkspaceWork
<1>5. CacheInv'
  BY <1>2 DEF CacheInv
<1>6. DueInv'
  BY <1>2, KeysAreObjects DEF DueInv
<1>7. ClonedInv'
  <2>1. agentWork'.pc = "idle"
    BY <1>2 DEF NoAgentWork
  <2> QED BY <1>1, <1>2, <2>1 DEF ClonedInv, LooksCloned
<1>8. CapInv'
  BY <1>2, KeysAreObjects DEF CapInv
<1>9. AgentInv'
  BY <1>2, KeysAreObjects DEF AgentInv
<1> QED BY <1>3, <1>4, <1>5, <1>6, <1>7, <1>8, <1>9 DEF IInv

LEMMA InitInv == Init => IInv
<1> SUFFICES ASSUME Init PROVE IInv
  OBVIOUS
<1>1. /\ seen = [o \in Objects |-> Absent] /\ behind = {o \in Objects : stored[o] # Absent}
      /\ queue = {} /\ timers = {} /\ mishaps = 0
      /\ capWork = NoCapWork /\ agentWork = NoAgentWork
      /\ leftOut = [a \in Agents |-> [config |-> {}, deploy |-> {}]]
      /\ repoWork = NoRepoWork /\ workspaceWork = NoWorkspaceWork /\ cloned = {}
      /\ refs \in [Agents -> Setups]
  BY DEF Init, Exists
<1>2. PICK created \in SUBSET {o \in UserObjects : InUse(o)}, s \in Specs :
        stored = [o \in Objects |->
          IF o \notin created THEN Absent
          ELSE CASE o[1] = "capability" -> NewCap(s)
                 [] o[1] = "source" -> "readable"
                 [] o[1] = "agent" -> NewAgent
                 [] OTHER -> NewRepo(TRUE)]
  BY DEF Init
<1>3. /\ NewCap(s) \in CapObject /\ NewAgent \in AgentObject /\ NewRepo(TRUE) \in RepoObject
  BY DEF NewCap, CapObject, Phases, NewAgent, AgentObject, Unset, Condition, NewRepo,
     RepoObject, RepoPhases
<1>4. \A o \in created : o[1] \in {"capability", "source", "agent", "gitrepo"}
  BY Kinds DEF UserObjects
<1>5. /\ stored = [o \in Objects |-> stored[o]]
      /\ \A o \in Objects : \/ stored[o] = Absent
                            \/ o[1] = "capability" /\ stored[o] = NewCap(s)
                            \/ o[1] = "source" /\ stored[o] = "readable"
                            \/ o[1] = "agent" /\ stored[o] = NewAgent
                            \/ o[1] = "gitrepo" /\ stored[o] = NewRepo(TRUE)
  <2>1. stored = [o \in Objects |-> stored[o]]
    BY <1>2
  <2>2. ASSUME NEW o \in Objects, stored[o] # Absent
        PROVE  \/ o[1] = "capability" /\ stored[o] = NewCap(s)
               \/ o[1] = "source" /\ stored[o] = "readable"
               \/ o[1] = "agent" /\ stored[o] = NewAgent
               \/ o[1] = "gitrepo" /\ stored[o] = NewRepo(TRUE)
    <3>1. o \in created
      BY <1>2, <2>2
    <3>2. CASE o[1] = "capability"
      BY <1>2, <3>1, <3>2
    <3>3. CASE o[1] = "agent"
      BY <1>2, <3>1, <3>3
    <3>4. CASE o[1] = "gitrepo"
      BY <1>2, <3>1, <3>4
    <3>5. CASE o[1] = "source"
      BY <1>2, <3>1, <3>5
    <3> QED BY <1>4, <3>1, <3>2, <3>3, <3>4, <3>5
  <2> QED BY <2>1, <2>2
<1>6. ASSUME NEW o \in Objects PROVE stored[o] \in ObjectsOf(o)
  <2>1. CASE stored[o] = Absent
    BY <2>1, KindTypes
  <2>2. CASE o[1] = "capability" /\ stored[o] = NewCap(s)
    <3>1. o = Capability(o[2])
      BY <2>2, ObjectKinds
    <3> QED BY <1>3, <2>2, <3>1, KindTypes
  <2>3. CASE o[1] = "agent" /\ stored[o] = NewAgent
    <3>1. o = Agent(o[2])
      BY <2>3, ObjectKinds
    <3> QED BY <1>3, <2>3, <3>1, KindTypes
  <2>4. CASE o[1] = "gitrepo" /\ stored[o] = NewRepo(TRUE)
    <3>1. o = GitRepo
      BY <2>4, ObjectKinds
    <3> QED BY <1>3, <2>4, <3>1, KindTypes
  <2>5. CASE o[1] = "source" /\ stored[o] = "readable"
    <3>1. o = Source(o[2])
      BY <2>5, ObjectKinds
    <3> QED BY <2>5, <3>1, KindTypes DEF SourceObject
  <2> QED BY <1>5, <2>1, <2>2, <2>3, <2>4, <2>5
<1>7. StoreInv
  <2>1. \A a \in Agents : refs[a].mishaps \in Nat
    BY <1>1, ClusterAssumption
  <2>2. \A o \in Objects : seen[o] \in ObjectsOf(o)
    BY <1>1, KindTypes
  <2> QED BY <1>1, <1>5, <1>6, <2>1, <2>2 DEF StoreInv
<1>8. WorkInv
  BY <1>1 DEF WorkInv, CapWorkInv, AgentWorkInv, RepoWorkInv, WorkspaceWorkInv,
     NoCapWork, NoAgentWork, NoRepoWork, NoWorkspaceWork, LeftOuts
<1>9. CacheInv
  BY <1>1 DEF CacheInv
<1>10. DueInv /\ CapInv /\ AgentInv
  BY <1>1, KeysAreObjects DEF DueInv, CapInv, AgentInv
<1>11. ClonedInv
  <2>1. agentWork.pc = "idle"
    BY <1>1 DEF NoAgentWork
  <2>2. Absent # "available"
    BY AbsentAssumption DEF CloneObject
  <2>3. \A w \in Workspaces : stored[Workspace(w)] = Absent /\ stored[Clone(w)] = Absent
    BY <1>5, Kinds, KeysAreObjects
  <2>4. \A w \in Workspaces : seen[Workspace(w)] = Absent /\ seen[Clone(w)] = Absent
    BY <1>1, KeysAreObjects
  <2> QED BY <2>1, <2>2, <2>3, <2>4 DEF ClonedInv, LooksCloned
<1> QED BY <1>7, <1>8, <1>9, <1>10, <1>11 DEF IInv

LEMMA StutterInv ==
  ASSUME IInv, UNCHANGED vars
  PROVE  IInv'
<1>1. StoreInv /\ WorkInv /\ CacheInv /\ DueInv /\ ClonedInv /\ CapInv /\ AgentInv
  BY DEF IInv
<1>2. UNCHANGED <<refs, api, seen, queue, timers, mishaps, capWork, agentVars, agentWork,
                  leftOut, repoWork, workspaceWork, cloned>>
  BY DEF vars, clusterVars, agentVars, gitVars
<1>3. Step({}, {})
  BY <1>1, <1>2, KeptMoves DEF Step, StoreInv
<1>4. StoreInv' /\ CacheInv'
  BY <1>1, <1>3, StepStore, StepCache
<1>5. DueInv' /\ ClonedInv' /\ CapInv' /\ AgentInv'
  BY <1>1, <1>2, <1>3, DueKept, ClonedKept, CapKept, AgentKept
<1>6. WorkInv'
  BY <1>1, <1>2 DEF WorkInv, CapWorkInv, AgentWorkInv, RepoWorkInv, WorkspaceWorkInv
<1> QED BY <1>4, <1>5, <1>6 DEF IInv

LEMMA NextInv == IInv /\ [Next]_vars => IInv'
<1> SUFFICES ASSUME IInv, [Next]_vars PROVE IInv'
  OBVIOUS
<1>1. CASE Informers
  BY <1>1, DeliverInv DEF Informers
<1>2. CASE \E o \in Keys : Timer(o)
  BY <1>2, TimerInv
<1>3. CASE CapWorker \/ AgentWorker \/ RepoWorker \/ WorkspaceWorker
  BY <1>3, CapWorkerInv, AgentWorkerInv, RepoWorkerInv, WorkspaceWorkerInv
<1>4. CASE Users \/ Pods
  BY <1>4, UsersInv, PodsInv
<1>5. CASE Restart
  BY <1>5, RestartInv
<1>6. CASE UNCHANGED vars
  BY <1>6, StutterInv
<1> QED BY <1>1, <1>2, <1>3, <1>4, <1>5, <1>6 DEF Next

LEMMA InvHolds == Spec => []IInv
BY InitInv, NextInv, PTL DEF Spec

-----------------------------------------------------------------------------
(* Theorems.                                                                *)

\* Every object, cache and reconcile is one the code could hold, for every set
\* of Agents, capabilities, workspaces and setups (the types of
\* agent_types.go, capability_types.go, gitrepo_types.go, gitworkspace_types.go).
THEOREM ReadinessTypes == Spec => []TypeOK
<1>1. IInv => TypeOK
  BY InvTypes DEF IInv
<1> QED BY <1>1, InvHolds, PTL

\* No wake-up of a capability is lost: once nobody has queued it, its phase is
\* the one its spec and its server give it (capability_controller.go:40-97,
\* 525-563).
THEOREM CapabilitiesSettle == Spec => []CapabilitySettled
<1>1. IInv => CapabilitySettled
  <2> SUFFICES ASSUME IInv, NEW c \in Caps, stored[Capability(c)] # Absent,
                      Settled(Capability(c), {Server(c)}, capWork.key # c)
               PROVE  /\ (stored[Capability(c)].phase = "Ready")
                           = (stored[Capability(c)].spec \in Valid /\ IsServed(c))
                      /\ (stored[Capability(c)].phase = "Failed")
                           = (stored[Capability(c)].spec \notin Valid)
    BY DEF CapabilitySettled
  <2>1. /\ Capability(c) \notin queue /\ capWork.key # c
        /\ Capability(c) \notin behind /\ Server(c) \notin behind
    BY DEF Settled, Current
  <2>2. /\ seen[Capability(c)] = stored[Capability(c)] /\ seen[Server(c)] = stored[Server(c)]
    BY <2>1, KeysAreObjects DEF IInv, CacheInv
  <2>3. CapFits(c, seen[Capability(c)].phase)
    BY <2>1, <2>2 DEF IInv, CapInv
  <2> QED BY <2>2, <2>3 DEF CapFits, IsServed, Exists
<1> QED BY <1>1, InvHolds, PTL

\* Nor one of an Agent: once nobody has queued it, it waits for what is not
\* ready, or its ConfigMap and its Deployment are made of all that is, but for
\* what was not to be had when each was made, and its phase is that of its pods
\* (agent_controller.go:44-123, 246, 269, 917-941).
THEOREM AgentsSettle == Spec => []AgentSettled
<1>1. IInv => AgentSettled
  <2> SUFFICES ASSUME IInv, NEW a \in Agents, stored[Agent(a)] # Absent,
                      Settled(Agent(a), AgentLooksAt(a), agentWork.key # a)
               PROVE  IF AllReady(a)
                      THEN /\ stored[ConfigMap(a)] = ContentWithout(a, leftOut[a].config)
                           /\ stored[Deployment(a)] # Absent
                           /\ stored[Deployment(a)].mounts = refs[a].workspaces
                           /\ stored[Deployment(a)].content = ContentWithout(a, leftOut[a].deploy)
                           /\ (stored[Agent(a)].phase = "Running") = stored[Deployment(a)].ready
                      ELSE stored[Agent(a)].phase = "Pending"
    BY DEF AgentSettled
  <2>1. /\ Agent(a) \notin queue /\ agentWork.key # a
        /\ Agent(a) \notin behind /\ ConfigMap(a) \notin behind /\ Deployment(a) \notin behind
    BY DEF Settled, Current, AgentLooksAt
  <2>2. /\ seen[Agent(a)] = stored[Agent(a)] /\ seen[ConfigMap(a)] = stored[ConfigMap(a)]
        /\ seen[Deployment(a)] = stored[Deployment(a)]
    BY <2>1, KeysAreObjects DEF IInv, CacheInv
  <2>3. AgentFits(a)
    BY <2>1, <2>2 DEF IInv, AgentInv
  <2> QED BY <2>1, <2>2, <2>3 DEF AgentFits, Configured, Deployed
<1> QED BY <1>1, InvHolds, PTL

\* A workspace is not forgotten: one that exists is due to be reconciled, at
\* once or after a while (gitworkspace_controller.go:525-531, 800-803).
THEOREM WorkspacesAreDue == Spec => []WorkspaceIsDue
<1>1. IInv => WorkspaceIsDue
  BY KeysAreObjects DEF WorkspaceIsDue, IInv, DueInv, CacheInv, Exists, Current
<1> QED BY <1>1, InvHolds, PTL

\* An Agent's Deployment mounts a workspace only when its clone has been
\* finished, although the capabilities and workspaces are read again after
\* they were found ready (agent_controller.go:72-82).
THEOREM OnlyClonedIsMounted == Spec => MountsClonedOnly
<1>1. IInv /\ [Next]_vars => MountsCloned
  <2> SUFFICES ASSUME IInv, [Next]_vars PROVE MountsCloned
    OBVIOUS
  <2>1. CASE Informers \/ (\E o \in Keys : Timer(o)) \/ Restart \/ UNCHANGED vars
    <3>1. stored' = stored
      BY <2>1 DEF Informers, Deliver, Timer, TimerFires, Restart, vars, clusterVars, api
    <3> QED BY <3>1 DEF MountsCloned, Exists
  <2>2. CASE CapWorker \/ AgentWorker \/ RepoWorker \/ WorkspaceWorker
    BY <2>2, CapWorkerInv, AgentWorkerInv, RepoWorkerInv, WorkspaceWorkerInv
  <2>3. CASE Users \/ Pods
    BY <2>3, UsersInv, PodsInv
  <2> QED BY <2>1, <2>2, <2>3 DEF Next
<1> QED BY <1>1, InvHolds, PTL DEF Spec, MountsClonedOnly, MountsCloned
=============================================================================
