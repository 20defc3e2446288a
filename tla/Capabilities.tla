---------------------------- MODULE Capabilities ----------------------------
(***************************************************************************)
(* The Capability controller (capability_controller.go): validation, the   *)
(* Deployment of a server-mode MCP capability, and the phase.              *)
(***************************************************************************)
EXTENDS Cluster, SequencesExt

CONSTANTS
  Servers,   \* the capabilities that are MCP servers of mode "server"
  Pulled,    \* the capabilities whose content an Agent pulls from a registry (ociRef)
  Referred,  \* those whose content it reads from a ConfigMap (configMapRef)
  Specs,     \* the specifications a capability may have
  Valid      \* those that pass validation

ASSUME CapsAssumption ==
  /\ Servers \subseteq Caps /\ Pulled \subseteq Caps /\ Referred \subseteq Caps
  /\ Valid \subseteq Specs

VARIABLE capWork   \* the reconcile under way

Phases == {"unset", "Pending", "Ready", "Failed"}

CapObject == [spec : Specs, phase : Phases, usedBy : Seq(Agents)]
ServerObject == [spec : Specs, available : BOOLEAN]
SourceObject == {"readable"}

NoCapWork == [pc |-> "idle", key |-> Absent, spec |-> Absent, retry |-> FALSE]

CapTypeOK ==
  /\ capWork \in [pc : {"idle", "server", "Ready", "Pending", "Failed"},
                  key : Caps \union {Absent}, spec : Specs \union {Absent}, retry : BOOLEAN]
  /\ \A c \in Caps :
       /\ {stored[Capability(c)], seen[Capability(c)]} \subseteq CapObject \union {Absent}
       /\ {stored[Server(c)], seen[Server(c)]} \subseteq ServerObject \union {Absent}
       /\ {stored[Source(c)], seen[Source(c)]} \subseteq SourceObject \union {Absent}

NewCap(s) == [spec |-> s, phase |-> "unset", usedBy |-> << >>]

-----------------------------------------------------------------------------
\* validateCapability.
IsValid(spec) == spec \in Valid

\* Mutant: a specification that is not valid is an error of the reconcile.
BeginCapOrRetry(c) ==
  /\ capWork.pc = "idle" /\ Capability(c) \in queue
  /\ queue' = queue \ {Capability(c)}
  /\ LET copy == seen[Capability(c)] IN
     \/ copy = Absent /\ UNCHANGED capWork
     \/ /\ copy # Absent
        /\ capWork' = [pc |-> IF ~IsValid(copy.spec) THEN "Failed"
                              ELSE IF c \in Servers THEN "server" ELSE "Ready",
                       key |-> c, spec |-> copy.spec, retry |-> ~IsValid(copy.spec)]
  /\ UNCHANGED <<refs, api, seen, timers, mishaps>>

\* Reconcile: the copy, its validation, and whether a server is needed.
BeginCap(c) ==
  /\ capWork.pc = "idle" /\ Capability(c) \in queue
  /\ queue' = queue \ {Capability(c)}
  /\ LET copy == seen[Capability(c)] IN
     \/ copy = Absent /\ UNCHANGED capWork
     \/ /\ copy # Absent
        /\ capWork' = [pc |-> IF ~IsValid(copy.spec) THEN "Failed"
                              ELSE IF c \in Servers THEN "server" ELSE "Ready",
                       key |-> c, spec |-> copy.spec, retry |-> FALSE]
  /\ UNCHANGED <<refs, api, seen, timers, mishaps>>

CapGoto(pc) == capWork' = [capWork EXCEPT !.pc = pc]

ServerError == capWork' = [capWork EXCEPT !.pc = "Failed", !.retry = TRUE]

\* The Deployment is not in the cache: it is created, unless it exists.
CreateServer ==
  LET c == capWork.key IN
  /\ capWork.pc = "server" /\ seen[Server(c)] = Absent
  /\ \/ /\ stored[Server(c)] = Absent
        /\ Write(Server(c), [spec |-> capWork.spec, available |-> FALSE])
        /\ CapGoto("Pending")
     \/ /\ stored[Server(c)] # Absent
        /\ ServerError
        /\ UNCHANGED api
  /\ UNCHANGED <<refs, seen, queue, timers, mishaps>>

\* The phase a server gives its capability, read from the cache.
ServerPhase(c) == IF seen[Server(c)].available THEN "Ready" ELSE "Pending"

UpdateServer ==
  LET c == capWork.key IN
  /\ capWork.pc = "server" /\ seen[Server(c)] # Absent
  /\ seen[Server(c)].spec # capWork.spec
  /\ \/ /\ Update(Server(c), [seen[Server(c)] EXCEPT !.spec = capWork.spec])
        /\ CapGoto(ServerPhase(c))
     \/ ~Current(Server(c)) /\ ServerError /\ UNCHANGED api
  /\ UNCHANGED <<refs, seen, queue, timers, mishaps>>

KeepServer ==
  LET c == capWork.key IN
  /\ capWork.pc = "server" /\ seen[Server(c)] # Absent
  /\ seen[Server(c)].spec = capWork.spec
  /\ CapGoto(ServerPhase(c))
  /\ UNCHANGED clusterVars

\* The signature of a tool, the ConfigMap, the volume or the Service fails.
ServerFails ==
  /\ capWork.pc = "server"
  /\ Mishap
  /\ ServerError
  /\ UNCHANGED <<refs, api, seen, queue, timers>>

\* findAgentsUsingCapability: the cache lists its Agents in any order.
UserLists(c) == SetToSeqs(CapUsers(c))

\* The status one of the updateStatus functions leaves; usedBy is only written
\* with Ready.
CapStatus(old, pc, users) ==
  IF pc = "Ready" THEN [old EXCEPT !.phase = pc, !.usedBy = users]
  ELSE [old EXCEPT !.phase = pc]

\* updateStatusReady, updateStatusPending, updateStatusFailed: a fresh copy,
\* written if it changes (the users and their order are compared one by one),
\* or if it is Failed; an error, also that of the server, is retried.
WriteCapStatus(users) ==
  LET o == Capability(capWork.key)
      old == seen[o]
      kept == old # Absent /\ capWork.pc # "Failed" /\ CapStatus(old, capWork.pc, users) = old
  IN
  /\ capWork.pc \in {"Ready", "Pending", "Failed"}
  /\ capWork' = NoCapWork
  /\ \/ /\ kept
        /\ queue' = queue \union {k \in {o} : capWork.retry}
        /\ UNCHANGED api
     \/ /\ ~kept /\ old # Absent
        /\ Update(o, CapStatus(old, capWork.pc, users))
        /\ queue' = queue \union {k \in {o} : capWork.retry}
     \/ /\ ~kept
        /\ old = Absent \/ ~Current(o)
        /\ queue' = queue \union {o}
        /\ UNCHANGED api
  /\ UNCHANGED <<refs, seen, timers, mishaps>>

ReconcileCap ==
  \/ \E c \in Caps : BeginCap(c)
  \/ CreateServer \/ UpdateServer \/ KeepServer
  \/ \E users \in UserLists(capWork.key) : WriteCapStatus(users)

-----------------------------------------------------------------------------
\* Users create, edit and delete capabilities; a deleted one takes its server
\* with it.
EditCap(c) ==
  /\ Mishap
  /\ \/ /\ stored[Capability(c)] = Absent
        /\ \E s \in Specs : Write(Capability(c), NewCap(s))
     \/ /\ stored[Capability(c)] # Absent
        /\ \E s \in Specs \ {stored[Capability(c)].spec} :
             Write(Capability(c), [stored[Capability(c)] EXCEPT !.spec = s])
     \/ /\ stored[Capability(c)] # Absent
        /\ Become([stored EXCEPT ![Capability(c)] = Absent, ![Server(c)] = Absent])
  /\ UNCHANGED <<refs, seen, queue, timers, capWork>>

\* They create and delete the ConfigMap a capability refers to.
CreateSource(c) ==
  /\ c \in Referred /\ stored[Source(c)] = Absent
  /\ Write(Source(c), "readable")
  /\ UNCHANGED <<refs, seen, queue, timers, mishaps, capWork>>

DeleteSource(c) ==
  /\ stored[Source(c)] # Absent
  /\ Mishap
  /\ Write(Source(c), Absent)
  /\ UNCHANGED <<refs, seen, queue, timers, capWork>>

ServerComesUp(c) ==
  /\ stored[Server(c)] # Absent /\ ~stored[Server(c)].available
  /\ Write(Server(c), [stored[Server(c)] EXCEPT !.available = TRUE])
  /\ UNCHANGED <<refs, seen, queue, timers, mishaps, capWork>>

ServerGoesDown(c) ==
  /\ stored[Server(c)] # Absent /\ stored[Server(c)].available
  /\ Mishap
  /\ Write(Server(c), [stored[Server(c)] EXCEPT !.available = FALSE])
  /\ UNCHANGED <<refs, seen, queue, timers, capWork>>
=============================================================================
