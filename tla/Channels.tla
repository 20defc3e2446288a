------------------------------ MODULE Channels ------------------------------
(***************************************************************************)
(* The Channel controller: the Deployment, the Service and the Ingress of  *)
(* a Channel, reconciled in this order, then its status.                   *)
(***************************************************************************)
EXTENDS ApiObjects

CONSTANT NoWebhook     \* a Channel that is not reached from outside

VARIABLE channelWork   \* the reconcile in progress: its step and copy of the spec

NewChannel(spec) == [spec |-> spec, phase |-> "Unset", url |-> NoWebhook]

\* What is derived from a spec: the image decides on the pods, the type on
\* their labels, the webhook on the Ingress.
DeploymentFor(spec) == [type |-> spec.type, image |-> spec.image, hash |-> spec.image, ready |-> FALSE]
ServiceFor(spec) == [selector |-> spec.type]
IngressFor(spec) == [host |-> spec.webhook]

ChannelObject ==
  [spec : setup.specs, phase : {"Unset", "Pending", "Ready"},
   url : {NoWebhook} \union {p.webhook : p \in setup.specs}]

\* Others write "patched" in what a Channel owns.
DeploymentObject(specs) ==
  [type : {p.type : p \in specs}, image : {"patched"} \union {p.image : p \in specs},
   hash : {p.image : p \in specs}, ready : BOOLEAN]
ServiceObject(specs) == [selector : {"patched"} \union {p.type : p \in specs}]
IngressObject(specs) == [host : {"patched"} \union {p.webhook : p \in specs}]

ASSUME OwnedAssumption ==
  \A s \in Setups : Channel \in s.objects =>
    Absent \notin DeploymentObject(s.specs) \union ServiceObject(s.specs) \union IngressObject(s.specs)

NoChannelWork == [pc |-> "idle", spec |-> Absent]

ChannelsTyped(objects) ==
  /\ objects[Channel] # Absent => objects[Channel] \in ChannelObject
  /\ objects[Deployment] # Absent => objects[Deployment] \in DeploymentObject(setup.specs)
  /\ objects[Service] # Absent => objects[Service] \in ServiceObject(setup.specs)
  /\ objects[Ingress] # Absent => objects[Ingress] \in IngressObject(setup.specs)

ChannelTypeOK ==
  /\ channelWork.pc \in {"idle", "agent", "deployment", "service", "ingress", "status"}
  /\ ChannelsTyped(stored) /\ ChannelsTyped(seen)

ChannelGoto(pc) == channelWork' = [channelWork EXCEPT !.pc = pc] /\ UNCHANGED queue

FinishChannel(failed) == channelWork' = NoChannelWork /\ Requeued(Channel, failed)

BeginChannel ==
  /\ channelWork.pc = "idle" /\ Channel \in queue
  /\ queue' = queue \ {Channel}
  /\ channelWork' = IF Known(Channel) THEN [pc |-> "agent", spec |-> seen[Channel].spec]
                    ELSE channelWork
  /\ UNCHANGED api

\* Without its Agent a Channel is tried again until there is one.
ResolveAgent ==
  /\ channelWork.pc = "agent"
  /\ IF Known(Agent) THEN ChannelGoto("deployment") ELSE FinishChannel(TRUE)
  /\ UNCHANGED api

\* The selector of a Deployment is immutable: the API server refuses another type.
SelectorChanges == Exists(Deployment) /\ stored[Deployment].type # channelWork.spec.type

\* Compared are hashes of the desired spec, the old one kept in an annotation.
ChangedDeployment ==
  LET old == seen[Deployment]
      new == DeploymentFor(channelWork.spec)
  IN IF old.hash = new.hash /\ old.type = new.type THEN old
     ELSE [new EXCEPT !.ready = old.ready]

\* Mutant: an error of the Deployment is only logged.
DeploymentErrorLogged ==
  /\ channelWork.pc = "deployment"
  /\ \/ /\ Known(Deployment) /\ ChangedDeployment # seen[Deployment] => ~SelectorChanges
        /\ Apply(Deployment, DeploymentFor(channelWork.spec), ChangedDeployment)
     \/ ApplyFails(Deployment, ChangedDeployment)
     \/ /\ Known(Deployment) /\ ChangedDeployment # seen[Deployment] /\ SelectorChanges
        /\ UNCHANGED api
  /\ ChannelGoto("service")

\* The first error ends the reconcile.
ReconcileDeployment ==
  /\ channelWork.pc = "deployment"
  /\ \/ /\ Known(Deployment) /\ ChangedDeployment # seen[Deployment] => ~SelectorChanges
        /\ Apply(Deployment, DeploymentFor(channelWork.spec), ChangedDeployment)
        /\ ChannelGoto("service")
     \/ /\ \/ ApplyFails(Deployment, ChangedDeployment)
           \/ /\ Known(Deployment) /\ ChangedDeployment # seen[Deployment] /\ SelectorChanges
              /\ UNCHANGED api
        /\ FinishChannel(TRUE)

ReconcileService ==
  LET desired == ServiceFor(channelWork.spec) IN
  /\ channelWork.pc = "service"
  /\ \/ Apply(Service, desired, desired) /\ ChannelGoto("ingress")
     \/ ApplyFails(Service, desired) /\ FinishChannel(TRUE)

\* Without a webhook the Ingress is deleted; deleting needs no version.
ReconcileIngress ==
  LET desired == IngressFor(channelWork.spec) IN
  /\ channelWork.pc = "ingress"
  /\ IF channelWork.spec.webhook # NoWebhook
     THEN \/ Apply(Ingress, desired, desired) /\ ChannelGoto("status")
          \/ ApplyFails(Ingress, desired) /\ FinishChannel(TRUE)
     ELSE \/ ~Known(Ingress) /\ UNCHANGED api /\ ChannelGoto("status")
          \/ Known(Ingress) /\ Exists(Ingress) /\ Write(Ingress, Absent) /\ ChannelGoto("status")
          \/ Known(Ingress) /\ ~Exists(Ingress) /\ UNCHANGED api /\ FinishChannel(TRUE)

\* Ready while a pod is; the URL is that of the copy, written in a fresh one.
ChannelStatus ==
  [seen[Channel] EXCEPT
     !.phase = IF Known(Deployment) /\ seen[Deployment].ready THEN "Ready" ELSE "Pending",
     !.url = channelWork.spec.webhook]

WriteChannelStatus ==
  /\ channelWork.pc = "status"
  /\ \/ /\ Known(Channel)
        /\ IF ChannelStatus = seen[Channel] THEN UNCHANGED api
           ELSE Update(Channel, ChannelStatus)
        /\ FinishChannel(FALSE)
     \/ /\ Known(Channel) => ChannelStatus # seen[Channel]
        /\ Refused(Channel) /\ FinishChannel(TRUE)

ChannelFails ==
  /\ channelWork.pc \notin {"idle", "agent"} /\ Mishap
  /\ FinishChannel(TRUE)
  /\ UNCHANGED <<setup, api, seen>>

ReconcileChannel ==
  /\ BeginChannel \/ ResolveAgent \/ ReconcileDeployment
     \/ ReconcileService \/ ReconcileIngress \/ WriteChannelStatus
  /\ UNCHANGED <<setup, seen, mishaps>>

-----------------------------------------------------------------------------
EditChannel ==
  /\ Exists(Channel)
  /\ \/ \E s \in setup.specs : UserWrites(Channel, [stored[Channel] EXCEPT !.spec = s])
     \/ UserWrites(Channel, Absent)
  /\ UNCHANGED channelWork

\* What a deleted Channel owned is collected.
CollectOwned(o) ==
  /\ o \in {Deployment, Service, Ingress} /\ Exists(o)
  /\ Channel \in setup.objects /\ ~Exists(Channel)
  /\ Write(o, Absent)
  /\ UNCHANGED <<setup, seen, queue, mishaps, channelWork>>

\* Somebody deletes or changes what the Channel owns.
EditOwned ==
  /\ \/ /\ \E o \in {Deployment, Service, Ingress} : UserWrites(o, Absent)
     \/ /\ Exists(Deployment)
        /\ UserWrites(Deployment, [stored[Deployment] EXCEPT !.image = "patched"])
     \/ /\ Exists(Service) /\ UserWrites(Service, [selector |-> "patched"])
     \/ /\ Exists(Ingress) /\ UserWrites(Ingress, [host |-> "patched"])
  /\ UNCHANGED channelWork

\* The pods of the Channel become ready, or cease to be.
ChannelPods ==
  /\ Exists(Deployment)
  /\ stored[Deployment].ready => mishaps < setup.mishaps
  /\ mishaps' = mishaps + (IF stored[Deployment].ready THEN 1 ELSE 0)
  /\ Write(Deployment, [stored[Deployment] EXCEPT !.ready = ~@])
  /\ UNCHANGED <<setup, seen, queue, channelWork>>
=============================================================================
