------------------------------ MODULE PiAgents ------------------------------
(***************************************************************************)
(* The PiAgent controller: it validates a PiAgent, whose spec refers to a  *)
(* ConfigMap and a Secret nobody watches, and writes the verdict.          *)
(***************************************************************************)
EXTENDS ApiObjects

VARIABLES
  piWork,       \* the reconcile in progress: its step, copy of the spec and verdict
  unread        \* reads that failed, a history of the faults

piVars == <<piWork, unread>>

\* A verdict is the reason and the message of the Ready condition.
Unset == <<"Unset", "">>
Validated == <<"Validated", "">>

\* A source is one kind, none, or several at once.
Sources == {"none", "several", "inline", "configmap", "oci"}

ASSUME PiSpecsAssumption ==
  \A s \in Setups : PiAgent \in s.objects => \A p \in s.specs : p.source \in Sources

Verdicts ==
  {"Unset", "Validated", "SourceInvalid", "ProviderInvalid", "ModelInvalid", "ToolRefInvalid"}
  \X {"", "spec", "signature", "not found", "no key", "unread"}

PiAgentObject == [spec : setup.specs, verdict : Verdicts]

NewPiAgent(spec) == [spec |-> spec, verdict |-> Unset]

NoPiWork == [pc |-> "idle", spec |-> Absent, verdict |-> Unset]

PiAgentsTyped(objects) ==
  /\ objects[PiAgent] # Absent => objects[PiAgent] \in PiAgentObject
  /\ \A o \in {ConfigMap, Secret} : objects[o] # Absent => objects[o] \in [key : BOOLEAN]

PiTypeOK ==
  /\ piWork.pc \in {"idle", "source", "providers", "tools", "status"}
  /\ piWork.verdict \in Verdicts /\ unread \in Nat
  /\ PiAgentsTyped(stored) /\ PiAgentsTyped(seen)

BeginPiAgent ==
  /\ piWork.pc = "idle" /\ PiAgent \in queue
  /\ queue' = queue \ {PiAgent}
  /\ piWork' = IF Known(PiAgent)
               THEN [pc |-> "source", spec |-> seen[PiAgent].spec, verdict |-> Unset]
               ELSE piWork

\* A validation that fails ends the chain; the last one that succeeds does too.
Verdict(verdict) == piWork' = [piWork EXCEPT !.pc = "status", !.verdict = verdict]

PiGoto(pc) == piWork' = [piWork EXCEPT !.pc = pc]

\* What reading an object for its key comes to.
Reading(o, reason) ==
  IF Known(o) THEN IF seen[o].key THEN Validated ELSE <<reason, "no key">>
  ELSE <<reason, "not found">>

ReadsSource == piWork.pc = "source" /\ piWork.spec.source = "configmap"

ReadsSecret == piWork.pc = "providers" /\ piWork.spec.needsKey

ValidateSource ==
  /\ piWork.pc = "source"
  /\ CASE piWork.spec.source \in {"none", "several"} -> Verdict(<<"SourceInvalid", "spec">>)
       [] ReadsSource /\ Reading(ConfigMap, "SourceInvalid") # Validated ->
            Verdict(Reading(ConfigMap, "SourceInvalid"))
       [] OTHER -> PiGoto("providers")
  /\ UNCHANGED queue

\* The signature of an OCI artifact is looked up in its registry.
RejectSource ==
  /\ piWork.pc = "source" /\ piWork.spec.source = "oci" /\ piWork.spec.verify
  /\ Verdict(<<"SourceInvalid", "signature">>)
  /\ UNCHANGED queue

ValidateProviders ==
  /\ piWork.pc = "providers"
  /\ IF ReadsSecret /\ Reading(Secret, "ProviderInvalid") # Validated
     THEN Verdict(Reading(Secret, "ProviderInvalid"))
     ELSE IF piWork.spec.knownModel THEN PiGoto("tools")
          ELSE Verdict(<<"ModelInvalid", "spec">>)
  /\ UNCHANGED queue

ValidateToolRefs ==
  /\ piWork.pc = "tools"
  /\ \/ Verdict(Validated)
     \/ piWork.spec.verify /\ Verdict(<<"ToolRefInvalid", "signature">>)
  /\ UNCHANGED queue

\* A read that fails for another reason is a verdict as well: nothing is retried.
ReadFails ==
  /\ ReadsSource \/ ReadsSecret
  /\ Mishap /\ unread' = unread + 1
  /\ Verdict(<<IF ReadsSource THEN "SourceInvalid" ELSE "ProviderInvalid", "unread">>)
  /\ UNCHANGED <<setup, api, seen, queue>>

FinishPiAgent(failed) == piWork' = NoPiWork /\ Requeued(PiAgent, failed)

\* Mutant: only another phase is a change.
SetPiPhase ==
  LET new == [seen[PiAgent] EXCEPT !.verdict = piWork.verdict]
      same == (new.verdict = Validated) = (seen[PiAgent].verdict = Validated)
              /\ seen[PiAgent].verdict # Unset
  IN
  /\ piWork.pc = "status"
  /\ \/ /\ Known(PiAgent)
        /\ IF same THEN UNCHANGED api ELSE Update(PiAgent, new)
        /\ FinishPiAgent(FALSE)
     \/ /\ Known(PiAgent) => ~same
        /\ Refused(PiAgent) /\ FinishPiAgent(TRUE)

\* The status is written in a fresh copy of the object, when it differs.
SetPiStatus ==
  LET new == [seen[PiAgent] EXCEPT !.verdict = piWork.verdict] IN
  /\ piWork.pc = "status"
  /\ \/ /\ Known(PiAgent)
        /\ IF new = seen[PiAgent] THEN UNCHANGED api ELSE Update(PiAgent, new)
        /\ FinishPiAgent(FALSE)
     \/ /\ Known(PiAgent) => new # seen[PiAgent]
        /\ Refused(PiAgent) /\ FinishPiAgent(TRUE)

ValidatePiAgent ==
  /\ ValidateSource \/ RejectSource \/ ValidateProviders \/ ValidateToolRefs \/ BeginPiAgent
  /\ UNCHANGED <<setup, api, seen, mishaps, unread>>

WritePiStatus == SetPiStatus /\ UNCHANGED <<setup, seen, mishaps, unread>>

PiStatusFails ==
  /\ piWork.pc = "status" /\ Mishap
  /\ FinishPiAgent(TRUE)
  /\ UNCHANGED <<setup, api, seen, unread>>

EditPiAgent ==
  /\ Exists(PiAgent)
  /\ \/ \E s \in setup.specs : UserWrites(PiAgent, [stored[PiAgent] EXCEPT !.spec = s])
     \/ UserWrites(PiAgent, Absent)
  /\ UNCHANGED piVars

\* What a PiAgent refers to comes, goes and changes.
EditReferenced ==
  /\ \E o \in {ConfigMap, Secret}, v \in {Absent, [key |-> TRUE], [key |-> FALSE]} : UserWrites(o, v)
  /\ UNCHANGED piVars

\* A verdict a spec can get, given what it may have referred to.
Gives(spec, verdict) ==
  LET oneSource == spec.source \notin {"none", "several"} IN
  CASE verdict[1] = "SourceInvalid" ->
         CASE verdict[2] = "spec" -> ~oneSource
           [] verdict[2] = "signature" -> spec.source = "oci" /\ spec.verify
           [] OTHER -> spec.source = "configmap"
    [] verdict[1] = "ProviderInvalid" -> oneSource /\ spec.needsKey
    [] verdict[1] = "ModelInvalid" -> oneSource /\ ~spec.knownModel
    [] verdict[1] = "ToolRefInvalid" -> oneSource /\ spec.knownModel /\ spec.verify
    [] verdict = Validated -> oneSource /\ spec.knownModel
    [] OTHER -> FALSE
=============================================================================
