-------------------------- MODULE WorkflowTriggers --------------------------
(***************************************************************************)
(* The Workflow controller: it checks what a Workflow refers to, keeps the *)
(* CronJob of a scheduled one, and counts the runs of every one.           *)
(***************************************************************************)
EXTENDS ApiObjects, Sequences, SequencesExt

CONSTANTS
  NoSchedule,   \* a trigger without schedule
  NoCause       \* the cause of a run a CronJob created

VARIABLES
  wfWork,       \* the reconcile in progress: its step, Workflow and copy of the spec
  runs          \* the WorkflowRuns created, with the webhook that caused each

wfVars == <<wfWork, runs>>

Reasons == {"Unset", "InvalidSpec", "AgentNotFound"}

\* The Ready condition is kept by its reason.
NewWorkflow(spec) == [spec |-> spec, reason |-> "Unset", count |-> 0, url |-> FALSE]

WorkflowObject == [spec : setup.specs, reason : Reasons, count : Nat, url : BOOLEAN]

CronJobObject(specs) == [schedule : {p.schedule : p \in specs}, suspend : BOOLEAN]

\* What a user may write: flags are flags, and a CronJob is no "Absent".
ASSUME WorkflowSpecsAssumption ==
  \A s \in Setups : s.objects \intersect {Workflow(w) : w \in Workflows} # {} =>
    /\ \A p \in s.specs : p.both \in BOOLEAN /\ p.suspend \in BOOLEAN
    /\ Absent \notin CronJobObject(s.specs)

NoWfWork == [pc |-> "idle", key |-> CHOOSE w \in Workflows : TRUE, spec |-> Absent]

WorkflowsTyped(objects) ==
  \A w \in Workflows :
    /\ objects[Workflow(w)] # Absent => objects[Workflow(w)] \in WorkflowObject
    /\ objects[CronJob(w)] # Absent => objects[CronJob(w)] \in CronJobObject(setup.specs)

WfTypeOK ==
  /\ wfWork.pc \in {"idle", "refs", "cron", "status"} /\ wfWork.key \in Workflows
  /\ \A r \in ToSet(runs) : r.workflow \in Workflows
  /\ WorkflowsTyped(stored) /\ WorkflowsTyped(seen)

Self == Workflow(wfWork.key)

\* Runs the CronJob creates carry no label.
Labelled(w) == {i \in DOMAIN runs : runs[i].workflow = w /\ runs[i].cause # NoCause}

FinishWorkflow(failed) == wfWork' = NoWfWork /\ Requeued(Self, failed)

BeginWorkflow(w) ==
  /\ wfWork.pc = "idle" /\ Workflow(w) \in queue
  /\ queue' = queue \ {Workflow(w)}
  /\ wfWork' = IF Known(Workflow(w))
               THEN [pc |-> "refs", key |-> w, spec |-> seen[Workflow(w)].spec]
               ELSE wfWork
  /\ UNCHANGED api

\* The condition is written anew whatever it was, with the present second, and
\* the reconcile succeeds.
StatusError(reason) ==
  \/ /\ Exists(Self) /\ Current(Self)
     /\ LET new == [seen[Self] EXCEPT !.reason = reason] IN Write(Self, new) \/ Touch(Self, new)
     /\ FinishWorkflow(FALSE)
  \/ Refused(Self) /\ FinishWorkflow(TRUE)

CheckRefs ==
  /\ wfWork.pc = "refs"
  /\ \/ wfWork.spec.both /\ StatusError("InvalidSpec")
     \/ ~wfWork.spec.both /\ ~Known(Agent) /\ StatusError("AgentNotFound")
     \/ /\ ~wfWork.spec.both /\ Known(Agent)
        /\ wfWork' = [wfWork EXCEPT !.pc =
             IF wfWork.spec.schedule # NoSchedule THEN "cron" ELSE "status"]
        /\ UNCHANGED <<api, queue>>

\* Mutant: only a changed schedule is a change.
ScheduleOnly ==
  LET o == CronJob(wfWork.key)
      spec == wfWork.spec
  IN /\ wfWork.pc = "cron"
     /\ \/ /\ Apply(o, [schedule |-> spec.schedule, suspend |-> spec.suspend],
                    IF seen[o].schedule = spec.schedule THEN seen[o]
                    ELSE [seen[o] EXCEPT !.schedule = spec.schedule, !.suspend = spec.suspend])
           /\ wfWork' = [wfWork EXCEPT !.pc = "status"] /\ UNCHANGED queue
        \/ /\ IF Known(o) THEN Refused(o) ELSE Exists(o) /\ UNCHANGED api
           /\ FinishWorkflow(TRUE)

\* The API server fills in defaults, so what it stores never equals what is
\* desired: an existing CronJob is written in every reconcile.
ScheduleTrigger ==
  LET o == CronJob(wfWork.key)
      spec == wfWork.spec
  IN /\ wfWork.pc = "cron"
     /\ \/ /\ \/ /\ ~Known(o)
                 /\ Create(o, [schedule |-> spec.schedule, suspend |-> spec.suspend])
              \/ /\ Known(o)
                 /\ Update(o, [seen[o] EXCEPT !.schedule = spec.schedule, !.suspend = spec.suspend])
           /\ wfWork' = [wfWork EXCEPT !.pc = "status"] /\ UNCHANGED queue
        \/ /\ IF Known(o) THEN Refused(o) ELSE Exists(o) /\ UNCHANGED api
           /\ FinishWorkflow(TRUE)

\* Runs are listed from a cache that may lag; the webhook path is that of the copy.
WorkflowStatus ==
  /\ wfWork.pc = "status"
  /\ \/ /\ Known(Self)
        /\ \E n \in seen[Self].count..Cardinality(Labelled(wfWork.key)) :
             LET new == [seen[Self] EXCEPT !.count = n,
                           !.url = wfWork.spec.trigger.kind = "generic"]
             IN IF new = seen[Self] THEN UNCHANGED api ELSE Update(Self, new)
        /\ FinishWorkflow(FALSE)
     \/ Refused(Self) /\ FinishWorkflow(TRUE)

\* A request fails before it reaches the API server.
WorkflowFails ==
  /\ wfWork.pc # "idle" /\ Mishap
  /\ FinishWorkflow(TRUE)
  /\ UNCHANGED <<setup, api, seen, runs>>

ReconcileWorkflow ==
  /\ (\E w \in Workflows : BeginWorkflow(w)) \/ CheckRefs \/ ScheduleTrigger \/ WorkflowStatus
  /\ UNCHANGED <<setup, seen, mishaps, runs>>

-----------------------------------------------------------------------------
\* The CronJob controller starts a Job, whose pod creates a run, and notes the time.
CronJobDue(w) ==
  LET o == CronJob(w) IN
  /\ Exists(o) /\ ~stored[o].suspend /\ Mishap
  /\ Touch(o, stored[o])
  /\ runs' = Append(runs, [workflow |-> w, cause |-> NoCause])
  /\ UNCHANGED <<setup, seen, queue, wfWork>>

\* What a deleted Workflow owned is collected.
CollectCronJob(w) ==
  /\ Exists(CronJob(w)) /\ ~Exists(Workflow(w))
  /\ Write(CronJob(w), Absent)
  /\ UNCHANGED <<setup, seen, queue, mishaps, wfVars>>

EditWorkflow(w) ==
  /\ Exists(Workflow(w))
  /\ \/ \E s \in setup.specs : UserWrites(Workflow(w), [stored[Workflow(w)] EXCEPT !.spec = s])
     \/ UserWrites(Workflow(w), Absent)
  /\ UNCHANGED wfVars

EditCronJob(w) ==
  /\ Exists(CronJob(w))
  /\ \/ UserWrites(CronJob(w), [stored[CronJob(w)] EXCEPT !.suspend = ~stored[CronJob(w)].suspend])
     \/ UserWrites(CronJob(w), Absent)
  /\ UNCHANGED wfVars
=============================================================================
