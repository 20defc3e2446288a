---------------------------- MODULE WorkflowRun ----------------------------
(***************************************************************************)
(* The WorkflowRun reconciler (internal/controller/workflowrun_controller  *)
(* .go and workflowrun_piagent.go) with what it drives: Jobs of the Pi     *)
(* runtime and sessions of the OpenCode runtime.                           *)
(*                                                                         *)
(* One reconcile is cut where another actor can act in between: the read   *)
(* of the run (Begin), the reads of other objects and the call with an     *)
(* external effect (the actions with pc = "begun", SendOutputs), and each  *)
(* status write (Update).  Work on the local copy is part of the action    *)
(* that starts it.  controller-runtime runs one reconcile of a run at a    *)
(* time, so there is one `ctl'.  Every return of the code on a run that is *)
(* not terminal asks for a requeue or reports an error, and every status   *)
(* write causes a watch event: Begin is possible whenever pc is "idle".    *)
(***************************************************************************)
EXTENDS RunStore

CONSTANTS
  Workflows,   \* the Workflow objects considered
  MaxSteps,    \* bound: steps of a Workflow
  Editable,    \* those that users edit into each other or delete under a run
  MaxEdits     \* bound: how often they do

ASSUME WorkflowsAssumption ==
  /\ Workflows \subseteq Workflow
  /\ \A w \in Workflows :
       /\ w.mode # "deleted" /\ Len(w.steps) <= MaxSteps
       /\ w.mode = "simple" => Len(w.steps) = 1

ASSUME EditableAssumption == Editable \subseteq Workflows

ASSUME MaxStepsAssumption == MaxSteps \in Nat

ASSUME MaxEditsAssumption == MaxEdits \in Nat

VARIABLES
  workflow,   \* the Workflow spec.workflowRef names
  edits,      \* how often it was edited or deleted
  ctl,        \* the reconcile in progress
  jobs,       \* the Jobs at the API server
  jobSeen,    \* the Jobs in the informer cache
  logs,       \* the events in the log of each Job's pod
  expired,    \* whether ttlSecondsAfterFinished has removed a Job
  prompts,    \* per position: prompts sent to an OpenCode session
  created,    \* per position: Jobs created for it
  outputs     \* workflow outputs sent

ctlVars == <<workflow, edits, ctl, jobs, jobSeen, logs, expired, prompts,
             created, outputs>>

Positions == 1..MaxSteps

JobStates == {"none", "active", "succeeded", "failed"}

\* `step' is the position whose prompt the Job runs, `name' the step name
\* in its labels and its callback URL.
Job == [state : JobStates, step : Nat, name : Names \union {NoJob}]

NoSuchJob == [state |-> "none", step |-> 0, name |-> NoJob]

(***************************************************************************)
(* The reconcile in progress: the copy of the run it works on (`st', read  *)
(* or last written at version `base'), the Workflow it read, and what it   *)
(* does after its next status write: return, write CurrentStep++ (advance) *)
(* or go on to succeedRun (finish).                                        *)
(***************************************************************************)
Control == [pc : {"idle", "begun", "write", "outputs"}, base : Nat,
            st : Status, wf : Workflow,
            then : {"return", "advance", "finish"}]

Idle == [pc |-> "idle", base |-> 0, st |-> EmptyStatus, wf |-> NoWorkflow,
         then |-> "return"]

ControlTypeOK ==
  /\ workflow \in Workflows \union {NoWorkflow}
  /\ edits \in 0..MaxEdits
  /\ ctl \in Control
  /\ jobs \in [JobNames -> Job]
  /\ jobSeen \in [JobNames -> Job]
  /\ logs \in [JobNames -> Seq(LogEntry)]
  /\ expired \in BOOLEAN
  /\ prompts \in [Positions -> 0..MaxStarts]
  /\ created \in [Positions -> 0..MaxStarts]
  /\ outputs \in 0..MaxStarts

ControlInit ==
  /\ workflow \in Workflows
  /\ edits = 0
  /\ ctl = Idle
  /\ jobs = [j \in JobNames |-> NoSuchJob]
  /\ jobSeen = [j \in JobNames |-> NoSuchJob]
  /\ logs = [j \in JobNames |-> <<>>]
  /\ expired = FALSE
  /\ prompts = [p \in Positions |-> 0]
  /\ created = [p \in Positions |-> 0]
  /\ outputs = 0

external == <<workflow, edits, jobs, jobSeen, logs, expired>>
effects == <<prompts, created, outputs>>

-----------------------------------------------------------------------------
(* Control of one reconcile.                                               *)

\* Go on to a status write of `st'.
WriteStatus(st, then) ==
  ctl' = [ctl EXCEPT !.pc = "write", !.st = st, !.then = then]

Return == ctl' = Idle

\* A step of the reconcile that neither writes the run nor has an effect.
Quiet == UNCHANGED <<storeVars, external, effects>>

\* Variant with a fault: the terminal phases are not looked at.
BeginAlways ==
  /\ ctl.pc = "idle"
  /\ ctl' = [pc |-> "begun", base |-> seen, st |-> Cached, wf |-> workflow,
             then |-> "return"]
  /\ Quiet

\* Reconcile reads the run; a terminal one is left alone.
Begin ==
  /\ ctl.pc = "idle"
  /\ ~Terminal(Cached)
  /\ ctl' = [pc |-> "begun", base |-> seen, st |-> Cached, wf |-> workflow,
             then |-> "return"]
  /\ Quiet

Begun == ctl.pc = "begun"

\* A Get fails with an error the code returns to be retried.
ReadError == Begun /\ Return /\ Quiet

WorkflowMissing ==
  /\ Begun
  /\ ctl.wf.mode = "deleted"
  /\ WriteStatus(FailRun(ctl.st, "workflow"), "return")
  /\ Quiet

InitializeRun ==
  /\ Begun
  /\ ctl.wf.mode # "deleted"
  /\ ctl.st.phase = "unset"
  /\ WriteStatus(InitStatus(ctl.wf), "return")
  /\ Quiet

Executing == Begun /\ ctl.wf.mode # "deleted" /\ ctl.st.phase # "unset"

Simple == ctl.wf.mode = "simple"

\* The position the reconcile works on: StepResults[0] or
\* StepResults[CurrentStep].
Pos == IF Simple THEN 1 ELSE ctl.st.cur + 1

NoStepResults ==
  /\ Executing
  /\ Simple
  /\ ctl.st.steps = <<>>
  /\ WriteStatus(FailRun(ctl.st, "step"), "return")
  /\ Quiet

\* Variant with a fault: the last step is not waited for.
AllButOneStepsDone ==
  /\ Executing
  /\ ~Simple
  /\ ctl.st.cur + 1 >= Len(ctl.wf.steps)
  /\ ctl' = [ctl EXCEPT !.pc = "outputs"]
  /\ Quiet

AllStepsDone ==
  /\ Executing
  /\ ~Simple
  /\ ctl.st.cur >= Len(ctl.wf.steps)
  /\ ctl' = [ctl EXCEPT !.pc = "outputs"]
  /\ Quiet

\* A Workflow with more steps than the run has results: the index panics
\* and controller-runtime turns the panic into an error.
StepOutOfRange ==
  /\ Executing
  /\ ~Simple
  /\ Pos \in DOMAIN ctl.wf.steps \ DOMAIN ctl.st.steps
  /\ Return
  /\ Quiet

AtStep ==
  /\ Executing
  /\ Pos \in DOMAIN ctl.wf.steps \intersect DOMAIN ctl.st.steps

Step == ctl.wf.steps[Pos]
Result == ctl.st.steps[Pos]

SkipStep ==
  /\ AtStep
  /\ ~Simple
  /\ ~ConditionHolds(ctl.st, Step)
  /\ WriteStatus(SkipResult(ctl.st, Pos), "return")
  /\ Quiet

\* Variant with a fault: a false condition does not keep a step from running.
SelectedAnyway == AtStep

Selected == AtStep /\ (Simple \/ ConditionHolds(ctl.st, Step))

StartStep ==
  /\ Selected
  /\ Result.phase = "Pending"
  /\ WriteStatus(MarkRunning(ctl.st, Pos), "return")
  /\ Quiet

\* "Step already completed or failed, move on": requeue, nothing else.
StepNotRunning ==
  /\ Selected
  /\ Result.phase \notin {"Pending", "Running"}
  /\ Return
  /\ Quiet

\* Variant with a fault: the step is executed before it is marked as running.
NotYetOver(kind) ==
  Selected /\ Result.phase \in {"Pending", "Running"} /\ Step.kind = kind

Running(kind) == Selected /\ Result.phase = "Running" /\ Step.kind = kind

-----------------------------------------------------------------------------
(* The Pi runtime.                                                         *)

\* failStep, and then the caller: with continueOnError it goes on to write
\* CurrentStep++, on a run that failStep has made Failed.
FailPiStep(st, why) ==
  WriteStatus(FailStep(st, Pos, why),
              IF Step.cont /\ ~Simple THEN "advance" ELSE "return")

\* The PiAgent is missing or not Ready, whether or not a Job runs.
PiAgentUnavailable ==
  /\ Running("pi")
  /\ FailPiStep(ctl.st, "step")
  /\ Quiet

WantsJob == Running("pi") /\ Result.job = NoJob

PiPromptFails ==
  /\ WantsJob
  /\ ~RenderOk(ctl.st, Step)
  /\ FailPiStep(ctl.st, "step")
  /\ Quiet

\* The environment of the Job cannot be built: its API key is missing.
PiEnvFails ==
  /\ WantsJob
  /\ RenderOk(ctl.st, Step)
  /\ FailPiStep(ctl.st, "step")
  /\ Quiet

\* Variant with a fault: every step of a run has the Job of the first one.
FirstStepJob == JobName[ctl.wf.steps[1].name]

StepJob == JobName[Step.name]

NewJob(p) == [state |-> "active", step |-> p, name |-> Step.name]

PlaceJob ==
  /\ jobs' = [jobs EXCEPT ![StepJob] = NewJob(Pos)]
  /\ created' = [created EXCEPT ![Pos] = AtLeastOnce(@)]
  /\ UNCHANGED <<storeVars, workflow, edits, jobSeen, logs, expired, prompts,
                 outputs>>

\* Variant with a fault: a new Job is created whatever is there.
CreateJobAnew ==
  /\ WantsJob
  /\ RenderOk(ctl.st, Step)
  /\ PlaceJob
  /\ WriteStatus(SetJob(ctl.st, Pos, StepJob), "return")

CreateJob ==
  /\ WantsJob
  /\ RenderOk(ctl.st, Step)
  /\ jobs[StepJob].state = "none"
  /\ PlaceJob
  /\ WriteStatus(SetJob(ctl.st, Pos, StepJob), "return")

\* AlreadyExists: the Job of that name is taken over.
AdoptJob ==
  /\ WantsJob
  /\ RenderOk(ctl.st, Step)
  /\ jobs[StepJob].state # "none"
  /\ WriteStatus(SetJob(ctl.st, Pos, StepJob), "return")
  /\ Quiet

\* Create fails in another way; the Job may exist all the same.
CreateJobFails ==
  /\ WantsJob
  /\ RenderOk(ctl.st, Step)
  /\ FailPiStep(ctl.st, "step")
  /\ \/ Quiet
     \/ jobs[StepJob].state = "none" /\ PlaceJob

HasJob == Running("pi") /\ Result.job # NoJob

SeenJob == jobSeen[Result.job]

JobMissing ==
  /\ HasJob
  /\ SeenJob.state = "none"
  /\ FailPiStep(ctl.st, "jobMissing")
  /\ Quiet

JobRunning == HasJob /\ SeenJob.state = "active" /\ Return /\ Quiet

\* fetchPiAgentJobOutput: the log of the Job's pod gives a text and, as a
\* fallback, the events; when it cannot be read there is only `instead'.
\* (`Events' need not be all that the log holds, so there can be a text where
\* the model has no event.)
Fetched(texts, instead) ==
  {<<text, WithLogEvents(Result, logs[Result.job])>> :
       text \in texts \union {"none"}}
    \union {<<text, Result.events>> : text \in {"none", instead}}

JobSucceeded ==
  /\ HasJob
  /\ SeenJob.state = "succeeded"
  /\ \E log \in Fetched(Answers, "other") :
       WriteStatus(Complete(ctl.st, Pos, log[1], SeenJob.step, log[2]),
                   IF Simple THEN "finish" ELSE "advance")
  /\ Quiet

JobFailed ==
  /\ HasJob
  /\ SeenJob.state = "failed"
  /\ \E log \in Fetched({"other"}, "none") :
       FailPiStep(Partial(ctl.st, Pos, log[1], SeenJob.step, log[2]), "step")
  /\ Quiet

-----------------------------------------------------------------------------
(* The OpenCode runtime.                                                   *)

\* The Agent cannot be read.
AgentMissing ==
  /\ Running("agent")
  /\ WriteStatus(IF Simple THEN FailRun(ctl.st, "step")
                 ELSE FailStep(ctl.st, Pos, "step"), "return")
  /\ Quiet

WantsSession == Running("agent") /\ ~Result.session

AgentPromptFails ==
  /\ WantsSession
  /\ ~RenderOk(ctl.st, Step)
  /\ WriteStatus(IF Simple THEN FailRun(ctl.st, "step")
                 ELSE FailStep(ctl.st, Pos, "step"), "return")
  /\ Quiet

SendPrompt ==
  /\ prompts' = [prompts EXCEPT ![Pos] = AtLeastOnce(@)]
  /\ UNCHANGED <<storeVars, external, created, outputs>>

\* startAgentSession creates the session and posts the prompt.
StartSession ==
  /\ WantsSession
  /\ RenderOk(ctl.st, Step)
  /\ SendPrompt
  /\ WriteStatus(SetSession(ctl.st, Pos), "return")

\* Variant with a fault: continueOnError is taken for granted.
FailAgentStepSoftly ==
  WriteStatus(IF Simple THEN FailRun(ctl.st, "step")
              ELSE PassFailedStep(ctl.st, Pos), "return")

\* A call to the agent fails: only here continueOnError is honoured.
FailAgentStep ==
  WriteStatus(IF Simple THEN FailRun(ctl.st, "step")
              ELSE IF Step.cont THEN PassFailedStep(ctl.st, Pos)
              ELSE FailStep(ctl.st, Pos, "step"), "return")

\* The prompt may have reached the agent before the call failed.
StartSessionFails ==
  /\ WantsSession
  /\ RenderOk(ctl.st, Step)
  /\ FailAgentStep
  /\ SendPrompt \/ Quiet

HasSession == Running("agent") /\ Result.session

\* Still busy, or the poll failed and is repeated.
SessionBusy == HasSession /\ Return /\ Quiet

SessionFetchFails == HasSession /\ FailAgentStep /\ Quiet

SessionFinished ==
  /\ HasSession
  /\ \E text \in Texts :
       LET done == Complete(ctl.st, Pos, text, Pos, Result.events)
       IN  IF Simple THEN WriteStatus(done, "finish")
           ELSE WriteStatus(Advance(done), "return")
  /\ Quiet

-----------------------------------------------------------------------------
(* succeedRun and the status writes.                                       *)

\* The outputs go out before the run is written as Succeeded; a Workflow
\* that cannot be read now has none.
SendOutputs ==
  /\ ctl.pc = "outputs"
  /\ \/ HasOutput(workflow, ctl.st) /\ outputs' = AtLeastOnce(outputs)
     \/ UNCHANGED outputs
  /\ WriteStatus(SucceedRun(ctl.st), "return")
  /\ UNCHANGED <<storeVars, external, prompts, created>>

Writing == ctl.pc = "write"

AfterWrite ==
  ctl' = CASE ctl.then = "return" -> Idle
           [] ctl.then = "advance" ->
                [ctl EXCEPT !.base = rv + 1, !.st = Advance(ctl.st),
                            !.then = "return"]
           [] ctl.then = "finish" ->
                [ctl EXCEPT !.pc = "outputs", !.base = rv + 1,
                            !.then = "return"]

UpdateOk ==
  /\ Writing
  /\ IsLatest(ctl.base)
  /\ Persist(ctl.st)
  /\ AfterWrite
  /\ UNCHANGED <<external, effects>>

UpdateConflict == Writing /\ ~IsLatest(ctl.base) /\ Return /\ Quiet

\* The request fails, or it is applied and the answer is lost.
UpdateError ==
  /\ Writing
  /\ Return
  /\ \/ UNCHANGED storeVars
     \/ IsLatest(ctl.base) /\ Persist(ctl.st)
  /\ UNCHANGED <<external, effects>>

-----------------------------------------------------------------------------
(* The cluster.                                                            *)

JobFinish ==
  /\ \E j \in JobNames, outcome \in {"succeeded", "failed"} :
       /\ jobs[j].state = "active"
       /\ jobs' = [jobs EXCEPT ![j].state = outcome]
  /\ UNCHANGED <<storeVars, ctl, effects, workflow, edits, jobSeen, logs,
                 expired>>

\* A Job is collected with its pod, and with the log of the pod.
JobExpire ==
  /\ \E j \in JobNames :
       /\ jobs[j].state \in {"succeeded", "failed"}
       /\ jobs' = [jobs EXCEPT ![j] = NoSuchJob]
       /\ logs' = [logs EXCEPT ![j] = <<>>]
  /\ expired' = TRUE
  /\ UNCHANGED <<storeVars, ctl, effects, workflow, edits, jobSeen>>

JobSync ==
  /\ \E j \in JobNames :
       /\ jobSeen[j] # jobs[j]
       /\ jobSeen' = [jobSeen EXCEPT ![j] = jobs[j]]
  /\ UNCHANGED <<storeVars, ctl, effects, workflow, edits, jobs, logs,
                 expired>>

EditWorkflow ==
  /\ edits < MaxEdits
  /\ workflow \in Editable \union {NoWorkflow}
  /\ workflow' \in (Editable \union {NoWorkflow}) \ {workflow}
  /\ edits' = edits + 1
  /\ UNCHANGED <<storeVars, ctl, effects, jobs, jobSeen, logs, expired>>

\* The operator process dies and starts again with fresh caches.
RestartController ==
  /\ ctl' = Idle
  /\ jobSeen' = jobs
  /\ UNCHANGED <<effects, workflow, edits, jobs, logs, expired>>

-----------------------------------------------------------------------------
Dispatch ==
  \/ WorkflowMissing \/ InitializeRun \/ NoStepResults \/ AllStepsDone
  \/ SkipStep \/ StartStep

PiStep ==
  \/ PiAgentUnavailable \/ PiPromptFails \/ PiEnvFails \/ CreateJob \/ AdoptJob
  \/ CreateJobFails \/ JobMissing \/ JobSucceeded \/ JobFailed

AgentStep ==
  \/ AgentMissing \/ AgentPromptFails \/ StartSession \/ StartSessionFails
  \/ SessionFetchFails \/ SessionFinished

Requeue ==
  ReadError \/ StepOutOfRange \/ StepNotRunning \/ JobRunning \/ SessionBusy

Update == UpdateOk \/ UpdateConflict \/ UpdateError

Reconcile ==
  Begin \/ Dispatch \/ PiStep \/ AgentStep \/ Requeue \/ SendOutputs \/ Update

Cluster == JobFinish \/ JobExpire \/ JobSync \/ EditWorkflow
=============================================================================
