-------------------------- MODULE RunSystemProofs --------------------------
(* Theorems about RunSystem, for every set of Workflows, steps and events: *)
(* its types, what the copies in flight can do to the stored run, and what *)
(* the status records: no trace event is lost, no post is stored twice or  *)
(* accepted without being stored, and no step is executed that is not      *)
(* recorded.                                                               *)
EXTENDS RunSystem, SeqFacts

-----------------------------------------------------------------------------
(* What the edits of a status keep and change, for every run.              *)

\* The positions of the results of a run.
LEMMA StatusSteps ==
  ASSUME NEW st \in Status
  PROVE  /\ st.steps \in Seq(StepResult)
         /\ Len(st.steps) \in Nat
         /\ DOMAIN st.steps = 1..Len(st.steps)
         /\ \A q \in DOMAIN st.steps : st.steps[q] \in StepResult
<1>1. st.steps \in Seq(StepResult)
  BY DEF Status
<1> QED BY <1>1, LenProperties, ElementOfSeq

\* Replacing the results of a run, or one of them.
LEMMA NewSteps ==
  ASSUME NEW st \in Status, NEW ss \in Seq(StepResult)
  PROVE  [st EXCEPT !.steps = ss] \in Status
BY DEF Status

LEMMA NewResult ==
  ASSUME NEW st \in Status, NEW p, NEW r \in StepResult
  PROVE  [st EXCEPT !.steps = [st.steps EXCEPT ![p] = r]] \in Status
<1>1. st.steps \in Seq(StepResult)
  BY StatusSteps
<1>2. [st.steps EXCEPT ![p] = r] \in Seq(StepResult)
  <2>1. CASE p \in DOMAIN st.steps
    BY <2>1, <1>1, ChangeSeq
  <2>2. CASE p \notin DOMAIN st.steps
    BY <2>2, <1>1, NoChangeSeq
  <2> QED BY <2>1, <2>2
<1> QED BY <1>2, NewSteps

LEMMA EmptyStatusType == EmptyStatus \in Status
<1>1. <<>> \in Seq(StepResult)
  BY EmptyIsSeq
<1> QED BY <1>1 DEF EmptyStatus, Status, RunPhases, Reasons

LEMMA PendingResultType ==
  ASSUME NEW n \in Names
  PROVE  PendingResult(n) \in StepResult
<1>1. <<>> \in Seq(Entry)
  BY EmptyIsSeq
<1> QED BY <1>1 DEF PendingResult, StepResult, StepPhases, Texts

LEMMA InitStatusType ==
  ASSUME NEW wf \in Workflow
  PROVE  InitStatus(wf) \in Status
<1>1. wf.steps \in Seq(StepSpec)
  BY DEF Workflow
<1>2. /\ Len(wf.steps) \in Nat
      /\ \A p \in 1..Len(wf.steps) : wf.steps[p] \in StepSpec
  BY <1>1, LenProperties, ElementOfSeq
<1>3. \A p \in 1..Len(wf.steps) :
        PendingResult(wf.steps[p].name) \in StepResult
  BY <1>2, PendingResultType DEF StepSpec
<1>4. [p \in 1..Len(wf.steps) |-> PendingResult(wf.steps[p].name)]
        \in [1..Len(wf.steps) -> StepResult]
  BY <1>3
<1>5. [p \in 1..Len(wf.steps) |-> PendingResult(wf.steps[p].name)]
        \in Seq(StepResult)
  BY <1>2, <1>4, FunctionIsSeq
<1> QED BY <1>5 DEF InitStatus, Status, RunPhases, Reasons

\* The edits of one result, each on a step that exists.
LEMMA ResultEdits ==
  ASSUME NEW st \in Status, NEW p \in DOMAIN st.steps
  PROVE  /\ \A x \in StepPhases : [st EXCEPT !.steps[p].phase = x] \in Status
         /\ SetSession(st, p) \in Status
         /\ \A j \in JobNames : SetJob(st, p, j) \in Status
         /\ \A x \in Texts, f \in Nat, es \in Seq(Entry) :
              /\ Complete(st, p, x, f, es) \in Status
              /\ Partial(st, p, x, f, es) \in Status
<1>1. st.steps[p] \in StepResult
  BY StatusSteps
<1>2. ASSUME NEW x \in StepPhases
      PROVE  [st EXCEPT !.steps[p].phase = x] \in Status
  <2>1. [st.steps[p] EXCEPT !.phase = x] \in StepResult
    BY <1>1 DEF StepResult
  <2> QED BY <2>1, NewResult
<1>3. SetSession(st, p) \in Status
  <2>1. [st.steps[p] EXCEPT !.session = TRUE] \in StepResult
    BY <1>1 DEF StepResult
  <2> QED BY <2>1, NewResult DEF SetSession
<1>4. ASSUME NEW j \in JobNames
      PROVE  SetJob(st, p, j) \in Status
  <2>1. [st.steps[p] EXCEPT !.job = j] \in StepResult
    BY <1>1 DEF StepResult
  <2> QED BY <2>1, NewResult DEF SetJob
<1>5. ASSUME NEW x \in Texts, NEW f \in Nat,
             NEW es \in Seq(Entry)
      PROVE  /\ Complete(st, p, x, f, es) \in Status
             /\ Partial(st, p, x, f, es) \in Status
  <2>1. [st.steps[p] EXCEPT !.phase = "Succeeded", !.text = x, !.from = f,
                            !.events = es] \in StepResult
    BY <1>1 DEF StepResult, StepPhases
  <2>2. [st.steps[p] EXCEPT !.text = x, !.from = f, !.events = es]
          \in StepResult
    BY <1>1 DEF StepResult
  <2> QED BY <2>1, <2>2, NewResult DEF Complete, Partial
<1> QED BY <1>2, <1>3, <1>4, <1>5

\* The edits of the run.
LEMMA RunEdits ==
  ASSUME NEW st \in Status
  PROVE  /\ Advance(st) \in Status
         /\ SucceedRun(st) \in Status
         /\ \A why \in Reasons : FailRun(st, why) \in Status
<1>1. /\ st.cur + 1 \in Nat
      /\ "Succeeded" \in RunPhases /\ "Failed" \in RunPhases
  BY DEF Status, RunPhases
<1>2. Advance(st) \in Status
  BY <1>1 DEF Status, Advance
<1>3. SucceedRun(st) \in Status
  BY <1>1 DEF Status, SucceedRun
<1>4. \A why \in Reasons : FailRun(st, why) \in Status
  BY <1>1 DEF Status, FailRun
<1> QED BY <1>2, <1>3, <1>4

\* The edits that fail, skip or pass a step.
LEMMA StepEdits ==
  ASSUME NEW st \in Status, NEW p \in DOMAIN st.steps
  PROVE  /\ MarkRunning(st, p) \in Status
         /\ SkipResult(st, p) \in Status
         /\ PassFailedStep(st, p) \in Status
         /\ \A why \in Reasons : FailStep(st, p, why) \in Status
<1>1. \A x \in StepPhases : [st EXCEPT !.steps[p].phase = x] \in Status
  BY ResultEdits
<1> QED BY <1>1, RunEdits DEF StepPhases, MarkRunning, SkipResult,
                             PassFailedStep, FailStep

\* The entries of a trace; one that was posted is never one that was copied.
LEMMA PostedType ==
  ASSUME NEW e \in Events
  PROVE  Posted(e) \in Entry /\ Posted(e) \notin LogEntry
BY DEF Posted, Entry, LogEntry

LEMMA LoggedType ==
  ASSUME NEW e \in Events
  PROVE  Logged(e) \in LogEntry
BY DEF Logged, Entry, LogEntry

LEMMA LogIsTrace ==
  ASSUME NEW lines \in Seq(LogEntry)
  PROVE  lines \in Seq(Entry)
<1>1. lines \in [1..Len(lines) -> LogEntry] /\ Len(lines) \in Nat
  BY LenProperties
<1>2. lines \in [1..Len(lines) -> Entry]
  BY <1>1 DEF LogEntry
<1> QED BY <1>1, <1>2, FunctionIsSeq

\* A trace event added to any result, or to none.
LEMMA AppendEventType ==
  ASSUME NEW st \in Status, NEW p, NEW e \in Events
  PROVE  AppendEvent(st, p, e) \in Status
<1>1. CASE p \in DOMAIN st.steps
  <2>1. st.steps[p] \in StepResult
    BY <1>1, StatusSteps
  <2>2. Append(st.steps[p].events, Posted(e)) \in Seq(Entry)
    BY <2>1, PostedType, AppendProperties DEF StepResult
  <2>3. [st.steps[p] EXCEPT !.events = Append(st.steps[p].events, Posted(e))]
          \in StepResult
    BY <2>1, <2>2 DEF StepResult
  <2> QED BY <2>3, NewResult DEF AppendEvent
<1>2. CASE p \notin DOMAIN st.steps
  <2>1. st.steps \in Seq(StepResult)
    BY StatusSteps
  <2>2. \A r : [st.steps EXCEPT ![p] = r] = st.steps
    BY <1>2, <2>1, NoChangeSeq
  <2>3. AppendEvent(st, p, e) = [st EXCEPT !.steps = st.steps]
    BY <2>2 DEF AppendEvent
  <2> QED BY <2>1, <2>3, NewSteps
<1> QED BY <1>1, <1>2

\* The events recorded with a result that was fetched from the log.
LEMMA WithLogEventsType ==
  ASSUME NEW r \in StepResult, NEW lines \in Seq(LogEntry)
  PROVE  WithLogEvents(r, lines) \in Seq(Entry)
BY LogIsTrace DEF WithLogEvents, StepResult

-----------------------------------------------------------------------------
(* Type correctness: the store.                                            *)

LEMMA StoredType ==
  ASSUME StoreTypeOK
  PROVE  Stored \in Status /\ Cached \in Status
BY DEF StoreTypeOK, Stored, Cached

LEMMA PersistType ==
  ASSUME StoreTypeOK, NEW st \in Status, Persist(st)
  PROVE  StoreTypeOK'
<1>1. rv \in Nat /\ seen \in Nat /\ seen <= rv /\ versions \in [seen..rv -> Status]
  BY DEF StoreTypeOK
<1>2. /\ rv' = rv + 1 /\ seen' = seen
      /\ versions' = [v \in seen..(rv + 1) |-> IF v = rv + 1 THEN st
                                               ELSE versions[v]]
  BY DEF Persist
<1>3. versions' \in [seen..(rv + 1) -> Status]
  <2>1. ASSUME NEW v \in seen..(rv + 1), v # rv + 1
        PROVE  versions[v] \in Status
    BY <2>1, <1>1
  <2> QED BY <1>2, <2>1
<1> QED BY <1>1, <1>2, <1>3 DEF StoreTypeOK

LEMMA CacheSyncType == StoreTypeOK /\ CacheSync => StoreTypeOK'
<1> SUFFICES ASSUME StoreTypeOK, CacheSync PROVE StoreTypeOK'
  OBVIOUS
<1>1. rv \in Nat /\ seen \in Nat /\ seen < rv /\ versions \in [seen..rv -> Status]
  BY DEF StoreTypeOK, CacheSync
<1>2. rv' = rv /\ seen' = seen + 1 /\ versions' = [v \in (seen + 1)..rv |-> versions[v]]
  BY DEF CacheSync
<1>3. versions' \in [(seen + 1)..rv -> Status]
  BY <1>1, <1>2
<1> QED BY <1>1, <1>2, <1>3 DEF StoreTypeOK

LEMMA CacheRelistType == StoreTypeOK /\ CacheRelist => StoreTypeOK'
<1> SUFFICES ASSUME StoreTypeOK, CacheRelist PROVE StoreTypeOK'
  OBVIOUS
<1>1. rv \in Nat /\ seen \in Nat /\ seen <= rv /\ versions \in [seen..rv -> Status]
  BY DEF StoreTypeOK
<1>2. rv' = rv /\ seen' = rv /\ versions' = [v \in rv..rv |-> versions[v]]
  BY DEF CacheRelist
<1>3. versions' \in [rv..rv -> Status]
  BY <1>1, <1>2
<1> QED BY <1>1, <1>2, <1>3 DEF StoreTypeOK

-----------------------------------------------------------------------------
(* Type correctness: the pieces of a reconcile.                            *)

LEMMA NoWorkflowType == NoWorkflow \in Workflow
<1>1. <<>> \in Seq(StepSpec)
  BY EmptyIsSeq
<1> QED BY <1>1 DEF NoWorkflow, Workflow

LEMMA IdleType == Idle \in Control
BY NoWorkflowType, EmptyStatusType DEF Idle, Control

LEMMA WriteStatusType ==
  ASSUME ctl \in Control, NEW st \in Status,
         NEW then \in {"return", "advance", "finish"}, WriteStatus(st, then)
  PROVE  ctl' \in Control
BY DEF WriteStatus, Control

LEMMA QuietType ==
  ASSUME TypeOK, Quiet, UNCHANGED req, ctl' \in Control
  PROVE  TypeOK'
BY DEF TypeOK, Quiet, StoreTypeOK, ControlTypeOK, RequestTypeOK, storeVars,
       external, effects

LEMMA ReturnType == Return => ctl' \in Control
BY IdleType DEF Return

\* What a reconcile that has come to a step works with.
LEMMA AtStepFacts ==
  ASSUME TypeOK, AtStep
  PROVE  /\ ctl.st \in Status /\ ctl.wf \in Workflow
         /\ Pos \in DOMAIN ctl.st.steps /\ Pos \in Nat
         /\ Step \in StepSpec /\ Result \in StepResult
         /\ StepJob \in JobNames
<1>1. ctl.st \in Status /\ ctl.wf \in Workflow
  BY DEF TypeOK, ControlTypeOK, Control
<1>2. Pos \in DOMAIN ctl.st.steps /\ Pos \in DOMAIN ctl.wf.steps
  BY DEF AtStep
<1>3. Pos \in Nat /\ Result \in StepResult
  BY <1>1, <1>2, StatusSteps DEF Result
<1>4. Step \in StepSpec
  <2>1. ctl.wf.steps \in Seq(StepSpec)
    BY <1>1 DEF Workflow
  <2>2. ctl.wf.steps[Pos] \in StepSpec
    BY <1>2, <2>1, ElementOfSeq, LenProperties
  <2> QED BY <2>2 DEF Step
<1>5. StepJob \in JobNames
  BY <1>4, JobNameAssumption DEF StepJob, StepSpec
<1> QED BY <1>1, <1>2, <1>3, <1>4, <1>5

LEMMA FailPiStepType ==
  ASSUME TypeOK, NEW st \in Status, Pos \in DOMAIN st.steps,
         NEW why \in Reasons, FailPiStep(st, why)
  PROVE  ctl' \in Control
<1>1. FailStep(st, Pos, why) \in Status
  BY StepEdits
<1>2. ctl \in Control
  BY DEF TypeOK, ControlTypeOK
<1> QED BY <1>1, <1>2, WriteStatusType DEF FailPiStep

LEMMA FailAgentStepType ==
  ASSUME TypeOK, AtStep,
         \/ FailAgentStep
         \/ WriteStatus(IF Simple THEN FailRun(ctl.st, "step")
                        ELSE FailStep(ctl.st, Pos, "step"), "return")
  PROVE  ctl' \in Control
<1>1. /\ FailRun(ctl.st, "step") \in Status
      /\ FailStep(ctl.st, Pos, "step") \in Status
      /\ PassFailedStep(ctl.st, Pos) \in Status
  BY AtStepFacts, StepEdits, RunEdits DEF Reasons
<1>2. ctl \in Control
  BY DEF TypeOK, ControlTypeOK
<1> QED BY <1>1, <1>2, WriteStatusType DEF FailAgentStep

LEMMA BeginType ==
  ASSUME TypeOK, Begin PROVE ctl' \in Control
<1>1. Cached \in Status /\ seen \in Nat
  BY StoredType DEF TypeOK, StoreTypeOK
<1>2. workflow \in Workflow
  BY NoWorkflowType, WorkflowsAssumption DEF TypeOK, ControlTypeOK
<1> QED BY <1>1, <1>2 DEF Begin, Control

LEMMA DispatchType ==
  ASSUME TypeOK, Dispatch PROVE ctl' \in Control
<1>1. ctl \in Control /\ ctl.st \in Status /\ ctl.wf \in Workflow
  BY DEF TypeOK, ControlTypeOK, Control
<1>2. CASE WorkflowMissing
  BY <1>1, <1>2, RunEdits, WriteStatusType DEF WorkflowMissing, Reasons
<1>3. CASE InitializeRun
  BY <1>1, <1>3, InitStatusType, WriteStatusType DEF InitializeRun
<1>4. CASE NoStepResults
  BY <1>1, <1>4, RunEdits, WriteStatusType DEF NoStepResults, Reasons
<1>5. CASE AllStepsDone
  BY <1>1, <1>5 DEF AllStepsDone, Control
<1>6. CASE SkipStep
  BY <1>1, <1>6, AtStepFacts, StepEdits, WriteStatusType DEF SkipStep
<1>7. CASE StartStep
  BY <1>1, <1>7, AtStepFacts, StepEdits, WriteStatusType
     DEF StartStep, Selected
<1> QED BY <1>2, <1>3, <1>4, <1>5, <1>6, <1>7 DEF Dispatch

LEMMA RequeueType ==
  ASSUME Requeue PROVE ctl' \in Control
BY ReturnType DEF Requeue, ReadError, StepOutOfRange, StepNotRunning,
                  JobRunning, SessionBusy

LEMMA JobOfResult ==
  ASSUME TypeOK, HasJob PROVE Result.job \in JobNames
BY AtStepFacts DEF HasJob, Running, Selected, StepResult

\* What is fetched from the log of a Job.
LEMMA FetchedType ==
  ASSUME TypeOK, HasJob, NEW texts \in SUBSET Texts, NEW instead \in Texts,
         NEW log \in Fetched(texts, instead)
  PROVE  log[1] \in Texts /\ log[2] \in Seq(Entry)
<1>1. AtStep /\ Result \in StepResult
  BY AtStepFacts DEF HasJob, Running, Selected
<1>2. logs[Result.job] \in Seq(LogEntry)
  BY JobOfResult DEF TypeOK, ControlTypeOK
<1>3. /\ WithLogEvents(Result, logs[Result.job]) \in Seq(Entry)
      /\ Result.events \in Seq(Entry)
  BY <1>1, <1>2, WithLogEventsType DEF StepResult
<1> QED BY <1>3 DEF Fetched, Texts

LEMMA SeenJobType ==
  ASSUME TypeOK, HasJob PROVE SeenJob \in Job
BY JobOfResult DEF TypeOK, ControlTypeOK, SeenJob

LEMMA JobSucceededType ==
  ASSUME TypeOK, JobSucceeded PROVE ctl' \in Control
<1>1. AtStep /\ HasJob
  BY DEF JobSucceeded, HasJob, Running, Selected
<1>2. PICK log \in Fetched(Answers, "other") :
        WriteStatus(Complete(ctl.st, Pos, log[1], SeenJob.step, log[2]),
                    IF Simple THEN "finish" ELSE "advance")
  BY DEF JobSucceeded
<1>3. log[1] \in Texts /\ log[2] \in Seq(Entry)
  BY <1>1, FetchedType DEF Texts, Answers
<1>4. SeenJob.step \in Nat
  BY <1>1, SeenJobType DEF Job
<1>5. Complete(ctl.st, Pos, log[1], SeenJob.step, log[2]) \in Status
  BY <1>1, <1>3, <1>4, AtStepFacts, ResultEdits
<1>6. ctl \in Control
  BY DEF TypeOK, ControlTypeOK
<1> QED BY <1>2, <1>5, <1>6, WriteStatusType

LEMMA JobFailedType ==
  ASSUME TypeOK, JobFailed PROVE ctl' \in Control
<1>1. AtStep /\ HasJob
  BY DEF JobFailed, HasJob, Running, Selected
<1>2. PICK log \in Fetched({"other"}, "none") :
        FailPiStep(Partial(ctl.st, Pos, log[1], SeenJob.step, log[2]), "step")
  BY DEF JobFailed
<1>3. log[1] \in Texts /\ log[2] \in Seq(Entry)
  BY <1>1, FetchedType DEF Texts, Answers
<1>4. SeenJob.step \in Nat
  BY <1>1, SeenJobType DEF Job
<1> DEFINE st == Partial(ctl.st, Pos, log[1], SeenJob.step, log[2])
<1>5. st \in Status
  BY <1>1, <1>3, <1>4, AtStepFacts, ResultEdits
<1>6. Pos \in DOMAIN st.steps
  <2>1. Pos \in DOMAIN ctl.st.steps /\ ctl.st \in Status
    BY <1>1, AtStepFacts
  <2> QED BY <2>1 DEF Partial, Status
<1> HIDE DEF st
<1> QED BY <1>2, <1>5, <1>6, FailPiStepType DEF st, Reasons

LEMMA PiStepType ==
  ASSUME TypeOK, PiStep PROVE ctl' \in Control
<1>1. ctl \in Control
  BY DEF TypeOK, ControlTypeOK
<1>2. AtStep
  BY DEF PiStep, PiAgentUnavailable, PiPromptFails, PiEnvFails, CreateJob,
         AdoptJob, CreateJobFails, JobMissing, JobSucceeded, JobFailed, WantsJob,
         HasJob, Running, Selected
<1>3. /\ ctl.st \in Status /\ Pos \in DOMAIN ctl.st.steps
      /\ SetJob(ctl.st, Pos, StepJob) \in Status
  BY <1>2, AtStepFacts, ResultEdits
<1>4. CASE PiAgentUnavailable \/ PiPromptFails \/ PiEnvFails
             \/ CreateJobFails \/ JobMissing
  BY <1>3, <1>4, FailPiStepType
     DEF PiAgentUnavailable, PiPromptFails, PiEnvFails, CreateJobFails,
         JobMissing, Reasons
<1>5. CASE CreateJob \/ AdoptJob
  BY <1>1, <1>3, <1>5, WriteStatusType DEF CreateJob, AdoptJob
<1> QED BY <1>4, <1>5, JobSucceededType, JobFailedType DEF PiStep

LEMMA AgentStepType ==
  ASSUME TypeOK, AgentStep PROVE ctl' \in Control
<1>1. ctl \in Control
  BY DEF TypeOK, ControlTypeOK
<1>2. AtStep
  BY DEF AgentStep, AgentMissing, AgentPromptFails, StartSession,
         StartSessionFails, SessionFetchFails, SessionFinished, WantsSession,
         HasSession, Running, Selected
<1>3. /\ ctl.st \in Status /\ Pos \in DOMAIN ctl.st.steps /\ Pos \in Nat
      /\ Result.events \in Seq(Entry)
  BY <1>2, AtStepFacts DEF StepResult
<1>4. CASE AgentMissing \/ AgentPromptFails \/ StartSessionFails
             \/ SessionFetchFails
  BY <1>2, <1>4, FailAgentStepType
     DEF AgentMissing, AgentPromptFails, StartSessionFails, SessionFetchFails
<1>5. CASE StartSession
  BY <1>1, <1>3, <1>5, ResultEdits, WriteStatusType DEF StartSession
<1>6. CASE SessionFinished
  <2>1. PICK text \in Texts :
          LET done == Complete(ctl.st, Pos, text, Pos, Result.events)
          IN  IF Simple THEN WriteStatus(done, "finish")
              ELSE WriteStatus(Advance(done), "return")
    BY <1>6 DEF SessionFinished
  <2> DEFINE done == Complete(ctl.st, Pos, text, Pos, Result.events)
  <2>2. done \in Status
    BY <1>3, ResultEdits
  <2>3. Advance(done) \in Status
    BY <2>2, RunEdits
  <2>4. WriteStatus(done, "finish") \/ WriteStatus(Advance(done), "return")
    BY <2>1
  <2> QED BY <1>1, <2>2, <2>3, <2>4, WriteStatusType
<1> QED BY <1>4, <1>5, <1>6 DEF AgentStep

-----------------------------------------------------------------------------
(* Type correctness: whole steps.                                          *)

LEMMA AtLeastOnceType ==
  ASSUME NEW n \in 0..MaxStarts PROVE AtLeastOnce(n) \in 0..MaxStarts
BY MaxStartsAssumption DEF AtLeastOnce

LEMMA PlaceJobType ==
  ASSUME TypeOK, AtStep, PlaceJob, UNCHANGED req, ctl' \in Control
  PROVE  TypeOK'
<1>1. StoreTypeOK' /\ RequestTypeOK'
  BY DEF TypeOK, PlaceJob, StoreTypeOK, RequestTypeOK, storeVars
<1>2. NewJob(Pos) \in Job
  BY AtStepFacts DEF NewJob, Job, JobStates, StepSpec
<1>3. jobs' \in [JobNames -> Job]
  BY <1>2 DEF TypeOK, ControlTypeOK, PlaceJob
<1>4. created' \in [Positions -> 0..MaxStarts]
  BY AtLeastOnceType DEF TypeOK, ControlTypeOK, PlaceJob
<1> QED BY <1>1, <1>3, <1>4 DEF TypeOK, ControlTypeOK, PlaceJob

LEMMA SendPromptType ==
  ASSUME TypeOK, SendPrompt, UNCHANGED req, ctl' \in Control
  PROVE  TypeOK'
<1>1. StoreTypeOK' /\ RequestTypeOK'
  BY DEF TypeOK, SendPrompt, StoreTypeOK, RequestTypeOK, storeVars
<1>2. prompts' \in [Positions -> 0..MaxStarts]
  BY AtLeastOnceType DEF TypeOK, ControlTypeOK, SendPrompt
<1> QED BY <1>1, <1>2 DEF TypeOK, ControlTypeOK, SendPrompt, external

LEMMA SendOutputsType ==
  ASSUME TypeOK, SendOutputs, UNCHANGED req PROVE TypeOK'
<1>1. ctl \in Control /\ ctl.st \in Status
  BY DEF TypeOK, ControlTypeOK, Control
<1>2. ctl' \in Control
  BY <1>1, RunEdits, WriteStatusType DEF SendOutputs
<1>3. StoreTypeOK' /\ RequestTypeOK'
  BY DEF TypeOK, SendOutputs, StoreTypeOK, RequestTypeOK, storeVars
<1>4. outputs' \in 0..MaxStarts
  BY AtLeastOnceType DEF TypeOK, ControlTypeOK, SendOutputs
<1> QED BY <1>2, <1>3, <1>4 DEF TypeOK, ControlTypeOK, SendOutputs, external

LEMMA AfterWriteType ==
  ASSUME TypeOK, AfterWrite PROVE ctl' \in Control
<1>1. ctl \in Control /\ ctl.st \in Status /\ rv + 1 \in Nat
  BY DEF TypeOK, ControlTypeOK, Control, StoreTypeOK
<1>2. Advance(ctl.st) \in Status
  BY <1>1, RunEdits
<1>3. ctl.then \in {"return", "advance", "finish"}
  BY <1>1 DEF Control
<1>4. CASE ctl.then = "return"
  BY <1>4, IdleType DEF AfterWrite
<1>5. CASE ctl.then = "advance"
  BY <1>1, <1>2, <1>5 DEF AfterWrite, Control
<1>6. CASE ctl.then = "finish"
  BY <1>1, <1>6 DEF AfterWrite, Control
<1> QED BY <1>3, <1>4, <1>5, <1>6

\* A step that writes the store or leaves it, and ends with some `ctl'.
LEMMA StoreWriteType ==
  ASSUME TypeOK, NEW st \in Status, Persist(st) \/ UNCHANGED storeVars,
         ctl' \in Control, UNCHANGED <<external, effects, req>>
  PROVE  TypeOK'
<1>1. StoreTypeOK'
  BY PersistType DEF TypeOK, StoreTypeOK, storeVars
<1> QED BY <1>1 DEF TypeOK, ControlTypeOK, RequestTypeOK, external, effects

LEMMA UpdateType ==
  ASSUME TypeOK, Update, UNCHANGED req PROVE TypeOK'
<1>1. ctl.st \in Status
  BY DEF TypeOK, ControlTypeOK, Control
<1>2. CASE UpdateOk
  BY <1>1, <1>2, AfterWriteType, StoreWriteType DEF UpdateOk
<1>3. CASE UpdateConflict
  BY <1>3, ReturnType, QuietType DEF UpdateConflict
<1>4. CASE UpdateError
  BY <1>1, <1>4, ReturnType, StoreWriteType DEF UpdateError
<1> QED BY <1>2, <1>3, <1>4 DEF Update

LEMMA ReconcileType ==
  ASSUME TypeOK, Reconcile, UNCHANGED req PROVE TypeOK'
<1>1. CASE Begin \/ Dispatch \/ Requeue
  <2>1. ctl' \in Control
    BY <1>1, BeginType, DispatchType, RequeueType
  <2>2. Quiet
    BY <1>1 DEF Begin, Dispatch, Requeue, WorkflowMissing, InitializeRun,
       NoStepResults, AllStepsDone, SkipStep, StartStep, ReadError,
       StepOutOfRange, StepNotRunning, JobRunning, SessionBusy
  <2> QED BY <2>1, <2>2, QuietType
<1>2. CASE PiStep
  <2>1. ctl' \in Control
    BY <1>2, PiStepType
  <2>2. Quiet \/ (AtStep /\ PlaceJob)
    BY <1>2 DEF PiStep, PiAgentUnavailable, PiPromptFails, PiEnvFails, CreateJob,
       AdoptJob, CreateJobFails, JobMissing, JobSucceeded, JobFailed,
       WantsJob, Running, Selected
  <2> QED BY <2>1, <2>2, QuietType, PlaceJobType
<1>3. CASE AgentStep
  <2>1. ctl' \in Control
    BY <1>3, AgentStepType
  <2>2. Quiet \/ SendPrompt
    BY <1>3 DEF AgentStep, AgentMissing, AgentPromptFails, StartSession,
       StartSessionFails, SessionFetchFails, SessionFinished
  <2> QED BY <2>1, <2>2, QuietType, SendPromptType
<1> QED BY <1>1, <1>2, <1>3, SendOutputsType, UpdateType DEF Reconcile

LEMMA ClusterType ==
  ASSUME TypeOK, Cluster, UNCHANGED req PROVE TypeOK'
<1> USE DEF TypeOK, StoreTypeOK, ControlTypeOK, RequestTypeOK, storeVars,
            effects
<1>1. NoSuchJob \in Job
  BY DEF NoSuchJob, Job, JobStates, NoJob
<1>2. CASE JobFinish
  <2>1. PICK j \in JobNames, outcome \in {"succeeded", "failed"} :
          jobs' = [jobs EXCEPT ![j].state = outcome]
    BY <1>2 DEF JobFinish
  <2>2. [jobs[j] EXCEPT !.state = outcome] \in Job
    BY DEF Job, JobStates
  <2>3. jobs' \in [JobNames -> Job]
    BY <2>1, <2>2
  <2> QED BY <1>2, <2>3 DEF JobFinish
<1>3. CASE JobExpire
  <2>1. <<>> \in Seq(LogEntry)
    BY EmptyIsSeq
  <2> QED BY <1>1, <1>3, <2>1 DEF JobExpire
<1>4. CASE JobSync
  BY <1>4 DEF JobSync
<1>5. CASE EditWorkflow
  BY <1>5, MaxEditsAssumption, EditableAssumption DEF EditWorkflow
<1> QED BY <1>2, <1>3, <1>4, <1>5 DEF Cluster

-----------------------------------------------------------------------------
(* Type correctness: the callback handlers.                                *)

LEMMA AttemptRange ==
  /\ 0 \in 0..(MaxRetries - 1)
  /\ \A a \in 0..(MaxRetries - 1) :
       a < MaxRetries - 1 => a + 1 \in 0..(MaxRetries - 1)
BY DEF MaxRetries

LEMMA NoRequestType == NoRequest \in Request
BY EmptyStatusType DEF NoRequest, Request, RequestStates, MaxRetries

\* One request changes, to another legal one.
LEMMA RequestChange ==
  ASSUME RequestTypeOK, NEW e \in Events, NEW r \in Request,
         req' = [req EXCEPT ![e] = r]
  PROVE  RequestTypeOK'
BY DEF RequestTypeOK

LEMMA FinishType ==
  ASSUME RequestTypeOK, NEW e \in Events, NEW outcome \in RequestStates,
         Finish(e, outcome)
  PROVE  RequestTypeOK'
<1>1. [req[e] EXCEPT !.pc = outcome, !.base = 0, !.attempt = 0,
                     !.st = EmptyStatus] \in Request
  BY EmptyStatusType, AttemptRange DEF RequestTypeOK, Request
<1> QED BY <1>1, RequestChange DEF Finish

LEMMA HandleType ==
  ASSUME TypeOK, NEW e \in Events, Handle(e), UNCHANGED ctlVars
  PROVE  TypeOK'
<1>1. RequestTypeOK /\ req[e] \in Request /\ req[e].st \in Status
  BY DEF TypeOK, RequestTypeOK, Request
<1>2. ControlTypeOK'
  BY DEF TypeOK, ControlTypeOK, ctlVars
<1>3. CASE UNCHANGED storeVars
  <2>1. StoreTypeOK'
    BY <1>3 DEF TypeOK, StoreTypeOK, storeVars
  <2>2. CASE \E outcome \in RequestStates : Finish(e, outcome)
    BY <1>1, <1>2, <2>1, <2>2, FinishType DEF TypeOK
  <2>3. CASE Fetch(e) /\ ~Finish(e, "refused")
    <3> DEFINE p == FirstNamed(Cached, req[e].name)
    <3>1. AppendEvent(Cached, p, e) \in Status /\ seen \in Nat
      BY StoredType, AppendEventType DEF TypeOK, StoreTypeOK
    <3> HIDE DEF p
    <3>2. [req[e] EXCEPT !.pc = "held", !.base = seen,
                         !.st = AppendEvent(Cached, p, e)] \in Request
      BY <1>1, <3>1 DEF Request, RequestStates
    <3>3. RequestTypeOK'
      BY <1>1, <2>3, <3>2, RequestChange DEF Fetch, p
    <3> QED BY <1>2, <2>1, <3>3 DEF TypeOK
  <2>4. CASE Conflict(e) /\ req[e].attempt < MaxRetries - 1
    <3>1. NextAttempt(req[e]) \in Request
      <4>1. req[e].attempt + 1 \in 0..(MaxRetries - 1)
        BY <1>1, <2>4, AttemptRange DEF Request
      <4> QED BY <1>1, <4>1, EmptyStatusType
              DEF NextAttempt, Request, RequestStates
    <3>2. RequestTypeOK'
      BY <1>1, <2>4, <3>1, RequestChange DEF Conflict, TryAgain
    <3> QED BY <1>2, <2>1, <3>2 DEF TypeOK
  <2> QED BY <1>3, <2>2, <2>3, <2>4
          DEF Handle, Drop, FetchFails, Accept, Conflict, UpdateFails,
              RequestStates
<1>4. CASE Persist(req[e].st) /\ \E outcome \in RequestStates : Finish(e, outcome)
  BY <1>1, <1>2, <1>4, PersistType, FinishType DEF TypeOK
<1> QED BY <1>3, <1>4 DEF Handle, Drop, FetchFails, Fetch, Accept, Conflict,
                          UpdateFails, RequestStates

LEMMA RunnerPostType == TypeOK /\ RunnerPost => TypeOK'
<1> SUFFICES ASSUME TypeOK, RunnerPost PROVE TypeOK'
  OBVIOUS
<1>1. PICK e \in Events, j \in JobNames :
        Post(e, jobs[j].name) /\ logs' = [logs EXCEPT ![j] = Append(@, Logged(e))]
  BY DEF RunnerPost
<1>2. jobs[j].name \in Names \union {NoJob}
  BY DEF TypeOK, ControlTypeOK, Job
<1>3. RequestTypeOK /\ req[e] \in Request
  BY DEF TypeOK, RequestTypeOK
<1>4. [req[e] EXCEPT !.pc = "sent", !.name = jobs[j].name] \in Request
  BY <1>2, <1>3 DEF Request, RequestStates
<1>5. RequestTypeOK'
  BY <1>1, <1>3, <1>4 DEF Post, RequestTypeOK
<1>6. StoreTypeOK'
  BY <1>1 DEF TypeOK, Post, StoreTypeOK, storeVars
<1>7. logs' \in [JobNames -> Seq(LogEntry)]
  <2>1. logs[j] \in Seq(LogEntry) /\ Logged(e) \in LogEntry
    BY LoggedType DEF TypeOK, ControlTypeOK
  <2>2. Append(logs[j], Logged(e)) \in Seq(LogEntry)
    BY <2>1, AppendProperties
  <2> QED BY <1>1, <2>2 DEF TypeOK, ControlTypeOK
<1>8. ControlTypeOK'
  BY <1>7 DEF TypeOK, RunnerPost, ControlTypeOK, effects
<1> QED BY <1>5, <1>6, <1>8 DEF TypeOK

LEMMA RestartType == TypeOK /\ Restart => TypeOK'
<1> SUFFICES ASSUME TypeOK, Restart PROVE TypeOK'
  OBVIOUS
<1>1. StoreTypeOK'
  BY CacheRelistType DEF TypeOK, Restart
<1>2. ControlTypeOK'
  BY IdleType DEF TypeOK, Restart, RestartController, ControlTypeOK, effects
<1>3. RequestTypeOK'
  <2>1. ASSUME NEW e \in Events
        PROVE  [NoRequest EXCEPT !.pc = "lost", !.name = req[e].name] \in Request
    BY NoRequestType DEF TypeOK, RequestTypeOK, Request, RequestStates
  <2> QED BY <2>1 DEF TypeOK, Restart, RestartHandlers, RequestTypeOK
<1> QED BY <1>1, <1>2, <1>3 DEF TypeOK

-----------------------------------------------------------------------------
LEMMA InitType == Init => TypeOK
<1> SUFFICES ASSUME Init PROVE TypeOK
  OBVIOUS
<1>1. StoreTypeOK
  BY EmptyStatusType DEF Init, StoreInit, StoreTypeOK
<1>2. ControlTypeOK
  <2>1. NoSuchJob \in Job
    BY DEF NoSuchJob, Job, JobStates, NoJob
  <2>2. 0 \in 0..MaxStarts /\ 0 \in 0..MaxEdits
    BY MaxStartsAssumption, MaxEditsAssumption
  <2>3. <<>> \in Seq(LogEntry)
    BY EmptyIsSeq
  <2> QED BY <2>1, <2>2, <2>3, IdleType DEF Init, ControlInit, ControlTypeOK
<1>3. RequestTypeOK
  BY NoRequestType DEF Init, RequestInit, RequestTypeOK
<1> QED BY <1>1, <1>2, <1>3 DEF TypeOK

LEMMA NextType == TypeOK /\ [Next]_vars => TypeOK'
<1> SUFFICES ASSUME TypeOK, [Next]_vars PROVE TypeOK'
  OBVIOUS
<1>1. CASE Reconcile /\ UNCHANGED req
  BY <1>1, ReconcileType
<1>2. CASE Cluster /\ UNCHANGED req
  BY <1>2, ClusterType
<1>3. CASE CacheSync /\ UNCHANGED <<ctlVars, req>>
  BY <1>3, CacheSyncType DEF TypeOK, ControlTypeOK, RequestTypeOK, ctlVars
<1>4. CASE Callback
  BY <1>4, HandleType DEF Callback
<1>5. CASE UNCHANGED vars
  BY <1>5 DEF vars, TypeOK, StoreTypeOK, ControlTypeOK, RequestTypeOK,
              storeVars, ctlVars
<1> QED BY <1>1, <1>2, <1>3, <1>4, <1>5, RunnerPostType, RestartType DEF Next

(* Every value the operator, its caches and its handlers hold is one the   *)
(* API's types allow, however many steps, events and versions there are.   *)
THEOREM TypeCorrect == Spec => []TypeOK
BY InitType, NextType, PTL DEF Spec

-----------------------------------------------------------------------------
(* The stored run.                                                         *)

LEMMA PersistStores ==
  ASSUME StoreTypeOK, NEW st, Persist(st)
  PROVE  rv' = rv + 1 /\ Stored' = st
BY DEF StoreTypeOK, Persist, Stored

LEMMA CacheKeepsStored ==
  ASSUME StoreTypeOK, CacheSync \/ CacheRelist \/ UNCHANGED storeVars
  PROVE  rv' = rv /\ Stored' = Stored
BY DEF StoreTypeOK, CacheSync, CacheRelist, storeVars, Stored

LEMMA FirstNamedPosition ==
  ASSUME NEW st \in Status, NEW n, StepNamed(st, n) # {}
  PROVE  FirstNamed(st, n) \in DOMAIN st.steps
<1>1. StepNamed(st, n) \in SUBSET Nat
  BY StatusSteps DEF StepNamed
<1>2. \E p \in StepNamed(st, n) : \A q \in StepNamed(st, n) : p <= q
  BY <1>1, LeastNatural
<1> QED BY <1>2 DEF FirstNamed, StepNamed

-----------------------------------------------------------------------------
(* The copies in flight, as others move.                                   *)

\* The store stays, or moves on to a version nobody holds.
StoreMoves == (rv' = rv /\ Stored' = Stored) \/ rv' = rv + 1

LEMMA ControlWaits ==
  ASSUME TypeOK, ControlInFlight, StoreMoves, UNCHANGED ctl
  PROVE  ControlInFlight'
<1>1. rv \in Nat /\ ctl.base \in Nat
  BY DEF TypeOK, StoreTypeOK, ControlTypeOK, Control
<1>2. CASE rv' = rv /\ Stored' = Stored
  BY <1>2 DEF ControlInFlight
<1>3. CASE rv' = rv + 1
  <2>1. ctl.base <= rv => ctl.base <= rv' /\ ctl.base # rv'
    BY <1>1, <1>3
  <2> QED BY <2>1 DEF ControlInFlight
<1> QED BY <1>2, <1>3 DEF StoreMoves

LEMMA HandlersWait ==
  ASSUME TypeOK, HandlersInFlight, StoreMoves,
         \A e \in Events : req'[e].pc = "held" => req'[e] = req[e]
  PROVE  HandlersInFlight'
<1> SUFFICES ASSUME NEW e \in Events, req[e].pc = "held", req'[e] = req[e]
             PROVE  /\ req[e].base <= rv'
                    /\ req[e].base = rv' =>
                         \E p \in DOMAIN Results' :
                           req[e].st = AppendEvent(Stored', p, e)
  BY DEF HandlersInFlight
<1>1. rv \in Nat /\ req[e].base \in Nat
  BY DEF TypeOK, StoreTypeOK, RequestTypeOK, Request
<1>2. /\ req[e].base <= rv
      /\ req[e].base = rv => \E p \in DOMAIN Results :
                               req[e].st = AppendEvent(Stored, p, e)
  BY DEF HandlersInFlight
<1>3. CASE rv' = rv /\ Stored' = Stored
  BY <1>2, <1>3 DEF Results
<1>4. CASE rv' = rv + 1
  <2>1. req[e].base <= rv' /\ req[e].base # rv'
    BY <1>1, <1>2, <1>4
  <2> QED BY <2>1
<1> QED BY <1>3, <1>4 DEF StoreMoves

-----------------------------------------------------------------------------
(* The reconcile.                                                          *)

\* The copy is edited; only a run that is not terminal goes on to succeedRun.
EditsCopy ==
  \E st, then : WriteStatus(st, then) /\ (then = "finish" => ~Terminal(st))

LEMMA EditKeeps ==
  ASSUME TypeOK, ControlInFlight, Begun, UNCHANGED storeVars, EditsCopy
  PROVE  ControlInFlight'
<1>1. PICK st, then : WriteStatus(st, then) /\ (then = "finish" => ~Terminal(st))
  BY DEF EditsCopy
<1>2. /\ ctl'.pc = "write" /\ ctl'.st = st /\ ctl'.then = then
      /\ ctl'.base = ctl.base
  BY <1>1 DEF WriteStatus, TypeOK, ControlTypeOK, Control
<1>3. rv' = rv /\ Stored' = Stored
  BY CacheKeepsStored DEF TypeOK
<1>4. /\ ctl.base <= rv /\ ~Terminal(ctl.st)
      /\ ctl.base = rv => ctl.st = Stored
  BY DEF ControlInFlight, Begun
<1> QED BY <1>1, <1>2, <1>3, <1>4 DEF ControlInFlight

LEMMA IdleKeeps == Return => ControlInFlight'
BY DEF Return, Idle, ControlInFlight

LEMMA CompletePhase ==
  ASSUME NEW st \in Status, NEW p, NEW x, NEW f, NEW es
  PROVE  Terminal(Complete(st, p, x, f, es)) = Terminal(st)
BY DEF Complete, Terminal, Status

LEMMA DispatchEdits ==
  ASSUME Dispatch PROVE Begun /\ (EditsCopy \/ AllStepsDone)
BY DEF Dispatch, WorkflowMissing, InitializeRun, NoStepResults, SkipStep,
       StartStep, AllStepsDone, Selected, AtStep, Executing, EditsCopy

LEMMA PiStepEdits ==
  ASSUME TypeOK, ControlInFlight, PiStep PROVE Begun /\ EditsCopy
<1>1. Begun
  BY DEF PiStep, PiAgentUnavailable, PiPromptFails, PiEnvFails, CreateJob,
         AdoptJob, CreateJobFails, JobMissing, JobSucceeded, JobFailed, WantsJob,
         HasJob, Running, Selected, AtStep, Executing
<1>2. CASE JobSucceeded
  <2>1. PICK log : WriteStatus(Complete(ctl.st, Pos, log[1], SeenJob.step, log[2]),
                               IF Simple THEN "finish" ELSE "advance")
    BY <1>2 DEF JobSucceeded
  <2>2. ctl.st \in Status /\ ~Terminal(ctl.st)
    BY <1>1 DEF Begun, ControlInFlight, TypeOK, ControlTypeOK, Control
  <2> QED BY <1>1, <2>1, <2>2, CompletePhase DEF EditsCopy
<1>3. CASE ~JobSucceeded
  <2>1. \/ \E st, why : FailPiStep(st, why)
        \/ \E st : WriteStatus(st, "return")
    BY <1>3 DEF PiStep, PiAgentUnavailable, PiPromptFails, PiEnvFails, CreateJob,
                AdoptJob, CreateJobFails, JobMissing, JobFailed
  <2> QED BY <1>1, <2>1 DEF FailPiStep, EditsCopy
<1> QED BY <1>2, <1>3

LEMMA AgentStepEdits ==
  ASSUME TypeOK, ControlInFlight, AgentStep PROVE Begun /\ EditsCopy
<1>1. Begun
  BY DEF AgentStep, AgentMissing, AgentPromptFails, StartSession,
         StartSessionFails, SessionFetchFails, SessionFinished, WantsSession,
         HasSession, Running, Selected, AtStep, Executing
<1>2. CASE SessionFinished
  <2>1. PICK text \in Texts :
          LET done == Complete(ctl.st, Pos, text, Pos, Result.events)
          IN  IF Simple THEN WriteStatus(done, "finish")
              ELSE WriteStatus(Advance(done), "return")
    BY <1>2 DEF SessionFinished
  <2>2. ctl.st \in Status /\ ~Terminal(ctl.st)
    BY <1>1 DEF Begun, ControlInFlight, TypeOK, ControlTypeOK, Control
  <2> QED BY <1>1, <2>1, <2>2, CompletePhase DEF EditsCopy
<1>3. CASE ~SessionFinished
  <2>1. \E st : WriteStatus(st, "return")
    BY <1>3 DEF AgentStep, AgentMissing, AgentPromptFails, StartSession,
       StartSessionFails, SessionFetchFails, FailAgentStep
  <2> QED BY <1>1, <2>1 DEF EditsCopy
<1> QED BY <1>2, <1>3

LEMMA BeginKeeps ==
  ASSUME TypeOK, Begin PROVE ControlInFlight'
<1>1. /\ ctl'.pc = "begun" /\ ctl'.st = Cached /\ ctl'.base = seen
      /\ ~Terminal(Cached)
  BY DEF Begin
<1>2. rv' = rv /\ Stored' = Stored
  BY CacheKeepsStored DEF TypeOK, Begin, Quiet
<1>3. seen <= rv /\ (seen = rv => Cached = Stored)
  BY DEF TypeOK, StoreTypeOK, Cached, Stored
<1> QED BY <1>1, <1>2, <1>3 DEF ControlInFlight

LEMMA AllStepsDoneKeeps ==
  ASSUME TypeOK, ControlInFlight, AllStepsDone PROVE ControlInFlight'
<1>1. /\ ctl'.pc = "outputs" /\ ctl'.st = ctl.st /\ ctl'.base = ctl.base
      /\ ctl.pc = "begun"
  BY DEF AllStepsDone, Executing, Begun, TypeOK, ControlTypeOK, Control
<1>2. rv' = rv /\ Stored' = Stored
  BY CacheKeepsStored DEF TypeOK, AllStepsDone, Quiet
<1> QED BY <1>1, <1>2 DEF ControlInFlight

LEMMA SendOutputsKeeps ==
  ASSUME TypeOK, ControlInFlight, SendOutputs PROVE ControlInFlight'
<1>1. /\ ctl'.pc = "write" /\ ctl'.base = ctl.base /\ ctl'.then = "return"
      /\ ctl.pc = "outputs"
  BY DEF SendOutputs, WriteStatus, TypeOK, ControlTypeOK, Control
<1>2. rv' = rv /\ Stored' = Stored
  BY CacheKeepsStored DEF TypeOK, SendOutputs
<1> QED BY <1>1, <1>2 DEF ControlInFlight

LEMMA UpdateOkKeeps ==
  ASSUME TypeOK, ControlInFlight, UpdateOk PROVE ControlInFlight'
<1>1. rv' = rv + 1 /\ Stored' = ctl.st /\ rv \in Nat
  BY PersistStores DEF TypeOK, StoreTypeOK, UpdateOk
<1>2. ctl \in Control /\ ctl.pc = "write"
  BY DEF TypeOK, ControlTypeOK, UpdateOk, Writing
<1>3. CASE ctl.then = "return"
  BY <1>3, IdleKeeps DEF UpdateOk, AfterWrite, Return
<1>4. CASE ctl.then = "advance"
  <2>1. /\ ctl'.pc = "write" /\ ctl'.base = rv + 1 /\ ctl'.then = "return"
        /\ ctl'.st = Advance(ctl.st)
    BY <1>2, <1>4 DEF UpdateOk, AfterWrite, Control
  <2> QED BY <1>1, <2>1 DEF ControlInFlight
<1>5. CASE ctl.then = "finish"
  <2>1. /\ ctl'.pc = "outputs" /\ ctl'.base = rv + 1 /\ ctl'.st = ctl.st
    BY <1>2, <1>5 DEF UpdateOk, AfterWrite, Control
  <2>2. ~Terminal(ctl.st)
    BY <1>2, <1>5 DEF ControlInFlight
  <2> QED BY <1>1, <2>1, <2>2 DEF ControlInFlight
<1>6. ctl.then \in {"return", "advance", "finish"}
  BY <1>2 DEF Control
<1> QED BY <1>3, <1>4, <1>5, <1>6

\* Every step of the reconciler keeps its copy in order and the store at a
\* version no handler holds.
LEMMA ReconcileKeeps ==
  ASSUME TypeOK, ControlInFlight, Reconcile
  PROVE  ControlInFlight' /\ StoreMoves
<1>1. UNCHANGED storeVars => StoreMoves
  BY CacheKeepsStored DEF TypeOK, StoreMoves
<1>2. \A st : Persist(st) => StoreMoves
  BY PersistStores DEF TypeOK, StoreMoves
<1>3. CASE Begin
  BY <1>1, <1>3, BeginKeeps DEF Begin, Quiet
<1>4. CASE Dispatch \/ PiStep \/ AgentStep
  <2>1. UNCHANGED storeVars
    BY <1>4 DEF Dispatch, WorkflowMissing, InitializeRun, NoStepResults,
       AllStepsDone, SkipStep, StartStep, PiStep, PiAgentUnavailable,
       PiPromptFails, PiEnvFails, CreateJob, AdoptJob, CreateJobFails, JobMissing,
       JobSucceeded, JobFailed, AgentStep, AgentMissing, AgentPromptFails,
       StartSession, StartSessionFails, SessionFetchFails, SessionFinished,
       PlaceJob, SendPrompt, Quiet
  <2> QED BY <1>1, <1>4, <2>1, DispatchEdits, PiStepEdits, AgentStepEdits,
             EditKeeps, AllStepsDoneKeeps
<1>5. CASE Requeue
  BY <1>1, <1>5, IdleKeeps
     DEF Requeue, ReadError, StepOutOfRange, StepNotRunning, JobRunning,
         SessionBusy, Quiet
<1>6. CASE SendOutputs
  BY <1>1, <1>6, SendOutputsKeeps DEF SendOutputs
<1>7. CASE UpdateOk
  BY <1>2, <1>7, UpdateOkKeeps DEF UpdateOk
<1>8. CASE UpdateConflict \/ UpdateError
  BY <1>1, <1>2, <1>8, IdleKeeps DEF UpdateConflict, UpdateError, Quiet
<1> QED BY <1>3, <1>4, <1>5, <1>6, <1>7, <1>8 DEF Reconcile, Update

-----------------------------------------------------------------------------
(* The handlers.                                                           *)

\* What one handler's step does to the store and to the other requests.
LEMMA HandleEffect ==
  ASSUME TypeOK, NEW e \in Events, Handle(e)
  PROVE  /\ StoreMoves
         /\ \A d \in Events : d # e => req'[d] = req[d]
<1>1. UNCHANGED storeVars => StoreMoves
  BY CacheKeepsStored DEF TypeOK, StoreMoves
<1>2. \A st : Persist(st) => StoreMoves
  BY PersistStores DEF TypeOK, StoreMoves
<1>3. StoreMoves
  BY <1>1, <1>2 DEF Handle, Drop, FetchFails, Fetch, Accept, Conflict, UpdateFails
<1>4. \E r : req' = [req EXCEPT ![e] = r]
  BY DEF Handle, Drop, FetchFails, Fetch, Accept, Conflict, UpdateFails, Finish, TryAgain
<1>5. \A d \in Events : d # e => req'[d] = req[d]
  BY <1>4 DEF TypeOK, RequestTypeOK
<1> QED BY <1>3, <1>5

LEMMA AnsweredPc ==
  ASSUME RequestTypeOK, NEW e \in Events
  PROVE  /\ \A outcome : Finish(e, outcome) => req'[e].pc = outcome
         /\ TryAgain(e) => req'[e].pc = "retry"
<1>1. req \in [Events -> Request] /\ req[e] \in Request
  BY DEF RequestTypeOK
<1>2. ASSUME NEW outcome, Finish(e, outcome)
      PROVE  req'[e].pc = outcome
  <2>1. req'[e] = [req[e] EXCEPT !.pc = outcome, !.base = 0, !.attempt = 0,
                                 !.st = EmptyStatus]
    BY <1>1, <1>2 DEF Finish
  <2> QED BY <1>1, <2>1 DEF Request
<1>3. ASSUME TryAgain(e)
      PROVE  req'[e].pc = "retry"
  <2>1. req'[e] = NextAttempt(req[e])
    BY <1>1, <1>3 DEF TryAgain
  <2> QED BY <1>1, <2>1 DEF NextAttempt, Request
<1> QED BY <1>2, <1>3

LEMMA FetchKeeps ==
  ASSUME TypeOK, HandlersInFlight, NEW e \in Events, Fetch(e),
         req'[e].pc = "held"
  PROVE  /\ req'[e].base <= rv'
         /\ req'[e].base = rv' =>
              \E p \in DOMAIN Results' : req'[e].st = AppendEvent(Stored', p, e)
<1>1. rv' = rv /\ Stored' = Stored
  BY CacheKeepsStored DEF TypeOK, Fetch
<1>2. req \in [Events -> Request]
  BY DEF TypeOK, RequestTypeOK
<1> DEFINE p == FirstNamed(Cached, req[e].name)
<1>3. StepNamed(Cached, req[e].name) # {}
  <2>1. ~Finish(e, "refused")
    BY AnsweredPc DEF TypeOK
  <2> QED BY <2>1 DEF Fetch
<1>4. p \in DOMAIN Cached.steps
  BY <1>3, FirstNamedPosition, StoredType DEF TypeOK
<1>5. req'[e].base = seen /\ req'[e].st = AppendEvent(Cached, p, e)
  BY <1>2, <1>3 DEF Fetch, Request
<1>6. seen <= rv /\ (seen = rv => Cached = Stored)
  BY DEF TypeOK, StoreTypeOK, Cached, Stored
<1> HIDE DEF p
<1> QED BY <1>1, <1>4, <1>5, <1>6 DEF Results

LEMMA HandleKeeps ==
  ASSUME TypeOK, InFlight, NEW e \in Events, Handle(e), UNCHANGED ctlVars
  PROVE  InFlight'
<1>1. StoreMoves /\ \A d \in Events : d # e => req'[d] = req[d]
  BY HandleEffect
<1>2. ControlInFlight'
  BY <1>1, ControlWaits DEF InFlight, ctlVars
<1>3. CASE Fetch(e) /\ req'[e].pc = "held"
  <2>1. rv' = rv /\ Stored' = Stored
    BY <1>3, CacheKeepsStored DEF TypeOK, Fetch
  <2>2. HandlersInFlight'
    <3> SUFFICES ASSUME NEW d \in Events, req'[d].pc = "held"
                 PROVE  /\ req'[d].base <= rv'
                        /\ req'[d].base = rv' =>
                             \E p \in DOMAIN Results' :
                               req'[d].st = AppendEvent(Stored', p, d)
      BY DEF HandlersInFlight
    <3>1. CASE d = e
      BY <1>3, <3>1, FetchKeeps DEF InFlight
    <3>2. CASE d # e
      BY <1>1, <2>1, <3>2 DEF InFlight, HandlersInFlight, Results
    <3> QED BY <3>1, <3>2
  <2> QED BY <1>2, <2>2 DEF InFlight
<1>4. CASE req'[e].pc # "held"
  <2>1. \A d \in Events : req'[d].pc = "held" => req'[d] = req[d]
    BY <1>1, <1>4
  <2> QED BY <1>1, <1>2, <2>1, HandlersWait DEF InFlight
<1>5. Fetch(e) \/ req'[e].pc # "held"
  BY AnsweredPc DEF TypeOK, Handle, Drop, FetchFails, Accept, Conflict, UpdateFails
<1> QED BY <1>3, <1>4, <1>5

-----------------------------------------------------------------------------
LEMMA InFlightInit == Init => InFlight
BY DEF Init, ControlInit, RequestInit, Idle, NoRequest, InFlight,
       ControlInFlight, HandlersInFlight

LEMMA InFlightStep == TypeOK /\ InFlight /\ [Next]_vars => InFlight'
<1> SUFFICES ASSUME TypeOK, InFlight, [Next]_vars PROVE InFlight'
  OBVIOUS
<1>1. CASE Reconcile /\ UNCHANGED req
  BY <1>1, ReconcileKeeps, HandlersWait DEF InFlight
<1>2. ASSUME StoreMoves, UNCHANGED ctl,
             \A e \in Events : req'[e].pc = "held" => req'[e] = req[e]
      PROVE  InFlight'
  BY <1>2, ControlWaits, HandlersWait DEF InFlight
<1>3. CASE Cluster /\ UNCHANGED req
  <2>1. UNCHANGED storeVars /\ UNCHANGED ctl
    BY <1>3 DEF Cluster, JobFinish, JobExpire, JobSync, EditWorkflow
  <2> QED BY <1>2, <1>3, <2>1, CacheKeepsStored DEF TypeOK, StoreMoves
<1>4. CASE CacheSync /\ UNCHANGED <<ctlVars, req>>
  BY <1>2, <1>4, CacheKeepsStored DEF TypeOK, StoreMoves, ctlVars
<1>5. CASE RunnerPost
  <2>1. PICK e \in Events, j \in JobNames : Post(e, jobs[j].name)
    BY <1>5 DEF RunnerPost
  <2>2. \A d \in Events : req'[d].pc = "held" => req'[d] = req[d]
    BY <2>1 DEF Post, TypeOK, RequestTypeOK, Request
  <2>3. StoreMoves
    BY <2>1, CacheKeepsStored DEF TypeOK, StoreMoves, Post
  <2> QED BY <1>2, <1>5, <2>2, <2>3 DEF RunnerPost, ctlVars
<1>6. CASE Callback
  BY <1>6, HandleKeeps DEF Callback
<1>7. CASE Restart
  <2>1. rv' = rv /\ Stored' = Stored
    BY <1>7, CacheKeepsStored DEF TypeOK, Restart
  <2>2. ControlInFlight'
    BY <1>7, IdleKeeps DEF Restart, RestartController, Return
  <2>3. \A e \in Events : req'[e].pc # "held"
    BY <1>7 DEF Restart, RestartHandlers, TypeOK, RequestTypeOK, NoRequest,
                Request
  <2> QED BY <2>2, <2>3 DEF InFlight, HandlersInFlight
<1>8. CASE UNCHANGED vars
  BY <1>2, <1>8, CacheKeepsStored DEF vars, ctlVars, TypeOK, StoreMoves
<1> QED BY <1>1, <1>3, <1>4, <1>5, <1>6, <1>7, <1>8 DEF Next

(* Optimistic locking does its work: whoever could still write the run     *)
(* holds the latest version of it, changed by nothing but its own edit.    *)
THEOREM CopiesInFlight == Spec => []InFlight
<1>1. Init => TypeOK /\ InFlight
  BY InitType, InFlightInit
<1>2. (TypeOK /\ InFlight) /\ [Next]_vars => (TypeOK /\ InFlight)'
  BY NextType, InFlightStep
<1> QED BY <1>1, <1>2, PTL DEF Spec

-----------------------------------------------------------------------------
(* Terminal runs.                                                          *)

\* The stored run changes only by a copy of its latest version.
LEMMA WhoWrites ==
  ASSUME TypeOK, [Next]_vars
  PROVE  \/ Stored' = Stored
         \/ Writing /\ ctl.base = rv /\ Stored' = ctl.st
         \/ \E e \in Events :
              /\ req[e].pc = "held" /\ req[e].base = rv
              /\ Stored' = req[e].st
<1>1. UNCHANGED storeVars => Stored' = Stored
  BY CacheKeepsStored DEF TypeOK
<1>2. \A st : Persist(st) => Stored' = st
  BY PersistStores DEF TypeOK
<1>3. CASE Reconcile /\ UNCHANGED req
  <2>1. CASE UNCHANGED storeVars
    BY <1>1, <2>1
  <2>2. CASE Update
    BY <1>1, <1>2, <2>2
       DEF Update, UpdateOk, UpdateConflict, UpdateError, IsLatest, Quiet
  <2> QED BY <1>3, <2>1, <2>2
    DEF Reconcile, Begin, Dispatch, WorkflowMissing, InitializeRun,
        NoStepResults, AllStepsDone, SkipStep, StartStep, PiStep,
        PiAgentUnavailable, PiPromptFails, PiEnvFails, CreateJob, AdoptJob,
        CreateJobFails, JobMissing, JobSucceeded, JobFailed, AgentStep,
        AgentMissing, AgentPromptFails, StartSession, StartSessionFails,
        SessionFetchFails, SessionFinished, PlaceJob, SendPrompt, Quiet,
        Requeue, ReadError, StepOutOfRange, StepNotRunning, JobRunning,
        SessionBusy, SendOutputs
<1>4. CASE Cluster /\ UNCHANGED req
  BY <1>1, <1>4 DEF Cluster, JobFinish, JobExpire, JobSync, EditWorkflow
<1>5. CASE CacheSync \/ Restart
  BY <1>5, CacheKeepsStored DEF TypeOK, Restart
<1>6. CASE RunnerPost
  BY <1>1, <1>6 DEF RunnerPost, Post
<1>7. CASE Callback
  BY <1>1, <1>2, <1>7
     DEF Callback, Handle, Drop, FetchFails, Fetch, Accept, Conflict, UpdateFails, IsLatest
<1>8. CASE UNCHANGED vars
  BY <1>1, <1>8 DEF vars
<1> QED BY <1>3, <1>4, <1>5, <1>6, <1>7, <1>8 DEF Next

\* An added trace event is the only change to the results.
LEMMA AppendKeepsResults ==
  ASSUME NEW st \in Status, NEW p \in DOMAIN st.steps, NEW e \in Events
  PROVE  /\ AppendEvent(st, p, e).phase = st.phase
         /\ DOMAIN AppendEvent(st, p, e).steps = DOMAIN st.steps
         /\ \A q \in DOMAIN st.steps :
              [AppendEvent(st, p, e).steps[q] EXCEPT !.events = st.steps[q].events]
                = st.steps[q]
<1> DEFINE new == [st.steps[p] EXCEPT !.events = Append(st.steps[p].events, Posted(e))]
<1>1. \A q \in DOMAIN st.steps : st.steps[q] \in StepResult
  BY StatusSteps
<1>2. /\ AppendEvent(st, p, e).phase = st.phase
      /\ AppendEvent(st, p, e).steps = [st.steps EXCEPT ![p] = new]
  BY DEF AppendEvent, Status
<1>3. [new EXCEPT !.events = st.steps[p].events] = st.steps[p]
  BY <1>1 DEF StepResult
<1>4. \A q \in DOMAIN st.steps :
        [st.steps[q] EXCEPT !.events = st.steps[q].events] = st.steps[q]
  BY <1>1 DEF StepResult
<1> HIDE DEF new
<1> QED BY <1>2, <1>3, <1>4

LEMMA TerminalStep ==
  TypeOK /\ InFlight /\ [Next]_vars => StaysFinal
<1> SUFFICES ASSUME TypeOK, InFlight, [Next]_vars, Terminal(Stored)
             PROVE  /\ Stored'.phase = Stored.phase
                    /\ DOMAIN Stored'.steps = DOMAIN Stored.steps
                    /\ \A p \in DOMAIN Stored.steps :
                         [Stored'.steps[p] EXCEPT !.events = Stored.steps[p].events]
                           = Stored.steps[p]
  BY DEF StaysFinal, Results
<1>1. Stored \in Status
  BY StoredType DEF TypeOK
<1>2. \A p \in DOMAIN Stored.steps : Stored.steps[p] \in StepResult
  BY <1>1, StatusSteps
<1>3. \A p \in DOMAIN Stored.steps :
        [Stored.steps[p] EXCEPT !.events = Stored.steps[p].events]
          = Stored.steps[p]
  BY <1>2 DEF StepResult
<1>4. CASE Stored' = Stored
  BY <1>3, <1>4
<1>5. CASE Writing /\ ctl.base = rv /\ Stored' = ctl.st
  <2>1. Stored' = Advance(Stored)
    BY <1>5 DEF InFlight, ControlInFlight, Writing
  <2>2. Stored'.phase = Stored.phase /\ Stored'.steps = Stored.steps
    BY <1>1, <2>1 DEF Advance, Status
  <2> QED BY <1>3, <2>2
<1>6. ASSUME NEW e \in Events, req[e].pc = "held", req[e].base = rv,
             Stored' = req[e].st
      PROVE  /\ Stored'.phase = Stored.phase
             /\ DOMAIN Stored'.steps = DOMAIN Stored.steps
             /\ \A p \in DOMAIN Stored.steps :
                  [Stored'.steps[p] EXCEPT !.events = Stored.steps[p].events]
                    = Stored.steps[p]
  <2>1. PICK p \in DOMAIN Stored.steps : Stored' = AppendEvent(Stored, p, e)
    BY <1>6 DEF InFlight, HandlersInFlight, Results
  <2>2. /\ AppendEvent(Stored, p, e).phase = Stored.phase
        /\ DOMAIN AppendEvent(Stored, p, e).steps = DOMAIN Stored.steps
        /\ \A q \in DOMAIN Stored.steps :
             [AppendEvent(Stored, p, e).steps[q] EXCEPT
                !.events = Stored.steps[q].events] = Stored.steps[q]
    BY <1>1, AppendKeepsResults
  <2> QED BY <2>1, <2>2, Zenon
<1> QED BY <1>4, <1>5, <1>6, WhoWrites

(* A run that has ended keeps its phase and the results of its steps, in   *)
(* spite of stale caches, lost answers, restarts and concurrent handlers.  *)
THEOREM TerminalRunsAreFinal == Spec => TerminalIsFinal
<1>1. Init => TypeOK /\ InFlight
  BY InitType, InFlightInit
<1>2. (TypeOK /\ InFlight) /\ [Next]_vars => (TypeOK /\ InFlight)'
  BY NextType, InFlightStep
<1>3. TypeOK /\ InFlight /\ [Next]_vars => [StaysFinal]_vars
  BY TerminalStep
<1> QED BY <1>1, <1>2, <1>3, PTL DEF Spec, TerminalIsFinal

-----------------------------------------------------------------------------
(* What an edit of the reconciler does to the record of a run.             *)

\* Lines of a log, none of them twice.
Copied(es) == es \in Seq(LogEntry) /\ \A i, k \in DOMAIN es : es[i] = es[k] => i = k

\* The events of a result stay, or those of the log become them.
Recorded(old, es) == es = old.events \/ (old.events = <<>> /\ Copied(es))

\* The result of a step that was started stays one, and keeps its events, or
\* gets those of the log if it had none.
ResultKept(old, new) ==
  /\ new.name = old.name
  /\ old.phase # "Pending" => new.phase # "Pending"
  /\ Recorded(old, new.events)

\* No result is dropped, and a new one has no events.
KeepsRecord(old, new) ==
  /\ \A p \in DOMAIN old.steps :
       p \in DOMAIN new.steps /\ ResultKept(old.steps[p], new.steps[p])
  /\ \A p \in DOMAIN new.steps \ DOMAIN old.steps : new.steps[p].events = <<>>

\* An edit of a run that was started.
Edit(old, new) == KeepsRecord(old, new) /\ (old.phase # "unset" => new.phase # "unset")

LEMMA SameStepsKeep ==
  ASSUME NEW old, NEW new, new.steps = old.steps
  PROVE  KeepsRecord(old, new)
BY DEF KeepsRecord, ResultKept, Recorded

LEMMA OneResultKept ==
  ASSUME NEW old \in Status, NEW p \in DOMAIN old.steps, NEW r,
         ResultKept(old.steps[p], r),
         NEW new, new.steps = [old.steps EXCEPT ![p] = r]
  PROVE  KeepsRecord(old, new)
<1>1. DOMAIN new.steps = DOMAIN old.steps
  BY StatusSteps
<1>2. \A q \in DOMAIN old.steps : q # p => new.steps[q] = old.steps[q]
  BY StatusSteps
<1>3. new.steps[p] = r
  BY StatusSteps
<1> QED BY <1>1, <1>2, <1>3 DEF KeepsRecord, ResultKept, Recorded

\* The edits of the run as a whole.
LEMMA RunEditsKeep ==
  ASSUME NEW st \in Status
  PROVE  /\ Edit(st, Advance(st)) /\ Edit(st, SucceedRun(st))
         /\ \A why : Edit(st, FailRun(st, why))
         /\ \A why : FailRun(st, why).phase # "unset"
<1>1. Advance(st).steps = st.steps /\ Advance(st).phase = st.phase
  BY DEF Advance, Status
<1>2. SucceedRun(st).steps = st.steps /\ SucceedRun(st).phase = "Succeeded"
  BY DEF SucceedRun, Status
<1>3. \A why : FailRun(st, why).steps = st.steps /\ FailRun(st, why).phase = "Failed"
  BY DEF FailRun, Status
<1>4. KeepsRecord(st, Advance(st)) /\ KeepsRecord(st, SucceedRun(st))
  BY <1>1, <1>2, SameStepsKeep
<1>5. \A why : KeepsRecord(st, FailRun(st, why))
  BY <1>3, SameStepsKeep
<1> QED BY <1>1, <1>2, <1>3, <1>4, <1>5 DEF Edit

\* One edit after the other, the second of which leaves the results alone.
LEMMA EditThen ==
  ASSUME NEW old, NEW mid, NEW new, KeepsRecord(old, mid), new.steps = mid.steps
  PROVE  KeepsRecord(old, new)
BY DEF KeepsRecord, ResultKept

\* The phase of one result.
LEMMA PhaseEditsKeep ==
  ASSUME NEW st \in Status, NEW p \in DOMAIN st.steps
  PROVE  /\ Edit(st, MarkRunning(st, p)) /\ Edit(st, SkipResult(st, p))
         /\ Edit(st, PassFailedStep(st, p))
         /\ \A why : Edit(st, FailStep(st, p, why))
<1> DEFINE to(x) == [st EXCEPT !.steps[p].phase = x]
<1>1. st.steps[p] \in StepResult
  BY StatusSteps
<1> DEFINE Phases == StepPhases \ {"Pending"}
<1>2. ASSUME NEW x \in Phases
      PROVE  KeepsRecord(st, to(x)) /\ to(x).phase = st.phase /\ to(x) \in Status
  <2>1. to(x).steps = [st.steps EXCEPT ![p] = [st.steps[p] EXCEPT !.phase = x]]
        /\ to(x).phase = st.phase
    BY DEF Status
  <2>2. ResultKept(st.steps[p], [st.steps[p] EXCEPT !.phase = x])
    BY <1>1 DEF ResultKept, Recorded, StepResult
  <2>3. KeepsRecord(st, to(x))
    <3> HIDE DEF to
    <3> QED BY <2>1, <2>2, OneResultKept
  <2>4. to(x) \in Status
    BY ResultEdits
  <2> QED BY <2>1, <2>3, <2>4
<1>3. Edit(st, MarkRunning(st, p))
  BY <1>2 DEF MarkRunning, Edit, StepPhases
<1>4. \A x \in Phases : Advance(to(x)).steps = to(x).steps /\ Advance(to(x)).phase = st.phase
  BY <1>2 DEF Advance, Status
<1>5. \A x \in Phases : Edit(st, Advance(to(x)))
  BY <1>2, <1>4, EditThen DEF Edit
<1>6. \A why : /\ FailRun(to("Failed"), why).steps = to("Failed").steps
               /\ FailRun(to("Failed"), why).phase = "Failed"
  BY <1>2 DEF FailRun, Status, StepPhases
<1>7. \A why : Edit(st, FailRun(to("Failed"), why))
  BY <1>2, <1>6, EditThen DEF Edit, StepPhases
<1> QED BY <1>3, <1>5, <1>7 DEF StepPhases, SkipResult, PassFailedStep, FailStep

\* What else is written to one result.
LEMMA ResultEditsKeep ==
  ASSUME NEW st \in Status, NEW p \in DOMAIN st.steps
  PROVE  /\ Edit(st, SetSession(st, p))
         /\ \A j : Edit(st, SetJob(st, p, j))
         /\ \A x, f, es : Recorded(st.steps[p], es) =>
              Edit(st, Complete(st, p, x, f, es)) /\ Edit(st, Partial(st, p, x, f, es))
<1>1. st.steps[p] \in StepResult
  BY StatusSteps
<1>2. ASSUME NEW r, ResultKept(st.steps[p], r),
             NEW new, new = [st EXCEPT !.steps = [st.steps EXCEPT ![p] = r]]
      PROVE  Edit(st, new)
  <2>1. new.steps = [st.steps EXCEPT ![p] = r] /\ new.phase = st.phase
    BY <1>2 DEF Status
  <2>2. ResultKept(st.steps[p], r)
    BY <1>2
  <2>3. KeepsRecord(st, new)
    BY <2>1, <2>2, OneResultKept
  <2> QED BY <2>1, <2>3 DEF Edit
<1>3. Edit(st, SetSession(st, p))
  <2>1. ResultKept(st.steps[p], [st.steps[p] EXCEPT !.session = TRUE])
    BY <1>1 DEF ResultKept, Recorded, StepResult
  <2> QED BY <1>2, <2>1 DEF SetSession
<1>4. ASSUME NEW j PROVE Edit(st, SetJob(st, p, j))
  <2>1. ResultKept(st.steps[p], [st.steps[p] EXCEPT !.job = j])
    BY <1>1 DEF ResultKept, Recorded, StepResult
  <2> QED BY <1>2, <2>1 DEF SetJob
<1>5. ASSUME NEW x, NEW f, NEW es, Recorded(st.steps[p], es)
      PROVE  Edit(st, Complete(st, p, x, f, es)) /\ Edit(st, Partial(st, p, x, f, es))
  <2>1. Recorded(st.steps[p], es)
    BY <1>5
  <2>2. ResultKept(st.steps[p], [st.steps[p] EXCEPT !.phase = "Succeeded", !.text = x,
                                                    !.from = f, !.events = es])
    BY <1>1, <2>1 DEF ResultKept, StepResult
  <2>3. ResultKept(st.steps[p], [st.steps[p] EXCEPT !.text = x, !.from = f, !.events = es])
    BY <1>1, <2>1 DEF ResultKept, StepResult
  <2>4. Edit(st, Complete(st, p, x, f, es))
    BY <1>2, <2>2 DEF Complete
  <2>5. Edit(st, Partial(st, p, x, f, es))
    BY <1>2, <2>3 DEF Partial
  <2> QED BY <2>4, <2>5
<1> QED BY <1>3, <1>4, <1>5

\* The results of a run that starts replace none.
LEMMA InitKeeps ==
  ASSUME NEW st, st.steps = <<>>, NEW wf
  PROVE  KeepsRecord(st, InitStatus(wf)) /\ InitStatus(wf).phase # "unset"
<1>1. DOMAIN st.steps = {}
  BY EmptyIsSeq
<1>2. InitStatus(wf).steps = [p \in 1..Len(wf.steps) |-> PendingResult(wf.steps[p].name)]
      /\ InitStatus(wf).phase = "Running"
  BY DEF InitStatus
<1>3. \A p \in DOMAIN InitStatus(wf).steps : InitStatus(wf).steps[p].events = <<>>
  BY <1>2 DEF PendingResult
<1> QED BY <1>1, <1>2, <1>3 DEF KeepsRecord

\* A trace event that is added to one result.
LEMMA AppendedEvent ==
  ASSUME NEW st \in Status, NEW p \in DOMAIN st.steps, NEW e \in Events
  PROVE  LET new == AppendEvent(st, p, e) IN
         /\ new.phase = st.phase /\ DOMAIN new.steps = DOMAIN st.steps
         /\ \A q \in DOMAIN st.steps : /\ new.steps[q].name = st.steps[q].name
                                       /\ new.steps[q].phase = st.steps[q].phase
         /\ \A q \in DOMAIN st.steps : q # p => new.steps[q].events = st.steps[q].events
         /\ new.steps[p].events = Append(st.steps[p].events, Posted(e))
<1> DEFINE r == [st.steps[p] EXCEPT !.events = Append(st.steps[p].events, Posted(e))]
<1>1. \A q \in DOMAIN st.steps : st.steps[q] \in StepResult
  BY StatusSteps
<1>2. /\ AppendEvent(st, p, e).phase = st.phase
      /\ AppendEvent(st, p, e).steps = [st.steps EXCEPT ![p] = r]
  BY DEF AppendEvent, Status
<1>3. /\ r.name = st.steps[p].name /\ r.phase = st.steps[p].phase
      /\ r.events = Append(st.steps[p].events, Posted(e))
  BY <1>1 DEF StepResult
<1> HIDE DEF r
<1> QED BY <1>2, <1>3
-----------------------------------------------------------------------------
(* The logs: each line tells of another post.                              *)

LogsInv ==
  \A j \in JobNames :
    Copied(logs[j]) /\ \A i \in DOMAIN logs[j] : req[logs[j][i].event].pc # "unsent"

LEMMA LogsInit == Init => LogsInv
<1> SUFFICES ASSUME Init, NEW j \in JobNames
             PROVE  Copied(logs[j]) /\ DOMAIN logs[j] = {}
  BY DEF LogsInv
<1>1. logs[j] = <<>>
  BY DEF Init, ControlInit
<1>2. <<>> \in Seq(LogEntry) /\ DOMAIN <<>> = {}
  BY EmptyIsSeq
<1> QED BY <1>1, <1>2 DEF Copied

LEMMA FinishedRequest ==
  ASSUME RequestTypeOK, NEW e \in Events, NEW outcome, Finish(e, outcome)
  PROVE  req'[e].pc = outcome /\ req'[e].name = req[e].name
<1>1. req \in [Events -> Request] /\ req[e] \in Request
  BY DEF RequestTypeOK
<1>2. req'[e] = [req[e] EXCEPT !.pc = outcome, !.base = 0, !.attempt = 0,
                               !.st = EmptyStatus]
  BY <1>1 DEF Finish
<1> QED BY <1>1, <1>2 DEF Request

\* What was posted once is never unsent again.
LEMMA SentOnce ==
  ASSUME TypeOK, [Next]_vars, NEW e \in Events, req[e].pc # "unsent"
  PROVE  req'[e].pc # "unsent"
<1>0. RequestTypeOK /\ req \in [Events -> Request]
  BY DEF TypeOK, RequestTypeOK
<1>1. CASE UNCHANGED req
  BY <1>1
<1>2. CASE RunnerPost
  BY <1>0, <1>2 DEF RunnerPost, Post, Request
<1>3. CASE Callback
  <2>1. PICK d \in Events : Handle(d)
    BY <1>3 DEF Callback
  <2>2. CASE d # e
    BY <2>1, <2>2, HandleEffect
  <2>3. CASE d = e
    <3>1. \A outcome : Finish(e, outcome) => req'[e].pc = outcome
      BY <1>0, FinishedRequest
    <3>2. TryAgain(e) => req'[e].pc = "retry"
      BY <1>0 DEF TryAgain, NextAttempt, Request
    <3>3. Fetch(e) => Finish(e, "refused") \/ req'[e].pc = "held"
      <4> DEFINE st == AppendEvent(Cached, FirstNamed(Cached, req[e].name), e)
      <4>1. Fetch(e) => \/ Finish(e, "refused")
                        \/ req' = [req EXCEPT ![e] = [@ EXCEPT !.pc = "held", !.base = seen, !.st = st]]
        BY DEF Fetch
      <4> HIDE DEF st
      <4> QED BY <1>0, <4>1 DEF Request
    <3> QED BY <2>1, <2>3, <3>1, <3>2, <3>3
            DEF Handle, Drop, FetchFails, Accept, Conflict, UpdateFails
  <2> QED BY <2>2, <2>3
<1>4. CASE Restart
  BY <1>0, <1>4 DEF Restart, RestartHandlers, NoRequest, Request
<1> QED BY <1>1, <1>2, <1>3, <1>4 DEF Next, vars

LEMMA LogsStay ==
  [Next]_vars => UNCHANGED logs \/ RunnerPost \/ JobExpire
<1>1. CASE Reconcile
  BY <1>1
    DEF Reconcile, Begin, Dispatch, WorkflowMissing, InitializeRun,
        NoStepResults, AllStepsDone, SkipStep, StartStep, PiStep,
        PiAgentUnavailable, PiPromptFails, PiEnvFails, CreateJob, AdoptJob,
        CreateJobFails, JobMissing, JobSucceeded, JobFailed, AgentStep,
        AgentMissing, AgentPromptFails, StartSession, StartSessionFails,
        SessionFetchFails, SessionFinished, PlaceJob, SendPrompt, Quiet,
        Requeue, ReadError, StepOutOfRange, StepNotRunning, JobRunning,
        SessionBusy, SendOutputs, Update, UpdateOk, UpdateConflict, UpdateError,
        external
<1> QED BY <1>1 DEF Next, Cluster, JobFinish, JobSync, EditWorkflow, Callback,
                    Restart, RestartController, ctlVars, vars

LEMMA LogsStep ==
  TypeOK /\ LogsInv /\ [Next]_vars => LogsInv'
<1> SUFFICES ASSUME TypeOK, LogsInv, [Next]_vars, NEW j \in JobNames
             PROVE  /\ Copied(logs'[j])
                    /\ \A i \in DOMAIN logs'[j] : req'[logs'[j][i].event].pc # "unsent"
  BY DEF LogsInv
<1>0. /\ logs \in [JobNames -> Seq(LogEntry)] /\ logs[j] \in Seq(LogEntry)
      /\ req \in [Events -> Request]
  BY DEF TypeOK, ControlTypeOK, RequestTypeOK
<1>1. /\ Copied(logs[j])
      /\ \A i \in DOMAIN logs[j] : req[logs[j][i].event].pc # "unsent"
  BY DEF LogsInv
<1>2. \A i \in DOMAIN logs[j] : logs[j][i] \in LogEntry /\ logs[j][i].event \in Events
  <2>1. \A i \in DOMAIN logs[j] : logs[j][i] \in LogEntry
    BY <1>0, LenProperties, ElementOfSeq
  <2> QED BY <2>1 DEF LogEntry, Entry
<1>3. \A i \in DOMAIN logs[j] : req'[logs[j][i].event].pc # "unsent"
  BY <1>1, <1>2, SentOnce
<1>4. CASE logs'[j] = logs[j]
  BY <1>1, <1>3, <1>4
<1>5. CASE logs'[j] = <<>>
  <2>1. <<>> \in Seq(LogEntry) /\ DOMAIN <<>> = {}
    BY EmptyIsSeq
  <2> QED BY <1>5, <2>1 DEF Copied
<1>6. ASSUME NEW e \in Events, NEW n, Post(e, n), logs'[j] = Append(logs[j], Logged(e))
      PROVE  /\ Copied(logs'[j])
             /\ \A i \in DOMAIN logs'[j] : req'[logs'[j][i].event].pc # "unsent"
  <2> DEFINE es == logs[j]
             new == logs'[j]
  <2>1. /\ Logged(e) \in LogEntry /\ Logged(e).event = e
        /\ req[e].pc = "unsent" /\ req'[e].pc = "sent"
    BY <1>0, <1>6, LoggedType DEF Logged, Post, Request
  <2>2. /\ new \in Seq(LogEntry) /\ Len(es) \in Nat /\ DOMAIN es = 1..Len(es)
        /\ DOMAIN new = 1..(Len(es) + 1) /\ new[Len(es) + 1] = Logged(e)
        /\ \A i \in DOMAIN es : new[i] = es[i]
    BY <1>0, <1>6, <2>1, AppendProperties, LenProperties
  <2>3. \A i \in DOMAIN es : es[i] # Logged(e)
    BY <1>1, <2>1
  <2>4. \A i \in DOMAIN new : i \in DOMAIN es \/ i = Len(es) + 1
    BY <2>2
  <2>5. \A i, k \in DOMAIN es : es[i] = es[k] => i = k
    BY <1>1 DEF Copied
  <2>6. \A i \in DOMAIN es : req'[es[i].event].pc # "unsent"
    BY <1>3
  <2> HIDE DEF es, new
  <2>7. \A i, k \in DOMAIN new : new[i] = new[k] => i = k
    BY <2>2, <2>3, <2>4, <2>5
  <2>8. \A i \in DOMAIN new : req'[new[i].event].pc # "unsent"
    BY <2>1, <2>2, <2>4, <2>6
  <2> QED BY <2>2, <2>7, <2>8 DEF Copied, new
<1>7. CASE RunnerPost
  <2>1. PICK e \in Events, k \in JobNames :
          Post(e, jobs[k].name) /\ logs' = [logs EXCEPT ![k] = Append(@, Logged(e))]
    BY <1>7 DEF RunnerPost
  <2>2. logs'[j] = logs[j] \/ logs'[j] = Append(logs[j], Logged(e))
    BY <1>0, <2>1
  <2> QED BY <1>4, <1>6, <2>1, <2>2
<1>8. CASE JobExpire
  BY <1>0, <1>4, <1>5, <1>8 DEF JobExpire
<1>9. UNCHANGED logs \/ RunnerPost \/ JobExpire
  BY LogsStay
<1> QED BY <1>4, <1>7, <1>8, <1>9

-----------------------------------------------------------------------------
(* The copies in flight keep the events of what they overwrite.            *)

\* A run nobody has looked at has no results, and what the reconciler writes
\* is a run it has looked at.
NoStepsYet == Stored.phase = "unset" => Stored.steps = <<>>

WritesLookedAt == ctl.pc \in {"write", "outputs"} => ctl.st.phase # "unset"

CopyKeeps == ctl.pc = "write" /\ ctl.base = rv => KeepsRecord(Stored, ctl.st)

\* A handler's copy has its event in a result of the step it was posted for.
HandlersNamed ==
  \A e \in Events :
    req[e].pc = "held" /\ req[e].base = rv =>
      \E p \in DOMAIN Results :
        Results[p].name = req[e].name /\ req[e].st = AppendEvent(Stored, p, e)

CopiesKeep == NoStepsYet /\ WritesLookedAt /\ CopyKeeps /\ HandlersNamed

\* What a step of the reconcile that has begun does to its copy.
Edited ==
  \E st, then : /\ WriteStatus(st, then) /\ st.phase # "unset"
                /\ ctl.base = rv => KeepsRecord(ctl.st, st)

LEMMA EditIsEdited ==
  ASSUME ctl.st.phase # "unset", NEW st, NEW then, WriteStatus(st, then), Edit(ctl.st, st)
  PROVE  Edited
BY DEF Edited, Edit

LEMMA DispatchEdited ==
  ASSUME TypeOK, NoStepsYet, ControlInFlight, Dispatch
  PROVE  Edited \/ (AllStepsDone /\ ctl.st.phase # "unset")
<1>1. ctl.st \in Status
  BY DEF TypeOK, ControlTypeOK, Control
<1>2. CASE WorkflowMissing
  BY <1>1, <1>2, RunEditsKeep DEF WorkflowMissing, Edited, Edit
<1>3. CASE InitializeRun
  <2>1. WriteStatus(InitStatus(ctl.wf), "return") /\ ctl.st.phase = "unset" /\ Begun
    BY <1>3 DEF InitializeRun
  <2>2. ctl.base = rv => ctl.st.steps = <<>>
    BY <2>1 DEF ControlInFlight, NoStepsYet, Begun
  <2>3. InitStatus(ctl.wf).phase = "Running"
    BY DEF InitStatus
  <2> QED BY <2>1, <2>2, <2>3, InitKeeps DEF Edited
<1>4. CASE NoStepResults
  BY <1>1, <1>4, RunEditsKeep, EditIsEdited DEF NoStepResults, Executing
<1>5. CASE AllStepsDone
  BY <1>5 DEF AllStepsDone, Executing
<1>6. CASE SkipStep
  BY <1>1, <1>6, AtStepFacts, PhaseEditsKeep, EditIsEdited DEF SkipStep, AtStep, Executing
<1>7. CASE StartStep
  BY <1>1, <1>7, AtStepFacts, PhaseEditsKeep, EditIsEdited
     DEF StartStep, Selected, AtStep, Executing
<1> QED BY <1>2, <1>3, <1>4, <1>5, <1>6, <1>7 DEF Dispatch

\* What is read from the log of a Job leaves the events, or is the fallback.
LEMMA FetchedEvents ==
  ASSUME TypeOK, LogsInv, HasJob,
         NEW texts, NEW instead, NEW log \in Fetched(texts, instead)
  PROVE  Recorded(ctl.st.steps[Pos], log[2])
<1>1. Copied(logs[Result.job])
  BY JobOfResult DEF LogsInv
<1>2. Recorded(Result, WithLogEvents(Result, logs[Result.job]))
  BY <1>1 DEF Recorded, WithLogEvents
<1>3. Recorded(Result, Result.events)
  BY DEF Recorded
<1>4. log[2] \in {Result.events, WithLogEvents(Result, logs[Result.job])}
  BY DEF Fetched
<1> QED BY <1>2, <1>3, <1>4 DEF Result

LEMMA PiStepEdited ==
  ASSUME TypeOK, LogsInv, PiStep PROVE Edited
<1>1. AtStep
  BY DEF PiStep, PiAgentUnavailable, PiPromptFails, PiEnvFails, CreateJob,
         AdoptJob, CreateJobFails, JobMissing, JobSucceeded, JobFailed, WantsJob,
         HasJob, Running, Selected
<1>2. ctl.st \in Status /\ Pos \in DOMAIN ctl.st.steps /\ ctl.st.phase # "unset"
  BY <1>1, AtStepFacts DEF AtStep, Executing
<1>3. CASE PiAgentUnavailable \/ PiPromptFails \/ PiEnvFails
             \/ CreateJobFails \/ JobMissing
  <2>1. \E why : FailPiStep(ctl.st, why)
    BY <1>3 DEF PiAgentUnavailable, PiPromptFails, PiEnvFails, CreateJobFails, JobMissing
  <2> QED BY <1>2, <2>1, PhaseEditsKeep, EditIsEdited DEF FailPiStep
<1>4. CASE CreateJob \/ AdoptJob
  <2>1. WriteStatus(SetJob(ctl.st, Pos, StepJob), "return")
    BY <1>4 DEF CreateJob, AdoptJob
  <2> QED BY <1>2, <2>1, ResultEditsKeep, EditIsEdited
<1>5. CASE JobSucceeded
  <2>1. PICK log \in Fetched(Answers, "other") :
          WriteStatus(Complete(ctl.st, Pos, log[1], SeenJob.step, log[2]),
                      IF Simple THEN "finish" ELSE "advance")
    BY <1>5 DEF JobSucceeded
  <2>2. Recorded(ctl.st.steps[Pos], log[2])
    BY <1>5, FetchedEvents DEF JobSucceeded
  <2>3. Edit(ctl.st, Complete(ctl.st, Pos, log[1], SeenJob.step, log[2]))
    BY <1>2, <2>2, ResultEditsKeep
  <2> QED BY <1>2, <2>1, <2>3, EditIsEdited
<1>6. CASE JobFailed
  <2>1. PICK log \in Fetched({"other"}, "none") :
          FailPiStep(Partial(ctl.st, Pos, log[1], SeenJob.step, log[2]), "step")
    BY <1>6 DEF JobFailed
  <2> DEFINE mid == Partial(ctl.st, Pos, log[1], SeenJob.step, log[2])
             new == FailStep(mid, Pos, "step")
  <2>2. Edit(ctl.st, mid)
    <3>1. Recorded(ctl.st.steps[Pos], log[2])
      BY <1>6, FetchedEvents DEF JobFailed
    <3> QED BY <1>2, <3>1, ResultEditsKeep
  <2>3. mid \in Status
    <3>1. JobFailed /\ HasJob
      BY <1>6 DEF JobFailed
    <3>2. SeenJob.step \in Nat
      BY <3>1, SeenJobType DEF Job
    <3>3. log[1] \in Texts /\ log[2] \in Seq(Entry)
      BY <3>1, FetchedType DEF Texts, Answers
    <3> QED BY <1>2, <3>2, <3>3, ResultEdits
  <2> HIDE DEF mid
  <2>4. Pos \in DOMAIN mid.steps
    BY <1>2, <2>2 DEF Edit, KeepsRecord
  <2>5. /\ DOMAIN new.steps = DOMAIN mid.steps /\ new.phase = "Failed"
        /\ \A q \in DOMAIN mid.steps : /\ new.steps[q].name = mid.steps[q].name
                                       /\ new.steps[q].events = mid.steps[q].events
                                       /\ mid.steps[q].phase # "Pending" =>
                                            new.steps[q].phase # "Pending"
    <3> DEFINE r == [mid.steps[Pos] EXCEPT !.phase = "Failed"]
    <3>1. mid.steps[Pos] \in StepResult
      BY <2>3, <2>4, StatusSteps
    <3>2. r.name = mid.steps[Pos].name /\ r.events = mid.steps[Pos].events /\ r.phase = "Failed"
      BY <3>1 DEF StepResult
    <3>3. new.steps = [mid.steps EXCEPT ![Pos] = r] /\ new.phase = "Failed"
      BY <2>3 DEF FailStep, FailRun, Status
    <3> HIDE DEF r, new
    <3> QED BY <2>4, <3>2, <3>3
  <2> HIDE DEF new
  <2>6. KeepsRecord(ctl.st, new)
    BY <2>2, <2>5 DEF Edit, KeepsRecord, ResultKept, Recorded
  <2>7. \E then : WriteStatus(new, then)
    BY <2>1 DEF FailPiStep, mid, new
  <2> QED BY <2>5, <2>6, <2>7 DEF Edited
<1> QED BY <1>3, <1>4, <1>5, <1>6 DEF PiStep

LEMMA AgentStepEdited ==
  ASSUME TypeOK, AgentStep PROVE Edited
<1>1. AtStep
  BY DEF AgentStep, AgentMissing, AgentPromptFails, StartSession,
         StartSessionFails, SessionFetchFails, SessionFinished, WantsSession,
         HasSession, Running, Selected
<1>2. ctl.st \in Status /\ Pos \in DOMAIN ctl.st.steps /\ ctl.st.phase # "unset"
  BY <1>1, AtStepFacts DEF AtStep, Executing
<1>3. CASE SessionFinished
  <2>1. PICK text \in Texts :
          LET done == Complete(ctl.st, Pos, text, Pos, Result.events)
          IN  IF Simple THEN WriteStatus(done, "finish")
              ELSE WriteStatus(Advance(done), "return")
    BY <1>3 DEF SessionFinished
  <2> DEFINE done == Complete(ctl.st, Pos, text, Pos, Result.events)
  <2>2. Edit(ctl.st, done)
    BY <1>2, ResultEditsKeep DEF Result, Recorded
  <2>3. done \in Status
    <3>1. Pos \in Nat /\ Result.events \in Seq(Entry)
      BY <1>1, AtStepFacts DEF StepResult
    <3> QED BY <1>2, <3>1, ResultEdits
  <2> HIDE DEF done
  <2>4. Advance(done).steps = done.steps /\ Advance(done).phase = done.phase
    BY <2>3 DEF Advance, Status
  <2>5. Edit(ctl.st, Advance(done))
    BY <2>2, <2>4, EditThen DEF Edit
  <2>6. WriteStatus(done, "finish") \/ WriteStatus(Advance(done), "return")
    BY <2>1 DEF done
  <2> QED BY <1>2, <2>2, <2>5, <2>6, EditIsEdited
<1>4. CASE ~SessionFinished
  <2>1. \/ WriteStatus(FailRun(ctl.st, "step"), "return")
        \/ WriteStatus(FailStep(ctl.st, Pos, "step"), "return")
        \/ WriteStatus(PassFailedStep(ctl.st, Pos), "return")
        \/ WriteStatus(SetSession(ctl.st, Pos), "return")
    BY <1>4 DEF AgentStep, AgentMissing, AgentPromptFails, StartSession,
       StartSessionFails, SessionFetchFails, FailAgentStep
  <2>2. /\ Edit(ctl.st, FailRun(ctl.st, "step")) /\ Edit(ctl.st, FailStep(ctl.st, Pos, "step"))
        /\ Edit(ctl.st, PassFailedStep(ctl.st, Pos)) /\ Edit(ctl.st, SetSession(ctl.st, Pos))
    BY <1>2, RunEditsKeep, PhaseEditsKeep, ResultEditsKeep
  <2> QED BY <1>2, <2>1, <2>2, EditIsEdited
<1> QED BY <1>3, <1>4

LEMMA EditedKeeps ==
  ASSUME TypeOK, ControlInFlight, Begun, UNCHANGED storeVars, Edited
  PROVE  WritesLookedAt' /\ CopyKeeps'
<1>1. PICK st, then : /\ WriteStatus(st, then) /\ st.phase # "unset"
                      /\ ctl.base = rv => KeepsRecord(ctl.st, st)
  BY DEF Edited
<1>2. /\ ctl'.pc = "write" /\ ctl'.st = st /\ ctl'.base = ctl.base
  BY <1>1 DEF WriteStatus, TypeOK, ControlTypeOK, Control
<1>3. rv' = rv /\ Stored' = Stored
  BY CacheKeepsStored DEF TypeOK
<1>4. ctl.base = rv => ctl.st = Stored
  BY DEF ControlInFlight, Begun
<1> QED BY <1>1, <1>2, <1>3, <1>4 DEF WritesLookedAt, CopyKeeps

LEMMA IdleCopies == Return => WritesLookedAt' /\ CopyKeeps'
BY DEF Return, Idle, WritesLookedAt, CopyKeeps
-----------------------------------------------------------------------------
(* Who stores what, and what becomes of the requests.                      *)
Settled == {"accepted", "refused"}

\* A step that answers nobody with 202, and takes no answer back.
KeepsAnswer(e) ==
  /\ req[e].pc \in Settled => req'[e].pc = req[e].pc /\ req'[e].name = req[e].name
  /\ req'[e].pc = "accepted" => req[e].pc = "accepted"

ReconcilerStores ==
  /\ Writing /\ ctl.base = rv /\ Stored' = ctl.st /\ rv' = rv + 1 /\ req' = req

HandlerStores(e) ==
  /\ req[e].pc = "held" /\ req[e].base = rv /\ Stored' = req[e].st /\ rv' = rv + 1
  /\ req'[e].pc \in Settled /\ req'[e].name = req[e].name
  /\ \A d \in Events : d # e => req'[d] = req[d]

NobodyStores == Stored' = Stored /\ rv' = rv /\ \A e \in Events : KeepsAnswer(e)

\* One step of one handler.
LEMMA HandleStores ==
  ASSUME TypeOK, NEW e \in Events, Handle(e)
  PROVE  HandlerStores(e) \/ NobodyStores
<1>0. RequestTypeOK /\ \A d \in Events : d # e => req'[d] = req[d]
  BY HandleEffect DEF TypeOK
<1>1. ASSUME UNCHANGED storeVars, req[e].pc \in {"sent", "retry", "held"},
             req'[e].pc # "accepted"
      PROVE  NobodyStores
  <2>1. Stored' = Stored /\ rv' = rv
    BY <1>1, CacheKeepsStored DEF TypeOK
  <2>2. \A d \in Events : KeepsAnswer(d)
    BY <1>0, <1>1 DEF KeepsAnswer, Settled
  <2> QED BY <2>1, <2>2 DEF NobodyStores
<1>2. ASSUME Persist(req[e].st), IsLatest(req[e].base), req[e].pc = "held",
             NEW outcome \in Settled, Finish(e, outcome)
      PROVE  HandlerStores(e)
  <2>1. rv' = rv + 1 /\ Stored' = req[e].st
    BY <1>2, PersistStores DEF TypeOK
  <2>2. req'[e].pc = outcome /\ req'[e].name = req[e].name
    BY <1>0, <1>2, FinishedRequest
  <2> QED BY <1>0, <1>2, <2>1, <2>2 DEF HandlerStores, IsLatest
<1>3. CASE Drop(e) \/ FetchFails(e)
  BY <1>0, <1>1, <1>3, FinishedRequest DEF Drop, FetchFails
<1>4. CASE Fetch(e)
  <2>1. UNCHANGED storeVars /\ req[e].pc \in {"sent", "retry"}
    BY <1>4 DEF Fetch
  <2>2. CASE Finish(e, "refused")
    BY <1>0, <1>1, <2>1, <2>2, FinishedRequest
  <2>3. CASE ~Finish(e, "refused")
    <3> DEFINE st == AppendEvent(Cached, FirstNamed(Cached, req[e].name), e)
    <3>1. req' = [req EXCEPT ![e] = [@ EXCEPT !.pc = "held", !.base = seen, !.st = st]]
      BY <1>4, <2>3 DEF Fetch
    <3> HIDE DEF st
    <3>2. req'[e].pc = "held"
      BY <1>0, <3>1 DEF RequestTypeOK, Request
    <3> QED BY <1>1, <2>1, <3>2
  <2> QED BY <2>2, <2>3
<1>5. CASE Accept(e)
  BY <1>2, <1>5 DEF Accept, Settled
<1>6. CASE Conflict(e)
  <2>1. req'[e].pc # "accepted"
    BY <1>0, <1>6, AnsweredPc DEF Conflict
  <2> QED BY <1>1, <1>6, <2>1 DEF Conflict
<1>7. CASE UpdateFails(e)
  <2>1. CASE UNCHANGED storeVars
    BY <1>0, <1>1, <1>7, <2>1, FinishedRequest DEF UpdateFails
  <2>2. CASE IsLatest(req[e].base) /\ Persist(req[e].st)
    BY <1>2, <1>7, <2>2 DEF UpdateFails, Settled
  <2> QED BY <1>7, <2>1, <2>2 DEF UpdateFails
<1> QED BY <1>3, <1>4, <1>5, <1>6, <1>7 DEF Handle

LEMMA WhoStores ==
  ASSUME TypeOK, [Next]_vars
  PROVE  NobodyStores \/ ReconcilerStores \/ \E e \in Events : HandlerStores(e)
<1>1. ASSUME CacheSync \/ CacheRelist \/ UNCHANGED storeVars,
             \A e \in Events : KeepsAnswer(e)
      PROVE  NobodyStores
  BY <1>1, CacheKeepsStored DEF NobodyStores, TypeOK
<1>2. req' = req => \A e \in Events : KeepsAnswer(e)
  BY DEF KeepsAnswer
<1>3. CASE Reconcile /\ UNCHANGED req
  <2>1. CASE UNCHANGED storeVars
    BY <1>1, <1>2, <1>3, <2>1
  <2>2. CASE Writing /\ IsLatest(ctl.base) /\ Persist(ctl.st)
    <3>1. rv' = rv + 1 /\ Stored' = ctl.st
      BY <2>2, PersistStores DEF TypeOK
    <3> QED BY <1>3, <2>2, <3>1 DEF ReconcilerStores, IsLatest
  <2> QED BY <1>3, <2>1, <2>2
    DEF Reconcile, Begin, Dispatch, WorkflowMissing, InitializeRun,
        NoStepResults, AllStepsDone, SkipStep, StartStep, PiStep,
        PiAgentUnavailable, PiPromptFails, PiEnvFails, CreateJob, AdoptJob,
        CreateJobFails, JobMissing, JobSucceeded, JobFailed, AgentStep,
        AgentMissing, AgentPromptFails, StartSession, StartSessionFails,
        SessionFetchFails, SessionFinished, PlaceJob, SendPrompt, Quiet,
        Requeue, ReadError, StepOutOfRange, StepNotRunning, JobRunning,
        SessionBusy, SendOutputs, Update, UpdateOk, UpdateConflict, UpdateError
<1>4. CASE Cluster /\ UNCHANGED req
  BY <1>1, <1>2, <1>4 DEF Cluster, JobFinish, JobExpire, JobSync, EditWorkflow
<1>5. CASE CacheSync /\ UNCHANGED <<ctlVars, req>>
  BY <1>1, <1>2, <1>5
<1>6. CASE RunnerPost
  <2>1. PICK e \in Events, j \in JobNames : Post(e, jobs[j].name)
    BY <1>6 DEF RunnerPost
  <2>2. \A d \in Events : KeepsAnswer(d)
    BY <2>1 DEF Post, KeepsAnswer, Settled, TypeOK, RequestTypeOK, Request
  <2> QED BY <1>1, <2>1, <2>2 DEF Post
<1>7. CASE Callback
  BY <1>7, HandleStores DEF Callback
<1>8. CASE Restart
  <2>1. \A e \in Events : KeepsAnswer(e)
    BY <1>8 DEF Restart, RestartHandlers, KeepsAnswer, Settled, TypeOK, RequestTypeOK,
                NoRequest, Request
  <2> QED BY <1>1, <1>8, <2>1 DEF Restart
<1>9. CASE UNCHANGED vars
  BY <1>1, <1>2, <1>9 DEF vars
<1> QED BY <1>3, <1>4, <1>5, <1>6, <1>7, <1>8, <1>9 DEF Next
-----------------------------------------------------------------------------
(* The copies keep their events in every step.                             *)
LEMMA UpdateOkCopies ==
  ASSUME TypeOK, WritesLookedAt, UpdateOk
  PROVE  WritesLookedAt' /\ CopyKeeps'
<1>1. rv' = rv + 1 /\ Stored' = ctl.st /\ rv \in Nat
  BY PersistStores DEF TypeOK, StoreTypeOK, UpdateOk
<1>2. ctl \in Control /\ ctl.pc = "write" /\ ctl.st.phase # "unset" /\ ctl.st \in Status
  BY DEF TypeOK, ControlTypeOK, UpdateOk, Writing, WritesLookedAt, Control
<1>3. CASE ctl.then = "return"
  BY <1>3, IdleCopies DEF UpdateOk, AfterWrite, Return
<1>4. CASE ctl.then = "advance"
  <2>1. ctl'.pc = "write" /\ ctl'.st = Advance(ctl.st)
    BY <1>2, <1>4 DEF UpdateOk, AfterWrite, Control
  <2>2. Edit(ctl.st, Advance(ctl.st))
    BY <1>2, RunEditsKeep
  <2> QED BY <1>1, <1>2, <2>1, <2>2 DEF WritesLookedAt, CopyKeeps, Edit
<1>5. CASE ctl.then = "finish"
  <2>1. ctl'.pc = "outputs" /\ ctl'.st = ctl.st
    BY <1>2, <1>5 DEF UpdateOk, AfterWrite, Control
  <2> QED BY <1>2, <2>1 DEF WritesLookedAt, CopyKeeps
<1>6. ctl.then \in {"return", "advance", "finish"}
  BY <1>2 DEF Control
<1> QED BY <1>3, <1>4, <1>5, <1>6

LEMMA ReconcileCopies ==
  ASSUME TypeOK, LogsInv, ControlInFlight, CopiesKeep, Reconcile
  PROVE  WritesLookedAt' /\ CopyKeeps'
<1>0. NoStepsYet /\ WritesLookedAt /\ CopyKeeps
  BY DEF CopiesKeep
<1>1. CASE Begin
  <2>1. ctl'.pc = "begun"
    BY <1>1 DEF Begin
  <2> QED BY <2>1 DEF WritesLookedAt, CopyKeeps
<1>2. CASE Dispatch
  <2>1. Begun /\ UNCHANGED storeVars
    BY <1>2 DEF Dispatch, WorkflowMissing, InitializeRun, NoStepResults,
       AllStepsDone, SkipStep, StartStep, Selected, AtStep, Executing, Quiet
  <2>2. CASE Edited
    BY <2>1, <2>2, EditedKeeps
  <2>3. CASE AllStepsDone /\ ctl.st.phase # "unset"
    <3>1. ctl'.pc = "outputs" /\ ctl'.st = ctl.st
      BY <2>3 DEF AllStepsDone, TypeOK, ControlTypeOK, Control
    <3> QED BY <2>3, <3>1 DEF WritesLookedAt, CopyKeeps
  <2> QED BY <1>0, <1>2, <2>2, <2>3, DispatchEdited
<1>3. CASE PiStep \/ AgentStep
  <2>1. Begun
    BY <1>3, PiStepEdits, AgentStepEdits
  <2>2. UNCHANGED storeVars
    BY <1>3 DEF PiStep, PiAgentUnavailable,
       PiPromptFails, PiEnvFails, CreateJob, AdoptJob, CreateJobFails, JobMissing,
       JobSucceeded, JobFailed, AgentStep, AgentMissing, AgentPromptFails,
       StartSession, StartSessionFails, SessionFetchFails, SessionFinished,
       PlaceJob, SendPrompt, Quiet
  <2>3. Edited
    BY <1>3, PiStepEdited, AgentStepEdited
  <2> QED BY <2>1, <2>2, <2>3, EditedKeeps
<1>4. CASE Requeue \/ UpdateConflict \/ UpdateError
  BY <1>4, IdleCopies
     DEF Requeue, ReadError, StepOutOfRange, StepNotRunning, JobRunning,
         SessionBusy, UpdateConflict, UpdateError
<1>5. CASE SendOutputs
  <2>1. /\ ctl.pc = "outputs" /\ ctl'.pc = "write" /\ ctl'.base = ctl.base
        /\ ctl'.st = SucceedRun(ctl.st)
    BY <1>5 DEF SendOutputs, WriteStatus, TypeOK, ControlTypeOK, Control
  <2>2. rv' = rv /\ Stored' = Stored
    BY <1>5, CacheKeepsStored DEF TypeOK, SendOutputs
  <2>3. ctl.base = rv => ctl.st = Stored
    BY <2>1 DEF ControlInFlight
  <2>4. ctl.st \in Status
    BY DEF TypeOK, ControlTypeOK, Control
  <2>5. Edit(ctl.st, SucceedRun(ctl.st)) /\ ctl.st.phase # "unset"
    BY <1>0, <2>1, <2>4, RunEditsKeep DEF WritesLookedAt
  <2> QED BY <2>1, <2>2, <2>3, <2>5 DEF WritesLookedAt, CopyKeeps, Edit
<1>6. CASE UpdateOk
  BY <1>0, <1>6, UpdateOkCopies
<1> QED BY <1>1, <1>2, <1>3, <1>4, <1>5, <1>6 DEF Reconcile, Update

LEMMA OthersCopies ==
  ASSUME TypeOK, ControlInFlight, WritesLookedAt, CopyKeeps, StoreMoves, UNCHANGED ctl
  PROVE  WritesLookedAt' /\ CopyKeeps'
<1>1. rv \in Nat /\ ctl.base \in Nat
  BY DEF TypeOK, StoreTypeOK, ControlTypeOK, Control
<1>2. ctl.pc = "write" => ctl.base <= rv
  BY DEF ControlInFlight
<1>3. ctl.pc = "write" /\ rv' = rv + 1 => ctl.base # rv'
  BY <1>1, <1>2
<1> QED BY <1>3 DEF StoreMoves, WritesLookedAt, CopyKeeps

LEMMA FirstNamedHasName ==
  ASSUME NEW st \in Status, NEW n, StepNamed(st, n) # {}
  PROVE  FirstNamed(st, n) \in DOMAIN st.steps /\ st.steps[FirstNamed(st, n)].name = n
<1>1. StepNamed(st, n) \in SUBSET Nat
  BY StatusSteps DEF StepNamed
<1>2. \E p \in StepNamed(st, n) : \A q \in StepNamed(st, n) : p <= q
  BY <1>1, LeastNatural
<1> QED BY <1>2 DEF FirstNamed, StepNamed

\* A handler holds what it held, or has fetched a copy of its own.
LEMMA WhoHolds ==
  ASSUME TypeOK, [Next]_vars, NEW e \in Events, req'[e].pc = "held"
  PROVE  \/ req'[e] = req[e]
         \/ /\ Fetch(e) /\ ~Finish(e, "refused") /\ UNCHANGED storeVars
<1>0. RequestTypeOK
  BY DEF TypeOK
<1>1. CASE UNCHANGED req
  BY <1>1
<1>2. CASE RunnerPost
  <2>1. PICK d \in Events, j \in JobNames : Post(d, jobs[j].name)
    BY <1>2 DEF RunnerPost
  <2> QED BY <1>0, <2>1 DEF Post, RequestTypeOK, Request
<1>3. CASE Callback
  <2>1. PICK d \in Events : Handle(d)
    BY <1>3 DEF Callback
  <2>2. CASE d # e
    BY <2>1, <2>2, HandleEffect
  <2>3. CASE d = e
    BY <1>0, <2>1, <2>3, AnsweredPc
       DEF Handle, Drop, FetchFails, Fetch, Accept, Conflict, UpdateFails
  <2> QED BY <2>2, <2>3
<1>4. CASE Restart
  BY <1>0, <1>4 DEF Restart, RestartHandlers, RequestTypeOK, NoRequest, Request
<1> QED BY <1>1, <1>2, <1>3, <1>4 DEF Next, vars

LEMMA HandlersNamedStep ==
  ASSUME TypeOK, HandlersInFlight, HandlersNamed, StoreMoves, [Next]_vars
  PROVE  HandlersNamed'
<1> SUFFICES ASSUME NEW e \in Events, req'[e].pc = "held", req'[e].base = rv'
             PROVE  \E p \in DOMAIN Stored'.steps :
                      /\ Stored'.steps[p].name = req'[e].name
                      /\ req'[e].st = AppendEvent(Stored', p, e)
  BY DEF HandlersNamed, Results
<1>0. rv \in Nat /\ req \in [Events -> Request] /\ req[e].base \in Nat
  BY DEF TypeOK, StoreTypeOK, RequestTypeOK, Request
<1>1. CASE req'[e] = req[e]
  <2>1. req[e].base <= rv
    BY <1>1 DEF HandlersInFlight
  <2>2. rv' # rv + 1
    BY <1>0, <1>1, <2>1
  <2> QED BY <1>1, <2>2 DEF StoreMoves, HandlersNamed, Results
<1>2. CASE Fetch(e) /\ ~Finish(e, "refused") /\ UNCHANGED storeVars
  <2> DEFINE p == FirstNamed(Cached, req[e].name)
             st == AppendEvent(Cached, p, e)
  <2>1. StepNamed(Cached, req[e].name) # {}
        /\ req' = [req EXCEPT ![e] = [@ EXCEPT !.pc = "held", !.base = seen, !.st = st]]
    BY <1>2 DEF Fetch
  <2>2. p \in DOMAIN Cached.steps /\ Cached.steps[p].name = req[e].name
    BY <2>1, StoredType, FirstNamedHasName DEF TypeOK
  <2> HIDE DEF p
  <2>3. rv' = rv /\ Stored' = Stored
    BY <1>2, CacheKeepsStored DEF TypeOK
  <2>4. req'[e].base = seen /\ req'[e].st = st /\ req'[e].name = req[e].name
    <3> HIDE DEF st
    <3> QED BY <1>0, <2>1 DEF Request
  <2>5. seen = rv => Cached = Stored
    BY DEF Cached, Stored
  <2> QED BY <2>2, <2>3, <2>4, <2>5
<1> QED BY <1>1, <1>2, WhoHolds

LEMMA NoStepsYetStep ==
  ASSUME TypeOK, CopiesKeep, [Next]_vars
  PROVE  NoStepsYet'
<1>1. CASE NobodyStores
  BY <1>1 DEF NobodyStores, CopiesKeep, NoStepsYet
<1>2. CASE ReconcilerStores
  BY <1>2 DEF ReconcilerStores, CopiesKeep, WritesLookedAt, Writing, NoStepsYet
<1>3. ASSUME NEW e \in Events, HandlerStores(e) PROVE NoStepsYet'
  <2>1. PICK p \in DOMAIN Stored.steps : Stored' = AppendEvent(Stored, p, e)
    BY <1>3 DEF HandlerStores, CopiesKeep, HandlersNamed, Results
  <2>2. Stored'.phase = Stored.phase
    BY <2>1, AppendedEvent, StoredType DEF TypeOK
  <2>3. Stored.phase # "unset"
    BY EmptyIsSeq DEF CopiesKeep, NoStepsYet
  <2> QED BY <2>2, <2>3 DEF NoStepsYet
<1> QED BY <1>1, <1>2, <1>3, WhoStores

LEMMA CopiesKeepStep ==
  ASSUME TypeOK, LogsInv, InFlight, CopiesKeep, [Next]_vars
  PROVE  CopiesKeep'
<1>0. ControlInFlight /\ HandlersInFlight /\ WritesLookedAt /\ CopyKeeps /\ HandlersNamed
  BY DEF InFlight, CopiesKeep
<1>1. NoStepsYet'
  BY NoStepsYetStep
<1>2. StoreMoves
  BY WhoStores DEF NobodyStores, ReconcilerStores, HandlerStores, StoreMoves
<1>3. HandlersNamed'
  BY <1>0, <1>2, HandlersNamedStep
<1>4. WritesLookedAt' /\ CopyKeeps'
  <2>1. CASE Reconcile
    BY <1>0, <2>1, ReconcileCopies
  <2>2. CASE UNCHANGED ctl
    BY <1>0, <1>2, <2>2, OthersCopies
  <2>3. CASE Restart
    BY <2>3, IdleCopies DEF Restart, RestartController, Return
  <2>4. Reconcile \/ Restart \/ UNCHANGED ctl
    BY DEF Next, Cluster, JobFinish, JobExpire, JobSync, EditWorkflow, RunnerPost,
           Callback, ctlVars, vars
  <2> QED BY <2>1, <2>2, <2>3, <2>4
<1> QED BY <1>1, <1>3, <1>4 DEF CopiesKeep

LEMMA CopiesKeepInit == Init => CopiesKeep
<1> SUFFICES ASSUME Init PROVE CopiesKeep
  OBVIOUS
<1>1. Stored = EmptyStatus
  BY DEF Init, StoreInit, Stored
<1> QED BY <1>1 DEF Init, ControlInit, RequestInit, Idle, NoRequest, EmptyStatus,
                    CopiesKeep, NoStepsYet, WritesLookedAt, CopyKeeps, HandlersNamed
-----------------------------------------------------------------------------
(* The events of the stored run.                                           *)

\* The posted event e is in place i of the result p.
EventAt(st, p, i, e) ==
  p \in DOMAIN st.steps /\ i \in DOMAIN st.steps[p].events
    /\ st.steps[p].events[i] = Posted(e)

\* No line of a log is twice in one result.
CopiedOnce(st) ==
  \A p \in DOMAIN st.steps : \A i, k \in DOMAIN st.steps[p].events :
    st.steps[p].events[i] = st.steps[p].events[k] /\ st.steps[p].events[i] \in LogEntry
      => i = k

PostedOnce ==
  \A e \in Events : \A p, q, i, k :
    EventAt(Stored, p, i, e) /\ EventAt(Stored, q, k, e) => p = q /\ i = k

\* Only who was answered has an event in the run.
OnlyOfSettled ==
  \A e \in Events : (\E p, i : EventAt(Stored, p, i, e)) => req[e].pc \in Settled

\* Every event of a run keeps its place in a later one.
EventsStay(old, new) ==
  \A p \in DOMAIN old.steps :
    /\ p \in DOMAIN new.steps /\ new.steps[p].name = old.steps[p].name
    /\ Len(old.steps[p].events) <= Len(new.steps[p].events)
    /\ \A i \in DOMAIN old.steps[p].events :
         /\ i \in DOMAIN new.steps[p].events
         /\ new.steps[p].events[i] = old.steps[p].events[i]

LEMMA EventsIndexed ==
  ASSUME NEW st \in Status, NEW p \in DOMAIN st.steps
  PROVE  /\ st.steps[p].events \in Seq(Entry)
         /\ DOMAIN st.steps[p].events = 1..Len(st.steps[p].events)
         /\ Len(st.steps[p].events) \in Nat
<1>1. st.steps[p] \in StepResult
  BY StatusSteps
<1>2. st.steps[p].events \in Seq(Entry)
  BY <1>1 DEF StepResult
<1> QED BY <1>2, LenProperties

LEMMA KeptEvents ==
  ASSUME NEW old \in Status, NEW new \in Status, KeepsRecord(old, new)
  PROVE  /\ EventsStay(old, new)
         /\ \A e \in Events : \A p, i : EventAt(new, p, i, e) => EventAt(old, p, i, e)
         /\ CopiedOnce(old) => CopiedOnce(new)
<1>1. ASSUME NEW p \in DOMAIN old.steps
      PROVE  /\ p \in DOMAIN new.steps /\ new.steps[p].name = old.steps[p].name
             /\ Len(old.steps[p].events) <= Len(new.steps[p].events)
             /\ \A i \in DOMAIN old.steps[p].events :
                  /\ i \in DOMAIN new.steps[p].events
                  /\ new.steps[p].events[i] = old.steps[p].events[i]
  <2>1. p \in DOMAIN new.steps /\ ResultKept(old.steps[p], new.steps[p])
    BY DEF KeepsRecord
  <2>2. CASE new.steps[p].events = old.steps[p].events
    BY <2>1, <2>2, EventsIndexed DEF ResultKept
  <2>3. CASE old.steps[p].events = <<>>
    <3>1. DOMAIN old.steps[p].events = {} /\ Len(old.steps[p].events) = 0
      BY <2>3, EmptyIsSeq
    <3>2. Len(new.steps[p].events) \in Nat
      BY <2>1, EventsIndexed
    <3> QED BY <2>1, <3>1, <3>2 DEF ResultKept
  <2> QED BY <2>1, <2>2, <2>3 DEF ResultKept, Recorded
<1>2. ASSUME NEW e \in Events, NEW p, NEW i, EventAt(new, p, i, e)
      PROVE  EventAt(old, p, i, e)
  <2>1. new.steps[p].events # <<>>
    BY <1>2, EmptyIsSeq DEF EventAt
  <2>2. p \in DOMAIN old.steps
    BY <1>2, <2>1 DEF KeepsRecord, EventAt
  <2>3. new.steps[p].events \notin Seq(LogEntry)
    <3> SUFFICES ASSUME new.steps[p].events \in Seq(LogEntry) PROVE FALSE
      OBVIOUS
    <3>1. new.steps[p].events[i] \in LogEntry
      BY <1>2, LenProperties, ElementOfSeq DEF EventAt
    <3> QED BY <1>2, <3>1, PostedType DEF EventAt
  <2> QED BY <1>2, <2>2, <2>3 DEF KeepsRecord, ResultKept, Recorded, Copied, EventAt
<1>3. ASSUME CopiedOnce(old), NEW p \in DOMAIN new.steps,
             NEW i \in DOMAIN new.steps[p].events, NEW k \in DOMAIN new.steps[p].events,
             new.steps[p].events[i] = new.steps[p].events[k],
             new.steps[p].events[i] \in LogEntry
      PROVE  i = k
  <2>1. p \in DOMAIN old.steps
    BY <1>3, EmptyIsSeq DEF KeepsRecord
  <2>2. Recorded(old.steps[p], new.steps[p].events)
    BY <2>1 DEF KeepsRecord, ResultKept
  <2> QED BY <1>3, <2>1, <2>2 DEF CopiedOnce, Recorded, Copied
<1> QED BY <1>1, <1>2, <1>3 DEF EventsStay, CopiedOnce

LEMMA AddedEvent ==
  ASSUME NEW old \in Status, NEW p \in DOMAIN old.steps, NEW e \in Events,
         NEW new \in Status, new = AppendEvent(old, p, e)
  PROVE  /\ EventsStay(old, new)
         /\ EventAt(new, p, Len(old.steps[p].events) + 1, e)
         /\ \A d, q, i : EventAt(new, q, i, d) =>
              \/ EventAt(old, q, i, d)
              \/ d = e /\ q = p /\ i = Len(old.steps[p].events) + 1
         /\ CopiedOnce(old) => CopiedOnce(new)
<1> DEFINE es == old.steps[p].events
           n == Len(es)
<1>1. /\ DOMAIN new.steps = DOMAIN old.steps
      /\ \A q \in DOMAIN old.steps : new.steps[q].name = old.steps[q].name
      /\ \A q \in DOMAIN old.steps : q # p => new.steps[q].events = old.steps[q].events
      /\ new.steps[p].events = Append(es, Posted(e))
  BY AppendedEvent
<1>2. es \in Seq(Entry) /\ DOMAIN es = 1..n /\ n \in Nat
  BY EventsIndexed
<1>3. /\ Len(Append(es, Posted(e))) = n + 1 /\ DOMAIN Append(es, Posted(e)) = 1..(n + 1)
      /\ Append(es, Posted(e))[n + 1] = Posted(e) /\ \A i \in 1..n : Append(es, Posted(e))[i] = es[i]
  BY <1>2, PostedType, AppendProperties, LenProperties
<1>4. \A q \in DOMAIN old.steps : Len(old.steps[q].events) \in Nat
  BY EventsIndexed
<1> HIDE DEF es, n
<1>5. ASSUME NEW q \in DOMAIN old.steps
      PROVE  /\ Len(old.steps[q].events) <= Len(new.steps[q].events)
             /\ \A i \in DOMAIN old.steps[q].events :
                  /\ i \in DOMAIN new.steps[q].events
                  /\ new.steps[q].events[i] = old.steps[q].events[i]
  <2>1. CASE q = p
    BY <1>1, <1>2, <1>3, <2>1 DEF es, n
  <2>2. CASE q # p
    BY <1>1, <1>4, <2>2
  <2> QED BY <2>1, <2>2
<1>6. EventsStay(old, new)
  BY <1>1, <1>5 DEF EventsStay
<1>7. EventAt(new, p, n + 1, e)
  BY <1>1, <1>2, <1>3 DEF EventAt
<1>8. ASSUME NEW d, NEW q, NEW i, EventAt(new, q, i, d)
      PROVE  EventAt(old, q, i, d) \/ (d = e /\ q = p /\ i = n + 1)
  <2>1. CASE q = p
    <3>1. i \in 1..(n + 1) /\ Append(es, Posted(e))[i] = Posted(d)
      BY <1>1, <1>3, <1>8, <2>1 DEF EventAt
    <3>2. CASE i = n + 1
      BY <1>3, <2>1, <3>1, <3>2 DEF Posted
    <3>3. CASE i # n + 1
      <4>1. i \in 1..n
        BY <1>2, <3>1, <3>3
      <4> QED BY <1>2, <1>3, <2>1, <3>1, <4>1 DEF EventAt, es
    <3> QED BY <3>2, <3>3
  <2>2. CASE q # p
    BY <1>1, <1>8, <2>2 DEF EventAt
  <2> QED BY <2>1, <2>2
<1>9. ASSUME CopiedOnce(old), NEW q \in DOMAIN new.steps,
             NEW i \in DOMAIN new.steps[q].events, NEW k \in DOMAIN new.steps[q].events,
             new.steps[q].events[i] = new.steps[q].events[k],
             new.steps[q].events[i] \in LogEntry
      PROVE  i = k
  <2>1. CASE q # p
    BY <1>1, <1>9, <2>1 DEF CopiedOnce
  <2>2. CASE q = p
    <3>1. /\ i \in 1..(n + 1) /\ k \in 1..(n + 1)
          /\ Append(es, Posted(e))[i] = Append(es, Posted(e))[k]
          /\ Append(es, Posted(e))[i] \in LogEntry
      BY <1>1, <1>3, <1>9, <2>2
    <3>2. Posted(e) \notin LogEntry
      BY PostedType
    <3>3. i \in 1..n /\ k \in 1..n
      BY <1>2, <1>3, <3>1, <3>2
    <3>4. es[i] = es[k] /\ es[i] \in LogEntry
      BY <1>3, <3>1, <3>3
    <3> QED BY <1>2, <1>9, <3>3, <3>4 DEF CopiedOnce, es
  <2> QED BY <2>1, <2>2
<1> QED BY <1>6, <1>7, <1>8, <1>9 DEF n, es, CopiedOnce

\* What a step does to the events of the stored run: they stay; nothing new is
\* stored, or one event of a handler that answers.
LEMMA EventsOfStep ==
  ASSUME TypeOK, TypeOK', CopiesKeep, [Next]_vars
  PROVE  /\ EventsStay(Stored, Stored')
         /\ CopiedOnce(Stored) => CopiedOnce(Stored')
         /\ \/ /\ \A e \in Events : KeepsAnswer(e)
               /\ \A e \in Events : \A p, i : EventAt(Stored', p, i, e) => EventAt(Stored, p, i, e)
            \/ \E e \in Events, p \in DOMAIN Stored.steps : \E k :
                 /\ HandlerStores(e) /\ Stored.steps[p].name = req[e].name
                 /\ EventAt(Stored', p, k, e)
                 /\ \A d, q, i : EventAt(Stored', q, i, d) =>
                      EventAt(Stored, q, i, d) \/ (d = e /\ q = p /\ i = k)
<1>0. Stored \in Status /\ Stored' \in Status
  BY DEF TypeOK, StoreTypeOK, Stored
<1>1. CASE NobodyStores
  <2>1. KeepsRecord(Stored, Stored')
    BY <1>1, SameStepsKeep DEF NobodyStores
  <2> QED BY <1>0, <1>1, <2>1, KeptEvents DEF NobodyStores
<1>2. CASE ReconcilerStores
  <2>1. KeepsRecord(Stored, Stored')
    BY <1>2 DEF ReconcilerStores, CopiesKeep, CopyKeeps, Writing
  <2>2. \A e \in Events : KeepsAnswer(e)
    BY <1>2 DEF ReconcilerStores, KeepsAnswer
  <2> QED BY <1>0, <2>1, <2>2, KeptEvents
<1>3. ASSUME NEW e \in Events, HandlerStores(e)
      PROVE  /\ EventsStay(Stored, Stored')
             /\ CopiedOnce(Stored) => CopiedOnce(Stored')
             /\ \E p \in DOMAIN Stored.steps : \E k :
                  /\ Stored.steps[p].name = req[e].name
                  /\ EventAt(Stored', p, k, e)
                  /\ \A d, q, i : EventAt(Stored', q, i, d) =>
                       EventAt(Stored, q, i, d) \/ (d = e /\ q = p /\ i = k)
  <2>1. PICK p \in DOMAIN Stored.steps :
          Stored.steps[p].name = req[e].name /\ Stored' = AppendEvent(Stored, p, e)
    BY <1>3 DEF HandlerStores, CopiesKeep, HandlersNamed, Results
  <2> QED BY <1>0, <2>1, AddedEvent
<1> QED BY <1>1, <1>2, <1>3, WhoStores
\* The invariant behind the three theorems.
EventsInv ==
  /\ LogsInv /\ CopiesKeep /\ OnlyOfSettled
  /\ CopiedOnce(Stored) /\ PostedOnce /\ AcceptedIsStored

LEMMA EventsInvInit == Init => EventsInv
<1> SUFFICES ASSUME Init PROVE EventsInv
  OBVIOUS
<1>1. Stored = EmptyStatus
  BY DEF Init, StoreInit, Stored
<1>2. DOMAIN Stored.steps = {}
  BY <1>1, EmptyIsSeq DEF EmptyStatus
<1>3. AcceptedIsStored
  BY DEF Init, RequestInit, NoRequest, AcceptedIsStored
<1>4. OnlyOfSettled
  BY <1>2 DEF OnlyOfSettled, EventAt
<1>5. CopiedOnce(Stored) /\ PostedOnce
  BY <1>2 DEF CopiedOnce, PostedOnce, EventAt
<1> QED BY <1>3, <1>4, <1>5, LogsInit, CopiesKeepInit DEF EventsInv

LEMMA SettledStep ==
  ASSUME TypeOK, TypeOK', CopiesKeep, OnlyOfSettled, [Next]_vars
  PROVE  OnlyOfSettled'
<1> SUFFICES ASSUME NEW d \in Events, NEW q, NEW j, EventAt(Stored', q, j, d)
             PROVE  req'[d].pc \in Settled
  BY DEF OnlyOfSettled
<1>1. CASE /\ \A e \in Events : KeepsAnswer(e)
           /\ \A e \in Events : \A p, i : EventAt(Stored', p, i, e) => EventAt(Stored, p, i, e)
  BY <1>1 DEF OnlyOfSettled, KeepsAnswer
<1>2. ASSUME NEW e \in Events, NEW p \in DOMAIN Stored.steps, NEW k, HandlerStores(e),
             \A c, r, i : EventAt(Stored', r, i, c) =>
               EventAt(Stored, r, i, c) \/ (c = e /\ r = p /\ i = k)
      PROVE  req'[d].pc \in Settled
  <2>1. CASE d = e
    BY <1>2, <2>1 DEF HandlerStores
  <2>2. CASE d # e
    <3>1. EventAt(Stored, q, j, d)
      BY <1>2, <2>2
    <3> QED BY <1>2, <2>2, <3>1 DEF OnlyOfSettled, HandlerStores
  <2> QED BY <2>1, <2>2
<1> QED BY <1>1, <1>2, EventsOfStep

LEMMA OnceStep ==
  ASSUME TypeOK, TypeOK', CopiesKeep, OnlyOfSettled, PostedOnce, [Next]_vars
  PROVE  PostedOnce'
<1> SUFFICES ASSUME NEW d \in Events, NEW p1, NEW p2, NEW i1, NEW i2,
                    EventAt(Stored', p1, i1, d), EventAt(Stored', p2, i2, d)
             PROVE  p1 = p2 /\ i1 = i2
  BY DEF PostedOnce
<1>0. EventAt(Stored, p1, i1, d) /\ EventAt(Stored, p2, i2, d) => p1 = p2 /\ i1 = i2
  BY DEF PostedOnce
<1>1. CASE \A e \in Events : \A p, i : EventAt(Stored', p, i, e) => EventAt(Stored, p, i, e)
  BY <1>0, <1>1
<1>2. ASSUME NEW e \in Events, NEW p \in DOMAIN Stored.steps, NEW k, HandlerStores(e),
             \A c, r, i : EventAt(Stored', r, i, c) =>
               EventAt(Stored, r, i, c) \/ (c = e /\ r = p /\ i = k)
      PROVE  p1 = p2 /\ i1 = i2
  <2>1. CASE d = e
    <3>1. req[d].pc \notin Settled
      BY <1>2, <2>1 DEF HandlerStores, Settled
    <3>2. ~EventAt(Stored, p1, i1, d) /\ ~EventAt(Stored, p2, i2, d)
      BY <3>1 DEF OnlyOfSettled
    <3> QED BY <1>2, <3>2
  <2>2. CASE d # e
    BY <1>0, <1>2, <2>2
  <2> QED BY <2>1, <2>2
<1> QED BY <1>1, <1>2, EventsOfStep

LEMMA AcceptedIs ==
  AcceptedIsStored <=>
    \A e \in Events : req[e].pc = "accepted" =>
      \E p, i : EventAt(Stored, p, i, e) /\ Stored.steps[p].name = req[e].name
BY DEF AcceptedIsStored, EventAt, Results

LEMMA AcceptedStep ==
  ASSUME TypeOK, TypeOK', CopiesKeep, AcceptedIsStored, [Next]_vars
  PROVE  AcceptedIsStored'
<1> SUFFICES ASSUME NEW d \in Events, req'[d].pc = "accepted"
             PROVE  \E p, i : EventAt(Stored', p, i, d) /\ Stored'.steps[p].name = req'[d].name
  BY DEF AcceptedIsStored, EventAt, Results
<1>0. EventsStay(Stored, Stored')
  BY EventsOfStep
<1>1. ASSUME req[d].pc = "accepted", req'[d].name = req[d].name
      PROVE  \E p, i : EventAt(Stored', p, i, d) /\ Stored'.steps[p].name = req'[d].name
  <2>1. PICK p, i : EventAt(Stored, p, i, d) /\ Stored.steps[p].name = req[d].name
    BY <1>1, AcceptedIs
  <2>2. EventAt(Stored', p, i, d) /\ Stored'.steps[p].name = req[d].name
    BY <1>0, <2>1 DEF EventAt, EventsStay
  <2> QED BY <1>1, <2>2
<1>2. CASE \A e \in Events : KeepsAnswer(e)
  BY <1>1, <1>2 DEF KeepsAnswer, Settled
<1>3. ASSUME NEW e \in Events, NEW p \in DOMAIN Stored.steps, NEW k, HandlerStores(e),
             Stored.steps[p].name = req[e].name, EventAt(Stored', p, k, e)
      PROVE  \E q, i : EventAt(Stored', q, i, d) /\ Stored'.steps[q].name = req'[d].name
  <2>1. CASE d = e
    <3>1. Stored'.steps[p].name = req'[e].name
      BY <1>0, <1>3 DEF EventsStay, HandlerStores
    <3> QED BY <1>3, <2>1, <3>1
  <2>2. CASE d # e
    BY <1>1, <1>3, <2>2 DEF HandlerStores
  <2> QED BY <2>1, <2>2
<1> QED BY <1>2, <1>3, EventsOfStep

LEMMA EventsInvStep ==
  TypeOK /\ InFlight /\ EventsInv /\ [Next]_vars => EventsInv' /\ AppendsOnly
<1> SUFFICES ASSUME TypeOK, InFlight, EventsInv, [Next]_vars PROVE EventsInv' /\ AppendsOnly
  OBVIOUS
<1>1. TypeOK'
  BY NextType
<1>2. /\ LogsInv /\ CopiesKeep /\ OnlyOfSettled
      /\ CopiedOnce(Stored) /\ PostedOnce /\ AcceptedIsStored
  BY DEF EventsInv
<1>3. LogsInv' /\ CopiesKeep' /\ OnlyOfSettled'
  BY <1>1, <1>2, LogsStep, CopiesKeepStep, SettledStep
<1>5. PostedOnce' /\ AcceptedIsStored'
  BY <1>1, <1>2, OnceStep, AcceptedStep
<1>6. CopiedOnce(Stored)'
  BY <1>1, <1>2, EventsOfStep
<1>4. AppendsOnly
  BY <1>1, <1>2, EventsOfStep DEF AppendsOnly, EventsStay, Results
<1> QED BY <1>3, <1>4, <1>5, <1>6 DEF EventsInv

LEMMA EventsInvariant == Spec => [](TypeOK /\ InFlight /\ EventsInv)
<1>1. Init => TypeOK /\ InFlight /\ EventsInv
  BY InitType, InFlightInit, EventsInvInit
<1>2. (TypeOK /\ InFlight /\ EventsInv) /\ [Next]_vars
        => (TypeOK /\ InFlight /\ EventsInv)'
  BY NextType, InFlightStep, EventsInvStep
<1> QED BY <1>1, <1>2, PTL DEF Spec

(* No trace event is ever taken out of the status again: neither by the    *)
(* reconciler's copy, which may be stale, nor by another handler's         *)
(* (callback.go:121-123).                                                  *)
THEOREM EventsAreNeverLost == Spec => EventsOnlyAppended
<1>1. TypeOK /\ InFlight /\ EventsInv /\ [Next]_vars => [AppendsOnly]_vars
  BY EventsInvStep
<1> QED BY <1>1, EventsInvariant, PTL DEF Spec, EventsOnlyAppended

LEMMA OnceStored ==
  ASSUME TypeOK, CopiedOnce(Stored), PostedOnce
  PROVE  PostStoredOnce
<1> SUFFICES ASSUME NEW p \in DOMAIN Stored.steps, NEW q \in DOMAIN Stored.steps,
                    NEW i \in DOMAIN Stored.steps[p].events,
                    NEW k \in DOMAIN Stored.steps[q].events,
                    Stored.steps[p].events[i] = Stored.steps[q].events[k]
             PROVE  /\ p = q => i = k
                    /\ Stored.steps[p].events[i].by = "callback" => p = q
  BY DEF PostStoredOnce, Results
<1> DEFINE x == Stored.steps[p].events[i]
<1>1. x \in Entry
  BY StoredType, EventsIndexed, ElementOfSeq DEF TypeOK
<1>2. CASE x \in LogEntry
  BY <1>2 DEF CopiedOnce, LogEntry
<1>3. CASE x \notin LogEntry
  <2>1. x.by = "callback" /\ x.event \in Events /\ x = Posted(x.event)
    BY <1>1, <1>3 DEF LogEntry, Entry, Posted
  <2>2. EventAt(Stored, p, i, x.event) /\ EventAt(Stored, q, k, x.event)
    BY <2>1 DEF EventAt
  <2> QED BY <2>1, <2>2 DEF PostedOnce
<1> QED BY <1>2, <1>3

(* One post is stored once, in one step, whatever its handler repeats and  *)
(* whichever answers are lost (callback.go:124-164), and a line of a log   *)
(* is copied into a step once at most, however often the copy is repeated  *)
(* (workflowrun_piagent.go:184-189).  An event can still be there twice,   *)
(* once posted and once copied.                                            *)
THEOREM NoEventTwice == Spec => []PostStoredOnce
<1>1. TypeOK /\ EventsInv => PostStoredOnce
  BY OnceStored DEF EventsInv
<1> QED BY <1>1, EventsInvariant, PTL

(* What was answered with 202 is in a result of the step it was posted     *)
(* for, for ever (callback.go:124-164).                                    *)
THEOREM AcceptedEventsAreStored == Spec => []AcceptedIsStored
<1>1. EventsInv => AcceptedIsStored
  BY DEF EventsInv
<1> QED BY <1>1, EventsInvariant, PTL
-----------------------------------------------------------------------------
(* The write-ahead: what is executed is recorded as started.               *)
StaysStarted(old, new) ==
  \A p \in DOMAIN old.steps :
    old.steps[p].phase # "Pending" => p \in DOMAIN new.steps /\ new.steps[p].phase # "Pending"

\* Every version in the cache, and the copy of a reconcile that has begun, is
\* one the stored run has come from.
VersionsStarted == \A v \in seen..rv : StaysStarted(versions[v], Stored)

CopyStarted == ctl.pc = "begun" => StaysStarted(ctl.st, Stored)

StartedInv == VersionsStarted /\ CopyStarted /\ WriteAhead

LEMMA StartedTwice ==
  ASSUME NEW a, NEW b, NEW c, StaysStarted(a, b), StaysStarted(b, c)
  PROVE  StaysStarted(a, c)
BY DEF StaysStarted

LEMMA StoredStaysStarted ==
  ASSUME TypeOK, CopiesKeep, [Next]_vars
  PROVE  StaysStarted(Stored, Stored')
<1>1. CASE NobodyStores
  BY <1>1 DEF NobodyStores, StaysStarted
<1>2. CASE ReconcilerStores
  <2>1. KeepsRecord(Stored, Stored')
    BY <1>2 DEF ReconcilerStores, CopiesKeep, CopyKeeps, Writing
  <2> QED BY <2>1 DEF KeepsRecord, ResultKept, StaysStarted
<1>3. ASSUME NEW e \in Events, HandlerStores(e) PROVE StaysStarted(Stored, Stored')
  <2>1. PICK p \in DOMAIN Stored.steps : Stored' = AppendEvent(Stored, p, e)
    BY <1>3 DEF HandlerStores, CopiesKeep, HandlersNamed, Results
  <2>2. /\ DOMAIN Stored'.steps = DOMAIN Stored.steps
        /\ \A q \in DOMAIN Stored.steps : Stored'.steps[q].phase = Stored.steps[q].phase
    BY <2>1, AppendedEvent, StoredType DEF TypeOK
  <2> QED BY <2>2 DEF StaysStarted
<1> QED BY <1>1, <1>2, <1>3, WhoStores

\* The versions from the one in the cache on, after any step.
VersionsMove ==
  \A v \in seen'..rv' : v = rv' \/ (v \in seen..rv /\ versions'[v] = versions[v])

LEMMA StoreVersions ==
  ASSUME StoreTypeOK
  PROVE  /\ UNCHANGED storeVars \/ CacheSync \/ CacheRelist => VersionsMove
         /\ \A st : Persist(st) => VersionsMove
<1>1. rv \in Nat /\ seen \in Nat /\ seen <= rv
  BY DEF StoreTypeOK
<1>2. UNCHANGED storeVars => VersionsMove
  BY DEF storeVars, VersionsMove
<1>3. CacheSync => VersionsMove
  BY <1>1 DEF CacheSync, VersionsMove
<1>4. CacheRelist => VersionsMove
  BY <1>1 DEF CacheRelist, VersionsMove
<1>5. ASSUME NEW st, Persist(st) PROVE VersionsMove
  <2>1. /\ rv' = rv + 1 /\ seen' = seen
        /\ versions' = [v \in seen..(rv + 1) |-> IF v = rv + 1 THEN st ELSE versions[v]]
    BY <1>5 DEF Persist
  <2>2. \A v \in seen..(rv + 1) : v # rv + 1 => v \in seen..rv
    BY <1>1
  <2> QED BY <2>1, <2>2 DEF VersionsMove
<1> QED BY <1>2, <1>3, <1>4, <1>5

LEMMA NextVersions ==
  ASSUME TypeOK, [Next]_vars
  PROVE  VersionsMove
<1> USE StoreVersions DEF TypeOK
<1>1. CASE Reconcile
  BY <1>1
    DEF Reconcile, Begin, Dispatch, WorkflowMissing, InitializeRun,
        NoStepResults, AllStepsDone, SkipStep, StartStep, PiStep,
        PiAgentUnavailable, PiPromptFails, PiEnvFails, CreateJob, AdoptJob,
        CreateJobFails, JobMissing, JobSucceeded, JobFailed, AgentStep,
        AgentMissing, AgentPromptFails, StartSession, StartSessionFails,
        SessionFetchFails, SessionFinished, PlaceJob, SendPrompt, Quiet,
        Requeue, ReadError, StepOutOfRange, StepNotRunning, JobRunning,
        SessionBusy, SendOutputs, Update, UpdateOk, UpdateConflict, UpdateError
<1>2. CASE Cluster
  BY <1>2 DEF Cluster, JobFinish, JobExpire, JobSync, EditWorkflow
<1>3. CASE RunnerPost
  BY <1>3 DEF RunnerPost, Post
<1>4. CASE Callback
  BY <1>4 DEF Callback, Handle, Drop, FetchFails, Fetch, Accept, Conflict, UpdateFails
<1>5. CASE CacheSync \/ Restart \/ UNCHANGED vars
  BY <1>5 DEF Restart, vars
<1> QED BY <1>1, <1>2, <1>3, <1>4, <1>5 DEF Next

LEMMA VersionsStep ==
  ASSUME TypeOK, CopiesKeep, VersionsStarted, [Next]_vars
  PROVE  VersionsStarted'
<1> SUFFICES ASSUME NEW v \in seen'..rv' PROVE StaysStarted(versions'[v], Stored')
  BY DEF VersionsStarted
<1>1. CASE v = rv'
  BY <1>1 DEF Stored, StaysStarted
<1>2. CASE v \in seen..rv /\ versions'[v] = versions[v]
  <2>1. StaysStarted(versions[v], Stored)
    BY <1>2 DEF VersionsStarted
  <2> QED BY <1>2, <2>1, StoredStaysStarted, StartedTwice
<1> QED BY <1>1, <1>2, NextVersions DEF VersionsMove

\* A reconcile begins with a version of the cache, and then keeps its copy.
LEMMA CopyStartedStep ==
  ASSUME TypeOK, CopiesKeep, VersionsStarted, CopyStarted, [Next]_vars
  PROVE  CopyStarted'
<1> SUFFICES ASSUME ctl'.pc = "begun" PROVE StaysStarted(ctl'.st, Stored')
  BY DEF CopyStarted
<1>1. CASE Begin
  <2>1. ctl'.st = versions[seen] /\ seen \in seen..rv
    BY <1>1 DEF Begin, Cached, TypeOK, StoreTypeOK
  <2>2. StaysStarted(versions[seen], Stored)
    BY <2>1 DEF VersionsStarted
  <2> QED BY <2>1, <2>2, StoredStaysStarted, StartedTwice
<1>2. CASE UNCHANGED ctl
  BY <1>2, StoredStaysStarted, StartedTwice DEF CopyStarted
<1>3. CASE Restart
  BY <1>3 DEF Restart, RestartController, Idle
<1>4. CASE Reconcile /\ ~Begin
  <2>1. ctl \in Control
    BY DEF TypeOK, ControlTypeOK
  <2>2. CASE Dispatch \/ PiStep \/ AgentStep
    <3>1. (\E st, then : WriteStatus(st, then)) \/ AllStepsDone
      BY <2>2 DEF Dispatch, WorkflowMissing, InitializeRun, NoStepResults,
         SkipStep, StartStep, PiStep, PiAgentUnavailable,
         PiPromptFails, PiEnvFails, CreateJob, AdoptJob, CreateJobFails, JobMissing,
         JobSucceeded, JobFailed, AgentStep, AgentMissing, AgentPromptFails,
         StartSession, StartSessionFails, SessionFetchFails, SessionFinished,
         FailPiStep, FailAgentStep
    <3>2. ctl'.pc # "begun"
      BY <2>1, <3>1 DEF WriteStatus, AllStepsDone, Control
    <3> QED BY <3>2
  <2>3. CASE Requeue \/ UpdateConflict \/ UpdateError
    BY <2>3 DEF Requeue, ReadError, StepOutOfRange, StepNotRunning, JobRunning,
                SessionBusy, UpdateConflict, UpdateError, Return, Idle
  <2>4. CASE SendOutputs
    BY <2>1, <2>4 DEF SendOutputs, WriteStatus, Control
  <2>5. CASE UpdateOk
    BY <2>1, <2>5 DEF UpdateOk, AfterWrite, Idle, Writing, Control
  <2> QED BY <1>4, <2>2, <2>3, <2>4, <2>5 DEF Reconcile, Update
<1>5. Reconcile \/ Restart \/ UNCHANGED ctl
  BY DEF Next, Cluster, JobFinish, JobExpire, JobSync, EditWorkflow, RunnerPost,
         Callback, ctlVars, vars
<1> QED BY <1>1, <1>2, <1>3, <1>4, <1>5

\* Nothing is executed but the step whose result the copy has as Running.
LEMMA WhoExecutes ==
  ASSUME TypeOK, [Next]_vars
  PROVE  \/ UNCHANGED <<prompts, created>>
         \/ /\ ctl.pc = "begun" /\ Pos \in DOMAIN ctl.st.steps
            /\ ctl.st.steps[Pos].phase = "Running"
            /\ \A p \in Positions \ {Pos} : prompts'[p] = prompts[p] /\ created'[p] = created[p]
<1>1. CASE CreateJob \/ CreateJobFails \/ StartSession \/ StartSessionFails
  <2>1. AtStep /\ Result.phase = "Running"
    BY <1>1 DEF CreateJob, CreateJobFails, StartSession, StartSessionFails, WantsJob,
                WantsSession, Running, Selected
  <2>2. \/ UNCHANGED <<prompts, created>>
        \/ UNCHANGED prompts /\ created' = [created EXCEPT ![Pos] = AtLeastOnce(@)]
        \/ UNCHANGED created /\ prompts' = [prompts EXCEPT ![Pos] = AtLeastOnce(@)]
    BY <1>1 DEF CreateJob, CreateJobFails, StartSession, StartSessionFails, PlaceJob,
                SendPrompt, Quiet, effects
  <2>3. \A p \in Positions \ {Pos} :
          [created EXCEPT ![Pos] = AtLeastOnce(@)][p] = created[p]
          /\ [prompts EXCEPT ![Pos] = AtLeastOnce(@)][p] = prompts[p]
    BY DEF TypeOK, ControlTypeOK
  <2> QED BY <2>1, <2>2, <2>3 DEF AtStep, Executing, Begun, Result
<1>2. CASE Reconcile /\ ~(CreateJob \/ CreateJobFails \/ StartSession \/ StartSessionFails)
  BY <1>2
    DEF Reconcile, Begin, Dispatch, WorkflowMissing, InitializeRun,
        NoStepResults, AllStepsDone, SkipStep, StartStep, PiStep,
        PiAgentUnavailable, PiPromptFails, PiEnvFails, AdoptJob,
        JobMissing, JobSucceeded, JobFailed, AgentStep,
        AgentMissing, AgentPromptFails, SessionFetchFails, SessionFinished, Quiet,
        Requeue, ReadError, StepOutOfRange, StepNotRunning, JobRunning,
        SessionBusy, SendOutputs, Update, UpdateOk, UpdateConflict, UpdateError, effects
<1>3. CASE ~Reconcile
  BY <1>3 DEF Next, Cluster, JobFinish, JobExpire, JobSync, EditWorkflow, RunnerPost,
              Callback, Restart, RestartController, ctlVars, effects, vars
<1> QED BY <1>1, <1>2, <1>3 DEF Reconcile, PiStep, AgentStep

LEMMA WriteAheadStep ==
  ASSUME TypeOK, CopiesKeep, CopyStarted, WriteAhead, [Next]_vars
  PROVE  WriteAhead'
<1> SUFFICES ASSUME NEW p \in Positions, prompts'[p] + created'[p] > 0
             PROVE  p \in DOMAIN Stored'.steps /\ Stored'.steps[p].phase # "Pending"
  BY DEF WriteAhead, Started, Results
<1>1. CASE prompts'[p] = prompts[p] /\ created'[p] = created[p]
  <2>1. p \in DOMAIN Stored.steps /\ Stored.steps[p].phase # "Pending"
    BY <1>1 DEF WriteAhead, Started, Results
  <2> QED BY <2>1, StoredStaysStarted DEF StaysStarted
<1>2. CASE /\ ctl.pc = "begun" /\ p \in DOMAIN ctl.st.steps
           /\ ctl.st.steps[p].phase = "Running"
  <2>1. p \in DOMAIN Stored.steps /\ Stored.steps[p].phase # "Pending"
    BY <1>2 DEF CopyStarted, StaysStarted
  <2> QED BY <2>1, StoredStaysStarted DEF StaysStarted
<1> QED BY <1>1, <1>2, WhoExecutes

LEMMA StartedInit == Init => StartedInv
<1> SUFFICES ASSUME Init PROVE StartedInv
  OBVIOUS
<1>1. WriteAhead
  BY DEF Init, ControlInit, WriteAhead
<1>2. CopyStarted
  BY DEF Init, ControlInit, Idle, CopyStarted
<1>3. VersionsStarted
  BY DEF Init, StoreInit, VersionsStarted, Stored, StaysStarted
<1> QED BY <1>1, <1>2, <1>3 DEF StartedInv

(* No prompt is sent and no Job created for a step before the API server   *)
(* has the step as started, whatever copy the reconcile works on           *)
(* (workflowrun_controller.go:263-275).                                    *)
THEOREM StartsAreWrittenAhead == Spec => []WriteAhead
<1>1. Init => StartedInv
  BY StartedInit
<1>2. StartedInv /\ (TypeOK /\ InFlight /\ EventsInv) /\ [Next]_vars => StartedInv'
  BY VersionsStep, CopyStartedStep, WriteAheadStep DEF StartedInv, EventsInv
<1>3. StartedInv => WriteAhead
  BY DEF StartedInv
<1> QED BY <1>1, <1>2, <1>3, EventsInvariant, PTL DEF Spec

-----------------------------------------------------------------------------
(* The name of a Job makes its creation idempotent.                        *)

\* As long as the Workflow is the one the run began with and no Job was
\* collected, who had a Job created has it still.
WorkflowKept == edits = 0 /\ ctl.pc = "begun" => ctl.wf = workflow

JobKept ==
  ~expired /\ edits = 0 =>
    \A p \in Positions :
      created[p] > 0 =>
        /\ p \in DOMAIN workflow.steps
        /\ JobName[workflow.steps[p].name] \in JobNames
        /\ jobs[JobName[workflow.steps[p].name]].state # "none"

JobsInv == WorkflowKept /\ JobKept /\ JobOnce

\* A Job is created for the step a reconcile is at, where there was none.
CreatesJob ==
  /\ ctl.pc = "begun" /\ Pos \in DOMAIN ctl.wf.steps /\ StepJob \in JobNames
  /\ jobs[StepJob].state = "none" /\ jobs'[StepJob].state # "none"
  /\ created' = [created EXCEPT ![Pos] = AtLeastOnce(@)]

LEMMA WhatJobsDo ==
  ASSUME TypeOK, [Next]_vars, edits' = 0, ~expired'
  PROVE  /\ edits = 0 /\ ~expired /\ workflow' = workflow
         /\ \A j \in JobNames : jobs[j].state # "none" => jobs'[j].state # "none"
         /\ created' = created \/ CreatesJob
<1>0. edits \in Nat /\ jobs \in [JobNames -> Job]
  BY MaxEditsAssumption DEF TypeOK, ControlTypeOK
<1>1. ASSUME UNCHANGED <<workflow, edits, jobs, expired>>, created' = created \/ CreatesJob
      PROVE  /\ edits = 0 /\ ~expired /\ workflow' = workflow
             /\ \A j \in JobNames : jobs[j].state # "none" => jobs'[j].state # "none"
             /\ created' = created \/ CreatesJob
  BY <1>1
<1> DEFINE Places == jobs[StepJob].state = "none" /\ PlaceJob
<1>2. CASE (CreateJob \/ CreateJobFails) /\ Places
  <2>1. AtStep /\ jobs[StepJob].state = "none"
    BY <1>2 DEF CreateJob, CreateJobFails, WantsJob, Running, Selected
  <2>2. StepJob \in JobNames
    BY <2>1, AtStepFacts
  <2>3. jobs' = [jobs EXCEPT ![StepJob] = NewJob(Pos)] /\ NewJob(Pos).state = "active"
    BY <1>2 DEF PlaceJob, NewJob
  <2>4. /\ jobs'[StepJob].state # "none"
        /\ \A j \in JobNames : j # StepJob => jobs'[j] = jobs[j]
    BY <1>0, <2>2, <2>3
  <2>5. CreatesJob
    BY <1>2, <2>1, <2>2, <2>4 DEF CreatesJob, PlaceJob, AtStep, Executing, Begun
  <2> QED BY <1>2, <2>4, <2>5 DEF PlaceJob
<1>3. CASE Reconcile /\ ~((CreateJob \/ CreateJobFails) /\ Places)
  <2>1. UNCHANGED <<workflow, edits, jobs, expired>> /\ created' = created
    BY <1>3
      DEF Reconcile, Begin, Dispatch, WorkflowMissing, InitializeRun,
        NoStepResults, AllStepsDone, SkipStep, StartStep, PiStep,
        PiAgentUnavailable, PiPromptFails, PiEnvFails, AdoptJob, CreateJob, CreateJobFails,
        JobMissing, JobSucceeded, JobFailed, AgentStep, StartSession, StartSessionFails,
        AgentMissing, AgentPromptFails, SessionFetchFails, SessionFinished, Quiet, SendPrompt,
        Requeue, ReadError, StepOutOfRange, StepNotRunning, JobRunning,
        SessionBusy, SendOutputs, Update, UpdateOk, UpdateConflict, UpdateError, effects,
        external
  <2> QED BY <1>1, <2>1
<1>4. CASE JobFinish
  <2>1. PICK j \in JobNames, outcome \in {"succeeded", "failed"} :
          jobs' = [jobs EXCEPT ![j].state = outcome]
    BY <1>4 DEF JobFinish
  <2>2. \A k \in JobNames : jobs'[k].state = IF k = j THEN outcome ELSE jobs[k].state
    BY <1>0, <2>1 DEF Job
  <2>3. UNCHANGED <<workflow, edits, expired, created>>
    BY <1>4 DEF JobFinish, effects
  <2> QED BY <2>2, <2>3
<1>5. ~JobExpire /\ ~EditWorkflow
  BY <1>0 DEF JobExpire, EditWorkflow
<1>6. CASE JobSync \/ RunnerPost \/ Callback \/ Restart \/ UNCHANGED vars
           \/ (CacheSync /\ UNCHANGED <<ctlVars, req>>)
  <2>1. UNCHANGED <<workflow, edits, jobs, expired, created>>
    BY <1>6 DEF JobSync, RunnerPost, Callback, Restart, RestartController, ctlVars, vars,
                effects
  <2> QED BY <1>1, <2>1
<1> QED BY <1>2, <1>3, <1>4, <1>5, <1>6 DEF Next, Cluster, Reconcile, PiStep

LEMMA WorkflowKeptStep ==
  ASSUME TypeOK, WorkflowKept, [Next]_vars
  PROVE  WorkflowKept'
<1> SUFFICES ASSUME edits' = 0, ctl'.pc = "begun" PROVE ctl'.wf = workflow'
  BY DEF WorkflowKept
<1>0. edits \in Nat /\ ctl \in Control
  BY MaxEditsAssumption DEF TypeOK, ControlTypeOK
<1>1. CASE Begin
  BY <1>1 DEF Begin, Quiet, external
<1>2. CASE UNCHANGED <<ctl, workflow, edits>>
  BY <1>2 DEF WorkflowKept
<1>3. ~Restart /\ ~EditWorkflow
  BY <1>0 DEF Restart, RestartController, Idle, EditWorkflow
<1>4. CASE Reconcile /\ ~Begin
  <2>1. CASE Dispatch \/ PiStep \/ AgentStep
    <3>1. (\E st, then : WriteStatus(st, then)) \/ AllStepsDone
      BY <2>1 DEF Dispatch, WorkflowMissing, InitializeRun, NoStepResults,
         SkipStep, StartStep, PiStep, PiAgentUnavailable,
         PiPromptFails, PiEnvFails, CreateJob, AdoptJob, CreateJobFails, JobMissing,
         JobSucceeded, JobFailed, AgentStep, AgentMissing, AgentPromptFails,
         StartSession, StartSessionFails, SessionFetchFails, SessionFinished,
         FailPiStep, FailAgentStep
    <3> QED BY <1>0, <3>1 DEF WriteStatus, AllStepsDone, Control
  <2>2. CASE Requeue \/ UpdateConflict \/ UpdateError
    BY <2>2 DEF Requeue, ReadError, StepOutOfRange, StepNotRunning, JobRunning,
                SessionBusy, UpdateConflict, UpdateError, Return, Idle
  <2>3. CASE SendOutputs
    BY <1>0, <2>3 DEF SendOutputs, WriteStatus, Control
  <2>4. CASE UpdateOk
    BY <1>0, <2>4 DEF UpdateOk, AfterWrite, Idle, Writing, Control
  <2> QED BY <1>4, <2>1, <2>2, <2>3, <2>4 DEF Reconcile, Update
<1>5. Reconcile \/ Restart \/ EditWorkflow \/ UNCHANGED <<ctl, workflow, edits>>
  BY DEF Next, Cluster, JobFinish, JobExpire, JobSync, RunnerPost, Callback, ctlVars, vars
<1> QED BY <1>1, <1>2, <1>3, <1>4, <1>5

LEMMA JobsStep ==
  ASSUME TypeOK, JobsInv, [Next]_vars
  PROVE  JobsInv'
<1>1. WorkflowKept'
  BY WorkflowKeptStep DEF JobsInv
<1> DEFINE Has(wf, js, p) == /\ p \in DOMAIN wf.steps
                             /\ JobName[wf.steps[p].name] \in JobNames
                             /\ js[JobName[wf.steps[p].name]].state # "none"
<1>2. ASSUME edits' = 0, ~expired', NEW p \in Positions
      PROVE  created'[p] <= 1 /\ (created'[p] > 0 => Has(workflow', jobs', p))
  <2>0. created \in [Positions -> 0..MaxStarts]
    BY DEF TypeOK, ControlTypeOK
  <2>1. /\ edits = 0 /\ ~expired /\ workflow' = workflow
        /\ \A j \in JobNames : jobs[j].state # "none" => jobs'[j].state # "none"
        /\ created' = created \/ CreatesJob
    BY <1>2, WhatJobsDo
  <2>2. created[p] <= 1 /\ (created[p] > 0 => Has(workflow, jobs, p))
    BY <2>1 DEF JobsInv, JobOnce, JobKept
  <2>3. CASE created'[p] = created[p]
    <3>1. Has(workflow, jobs, p) => Has(workflow', jobs', p)
      BY <2>1
    <3> QED BY <2>2, <2>3, <3>1
  <2>4. CASE CreatesJob /\ p = Pos
    <3>1. ctl.wf = workflow
      BY <2>1, <2>4 DEF JobsInv, WorkflowKept, CreatesJob
    <3>2. /\ p \in DOMAIN workflow.steps /\ StepJob = JobName[workflow.steps[p].name]
          /\ StepJob \in JobNames
          /\ jobs[StepJob].state = "none" /\ jobs'[StepJob].state # "none"
      BY <2>4, <3>1 DEF CreatesJob, StepJob, Step
    <3>3. created[p] = 0
      BY <2>0, <2>2, <3>2
    <3>4. created'[p] = AtLeastOnce(created[p])
      BY <2>0, <2>4 DEF CreatesJob
    <3>5. created'[p] = 1
      BY <3>3, <3>4, MaxStartsAssumption DEF AtLeastOnce
    <3> QED BY <2>1, <3>2, <3>5
  <2>5. CreatesJob /\ p # Pos => created'[p] = created[p]
    BY <2>0 DEF CreatesJob
  <2> QED BY <2>1, <2>3, <2>4, <2>5
<1> QED BY <1>1, <1>2 DEF JobsInv, JobOnce, JobKept

LEMMA JobsInit == Init => JobsInv
BY DEF Init, ControlInit, Idle, JobsInv, JobOnce, JobKept, WorkflowKept

(* While no Job is collected and the Workflow is not edited, each step is  *)
(* executed by one Job, whatever is retried, refused or restarted          *)
(* (workflowrun_piagent.go:126-137).                                       *)
THEOREM JobCreatedOnce == Spec => []JobOnce
<1>1. Init => JobsInv
  BY JobsInit
<1>2. JobsInv /\ TypeOK /\ [Next]_vars => JobsInv'
  BY JobsStep
<1>3. JobsInv => JobOnce
  BY DEF JobsInv
<1> QED BY <1>1, <1>2, <1>3, TypeCorrect, PTL DEF Spec
=============================================================================
