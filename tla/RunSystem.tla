----------------------------- MODULE RunSystem -----------------------------
(***************************************************************************)
(* One WorkflowRun from its creation on: the reconciler, the callback      *)
(* handlers, the object they both write, the Jobs and sessions it drives   *)
(* and restarts of the operator.                                           *)
(***************************************************************************)
EXTENDS WorkflowRun, CallbackHandler

vars == <<storeVars, ctlVars, req>>

TypeOK == StoreTypeOK /\ ControlTypeOK /\ RequestTypeOK

Init == StoreInit /\ ControlInit /\ RequestInit

\* A pi-runner prints an event to its log and posts it, while its Job is
\* active.
RunnerPost ==
  /\ \E e \in Events, j \in JobNames :
       /\ jobs[j].state = "active"
       /\ Post(e, jobs[j].name)
       /\ logs' = [logs EXCEPT ![j] = Append(@, Logged(e))]
  /\ UNCHANGED <<effects, workflow, edits, ctl, jobs, jobSeen, expired>>

Callback == (\E e \in Events : Handle(e)) /\ UNCHANGED ctlVars

Restart == CacheRelist /\ RestartController /\ RestartHandlers

Next ==
  \/ Reconcile /\ UNCHANGED req
  \/ Cluster /\ UNCHANGED req
  \/ CacheSync /\ UNCHANGED <<ctlVars, req>>
  \/ RunnerPost
  \/ Callback
  \/ Restart

Spec == Init /\ [][Next]_vars

(***************************************************************************)
(* Fairness.  The work queue of controller-runtime hands out a run again   *)
(* after every return on a run that is not terminal (Begin), and a         *)
(* reconcile under way goes on (the actions with pc # "idle").  Those of   *)
(* its steps that a restart or a failed read can pre-empt are strongly     *)
(* fair: nothing in the code prefers the failure, so a step that is tried  *)
(* again and again succeeds some time.  Watches deliver (CacheSync,        *)
(* JobSync); a Job ends, at the latest by activeDeadlineSeconds.  That a   *)
(* session ends and is found idle by a poll some time (SessionFinished) is *)
(* an assumption on the agent: the code sets no limit to a session.        *)
(* Nothing is assumed of callbacks, restarts, edits or the collection of   *)
(* Jobs.                                                                   *)
(***************************************************************************)
Own(A) == A /\ UNCHANGED req

OperatorFairness ==
  /\ WF_vars(Own(Begin)) /\ WF_vars(Own(Requeue \/ UpdateConflict))
  /\ SF_vars(Own(Dispatch))
  /\ SF_vars(Own(CreateJob \/ AdoptJob \/ PiPromptFails))
  /\ SF_vars(Own(JobSucceeded \/ JobFailed \/ JobMissing))
  /\ SF_vars(Own(StartSession \/ AgentPromptFails))
  /\ SF_vars(Own(SendOutputs))
  /\ SF_vars(Own(UpdateOk))

ClusterFairness ==
  /\ WF_vars(CacheSync /\ UNCHANGED <<ctlVars, req>>)
  /\ WF_vars(Own(JobFinish)) /\ WF_vars(Own(JobSync))

AgentFairness == SF_vars(Own(SessionFinished))

FairSpec == Spec /\ OperatorFairness /\ ClusterFairness /\ AgentFairness

-----------------------------------------------------------------------------
(* What the system promises.  `Stored' is the object at the API server,    *)
(* which is all that users, the Workflow controller and the runner see.    *)

\* The results of the stored run, and the steps they belong to.
Results == Stored.steps
Started(p) == Results[p].phase # "Pending"
Over(p) == Results[p].phase \in FinishedPhases

\* No copy ever overwrites what somebody else wrote: an event that is in the
\* status of a step stays there, whoever writes the status next
\* (callback.go:121-123, the reconciler writes the same status).
AppendsOnly ==
  \A p \in DOMAIN Results :
    /\ p \in DOMAIN Results'
    /\ Len(Results[p].events) <= Len(Results'[p].events)
    /\ \A i \in DOMAIN Results[p].events :
         Results'[p].events[i] = Results[p].events[i]

EventsOnlyAppended == [][AppendsOnly]_vars

\* An event the handler answered with 202 is in the status of the step it
\* was posted for (callback.go:124-164).
AcceptedIsStored ==
  \A e \in Events :
    req[e].pc = "accepted" =>
      \E p \in DOMAIN Results :
        /\ Results[p].name = req[e].name
        /\ \E i \in DOMAIN Results[p].events : Results[p].events[i] = Posted(e)

\* One post is recorded once, in one step, whatever is retried or answered in
\* vain (callback.go:121-164), and no line of a log is copied into a step
\* twice, however often the copying reconcile is repeated from copies of other
\* ages (workflowrun_piagent.go:184-193).  So a step holds an event twice at
\* most, once posted and once copied.
PostStoredOnce ==
  \A p, q \in DOMAIN Results :
    \A i \in DOMAIN Results[p].events, k \in DOMAIN Results[q].events :
      Results[p].events[i] = Results[q].events[k] =>
        /\ p = q => i = k
        /\ Results[p].events[i].by = "callback" => p = q

\* Once Succeeded or Failed, the run keeps its phase and its step results
\* (workflowrun_controller.go:60-63), whatever stale copies a reconcile
\* still works on; only trace events may be added.
StaysFinal ==
  Terminal(Stored) =>
    /\ Stored'.phase = Stored.phase
    /\ DOMAIN Results' = DOMAIN Results
    /\ \A p \in DOMAIN Results :
         [Results'[p] EXCEPT !.events = Results[p].events] = Results[p]

TerminalIsFinal == [][StaysFinal]_vars

\* The copies in flight.  A copy of the latest version, which the API server
\* would accept, is that version with nothing but its holder's own edits: the
\* reconcile has come past the terminal check with it, or has just written it
\* and adds CurrentStep++; a handler adds its event to one of the results.
ControlInFlight ==
  /\ ctl.pc # "idle" => ctl.base <= rv
  /\ ctl.pc \in {"begun", "outputs"} =>
       ~Terminal(ctl.st) /\ (ctl.base = rv => ctl.st = Stored)
  /\ ctl.pc = "write" /\ ctl.then = "finish" => ~Terminal(ctl.st)
  /\ ctl.pc = "write" /\ ctl.base = rv =>
       ~Terminal(Stored) \/ ctl.st = Advance(Stored)

HandlersInFlight ==
  \A e \in Events :
    req[e].pc = "held" =>
      /\ req[e].base <= rv
      /\ req[e].base = rv =>
           \E p \in DOMAIN Results : req[e].st = AppendEvent(Stored, p, e)

InFlight == ControlInFlight /\ HandlersInFlight

\* Write-ahead: no prompt is sent and no Job created for a step before the
\* API server has the step as started (workflowrun_controller.go:263-275),
\* crashes, conflicts, stale reads and edits of the Workflow notwithstanding.
WriteAhead ==
  \A p \in Positions :
    prompts[p] + created[p] > 0 => p \in DOMAIN Results /\ Started(p)

\* A step is dispatched only after every step before it is over.
DispatchedInOrder ==
  edits = 0 =>
    \A p \in Positions :
      prompts[p] + created[p] > 0 =>
        \A q \in 1..(p - 1) : q \in DOMAIN Results /\ Over(q)

\* A step the status reports as Skipped was never run, though its condition
\* is evaluated again by every reconcile (workflowrun_controller.go:238-260).
SkippedNeverRan ==
  \A p \in DOMAIN Results :
    Results[p].phase = "Skipped" /\ edits = 0 =>
      prompts[p] = 0 /\ created[p] = 0

\* An output recorded for a step answers the prompt of that step.
OwnOutput ==
  edits = 0 =>
    \A p \in DOMAIN Results : Results[p].text # "none" => Results[p].from = p

\* While no finished Job is garbage-collected, the name of the Job makes its
\* creation idempotent: a step is executed by one Job, whatever is retried
\* (workflowrun_piagent.go:126-137).
JobOnce == ~expired /\ edits = 0 => \A p \in Positions : created[p] <= 1

\* The outputs leave before the Succeeded status is written
\* (workflowrun_controller.go:736-757), but never before every step is over
\* at the API server.
OutputsAfterSteps ==
  outputs > 0 /\ edits = 0 =>
    Stored.phase # "unset" /\ \A p \in DOMAIN Results : Over(p)

\* A run is Succeeded only when each of its steps is over, and only those
\* with continueOnError have failed.
SucceededMeansDone ==
  Stored.phase = "Succeeded" /\ edits = 0 =>
    \A p \in DOMAIN workflow.steps :
      Over(p) /\ (Results[p].phase = "Failed" => workflow.steps[p].cont)

-----------------------------------------------------------------------------
(* Progress.                                                               *)

\* Every run reaches a terminal phase.
RunEnds == <>Terminal(Stored)

\* The current step is over but neither CurrentStep nor the phase of the run
\* was written with it: the reconciler only requeues such a run
\* (workflowrun_controller.go:144-146, 277-281).
LeftBehind ==
  /\ Stored.phase = "Running"
  /\ \E p \in DOMAIN Results :
       /\ p = IF workflow.mode = "simple" THEN 1 ELSE Stored.cur + 1
       /\ Results[p].phase = "Succeeded"
       /\ workflow.mode = "simple" \/ workflow.steps[p].kind = "pi"

\* A run ends, or it is left behind by a restart, an error or a conflict
\* between the two status writes that complete a simple run or a step of the
\* Pi runtime; nothing else, not stale caches, lost answers nor repeated
\* prompts, keeps it from ending.
RunEndsOrLeftBehind == <>(Terminal(Stored) \/ []LeftBehind)

-----------------------------------------------------------------------------
(* What comments of the code say and the system does not keep: each is the *)
(* one property of a run that is expected to violate it.                   *)

\* "If callback events exist, prefer them.  If no callback events, use the
\* log-parsed ones as a fallback" (workflowrun_piagent.go:185-186): a step has
\* its events from the one source or from the other, so none of them twice.
EventStoredOnce ==
  \A p \in DOMAIN Results :
    \A i, k \in DOMAIN Results[p].events :
      Results[p].events[i].event = Results[p].events[k].event => i = k

-----------------------------------------------------------------------------
(* The stored status implements the abstract life of a run.                *)

Lifecycle == INSTANCE RunLifecycle
  WITH phase <- Stored.phase, cur <- Stored.cur,
       results <- [p \in DOMAIN Stored.steps |-> Stored.steps[p].phase]

ImplementsLifecycle == Lifecycle!Spec

\* In the stored status everything before CurrentStep is over and everything
\* after it untouched: two steps of a run never overlap.
OneStepAtATime == Lifecycle!OneStepAtATime
=============================================================================
