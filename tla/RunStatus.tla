----------------------------- MODULE RunStatus -----------------------------
(***************************************************************************)
(* The data of a WorkflowRun and the pure part of its controller: the      *)
(* Workflow a run executes, the status subresource of the run, and the     *)
(* edits the reconciler makes to its copy of that status before it writes  *)
(* it back.                                                                *)
(*                                                                         *)
(* Abstractions.  A step's position p is CurrentStep+1 of the code.  An    *)
(* output text is "none" (the empty string), "match" (it contains the text *)
(* the conditions of the model look for) or "other".  Timestamps, token    *)
(* counts and error wording are left out; `why' keeps the part of          *)
(* Status.Error the properties tell apart.                                 *)
(***************************************************************************)
EXTENDS Naturals, Sequences

CONSTANTS
  Names,      \* step names
  JobNames,   \* names a Job can have
  JobName,    \* [Names -> JobNames]: run name "-" step name, cut at 63 bytes
  Events,     \* the trace events the pi-runner posts, each an identity
  MaxStarts   \* counters of external effects saturate here

ASSUME JobNameAssumption == JobName \in [Names -> JobNames]
ASSUME NoJobAssumption == "none" \notin JobNames
ASSUME NamesAssumption == Names \intersect {"none", "last", "nobody"} = {}
ASSUME MaxStartsAssumption == MaxStarts \in Nat /\ MaxStarts >= 2

NoJob == "none"

Answers == {"match", "other"}
Texts == Answers \union {"none"}

(***************************************************************************)
(* A step of a Workflow.  `cond' is the position of the result the         *)
(* condition's path resolves to (0: no condition, or one that resolves to  *)
(* nothing and is therefore true).  Of the prompt template there is what   *)
(* can make it fail: whether it parses, and the position of the step whose *)
(* output it reads through the function index (0: none).                   *)
(***************************************************************************)
StepSpec == [name : Names, kind : {"agent", "pi"}, cont : BOOLEAN,
             cond : Nat, uses : Nat, parses : BOOLEAN]

(***************************************************************************)
(* mode "simple" is agent/piAgent + prompt at the top level: its one step  *)
(* stands for the synthetic step "main".  mode "deleted" is a Workflow     *)
(* that no longer exists.  `output' says whose output is sent to the       *)
(* configured destinations: that of the step of this name, of the last     *)
(* result (spec.output without fromStep) or nobody's (no spec.output).     *)
(***************************************************************************)
Workflow == [mode : {"simple", "steps", "deleted"}, steps : Seq(StepSpec),
             output : Names \union {"last", "nobody"}]

NoWorkflow == [mode |-> "deleted", steps |-> <<>>, output |-> "nobody"]

StepPhases == {"Pending", "Running", "Succeeded", "Failed", "Skipped"}
FinishedPhases == {"Succeeded", "Failed", "Skipped"}
\* "unset" is the empty phase of a run nobody has looked at.
RunPhases == {"unset", "Running", "Succeeded", "Failed"}
TerminalPhases == {"Succeeded", "Failed"}

(***************************************************************************)
(* A trace event in the status of a step.  The pi-runner prints a line to  *)
(* its log for every event it posts, so the same event can reach the       *)
(* status by its callback and by the copy of the log.  `by' is a history   *)
(* variable that says which of the two it was: the code keeps the event    *)
(* alone.                                                                  *)
(***************************************************************************)
Entry == [event : Events, by : {"callback", "log"}]

LogEntry == {x \in Entry : x.by = "log"}

Posted(e) == [event |-> e, by |-> "callback"]
Logged(e) == [event |-> e, by |-> "log"]

(***************************************************************************)
(* StepResult: `from' is the position of the step whose prompt produced    *)
(* the output (0 while there is none); `session' says that SessionID is    *)
(* set.                                                                    *)
(***************************************************************************)
StepResult == [name : Names, phase : StepPhases, text : Texts, from : Nat,
               session : BOOLEAN, job : JobNames \union {NoJob},
               events : Seq(Entry)]

Reasons == {"none", "workflow", "step", "jobMissing"}

Status == [phase : RunPhases, cur : Nat, steps : Seq(StepResult),
           why : Reasons]

EmptyStatus == [phase |-> "unset", cur |-> 0, steps |-> <<>>, why |-> "none"]

PendingResult(n) ==
  [name |-> n, phase |-> "Pending", text |-> "none", from |-> 0,
   session |-> FALSE, job |-> NoJob, events |-> <<>>]

-----------------------------------------------------------------------------
(* The edits of the reconciler.                                            *)

\* Variant with a fault: the run starts with its second step.
InitStatusFromOne(wf) ==
  [phase |-> "Running", cur |-> 1,
   steps |-> [p \in 1..Len(wf.steps) |-> PendingResult(wf.steps[p].name)],
   why |-> "none"]

InitStatus(wf) ==
  [phase |-> "Running", cur |-> 0,
   steps |-> [p \in 1..Len(wf.steps) |-> PendingResult(wf.steps[p].name)],
   why |-> "none"]

MarkRunning(st, p) == [st EXCEPT !.steps[p].phase = "Running"]

Advance(st) == [st EXCEPT !.cur = @ + 1]

\* Variant with a fault: CurrentStep++ is missing.
SkipInPlace(st, p) == [st EXCEPT !.steps[p].phase = "Skipped"]

SkipResult(st, p) == Advance([st EXCEPT !.steps[p].phase = "Skipped"])

SetSession(st, p) == [st EXCEPT !.steps[p].session = TRUE]

SetJob(st, p, j) == [st EXCEPT !.steps[p].job = j]

Complete(st, p, text, from, events) ==
  [st EXCEPT !.steps[p] = [@ EXCEPT !.phase = "Succeeded", !.text = text,
                                    !.from = from, !.events = events]]

\* A failed Job leaves its partial output in the result before failStep.
Partial(st, p, text, from, events) ==
  [st EXCEPT !.steps[p] = [@ EXCEPT !.text = text, !.from = from,
                                    !.events = events]]

FailRun(st, why) == [st EXCEPT !.phase = "Failed", !.why = why]

FailStep(st, p, why) ==
  FailRun([st EXCEPT !.steps[p].phase = "Failed"], why)

\* Variant with a fault: CurrentStep++ is missing.
PassInPlace(st, p) == [st EXCEPT !.steps[p].phase = "Failed"]

\* continueOnError in the branch of the OpenCode runtime.
PassFailedStep(st, p) == Advance([st EXCEPT !.steps[p].phase = "Failed"])

SucceedRun(st) == [st EXCEPT !.phase = "Succeeded"]

AppendEvent(st, p, e) ==
  [st EXCEPT !.steps[p].events = Append(@, Posted(e))]

-----------------------------------------------------------------------------
(* What the reconciler and the handler read from a status.                 *)

Terminal(st) == st.phase \in TerminalPhases

ConditionHolds(st, step) ==
  step.cond \in DOMAIN st.steps => st.steps[step.cond].text = "match"

\* Only succeeded steps are in the data of a template.  A field of the data
\* that is missing, as in {{.steps.a.output}}, is rendered as "<no value>" and
\* is no error; the field of what index does not find is one.
RenderOk(st, step) ==
  /\ step.parses
  /\ step.uses # 0 => /\ step.uses \in DOMAIN st.steps
                      /\ st.steps[step.uses].phase = "Succeeded"

\* Log-parsed events are a fallback for a result without callback events.
WithLogEvents(res, lines) ==
  IF res.events = <<>> THEN lines ELSE res.events

StepNamed(st, n) == {p \in DOMAIN st.steps : st.steps[p].name = n}

FirstNamed(st, n) ==
  CHOOSE p \in StepNamed(st, n) : \A q \in StepNamed(st, n) : p <= q

HasOutput(wf, st) ==
  \/ wf.output = "last" /\ st.steps # <<>> /\ st.steps[Len(st.steps)].text # "none"
  \/ /\ wf.output \in Names /\ StepNamed(st, wf.output) # {}
     /\ st.steps[FirstNamed(st, wf.output)].text # "none"

AtLeastOnce(n) == IF n < MaxStarts THEN n + 1 ELSE n
=============================================================================
