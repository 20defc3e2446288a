---------------------------- MODULE RunLifecycle ----------------------------
(***************************************************************************)
(* What the status of a WorkflowRun promises to whoever watches it         *)
(* (api/v1alpha1/workflow_types.go): the run starts once, its steps are    *)
(* worked off one after the other, and a terminal phase is final.  Nothing *)
(* is said here of caches, versions, Jobs or sessions: module RunSystem    *)
(* implements this one.                                                    *)
(***************************************************************************)
EXTENDS Naturals, Sequences

CONSTANT MaxSteps   \* bound: steps of a Workflow

VARIABLES
  phase,     \* Status.Phase ("unset": the empty string)
  cur,       \* Status.CurrentStep
  results    \* the phases of Status.StepResults

lifecycle == <<phase, cur, results>>

StepPhase == {"Pending", "Running", "Succeeded", "Failed", "Skipped"}
Finished == {"Succeeded", "Failed", "Skipped"}

LifecycleTypeOK ==
  /\ phase \in {"unset", "Running", "Succeeded", "Failed"}
  /\ cur \in Nat
  /\ results \in Seq(StepPhase)

Init == phase = "unset" /\ cur = 0 /\ results = <<>>

\* The current position, and the change of its result.
At(p, from) == p = cur + 1 /\ p \in DOMAIN results /\ results[p] \in from
Becomes(p, to) == results' = [results EXCEPT ![p] = to]

Start ==
  /\ phase = "unset"
  /\ phase' = "Running"
  /\ \E n \in 0..MaxSteps : results' = [p \in 1..n |-> "Pending"]
  /\ UNCHANGED cur

Abort ==
  /\ phase \in {"unset", "Running"}
  /\ phase' = "Failed"
  /\ UNCHANGED <<cur, results>>

StartStep(p) ==
  /\ phase = "Running" /\ At(p, {"Pending"})
  /\ Becomes(p, "Running")
  /\ UNCHANGED <<phase, cur>>

SkipStep(p) ==
  /\ phase = "Running" /\ At(p, {"Pending"})
  /\ Becomes(p, "Skipped") /\ cur' = cur + 1
  /\ UNCHANGED phase

SucceedStep(p) ==
  /\ phase = "Running" /\ At(p, {"Running"})
  /\ Becomes(p, "Succeeded")
  /\ cur' \in {cur, cur + 1}
  /\ UNCHANGED phase

\* A step fails and the run goes on without it.
PassStep(p) ==
  /\ phase = "Running" /\ At(p, {"Running"})
  /\ Becomes(p, "Failed") /\ cur' = cur + 1
  /\ UNCHANGED phase

FailStep(p) ==
  /\ phase = "Running" /\ At(p, {"Running"})
  /\ Becomes(p, "Failed") /\ phase' = "Failed"
  /\ UNCHANGED cur

\* CurrentStep++ in a write of its own, after the step has ended.
AdvanceStep(p) ==
  /\ \/ phase = "Running" /\ At(p, {"Succeeded"})
     \/ phase = "Failed" /\ At(p, {"Failed"})
  /\ cur' = cur + 1
  /\ UNCHANGED <<phase, results>>

Succeed ==
  /\ phase = "Running"
  /\ \A p \in DOMAIN results : results[p] \in Finished
  /\ phase' = "Succeeded"
  /\ UNCHANGED <<cur, results>>

StepAction(p) ==
  \/ StartStep(p) \/ SkipStep(p) \/ SucceedStep(p) \/ PassStep(p)
  \/ FailStep(p) \/ AdvanceStep(p)

Next == Start \/ Abort \/ Succeed \/ \E p \in 1..MaxSteps : StepAction(p)

Spec == Init /\ [][Next]_lifecycle

-----------------------------------------------------------------------------
(* Everything before the current step has ended and everything after it    *)
(* is untouched: a run is at most at one step.                             *)
OneStepAtATime ==
  \A p \in DOMAIN results :
    /\ p <= cur => results[p] \in Finished
    /\ p > cur + 1 => results[p] = "Pending"

(* CurrentStep never runs past the results.                                *)
CurrentInRange == cur <= Len(results)
=============================================================================
