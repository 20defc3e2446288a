--------------------------- MODULE RunOrderProofs ---------------------------
(* The order of the steps of a run, for every value of the constants: the  *)
(* stored status implements RunLifecycle, no two steps overlap, none is    *)
(* dispatched early, and what was skipped or succeeded is what it says.    *)
EXTENDS RunSystemProofs

-----------------------------------------------------------------------------
(* What a write of the run can be, as far as its order is concerned.       *)

\* The phase and the text of a result; its events are somebody else's.
SameResult(r, s) == s.phase = r.phase /\ s.text = r.text

SameResults(old, new) ==
  /\ DOMAIN new.steps = DOMAIN old.steps
  /\ \A q \in DOMAIN old.steps : SameResult(old.steps[q], new.steps[q])

\* One result changes; only a step that ends gets a text.
Turns(old, new, p, to) ==
  /\ DOMAIN new.steps = DOMAIN old.steps
  /\ new.steps[p].phase = to
  /\ to = "Running" => new.steps[p].text = old.steps[p].text
  /\ \A q \in DOMAIN old.steps : q # p => SameResult(old.steps[q], new.steps[q])

SameCourse(old, new) == new.phase = old.phase /\ new.cur = old.cur

At(wf, st) == IF wf.mode = "simple" THEN 1 ELSE st.cur + 1

\* CurrentStep++ in a write of its own.
MayAdvance(st) ==
  /\ st.cur + 1 \in DOMAIN st.steps
  /\ \/ st.phase = "Running" /\ st.steps[st.cur + 1].phase = "Succeeded"
     \/ st.phase = "Failed" /\ st.steps[st.cur + 1].phase = "Failed"

\* The run as a whole.
RunMoves(wf, old, new) ==
  \/ SameResults(old, new) /\ SameCourse(old, new)
  \/ /\ old.phase = "unset" /\ wf.mode # "deleted"
     /\ new.phase = "Running" /\ new.cur = 0
     /\ DOMAIN new.steps = 1..Len(wf.steps)
     /\ \A q \in DOMAIN new.steps : SameResult(PendingResult("any"), new.steps[q])
  \/ /\ old.phase = "Running" \/ (old.phase = "unset" /\ wf.mode = "deleted")
     /\ new.phase = "Failed" /\ new.cur = old.cur
     /\ SameResults(old, new)
  \/ /\ old.phase = "Running" /\ new.phase = "Succeeded" /\ new.cur = old.cur
     /\ SameResults(old, new)
  \/ /\ wf.mode # "simple" /\ MayAdvance(old)
     /\ new.phase = old.phase /\ new.cur = old.cur + 1
     /\ SameResults(old, new)

\* The step the Workflow is at.
StepMoves(wf, old, new) ==
  LET p    == At(wf, old)
      step == wf.steps[p]
      from == old.steps[p].phase
  IN  /\ old.phase = "Running" /\ p \in DOMAIN wf.steps /\ p \in DOMAIN old.steps
      /\ \/ /\ wf.mode # "simple" /\ ~ConditionHolds(old, step)
            /\ Turns(old, new, p, "Skipped")
            /\ new.phase = old.phase /\ new.cur = old.cur + 1
         \/ /\ wf.mode = "simple" \/ ConditionHolds(old, step)
            /\ from \in {"Pending", "Running"} /\ Turns(old, new, p, "Running")
            /\ SameCourse(old, new)
         \/ /\ wf.mode = "simple" \/ ConditionHolds(old, step)
            /\ from = "Running" /\ Turns(old, new, p, "Succeeded")
            /\ new.phase = old.phase
            /\ new.cur = old.cur \/ (wf.mode # "simple" /\ new.cur = old.cur + 1)
         \/ /\ wf.mode = "simple" \/ ConditionHolds(old, step)
            /\ from = "Running" /\ Turns(old, new, p, "Failed")
            /\ new.phase = "Failed" /\ new.cur = old.cur
         \/ /\ wf.mode # "simple" /\ ConditionHolds(old, step) /\ step.cont
            /\ from = "Running" /\ Turns(old, new, p, "Failed")
            /\ new.phase = old.phase /\ new.cur = old.cur + 1

Moves(wf, old, new) == RunMoves(wf, old, new) \/ StepMoves(wf, old, new)

-----------------------------------------------------------------------------
(* What holds of every status of the run, stored or copied.                *)

AllOver(st) == \A p \in DOMAIN st.steps : st.steps[p].phase \in FinishedPhases

\* Results before CurrentStep are over, results after it are untouched, and
\* only a step that is over has a text.
Good(st) ==
  /\ st.phase = "unset" => st.cur = 0 /\ DOMAIN st.steps = {}
  /\ \A p \in DOMAIN st.steps :
       /\ p <= st.cur => st.steps[p].phase \in FinishedPhases
       /\ p > st.cur + 1 => st.steps[p].phase = "Pending"
       /\ st.steps[p].phase \in {"Pending", "Running"} => st.steps[p].text = "none"

\* The run of a Workflow that is not edited.
Fits(wf, st) ==
  st.phase # "unset" =>
    /\ DOMAIN st.steps = 1..Len(wf.steps)
    /\ wf.mode = "simple" => st.cur = 0
    /\ \A p \in DOMAIN st.steps :
         st.steps[p].phase = "Failed" /\ st.phase # "Failed" => wf.steps[p].cont
    /\ st.phase = "Succeeded" => AllOver(st)
    /\ wf.mode # "simple" /\ st.cur + 1 \in DOMAIN st.steps
         /\ st.steps[st.cur + 1].phase # "Pending" =>
           ConditionHolds(st, wf.steps[st.cur + 1])

\* What was over stays over.
Later(old, new) ==
  old.phase # "unset" =>
    /\ new.phase # "unset" /\ DOMAIN new.steps = DOMAIN old.steps
    /\ \A p \in DOMAIN old.steps :
         old.steps[p].phase \in FinishedPhases => new.steps[p].phase \in FinishedPhases

\* What was executed is not skipped.
Ran(st, p) == p \in DOMAIN st.steps /\ st.steps[p].phase \notin {"Pending", "Skipped"}

RanLater(old, new) == \A p \in DOMAIN old.steps : Ran(old, p) => Ran(new, p)

-----------------------------------------------------------------------------
(* The inductive invariant.                                                *)

\* What the reconciler does after a write depends on what it writes.
Leads(wf, st, then) ==
  /\ st.phase # "unset"
  /\ then = "advance" => wf.mode # "simple" /\ MayAdvance(st)
  /\ then = "finish" => /\ wf.mode = "simple" /\ st.phase = "Running"
                        /\ 1 \in DOMAIN st.steps /\ st.steps[1].phase = "Succeeded"

Follows == ctl.pc = "write" => Leads(ctl.wf, ctl.st, ctl.then)

CopyMoves == ctl.pc = "write" /\ ctl.base = rv => Moves(ctl.wf, Stored, ctl.st)

GoodCopies ==
  /\ \A v \in seen..rv : Good(versions[v])
  /\ ctl.pc # "idle" => Good(ctl.st)

LaterCopies ==
  /\ \A v \in seen..rv : Later(versions[v], Stored)
  /\ ctl.pc \in {"begun", "outputs"} => Later(ctl.st, Stored)

OrderInv == Follows /\ CopyMoves /\ GoodCopies /\ LaterCopies

\* As long as the Workflow is the one the run began with.
WorkflowHeld == ctl.pc # "idle" => ctl.wf = workflow

FittingCopies ==
  /\ \A v \in seen..rv : Fits(workflow, versions[v])
  /\ ctl.pc # "idle" => Fits(workflow, ctl.st)

\* The outputs are sent, and Succeeded is written, when all steps are over.
FinishesAllOver ==
  \/ ctl.pc = "outputs"
  \/ ctl.pc = "write" /\ (ctl.then = "finish" \/ ctl.st.phase = "Succeeded")
  => AllOver(ctl.st)

RanCopies ==
  /\ \A v \in seen..rv : RanLater(versions[v], Stored)
  /\ ctl.pc = "begun" => RanLater(ctl.st, Stored)

\* What has been dispatched has been so in its turn, and is not skipped.
DispatchedInTurn ==
  \A p \in Positions :
    prompts[p] + created[p] > 0 =>
      /\ Ran(Stored, p)
      /\ \A q \in 1..(p - 1) :
           q \in DOMAIN Stored.steps /\ Stored.steps[q].phase \in FinishedPhases

SentWhenOver == outputs > 0 => Stored.phase # "unset" /\ AllOver(Stored)

CourseInv ==
  edits = 0 =>
    /\ workflow \in Workflows
    /\ WorkflowHeld /\ FittingCopies /\ FinishesAllOver /\ RanCopies
    /\ DispatchedInTurn /\ SentWhenOver

-----------------------------------------------------------------------------
(* What a move of the run keeps.                                           *)

\* The numbers in a status.
LEMMA StatusNumbers ==
  ASSUME NEW st \in Status
  PROVE  st.cur \in Nat /\ DOMAIN st.steps \subseteq Nat \ {0}
BY StatusSteps DEF Status

\* What one step does to a result that is not its own is nothing.
LEMMA StepTurns ==
  ASSUME NEW wf, NEW old, NEW new, StepMoves(wf, old, new)
  PROVE  \E to \in {"Running", "Succeeded", "Failed", "Skipped"} :
           Turns(old, new, At(wf, old), to)
BY DEF StepMoves

\* In its turn: the step a run is at, wherever CurrentStep points.
LEMMA AtCurrent ==
  ASSUME NEW wf, NEW old \in Status, Good(old), At(wf, old) \in DOMAIN old.steps,
         old.steps[At(wf, old)].phase \in {"Pending", "Running"}
  PROVE  At(wf, old) = old.cur + 1
<1>1. old.cur \in Nat
  BY StatusNumbers
<1>2. CASE wf.mode = "simple"
  <2>1. At(wf, old) = 1
    BY <1>2 DEF At
  <2>2. ~(1 <= old.cur)
    BY <2>1 DEF Good, FinishedPhases
  <2> QED BY <1>1, <2>1, <2>2
<1> QED BY <1>2 DEF At

LEMMA MovesGood ==
  ASSUME NEW wf, NEW old \in Status, NEW new \in Status, Good(old),
         Moves(wf, old, new)
  PROVE  Good(new)
<1>0. old.cur \in Nat /\ DOMAIN old.steps \subseteq Nat \ {0}
  BY StatusNumbers
<1>1. CASE RunMoves(wf, old, new)
  <2>1. CASE /\ old.phase = "unset" /\ new.phase = "Running" /\ new.cur = 0
             /\ \A q \in DOMAIN new.steps : SameResult(PendingResult("any"), new.steps[q])
    <3>1. \A q \in DOMAIN new.steps : new.steps[q].phase = "Pending" /\ new.steps[q].text = "none"
      BY <2>1 DEF SameResult, PendingResult
    <3>2. DOMAIN new.steps \subseteq Nat \ {0}
      BY StatusNumbers
    <3> QED BY <2>1, <3>1, <3>2 DEF Good
  <2>2. CASE /\ SameResults(old, new) /\ new.cur = old.cur
             /\ new.phase = "unset" => old.phase = "unset"
    BY <2>2 DEF SameResults, SameResult, Good
  <2>3. CASE /\ MayAdvance(old) /\ SameResults(old, new) /\ new.cur = old.cur + 1
             /\ new.phase = old.phase
    <3>1. /\ old.cur + 1 \in DOMAIN old.steps /\ new.phase # "unset"
          /\ old.steps[old.cur + 1].phase \in FinishedPhases
      BY <2>3 DEF MayAdvance, FinishedPhases
    <3>2. \A q \in DOMAIN old.steps : q <= old.cur + 1 => q <= old.cur \/ q = old.cur + 1
      BY <1>0
    <3>3. \A q \in DOMAIN old.steps : q > old.cur + 1 + 1 => q > old.cur + 1
      BY <1>0
    <3> QED BY <2>3, <3>1, <3>2, <3>3 DEF SameResults, SameResult, Good
  <2> QED BY <1>1, <2>1, <2>2, <2>3 DEF RunMoves, SameCourse
<1>2. CASE StepMoves(wf, old, new)
  <2> DEFINE p == At(wf, old)
  <2>1. /\ p \in DOMAIN old.steps /\ old.phase = "Running" /\ new.phase \in {"Running", "Failed"}
    BY <1>2 DEF StepMoves, SameCourse
  <2>2. PICK to \in {"Running", "Succeeded", "Failed", "Skipped"} :
          /\ Turns(old, new, p, to)
          /\ new.cur = old.cur \/ (new.cur = old.cur + 1 /\ to # "Running")
          /\ to = "Running" => old.steps[p].phase \in {"Pending", "Running"}
    BY <1>2 DEF StepMoves, SameCourse
  <2>3. p = old.cur + 1
    <3>1. wf.mode # "simple" \/ old.steps[p].phase \in {"Pending", "Running"}
      BY <1>2 DEF StepMoves
    <3>2. wf.mode # "simple" => p = old.cur + 1
      BY DEF At
    <3> QED BY <2>1, <3>1, <3>2, AtCurrent
  <2>4. /\ DOMAIN new.steps = DOMAIN old.steps /\ new.steps[p].phase = to
        /\ to = "Running" => new.steps[p].text = old.steps[p].text
        /\ \A q \in DOMAIN old.steps : q # p =>
              new.steps[q].phase = old.steps[q].phase /\ new.steps[q].text = old.steps[q].text
    BY <2>2 DEF Turns, SameResult
  <2> HIDE DEF p
  <2>5. SUFFICES ASSUME NEW q \in DOMAIN old.steps
                 PROVE  /\ q <= new.cur => new.steps[q].phase \in FinishedPhases
                        /\ q > new.cur + 1 => new.steps[q].phase = "Pending"
                        /\ new.steps[q].phase \in {"Pending", "Running"} =>
                             new.steps[q].text = "none"
    BY <2>1, <2>4 DEF Good
  <2>6. CASE q = p
    <3>1. ~(q <= old.cur) /\ ~(q > new.cur + 1)
      BY <1>0, <2>2, <2>3, <2>6
    <3>2. q <= new.cur => to # "Running"
      BY <2>2, <3>1
    <3>3. to = "Running" => old.steps[p].text = "none"
      BY <2>1, <2>2 DEF Good
    <3> QED BY <2>4, <2>6, <3>1, <3>2, <3>3 DEF FinishedPhases
  <2>7. CASE q # p
    <3>1. (q <= new.cur => q <= old.cur) /\ (q > new.cur + 1 => q > old.cur + 1)
      BY <1>0, <2>2, <2>3, <2>7
    <3> QED BY <2>4, <2>7, <3>1 DEF Good
  <2> QED BY <2>6, <2>7
<1> QED BY <1>1, <1>2 DEF Moves

LEMMA MovesLater ==
  ASSUME NEW wf, NEW old, NEW new, Moves(wf, old, new)
  PROVE  Later(old, new)
<1>1. CASE RunMoves(wf, old, new)
  BY <1>1 DEF RunMoves, Later, SameResults, SameResult, SameCourse
<1>2. CASE StepMoves(wf, old, new)
  BY <1>2 DEF StepMoves, Later, Turns, SameResult, SameCourse, FinishedPhases
<1> QED BY <1>1, <1>2 DEF Moves

LEMMA LaterTwice ==
  ASSUME NEW a, NEW b, NEW c, Later(a, b), Later(b, c)
  PROVE  Later(a, c)
BY DEF Later

LEMMA RanTwice ==
  ASSUME NEW a, NEW b, NEW c, RanLater(a, b), RanLater(b, c)
  PROVE  RanLater(a, c)
BY DEF RanLater, Ran

LEMMA WorkflowSteps ==
  ASSUME NEW wf \in Workflows
  PROVE  /\ wf \in Workflow /\ wf.mode # "deleted" /\ Len(wf.steps) \in Nat
         /\ DOMAIN wf.steps = 1..Len(wf.steps) /\ 1..Len(wf.steps) \subseteq Positions
         /\ wf.mode = "simple" => DOMAIN wf.steps = {1}
<1>1. /\ wf \in Workflow /\ wf.mode # "deleted" /\ Len(wf.steps) <= MaxSteps
      /\ wf.mode = "simple" => Len(wf.steps) = 1
  BY WorkflowsAssumption
<1>2. wf.steps \in Seq(StepSpec)
  BY <1>1 DEF Workflow
<1>3. DOMAIN wf.steps = 1..Len(wf.steps) /\ Len(wf.steps) \in Nat
  BY <1>2, LenProperties
<1>4. 1..Len(wf.steps) \subseteq Positions
  BY <1>1, <1>3, MaxStepsAssumption DEF Positions
<1>5. 1..1 = {1}
  OBVIOUS
<1> QED BY <1>1, <1>3, <1>4, <1>5

\* The condition of a step is read from a result the step does not write.
LEMMA ConditionElsewhere ==
  ASSUME NEW wf, NEW old, NEW new, NEW p \in DOMAIN old.steps, NEW to, Good(old),
         old.steps[p].phase \in {"Pending", "Running"}, NEW step,
         ConditionHolds(old, step), Turns(old, new, p, to)
  PROVE  ConditionHolds(new, step)
<1>1. old.steps[p].text = "none"
  BY DEF Good
<1>2. step.cond # p
  BY <1>1 DEF ConditionHolds
<1> QED BY <1>2 DEF Turns, SameResult, ConditionHolds

\* A run whose Workflow is not edited keeps fitting it.
LEMMA RunMovesFit ==
  ASSUME NEW wf \in Workflows, NEW old \in Status, NEW new \in Status, Good(old),
         Fits(wf, old), RunMoves(wf, old, new),
         new.phase = "Succeeded" => AllOver(new)
  PROVE  Fits(wf, new)
<1>0. old.cur \in Nat /\ wf.mode # "deleted"
  BY StatusNumbers, WorkflowSteps
<1>1. CASE /\ new.phase = "Running" /\ new.cur = 0
           /\ DOMAIN new.steps = 1..Len(wf.steps)
           /\ \A q \in DOMAIN new.steps : SameResult(PendingResult("any"), new.steps[q])
  BY <1>1 DEF SameResult, PendingResult, Fits
<1> DEFINE Rest == /\ SameResults(old, new) /\ old.phase # "unset"
                   /\ new.phase = old.phase \/ old.phase = "Running"
<1>2. ASSUME Rest
      PROVE  /\ DOMAIN new.steps = 1..Len(wf.steps)
             /\ \A p \in DOMAIN new.steps :
                  new.steps[p].phase = "Failed" /\ new.phase # "Failed" => wf.steps[p].cont
             /\ \A step : ConditionHolds(old, step) => ConditionHolds(new, step)
  BY <1>2 DEF SameResults, SameResult, Fits, ConditionHolds
<1>3. CASE Rest /\ new.cur = old.cur
  BY <1>2, <1>3 DEF SameResults, SameResult, Fits
<1>4. CASE Rest /\ wf.mode # "simple" /\ MayAdvance(old) /\ new.cur = old.cur + 1
  <2>1. \A p \in DOMAIN old.steps : p = new.cur + 1 => new.steps[p].phase = "Pending"
    BY <1>0, <1>4 DEF Good, SameResults, SameResult
  <2> QED BY <1>2, <1>4, <2>1 DEF Fits, SameResults
<1>5. CASE new.phase = "unset"
  BY <1>5 DEF Fits
<1> QED BY <1>0, <1>1, <1>3, <1>4, <1>5 DEF RunMoves, SameCourse, MayAdvance

LEMMA StepMovesFit ==
  ASSUME NEW wf \in Workflows, NEW old \in Status, NEW new \in Status, Good(old),
         Fits(wf, old), StepMoves(wf, old, new)
  PROVE  Fits(wf, new)
<1> DEFINE p == At(wf, old)
           step == wf.steps[p]
<1>0. old.cur \in Nat /\ old.phase = "Running" /\ p \in DOMAIN old.steps
  BY StatusNumbers DEF StepMoves
<1>1. /\ DOMAIN old.steps = 1..Len(wf.steps) /\ (wf.mode = "simple" => old.cur = 0)
      /\ \A q \in DOMAIN old.steps : old.steps[q].phase = "Failed" => wf.steps[q].cont
  BY <1>0 DEF Fits
<1>2. p = old.cur + 1
  BY <1>1 DEF At
<1>3. PICK to \in {"Running", "Succeeded", "Failed", "Skipped"} :
        /\ Turns(old, new, p, to) /\ new.phase \in {"Running", "Failed"}
        /\ to = "Failed" /\ new.phase # "Failed" => step.cont
        /\ \/ new.cur = old.cur + 1 /\ wf.mode # "simple"
           \/ /\ new.cur = old.cur
              /\ wf.mode # "simple" =>
                   ConditionHolds(old, step) /\ old.steps[p].phase \in {"Pending", "Running"}
  BY <1>0 DEF StepMoves, SameCourse
<1>4. /\ DOMAIN new.steps = DOMAIN old.steps /\ new.steps[p].phase = to
      /\ \A q \in DOMAIN old.steps : q # p => new.steps[q].phase = old.steps[q].phase
  BY <1>3 DEF Turns, SameResult
<1> HIDE DEF p
<1>5. \A q \in DOMAIN new.steps :
        new.steps[q].phase = "Failed" /\ new.phase # "Failed" => wf.steps[q].cont
  BY <1>1, <1>3, <1>4
<1>6. wf.mode = "simple" => new.cur = 0
  BY <1>1, <1>3
<1>7. ASSUME wf.mode # "simple", new.cur + 1 \in DOMAIN new.steps,
             new.steps[new.cur + 1].phase # "Pending"
      PROVE  ConditionHolds(new, wf.steps[new.cur + 1])
  <2>1. CASE new.cur = old.cur + 1
    <3>1. new.cur + 1 # p /\ new.cur + 1 > old.cur + 1
      BY <1>0, <1>2, <2>1
    <3>2. old.steps[new.cur + 1].phase = "Pending"
      BY <1>4, <1>7, <3>1 DEF Good
    <3> QED BY <1>4, <1>7, <3>1, <3>2
  <2>2. CASE new.cur = old.cur
    <3>1. ConditionHolds(old, step) /\ old.steps[p].phase \in {"Pending", "Running"}
      BY <1>0, <1>3, <1>7, <2>2
    <3>2. ConditionHolds(new, step)
      BY <1>0, <1>3, <3>1, ConditionElsewhere
    <3> QED BY <1>2, <2>2, <3>2
  <2> QED BY <1>3, <2>1, <2>2
<1> QED BY <1>1, <1>3, <1>4, <1>5, <1>6, <1>7 DEF Fits

LEMMA MovesFit ==
  ASSUME NEW wf \in Workflows, NEW old \in Status, NEW new \in Status, Good(old),
         Fits(wf, old), Moves(wf, old, new),
         new.phase = "Succeeded" => AllOver(new)
  PROVE  Fits(wf, new)
BY RunMovesFit, StepMovesFit DEF Moves

\* Only a step that was not started is skipped.
LEMMA SkipsPending ==
  ASSUME NEW wf, NEW old, Good(old), Fits(wf, old), old.phase = "Running",
         wf.mode # "simple", At(wf, old) \in DOMAIN old.steps,
         ~ConditionHolds(old, wf.steps[At(wf, old)])
  PROVE  old.steps[At(wf, old)].phase = "Pending"
BY DEF Fits, At

LEMMA MovesRan ==
  ASSUME NEW wf, NEW old, NEW new, Good(old), Fits(wf, old), Moves(wf, old, new)
  PROVE  RanLater(old, new)
<1>1. CASE RunMoves(wf, old, new)
  BY <1>1 DEF RunMoves, Good, RanLater, Ran, SameResults, SameResult, SameCourse
<1>2. CASE StepMoves(wf, old, new)
  <2>1. \A q \in DOMAIN old.steps : q # At(wf, old) =>
          new.steps[q].phase = old.steps[q].phase
    BY <1>2 DEF StepMoves, Turns, SameResult
  <2>2. /\ DOMAIN new.steps = DOMAIN old.steps
        /\ \/ old.steps[At(wf, old)].phase = "Pending"
           \/ new.steps[At(wf, old)].phase \in {"Running", "Succeeded", "Failed"}
    BY <1>2, SkipsPending DEF StepMoves, Turns
  <2> QED BY <2>1, <2>2 DEF RanLater, Ran
<1> QED BY <1>1, <1>2 DEF Moves

-----------------------------------------------------------------------------
(* A move of the stored run is a step of its abstract life.                *)

Phases(st) == [p \in DOMAIN st.steps |-> st.steps[p].phase]

LEMMA SamePhases ==
  ASSUME NEW old, NEW new, SameResults(old, new)
  PROVE  Phases(new) = Phases(old)
BY DEF SameResults, SameResult, Phases

LEMMA OnePhase ==
  ASSUME NEW old, NEW new, NEW p \in DOMAIN old.steps, NEW to, Turns(old, new, p, to)
  PROVE  Phases(new) = [Phases(old) EXCEPT ![p] = to]
<1>1. /\ DOMAIN new.steps = DOMAIN old.steps
      /\ \A q \in DOMAIN old.steps :
           new.steps[q].phase = IF q = p THEN to ELSE old.steps[q].phase
  BY DEF Turns, SameResult
<1>2. Phases(new) = [q \in DOMAIN old.steps |-> IF q = p THEN to ELSE Phases(old)[q]]
  BY <1>1 DEF Phases
<1>3. Phases(old) = [q \in DOMAIN old.steps |-> old.steps[q].phase]
  BY DEF Phases
<1>4. [Phases(old) EXCEPT ![p] = to]
        = [q \in DOMAIN old.steps |-> IF q = p THEN to ELSE Phases(old)[q]]
  BY <1>3
<1> QED BY <1>2, <1>4

\* The results of the abstract run.
LEMMA LifecycleResults ==
  ASSUME NEW p
  PROVE  /\ \A from : Lifecycle!At(p, from) <=>
              /\ p = Stored.cur + 1 /\ p \in DOMAIN Stored.steps
              /\ Stored.steps[p].phase \in from
         /\ \A to : Lifecycle!Becomes(p, to) <=>
              Phases(Stored') = [Phases(Stored) EXCEPT ![p] = to]
BY DEF Lifecycle!At, Lifecycle!Becomes, Phases

LEMMA RunMoveLives ==
  ASSUME workflow \in Workflows, Stored \in Status, Good(Stored),
         Fits(workflow, Stored), RunMoves(workflow, Stored, Stored'),
         Stored'.phase = "Succeeded" => AllOver(Stored')
  PROVE  [Lifecycle!Next]_(Lifecycle!lifecycle)
<1>0. /\ workflow.mode # "deleted" /\ Len(workflow.steps) \in 0..MaxSteps
      /\ 1..Len(workflow.steps) \subseteq 1..MaxSteps /\ Stored.cur \in Nat
  BY StatusNumbers, WorkflowSteps, WorkflowsAssumption, MaxStepsAssumption DEF Positions
<1>1. CASE SameResults(Stored, Stored') /\ SameCourse(Stored, Stored')
  <2>1. Phases(Stored') = Phases(Stored)
    BY <1>1, SamePhases
  <2> QED BY <1>1, <2>1 DEF Lifecycle!lifecycle, SameCourse, Phases
<1>2. CASE /\ Stored.phase = "unset"
           /\ Stored'.phase = "Running" /\ Stored'.cur = 0
           /\ DOMAIN Stored'.steps = 1..Len(workflow.steps)
           /\ \A q \in DOMAIN Stored'.steps :
                SameResult(PendingResult("any"), Stored'.steps[q])
  <2>1. Phases(Stored') = [q \in 1..Len(workflow.steps) |-> "Pending"]
    BY <1>2 DEF Phases, SameResult, PendingResult
  <2>2. Stored.cur = 0
    BY <1>2 DEF Good
  <2>3. Lifecycle!Start
    BY <1>0, <1>2, <2>1, <2>2 DEF Lifecycle!Start, Phases
  <2> QED BY <2>3 DEF Lifecycle!Next
<1>3. CASE /\ Stored.phase = "Running" /\ Stored'.phase = "Failed"
           /\ Stored'.cur = Stored.cur /\ SameResults(Stored, Stored')
  <2>1. Phases(Stored') = Phases(Stored)
    BY <1>3, SamePhases
  <2>2. Lifecycle!Abort
    BY <1>3, <2>1 DEF Lifecycle!Abort, Phases
  <2> QED BY <2>2 DEF Lifecycle!Next
<1>4. CASE /\ Stored.phase = "Running" /\ Stored'.phase = "Succeeded"
           /\ Stored'.cur = Stored.cur /\ SameResults(Stored, Stored')
  <2>1. Phases(Stored') = Phases(Stored)
    BY <1>4, SamePhases
  <2>2. \A p \in DOMAIN Stored.steps : Stored.steps[p].phase \in FinishedPhases
    BY <1>4 DEF AllOver, SameResults, SameResult
  <2>3. Lifecycle!Succeed
    BY <1>4, <2>1, <2>2 DEF Lifecycle!Succeed, Lifecycle!Finished, FinishedPhases, Phases
  <2> QED BY <2>3 DEF Lifecycle!Next
<1>5. CASE /\ MayAdvance(Stored) /\ Stored'.phase = Stored.phase
           /\ Stored'.cur = Stored.cur + 1 /\ SameResults(Stored, Stored')
  <2> DEFINE p == Stored.cur + 1
  <2>1. Phases(Stored') = Phases(Stored)
    BY <1>5, SamePhases
  <2>2. p \in 1..MaxSteps
    BY <1>0, <1>5 DEF MayAdvance, Fits
  <2>3. \/ Stored.phase = "Running" /\ Lifecycle!At(p, {"Succeeded"})
        \/ Stored.phase = "Failed" /\ Lifecycle!At(p, {"Failed"})
    BY <1>5, LifecycleResults DEF MayAdvance
  <2>4. Lifecycle!AdvanceStep(p)
    BY <1>5, <2>1, <2>3 DEF Lifecycle!AdvanceStep, Phases
  <2> QED BY <2>2, <2>4 DEF Lifecycle!Next, Lifecycle!StepAction
<1> QED BY <1>0, <1>1, <1>2, <1>3, <1>4, <1>5 DEF RunMoves

LEMMA StepMoveLives ==
  ASSUME workflow \in Workflows, Stored \in Status, Good(Stored),
         Fits(workflow, Stored), StepMoves(workflow, Stored, Stored')
  PROVE  [Lifecycle!Next]_(Lifecycle!lifecycle)
<1>0. PICK p : p = Stored.cur + 1
  OBVIOUS
<1>1. /\ Stored.phase = "Running" /\ DOMAIN Stored.steps = 1..Len(workflow.steps)
      /\ workflow.mode = "simple" => Stored.cur = 0
  BY DEF StepMoves, Fits
<1>2. At(workflow, Stored) = p /\ p \in DOMAIN Stored.steps
  BY <1>0, <1>1 DEF At, StepMoves
<1>3. p \in 1..MaxSteps
  BY <1>1, <1>2, WorkflowSteps DEF Positions
<1>4. PICK to \in {"Running", "Succeeded", "Failed", "Skipped"} : Turns(Stored, Stored', p, to)
  BY <1>2, StepTurns
<1>5. Stored'.steps[p].phase = to
  BY <1>4 DEF Turns
<1>6. Lifecycle!Becomes(p, to)
  BY <1>2, <1>4, OnePhase, LifecycleResults
<1>7. ASSUME NEW from, Stored.steps[p].phase \in from
      PROVE  Lifecycle!At(p, from)
  BY <1>0, <1>2, <1>7, LifecycleResults
<1>8. CASE to = "Skipped"
  <2>1. /\ Stored.steps[p].phase = "Pending"
        /\ Stored'.phase = Stored.phase /\ Stored'.cur = Stored.cur + 1
    BY <1>0, <1>1, <1>2, <1>5, <1>8, SkipsPending DEF StepMoves, Turns
  <2>2. Lifecycle!SkipStep(p)
    BY <1>1, <1>6, <1>7, <1>8, <2>1 DEF Lifecycle!SkipStep
  <2> QED BY <1>3, <2>2 DEF Lifecycle!Next, Lifecycle!StepAction
<1>9. CASE to = "Running"
  <2>1. /\ Stored.steps[p].phase \in {"Pending", "Running"}
        /\ Stored'.phase = Stored.phase /\ Stored'.cur = Stored.cur
    BY <1>2, <1>5, <1>9 DEF StepMoves, Turns, SameCourse
  <2>2. CASE Stored.steps[p].phase = "Pending"
    <3>1. Lifecycle!StartStep(p)
      BY <1>1, <1>6, <1>7, <1>9, <2>1, <2>2 DEF Lifecycle!StartStep
    <3> QED BY <1>3, <3>1 DEF Lifecycle!Next, Lifecycle!StepAction
  <2>3. CASE Stored.steps[p].phase = "Running"
    <3>1. Phases(Stored') = Phases(Stored)
      <4>1. Phases(Stored') = [Phases(Stored) EXCEPT ![p] = to]
        BY <1>6, LifecycleResults
      <4> QED BY <1>9, <2>3, <4>1 DEF Phases
    <3> QED BY <2>1, <3>1 DEF Lifecycle!lifecycle, Phases
  <2> QED BY <2>1, <2>2, <2>3
<1>10. CASE to = "Succeeded"
  <2>1. /\ Stored.steps[p].phase = "Running" /\ Stored'.phase = Stored.phase
        /\ Stored'.cur \in {Stored.cur, Stored.cur + 1}
    BY <1>2, <1>5, <1>10 DEF StepMoves, Turns
  <2>2. Lifecycle!SucceedStep(p)
    BY <1>1, <1>6, <1>7, <1>10, <2>1 DEF Lifecycle!SucceedStep
  <2> QED BY <1>3, <2>2 DEF Lifecycle!Next, Lifecycle!StepAction
<1>11. CASE to = "Failed"
  <2>1. /\ Stored.steps[p].phase = "Running"
        /\ \/ Stored'.phase = Stored.phase /\ Stored'.cur = Stored.cur + 1
           \/ Stored'.phase = "Failed" /\ Stored'.cur = Stored.cur
    BY <1>2, <1>5, <1>11 DEF StepMoves, Turns
  <2>2. Lifecycle!PassStep(p) \/ Lifecycle!FailStep(p)
    BY <1>1, <1>6, <1>7, <1>11, <2>1 DEF Lifecycle!PassStep, Lifecycle!FailStep
  <2> QED BY <1>3, <2>2 DEF Lifecycle!Next, Lifecycle!StepAction
<1> QED BY <1>8, <1>9, <1>10, <1>11

-----------------------------------------------------------------------------
(* The edits of the reconciler are moves.                                  *)

LEMMA OneResultTurns ==
  ASSUME NEW st \in Status, NEW p \in DOMAIN st.steps, NEW r, NEW new,
         new.steps = [st.steps EXCEPT ![p] = r],
         r.phase = "Running" => r.text = st.steps[p].text
  PROVE  Turns(st, new, p, r.phase)
<1>1. DOMAIN new.steps = DOMAIN st.steps
  BY StatusSteps
<1>2. \A q \in DOMAIN st.steps : q # p => new.steps[q] = st.steps[q]
  BY StatusSteps
<1>3. new.steps[p] = r
  BY StatusSteps
<1> QED BY <1>1, <1>2, <1>3 DEF Turns, SameResult

LEMMA SameStepsSame ==
  ASSUME NEW old, NEW new, new.steps = old.steps
  PROVE  SameResults(old, new)
BY DEF SameResults, SameResult

\* The phase of one result.
LEMMA PhaseTurns ==
  ASSUME NEW st \in Status, NEW p \in DOMAIN st.steps, NEW x \in StepPhases
  PROVE  /\ [st EXCEPT !.steps[p].phase = x] \in Status
         /\ Turns(st, [st EXCEPT !.steps[p].phase = x], p, x)
         /\ SameCourse(st, [st EXCEPT !.steps[p].phase = x])
<1> DEFINE r == [st.steps[p] EXCEPT !.phase = x]
           new == [st EXCEPT !.steps[p].phase = x]
<1>1. st.steps[p] \in StepResult
  BY StatusSteps
<1>2. r.phase = x /\ r.text = st.steps[p].text
  BY <1>1 DEF StepResult
<1>3. new.steps = [st.steps EXCEPT ![p] = r] /\ new.phase = st.phase /\ new.cur = st.cur
  BY DEF Status
<1>4. new \in Status
  BY ResultEdits
<1> HIDE DEF r, new
<1>5. Turns(st, new, p, x)
  BY <1>2, <1>3, OneResultTurns
<1> QED BY <1>3, <1>4, <1>5 DEF SameCourse, new

\* Edits of the run on top of one of a result.
LEMMA RunEditsCourse ==
  ASSUME NEW st \in Status
  PROVE  /\ Advance(st).steps = st.steps /\ Advance(st).phase = st.phase
         /\ Advance(st).cur = st.cur + 1
         /\ SucceedRun(st).steps = st.steps /\ SucceedRun(st).phase = "Succeeded"
         /\ SucceedRun(st).cur = st.cur
         /\ \A why : /\ FailRun(st, why).steps = st.steps
                     /\ FailRun(st, why).phase = "Failed" /\ FailRun(st, why).cur = st.cur
BY DEF Status, Advance, SucceedRun, FailRun

LEMMA TurnsThen ==
  ASSUME NEW old, NEW mid, NEW new, NEW p, NEW to, Turns(old, mid, p, to),
         new.steps = mid.steps
  PROVE  Turns(old, new, p, to)
BY DEF Turns, SameResult

LEMMA PhaseEditsTurn ==
  ASSUME NEW st \in Status, NEW p \in DOMAIN st.steps
  PROVE  /\ Turns(st, MarkRunning(st, p), p, "Running") /\ SameCourse(st, MarkRunning(st, p))
         /\ Turns(st, SkipResult(st, p), p, "Skipped")
         /\ SkipResult(st, p).phase = st.phase /\ SkipResult(st, p).cur = st.cur + 1
         /\ Turns(st, PassFailedStep(st, p), p, "Failed")
         /\ PassFailedStep(st, p).phase = st.phase /\ PassFailedStep(st, p).cur = st.cur + 1
         /\ \A why : /\ Turns(st, FailStep(st, p, why), p, "Failed")
                     /\ FailStep(st, p, why).phase = "Failed"
                     /\ FailStep(st, p, why).cur = st.cur
<1> DEFINE to(x) == [st EXCEPT !.steps[p].phase = x]
<1>1. \A x \in StepPhases : /\ to(x) \in Status /\ Turns(st, to(x), p, x)
                            /\ SameCourse(st, to(x))
  BY PhaseTurns
<1>2. \A x \in StepPhases : /\ Turns(st, Advance(to(x)), p, x)
                            /\ Advance(to(x)).phase = st.phase
                            /\ Advance(to(x)).cur = st.cur + 1
  BY <1>1, RunEditsCourse, TurnsThen DEF SameCourse
<1>3. ASSUME NEW x \in StepPhases, NEW why
      PROVE  /\ Turns(st, FailRun(to(x), why), p, x)
             /\ FailRun(to(x), why).phase = "Failed"
             /\ FailRun(to(x), why).cur = st.cur
  <2>1. to(x) \in Status /\ Turns(st, to(x), p, x) /\ to(x).cur = st.cur
    BY <1>1 DEF SameCourse
  <2> HIDE DEF to
  <2> QED BY <2>1, RunEditsCourse, TurnsThen
<1>4. {"Running", "Skipped", "Failed"} \subseteq StepPhases
  BY DEF StepPhases
<1>5. MarkRunning(st, p) = to("Running") /\ SkipResult(st, p) = Advance(to("Skipped"))
      /\ PassFailedStep(st, p) = Advance(to("Failed"))
      /\ \A why : FailStep(st, p, why) = FailRun(to("Failed"), why)
  BY DEF MarkRunning, SkipResult, PassFailedStep, FailStep
<1> HIDE DEF to
<1> QED BY <1>1, <1>2, <1>3, <1>4, <1>5

\* What else is written to a result.
LEMMA ResultEditsTurn ==
  ASSUME NEW st \in Status, NEW p \in DOMAIN st.steps
  PROVE  /\ \A x, f, es : /\ Turns(st, Complete(st, p, x, f, es), p, "Succeeded")
                          /\ SameCourse(st, Complete(st, p, x, f, es))
         /\ st.steps[p].phase = "Running" =>
              /\ Turns(st, SetSession(st, p), p, "Running")
              /\ SameCourse(st, SetSession(st, p))
              /\ \A j : Turns(st, SetJob(st, p, j), p, "Running")
                          /\ SameCourse(st, SetJob(st, p, j))
<1>1. st.steps[p] \in StepResult
  BY StatusSteps
<1>2. ASSUME NEW r, r.phase = "Running" => r.text = st.steps[p].text,
             NEW new, new = [st EXCEPT !.steps = [st.steps EXCEPT ![p] = r]]
      PROVE  Turns(st, new, p, r.phase) /\ SameCourse(st, new)
  <2>1. new.steps = [st.steps EXCEPT ![p] = r] /\ new.phase = st.phase /\ new.cur = st.cur
    BY <1>2 DEF Status
  <2> QED BY <1>2, <2>1, OneResultTurns DEF SameCourse
<1>3. ASSUME NEW x, NEW f, NEW es
      PROVE  /\ Turns(st, Complete(st, p, x, f, es), p, "Succeeded")
             /\ SameCourse(st, Complete(st, p, x, f, es))
  <2> DEFINE r == [st.steps[p] EXCEPT !.phase = "Succeeded", !.text = x, !.from = f,
                                      !.events = es]
  <2>1. r.phase = "Succeeded"
    BY <1>1 DEF StepResult
  <2>2. Complete(st, p, x, f, es) = [st EXCEPT !.steps = [st.steps EXCEPT ![p] = r]]
    BY DEF Complete
  <2> HIDE DEF r
  <2> QED BY <1>2, <2>1, <2>2
<1>4. ASSUME st.steps[p].phase = "Running"
      PROVE  /\ Turns(st, SetSession(st, p), p, "Running")
             /\ SameCourse(st, SetSession(st, p))
             /\ \A j : Turns(st, SetJob(st, p, j), p, "Running")
                         /\ SameCourse(st, SetJob(st, p, j))
  <2> DEFINE r == [st.steps[p] EXCEPT !.session = TRUE]
             s(j) == [st.steps[p] EXCEPT !.job = j]
  <2>1. r.phase = "Running" /\ r.text = st.steps[p].text
        /\ \A j : s(j).phase = "Running" /\ s(j).text = st.steps[p].text
    BY <1>1, <1>4 DEF StepResult
  <2>2. SetSession(st, p) = [st EXCEPT !.steps = [st.steps EXCEPT ![p] = r]]
        /\ \A j : SetJob(st, p, j) = [st EXCEPT !.steps = [st.steps EXCEPT ![p] = s(j)]]
    BY DEF SetSession, SetJob
  <2> HIDE DEF r, s
  <2> QED BY <1>2, <2>1, <2>2
<1> QED BY <1>3, <1>4

\* A failed Job leaves its output and fails the step in one write.
LEMMA PartialFailTurns ==
  ASSUME NEW st \in Status, NEW p \in DOMAIN st.steps, NEW x \in Texts, NEW f \in Nat,
         NEW es \in Seq(Entry), NEW why
  PROVE  LET new == FailStep(Partial(st, p, x, f, es), p, why) IN
         Turns(st, new, p, "Failed") /\ new.phase = "Failed" /\ new.cur = st.cur
<1> DEFINE r   == [st.steps[p] EXCEPT !.text = x, !.from = f, !.events = es]
           mid == Partial(st, p, x, f, es)
           new == FailStep(mid, p, why)
<1>1. mid \in Status
  BY ResultEdits
<1>2. mid.steps = [st.steps EXCEPT ![p] = r] /\ mid.cur = st.cur
  BY DEF Partial, Status
<1> HIDE DEF mid, r
<1>3. DOMAIN mid.steps = DOMAIN st.steps /\ \A q \in DOMAIN st.steps : q # p => mid.steps[q] = st.steps[q]
  BY <1>2
<1>4. Turns(mid, new, p, "Failed") /\ new.phase = "Failed" /\ new.cur = mid.cur
  BY <1>1, <1>3, PhaseEditsTurn
<1> HIDE DEF new
<1>5. Turns(st, new, p, "Failed")
  BY <1>3, <1>4 DEF Turns, SameResult
<1> QED BY <1>2, <1>4, <1>5 DEF new, mid

-----------------------------------------------------------------------------
(* What a reconcile that has begun goes on to write.                       *)

EditMoves ==
  \E st, then : /\ WriteStatus(st, then) /\ Moves(ctl.wf, ctl.st, st)
                /\ Leads(ctl.wf, st, then) /\ st.phase # "Succeeded"

LEMMA Returns ==
  ASSUME NEW st, WriteStatus(st, "return"), Moves(ctl.wf, ctl.st, st),
         st.phase \notin {"unset", "Succeeded"}
  PROVE  EditMoves
BY DEF EditMoves, Leads

\* A reconcile at a step of a run that goes on.
LEMMA AtStepCourse ==
  ASSUME TypeOK, ControlInFlight, AtStep
  PROVE  /\ ctl.st \in Status /\ ctl.st.phase = "Running" /\ ctl.st.cur \in Nat
         /\ Pos = At(ctl.wf, ctl.st) /\ Pos \in DOMAIN ctl.wf.steps
         /\ Pos \in DOMAIN ctl.st.steps
         /\ Step = ctl.wf.steps[At(ctl.wf, ctl.st)]
         /\ Result = ctl.st.steps[At(ctl.wf, ctl.st)]
         /\ Simple <=> ctl.wf.mode = "simple"
         /\ ctl.wf.mode # "simple" => Pos = ctl.st.cur + 1
<1>1. ctl.st \in Status /\ ctl.st.phase # "unset" /\ ~Terminal(ctl.st)
  BY DEF TypeOK, ControlTypeOK, Control, AtStep, Executing, Begun, ControlInFlight
<1>2. ctl.st.phase = "Running" /\ ctl.st.cur \in Nat
  BY <1>1 DEF Status, RunPhases, Terminal, TerminalPhases
<1> QED BY <1>1, <1>2 DEF AtStep, Pos, At, Simple, Step, Result

\* The moves of a step that is selected and Running.
LEMMA RunningMoves ==
  ASSUME TypeOK, ControlInFlight, Selected, Result.phase = "Running",
         NEW new
  PROVE  /\ Turns(ctl.st, new, Pos, "Running") /\ SameCourse(ctl.st, new) =>
              Moves(ctl.wf, ctl.st, new)
         /\ /\ Turns(ctl.st, new, Pos, "Succeeded") /\ new.phase = ctl.st.phase
            /\ new.cur = ctl.st.cur \/ (~Simple /\ new.cur = ctl.st.cur + 1)
            => Moves(ctl.wf, ctl.st, new)
         /\ /\ Turns(ctl.st, new, Pos, "Failed") /\ new.phase = "Failed"
            /\ new.cur = ctl.st.cur
            => Moves(ctl.wf, ctl.st, new)
         /\ /\ Turns(ctl.st, new, Pos, "Failed") /\ new.phase = ctl.st.phase
            /\ ~Simple /\ Step.cont /\ new.cur = ctl.st.cur + 1
            => Moves(ctl.wf, ctl.st, new)
<1>1. AtStep /\ (Simple \/ ConditionHolds(ctl.st, Step))
  BY DEF Selected
<1> QED BY <1>1, AtStepCourse DEF Moves, StepMoves

LEMMA AbortMoves ==
  ASSUME NEW wf, NEW st \in Status, NEW why,
         st.phase = "Running" \/ (st.phase = "unset" /\ wf.mode = "deleted")
  PROVE  Moves(wf, st, FailRun(st, why))
BY RunEditsCourse, SameStepsSame DEF Moves, RunMoves

LEMMA InitMoves ==
  ASSUME NEW wf, NEW st, st.phase = "unset", wf.mode # "deleted"
  PROVE  Moves(wf, st, InitStatus(wf)) /\ InitStatus(wf).phase = "Running"
<1>1. /\ InitStatus(wf).phase = "Running" /\ InitStatus(wf).cur = 0
      /\ InitStatus(wf).steps
           = [p \in 1..Len(wf.steps) |-> PendingResult(wf.steps[p].name)]
  BY DEF InitStatus
<1>2. DOMAIN InitStatus(wf).steps = 1..Len(wf.steps)
  BY <1>1
<1>3. \A q \in DOMAIN InitStatus(wf).steps :
        SameResult(PendingResult("any"), InitStatus(wf).steps[q])
  BY <1>1 DEF SameResult, PendingResult
<1> QED BY <1>1, <1>2, <1>3 DEF Moves, RunMoves

LEMMA DispatchMoves ==
  ASSUME TypeOK, ControlInFlight, Dispatch
  PROVE  EditMoves \/ AllStepsDone
<1>1. ctl.st \in Status
  BY DEF TypeOK, ControlTypeOK, Control
<1>2. ASSUME Begun PROVE ctl.st.phase \in {"unset", "Running"}
  BY <1>1, <1>2 DEF Begun, ControlInFlight, Terminal, TerminalPhases, Status, RunPhases
<1>3. ASSUME ctl.st.phase = "Running" \/ (ctl.st.phase = "unset" /\ ctl.wf.mode = "deleted"),
             NEW why, WriteStatus(FailRun(ctl.st, why), "return")
      PROVE  EditMoves
  <2>1. FailRun(ctl.st, why).phase = "Failed"
    BY <1>1, RunEditsCourse
  <2>2. Moves(ctl.wf, ctl.st, FailRun(ctl.st, why))
    BY <1>1, <1>3, AbortMoves
  <2> QED BY <1>3, <2>1, <2>2, Returns
<1>4. CASE WorkflowMissing
  BY <1>2, <1>3, <1>4 DEF WorkflowMissing
<1>5. CASE InitializeRun
  <2>1. /\ Moves(ctl.wf, ctl.st, InitStatus(ctl.wf))
        /\ InitStatus(ctl.wf).phase = "Running"
    BY <1>5, InitMoves DEF InitializeRun
  <2> QED BY <1>5, <2>1, Returns DEF InitializeRun
<1>6. CASE NoStepResults
  BY <1>2, <1>3, <1>6 DEF NoStepResults, Executing
<1>7. CASE SkipStep
  <2>1. AtStep /\ ~Simple /\ ~ConditionHolds(ctl.st, Step)
        /\ WriteStatus(SkipResult(ctl.st, Pos), "return")
    BY <1>7 DEF SkipStep
  <2>2. /\ Turns(ctl.st, SkipResult(ctl.st, Pos), Pos, "Skipped")
        /\ SkipResult(ctl.st, Pos).phase = ctl.st.phase
        /\ SkipResult(ctl.st, Pos).cur = ctl.st.cur + 1
    BY <2>1, AtStepCourse, PhaseEditsTurn
  <2>3. Moves(ctl.wf, ctl.st, SkipResult(ctl.st, Pos))
    BY <2>1, <2>2, AtStepCourse DEF Moves, StepMoves
  <2> QED BY <2>1, <2>2, <2>3, AtStepCourse, Returns
<1>8. CASE StartStep
  <2>1. AtStep /\ (Simple \/ ConditionHolds(ctl.st, Step)) /\ Result.phase = "Pending"
        /\ WriteStatus(MarkRunning(ctl.st, Pos), "return")
    BY <1>8 DEF StartStep, Selected
  <2>2. /\ Turns(ctl.st, MarkRunning(ctl.st, Pos), Pos, "Running")
        /\ SameCourse(ctl.st, MarkRunning(ctl.st, Pos))
    BY <2>1, AtStepCourse, PhaseEditsTurn
  <2>3. Moves(ctl.wf, ctl.st, MarkRunning(ctl.st, Pos))
    BY <2>1, <2>2, AtStepCourse DEF Moves, StepMoves
  <2>4. MarkRunning(ctl.st, Pos).phase = "Running"
    BY <2>1, <2>2, AtStepCourse DEF SameCourse
  <2> QED BY <2>1, <2>3, <2>4, Returns
<1> QED BY <1>4, <1>5, <1>6, <1>7, <1>8 DEF Dispatch

\* A step that fails, and with continueOnError the run moves on behind it.
LEMMA FailPiStepMoves ==
  ASSUME TypeOK, ControlInFlight, Selected, Result.phase = "Running", NEW st, NEW why,
         FailPiStep(st, why),
         Turns(ctl.st, FailStep(st, Pos, why), Pos, "Failed"),
         FailStep(st, Pos, why).phase = "Failed",
         FailStep(st, Pos, why).cur = ctl.st.cur
  PROVE  EditMoves
<1> DEFINE new == FailStep(st, Pos, why)
<1>1. Moves(ctl.wf, ctl.st, new)
  BY RunningMoves
<1>2. WriteStatus(new, "return") \/ (WriteStatus(new, "advance") /\ ~Simple)
  BY DEF FailPiStep
<1>3. ~Simple => MayAdvance(new)
  BY AtStepCourse DEF Selected, MayAdvance, Turns
<1>4. Simple <=> ctl.wf.mode = "simple"
  BY DEF Simple
<1> HIDE DEF new
<1> QED BY <1>1, <1>2, <1>3, <1>4 DEF EditMoves, Leads, new

LEMMA PiStepMoves ==
  ASSUME TypeOK, ControlInFlight, PiStep PROVE EditMoves
<1>1. Selected /\ Result.phase = "Running" /\ AtStep
  BY DEF PiStep, PiAgentUnavailable, PiPromptFails, PiEnvFails, CreateJob,
         AdoptJob, CreateJobFails, JobMissing, JobSucceeded, JobFailed, WantsJob,
         HasJob, Running, Selected
<1>2. /\ ctl.st \in Status /\ Pos \in DOMAIN ctl.st.steps /\ ctl.st.phase = "Running"
      /\ ctl.st.steps[Pos].phase = "Running" /\ (Simple <=> ctl.wf.mode = "simple")
      /\ ~Simple => Pos = ctl.st.cur + 1
      /\ Simple => Pos = 1
  BY <1>1, AtStepCourse DEF Pos
<1>3. CASE PiAgentUnavailable \/ PiPromptFails \/ PiEnvFails
             \/ CreateJobFails \/ JobMissing
  <2>1. PICK why : FailPiStep(ctl.st, why)
    BY <1>3 DEF PiAgentUnavailable, PiPromptFails, PiEnvFails, CreateJobFails, JobMissing
  <2> QED BY <1>1, <1>2, <2>1, PhaseEditsTurn, FailPiStepMoves
<1>4. CASE CreateJob \/ AdoptJob
  <2>1. WriteStatus(SetJob(ctl.st, Pos, StepJob), "return")
    BY <1>4 DEF CreateJob, AdoptJob
  <2> DEFINE new == SetJob(ctl.st, Pos, StepJob)
  <2>2. Turns(ctl.st, new, Pos, "Running") /\ SameCourse(ctl.st, new)
    BY <1>2, ResultEditsTurn
  <2> HIDE DEF new
  <2>3. Moves(ctl.wf, ctl.st, new)
    BY <1>1, <2>2, RunningMoves
  <2> QED BY <1>2, <2>1, <2>2, <2>3, Returns DEF SameCourse, new
<1>5. CASE JobSucceeded
  <2>1. PICK log \in Fetched(Answers, "other") :
          WriteStatus(Complete(ctl.st, Pos, log[1], SeenJob.step, log[2]),
                      IF Simple THEN "finish" ELSE "advance")
    BY <1>5 DEF JobSucceeded
  <2> DEFINE new == Complete(ctl.st, Pos, log[1], SeenJob.step, log[2])
  <2>2. Turns(ctl.st, new, Pos, "Succeeded") /\ SameCourse(ctl.st, new)
    BY <1>2, ResultEditsTurn
  <2>3. WriteStatus(new, IF Simple THEN "finish" ELSE "advance")
    BY <2>1
  <2> HIDE DEF new
  <2>4. Moves(ctl.wf, ctl.st, new)
    BY <1>1, <2>2, RunningMoves DEF SameCourse
  <2>5. /\ new.phase = "Running" /\ Pos \in DOMAIN new.steps /\ new.cur = ctl.st.cur
        /\ new.steps[Pos].phase = "Succeeded"
    BY <1>2, <2>2 DEF SameCourse, Turns
  <2>6. Leads(ctl.wf, new, IF Simple THEN "finish" ELSE "advance")
    BY <1>2, <2>5 DEF Leads, MayAdvance
  <2> QED BY <2>3, <2>4, <2>5, <2>6 DEF EditMoves
<1>6. CASE JobFailed
  <2>1. PICK log \in Fetched({"other"}, "none") :
          FailPiStep(Partial(ctl.st, Pos, log[1], SeenJob.step, log[2]), "step")
    BY <1>6 DEF JobFailed
  <2>2. SeenJob.step \in Nat
    BY <1>6, SeenJobType DEF JobFailed, Job
  <2>3. log[1] \in Texts /\ log[2] \in Seq(Entry)
    BY <1>6, FetchedType DEF JobFailed, Texts, Answers
  <2> QED BY <1>1, <1>2, <2>1, <2>2, <2>3, PartialFailTurns, FailPiStepMoves
<1> QED BY <1>3, <1>4, <1>5, <1>6 DEF PiStep

LEMMA AgentStepMoves ==
  ASSUME TypeOK, ControlInFlight, AgentStep PROVE EditMoves
<1>1. Selected /\ Result.phase = "Running" /\ AtStep
  BY DEF AgentStep, AgentMissing, AgentPromptFails, StartSession,
         StartSessionFails, SessionFetchFails, SessionFinished, WantsSession,
         HasSession, Running, Selected
<1>2. /\ ctl.st \in Status /\ Pos \in DOMAIN ctl.st.steps /\ ctl.st.phase = "Running"
      /\ ctl.st.steps[Pos].phase = "Running" /\ (Simple <=> ctl.wf.mode = "simple")
      /\ Simple => Pos = 1
  BY <1>1, AtStepCourse DEF Pos
<1>3. CASE SessionFinished
  <2>1. PICK text \in Texts :
          LET done == Complete(ctl.st, Pos, text, Pos, Result.events)
          IN  IF Simple THEN WriteStatus(done, "finish")
              ELSE WriteStatus(Advance(done), "return")
    BY <1>3 DEF SessionFinished
  <2> DEFINE done == Complete(ctl.st, Pos, text, Pos, Result.events)
  <2>2. Turns(ctl.st, done, Pos, "Succeeded") /\ SameCourse(ctl.st, done)
    BY <1>2, ResultEditsTurn
  <2>3. done \in Status
    <3>1. Pos \in Nat /\ Result.events \in Seq(Entry)
      BY <1>1, AtStepFacts DEF StepResult
    <3> QED BY <1>2, <3>1, ResultEdits
  <2>4. \/ Simple /\ WriteStatus(done, "finish")
        \/ ~Simple /\ WriteStatus(Advance(done), "return")
    BY <2>1
  <2> HIDE DEF done
  <2>5. CASE Simple /\ WriteStatus(done, "finish")
    <3>1. Moves(ctl.wf, ctl.st, done)
      BY <1>1, <2>2, RunningMoves DEF SameCourse
    <3>2. Leads(ctl.wf, done, "finish") /\ done.phase # "Succeeded"
      BY <1>2, <2>2, <2>5 DEF Leads, SameCourse, Turns
    <3> QED BY <2>5, <3>1, <3>2 DEF EditMoves
  <2>6. CASE ~Simple /\ WriteStatus(Advance(done), "return")
    <3>1. /\ Turns(ctl.st, Advance(done), Pos, "Succeeded")
          /\ Advance(done).phase = ctl.st.phase /\ Advance(done).cur = ctl.st.cur + 1
      BY <2>2, <2>3, RunEditsCourse, TurnsThen DEF SameCourse
    <3>2. Moves(ctl.wf, ctl.st, Advance(done))
      BY <1>1, <2>6, <3>1, RunningMoves
    <3> QED BY <1>2, <2>6, <3>1, <3>2, Returns
  <2> QED BY <2>4, <2>5, <2>6
<1>4. CASE ~SessionFinished
  <2>1. \/ WriteStatus(FailRun(ctl.st, "step"), "return")
        \/ WriteStatus(FailStep(ctl.st, Pos, "step"), "return")
        \/ ~Simple /\ Step.cont /\ WriteStatus(PassFailedStep(ctl.st, Pos), "return")
        \/ WriteStatus(SetSession(ctl.st, Pos), "return")
    BY <1>4 DEF AgentStep, AgentMissing, AgentPromptFails, StartSession,
       StartSessionFails, SessionFetchFails, FailAgentStep
  <2>2. CASE WriteStatus(FailRun(ctl.st, "step"), "return")
    BY <1>2, <2>2, AbortMoves, RunEditsCourse, Returns
  <2>3. CASE WriteStatus(FailStep(ctl.st, Pos, "step"), "return")
    <3> DEFINE new == FailStep(ctl.st, Pos, "step")
    <3>1. Turns(ctl.st, new, Pos, "Failed") /\ new.phase = "Failed" /\ new.cur = ctl.st.cur
      BY <1>2, PhaseEditsTurn
    <3> HIDE DEF new
    <3>2. Moves(ctl.wf, ctl.st, new)
      BY <1>1, <3>1, RunningMoves
    <3> QED BY <2>3, <3>1, <3>2, Returns DEF new
  <2>4. CASE ~Simple /\ Step.cont /\ WriteStatus(PassFailedStep(ctl.st, Pos), "return")
    <3> DEFINE new == PassFailedStep(ctl.st, Pos)
    <3>1. /\ Turns(ctl.st, new, Pos, "Failed") /\ new.phase = ctl.st.phase
          /\ new.cur = ctl.st.cur + 1
      BY <1>2, PhaseEditsTurn
    <3> HIDE DEF new
    <3>2. Moves(ctl.wf, ctl.st, new)
      BY <1>1, <2>4, <3>1, RunningMoves
    <3> QED BY <1>2, <2>4, <3>1, <3>2, Returns DEF new
  <2>5. CASE WriteStatus(SetSession(ctl.st, Pos), "return")
    <3> DEFINE new == SetSession(ctl.st, Pos)
    <3>1. Turns(ctl.st, new, Pos, "Running") /\ SameCourse(ctl.st, new)
      BY <1>2, ResultEditsTurn
    <3> HIDE DEF new
    <3>2. Moves(ctl.wf, ctl.st, new)
      BY <1>1, <3>1, RunningMoves
    <3> QED BY <1>2, <2>5, <3>1, <3>2, Returns DEF SameCourse, new
  <2> QED BY <2>1, <2>2, <2>3, <2>4, <2>5
<1> QED BY <1>3, <1>4

-----------------------------------------------------------------------------
(* What becomes of the copy of a reconcile.                                *)

Begins == /\ ctl.pc = "idle" /\ ctl'.pc = "begun" /\ ctl'.st = versions[seen]
          /\ ctl'.wf = workflow

Writes ==
  /\ ctl.pc = "begun" /\ ctl'.pc = "write" /\ ctl'.base = ctl.base
  /\ Moves(ctl.wf, ctl.st, ctl'.st) /\ Leads(ctl.wf, ctl'.st, ctl'.then)
  /\ ctl'.st.phase # "Succeeded"

Collects ==
  /\ ctl.pc = "begun" /\ ctl'.pc = "outputs" /\ ctl'.st = ctl.st
  /\ ctl.wf.mode # "simple" /\ ctl.st.phase # "unset"
  /\ ctl.st.cur >= Len(ctl.wf.steps)

Sends ==
  /\ ctl.pc = "outputs" /\ ctl'.pc = "write" /\ ctl'.base = ctl.base
  /\ ctl'.st = SucceedRun(ctl.st) /\ ctl'.then = "return"

\* After a write that was accepted: CurrentStep++, or succeedRun.
Advances ==
  /\ ctl.pc = "write" /\ ctl.then = "advance" /\ Stored' = ctl.st /\ rv' = rv + 1
  /\ ctl'.pc = "write" /\ ctl'.st = Advance(ctl.st) /\ ctl'.then = "return"

Finishes ==
  /\ ctl.pc = "write" /\ ctl.then = "finish" /\ Stored' = ctl.st
  /\ ctl'.pc = "outputs" /\ ctl'.st = ctl.st

LEMMA BegunMoves ==
  ASSUME TypeOK, ControlInFlight, Begun, EditMoves
  PROVE  Writes /\ ctl'.wf = ctl.wf
<1>1. PICK st, then : /\ WriteStatus(st, then) /\ Moves(ctl.wf, ctl.st, st)
                      /\ Leads(ctl.wf, st, then) /\ st.phase # "Succeeded"
  BY DEF EditMoves
<1>2. /\ ctl'.pc = "write" /\ ctl'.st = st /\ ctl'.then = then
      /\ ctl'.base = ctl.base /\ ctl'.wf = ctl.wf
  BY <1>1 DEF WriteStatus, TypeOK, ControlTypeOK, Control
<1> QED BY <1>1, <1>2 DEF Writes, Begun

LEMMA ControlMoves ==
  ASSUME TypeOK, ControlInFlight, [Next]_vars
  PROVE  \/ UNCHANGED ctl
         \/ ctl'.pc = "idle"
         \/ Begins /\ UNCHANGED storeVars
         \/ (Writes \/ Collects \/ Sends) /\ UNCHANGED storeVars /\ ctl'.wf = ctl.wf
         \/ (Advances \/ Finishes) /\ ctl'.wf = ctl.wf
<1>0. ctl \in Control
  BY DEF TypeOK, ControlTypeOK
<1>1. CASE Begin
  BY <1>1 DEF Begin, Begins, Cached, Quiet
<1>2. CASE Dispatch
  <2>1. Begun /\ UNCHANGED storeVars
    BY <1>2 DEF Dispatch, WorkflowMissing, InitializeRun, NoStepResults,
       AllStepsDone, SkipStep, StartStep, Selected, AtStep, Executing, Quiet
  <2>2. CASE EditMoves
    BY <2>1, <2>2, BegunMoves
  <2>3. CASE AllStepsDone
    <3>1. ctl'.pc = "outputs" /\ ctl'.st = ctl.st /\ ctl'.wf = ctl.wf
      BY <1>0, <2>3 DEF AllStepsDone, Control
    <3> QED BY <2>1, <2>3, <3>1 DEF AllStepsDone, Executing, Begun, Simple, Collects
  <2> QED BY <1>2, <2>2, <2>3, DispatchMoves
<1>3. CASE PiStep \/ AgentStep
  <2>1. Begun
    BY <1>3, PiStepEdits, AgentStepEdits
  <2>2. UNCHANGED storeVars
    BY <1>3 DEF PiStep, PiAgentUnavailable,
       PiPromptFails, PiEnvFails, CreateJob, AdoptJob, CreateJobFails, JobMissing,
       JobSucceeded, JobFailed, AgentStep, AgentMissing, AgentPromptFails,
       StartSession, StartSessionFails, SessionFetchFails, SessionFinished,
       PlaceJob, SendPrompt, Quiet
  <2>3. EditMoves
    BY <1>3, PiStepMoves, AgentStepMoves
  <2> QED BY <2>1, <2>2, <2>3, BegunMoves
<1>4. CASE Requeue \/ UpdateConflict \/ UpdateError
  BY <1>4 DEF Requeue, ReadError, StepOutOfRange, StepNotRunning, JobRunning,
              SessionBusy, UpdateConflict, UpdateError, Return, Idle
<1>5. CASE SendOutputs
  <2>1. /\ ctl.pc = "outputs" /\ ctl'.pc = "write" /\ ctl'.base = ctl.base
        /\ ctl'.st = SucceedRun(ctl.st) /\ ctl'.then = "return" /\ ctl'.wf = ctl.wf
    BY <1>0, <1>5 DEF SendOutputs, WriteStatus, Control
  <2> QED BY <1>5, <2>1 DEF SendOutputs, Sends
<1>6. CASE UpdateOk
  <2>1. rv' = rv + 1 /\ Stored' = ctl.st /\ ctl.pc = "write"
    BY <1>6, PersistStores DEF TypeOK, UpdateOk, Writing
  <2>2. CASE ctl.then = "return"
    BY <1>6, <2>2 DEF UpdateOk, AfterWrite, Idle
  <2>3. CASE ctl.then = "advance"
    <3>1. ctl'.pc = "write" /\ ctl'.st = Advance(ctl.st) /\ ctl'.then = "return" /\ ctl'.wf = ctl.wf
      BY <1>0, <1>6, <2>1, <2>3 DEF UpdateOk, AfterWrite, Control
    <3> QED BY <2>1, <2>3, <3>1 DEF Advances
  <2>4. CASE ctl.then = "finish"
    <3>1. ctl'.pc = "outputs" /\ ctl'.st = ctl.st /\ ctl'.wf = ctl.wf
      BY <1>0, <1>6, <2>4 DEF UpdateOk, AfterWrite, Control
    <3> QED BY <2>1, <2>4, <3>1 DEF Finishes
  <2> QED BY <1>0, <2>2, <2>3, <2>4 DEF Control
<1>7. Restart => ctl'.pc = "idle"
  BY DEF Restart, RestartController, Idle
<1>8. Reconcile \/ Restart \/ UNCHANGED ctl
  BY DEF Next, Cluster, JobFinish, JobExpire, JobSync, EditWorkflow, RunnerPost,
         Callback, ctlVars, vars
<1> QED BY <1>1, <1>2, <1>3, <1>4, <1>5, <1>6, <1>7, <1>8 DEF Reconcile, Update

LEMMA AdvanceMoves ==
  ASSUME NEW wf, NEW st \in Status, wf.mode # "simple", MayAdvance(st)
  PROVE  Moves(wf, st, Advance(st))
BY RunEditsCourse, SameStepsSame DEF Moves, RunMoves

LEMMA SucceedMoves ==
  ASSUME NEW wf, NEW st \in Status, st.phase = "Running"
  PROVE  Moves(wf, st, SucceedRun(st))
BY RunEditsCourse, SameStepsSame DEF Moves, RunMoves

LEMMA NoMove == ASSUME NEW wf, NEW st PROVE Moves(wf, st, st)
BY DEF Moves, RunMoves, SameResults, SameResult, SameCourse

\* The copy a reconcile goes on with is a move of the one it had.
LEMMA CopyGoesOn ==
  ASSUME TypeOK, ControlInFlight, WritesLookedAt, Follows, [Next]_vars, ctl'.pc # "idle"
  PROVE  Begins \/ (ctl.pc # "idle" /\ ctl'.wf = ctl.wf /\ Moves(ctl.wf, ctl.st, ctl'.st))
<1>0. ctl.st \in Status
  BY DEF TypeOK, ControlTypeOK, Control
<1>1. CASE UNCHANGED ctl
  BY <1>1, NoMove
<1>2. CASE Writes /\ ctl'.wf = ctl.wf
  BY <1>2 DEF Writes
<1>3. CASE (Collects \/ Finishes) /\ ctl'.wf = ctl.wf
  <2>1. ctl'.st = ctl.st /\ ctl.pc # "idle"
    BY <1>3 DEF Collects, Finishes
  <2> QED BY <1>3, <2>1, NoMove
<1>4. CASE Sends /\ ctl'.wf = ctl.wf
  <2>1. ctl.pc = "outputs" /\ ctl'.st = SucceedRun(ctl.st)
    BY <1>4 DEF Sends
  <2>2. ctl.st.phase = "Running"
    BY <1>0, <2>1 DEF ControlInFlight, WritesLookedAt, Terminal, TerminalPhases, Status, RunPhases
  <2> QED BY <1>0, <1>4, <2>1, <2>2, SucceedMoves
<1>5. CASE Advances /\ ctl'.wf = ctl.wf
  <2>1. ctl.pc = "write" /\ ctl.then = "advance" /\ ctl'.st = Advance(ctl.st)
    BY <1>5 DEF Advances
  <2>2. ctl.wf.mode # "simple" /\ MayAdvance(ctl.st)
    BY <2>1 DEF Follows, Leads
  <2> QED BY <1>0, <1>5, <2>1, <2>2, AdvanceMoves
<1> QED BY <1>1, <1>2, <1>3, <1>4, <1>5, ControlMoves

-----------------------------------------------------------------------------
(* The invariant is kept.                                                  *)

LEMMA AppendSame ==
  ASSUME NEW st \in Status, NEW p \in DOMAIN st.steps, NEW e
  PROVE  SameResults(st, AppendEvent(st, p, e)) /\ SameCourse(st, AppendEvent(st, p, e))
<1> DEFINE r == [st.steps[p] EXCEPT !.events = Append(st.steps[p].events, Posted(e))]
           new == AppendEvent(st, p, e)
<1>1. \A q \in DOMAIN st.steps : st.steps[q] \in StepResult
  BY StatusSteps
<1>2. /\ new.phase = st.phase /\ new.cur = st.cur
      /\ new.steps = [st.steps EXCEPT ![p] = r]
  BY DEF AppendEvent, Status
<1>3. r.phase = st.steps[p].phase /\ r.text = st.steps[p].text
  BY <1>1 DEF StepResult
<1> HIDE DEF r, new
<1>4. /\ DOMAIN new.steps = DOMAIN st.steps
      /\ \A q \in DOMAIN st.steps : SameResult(st.steps[q], new.steps[q])
  BY <1>2, <1>3 DEF SameResult
<1> QED BY <1>2, <1>4 DEF SameResults, SameCourse, new

\* Whoever writes the run, it moves as the reconciler's Workflow says, or
\* keeps its course.
LEMMA StoredMoves ==
  ASSUME TypeOK, HandlersNamed, CopyMoves, [Next]_vars
  PROVE  /\ Moves(ctl.wf, Stored, Stored')
         /\ \/ SameResults(Stored, Stored') /\ SameCourse(Stored, Stored')
            \/ ctl.pc = "write" /\ Stored' = ctl.st
<1>1. CASE NobodyStores
  <2>1. SameResults(Stored, Stored') /\ SameCourse(Stored, Stored')
    BY <1>1, SameStepsSame DEF NobodyStores, SameCourse
  <2> QED BY <2>1 DEF Moves, RunMoves
<1>2. CASE ReconcilerStores
  BY <1>2 DEF ReconcilerStores, Writing, CopyMoves
<1>3. ASSUME NEW e \in Events, HandlerStores(e)
      PROVE  SameResults(Stored, Stored') /\ SameCourse(Stored, Stored')
  <2>1. PICK p \in DOMAIN Stored.steps : Stored' = AppendEvent(Stored, p, e)
    BY <1>3 DEF HandlerStores, HandlersNamed, Results
  <2> QED BY <2>1, AppendSame, StoredType DEF TypeOK
<1> QED BY <1>1, <1>2, <1>3, WhoStores DEF Moves, RunMoves

LEMMA FollowsStep ==
  ASSUME TypeOK, ControlInFlight, WritesLookedAt, Follows, [Next]_vars
  PROVE  Follows'
<1> SUFFICES ASSUME ctl'.pc = "write" PROVE Leads(ctl'.wf, ctl'.st, ctl'.then)
  BY DEF Follows
<1>0. ctl.st \in Status
  BY DEF TypeOK, ControlTypeOK, Control
<1>1. CASE UNCHANGED ctl
  BY <1>1 DEF Follows
<1>2. CASE Writes /\ ctl'.wf = ctl.wf
  BY <1>2 DEF Writes
<1>3. CASE Sends
  BY <1>0, <1>3, RunEditsCourse DEF Sends, Leads
<1>4. CASE Advances
  BY <1>0, <1>4, RunEditsCourse DEF Advances, Leads, WritesLookedAt
<1> QED BY <1>1, <1>2, <1>3, <1>4, ControlMoves DEF Begins, Collects, Finishes

LEMMA CopyMovesStep ==
  ASSUME TypeOK, ControlInFlight, WritesLookedAt, Follows, CopyMoves, [Next]_vars
  PROVE  CopyMoves'
<1> SUFFICES ASSUME ctl'.pc = "write", ctl'.base = rv'
             PROVE  Moves(ctl'.wf, Stored', ctl'.st)
  BY DEF CopyMoves
<1>0. rv \in Nat /\ ctl.base \in Nat
  BY DEF TypeOK, StoreTypeOK, ControlTypeOK, Control
<1>1. CASE UNCHANGED ctl
  <2>1. ctl.base <= rv
    BY <1>1 DEF ControlInFlight
  <2>2. rv' # rv + 1
    BY <1>0, <1>1, <2>1
  <2>3. Stored' = Stored /\ rv' = rv
    BY <2>2, WhoStores DEF NobodyStores, ReconcilerStores, HandlerStores
  <2> QED BY <1>1, <2>3 DEF CopyMoves
<1>2. CASE (Writes \/ Sends) /\ UNCHANGED storeVars /\ ctl'.wf = ctl.wf
  <2>1. Stored' = Stored /\ rv' = rv
    BY <1>2, CacheKeepsStored DEF TypeOK
  <2>2. ctl.st = Stored /\ ctl.pc # "idle"
    BY <1>2, <2>1 DEF Writes, Sends, ControlInFlight
  <2> QED BY <1>2, <2>1, <2>2, CopyGoesOn DEF Begins
<1>3. CASE Advances
  BY <1>3, CopyGoesOn DEF Advances, Begins
<1> QED BY <1>1, <1>2, <1>3, ControlMoves DEF Begins, Collects, Finishes

LEMMA GoodCopiesStep ==
  ASSUME TypeOK, TypeOK', CopiesKeep, ControlInFlight, Follows, CopyMoves, GoodCopies,
         [Next]_vars
  PROVE  GoodCopies'
<1>0. /\ rv \in Nat /\ seen \in Nat /\ seen <= rv /\ ctl.st \in Status /\ ctl'.st \in Status
      /\ Stored \in Status /\ Stored' \in Status
  BY StoredType DEF TypeOK, StoreTypeOK, ControlTypeOK, Control, Stored
<1>1. ASSUME NEW v \in seen'..rv' PROVE Good(versions'[v])
  <2>1. CASE v = rv'
    <3>1. Good(Stored)
      BY <1>0 DEF GoodCopies, Stored
    <3>2. Good(Stored')
      BY <1>0, <3>1, MovesGood, StoredMoves DEF CopiesKeep
    <3> QED BY <2>1, <3>2 DEF Stored
  <2>2. CASE v \in seen..rv /\ versions'[v] = versions[v]
    BY <2>2 DEF GoodCopies
  <2> QED BY <2>1, <2>2, NextVersions DEF VersionsMove
<1>2. ASSUME ctl'.pc # "idle" PROVE Good(ctl'.st)
  <2>1. CASE Begins
    BY <1>0, <2>1 DEF Begins, GoodCopies
  <2>2. CASE ctl.pc # "idle" /\ Moves(ctl.wf, ctl.st, ctl'.st)
    BY <1>0, <2>2, MovesGood DEF GoodCopies
  <2> QED BY <1>2, <2>1, <2>2, CopyGoesOn DEF CopiesKeep
<1> QED BY <1>1, <1>2 DEF GoodCopies

LEMMA LaterCopiesStep ==
  ASSUME TypeOK, CopiesKeep, ControlInFlight, CopyMoves, LaterCopies, [Next]_vars
  PROVE  LaterCopies'
<1>0. rv \in Nat /\ seen \in Nat /\ seen <= rv
  BY DEF TypeOK, StoreTypeOK
<1>1. Later(Stored, Stored')
  BY MovesLater, StoredMoves DEF CopiesKeep
<1>2. ASSUME NEW v \in seen'..rv' PROVE Later(versions'[v], Stored')
  <2>1. CASE v = rv'
    BY <2>1 DEF Stored, Later
  <2>2. CASE v \in seen..rv /\ versions'[v] = versions[v]
    <3>1. Later(versions[v], Stored)
      BY <2>2 DEF LaterCopies
    <3> QED BY <1>1, <2>2, <3>1, LaterTwice
  <2> QED BY <2>1, <2>2, NextVersions DEF VersionsMove
<1>3. ASSUME ctl'.pc \in {"begun", "outputs"} PROVE Later(ctl'.st, Stored')
  <2>1. CASE (UNCHANGED ctl \/ Collects)
    <3>1. Later(ctl.st, Stored) /\ ctl'.st = ctl.st
      BY <1>3, <2>1 DEF LaterCopies, Collects
    <3> QED BY <1>1, <3>1, LaterTwice
  <2>2. CASE Begins
    <3>1. Later(versions[seen], Stored)
      BY <1>0 DEF LaterCopies
    <3> QED BY <1>1, <2>2, <3>1, LaterTwice DEF Begins
  <2>3. CASE Finishes
    BY <2>3 DEF Finishes, Later
  <2> QED BY <1>3, <2>1, <2>2, <2>3, ControlMoves DEF Writes, Sends, Advances
<1> QED BY <1>2, <1>3 DEF LaterCopies

LEMMA OrderInit == Init => OrderInv
<1> SUFFICES ASSUME Init PROVE OrderInv
  OBVIOUS
<1>1. ctl.pc = "idle" /\ seen = 0 /\ rv = 0 /\ versions[0] = EmptyStatus
  BY DEF Init, ControlInit, StoreInit, Idle
<1>2. Good(EmptyStatus)
  BY EmptyIsSeq DEF Good, EmptyStatus
<1>3. Later(EmptyStatus, EmptyStatus)
  BY DEF Later
<1> QED BY <1>1, <1>2, <1>3 DEF OrderInv, Follows, CopyMoves, GoodCopies, LaterCopies, Stored

LEMMA OrderStep ==
  TypeOK /\ InFlight /\ EventsInv /\ OrderInv /\ [Next]_vars => OrderInv'
<1> SUFFICES ASSUME TypeOK, InFlight, EventsInv, OrderInv, [Next]_vars PROVE OrderInv'
  OBVIOUS
<1>1. TypeOK'
  BY NextType
<1>2. ControlInFlight /\ CopiesKeep /\ WritesLookedAt
      /\ Follows /\ CopyMoves /\ GoodCopies /\ LaterCopies
  BY DEF InFlight, EventsInv, CopiesKeep, OrderInv
<1> QED BY <1>1, <1>2, FollowsStep, CopyMovesStep, GoodCopiesStep, LaterCopiesStep
        DEF OrderInv

LEMMA OrderInvariant == Spec => [](TypeOK /\ InFlight /\ EventsInv /\ OrderInv)
<1>1. Init => OrderInv
  BY OrderInit
<1>2. TypeOK /\ InFlight /\ EventsInv /\ OrderInv /\ [Next]_vars => OrderInv'
  BY OrderStep
<1> QED BY <1>1, <1>2, EventsInvariant, PTL DEF Spec

(* At no time are two steps of a run under way, or one under way behind a  *)
(* step that is not over: stale copies, conflicts, crashes and edits of    *)
(* the Workflow notwithstanding (workflowrun_controller.go:200-281).       *)
THEOREM StepsNeverOverlap == Spec => []OneStepAtATime
<1>1. TypeOK /\ OrderInv => OneStepAtATime
  <2> SUFFICES ASSUME TypeOK, OrderInv PROVE OneStepAtATime
    OBVIOUS
  <2>1. Good(Stored)
    BY DEF TypeOK, StoreTypeOK, OrderInv, GoodCopies, Stored
  <2> QED BY <2>1 DEF Good, OneStepAtATime, Lifecycle!OneStepAtATime, Lifecycle!Finished,
                      FinishedPhases
<1> QED BY <1>1, OrderInvariant, PTL

-----------------------------------------------------------------------------
(* The course of a run whose Workflow is not edited.                       *)

LEMMA NoEdit ==
  ASSUME TypeOK, [Next]_vars, edits' = 0
  PROVE  edits = 0 /\ workflow' = workflow
<1>0. edits \in Nat
  BY MaxEditsAssumption DEF TypeOK, ControlTypeOK
<1>1. ~EditWorkflow
  BY <1>0 DEF EditWorkflow
<1>2. CASE Reconcile
  BY <1>2
    DEF Reconcile, Begin, Dispatch, WorkflowMissing, InitializeRun,
      NoStepResults, AllStepsDone, SkipStep, StartStep, PiStep,
      PiAgentUnavailable, PiPromptFails, PiEnvFails, AdoptJob, CreateJob, CreateJobFails,
      JobMissing, JobSucceeded, JobFailed, AgentStep, StartSession, StartSessionFails,
      AgentMissing, AgentPromptFails, SessionFetchFails, SessionFinished, Quiet, SendPrompt,
      PlaceJob, Requeue, ReadError, StepOutOfRange, StepNotRunning, JobRunning,
      SessionBusy, SendOutputs, Update, UpdateOk, UpdateConflict, UpdateError, external
<1>3. CASE ~Reconcile
  BY <1>1, <1>3 DEF Next, Cluster, JobFinish, JobExpire, JobSync, RunnerPost,
                    Callback, Restart, RestartController, ctlVars, vars
<1> QED BY <1>2, <1>3

LEMMA WhoSends ==
  ASSUME TypeOK, [Next]_vars
  PROVE  outputs' = outputs \/ ctl.pc = "outputs"
<1>1. CASE Reconcile
  BY <1>1
    DEF Reconcile, Begin, Dispatch, WorkflowMissing, InitializeRun,
      NoStepResults, AllStepsDone, SkipStep, StartStep, PiStep,
      PiAgentUnavailable, PiPromptFails, PiEnvFails, AdoptJob, CreateJob, CreateJobFails,
      JobMissing, JobSucceeded, JobFailed, AgentStep, StartSession, StartSessionFails,
      AgentMissing, AgentPromptFails, SessionFetchFails, SessionFinished, Quiet, SendPrompt,
      PlaceJob, Requeue, ReadError, StepOutOfRange, StepNotRunning, JobRunning,
      SessionBusy, SendOutputs, Update, UpdateOk, UpdateConflict, UpdateError, effects
<1>2. CASE ~Reconcile
  BY <1>2 DEF Next, Cluster, JobFinish, JobExpire, JobSync, EditWorkflow, RunnerPost,
              Callback, Restart, RestartController, ctlVars, effects, vars
<1> QED BY <1>1, <1>2

LEMMA AllStayOver ==
  ASSUME NEW old, NEW new, old.phase # "unset", AllOver(old), Later(old, new)
  PROVE  new.phase # "unset" /\ AllOver(new)
BY DEF AllOver, Later

LEMMA WorkflowHeldStep ==
  ASSUME TypeOK, ControlInFlight, WritesLookedAt, Follows, WorkflowHeld,
         workflow' = workflow, [Next]_vars
  PROVE  WorkflowHeld'
BY CopyGoesOn DEF Begins, WorkflowHeld

\* The stored run is written as the Workflow says.
LEMMA StoredCourse ==
  ASSUME TypeOK, HandlersNamed, CopyMoves, WorkflowHeld, FittingCopies, FinishesAllOver,
         [Next]_vars
  PROVE  /\ Moves(workflow, Stored, Stored')
         /\ Stored'.phase = "Succeeded" => AllOver(Stored')
<1>0. Fits(workflow, Stored)
  BY DEF TypeOK, StoreTypeOK, FittingCopies, Stored
<1>1. CASE SameResults(Stored, Stored') /\ SameCourse(Stored, Stored')
  <2>1. Moves(workflow, Stored, Stored')
    BY <1>1 DEF Moves, RunMoves
  <2>2. Stored.phase = "Succeeded" => AllOver(Stored)
    BY <1>0 DEF Fits
  <2> QED BY <1>1, <2>1, <2>2 DEF SameResults, SameResult, SameCourse, AllOver
<1>2. CASE ctl.pc = "write" /\ Stored' = ctl.st
  <2>1. ctl.wf = workflow
    BY <1>2 DEF WorkflowHeld
  <2> QED BY <1>2, <2>1, StoredMoves DEF FinishesAllOver
<1> QED BY <1>1, <1>2, StoredMoves

LEMMA FinishesStep ==
  ASSUME TypeOK, TypeOK', CopiesKeep, ControlInFlight, Follows, GoodCopies,
         workflow \in Workflows, WorkflowHeld, FittingCopies, FinishesAllOver, [Next]_vars
  PROVE  FinishesAllOver'
<1> SUFFICES ASSUME \/ ctl'.pc = "outputs"
                    \/ ctl'.pc = "write" /\ (ctl'.then = "finish" \/ ctl'.st.phase = "Succeeded")
             PROVE  AllOver(ctl'.st)
  BY DEF FinishesAllOver
<1>0. ctl.st \in Status /\ ctl'.st \in Status
  BY DEF TypeOK, ControlTypeOK, Control
<1>1. CASE UNCHANGED ctl \/ Finishes
  BY <1>1 DEF Finishes, FinishesAllOver
<1>2. CASE Writes /\ ctl'.wf = ctl.wf
  <2>1. ctl.wf = workflow /\ Fits(workflow, ctl.st) /\ Good(ctl.st)
    BY <1>2 DEF Writes, WorkflowHeld, FittingCopies, GoodCopies
  <2>2. Moves(workflow, ctl.st, ctl'.st) /\ ctl'.st.phase # "Succeeded"
    BY <1>2, <2>1 DEF Writes
  <2>3. Fits(workflow, ctl'.st)
    BY <1>0, <2>1, <2>2, MovesFit
  <2>4. /\ workflow.mode = "simple" /\ ctl'.st.phase = "Running"
        /\ 1 \in DOMAIN ctl'.st.steps /\ ctl'.st.steps[1].phase = "Succeeded"
    BY <1>2, <2>1, <2>2 DEF Writes, Leads
  <2>5. DOMAIN ctl'.st.steps = {1}
    BY <2>3, <2>4, WorkflowSteps DEF Fits
  <2> QED BY <2>4, <2>5 DEF AllOver, FinishedPhases
<1>3. CASE Collects
  <2>1. /\ ctl'.st = ctl.st /\ ctl.wf = workflow /\ ctl.st.phase # "unset"
        /\ ctl.st.cur >= Len(workflow.steps) /\ Good(ctl.st) /\ Fits(workflow, ctl.st)
    BY <1>3 DEF Collects, WorkflowHeld, GoodCopies, FittingCopies
  <2>2. DOMAIN ctl.st.steps = 1..Len(workflow.steps)
    BY <2>1 DEF Fits
  <2>3. \A p \in DOMAIN ctl.st.steps : p <= ctl.st.cur
    BY <1>0, <2>1, <2>2, StatusNumbers, WorkflowSteps
  <2> QED BY <2>1, <2>3 DEF Good, AllOver
<1>4. CASE Sends
  <2>1. AllOver(ctl.st) /\ ctl'.st.steps = ctl.st.steps
    BY <1>0, <1>4, RunEditsCourse DEF Sends, FinishesAllOver
  <2> QED BY <2>1 DEF AllOver
<1>5. CASE Advances
  <2>1. ctl'.st.phase \in {"Running", "Failed"} /\ ctl'.then = "return" /\ ctl'.pc = "write"
    BY <1>0, <1>5, RunEditsCourse DEF Advances, Follows, Leads, MayAdvance
  <2> QED BY <2>1
<1> QED BY <1>1, <1>2, <1>3, <1>4, <1>5, ControlMoves DEF Begins

LEMMA FittingStep ==
  ASSUME TypeOK, TypeOK', CopiesKeep, ControlInFlight, ControlInFlight', Follows, CopyMoves,
         GoodCopies, workflow \in Workflows, workflow' = workflow, WorkflowHeld,
         FittingCopies, FinishesAllOver, FinishesAllOver', [Next]_vars
  PROVE  FittingCopies'
<1>0. /\ rv \in Nat /\ seen \in Nat /\ seen <= rv /\ ctl.st \in Status /\ ctl'.st \in Status
      /\ Stored \in Status /\ Stored' \in Status
  BY StoredType DEF TypeOK, StoreTypeOK, ControlTypeOK, Control, Stored
<1>1. ASSUME NEW v \in seen'..rv' PROVE Fits(workflow', versions'[v])
  <2>1. CASE v = rv'
    <3>1. Good(Stored) /\ Fits(workflow, Stored)
      BY <1>0 DEF GoodCopies, FittingCopies, Stored
    <3>2. Fits(workflow, Stored')
      BY <1>0, <3>1, StoredCourse, MovesFit DEF CopiesKeep
    <3> QED BY <2>1, <3>2 DEF Stored
  <2>2. CASE v \in seen..rv /\ versions'[v] = versions[v]
    BY <2>2 DEF FittingCopies
  <2> QED BY <2>1, <2>2, NextVersions DEF VersionsMove
<1>2. ASSUME ctl'.pc # "idle" PROVE Fits(workflow', ctl'.st)
  <2>1. CASE Begins
    BY <1>0, <2>1 DEF Begins, FittingCopies
  <2>2. CASE ctl.pc # "idle" /\ Moves(ctl.wf, ctl.st, ctl'.st)
    <3>1. ctl.wf = workflow /\ Good(ctl.st) /\ Fits(workflow, ctl.st)
      BY <2>2 DEF WorkflowHeld, GoodCopies, FittingCopies
    <3>2. ctl'.st.phase = "Succeeded" => AllOver(ctl'.st)
      <4>1. ctl'.pc \in {"begun", "outputs"} => ctl'.st.phase # "Succeeded"
        BY DEF ControlInFlight, Terminal, TerminalPhases
      <4>2. ctl'.pc \in {"begun", "write", "outputs"}
        BY <1>2 DEF TypeOK, ControlTypeOK, Control
      <4> QED BY <4>1, <4>2 DEF FinishesAllOver
    <3>3. Fits(workflow, ctl'.st)
      BY <1>0, <2>2, <3>1, <3>2, MovesFit
    <3> QED BY <3>3
  <2> QED BY <1>2, <2>1, <2>2, CopyGoesOn DEF CopiesKeep
<1> QED BY <1>1, <1>2 DEF FittingCopies

\* What the stored run keeps in a step.
LEMMA StoredGoesOn ==
  ASSUME TypeOK, HandlersNamed, CopyMoves, GoodCopies, WorkflowHeld, FittingCopies,
         FinishesAllOver, [Next]_vars
  PROVE  /\ Good(Stored) /\ Fits(workflow, Stored)
         /\ Later(Stored, Stored') /\ RanLater(Stored, Stored')
<1>1. Good(Stored) /\ Fits(workflow, Stored)
  BY DEF TypeOK, StoreTypeOK, GoodCopies, FittingCopies, Stored
<1> QED BY <1>1, StoredCourse, MovesLater, MovesRan

LEMMA RanCopiesStep ==
  ASSUME TypeOK, HandlersNamed, ControlInFlight, RanLater(Stored, Stored'), RanCopies,
         [Next]_vars
  PROVE  RanCopies'
<1>0. rv \in Nat /\ seen \in Nat /\ seen <= rv
  BY DEF TypeOK, StoreTypeOK
<1>1. ASSUME NEW v \in seen'..rv' PROVE RanLater(versions'[v], Stored')
  <2>1. CASE v = rv'
    BY <2>1 DEF Stored, RanLater
  <2>2. CASE v \in seen..rv /\ versions'[v] = versions[v]
    <3>1. RanLater(versions[v], Stored)
      BY <2>2 DEF RanCopies
    <3> QED BY <2>2, <3>1, RanTwice
  <2> QED BY <2>1, <2>2, NextVersions DEF VersionsMove
<1>2. ASSUME ctl'.pc = "begun" PROVE RanLater(ctl'.st, Stored')
  <2>1. CASE UNCHANGED ctl
    <3>1. RanLater(ctl.st, Stored)
      BY <1>2, <2>1 DEF RanCopies
    <3> QED BY <2>1, <3>1, RanTwice
  <2>2. CASE Begins
    <3>1. RanLater(versions[seen], Stored)
      BY <1>0 DEF RanCopies
    <3> QED BY <2>2, <3>1, RanTwice DEF Begins
  <2> QED BY <1>2, <2>1, <2>2, ControlMoves DEF Writes, Collects, Sends, Advances, Finishes
<1> QED BY <1>1, <1>2 DEF RanCopies

LEMMA DispatchedStep ==
  ASSUME TypeOK, GoodCopies, LaterCopies, RanCopies, DispatchedInTurn,
         Good(Stored), Later(Stored, Stored'), RanLater(Stored, Stored'), [Next]_vars
  PROVE  DispatchedInTurn'
<1> SUFFICES ASSUME NEW p \in Positions, prompts'[p] + created'[p] > 0
             PROVE  /\ Ran(Stored', p)
                    /\ \A q \in 1..(p - 1) :
                         q \in DOMAIN Stored'.steps /\ Stored'.steps[q].phase \in FinishedPhases
  BY DEF DispatchedInTurn
<1>1. ASSUME /\ Ran(Stored, p)
             /\ \A q \in 1..(p - 1) :
                  q \in DOMAIN Stored.steps /\ Stored.steps[q].phase \in FinishedPhases
      PROVE  /\ Ran(Stored', p)
             /\ \A q \in 1..(p - 1) :
                  q \in DOMAIN Stored'.steps /\ Stored'.steps[q].phase \in FinishedPhases
  <2>1. p \in DOMAIN Stored.steps /\ Stored.phase # "unset"
    BY <1>1 DEF Ran, Good
  <2> QED BY <1>1, <2>1 DEF Later, RanLater
<1>2. CASE prompts'[p] = prompts[p] /\ created'[p] = created[p]
  BY <1>1, <1>2 DEF DispatchedInTurn
<1>3. CASE /\ ctl.pc = "begun" /\ p = Pos /\ Pos \in DOMAIN ctl.st.steps
           /\ ctl.st.steps[Pos].phase = "Running"
  <2>1. /\ ctl.st \in Status /\ Good(ctl.st) /\ Later(ctl.st, Stored)
        /\ RanLater(ctl.st, Stored)
    BY <1>3 DEF TypeOK, ControlTypeOK, Control, GoodCopies, LaterCopies, RanCopies
  <2>2. Pos = At(ctl.wf, ctl.st)
    BY DEF Pos, At, Simple
  <2>3. p = ctl.st.cur + 1 /\ ctl.st.cur \in Nat
    BY <1>3, <2>1, <2>2, AtCurrent, StatusNumbers
  <2>4. ctl.st.phase # "unset"
    BY <1>3, <2>1 DEF Good
  <2>5. Ran(Stored, p)
    BY <1>3, <2>1 DEF Ran, RanLater
  <2>6. ASSUME NEW q \in 1..(p - 1)
        PROVE  q \in DOMAIN Stored.steps /\ Stored.steps[q].phase \in FinishedPhases
    <3>1. q \in DOMAIN ctl.st.steps
      BY <1>3, <2>1, <2>3, StatusSteps
    <3>2. q <= ctl.st.cur
      BY <2>3
    <3>3. ctl.st.steps[q].phase \in FinishedPhases
      BY <2>1, <3>1, <3>2 DEF Good
    <3> QED BY <2>1, <2>4, <3>1, <3>3 DEF Later
  <2> QED BY <1>1, <2>5, <2>6
<1> QED BY <1>2, <1>3, WhoExecutes

LEMMA SentStep ==
  ASSUME TypeOK, WritesLookedAt, FinishesAllOver, LaterCopies, SentWhenOver,
         Later(Stored, Stored'), [Next]_vars
  PROVE  SentWhenOver'
<1> SUFFICES ASSUME outputs' > 0 PROVE Stored'.phase # "unset" /\ AllOver(Stored')
  BY DEF SentWhenOver
<1>1. CASE outputs' = outputs
  BY <1>1, AllStayOver DEF SentWhenOver
<1>2. CASE ctl.pc = "outputs"
  <2>1. ctl.st.phase # "unset" /\ AllOver(ctl.st) /\ Later(ctl.st, Stored)
    BY <1>2 DEF WritesLookedAt, FinishesAllOver, LaterCopies
  <2>2. Stored.phase # "unset" /\ AllOver(Stored)
    BY <2>1, AllStayOver
  <2> QED BY <2>2, AllStayOver
<1> QED BY <1>1, <1>2, WhoSends

LEMMA CourseInit == Init => CourseInv
<1> SUFFICES ASSUME Init PROVE CourseInv
  OBVIOUS
<1>1. ctl.pc = "idle" /\ seen = 0 /\ rv = 0 /\ versions[0] = EmptyStatus
  BY DEF Init, ControlInit, StoreInit, Idle
<1>2. Fits(workflow, EmptyStatus)
  BY DEF Fits, EmptyStatus
<1>3. RanLater(EmptyStatus, EmptyStatus)
  BY DEF RanLater
<1>4. DispatchedInTurn /\ SentWhenOver /\ workflow \in Workflows
  BY DEF Init, ControlInit, DispatchedInTurn, SentWhenOver
<1> QED BY <1>1, <1>2, <1>3, <1>4 DEF CourseInv, WorkflowHeld, FittingCopies,
     FinishesAllOver, RanCopies, Stored

LEMMA CourseStep ==
  TypeOK /\ InFlight /\ EventsInv /\ OrderInv /\ CourseInv /\ [Next]_vars => CourseInv'
<1> SUFFICES ASSUME TypeOK, InFlight, EventsInv, OrderInv, CourseInv, [Next]_vars, edits' = 0
             PROVE  /\ workflow' \in Workflows
                    /\ WorkflowHeld' /\ FittingCopies' /\ FinishesAllOver' /\ RanCopies'
                    /\ DispatchedInTurn' /\ SentWhenOver'
  BY DEF CourseInv
<1>1. TypeOK' /\ InFlight' /\ ControlInFlight'
  BY NextType, InFlightStep DEF InFlight
<1>2. edits = 0 /\ workflow' = workflow
  BY NoEdit
<1>3. /\ workflow \in Workflows
      /\ WorkflowHeld /\ FittingCopies /\ FinishesAllOver /\ RanCopies
      /\ DispatchedInTurn /\ SentWhenOver
  BY <1>2 DEF CourseInv
<1>4. /\ ControlInFlight /\ CopiesKeep /\ WritesLookedAt /\ HandlersNamed
      /\ Follows /\ CopyMoves /\ GoodCopies /\ LaterCopies
  BY DEF InFlight, EventsInv, CopiesKeep, OrderInv
<1>5. /\ Good(Stored) /\ Fits(workflow, Stored)
      /\ Later(Stored, Stored') /\ RanLater(Stored, Stored')
  BY <1>3, <1>4, StoredGoesOn
<1>6. WorkflowHeld'
  BY <1>2, <1>3, <1>4, WorkflowHeldStep
<1>7. FinishesAllOver'
  BY <1>1, <1>3, <1>4, FinishesStep
<1>8. FittingCopies'
  BY <1>1, <1>2, <1>3, <1>4, <1>7, FittingStep
<1>9. RanCopies'
  BY <1>3, <1>4, <1>5, RanCopiesStep
<1>10. DispatchedInTurn'
  BY <1>3, <1>4, <1>5, DispatchedStep
<1>11. SentWhenOver'
  BY <1>3, <1>4, <1>5, SentStep
<1> QED BY <1>2, <1>3, <1>6, <1>7, <1>8, <1>9, <1>10, <1>11

Course == TypeOK /\ InFlight /\ EventsInv /\ OrderInv /\ CourseInv

LEMMA CourseInvariant == Spec => []Course
<1>1. Init => CourseInv
  BY CourseInit
<1>2. TypeOK /\ InFlight /\ EventsInv /\ OrderInv /\ CourseInv /\ [Next]_vars => CourseInv'
  BY CourseStep
<1> QED BY <1>1, <1>2, OrderInvariant, PTL DEF Spec, Course

\* What the invariant says of the stored run of a Workflow nobody edits.
LEMMA StoredFits ==
  ASSUME Course, edits = 0
  PROVE  /\ workflow \in Workflows /\ Stored \in Status
         /\ Good(Stored) /\ Fits(workflow, Stored)
         /\ DOMAIN Stored.steps \subseteq Positions
<1>1. workflow \in Workflows /\ Stored \in Status /\ Good(Stored) /\ Fits(workflow, Stored)
  BY StoredType
     DEF Course, CourseInv, OrderInv, GoodCopies, FittingCopies, TypeOK, StoreTypeOK, Stored
<1> QED BY <1>1, WorkflowSteps DEF Good, Fits

(* A run that succeeded left no step behind, and tolerated no failure that *)
(* its Workflow does not (workflowrun_controller.go:736-757).              *)
THEOREM SuccessIsEarned == Spec => []SucceededMeansDone
<1>1. Course => SucceededMeansDone
  <2> SUFFICES ASSUME Course, edits = 0, Stored.phase = "Succeeded",
                      NEW p \in DOMAIN workflow.steps
               PROVE  Over(p) /\ (Results[p].phase = "Failed" => workflow.steps[p].cont)
    BY DEF SucceededMeansDone
  <2>1. workflow \in Workflows /\ Fits(workflow, Stored)
    BY StoredFits
  <2>2. p \in DOMAIN Stored.steps
    BY <2>1, WorkflowSteps DEF Fits
  <2> QED BY <2>1, <2>2 DEF Fits, AllOver, Over, Results
<1> QED BY <1>1, CourseInvariant, PTL

(* A step is dispatched when those before it are over, and in the stored   *)
(* run at that, whatever stale copy the reconcile works on                 *)
(* (workflowrun_controller.go:200-281).                                    *)
THEOREM DispatchIsInOrder == Spec => []DispatchedInOrder
<1>1. Course => DispatchedInOrder
  BY DEF Course, CourseInv, DispatchedInTurn, DispatchedInOrder, Over, Results
<1> QED BY <1>1, CourseInvariant, PTL

(* A step is skipped only before it is ever run: the condition is          *)
(* evaluated again by each reconcile, but never to another result          *)
(* (workflowrun_controller.go:238-260).                                    *)
THEOREM SkippedStepsNeverRan == Spec => []SkippedNeverRan
<1>1. Course => SkippedNeverRan
  <2> SUFFICES ASSUME Course, edits = 0, NEW p \in DOMAIN Stored.steps,
                      Stored.steps[p].phase = "Skipped"
               PROVE  prompts[p] = 0 /\ created[p] = 0
    BY DEF SkippedNeverRan, Results
  <2>1. p \in Positions
    BY StoredFits
  <2>2. ~(prompts[p] + created[p] > 0)
    BY <2>1 DEF Course, CourseInv, DispatchedInTurn, Ran
  <2>3. prompts[p] \in 0..MaxStarts /\ created[p] \in 0..MaxStarts
    BY <2>1 DEF Course, TypeOK, ControlTypeOK
  <2> QED BY <2>2, <2>3, MaxStartsAssumption
<1> QED BY <1>1, CourseInvariant, PTL

(* The outputs leave the system when every step of the run is over, not    *)
(* only in the copy that is sent from (workflowrun_controller.go:736-757). *)
THEOREM OutputsComeLast == Spec => []OutputsAfterSteps
<1>1. Course => OutputsAfterSteps
  BY DEF Course, CourseInv, SentWhenOver, AllOver, OutputsAfterSteps, Over, Results
<1> QED BY <1>1, CourseInvariant, PTL

LEMMA LivesInit == Init => Lifecycle!Init
<1> SUFFICES ASSUME Init PROVE Lifecycle!Init
  OBVIOUS
<1>1. Stored = EmptyStatus
  BY DEF Init, StoreInit, Stored
<1>2. DOMAIN Stored.steps = {}
  BY <1>1, EmptyIsSeq DEF EmptyStatus
<1>3. [p \in DOMAIN Stored.steps |-> Stored.steps[p].phase] = <<>>
  BY <1>2, EmptyIsSeq
<1> QED BY <1>1, <1>3 DEF EmptyStatus, Lifecycle!Init

(* The stored status of a run whose Workflow is not edited leads the life  *)
(* RunLifecycle promises, step by step: whatever copies, versions, Jobs,   *)
(* sessions, callbacks and restarts there are.                             *)
THEOREM RunImplementsLifecycle == Spec /\ [](edits = 0) => ImplementsLifecycle
<1>1. Init => Lifecycle!Init
  BY LivesInit
<1>2. Course /\ edits = 0 /\ [Next]_vars => [Lifecycle!Next]_(Lifecycle!lifecycle)
  <2> SUFFICES ASSUME Course, edits = 0, [Next]_vars
               PROVE  [Lifecycle!Next]_(Lifecycle!lifecycle)
    OBVIOUS
  <2>1. workflow \in Workflows /\ Stored \in Status /\ Good(Stored) /\ Fits(workflow, Stored)
    BY StoredFits
  <2>2. /\ TypeOK /\ HandlersNamed /\ CopyMoves /\ WorkflowHeld /\ FittingCopies
        /\ FinishesAllOver
    BY DEF Course, EventsInv, CopiesKeep, OrderInv, CourseInv
  <2>3. /\ Moves(workflow, Stored, Stored')
        /\ Stored'.phase = "Succeeded" => AllOver(Stored')
    BY <2>2, StoredCourse
  <2> QED BY <2>1, <2>3, RunMoveLives, StepMoveLives DEF Moves
<1> QED BY <1>1, <1>2, CourseInvariant, PTL DEF Spec, ImplementsLifecycle, Lifecycle!Spec

-----------------------------------------------------------------------------
(* Whose output a step records.                                            *)

\* A result answers its own step, and names no Job but that of its step.
OwnResult(wf, p, r) ==
  /\ r.text # "none" => r.from = p
  /\ r.job \in {NoJob, JobName[wf.steps[p].name]}

Owned(wf, st) == \A p \in DOMAIN st.steps : OwnResult(wf, p, st.steps[p])

\* A Job runs the step its name is made from.
JobsOwn(js) ==
  \A j \in JobNames :
    js[j].state # "none" =>
      \E p \in DOMAIN workflow.steps :
        JobName[workflow.steps[p].name] = j /\ js[j].step = p

OwnInv ==
  edits = 0 =>
    /\ \A v \in seen..rv : Owned(workflow, versions[v])
    /\ ctl.pc # "idle" => Owned(workflow, ctl.st)
    /\ JobsOwn(jobs) /\ JobsOwn(jobSeen)

\* No two steps of a Workflow have the same Job: their names differ, also
\* behind the name of the run and cut at 63 bytes.
DistinctJobs ==
  \A w \in Workflows : \A p, q \in DOMAIN w.steps :
    JobName[w.steps[p].name] = JobName[w.steps[q].name] => p = q

LEMMA SameStepsOwned ==
  ASSUME NEW wf, NEW old, NEW new, new.steps = old.steps, Owned(wf, old)
  PROVE  Owned(wf, new)
BY DEF Owned

LEMMA OneResultOwned ==
  ASSUME NEW wf, NEW st \in Status, NEW p \in DOMAIN st.steps, Owned(wf, st),
         NEW r, OwnResult(wf, p, r),
         NEW new, new.steps = [st.steps EXCEPT ![p] = r]
  PROVE  Owned(wf, new)
<1>1. DOMAIN new.steps = DOMAIN st.steps
  BY StatusSteps
<1>2. \A q \in DOMAIN st.steps : q # p => new.steps[q] = st.steps[q]
  BY StatusSteps
<1>3. new.steps[p] = r
  BY StatusSteps
<1> QED BY <1>1, <1>2, <1>3 DEF Owned

LEMMA ResultEditsOwned ==
  ASSUME NEW wf, NEW st \in Status, NEW p \in DOMAIN st.steps, Owned(wf, st)
  PROVE  /\ \A x \in StepPhases : Owned(wf, [st EXCEPT !.steps[p].phase = x])
         /\ Owned(wf, SetSession(st, p))
         /\ Owned(wf, SetJob(st, p, JobName[wf.steps[p].name]))
         /\ \A x, es : Owned(wf, Complete(st, p, x, p, es)) /\ Owned(wf, Partial(st, p, x, p, es))
         /\ \A e : Owned(wf, AppendEvent(st, p, e))
<1>1. st.steps[p] \in StepResult /\ OwnResult(wf, p, st.steps[p])
  BY StatusSteps DEF Owned
<1>2. ASSUME NEW r, OwnResult(wf, p, r),
             NEW new, new = [st EXCEPT !.steps = [st.steps EXCEPT ![p] = r]]
      PROVE  Owned(wf, new)
  <2>1. new.steps = [st.steps EXCEPT ![p] = r]
    BY <1>2 DEF Status
  <2> QED BY <1>2, <2>1, OneResultOwned
<1>3. ASSUME NEW r \in {[st.steps[p] EXCEPT !.phase = x] : x \in StepPhases}
               \union {[st.steps[p] EXCEPT !.session = TRUE]}
      PROVE  OwnResult(wf, p, r)
  BY <1>1 DEF OwnResult, StepResult
<1>4. ASSUME NEW x \in StepPhases PROVE Owned(wf, [st EXCEPT !.steps[p].phase = x])
  <2> DEFINE r == [st.steps[p] EXCEPT !.phase = x]
  <2>1. [st EXCEPT !.steps[p].phase = x] = [st EXCEPT !.steps = [st.steps EXCEPT ![p] = r]]
    OBVIOUS
  <2>2. OwnResult(wf, p, r)
    BY <1>3
  <2> HIDE DEF r
  <2> QED BY <1>2, <2>1, <2>2
<1>5. Owned(wf, SetSession(st, p))
  <2>1. OwnResult(wf, p, [st.steps[p] EXCEPT !.session = TRUE])
    BY <1>3
  <2> QED BY <1>2, <2>1 DEF SetSession
<1>6. Owned(wf, SetJob(st, p, JobName[wf.steps[p].name]))
  <2>1. OwnResult(wf, p, [st.steps[p] EXCEPT !.job = JobName[wf.steps[p].name]])
    BY <1>1 DEF OwnResult, StepResult
  <2> QED BY <1>2, <2>1 DEF SetJob
<1>7. ASSUME NEW x, NEW es
      PROVE  Owned(wf, Complete(st, p, x, p, es)) /\ Owned(wf, Partial(st, p, x, p, es))
  <2>1. OwnResult(wf, p, [st.steps[p] EXCEPT !.phase = "Succeeded", !.text = x, !.from = p,
                                             !.events = es])
    BY <1>1 DEF OwnResult, StepResult
  <2>2. OwnResult(wf, p, [st.steps[p] EXCEPT !.text = x, !.from = p, !.events = es])
    BY <1>1 DEF OwnResult, StepResult
  <2>3. Owned(wf, Complete(st, p, x, p, es))
    BY <1>2, <2>1 DEF Complete
  <2>4. Owned(wf, Partial(st, p, x, p, es))
    BY <1>2, <2>2 DEF Partial
  <2> QED BY <2>3, <2>4
<1>8. ASSUME NEW e PROVE Owned(wf, AppendEvent(st, p, e))
  <2>1. OwnResult(wf, p, [st.steps[p] EXCEPT !.events = Append(st.steps[p].events, Posted(e))])
    BY <1>1 DEF OwnResult, StepResult
  <2> QED BY <1>2, <2>1 DEF AppendEvent
<1> QED BY <1>4, <1>5, <1>6, <1>7, <1>8

LEMMA RunEditsOwned ==
  ASSUME NEW wf, NEW st \in Status, Owned(wf, st)
  PROVE  /\ Owned(wf, Advance(st)) /\ Owned(wf, SucceedRun(st))
         /\ \A why : Owned(wf, FailRun(st, why))
BY RunEditsCourse, SameStepsOwned

LEMMA StepEditsOwned ==
  ASSUME NEW wf, NEW st \in Status, NEW p \in DOMAIN st.steps, Owned(wf, st)
  PROVE  /\ Owned(wf, MarkRunning(st, p)) /\ Owned(wf, SkipResult(st, p))
         /\ Owned(wf, PassFailedStep(st, p))
         /\ \A why : Owned(wf, FailStep(st, p, why))
<1> DEFINE to(x) == [st EXCEPT !.steps[p].phase = x]
<1>1. \A x \in StepPhases : to(x) \in Status /\ Owned(wf, to(x))
  BY ResultEdits, ResultEditsOwned
<1>2. MarkRunning(st, p) = to("Running") /\ SkipResult(st, p) = Advance(to("Skipped"))
      /\ PassFailedStep(st, p) = Advance(to("Failed"))
      /\ \A why : FailStep(st, p, why) = FailRun(to("Failed"), why)
  BY DEF MarkRunning, SkipResult, PassFailedStep, FailStep
<1> HIDE DEF to
<1> QED BY <1>1, <1>2, RunEditsOwned DEF StepPhases

LEMMA InitOwned == ASSUME NEW wf PROVE Owned(wf, InitStatus(wf))
BY DEF Owned, OwnResult, InitStatus, PendingResult

\* What a reconcile that has begun goes on to write.
EditOwned == \E st, then : WriteStatus(st, then) /\ Owned(ctl.wf, st)

LEMMA DispatchOwned ==
  ASSUME TypeOK, Dispatch, Owned(ctl.wf, ctl.st)
  PROVE  EditOwned \/ AllStepsDone
<1>1. ctl.st \in Status
  BY DEF TypeOK, ControlTypeOK, Control
<1>2. CASE WorkflowMissing \/ NoStepResults
  BY <1>1, <1>2, RunEditsOwned DEF WorkflowMissing, NoStepResults, EditOwned
<1>3. CASE InitializeRun
  BY <1>3, InitOwned DEF InitializeRun, EditOwned
<1>4. CASE SkipStep \/ StartStep
  <2>1. Pos \in DOMAIN ctl.st.steps
    BY <1>4 DEF SkipStep, StartStep, Selected, AtStep
  <2> QED BY <1>1, <1>4, <2>1, StepEditsOwned DEF SkipStep, StartStep, EditOwned
<1> QED BY <1>2, <1>3, <1>4 DEF Dispatch

\* The Job a step watches runs that step.
LEMMA OwnJobSeen ==
  ASSUME TypeOK, DistinctJobs, workflow \in Workflows, ctl.wf = workflow, JobsOwn(jobSeen),
         Owned(workflow, ctl.st), HasJob, SeenJob.state # "none"
  PROVE  SeenJob.step = Pos
<1>1. Pos \in DOMAIN ctl.wf.steps /\ Pos \in DOMAIN ctl.st.steps
  BY DEF HasJob, Running, Selected, AtStep
<1>2. Result.job \in JobNames
  BY AtStepFacts DEF HasJob, Running, Selected, StepResult
<1>3. Result.job = JobName[workflow.steps[Pos].name]
  BY <1>1 DEF HasJob, Result, Owned, OwnResult
<1>4. PICK p \in DOMAIN workflow.steps :
        JobName[workflow.steps[p].name] = Result.job /\ SeenJob.step = p
  BY <1>2 DEF JobsOwn, SeenJob
<1> QED BY <1>1, <1>3, <1>4 DEF DistinctJobs

LEMMA FailPiStepOwned ==
  ASSUME NEW st \in Status, Pos \in DOMAIN st.steps, Owned(ctl.wf, st), NEW why,
         FailPiStep(st, why)
  PROVE  EditOwned
BY StepEditsOwned DEF FailPiStep, EditOwned

LEMMA PiStepOwned ==
  ASSUME TypeOK, DistinctJobs, workflow \in Workflows, ctl.wf = workflow, JobsOwn(jobSeen),
         Owned(workflow, ctl.st), PiStep
  PROVE  EditOwned
<1>1. AtStep
  BY DEF PiStep, PiAgentUnavailable, PiPromptFails, PiEnvFails, CreateJob,
         AdoptJob, CreateJobFails, JobMissing, JobSucceeded, JobFailed, WantsJob,
         HasJob, Running, Selected
<1>2. /\ ctl.st \in Status /\ Pos \in DOMAIN ctl.st.steps /\ Owned(ctl.wf, ctl.st)
      /\ StepJob = JobName[ctl.wf.steps[Pos].name] /\ Pos \in Nat
  BY <1>1, AtStepFacts DEF StepJob, Step
<1>3. CASE PiAgentUnavailable \/ PiPromptFails \/ PiEnvFails
             \/ CreateJobFails \/ JobMissing
  <2>1. PICK why : FailPiStep(ctl.st, why)
    BY <1>3 DEF PiAgentUnavailable, PiPromptFails, PiEnvFails, CreateJobFails, JobMissing
  <2> QED BY <1>2, <2>1, FailPiStepOwned
<1>4. CASE CreateJob \/ AdoptJob
  <2>1. WriteStatus(SetJob(ctl.st, Pos, StepJob), "return")
    BY <1>4 DEF CreateJob, AdoptJob
  <2>2. Owned(ctl.wf, SetJob(ctl.st, Pos, StepJob))
    BY <1>2, ResultEditsOwned
  <2> QED BY <2>1, <2>2 DEF EditOwned
<1>5. CASE JobSucceeded
  <2>1. PICK log \in Fetched(Answers, "other") :
          WriteStatus(Complete(ctl.st, Pos, log[1], SeenJob.step, log[2]),
                      IF Simple THEN "finish" ELSE "advance")
    BY <1>5 DEF JobSucceeded
  <2>2. SeenJob.step = Pos
    BY <1>5, OwnJobSeen DEF JobSucceeded
  <2>3. Owned(ctl.wf, Complete(ctl.st, Pos, log[1], Pos, log[2]))
    BY <1>2, ResultEditsOwned
  <2> QED BY <2>1, <2>2, <2>3 DEF EditOwned
<1>6. CASE JobFailed
  <2>1. PICK log \in Fetched({"other"}, "none") :
          FailPiStep(Partial(ctl.st, Pos, log[1], SeenJob.step, log[2]), "step")
    BY <1>6 DEF JobFailed
  <2>2. SeenJob.step = Pos
    BY <1>6, OwnJobSeen DEF JobFailed
  <2>3. log[1] \in Texts /\ log[2] \in Seq(Entry)
    BY <1>6, FetchedType DEF JobFailed, Texts, Answers
  <2> DEFINE st == Partial(ctl.st, Pos, log[1], Pos, log[2])
  <2>4. st \in Status /\ Owned(ctl.wf, st)
    BY <1>2, <2>3, ResultEdits, ResultEditsOwned
  <2>5. Pos \in DOMAIN st.steps
    BY <1>2 DEF Partial, Status
  <2>6. FailPiStep(st, "step")
    BY <2>1, <2>2
  <2> HIDE DEF st
  <2> QED BY <2>4, <2>5, <2>6, FailPiStepOwned
<1> QED BY <1>3, <1>4, <1>5, <1>6 DEF PiStep

LEMMA AgentStepOwned ==
  ASSUME TypeOK, AgentStep, Owned(ctl.wf, ctl.st)
  PROVE  EditOwned
<1>1. AtStep
  BY DEF AgentStep, AgentMissing, AgentPromptFails, StartSession,
         StartSessionFails, SessionFetchFails, SessionFinished, WantsSession,
         HasSession, Running, Selected
<1>2. /\ ctl.st \in Status /\ Pos \in DOMAIN ctl.st.steps /\ Pos \in Nat
      /\ Result \in StepResult
  BY <1>1, AtStepFacts
<1>3. CASE SessionFinished
  <2>1. PICK text \in Texts :
          LET done == Complete(ctl.st, Pos, text, Pos, Result.events)
          IN  IF Simple THEN WriteStatus(done, "finish")
              ELSE WriteStatus(Advance(done), "return")
    BY <1>3 DEF SessionFinished
  <2> DEFINE done == Complete(ctl.st, Pos, text, Pos, Result.events)
  <2>2. done \in Status /\ Owned(ctl.wf, done)
    BY <1>2, ResultEdits, ResultEditsOwned DEF StepResult
  <2>3. WriteStatus(done, "finish") \/ WriteStatus(Advance(done), "return")
    BY <2>1
  <2> HIDE DEF done
  <2> QED BY <2>2, <2>3, RunEditsOwned DEF EditOwned
<1>4. CASE ~SessionFinished
  <2>1. \/ WriteStatus(FailRun(ctl.st, "step"), "return")
        \/ WriteStatus(FailStep(ctl.st, Pos, "step"), "return")
        \/ WriteStatus(PassFailedStep(ctl.st, Pos), "return")
        \/ WriteStatus(SetSession(ctl.st, Pos), "return")
    BY <1>4 DEF AgentStep, AgentMissing, AgentPromptFails, StartSession,
       StartSessionFails, SessionFetchFails, FailAgentStep
  <2> QED BY <1>2, <2>1, RunEditsOwned, StepEditsOwned, ResultEditsOwned DEF EditOwned
<1> QED BY <1>3, <1>4

\* A copy becomes one that records no other step's output.
LEMMA CopyOwns ==
  ASSUME TypeOK, DistinctJobs, ControlInFlight, workflow \in Workflows, WorkflowHeld,
         Owned(workflow, versions[seen]), ctl.pc # "idle" => Owned(workflow, ctl.st),
         JobsOwn(jobSeen), [Next]_vars, ctl'.pc # "idle"
  PROVE  Owned(workflow, ctl'.st)
<1>0. ctl \in Control /\ ctl.st \in Status
  BY DEF TypeOK, ControlTypeOK, Control
<1>1. CASE UNCHANGED ctl
  BY <1>1
<1>2. CASE Begins
  BY <1>2 DEF Begins
<1>3. CASE Writes
  <2>1. ctl.wf = workflow /\ Owned(workflow, ctl.st)
    BY <1>3 DEF Writes, WorkflowHeld
  <2>2. Dispatch \/ PiStep \/ AgentStep
    <3>1. Reconcile \/ Restart \/ UNCHANGED ctl
      BY DEF Next, Cluster, JobFinish, JobExpire, JobSync, EditWorkflow, RunnerPost,
             Callback, ctlVars, vars
    <3>2. ctl.pc = "begun" /\ ctl'.pc = "write"
      BY <1>3 DEF Writes
    <3> QED BY <3>1, <3>2
      DEF Reconcile, Begin, Requeue, ReadError, StepOutOfRange, StepNotRunning, JobRunning,
          SessionBusy, Return, Idle, SendOutputs, Update, UpdateOk, UpdateConflict,
          UpdateError, Writing, Restart, RestartController
  <2>3. EditOwned \/ AllStepsDone
    BY <2>1, <2>2, DispatchOwned, PiStepOwned, AgentStepOwned
  <2>4. ~AllStepsDone
    BY <1>0, <1>3 DEF AllStepsDone, Writes, Control
  <2>5. \A st, then : WriteStatus(st, then) => ctl'.st = st
    BY <1>0 DEF WriteStatus, Control
  <2> QED BY <2>1, <2>3, <2>4, <2>5 DEF EditOwned
<1>4. CASE Collects \/ Sends \/ Advances \/ Finishes
  <2>1. ctl.pc # "idle" /\ ctl'.st \in {ctl.st, SucceedRun(ctl.st), Advance(ctl.st)}
    BY <1>4 DEF Collects, Sends, Advances, Finishes
  <2> QED BY <1>0, <2>1, RunEditsOwned
<1> QED BY <1>1, <1>2, <1>3, <1>4, ControlMoves

\* The Jobs of a Workflow that is not edited, and what the cache shows of them.
LEMMA JobsOwnStep ==
  ASSUME TypeOK, WorkflowHeld, JobsOwn(jobs), JobsOwn(jobSeen), workflow' = workflow,
         [Next]_vars
  PROVE  JobsOwn(jobs)' /\ JobsOwn(jobSeen)'
<1>0. jobs \in [JobNames -> Job] /\ jobSeen \in [JobNames -> Job]
  BY DEF TypeOK, ControlTypeOK
<1>1. ASSUME \A j \in JobNames :
               \/ jobs'[j].state = "none"
               \/ jobs'[j].step = jobs[j].step /\ jobs[j].state # "none"
               \/ /\ jobs'[j].step \in DOMAIN workflow.steps
                  /\ JobName[workflow.steps[jobs'[j].step].name] = j,
             \A j \in JobNames : jobSeen'[j] \in {jobSeen[j], jobs[j]}
      PROVE  JobsOwn(jobs)' /\ JobsOwn(jobSeen)'
  BY <1>1 DEF JobsOwn
<1>2. CASE UNCHANGED <<jobs, jobSeen>>
  BY <1>1, <1>2
<1>3. CASE (CreateJob \/ CreateJobFails) /\ PlaceJob
  <2>1. AtStep
    BY <1>3 DEF CreateJob, CreateJobFails, WantsJob, Running, Selected
  <2>2. ctl.wf = workflow /\ Pos \in DOMAIN workflow.steps
    BY <2>1 DEF WorkflowHeld, AtStep, Executing, Begun
  <2>3. StepJob \in JobNames /\ StepJob = JobName[workflow.steps[Pos].name]
    BY <2>1, <2>2, AtStepFacts DEF StepJob, Step
  <2>4. jobs' = [jobs EXCEPT ![StepJob] = NewJob(Pos)] /\ NewJob(Pos).step = Pos
        /\ jobSeen' = jobSeen
    BY <1>3 DEF PlaceJob, NewJob
  <2>5. \A j \in JobNames : jobs'[j] = IF j = StepJob THEN NewJob(Pos) ELSE jobs[j]
    BY <1>0, <2>4
  <2> QED BY <1>1, <2>2, <2>3, <2>4, <2>5
<1>4. CASE Reconcile /\ ~((CreateJob \/ CreateJobFails) /\ PlaceJob)
  <2>1. UNCHANGED <<jobs, jobSeen>>
    BY <1>4
      DEF Reconcile, Begin, Dispatch, WorkflowMissing, InitializeRun,
        NoStepResults, AllStepsDone, SkipStep, StartStep, PiStep,
        PiAgentUnavailable, PiPromptFails, PiEnvFails, AdoptJob, CreateJob, CreateJobFails,
        JobMissing, JobSucceeded, JobFailed, AgentStep, StartSession, StartSessionFails,
        AgentMissing, AgentPromptFails, SessionFetchFails, SessionFinished, Quiet, SendPrompt,
        Requeue, ReadError, StepOutOfRange, StepNotRunning, JobRunning,
        SessionBusy, SendOutputs, Update, UpdateOk, UpdateConflict, UpdateError, external
  <2> QED BY <1>2, <2>1
<1>5. CASE JobFinish
  <2>1. PICK j \in JobNames, outcome \in {"succeeded", "failed"} :
          jobs[j].state = "active" /\ jobs' = [jobs EXCEPT ![j].state = outcome]
    BY <1>5 DEF JobFinish
  <2>2. /\ jobs'[j].step = jobs[j].step
        /\ \A k \in JobNames : k # j => jobs'[k] = jobs[k]
    BY <1>0, <2>1 DEF Job
  <2>3. jobSeen' = jobSeen
    BY <1>5 DEF JobFinish
  <2> QED BY <1>1, <2>1, <2>2, <2>3
<1>6. CASE JobExpire
  <2>1. PICK j \in JobNames : jobs' = [jobs EXCEPT ![j] = NoSuchJob]
    BY <1>6 DEF JobExpire
  <2>2. \A k \in JobNames : jobs'[k] = IF k = j THEN NoSuchJob ELSE jobs[k]
    BY <1>0, <2>1
  <2>3. jobSeen' = jobSeen
    BY <1>6 DEF JobExpire
  <2> QED BY <1>1, <2>2, <2>3 DEF NoSuchJob
<1>7. CASE JobSync
  <2>1. PICK j \in JobNames : jobSeen' = [jobSeen EXCEPT ![j] = jobs[j]]
    BY <1>7 DEF JobSync
  <2>2. \A k \in JobNames : jobSeen'[k] = IF k = j THEN jobs[j] ELSE jobSeen[k]
    BY <1>0, <2>1
  <2>3. jobs' = jobs
    BY <1>7 DEF JobSync
  <2> QED BY <1>1, <2>2, <2>3
<1>8. CASE Restart
  <2>1. jobs' = jobs /\ jobSeen' = jobs
    BY <1>8 DEF Restart, RestartController
  <2> QED BY <1>1, <2>1
<1>9. CASE EditWorkflow \/ RunnerPost \/ Callback \/ UNCHANGED vars
           \/ (CacheSync /\ UNCHANGED <<ctlVars, req>>)
  BY <1>2, <1>9 DEF EditWorkflow, RunnerPost, Callback, ctlVars, vars
<1> QED BY <1>3, <1>4, <1>5, <1>6, <1>7, <1>8, <1>9 DEF Next, Cluster

LEMMA OwnInit == Init => OwnInv
<1> SUFFICES ASSUME Init PROVE OwnInv
  OBVIOUS
<1>1. ctl.pc = "idle" /\ seen = 0 /\ rv = 0 /\ versions[0] = EmptyStatus
  BY DEF Init, ControlInit, StoreInit, Idle
<1>2. Owned(workflow, EmptyStatus)
  BY EmptyIsSeq DEF Owned, EmptyStatus
<1>3. JobsOwn(jobs) /\ JobsOwn(jobSeen)
  BY DEF Init, ControlInit, JobsOwn, NoSuchJob
<1> QED BY <1>1, <1>2, <1>3 DEF OwnInv

LEMMA OwnStep ==
  ASSUME DistinctJobs, Course, OwnInv, [Next]_vars
  PROVE  OwnInv'
<1> SUFFICES ASSUME edits' = 0
             PROVE  /\ \A v \in seen'..rv' : Owned(workflow', versions'[v])
                    /\ ctl'.pc # "idle" => Owned(workflow', ctl'.st)
                    /\ JobsOwn(jobs)' /\ JobsOwn(jobSeen)'
  BY DEF OwnInv
<1>0. /\ TypeOK /\ ControlInFlight /\ HandlersNamed
      /\ rv \in Nat /\ seen \in Nat /\ seen <= rv
  BY DEF Course, InFlight, EventsInv, CopiesKeep, TypeOK, StoreTypeOK
<1>1. edits = 0 /\ workflow' = workflow
  BY <1>0, NoEdit
<1>2. /\ workflow \in Workflows /\ WorkflowHeld
      /\ \A v \in seen..rv : Owned(workflow, versions[v])
      /\ ctl.pc # "idle" => Owned(workflow, ctl.st)
      /\ JobsOwn(jobs) /\ JobsOwn(jobSeen)
  BY <1>1 DEF Course, CourseInv, OwnInv
<1>3. Owned(workflow, Stored) /\ Owned(workflow, versions[seen])
  BY <1>0, <1>2 DEF Stored
<1>4. Owned(workflow, Stored')
  <2>1. CASE NobodyStores
    BY <1>3, <2>1 DEF NobodyStores
  <2>2. CASE ReconcilerStores
    BY <1>2, <2>2 DEF ReconcilerStores, Writing
  <2>3. ASSUME NEW e \in Events, HandlerStores(e) PROVE Owned(workflow, Stored')
    <3>1. PICK p \in DOMAIN Stored.steps : Stored' = AppendEvent(Stored, p, e)
      BY <1>0, <2>3 DEF HandlerStores, HandlersNamed, Results
    <3> QED BY <1>0, <1>3, <3>1, StoredType, ResultEditsOwned DEF TypeOK
  <2> QED BY <1>0, <2>1, <2>2, <2>3, WhoStores
<1>5. ASSUME NEW v \in seen'..rv' PROVE Owned(workflow', versions'[v])
  <2>1. CASE v = rv'
    BY <1>1, <1>4, <2>1 DEF Stored
  <2>2. CASE v \in seen..rv /\ versions'[v] = versions[v]
    BY <1>1, <1>2, <2>2
  <2> QED BY <1>0, <2>1, <2>2, NextVersions DEF VersionsMove
<1>6. ctl'.pc # "idle" => Owned(workflow', ctl'.st)
  BY <1>0, <1>1, <1>2, <1>3, CopyOwns
<1>7. JobsOwn(jobs)' /\ JobsOwn(jobSeen)'
  BY <1>0, <1>1, <1>2, JobsOwnStep
<1> QED BY <1>5, <1>6, <1>7

(* What a step records is the answer to its own prompt, unless two steps   *)
(* of a Workflow share the name of their Job, or the Workflow is edited    *)
(* under the run (workflowrun_piagent.go:126-137, 239-248).                *)
THEOREM OutputIsOwn == DistinctJobs => (Spec => []OwnOutput)
<1> SUFFICES ASSUME DistinctJobs PROVE Spec => []OwnOutput
  OBVIOUS
<1>1. Init => OwnInv
  BY OwnInit
<1>2. Course /\ OwnInv /\ [Next]_vars => OwnInv'
  BY OwnStep
<1>3. Course /\ OwnInv => OwnOutput
  BY DEF Course, TypeOK, StoreTypeOK, OwnInv, OwnOutput, Results, Stored, Owned, OwnResult
<1> QED BY <1>1, <1>2, <1>3, CourseInvariant, PTL DEF Spec
=============================================================================
