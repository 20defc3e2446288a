------------------------- MODULE RunLifecycleProofs -------------------------
(* The promises of RunLifecycle hold for every number of steps.            *)
EXTENDS RunLifecycle, SeqFacts

\* The strengthening: a run that has not started is at its first step.
StartsAtFirst == phase = "unset" => cur = 0

\* The inductive invariant.
LifecycleInv ==
  /\ LifecycleTypeOK
  /\ OneStepAtATime
  /\ CurrentInRange
  /\ StartsAtFirst

LEMMA LifecycleInit == Init => LifecycleInv
<1> SUFFICES ASSUME Init PROVE LifecycleInv
  OBVIOUS
<1>1. results \in Seq(StepPhase) /\ Len(results) = 0 /\ DOMAIN results = {}
  BY EmptyIsSeq DEF Init
<1>2. phase = "unset" /\ cur = 0
  BY DEF Init
<1>3. LifecycleTypeOK
  BY <1>1, <1>2 DEF LifecycleTypeOK
<1>4. OneStepAtATime
  BY <1>1 DEF OneStepAtATime
<1>5. CurrentInRange
  BY <1>1, <1>2 DEF CurrentInRange
<1> QED BY <1>2, <1>3, <1>4, <1>5 DEF LifecycleInv, StartsAtFirst

\* The positions of the results are 1 to their number.
LEMMA ResultsDomain ==
  ASSUME LifecycleTypeOK
  PROVE  /\ Len(results) \in Nat
         /\ DOMAIN results = 1..Len(results)
         /\ \A q \in DOMAIN results : results[q] \in StepPhase
<1>1. results \in Seq(StepPhase)
  BY DEF LifecycleTypeOK
<1> QED BY <1>1, LenProperties, ElementOfSeq

\* Changing one result keeps the sequence, its length and the others.
LEMMA BecomesType ==
  ASSUME LifecycleTypeOK, NEW p \in DOMAIN results, NEW to \in StepPhase,
         Becomes(p, to)
  PROVE  /\ results' \in Seq(StepPhase)
         /\ Len(results') = Len(results)
         /\ DOMAIN results' = DOMAIN results
         /\ results'[p] = to
         /\ \A q \in DOMAIN results : q # p => results'[q] = results[q]
<1>1. results \in Seq(StepPhase) /\ results' = [results EXCEPT ![p] = to]
  BY DEF LifecycleTypeOK, Becomes
<1>2. /\ [results EXCEPT ![p] = to] \in Seq(StepPhase)
      /\ Len([results EXCEPT ![p] = to]) = Len(results)
      /\ DOMAIN [results EXCEPT ![p] = to] = DOMAIN results
      /\ [results EXCEPT ![p] = to][p] = to
      /\ \A q \in DOMAIN results :
           q # p => [results EXCEPT ![p] = to][q] = results[q]
  BY <1>1, ChangeSeq
<1> QED BY <1>1, <1>2

\* What a change at the current position keeps, whatever the result becomes:
\* the step may be left behind only when it is over.
LEMMA StepKeepsInv ==
  ASSUME LifecycleInv, phase = "Running", NEW p, NEW to \in StepPhase,
         p = cur + 1, p \in DOMAIN results, Becomes(p, to),
         phase' \in {"Running", "Failed"},
         cur' = cur \/ (cur' = cur + 1 /\ to \in Finished)
  PROVE  LifecycleInv'
<1>1. /\ Len(results) \in Nat /\ DOMAIN results = 1..Len(results)
      /\ cur \in Nat /\ cur + 1 <= Len(results) /\ cur <= Len(results)
  BY ResultsDomain DEF LifecycleInv, LifecycleTypeOK, CurrentInRange
<1>2. /\ results' \in Seq(StepPhase)
      /\ Len(results') = Len(results)
      /\ DOMAIN results' = DOMAIN results
      /\ results'[p] = to
      /\ \A q \in DOMAIN results : q # p => results'[q] = results[q]
  BY BecomesType DEF LifecycleInv
<1>3. \A q \in DOMAIN results :
        /\ q <= cur => results[q] \in Finished
        /\ q > cur + 1 => results[q] = "Pending"
  BY DEF LifecycleInv, OneStepAtATime
<1>4. LifecycleTypeOK'
  <2>1. phase' \in {"unset", "Running", "Succeeded", "Failed"}
    OBVIOUS
  <2>2. cur' \in Nat
    BY <1>1
  <2> QED BY <1>2, <2>1, <2>2 DEF LifecycleTypeOK
<1>5. OneStepAtATime'
  <2> SUFFICES ASSUME NEW q \in DOMAIN results
               PROVE  /\ q <= cur' => results'[q] \in Finished
                      /\ q > cur' + 1 => results'[q] = "Pending"
    BY <1>2 DEF OneStepAtATime
  <2>1. CASE q = p
    BY <2>1, <1>1, <1>2
  <2>2. CASE q # p
    BY <2>2, <1>1, <1>2, <1>3
  <2> QED BY <2>1, <2>2
<1>6. CurrentInRange'
  BY <1>1, <1>2 DEF CurrentInRange
<1> QED BY <1>4, <1>5, <1>6 DEF LifecycleInv, StartsAtFirst

\* Nothing but CurrentStep moves, behind a step that is over.
LEMMA AdvanceKeepsInv ==
  ASSUME LifecycleInv, NEW p, p = cur + 1, p \in DOMAIN results,
         results[p] \in Finished, phase \in {"Running", "Failed"},
         cur' = cur + 1, UNCHANGED <<phase, results>>
  PROVE  LifecycleInv'
<1>1. /\ Len(results) \in Nat /\ DOMAIN results = 1..Len(results)
      /\ cur \in Nat /\ cur + 1 <= Len(results)
  BY ResultsDomain DEF LifecycleInv, LifecycleTypeOK, CurrentInRange
<1>2. \A q \in DOMAIN results :
        /\ q <= cur => results[q] \in Finished
        /\ q > cur + 1 => results[q] = "Pending"
  BY DEF LifecycleInv, OneStepAtATime
<1>3. LifecycleTypeOK'
  BY <1>1 DEF LifecycleInv, LifecycleTypeOK
<1>4. OneStepAtATime'
  <2> SUFFICES ASSUME NEW q \in DOMAIN results
               PROVE  /\ q <= cur + 1 => results[q] \in Finished
                      /\ q > cur + 1 + 1 => results[q] = "Pending"
    BY DEF OneStepAtATime
  <2> QED BY <1>1, <1>2
<1>5. CurrentInRange'
  BY <1>1 DEF CurrentInRange
<1> QED BY <1>3, <1>4, <1>5 DEF LifecycleInv, StartsAtFirst

LEMMA StartKeepsInv == LifecycleInv /\ Start => LifecycleInv'
<1> SUFFICES ASSUME LifecycleInv, Start PROVE LifecycleInv'
  OBVIOUS
<1>1. PICK n \in 0..MaxSteps : results' = [p \in 1..n |-> "Pending"]
  BY DEF Start
<1>2. n \in Nat
  OBVIOUS
<1>3. results' \in [1..n -> StepPhase]
  BY <1>1 DEF StepPhase
<1>4. results' \in Seq(StepPhase) /\ Len(results') = n /\ DOMAIN results' = 1..n
  BY <1>2, <1>3, FunctionIsSeq
<1>5. phase' = "Running" /\ cur = 0 /\ cur' = 0
  BY DEF Start, LifecycleInv, StartsAtFirst
<1>6. LifecycleTypeOK'
  BY <1>4, <1>5 DEF LifecycleTypeOK
<1>7. OneStepAtATime'
  <2> SUFFICES ASSUME NEW q \in 1..n
               PROVE  ~(q <= 0) /\ results'[q] = "Pending"
    BY <1>4, <1>5 DEF OneStepAtATime
  <2> QED BY <1>1
<1>8. CurrentInRange' /\ StartsAtFirst'
  BY <1>2, <1>4, <1>5 DEF CurrentInRange, StartsAtFirst
<1> QED BY <1>6, <1>7, <1>8 DEF LifecycleInv

LEMMA LifecycleStep == LifecycleInv /\ [Next]_lifecycle => LifecycleInv'
<1> SUFFICES ASSUME LifecycleInv, [Next]_lifecycle PROVE LifecycleInv'
  OBVIOUS
<1>1. CASE Start
  BY <1>1, StartKeepsInv
<1>2. CASE Abort
  BY <1>2 DEF Abort, LifecycleInv, LifecycleTypeOK, OneStepAtATime,
              CurrentInRange, StartsAtFirst
<1>3. CASE Succeed
  BY <1>3 DEF Succeed, LifecycleInv, LifecycleTypeOK, OneStepAtATime,
              CurrentInRange, StartsAtFirst
<1>4. ASSUME NEW p \in 1..MaxSteps, StepAction(p)
      PROVE  LifecycleInv'
  <2> USE DEF At
  <2>1. CASE StartStep(p)
    BY <2>1, StepKeepsInv DEF StartStep, StepPhase
  <2>2. CASE SkipStep(p)
    BY <2>2, StepKeepsInv DEF SkipStep, StepPhase, Finished
  <2>3. CASE SucceedStep(p)
    BY <2>3, StepKeepsInv DEF SucceedStep, StepPhase, Finished
  <2>4. CASE PassStep(p)
    BY <2>4, StepKeepsInv DEF PassStep, StepPhase, Finished
  <2>5. CASE FailStep(p)
    BY <2>5, StepKeepsInv DEF FailStep, StepPhase
  <2>6. CASE AdvanceStep(p)
    BY <2>6, AdvanceKeepsInv DEF AdvanceStep, Finished
  <2> QED BY <1>4, <2>1, <2>2, <2>3, <2>4, <2>5, <2>6 DEF StepAction
<1>5. CASE UNCHANGED lifecycle
  BY <1>5 DEF lifecycle, LifecycleInv, LifecycleTypeOK, OneStepAtATime,
              CurrentInRange, StartsAtFirst
<1> QED BY <1>1, <1>2, <1>3, <1>4, <1>5 DEF Next

LEMMA LifecycleInvariant == Spec => []LifecycleInv
BY LifecycleInit, LifecycleStep, PTL DEF Spec

(* A run is at most at one step: everything before it is over, everything  *)
(* after it untouched.                                                     *)
THEOREM LifecycleOneStepAtATime == Spec => []OneStepAtATime
<1>1. LifecycleInv => OneStepAtATime
  BY DEF LifecycleInv
<1> QED BY <1>1, LifecycleInvariant, PTL
=============================================================================
