--------------------------- MODULE WebhookServer ---------------------------
(***************************************************************************)
(* The webhook server: a delivery is matched with the Workflows in the     *)
(* cache and starts a run of each, one after the other; several deliveries *)
(* are handled at once, and a sender may give up and deliver again.        *)
(***************************************************************************)
EXTENDS WorkflowTriggers

CONSTANT Deliveries   \* the requests that may come: what their headers and body say

\* A run that a CronJob created is none of a webhook.
ASSUME CausesAssumption == NoCause \notin Deliveries \X Nat

VARIABLE http         \* the handler of each delivery

Unsent == [pc |-> "unsent", attempt |-> 0, todo |-> {}, matched |-> {}, made |-> 0]

HttpTypeOK ==
  http \in [Deliveries -> [pc : {"unsent", "creating", "answered", "failed", "broken"},
                           attempt : Nat, todo : SUBSET Workflows,
                           matched : SUBSET Workflows, made : Nat]]

\* "Push Hook" and "push" are the same event of GitLab.
Normalized(event) ==
  CASE event = "Push Hook" -> "push"
    [] event = "Merge Request Hook" -> "merge_request"
    [] event = "Issue Hook" -> "issue"
    [] OTHER -> event

EventMatches(t, d) ==
  IF t.kind = "github" THEN d.event \in t.events
  ELSE Normalized(d.event) \in {Normalized(e) : e \in t.events}

\* A pattern and a branch are their parts between slashes: a star, and two
\* stars alike, stand for one part.
GlobMatches(pattern, branch) ==
  /\ Len(pattern) = Len(branch)
  /\ \A i \in DOMAIN pattern : pattern[i] \in {branch[i], "*", "**"}

\* Only a push and a pull request have a branch; what has none passes.
BranchMatches(t, d) ==
  \/ t.branches = {} \/ d.branch = <<>>
  \/ Normalized(d.event) \notin {"push", "pull_request", "merge_request"}
  \/ \E p \in t.branches : GlobMatches(p, d.branch)

\* The filters of a trigger. The secret is read first: unreadable, nothing matches.
Matches(t, d, readable) ==
  /\ t.kind = d.kind
  /\ IF t.kind = "generic" THEN t.path = d.path
     ELSE /\ t.secret => readable /\ d.signed
          /\ EventMatches(t, d) /\ d.json
          /\ t.sources # {} => d.source \in t.sources
          /\ BranchMatches(t, d)
          /\ t.actions = {} \/ d.action = "" \/ d.action \in t.actions
          /\ t.labels \subseteq d.labels

\* Workflows that run on a delivery, as the cache shows them.
Matching(d) ==
  {w \in Workflows :
     /\ Known(Workflow(w)) /\ ~seen[Workflow(w)].spec.suspend
     /\ Matches(seen[Workflow(w)].spec.trigger, d, Known(Secret))}

\* A delivery arrives and is matched; without a match it is answered at once.
Receive(d) ==
  /\ http[d].pc = "unsent" /\ d \in setup.deliveries
  /\ http' = [http EXCEPT ![d] =
       [pc |-> IF Matching(d) = {} THEN "answered" ELSE "creating",
        attempt |-> http[d].attempt + 1,
        todo |-> Matching(d), matched |-> Matching(d), made |-> 0]]
  /\ UNCHANGED <<objectVars, wfVars>>

\* The list of Workflows cannot be read: before the caches are filled.
ListFails(d) ==
  /\ http[d].pc = "unsent" /\ d \in setup.deliveries /\ Mishap
  /\ http' = [http EXCEPT ![d].pc = "failed", ![d].attempt = @ + 1]
  /\ UNCHANGED <<setup, api, seen, queue, wfVars>>

Handled(d, w, made) ==
  LET left == http[d].todo \ {w} IN
  http' = [http EXCEPT ![d].todo = left, ![d].made = @ + made,
                       ![d].pc = IF left = {} THEN "answered" ELSE "creating"]

RunFor(d, w) == [workflow |-> w, cause |-> <<d, http[d].attempt>>]

\* Every run is created by itself, and the delivery answered after the last.
CreateRun(d, w) ==
  /\ http[d].pc = "creating" /\ w \in http[d].todo
  /\ runs' = Append(runs, RunFor(d, w))
  /\ Handled(d, w, 1)
  /\ UNCHANGED <<objectVars, wfWork>>

\* Mutant: a failed creation is tried again.
CreateAgain(d, w) ==
  /\ http[d].pc = "creating" /\ w \in http[d].todo /\ Mishap
  /\ runs' \in {runs, Append(runs, RunFor(d, w))}
  /\ UNCHANGED <<setup, api, seen, queue, wfWork, http>>

\* A failure is logged, and the next Workflow gets its run; the API server
\* may have stored the run when only its answer was lost.
CreateFails(d, w) ==
  /\ http[d].pc = "creating" /\ w \in http[d].todo /\ Mishap
  /\ runs' \in {runs, Append(runs, RunFor(d, w))}
  /\ Handled(d, w, 0)
  /\ UNCHANGED <<setup, api, seen, queue, wfWork>>

\* The sender waits no longer: its request is cancelled, and with it what is
\* still to be created.
SenderGivesUp(d) ==
  /\ http[d].pc = "creating" /\ Mishap
  /\ http' = [http EXCEPT ![d].pc = "broken", ![d].todo = {}]
  /\ UNCHANGED <<setup, api, seen, queue, wfVars>>

\* It may deliver again what was not answered, or was answered with an error.
SendAgain(d) ==
  /\ http[d].pc \in {"broken", "failed"} /\ Mishap
  /\ http' = [http EXCEPT ![d].pc = "unsent"]
  /\ UNCHANGED <<setup, api, seen, queue, wfVars>>

Broken(h) == IF h.pc = "creating" THEN [h EXCEPT !.pc = "broken", !.todo = {}] ELSE h

Serve(d) == Receive(d) \/ \E w \in Workflows : CreateRun(d, w)

ServeFails(d) ==
  \/ ListFails(d) \/ SenderGivesUp(d) \/ SendAgain(d)
  \/ \E w \in Workflows : CreateFails(d, w)
=============================================================================
