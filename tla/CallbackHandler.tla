-------------------------- MODULE CallbackHandler --------------------------
(***************************************************************************)
(* The trace callbacks of the pi-runner: images/pi-runner/src/runner.ts    *)
(* posts each event once, without waiting (sendCallback); the operator's   *)
(* handler (internal/webhook/callback.go) appends it to the events of the  *)
(* step in the status of the run, up to three times while its update is    *)
(* refused as a conflict.  Requests of a runner are served concurrently,   *)
(* one handler goroutine each, so `req' has one entry per event.           *)
(***************************************************************************)
EXTENDS RunStore

MaxRetries == 3

VARIABLE req   \* per event: the request and the handler that serves it

RequestStates ==
  {"unsent", "sent", "held", "retry", "accepted", "refused", "lost"}

Request == [pc : RequestStates, name : Names \union {NoJob},
            attempt : 0..(MaxRetries - 1), base : Nat, st : Status]

NoRequest == [pc |-> "unsent", name |-> NoJob, attempt |-> 0, base |-> 0,
              st |-> EmptyStatus]

RequestTypeOK == req \in [Events -> Request]

RequestInit == req = [e \in Events |-> NoRequest]

\* The handler has answered (or nobody is left to answer).
Finish(e, outcome) ==
  req' = [req EXCEPT ![e] = [@ EXCEPT !.pc = outcome, !.base = 0,
                                      !.attempt = 0, !.st = EmptyStatus]]

\* The handler goes into its next attempt, with a copy of its own.
NextAttempt(r) == [r EXCEPT !.pc = "retry", !.base = 0,
                            !.attempt = r.attempt + 1, !.st = EmptyStatus]

TryAgain(e) == req' = [req EXCEPT ![e] = NextAttempt(req[e])]

\* The runner posts the event to the URL that names its step.
Post(e, n) ==
  /\ req[e].pc = "unsent"
  /\ req' = [req EXCEPT ![e].pc = "sent", ![e].name = n]
  /\ UNCHANGED storeVars

\* The request is dropped, or the runner's five seconds pass before the
\* handler has done anything with it.
Drop(e) ==
  /\ req[e].pc = "sent"
  /\ Finish(e, "lost")
  /\ UNCHANGED storeVars

\* The run cannot be read, or the request cannot be parsed.
FetchFails(e) ==
  /\ req[e].pc \in {"sent", "retry"}
  /\ Finish(e, "refused")
  /\ UNCHANGED storeVars

\* Get, or the Get of a retry: the copy in the cache with the event added
\* to the first result of that name; 404 when there is none.
Fetch(e) ==
  /\ req[e].pc \in {"sent", "retry"}
  /\ IF StepNamed(Cached, req[e].name) = {} THEN Finish(e, "refused")
     ELSE req' = [req EXCEPT ![e] = [@ EXCEPT
            !.pc = "held", !.base = seen,
            !.st = AppendEvent(Cached, FirstNamed(Cached, req[e].name), e)]]
  /\ UNCHANGED storeVars

Accept(e) ==
  /\ req[e].pc = "held"
  /\ IsLatest(req[e].base)
  /\ Persist(req[e].st)
  /\ Finish(e, "accepted")

\* Variant with a fault: one attempt too many.
ConflictOffByOne(e) ==
  /\ req[e].pc = "held"
  /\ ~IsLatest(req[e].base)
  /\ IF req[e].attempt < MaxRetries
     THEN TryAgain(e)
     ELSE Finish(e, "refused")
  /\ UNCHANGED storeVars

\* Variant with a fault: after the last attempt the answer is 202 all the same.
ConflictAccepted(e) ==
  /\ req[e].pc = "held"
  /\ ~IsLatest(req[e].base)
  /\ IF req[e].attempt < MaxRetries - 1
     THEN TryAgain(e)
     ELSE Finish(e, "accepted")
  /\ UNCHANGED storeVars

\* "the object has been modified": try again with another copy, if this
\* was not the last attempt.
Conflict(e) ==
  /\ req[e].pc = "held"
  /\ ~IsLatest(req[e].base)
  /\ IF req[e].attempt < MaxRetries - 1
     THEN TryAgain(e)
     ELSE Finish(e, "refused")
  /\ UNCHANGED storeVars

\* Variant with a fault: every error is taken for a conflict and retried.
UpdateFailsRetrying(e) ==
  /\ req[e].pc = "held"
  /\ req[e].attempt < MaxRetries - 1
  /\ TryAgain(e)
  /\ \/ UNCHANGED storeVars
     \/ IsLatest(req[e].base) /\ Persist(req[e].st)

\* Another error, or the client's timeout cancels the update on its way:
\* no retry, and the update may have been applied.
UpdateFails(e) ==
  /\ req[e].pc = "held"
  /\ Finish(e, "refused")
  /\ \/ UNCHANGED storeVars
     \/ IsLatest(req[e].base) /\ Persist(req[e].st)

\* A restart of the operator ends every handler.
RestartHandlers ==
  req' = [e \in Events |->
            IF req[e].pc \in {"held", "retry"}
            THEN [NoRequest EXCEPT !.pc = "lost", !.name = req[e].name]
            ELSE req[e]]

Handle(e) ==
  \/ Drop(e) \/ FetchFails(e) \/ Fetch(e)
  \/ Accept(e) \/ Conflict(e) \/ UpdateFails(e)
=============================================================================
