------------------------------ MODULE RunStore ------------------------------
(***************************************************************************)
(* The WorkflowRun object as the operator sees it: the API server holds    *)
(* the latest version; the manager's client reads from an informer cache   *)
(* that receives every version in order, some time later; a status update  *)
(* carries the resource version of the copy it was made from and is        *)
(* refused unless that version is still the latest.  cmd/operator/main.go  *)
(* hands this one client (mgr.GetClient()) to the reconcilers and to the   *)
(* callback handler alike.                                                 *)
(***************************************************************************)
EXTENDS RunStatus

CONSTANT MaxLag   \* bound: versions the cache may be behind

ASSUME MaxLagAssumption == MaxLag \in Nat \ {0}

VARIABLES
  versions,   \* the versions from the one in the cache to the latest one
  rv,         \* resource version at the API server
  seen        \* resource version in the informer cache

storeVars == <<versions, rv, seen>>

Stored == versions[rv]
Cached == versions[seen]

StoreTypeOK ==
  /\ rv \in Nat /\ seen \in Nat /\ seen <= rv
  /\ versions \in [seen..rv -> Status]

StoreInit ==
  /\ rv = 0 /\ seen = 0
  /\ versions = [v \in {0} |-> EmptyStatus]

\* The API server accepts a status and gives it the next version.
Persist(st) ==
  /\ rv - seen < MaxLag
  /\ rv' = rv + 1
  /\ versions' = [v \in seen..(rv + 1) |-> IF v = rv + 1 THEN st
                                           ELSE versions[v]]
  /\ UNCHANGED seen

\* Variant with a fault: updates without a resource version.
AnyVersion(v) == v <= rv

\* The precondition of Status().Update: a copy of the latest version.
IsLatest(v) == v = rv

\* The watch delivers the next version to the cache.
CacheSync ==
  /\ seen < rv
  /\ seen' = seen + 1
  /\ versions' = [v \in (seen + 1)..rv |-> versions[v]]
  /\ UNCHANGED rv

\* A restarted operator lists the object before it serves anything.
CacheRelist ==
  /\ seen' = rv
  /\ versions' = [v \in rv..rv |-> versions[v]]
  /\ UNCHANGED rv
=============================================================================
