------------------------------ MODULE GitSync ------------------------------
(***************************************************************************)
(* The controllers of gitworkspace_controller.go: a GitRepo discovers its  *)
(* repositories; a GitWorkspace is cloned by a Deployment of its own once  *)
(* its repository has been discovered.  Its Deployment stays as created:   *)
(* the default branch is the one assumed at first, the credentials and the *)
(* URL of the GitRepo do not change.                                       *)
(***************************************************************************)
EXTENDS AgentReadiness

VARIABLES
  repoWork, workspaceWork,   \* the reconciles under way
  cloned                     \* history: the workspaces some clone of which was finished

gitVars == <<repoWork, workspaceWork, cloned>>

RepoPhases == {"unset", "Syncing", "Ready", "Failed"}
RepoObject == [valid : BOOLEAN, phase : RepoPhases, found : BOOLEAN]
CloneObject == {"unscheduled", "cloning", "failing", "available"}

NewRepo(valid) == [valid |-> valid, phase |-> "unset", found |-> FALSE]

\* The copy a search began with, and whether it has been overtaken.
NoRepoWork == [pc |-> "idle", base |-> Absent, outdated |-> FALSE]
NoWorkspaceWork == [pc |-> "idle", key |-> Absent]

GitTypeOK ==
  /\ repoWork \in [pc : {"idle", "discover"}, base : RepoObject \union {Absent},
                   outdated : BOOLEAN]
  /\ workspaceWork \in [pc : {"idle", "status"}, key : Workspaces \union {Absent}]
  /\ cloned \subseteq Workspaces
  /\ {stored[GitRepo], seen[GitRepo]} \subseteq RepoObject \union {Absent}
  /\ \A w \in Workspaces :
       /\ {stored[Workspace(w)], seen[Workspace(w)]} \subseteq WorkspaceObject \union {Absent}
       /\ {stored[Clone(w)], seen[Clone(w)]} \subseteq CloneObject \union {Absent}

\* A status as the cache has it, with a phase, and the condition Ready with
\* the time of the write, to the second.
Rewrite(o, phase) ==
  LET status == [seen[o] EXCEPT !.phase = phase] IN
  Current(o) /\ (Write(o, status) \/ Touch(o, status))

-----------------------------------------------------------------------------
(* GitRepoReconciler.                                                      *)

Discovering(copy) ==
  repoWork' = [pc |-> "discover", base |-> [copy EXCEPT !.phase = "Syncing"],
               outdated |-> ~Current(GitRepo)]

\* Reconcile up to the search: the copy, its validation, the phase Syncing.
BeginRepo ==
  LET copy == seen[GitRepo]
      left == queue \ {GitRepo}
  IN
  /\ repoWork.pc = "idle" /\ GitRepo \in queue
  /\ \/ /\ copy = Absent
        /\ queue' = left
        /\ UNCHANGED <<api, repoWork>>
     \/ /\ copy # Absent /\ ~copy.valid
        /\ Rewrite(GitRepo, "Failed")
        /\ queue' = left
        /\ UNCHANGED repoWork
     \/ /\ copy # Absent /\ copy.valid /\ copy.phase = "Syncing"
        /\ Discovering(copy)
        /\ queue' = left
        /\ UNCHANGED api
     \/ /\ copy # Absent /\ copy.valid /\ copy.phase # "Syncing"
        /\ Rewrite(GitRepo, "Syncing")
        /\ Discovering(copy)
        /\ queue' = left
     \* A refused write: the key stays on the queue.
     \/ /\ copy # Absent /\ ~Current(GitRepo)
        /\ copy.valid => copy.phase # "Syncing"
        /\ UNCHANGED <<queue, api, repoWork>>
  /\ UNCHANGED <<refs, seen, timers, mishaps, workspaceWork, cloned>>

\* The search ends, and with it the reconcile.
EndRepo(phase, found) ==
  /\ repoWork.pc = "discover"
  /\ repoWork' = NoRepoWork
  /\ \/ /\ ~repoWork.outdated
        /\ Write(GitRepo, [repoWork.base EXCEPT !.phase = phase, !.found = found])
        /\ timers' = timers \union {k \in {GitRepo} : phase = "Ready"}
        /\ UNCHANGED queue
     \/ /\ repoWork.outdated
        /\ queue' = queue \union {GitRepo}
        /\ UNCHANGED <<api, timers>>
  /\ UNCHANGED <<refs, seen, workspaceWork, cloned>>

\* The forge lists the repository; and again after syncInterval.
Discover == EndRepo("Ready", TRUE) /\ UNCHANGED mishaps

\* It lists others only.
DiscoverOthers == EndRepo("Ready", FALSE) /\ Mishap

\* Credentials or the forge fail: setFailed, which does not requeue.
DiscoverFails == EndRepo("Failed", repoWork.base.found) /\ Mishap

ReconcileRepo == BeginRepo \/ Discover

-----------------------------------------------------------------------------
(* GitWorkspaceReconciler.                                                 *)

\* validateGitRepo and resolveCloneURL.
Discovered == seen[GitRepo] # Absent /\ seen[GitRepo].phase = "Ready" /\ seen[GitRepo].found

\* Mutant: the word of a GitRepo for a failure.
ClonePhaseOfRepo(w) ==
  CASE seen[Clone(w)] = "available" -> "Ready"
    [] seen[Clone(w)] = "cloning" -> "Cloning"
    [] seen[Clone(w)] = "failing" -> "Failed"
    [] OTHER -> "Pending"

\* determinePhase.
ClonePhase(w) ==
  CASE seen[Clone(w)] = "available" -> "Ready"
    [] seen[Clone(w)] = "cloning" -> "Cloning"
    [] seen[Clone(w)] = "failing" -> "Error"
    [] OTHER -> "Pending"

\* Mutant: an error is not tried again, as with a GitRepo.
EndWithErrorForGood(w, left) ==
  LET o == Workspace(w) IN
  \/ /\ Rewrite(o, "Error")
     /\ queue' = left
     /\ UNCHANGED timers
  \/ /\ ~Current(o)
     /\ queue' = left \union {o}
     /\ UNCHANGED <<api, timers>>

\* setWorkspaceFailed: the copy the reconcile began with is the cache's.
EndWithError(w, left) ==
  LET o == Workspace(w) IN
  \/ /\ Rewrite(o, "Error")
     /\ timers' = timers \union {o}
     /\ queue' = left
  \/ /\ ~Current(o)
     /\ queue' = left \union {o}
     /\ UNCHANGED <<api, timers>>

\* updateStatus: a fresh copy; an error is logged and forgotten.  Reconcile is
\* repeated after a while.  The expiry of idle workspaces needs a
\* LastFetchTime, which no code sets.
EndWithPhase(w, left) ==
  LET o == Workspace(w) IN
  /\ \/ seen[o] # Absent /\ Rewrite(o, ClonePhase(w))
     \/ (seen[o] = Absent \/ ~Current(o)) /\ UNCHANGED api
  /\ timers' = timers \union {o}
  /\ queue' = left

\* The volume and the Deployment are created; one in the way is an error.
CreateClone(w, left) ==
  /\ seen[Clone(w)] = Absent
  /\ \/ /\ stored[Clone(w)] = Absent
        /\ Write(Clone(w), "unscheduled")
        /\ workspaceWork' = [pc |-> "status", key |-> w]
        /\ queue' = left /\ UNCHANGED timers
     \/ /\ stored[Clone(w)] # Absent
        /\ EndWithError(w, left)
        /\ UNCHANGED workspaceWork

\* Reconcile up to its first write.
BeginWorkspace(w) ==
  /\ workspaceWork.pc = "idle" /\ Workspace(w) \in queue
  /\ LET left == queue \ {Workspace(w)} IN
     \/ /\ seen[Workspace(w)] = Absent
        /\ queue' = left
        /\ UNCHANGED <<api, timers, workspaceWork>>
     \/ /\ seen[Workspace(w)] # Absent /\ ~Discovered
        /\ EndWithError(w, left)
        /\ UNCHANGED workspaceWork
     \/ /\ seen[Workspace(w)] # Absent /\ Discovered
        /\ CreateClone(w, left)
     \/ /\ seen[Workspace(w)] # Absent /\ Discovered /\ seen[Clone(w)] # Absent
        /\ EndWithPhase(w, left)
        /\ UNCHANGED workspaceWork
  /\ UNCHANGED <<refs, seen, mishaps, repoWork, cloned>>

EndWorkspace ==
  /\ workspaceWork.pc = "status"
  /\ workspaceWork' = NoWorkspaceWork
  /\ EndWithPhase(workspaceWork.key, queue)
  /\ UNCHANGED <<refs, seen, mishaps, repoWork, cloned>>

ReconcileWorkspace == (\E w \in Workspaces : BeginWorkspace(w)) \/ EndWorkspace

-----------------------------------------------------------------------------
(* Users, and the pods of the clones.                                      *)

CreateRepo ==
  /\ stored[GitRepo] = Absent
  /\ Write(GitRepo, NewRepo(TRUE))
  /\ UNCHANGED <<refs, seen, queue, timers, mishaps, gitVars>>

\* The edit of a specification, or the end of the object.
EditRepo ==
  /\ stored[GitRepo] # Absent
  /\ Mishap
  /\ \/ Write(GitRepo, [stored[GitRepo] EXCEPT !.valid = ~@])
     \/ Write(GitRepo, Absent)
  /\ repoWork' = [repoWork EXCEPT !.outdated = repoWork.pc # "idle"]
  /\ UNCHANGED <<refs, seen, queue, timers, workspaceWork, cloned>>

\* An Agent creates its own.
CreateWorkspace(w) ==
  /\ stored[Workspace(w)] = Absent
  /\ \E a \in Agents : w \in refs[a].workspaces /\ ~refs[a].agent
  /\ Write(Workspace(w), NewWorkspace)
  /\ UNCHANGED <<refs, seen, queue, timers, mishaps, gitVars>>

DeleteWorkspace(w) ==
  /\ stored[Workspace(w)] # Absent
  /\ Mishap
  /\ Become([stored EXCEPT ![Workspace(w)] = Absent, ![Clone(w)] = Absent])
  /\ UNCHANGED <<refs, seen, queue, timers, gitVars>>

CloneAdvances(w) ==
  /\ stored[Clone(w)] \in {"unscheduled", "cloning", "failing"}
  /\ LET next == IF stored[Clone(w)] = "cloning" THEN "available" ELSE "cloning" IN
     /\ Write(Clone(w), next)
     /\ cloned' = cloned \union {v \in {w} : next = "available"}
  /\ UNCHANGED <<refs, seen, queue, timers, mishaps, repoWork, workspaceWork>>

CloneFails(w) ==
  /\ stored[Clone(w)] \in {"cloning", "available"}
  /\ Mishap
  /\ \E s \in {"unscheduled", "failing"} : Write(Clone(w), s)
  /\ UNCHANGED <<refs, seen, queue, timers, gitVars>>
=============================================================================
