--------------------------- MODULE ConfigWatcher ---------------------------
(***************************************************************************)
(* The watcher of the deny rules (pkg/gateway/configwatcher.go): a first   *)
(* load, then a watch on the directory whose events schedule a reload.     *)
(* Rules are the set of the calls they deny.                               *)
(***************************************************************************)
EXTENDS Naturals

CONSTANTS
  RuleSets,   \* what the rules may deny
  Absent,     \* there is no file mcp-deny-rules
  MaxWrites   \* bound: how often the file changes

ASSUME WatcherAssumption == MaxWrites \in Nat

VARIABLES
  file,       \* the file: rules, or Absent
  writes,     \* how often it has changed
  watcher,    \* "none", "loading", "watching" or "failed" (no watcher)
  event,      \* fsnotify holds an event of the directory
  pending,    \* a reload is scheduled, the debounce timer runs
  loaded,     \* mcpDenyRules
  missed      \* history: the file changed when nobody watched it, and was not loaded since

watcherVars == <<file, writes, watcher, event, pending, loaded, missed>>

WatcherTypeOK ==
  /\ file \in RuleSets \union {Absent}
  /\ writes \in 0..MaxWrites
  /\ watcher \in {"none", "loading", "watching", "failed"}
  /\ event \in BOOLEAN /\ pending \in BOOLEAN /\ missed \in BOOLEAN
  /\ loaded \in RuleSets \union {{}}

WatcherInit ==
  /\ file \in RuleSets \union {Absent}
  /\ writes = 0
  /\ watcher = "none"
  /\ event = FALSE /\ pending = FALSE /\ missed = FALSE
  /\ loaded = {}

\* A missing file leaves the rules as they are.
LoadAll ==
  /\ loaded' = IF file = Absent THEN loaded ELSE file
  /\ missed' = FALSE

\* The first load comes before the directory is watched ...
FirstLoad ==
  /\ watcher = "none"
  /\ watcher' = "loading"
  /\ LoadAll
  /\ UNCHANGED <<file, writes, event, pending>>

\* ... and an error gives the handler no watcher at all.
AddWatch ==
  /\ watcher = "loading"
  /\ watcher' \in {"watching", "failed"}
  /\ UNCHANGED <<file, writes, event, pending, loaded, missed>>

\* Variant with a fault: the swap of the link ..data is taken for the change
\* of some other dot file.
HandleFileEvent ==
  /\ watcher = "watching" /\ event
  /\ event' = FALSE
  /\ UNCHANGED <<file, writes, watcher, pending, loaded, missed>>

\* Every relevant event starts the timer anew.
HandleEvent ==
  /\ watcher = "watching" /\ event
  /\ event' = FALSE
  /\ pending' = TRUE
  /\ UNCHANGED <<file, writes, watcher, loaded, missed>>

\* The timer may win against an event that has just come.
DebounceExpires ==
  /\ watcher = "watching" /\ pending
  /\ pending' = FALSE
  /\ LoadAll
  /\ UNCHANGED <<file, writes, watcher, event>>

\* The kubelet swaps the directory, or somebody writes or removes the file.
WriteFile ==
  /\ writes < MaxWrites
  /\ writes' = writes + 1
  /\ file' \in (RuleSets \union {Absent}) \ {file}
  /\ event' = (event \/ watcher = "watching")
  /\ missed' = (missed \/ watcher # "watching")
  /\ UNCHANGED <<watcher, pending, loaded>>

Watching == FirstLoad \/ AddWatch \/ HandleEvent \/ DebounceExpires

\* The rules a request is checked against; none without a watcher.
Rules == IF watcher = "watching" THEN loaded ELSE {}

-----------------------------------------------------------------------------
\* The rules in force become those of the file once it stays as it is,
\* unless it changed between the first load and the watch, or is gone
\* (configwatcher.go:52-55, 99-138).
RulesArriveUnlessMissed ==
  watcher = "watching" ~> (Rules = file \/ file = Absent \/ missed)
=============================================================================
