---------------------------- MODULE MCReadiness ----------------------------
(* Instances of Readiness for TLC: what the Agent refers to.               *)
EXTENDS Readiness

Setup(caps, workspaces, agent, max) ==
  [caps |-> caps, workspaces |-> workspaces, agent |-> agent, mishaps |-> max]

OneServer == Setup({"server"}, {}, TRUE, 1)
OneSkill == Setup({"skill"}, {}, TRUE, 1)
Recreated == Setup({"skill"}, {}, TRUE, 2)
OneWorkspace == Setup({}, {"repo-clone"}, TRUE, 0)
OnlyClone == Setup({}, {"repo-clone"}, FALSE, 1)

OnePlugin == Setup({"plugin"}, {}, TRUE, 1)

MCSetups == {OneServer, OnePlugin, Recreated, OneWorkspace, OnlyClone}
MCNoClones == {OneServer, OneSkill}
Nobody == Setup({}, {}, FALSE, 1)

MCTwoUsers == {Setup({"skill"}, {}, TRUE, 0), Setup({"skill", "plugin"}, {}, TRUE, 0)}
MCUsers == MCNoClones \union {Nobody} \union MCTwoUsers
MCOneClone == {Setup({}, {"repo-clone"}, FALSE, 0)}

\* One Agent alone; or two that share a capability, one of which waits for
\* another capability that nobody creates.
OneOrTwo ==
  /\ Init
  /\ IF refs["two"] = Nobody
     THEN refs["one"] \in MCNoClones
     ELSE /\ \A a \in Agents : refs[a] \in MCTwoUsers
          /\ refs["one"] # refs["two"]
          /\ \A o \in UserObjects : InUse(o) => Exists(o) = (o # Capability("plugin"))

FairSpecOfUsers == OneOrTwo /\ [][Next]_vars /\ Fairness
=============================================================================
