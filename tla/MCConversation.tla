--------------------------- MODULE MCConversation ---------------------------
(* Instances of Conversation for TLC.                                       *)
EXTENDS Conversation

MCMessages == {"hello", "again", "other"}
MCSender == [m \in MCMessages |-> IF m = "other" THEN "bob" ELSE "alice"]

Setup(messages, server, lines, may, max) ==
  [messages |-> messages, kind |-> server, lines |-> lines, calls |-> may, mishaps |-> max]

DirectExec == Setup({}, "exec", Lines, {}, 1)
DirectBridge == Setup({}, "bridge", Lines, {}, 1)
OneUser == Setup({"hello", "again"}, "exec", {}, {"quick", "daemon"}, 1)
TwoUsers == Setup({"hello", "other"}, "exec", {}, {}, 1)
EndlessTool == Setup({"hello", "again"}, "bridge", {}, {"endless"}, 0)
Crowd == Setup(MCMessages, "bridge", {}, {"quick"}, 0)

MCSetups == {DirectExec, DirectBridge, OneUser, TwoUsers, EndlessTool, Crowd}
=============================================================================
