---------------------------- MODULE RequestReply ----------------------------
(***************************************************************************)
(* What a tool server promises to who talks to it over its stdin and       *)
(* stdout: a request is answered once at most, in the order of the         *)
(* requests if the server is an ordered one, and an ordered server that    *)
(* ends because its stdin ended has answered all of them.                  *)
(***************************************************************************)
EXTENDS Naturals, Sequences

VARIABLES
  ordered,   \* whether the server answers in order
  asked,     \* the lines sent: whether each is a request that wants an answer
  answers,   \* which of them each answer is to
  ended      \* "no", "drained" or "cut"

vars == <<ordered, asked, answers, ended>>

Answered == {answers[i] : i \in DOMAIN answers}

Waiting == {p \in DOMAIN asked : asked[p]} \ Answered

Init ==
  /\ ordered \in BOOLEAN
  /\ asked = <<>> /\ answers = <<>> /\ ended = "no"

Ask ==
  /\ ended = "no"
  /\ \E wants \in BOOLEAN : asked' = Append(asked, wants)
  /\ UNCHANGED <<ordered, answers, ended>>

Answer ==
  /\ ended = "no"
  /\ \E p \in Waiting :
       /\ ordered => \A q \in Waiting : p <= q
       /\ answers' = Append(answers, p)
  /\ UNCHANGED <<ordered, asked, ended>>

Drain ==
  /\ ended = "no" /\ ordered /\ Waiting = {}
  /\ ended' = "drained"
  /\ UNCHANGED <<ordered, asked, answers>>

Cut ==
  /\ ended = "no"
  /\ ended' = "cut"
  /\ UNCHANGED <<ordered, asked, answers>>

Next == Ask \/ Answer \/ Drain \/ Cut

Spec == Init /\ [][Next]_vars
=============================================================================
