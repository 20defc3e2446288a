----------------------------- MODULE MCGateway -----------------------------
(* Instances of Gateway for TLC: what a gateway is configured with, and    *)
(* the calls its clients make.                                             *)
EXTENDS Gateway, TLC

\* Without a limit, with rules that are reloaded.
Served == { [rpm |-> 0, command |-> TRUE, watch |-> TRUE, calls |-> Calls] }

\* Limited, without rules; the server cannot be spawned.
Limited == { [rpm |-> 2, command |-> FALSE, watch |-> FALSE, calls |-> Calls] }

\* Nothing is denied, or one call.
NoneOrFirst == { {}, {"c1"} }
NoRules == { {} }

CallSymmetry == Permutations(Calls)
=============================================================================
