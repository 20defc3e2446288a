---------------------------- MODULE MCRunSystem ----------------------------
(* Instances of RunSystem for TLC: the Workflows each run starts from.     *)
EXTENDS RunSystem, TLC

EventSymmetry == Permutations(Events)

Agent(n, cont, cond, uses) ==
  [name |-> n, kind |-> "agent", cont |-> cont, cond |-> cond, uses |-> uses,
   parses |-> TRUE]

Pi(n, cont, cond, uses) == [Agent(n, cont, cond, uses) EXCEPT !.kind = "pi"]

Broken(step) == [step EXCEPT !.parses = FALSE]

Steps(ss) == [mode |-> "steps", steps |-> ss, output |-> "last"]

SimpleRun(s) == [mode |-> "simple", steps |-> <<s>>, output |-> "last"]

\* A Job name per step name, as long as run and step names are short.
MCJobName == [n \in Names |-> n]

\* Two steps of the Pi runtime.
MCPiPi == { Steps(<<Pi("a", TRUE, 0, 0), Pi("b", FALSE, 1, 0)>>) }

\* Both runtimes in turn, with a condition on the first step, a prompt that
\* indexes its output and steps that may fail; and the two simple modes.
MCMixed ==
  { Steps(<<Pi("a", FALSE, 0, 0), Agent("b", FALSE, 1, 1)>>),
    [Steps(<<Agent("a", TRUE, 0, 0), Pi("b", TRUE, 1, 0)>>)
       EXCEPT !.output = "a"],
    SimpleRun(Pi("a", FALSE, 0, 0)),
    SimpleRun(Agent("a", FALSE, 0, 0)) }

\* A failed step that is passed, before a prompt that does not need its
\* output or cannot do without it; and a prompt that is never rendered.
MCAgents ==
  { Steps(<<Agent("a", TRUE, 0, 0), Agent("b", FALSE, 0, 0)>>),
    Steps(<<Agent("a", TRUE, 0, 0), Agent("b", TRUE, 0, 1)>>),
    Steps(<<Agent("a", TRUE, 0, 0), Pi("b", FALSE, 0, 1)>>),
    SimpleRun(Broken(Agent("a", FALSE, 0, 0))) }

\* Workflows that are edited into each other while a run is under way.
MCEdited ==
  { Steps(<<>>),
    Steps(<<Agent("a", FALSE, 0, 0)>>),
    SimpleRun(Pi("b", FALSE, 0, 0)) }

MCCore == MCMixed \union MCEdited

MCLive == MCMixed \union MCAgents \union MCPiPi

MCSimplePi == { SimpleRun(Pi("a", FALSE, 0, 0)) }

\* The same with nothing to send.
MCNoOutput == { [w EXCEPT !.output = "nobody"] : w \in MCSimplePi }
=============================================================================
