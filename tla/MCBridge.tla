------------------------------ MODULE MCBridge ------------------------------
(***************************************************************************)
(* Bounded instances of Bridge.  Agents "x" and "y" share a slug.             *)
(***************************************************************************)
EXTENDS Bridge, TLC

Agent(id, pub, v, ok) == [id |-> id, public |-> pub, version |-> v, valid |-> ok]

\* "x" in a version that can be converted and one that cannot, "y" in public and in
\* private, and "z", which cannot be converted.
Versions ==
    {Agent("x", TRUE, 1, TRUE), Agent("x", TRUE, 2, FALSE), Agent("y", TRUE, 1, TRUE),
     Agent("y", FALSE, 2, TRUE), Agent("z", TRUE, 1, FALSE)}

Slugs == [id \in AgentId |-> IF id = "y" THEN "x" ELSE id]

\* The threads are interchangeable.  What a thread was called about last does not
\* matter once its call is over, nor what a walk has got once it was disturbed.
Threads == Permutations(Thread)
InCall == [t \in Thread |-> IF pc[t] = "idle" THEN {} ELSE {arg[t]}]
Walked == IF disturbed = {} THEN walk ELSE [walk EXCEPT !.got = {}, !.from = {}]
View == <<agents, logVars, pc, InCall, mixed, settled, Walked, disturbed = {}>>
=============================================================================
