------------------------------ MODULE L2Services ------------------------------
(* The workers of the three services side by side: their tasks share the      *)
(* nodes, and a service of one kind may have ends where another kind has.     *)
EXTENDS VplsService, BiService

Next ==
  \E t \in Task : \/ VllStart(t) \/ VplsStart(t) \/ BiStart(t)
                  \/ Advance(t) \/ WorkerDies(t)

Spec == Init /\ [][Next]_vars

-----------------------------------------------------------------------------
(* Properties *)

\* Whatever the mixture of tasks, a change that waits in the intent of a node
\* for the commit of somebody else is there for one of the reasons that the
\* services have, and because of the task that has it.
NothingIsLeft ==
  \A d \in Node : Pending(d) =>
    \E t \in Task : /\ d \in dirty[t]
                   /\ \/ LeftByDesign(t)
                      \/ VllLeaves(t, d) \/ VplsLeaves(t, d) \/ BiLeaves(t, d)
=============================================================================
