---------------------------- MODULE BulkOperation ----------------------------
(***************************************************************************)
(* What an operation on a whole inventory promises, whatever way it pages  *)
(* and parallelises: it fixes the items it is responsible for once, from   *)
(* then on it only settles items, it ends as done when nothing it is       *)
(* responsible for is left unsettled, and once it has ended it settles     *)
(* nothing more.                                                           *)
(***************************************************************************)
CONSTANT Items

VARIABLES
  phase,    \* "collecting", "running", "done" or "failed"
  target,   \* the items the operation is responsible for
  settled   \* the items with an outcome the caller can read

vars == <<phase, target, settled>>

Init ==
  /\ phase = "collecting"
  /\ target = {}
  /\ settled = {}

\* The items are known.
Collect ==
  /\ phase = "collecting"
  /\ phase' = "running"
  /\ target' \in SUBSET Items
  /\ UNCHANGED settled

\* Some more items have an outcome.
Settle ==
  /\ phase = "running"
  /\ settled' \in SUBSET Items
  /\ settled \subseteq settled'
  /\ UNCHANGED <<phase, target>>

Finish ==
  /\ phase = "running"
  /\ target \subseteq settled
  /\ phase' = "done"
  /\ UNCHANGED <<target, settled>>

Fail ==
  /\ phase \in {"collecting", "running"}
  /\ phase' = "failed"
  /\ UNCHANGED <<target, settled>>

Next == Collect \/ Settle \/ Finish \/ Fail

Spec == Init /\ [][Next]_vars
=============================================================================
