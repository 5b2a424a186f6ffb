--------------------------- MODULE ServiceRegistry ---------------------------
(* What the VLL workers promise to whoever orders point to point services:    *)
(* both ends of a service appear on the network in one step and disappear in  *)
(* one step, one service at a time, whatever fails in between.  The promise   *)
(* is void for a service whose tasks met other tasks on a node.               *)
CONSTANTS Name, Node,
  Spoilt    \* no promise is made any more

VARIABLE ends    \* per service: the nodes that have an end of it

TypeOK == ends \in [Name -> SUBSET Node \cup {Spoilt}]

Init == ends = [n \in Name |-> {}]

Install(n) ==
  /\ ends[n] = {}
  /\ \E d, e \in Node : ends' = [ends EXCEPT ![n] = {d, e}]

Remove(n) ==
  /\ ends[n] # Spoilt
  /\ ends' = [ends EXCEPT ![n] = {}]

GiveUp ==
  \E names \in SUBSET Name :
    ends' = [n \in Name |-> IF n \in names THEN Spoilt ELSE ends[n]]

Next == GiveUp \/ \E n \in Name : Install(n) \/ Remove(n)

Spec == Init /\ [][Next]_ends
=============================================================================
