------------------------------ MODULE MCLoopback ------------------------------
(* Model-checking instance of LoopbackProvisioning: two runs, two devices that *)
(* are mounted and one that is not.                                            *)
EXTENDS LoopbackProvisioning

CONSTANTS d1, d2, d3, l1, l2

Of(workflow, devices, l, optional) ==
  [workflow |-> workflow, devices |-> devices, loopback |-> l,
   labelled |-> devices # {}, optional |-> optional]

Inputs ==
  {Of("provision", {d1}, l1, "no"), Of("provision", {d1}, l2, "no"),
   Of("provision_all", {d1, d3}, l2, "text"), Of("provision_all", {}, l1, "text"),
   Of("create_all", {d1, d2}, l1, "toggle"), Of("create_all", {d1, d3}, l1, "toggle"),
   Of("create_all", {d1, d3}, l2, "text")}
=============================================================================
