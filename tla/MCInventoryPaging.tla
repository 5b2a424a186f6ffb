-------------------------- MODULE MCInventoryPaging --------------------------
(* Model-checking instances of InventoryPaging: the values are in the cfgs. *)
EXTENDS InventoryPaging
=============================================================================
