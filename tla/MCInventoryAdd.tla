---------------------------- MODULE MCInventoryAdd ----------------------------
(* Model-checking instances of InventoryAdd.                                  *)
EXTENDS InventoryAdd, TLC

CONSTANTS t1, t2, n1, n2, l1, l2

Tasks  == {t1, t2}
Names  == {n1, n2}
Labels == {l1, l2}

\* One device is imported, with a label a run may need too.
OneImport == [n \in {n1} |-> {l1}]
NoImport  == [n \in {} |-> {}]

\* Runs of every workflow, for the imported name and another, with none, one
\* or two labels; and runs that name no zone or have a blacklist.
AllInputs == {i \in InputType :
  /\ i.blacklist => i.then # "install by name"
  /\ i.blacklist \/ ~i.zone => i.labels = {l1} /\ i.name = n2
  /\ i.then = "end" => i.labels = Labels}

\* What the end-to-end test starts Add_netconf_device_to_inventory with.
TestInputs == {[name |-> n1, labels |-> {l1, l2}, zone |-> TRUE,
                blacklist |-> TRUE, then |-> "end"]}

\* Add_device on the imported name and on another.
AddDeviceInputs ==
  {i \in AllInputs : i.then = "install by name" /\ i.zone /\ i.labels # {l2}}

TaskSymmetry == Permutations(Tasks)
=============================================================================
