---------------------------- MODULE InventoryAdd ----------------------------
(***************************************************************************)
(* Devices enter the inventory in two ways.  The worker process imports    *)
(* the devices of its CSV files whenever it starts, before it polls        *)
(* Conductor; and the workflows Add_* run a task that adds one device and, *)
(* some of them, a second task that installs it.  A device is added with   *)
(* labels, by id: a label that the inventory does not have is created      *)
(* first.  add_cli_device, add_netconf_device and add_any_device treat     *)
(* zone, labels and the answer alike; only add_netconf_device looks for a  *)
(* blacklist.                                                              *)
(*                                                                         *)
(* The module `types` is never imported, so the name NoneType that the     *)
(* blacklist and the label checks compare with raises NameError: a task    *)
(* with a blacklist fails, and so does an attempt that created a label.    *)
(***************************************************************************)
EXTENDS Naturals, FiniteSets

CONSTANTS
  Task,          (* runs of the Add_* workflows                            *)
  Name,          (* device names                                           *)
  Label,
  Input,         (* the inputs a run may have                              *)
  CsvLabels,     (* the imported devices: a function from names to labels  *)
  Csv,           (* "owner" of the devices that were imported              *)
  MaxRetries,    (* retries Conductor grants a failed or timed out task    *)
  MaxFaults      (* bound: failed calls, timeouts and crashes              *)

InputType ==
  [name : Name, labels : SUBSET Label,
   zone : BOOLEAN,        \* the inventory has the uniconfig_zone
   blacklist : BOOLEAN,   \* "blacklist" is a key of inputData
   then : {"end", "install by id", "install by name"}]

ASSUME AddAssumption ==
  /\ IsFiniteSet(Label)
  /\ Input \subseteq InputType
  /\ DOMAIN CsvLabels \subseteq Name
  /\ CsvLabels \in [DOMAIN CsvLabels -> SUBSET Label]
  /\ Csv \notin Task
  /\ MaxRetries \in Nat
  /\ MaxFaults \in Nat

Stage   == {"add", "install"}
Attempt == 0 .. MaxRetries
Device  == [owner : Task \cup {Csv}, labels : SUBSET Label]
Absent  == [owner |-> "nobody"]

VARIABLES
  labels,      \* the labels the inventory has
  device,      \* the device of each name, or Absent
  installed,   \* names of the devices that are installed
  process,     \* the worker process: "importing" or "running"
  imports,     \* names of the CSV files still to be imported
  refused,     \* history: names an import asked for in vain
  input,       \* what each run was started with
  stage,       \* where each run stands
  attempt,     \* the attempt of the task the run stands at
  addResult,   \* how the adding task of each run ended
  thread,      \* the worker thread of each attempt
  faults,      \* failed calls, timeouts and crashes so far
  labels0      \* history: the labels the inventory had at first

vars == <<labels, device, installed, process, imports, refused, input, stage, attempt,
          addResult, thread, faults, labels0>>
inventoryVars == <<labels, device, installed>>
processVars   == <<process, imports, refused>>
conductorVars == <<stage, attempt, addResult>>
inputVars     == <<input, labels0>>

\* What a worker thread is at, and the labels_id_name it has read.
Thread == [pc : {"idle", "polled", "adding", "installing", "ended"},
           label_id : SUBSET Label]
Idle   == [pc |-> "idle", label_id |-> {}]

-----------------------------------------------------------------------------
Init ==
  /\ labels \in SUBSET Label
  /\ device = [n \in Name |-> Absent]
  /\ installed = {}
  /\ process = "importing"
  /\ imports = DOMAIN CsvLabels
  /\ refused = {}
  /\ input \in [Task -> Input]
  /\ stage = [t \in Task |-> "add"]
  /\ attempt = [t \in Task |-> 0]
  /\ addResult = [t \in Task |-> "none"]
  /\ thread = [t \in Task |-> [s \in Stage |-> [a \in Attempt |-> Idle]]]
  /\ faults = 0
  /\ labels0 = labels

-----------------------------------------------------------------------------
(* The start of the worker process *)

\* Mutant of ImportLabel: the label is created under the name of the device.
ImportLabel_Swapped(n) ==
  /\ process = "importing"
  /\ n \in imports
  /\ ~(CsvLabels[n] \subseteq labels)
  /\ labels' = labels \cup {n}
  /\ UNCHANGED <<device, installed, processVars, inputVars, conductorVars, thread,
                 faults>>

\* get_label_id of importDevices: a label is looked up and created if missing.
ImportLabel(n) ==
  /\ process = "importing"
  /\ n \in imports
  /\ \E l \in CsvLabels[n] \ labels : labels' = labels \cup {l}
  /\ UNCHANGED <<device, installed, processVars, inputVars, conductorVars, thread,
                 faults>>

\* Mutant of ImportDevice: the import does not get past a device that is there.
ImportDevice_Stops(n) ==
  /\ process = "importing"
  /\ n \in imports
  /\ CsvLabels[n] \subseteq labels
  /\ device[n] = Absent
  /\ device' = [device EXCEPT ![n] = [owner |-> Csv, labels |-> CsvLabels[n]]]
  /\ imports' = imports \ {n}
  /\ UNCHANGED <<labels, installed, process, refused, inputVars, conductorVars,
                 thread, faults>>

\* One line of a CSV file.  The answer is printed and not looked at: a device
\* that is there already stays as it is.
ImportDevice(n) ==
  /\ process = "importing"
  /\ n \in imports
  /\ CsvLabels[n] \subseteq labels
  /\ device' = IF device[n] = Absent
                 THEN [device EXCEPT ![n] = [owner |-> Csv, labels |-> CsvLabels[n]]]
                 ELSE device
  /\ imports' = imports \ {n}
  /\ UNCHANGED <<labels, installed, process, refused, inputVars, conductorVars,
                 thread, faults>>

\* The inventory answers addDevice with an error though the name is free; the
\* import goes on all the same.
ImportRefused(n) ==
  /\ process = "importing"
  /\ n \in imports
  /\ CsvLabels[n] \subseteq labels
  /\ device[n] = Absent
  /\ faults < MaxFaults
  /\ faults' = faults + 1
  /\ imports' = imports \ {n}
  /\ refused' = refused \cup {n}
  /\ UNCHANGED <<inventoryVars, process, inputVars, conductorVars, thread>>

\* Mutant of StartWorkers: the workers are started before the import.
StartWorkers_First ==
  /\ process = "importing"
  /\ process' = "running"
  /\ UNCHANGED <<inventoryVars, imports, refused, inputVars, conductorVars, thread, faults>>

\* start_workers: from now on the process polls Conductor.
StartWorkers ==
  /\ process = "importing"
  /\ imports = {}
  /\ process' = "running"
  /\ UNCHANGED <<inventoryVars, imports, refused, inputVars, conductorVars, thread, faults>>

\* The process dies, in its import (a request that raises ends main) or later,
\* and is started again; its threads are gone and Conductor is not told.
Restart ==
  /\ faults < MaxFaults
  /\ faults' = faults + 1
  /\ process' = "importing"
  /\ imports' = DOMAIN CsvLabels
  /\ thread' = [t \in Task |-> [s \in Stage |-> [a \in Attempt |->
                  IF thread[t][s][a].pc = "idle" THEN Idle
                  ELSE [thread[t][s][a] EXCEPT !.pc = "ended"]]]]
  /\ UNCHANGED <<inventoryVars, refused, inputVars, conductorVars>>

-----------------------------------------------------------------------------
(* Conductor *)

\* Conductor still waits for attempt a of stage s of run t.
Awaited(t, s, a) == stage[t] = s /\ attempt[t] = a

\* The stage that follows the adding task, when that ended as result says.
\* Only Add_device, which installs by name, goes on after a failed one.
AfterAdd(t, result) ==
  CASE result = "failed" /\ input[t].then # "install by name" -> "failed"
    [] result = "completed" /\ input[t].then = "end"          -> "completed"
    [] OTHER                                                  -> "install"

\* The task that run t stands at ended, with no attempt left.
EndTask(t, result) ==
  /\ stage' = [stage EXCEPT ![t] =
                 IF @ = "add" THEN AfterAdd(t, result) ELSE result]
  /\ addResult' = [addResult EXCEPT ![t] = IF stage[t] = "add" THEN result ELSE @]
  /\ attempt' = [attempt EXCEPT ![t] = 0]

\* Conductor learns that the current attempt of t failed.
FailAttempt(t) ==
  \/ /\ attempt[t] < MaxRetries
     /\ attempt' = [attempt EXCEPT ![t] = @ + 1]
     /\ UNCHANGED <<stage, addResult>>
  \/ /\ attempt[t] = MaxRetries
     /\ EndTask(t, "failed")

\* A thread ends its attempt with result; it may be too late to count.
EndAttempt(t, s, a, result) ==
  /\ thread' = [thread EXCEPT ![t][s][a].pc = "ended"]
  /\ \/ Awaited(t, s, a) /\ result = "completed" /\ EndTask(t, result)
     \/ Awaited(t, s, a) /\ result = "failed" /\ FailAttempt(t)
     \/ ~Awaited(t, s, a) /\ UNCHANGED conductorVars

\* responseTimeoutSeconds: Conductor gives the attempt up.  It has to when the
\* thread died with its process, and it may when the thread is slow; a slow
\* thread goes on.
Timeout(t) ==
  /\ stage[t] \in Stage
  /\ \/ /\ thread[t][stage[t]][attempt[t]].pc = "ended"
        /\ UNCHANGED faults
     \/ /\ thread[t][stage[t]][attempt[t]].pc \notin {"idle", "ended"}
        /\ faults < MaxFaults
        /\ faults' = faults + 1
  /\ FailAttempt(t)
  /\ UNCHANGED <<inventoryVars, processVars, inputVars, thread>>

\* A worker thread takes the task that run t stands at.
Poll(t) ==
  /\ process = "running"
  /\ stage[t] \in Stage
  /\ thread[t][stage[t]][attempt[t]].pc = "idle"
  /\ thread' = [thread EXCEPT ![t][stage[t]][attempt[t]].pc = "polled"]
  /\ UNCHANGED <<inventoryVars, processVars, inputVars, conductorVars, faults>>

-----------------------------------------------------------------------------
(* The tasks INVENTORY_add_cli_device, _add_netconf_device and _add_device *)

Add(t, a) == thread[t]["add"][a]

\* "blacklist" in task["inputData"]: the next comparison raises NameError.
BlacklistRaises(t, a) ==
  /\ Add(t, a).pc = "polled"
  /\ input[t].blacklist
  /\ EndAttempt(t, "add", a, "failed")
  /\ UNCHANGED <<inventoryVars, processVars, inputVars, faults>>

\* get_zone_id and get_label_id: the labels are looked up once.
ReadLabels(t, a) ==
  /\ Add(t, a).pc = "polled"
  /\ ~input[t].blacklist
  /\ thread' = [thread EXCEPT ![t]["add"][a] = [pc |-> "adding", label_id |-> labels]]
  /\ UNCHANGED <<inventoryVars, processVars, inputVars, conductorVars, faults>>

\* The labels of the input that were not found.
Missing(t, a) == input[t].labels \ Add(t, a).label_id

\* Mutant of CreateLabel: the label is not created before the attempt fails.
CreateLabel_Forgets(t, a) ==
  /\ Add(t, a).pc = "adding"
  /\ Missing(t, a) # {}
  /\ EndAttempt(t, "add", a, "failed")
  /\ UNCHANGED <<inventoryVars, processVars, inputVars, faults>>

\* The first label that was not found is created, or another run was faster
\* and the inventory refuses it.  Either way the attempt fails: on the name
\* NoneType after a label was created, on data that is null after a refusal.
CreateLabel(t, a) ==
  /\ Add(t, a).pc = "adding"
  /\ \E l \in Missing(t, a) : labels' = labels \cup {l}
  /\ EndAttempt(t, "add", a, "failed")
  /\ UNCHANGED <<device, installed, processVars, inputVars, faults>>

\* Whether the inventory accepts the device: it knows the zone, and no other
\* device has the name.
Acceptable(t) == input[t].zone /\ device[input[t].name] = Absent

\* device after the inventory was asked to add the device of run t.
WithDevice(t) ==
  IF Acceptable(t)
    THEN [device EXCEPT ![input[t].name] = [owner |-> t, labels |-> input[t].labels]]
    ELSE device

\* Mutant of AddDevice: the errors of the answer are not looked at.
AddDevice_Trusts(t, a) ==
  /\ Add(t, a).pc = "adding"
  /\ Missing(t, a) = {}
  /\ device' = WithDevice(t)
  /\ EndAttempt(t, "add", a, "completed")
  /\ UNCHANGED <<labels, installed, processVars, inputVars, faults>>

\* Every label has an id: the device is added or refused.
AddDevice(t, a) ==
  /\ Add(t, a).pc = "adding"
  /\ Missing(t, a) = {}
  /\ device' = WithDevice(t)
  /\ EndAttempt(t, "add", a, IF Acceptable(t) THEN "completed" ELSE "failed")
  /\ UNCHANGED <<labels, installed, processVars, inputVars, faults>>

\* A request of the attempt raises.  When it was a mutation whose answer was
\* lost, the inventory may have applied it.
AddRaises(t, a) ==
  /\ Add(t, a).pc \in {"polled", "adding"}
  /\ faults < MaxFaults
  /\ faults' = faults + 1
  /\ \/ UNCHANGED <<labels, device>>
     \/ /\ Add(t, a).pc = "adding"
        /\ Missing(t, a) = {}
        /\ device' = WithDevice(t)
        /\ UNCHANGED labels
  /\ EndAttempt(t, "add", a, "failed")
  /\ UNCHANGED <<installed, processVars, inputVars>>

-----------------------------------------------------------------------------
(* The tasks INVENTORY_install_device_by_id and _by_name *)

Install(t, a) == thread[t]["install"][a]

\* Mutant of FindDevice: a name the inventory does not know is no error.
FindDevice_Trusts(t, a) ==
  /\ Install(t, a).pc = "polled"
  /\ IF device[input[t].name] # Absent
       THEN /\ thread' = [thread EXCEPT ![t]["install"][a].pc = "installing"]
            /\ UNCHANGED conductorVars
       ELSE EndAttempt(t, "install", a, "completed")
  /\ UNCHANGED <<inventoryVars, processVars, inputVars, faults>>

\* get_device_info, or the id that the adding task returned.
FindDevice(t, a) ==
  /\ Install(t, a).pc = "polled"
  /\ IF device[input[t].name] # Absent
       THEN /\ thread' = [thread EXCEPT ![t]["install"][a].pc = "installing"]
            /\ UNCHANGED conductorVars
       ELSE EndAttempt(t, "install", a, "failed")
  /\ UNCHANGED <<inventoryVars, processVars, inputVars, faults>>

\* The device is installed, or "has already been installed": both complete.
InstallDevice(t, a) ==
  /\ Install(t, a).pc = "installing"
  /\ installed' = installed \cup {input[t].name}
  /\ EndAttempt(t, "install", a, "completed")
  /\ UNCHANGED <<labels, device, processVars, inputVars, faults>>

\* The inventory cannot install the device, or a request raises; an answer
\* that was lost leaves the device installed.
InstallRaises(t, a) ==
  /\ Install(t, a).pc \in {"polled", "installing"}
  /\ faults < MaxFaults
  /\ faults' = faults + 1
  /\ \/ UNCHANGED installed
     \/ /\ Install(t, a).pc = "installing"
        /\ installed' = installed \cup {input[t].name}
  /\ EndAttempt(t, "install", a, "failed")
  /\ UNCHANGED <<labels, device, processVars, inputVars>>

-----------------------------------------------------------------------------
ThreadStep(t, a) ==
  \/ BlacklistRaises(t, a)
  \/ ReadLabels(t, a)
  \/ CreateLabel(t, a)
  \/ AddDevice(t, a)
  \/ FindDevice(t, a)
  \/ InstallDevice(t, a)

ProcessStep ==
  \/ \E n \in imports : ImportLabel(n) \/ ImportDevice(n)
  \/ StartWorkers

Next ==
  \/ ProcessStep
  \/ Restart
  \/ \E n \in imports : ImportRefused(n)
  \/ \E t \in Task : Poll(t) \/ Timeout(t)
  \/ \E t \in Task, a \in Attempt :
       ThreadStep(t, a) \/ AddRaises(t, a) \/ InstallRaises(t, a)

Spec == Init /\ [][Next]_vars

\* The process starts, polls, and its threads go on; Conductor gives up an
\* attempt nobody works on.
Fairness ==
  /\ WF_vars(ProcessStep)
  /\ \A t \in Task : WF_vars(Poll(t)) /\ WF_vars(Timeout(t))
  /\ \A t \in Task, a \in Attempt : WF_vars(ThreadStep(t, a))

FairSpec == Spec /\ Fairness
-----------------------------------------------------------------------------
(* Properties *)

TypeOK ==
  /\ labels \in SUBSET Label
  /\ device \in [Name -> Device \cup {Absent}]
  /\ installed \in SUBSET Name
  /\ process \in {"importing", "running"}
  /\ imports \in SUBSET DOMAIN CsvLabels
  /\ refused \in SUBSET DOMAIN CsvLabels
  /\ input \in [Task -> Input]
  /\ stage \in [Task -> Stage \cup {"completed", "failed"}]
  /\ attempt \in [Task -> Attempt]
  /\ addResult \in [Task -> {"none", "completed", "failed"}]
  /\ thread \in [Task -> [Stage -> [Attempt -> Thread]]]
  /\ faults \in Nat
  /\ labels0 \in SUBSET Label

(* A task that adds a device and ends COMPLETED has added the device       *)
(* itself, with the labels it was given, all of which the inventory has;   *)
(* so of several tasks with one name one at most completes, and no later   *)
(* task, retry or thread that outlives its attempt changes the device.     *)
AddedAsAsked ==
  \A t \in Task : addResult[t] = "completed" =>
    /\ device[input[t].name] = [owner |-> t, labels |-> input[t].labels]
    /\ input[t].labels \subseteq labels

(* While the process polls Conductor, every device of its CSV files is in  *)
(* the inventory as the files have it, unless the inventory refused it: an *)
(* import that died half way is made up for by the next one, which the     *)
(* devices and labels already there do not disturb, and no task can take   *)
(* the name of a device that was imported.                                 *)
ImportedFirst ==
  process = "running" =>
    \A n \in DOMAIN CsvLabels \ refused :
      /\ device[n] = [owner |-> Csv, labels |-> CsvLabels[n]]
      /\ CsvLabels[n] \subseteq labels

(* A workflow that ends COMPLETED after its installing task leaves the     *)
(* device in the inventory and installed, also when an earlier attempt     *)
(* installed it and its answer was lost, and when the adding task failed   *)
(* and was forgiven.                                                       *)
CompletedIsInstalled ==
  \A t \in Task :
    stage[t] = "completed" /\ input[t].then # "end" =>
      /\ device[input[t].name] # Absent
      /\ input[t].name \in installed

(* The retries make up for the labels: without faults, a device is not     *)
(* added only if its task has a blacklist, names a zone or a name it may   *)
(* not have, or needs more labels created than it has retries.  Each       *)
(* failed attempt leaves a label less to create, whichever run created it. *)
RetriesSuffice ==
  \A t \in Task :
    addResult[t] = "failed" /\ faults = 0 =>
      \/ input[t].blacklist
      \/ ~Acceptable(t)
      \/ Cardinality(input[t].labels \ labels0) > MaxRetries

(* What the end-to-end test of Add_netconf_device_to_inventory, which      *)
(* passes labels and a blacklist, expects: a task that adds a device fails *)
(* only for a cause, a request that failed, a zone the inventory does not  *)
(* have or a name that is taken.                                           *)
FailsOnlyForCause ==
  \A t \in Task :
    addResult[t] = "failed" => faults > 0 \/ ~Acceptable(t)

(* Whatever is restarted, timed out and retried, every run ends and the    *)
(* process, once its import is done, polls Conductor for good.             *)
EveryRunEnds ==
  <>[](process = "running" /\ \A t \in Task : stage[t] \in {"completed", "failed"})
=============================================================================
