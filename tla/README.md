# fm-workflows in TLA+

This directory is a formal model of the workflows and workers under
`src/demo-workflows`: TLA+ modules translated from the code, TLC configurations
that check them on small instances, and TLAPS proofs for every instance. Paths
in this text are relative to `src/demo-workflows` unless they start with `src/`.

* `tlc -config MCInstallAll.cfg MCInventoryPaging` checks one instance;
* `tlapm InventoryPagingProofs.tla` checks the proofs of one module;
* `PROJECT.json` maps every definition to the lines it models, and lists runs,
  mutants (plausible bugs that each property is known to catch), hazards,
  findings and theorems.

## 1. The system

A **worker process** (`workers/main.py`) imports workflow definitions and
devices, then polls the workflow engine **Conductor** with up to 20 threads. A
**workflow** (`workflows/*.json`) is a graph of tasks that Conductor keeps; a
task is a call of a Python function in the worker process, a sub-workflow, or a
control task (decision, dynamic fork, join, do-while). The functions keep no
state between calls: the state of the system is in the services they call, the
**inventory** (GraphQL), **UniConfig** with the configuration of the devices,
the **resource manager**, InfluxDB, the scheduler, topology discovery.

| Component | State | Operations | Interacts with |
|---|---|---|---|
| Inventory paging (`inventory_worker.py` 322-502, `Install_all_from_inventory.json`, `Uninstall_all...`) | cursors collected, iteration of the loop, batches and their attempts, verdicts on devices | collect cursors, fork a chunk of batches, install or uninstall the devices of a page, join | inventory, Conductor |
| Inventory devices (`inventory_worker.py` 179-319, 548-700, `importDevices.py`, `main.py`, `Add_*.json`) | labels, devices, what is installed; import progress; labels a thread has read | import, add CLI / NETCONF / any device, create a label, install by name or id | inventory, Conductor, CSV files |
| Inventory queries (504-545) | none | devices by label as fork tasks | loopback workflows |
| Loopback provisioning (`Create_loopback_*`, `Provision_loopback_*`, `Allocate_ipv4_resource`) | addresses claimed, uncommitted and committed configuration | sync, replace with operational, claim, write, commit | UniConfig, resource manager |
| VLL, VPLS, BI services (`vll_*`, `vpls_*`, `bi_*`) | configuration of several devices, intended and actual | create, delete, add or remove a device, read back, dry run | UniConfig |
| L2VPN workflow (`Create_L2VPN_P2P_OC_uniconfig.json`) | a transaction over two nodes | write, dry run, commit, roll back | UniConfig, Slack |
| Device identification (`device_worker.py`, `Device_identification.json`) | temporary mounts | mount in turn, read, unmount | UniConfig |
| LLDP, topology discovery (`lldp_*`, `topology_discovery_worker.py`) | none of their own | build and export a topology, create or delete a BGP link | UniConfig, topology discovery |
| Monitoring (`schellar_worker.py`, `influx_db.py`, `Schedule_device_monitoring.json`) | schedules, buckets | create a schedule, create a bucket, write data | scheduler, InfluxDB |
| Upgrade (`IOSXR_Upgrade*.json`, `IOS_Upgrade.json`) | software of a device, its mount | check load, install, remount, wait | devices |
| Unified, platform, SQL workers, utilities, small workflows | none | single requests | UniConfig, database |

What makes each of them hard, and what would make it correct:

* **Paging.** Cursors are taken every 10 devices but a batch works on 40, so up
  to four batches run on one device; batches run in parallel, are retried after
  a failure or a timeout while the timed out thread goes on, and answers get
  lost. Correct means: no device is missed, no report claims what did not
  happen, a change is shown once, the workflow ends.
* **Devices.** Labels are read, then created, then used; the import and the
  tasks share the inventory; the process can die at any step. Correct means:
  COMPLETED tells the truth, the import is idempotent, retries suffice.
* **Loopback provisioning.** A claim is retried and an address may leak; runs
  share one uncommitted configuration. Correct means: what completes is on the
  network with the address claimed for it, no address is forgotten, nothing
  stale is committed, a fork that forgives its devices completes.
* **Service workers.** A transaction over several devices made by hand: reset,
  commit, sync, write, commit, and a roll back at every error. Correct means:
  all ends or none, nothing uncommitted left behind, read-back returns what
  was created, delete finds what create made.
* **Identification.** Correct means: every mount made for it is removed, and a
  report is complete unless the device refused to tell.
* **Monitoring, BGP links, upgrades, the L2VPN workflow.** Rows of single
  requests: what could go wrong is plain in the line that does it (section 6).

`PROJECT.json` lists these hazards one by one with their lines and the
properties that cover them; the five without a property say why.

## 2. What is modelled

### InventoryPaging — install and uninstall the whole inventory

`FetchPage` is one round of the loop of `get_device_pages_ids` (395-458):
it asks for the next 10 devices, stores a cursor and ends at the page without a
next one. Devices are numbered in the order of the inventory, so a cursor is
the number of the device it follows, and 0 is the cursor `''` of the first page
(`WithFirst`). `Chunk` and `PageLoopSize` are the list of lists `page_loop`.
`ForkBatches` is the task `page_device_dynamic_fork_tasks` and the dynamic
fork, `JoinBatches` the join and the loop condition. `Poll`, `QueryPage`,
`CallDevice`, `CallRefused`, `BatchFails` and `FinishBatch` are the steps of
one batch, `install_uninstall_in_batch` (322-391); `TimeoutBatch` is Conductor
giving an attempt up. A thread of a given-up attempt is not stopped: `worker`
has a record for every attempt, and only the awaited one may end the batch
(`Awaited`). `AddDevice` lets the inventory grow at any moment, as the other
workflows let it.

`BulkOperation` is the abstract specification: a bulk operation fixes its
target once, settles items while it runs, is done only when its target is
settled, and settles nothing afterwards. `InventoryPaging` implements it with
`settled` mapped to the devices that have a verdict or that are in the page of
a batch that failed and was forgiven (`optional`).

Abstracted: mount parameters and messages; the answer of the inventory is one
of applied, "already been installed", other error, lost. Devices leave the
inventory in no workflow of the repository. The label check of the fetch is
part of `FetchFails`, that of the fork of `ForkFails`.

### InventoryAdd — import, add, install

`ImportLabel`, `ImportDevice`, `ImportRefused` and `StartWorkers` are the start
of the worker process: for every line of the CSV files the labels are looked up
or created, the device is added, and the answer is printed and not looked at.
`Restart` is the death of the process at any step, also of a request that
raises in the import; its threads are gone and Conductor is not told. Runs of
the `Add_*` workflows stand at their adding or installing task; what comes
after the adding task is `AfterAdd` (only `Add_device` goes on after a failed
one). A thread of an adding task first reads the labels (`ReadLabels`), then
creates a missing one (`CreateLabel`) or adds the device (`AddDevice`). The
module `types` is not imported, so `error is not NoneType` raises NameError: an
attempt that created a label fails, and so does every attempt with a blacklist
(`BlacklistRaises`). `FindDevice` and `InstallDevice` are
`install_uninstall_device`. Any request may raise, with a mutation applied or
not (`AddRaises`, `InstallRaises`), and Conductor may give an attempt up
(`Timeout`). The inventory refuses an unknown zone and a name that is taken
(`Acceptable`, external), and installing twice is reported as "already".

Abstracted: the three adding functions treat zone, labels and answers alike and
are one action with the key `blacklist` in the input; blueprints and workflow
definitions are put by the import and read by nothing here; devices that are not
simulated are not in `CsvLabels`. Uninstalling beside the runs is left out.

### LoopbackProvisioning — addresses on devices

A run of `Provision_loopback_ipv4` is one *job*, that of
`Provision_loopback_ipv4_multiple_devices` and of
`Create_loopback_all_in_uniconfig` a fork of one job per device. A job is a
table of tasks (`NextTask`): sync, replace the configuration with the
operational one, query the pool, claim, write, commit; the forked tasks of
`Create_loopback_all` only write, and the run itself calculates the difference
and commits all its devices (`LastTasks`). `ListDevices` is
`all_devices_fork_tasks` with the fork, `Join` and `JoinFails` are the join:
a job that failed ends the run and cancels its other jobs unless it is
optional. The tasks name no transaction, so all runs write into one `config`
(`Replace` resets what others wrote), and `network` is what the devices run.

A call that does its work may be answered or not; then Conductor either starts
the task again or gives the job up (`Outcome`), both with the work done. For
the claim the attempts are counted (`ClaimRetries`, line 76 of
`Allocate_ipv4_resource.json`), and every claim whose answer was lost costs an address (`lost`).
`optional` is "text" (the word the worker compares with), "toggle" (the
Boolean of the form) or "no". Left out: a call of a cancelled job that is still
on its way, and that the operational datastore may lag behind the device.

### UniconfigData, UniconfigTasks — the ground of the service workers

UniConfig keeps two datastores per node, `intent` and `actual` (what the network
has), each a function from objects (interface, policy, spanning tree, instance,
VLAN, IS-IS) to contents. A task of a service worker makes one REST call after
the other, other threads make theirs in between. So a task is a **program**, a
sequence of steps computed from its input in `VllService`, `VplsService` and
`BiService`, and `Advance` makes the call at its head: `ReadData`, `WriteData`,
`CommitData`, `SyncData`, `DryRunData`, or `CallFails`. What the code does when a
call fails is written in the step: `fails` (abort, ignore, skip the next step,
delete what could not be written) and `undo`, the devices that
`replace_cfg_with_oper` resets (`RollBack`, whose own failure nobody sees). Every
call can fail, calls about a device that is not mounted and reads of what is
not there always do, and the worker process may die between any two
(`WorkerDies`). `dirty`, `scope`, `disturbed` are history, read by no guard:
which nodes a task has changed since their last commit or reset, what it is
about, and whether it met another task there.

### VllService with VllModel; VplsService with VplsModel; BiService

Each has a program per task, made of operators named after the functions of the
worker, and the reading of services. `VllModel` is `vll_model.py`: the two
instances of a remote service are merged pairwise, each knowing the address of
the other (`VllReadAll`), a service with one end has a device `Unknown`, and
reading ends in an exception where one of two policies is missing
(`VllReadable`). `StartDeleteVll` works on what was read, as the code does.
`VplsModel` merges what each device knows of the others; `add` and `remove`
rewrite all instances from the merged service, and a removal refuses before it
writes when too little would be left (`RemoveDeviceTask`). The ends of a service
that is read are finitely many (`FoundVpls`), as the lists of Python are. The result of the writing in
`service_create_vpls_instance` is not looked at before the commit when a device
is added or removed (fails = "withdraw"), and where the code passes a list to
`task_failed` (`vpls_service_worker.py:310`), which the repository does not
contain, the model allows both outcomes. `BiService` writes the VLAN, the port,
the VE interface and IS-IS of every end, and reads per node and VLAN.

`ServiceRegistry` is what the VLL worker promises: both ends of a service appear
in one step and disappear in one step. `VllService` implements it with `ends`
mapped to the nodes that have an instance of the name; a service whose tasks met
others on a node, or are not agreed on its ends, is given up. `L2Services` lets
the tasks of all three services share the nodes.

Abstracted: templates and URIs are objects and contents; the untagged mark of
VPLS and ranges of VLANs in a trunk are left out; the tasks that write a part
of a service (`VLL_device_create_local` and the like) make calls of the larger
ones and are not started alone. What the tasks may be asked is bounded by
`VllInputAssumption`, `VplsInputAssumption` and `BiInputAssumption`: the fields
that the JSON of a task has, the operations that are registered, ends in a list,
VLANs, interfaces and contents that a node can hold;
`NoneAssumption` says that what a node holds can be told from nothing,
`SpoiltAssumption` the same of a set of nodes, and `NodeOrderAssumption` that the
list of nodes names all of them. A BI service may have three ends, two of them in
one VLAN of one node: the reset of the second deletes the port of the first
(`ResetAfter`), which is one of the exceptions `BiWholeOrNothing` makes. The
registration of these workers is commented
out (`main.py:79-83`, `102-106`), they are written for Python 2, and they use the bare names
`uniconfig_worker` and `common_worker`, which their imports do not bind: they
are modelled as if the names stood for the modules of `frinx_conductor_workers`,
which are not in the repository (external).

Assumed: UniConfig returns the `subinterface` of a VPLS end without a VLAN, which
`vpls_worker.py` writes as null and `vpls_model.py:90` reads with a mandatory key
(a VLL end is read with `get`). If it dropped the null, no VPLS with such an end
could be read.

Not forbidden, because it is what the code does: the next commit on a device
applies what a dry run left there (`vll_service_worker.py:384`), so
`VllDryRunStaysHome` speaks of dry runs that met nobody, and `LeftByDesign` counts
their changes among those that may be left; and a VPLS of which a write failed while it
grew or shrank is committed all the same (`vpls_service_worker.py:310`), so the properties
of the mesh are about services to which that did not happen (`Calm`).

### DeviceIdentification — what is mounted to find out what a device is

`TryType` is one round of the loop that mounts a NETCONF device as one type after
the other; a type that mounts and does not tell its version stays mounted
(`passed`). `Poll`, `ReadField`, `EndRound`, `Unmount` and `Report` are the steps
of a thread that asks, round after round, for what is missing; `GiveUp` is
Conductor's response timeout, after which the thread of the old attempt goes
on and unmounts the device under the new one; `WorkersDie` loses all threads.
`MountCli`, `ShowVendor`, `IdentifyCli`, `UnmountCli` are the branch for devices
with a command line. What the regular expressions read is a choice between
success and an exception. What the exclusive join does after a decision without
a case is unknown here: the run may go on or wait. Runs mount under names of
their own and do not meet, so there is one.

No call of these tasks is guarded by a `try`. A read that raises, or is answered
with an empty body, of which line 85 takes the first value (`ReadRaises`), and an
unmounting that raises (`UnmountRaises`) end the attempt where it stands, while
the process goes on (`Raise`): what is mounted stays mounted for the next
attempt, if there is one. `MountRaises` is the same for the mounting task, which
is started again with all types or gives the run up; the death of the process
under it has the same effect. A mounting task that is given up while its thread
goes on is left out.

## 3. What the runs check

| Run | Instance | What it shows |
|---|---|---|
| `install_all` | cursors every device, pages of two, two batches at a time, 3 devices, 1 retry, 2 faults, fairness | `Coverage`: every device present when the cursors were collected is settled. `NoFalseSuccess`: no report claims more than what happened. `OverlapBound`: at most ⌈page / step⌉ batches meet one device. `ChangeShownOnce`: "success" once per change. `ReportsFinal`: late threads change no report. `ImplementsBulk`: refinement of `BulkOperation`. `Termination`: the workflow ends and its threads go idle. |
| `uninstall_all` | cursors every two devices, pages of three, one batch at a time, 5 devices, a failed batch fails the workflow | `Coverage` and `ChangeShownOnce` for the other operation and another geometry, with a last page that is cut. Its one fault never uses up the retry of a batch: failed batches are those of `install_all`. |
| `add_device` | two runs with every input of `AllInputs`, two names, two labels, one imported device, 1 retry, 1 fault | `AddedAsAsked`, `ImportedFirst`, `CompletedIsInstalled`, `RetriesSuffice`. |
| `add_device_ends` | two runs of `Add_device` with fairness | `EveryRunEnds`. |
| `add_netconf_test` | the input of the end-to-end test, nothing failing | `FailsOnlyForCause` is **violated**: finding 1. |
| `loopback` | two runs of any workflow, two mounted devices and one that is not, 3 addresses, 1 further claim, 2 faults, fairness | `CompletedIsOnNetwork`, `AddressesAccounted`, `CommitsNothingStale`, and `ForkCompletes` (liveness): devices that fail do not keep the provisioning of all devices from completing. |
| `loopback_optional` | one run with the toggle on, nothing failing | `OptionalGoesOn` is **violated**: finding 2. |
| `vll_service` | two tasks at a time, 12 inputs (remote, local, reset, dry run, without vccid, one policy, three ends, delete, write only), 2 faults | `VllImplementsRegistry`: the ends come and go together. `VllLeavesNothing`: a change is left for somebody else's commit only for the reasons in `VllLeaves` and `LeftByDesign`. `VllDryRunStaysHome`: a dry run that met nobody, and whose name no other task has, puts its service on no node that did not have it. `VllCommitInstalls`: a creation that completes undisturbed has what it was asked for on the network, unless its two ends lie on one interface and ask different things of it (`Consistent`). `VllCreatedReadsBack`. `VllDeleteIsComplete`: a deletion that completes leaves no end on any node, when the other tasks of the name met nobody and share a node with it (`Beside`). |
| `vpls_in_turn` | three tasks one after the other: create with two or three devices, add, remove, delete; 1 fault | `VplsFullMesh`: every device has the addresses of exactly the others. `VplsReadsBack`: merging gives each end its own address. `VplsChangesMembers`: growing and shrinking lose no end. `VplsLeavesNothing`. |
| `vpls_shrinks` | two tasks: a VPLS with two ends on one node and one on another, whose removal | `TwoDevicesLeft` is **violated**: finding 3. |
| `l2_services` | two tasks of any of the three services at a time, 2 faults | `NothingIsLeft` for any mixture, `VplsFullMesh` beside the other services, `BiWholeOrNothing`: the parts of an end come to the network together, `BiReadsBack`. |
| `device_identification` | two types, 4 ports, 2 rounds, 2 further attempts, 2 calls refused or raising, 1 death, fairness | `CompletedLeavesNothing`: a completed run has nothing mounted but types it passed over and a device whose unmounting was refused. `MissingForCause`. `FoundIsUnmounted` (liveness): a device that was found is unmounted also when the run fails; it takes one attempt, given up or not, that gets to its end. Only a refused unmounting, or an exception or a death in every single attempt, leaves it mounted. |

`TypeOK` is an invariant of one run per module.

**Bounds.** `MaxFaults` bounds failed calls, timeouts and crashes,
`MaxDevices` the inventory, `MaxRetries` is a setting of Conductor. Two faults
are enough for a timeout followed by a failure of the retry, and for two
attempts of one batch that both run; three devices with pages of two give two
neighbouring overlaps, a chunk that is full and one that is not, and a device
added during the collection. Two runs are enough for a race for a name or a
label; one fault places one crash, lost answer or refusal at every step, and
one retry is one less than the labels a run may have to create, so that
`RetriesSuffice` meets both of its sides.

In the services, two faults place a refused call and the failure of the
rollback after it, or the death of one task under another; two tasks meet on
one node, on both, or not at all, and the third of `vpls_in_turn` works on what
two before it made of a service. Three nodes are the fewest on which a service
grows or two services share one node of two. In `loopback`, three addresses are
one less than two runs with a lost claim may ask for, so the pool runs out; two
devices and two loopbacks let runs overwrite each other or only share a
device; the third device is there to fail. In `device_identification`, two
rounds (of the code's 20) and three attempts (of 5) are enough for a field that
is told in the second round and for an old thread that works beside two new
ones; two calls that are refused or raise are one for the read and one for the unmount,
and with the death they end all three attempts in the middle; two types, which
are asked for different fields, make one that is passed over before the one that
is found. The proofs remove the bounds for the properties of section 4.

**Fairness.** `FairSpec` of `InventoryPaging` asks weak fairness of the steps
of the workflow, of polling, and of each worker thread; that of `InventoryAdd`
asks it of the import, of polling, of each thread, and of the timeout of an
attempt whose thread has died; that of `DeviceIdentification` of the workflow,
of the response timeout and of each thread; that of `LoopbackProvisioning` of
every run that was started and of the calls of each job. The code justifies it:
`start_workers` polls every 0.5 s with 20 threads, a thread runs its function to
the end, the registration of the tasks has `responseTimeoutSeconds`, and
Conductor goes on with a run. No fairness is asked of faults, of timeouts of
living threads, of restarts, of starting runs or of new devices; faults are
finite by their bounds, which stands for "the failures stop some day". The
services have no fairness, for nothing is claimed to happen there eventually:
their tasks are registered without any setting, and whether one is started
again is up to Conductor. A retry is a further task with the same input.
Deadlock is not checked where the runs end: nothing is left to do then.

**Findings.**

1. `inventory_worker.py:614` compares with the name `NoneType`, which is never
   imported. `Add_netconf_device_to_inventory.json:18` always passes the key
   `blacklist`, so its task fails before it asks the inventory anything, while
   `src/cypress-tests/cypress/integration/60add_device_spec.js:312` expects it
   COMPLETED. The same comparison in lines 578, 635 and 680 fails every attempt
   that created a label; there the retries hide it, one label an attempt, which
   is what `RetriesSuffice` states exactly.

   Another test of that file does not fit the code either. Lines 112-207 ("REPEAT
   to test CONDITION") add a device a second time and expect the workflow
   COMPLETED with its adding task skipped. `Add_cli_device_to_inventory` has no
   condition: the task runs, the inventory refuses a name that is taken, and the
   second run fails, as `AddedAsAsked` demands of a run that did not add
   the device. There is no run for it, for what is missing is in the workflow and plain to see.
2. `inventory_worker.py:533` compares `optional` with the text "true", and the
   toggle of `Create_loopback_all_in_uniconfig` passes a Boolean: no forked
   task is optional, and one device that fails ends the run, where line 73 of
   the workflow says of the toggle that the workflow "will continue".
3. `vpls_service_worker.py:331` counts the ends that are left where its message
   in line 332 speaks of devices: a VPLS whose other device has two interfaces
   shrinks to that one device, with an instance that knows no remote end, which
   `vpls_model.py:77` cannot read any more.

## 4. What is proved

The theorems hold for every value of the constants that the named assumptions
of the modules allow (positive sizes with `DeviceStep <= PageSize`; finite sets
of labels; inputs of their type, whose contents a node can hold; CSV names
among the names; for the services, inputs with the fields a task has): any
number of devices, runs, tasks, ends, retries and faults.

**InventoryPagingProofs**: `SpecTypeOK`, `SpecCoverage`, `SpecNoFalseSuccess`.
`Coverage` is not inductive. It needs that the cursors leave no gap up to the
last one and, after the last page, up to the devices that were there
(`CursorInv`, with `Covered`: some cursor has the device within the next
`DeviceStep`); that only forked positions have batches and threads
(`ForkInv`); that the batches of all earlier chunks have ended (`LoopInv`,
where `PageLoopReachesEnd` is the arithmetic of the chunks); and that a working
thread has a verdict on every device of the page it has passed, with the page
it asked for no smaller than the one the cursors promised (`WorkerInv`, since
the inventory may have grown). At the end every device up to `fetched` is
covered by a cursor, whose batch has ended: completed, with a verdict on its
whole page, or failed and forgiven. `NoFalseSuccess` has its own invariant: a
verdict other than "failed" was given when the inventory had the device in the
state asked for, and no step of the workflow takes that back.

The second half of the module proves `SpecReportsFinal`, `SpecImplementsBulk`,
`SpecOverlapBound` and `SpecChangeShownOnce`. A fork could restart a batch that has
reported; it does not, since the batches of later chunks are idle (`FutureInv`),
and a thread that outlives its attempt writes into its own record, which nobody
reads any more. That gives the finality of reports and, together with `Coverage`
and the lemmas on what a step settles, the refinement: collecting the last
cursor fixes the target of `BulkOperation`, every other step settles devices of
batches that just ended or stutters, and the last join is its `Finish`.
`OverlapBound` is arithmetic once the cursors are known to stand exactly
`DeviceStep` apart (`StepInv`): the batches of a device are an interval of
positions. `ChangeShownOnce` needs who made a change: the workflow moves devices
in one direction only (`DirectionInv`), so at most one thread, of whatever
attempt, ever got "success" on a device and the device is changed since
(`MarkInv`), a thread has verdicts on the devices it has passed and no others
(`FreshInv`), and without faults every thread is that of a first attempt, whose
verdicts become the report (`NoFaultInv`).

**InventoryAddProofs**: `SpecTypeOK`, `SpecAddedAsAsked`, `SpecImportedFirst`,
`SpecCompletedIsInstalled`, `SpecRetriesSuffice`. The argument is that the inventory only grows
(`Grows`): labels, devices and installed names stay. What a completed task
relied on therefore stays true, and the invariant holds what it relied on: the
labels a thread has read exist (`SnapshotInv`), a device about to be installed
is there (`FoundInv`), no thread works while the process imports, and names
that the import has not asked for in vain are free or have the devices of the
files (`ImportInv`). `SpecRetriesSuffice` has a measure, the labels of the input
that were not there at first and are now: as long as nothing failed, it is at
least the number of attempts that have ended, in the inventory and in what the
thread has read of it (`RetryInv`). An attempt that creates a label raises it, and one that is
refused because another run was faster finds it raised; so the last attempt
cannot find a label missing unless more were missing than there are retries.

**VllServiceProofs**: `SpecTypeOK`, `SpecLeavesNothing` (for `VllLeavesNothing`)
and `FoundIds`. The property speaks of tasks that have ended; its invariant speaks
of the rest of a program. `ProgramOK` says of every step that may fail that, with
the nodes that are dirty by then, either its rollback covers them or the change is
left for one of the named reasons; `EndsOK` says what completes a task. A chain of
lemmas shows that sequences of safe programs are safe and that each operator of
`VllService` gives one (`ConfigureSafe`, `ResetEndsOK`, ... up to
`CreateTaskOK`), so that every started program is `ProgramOK`; `TailOK` shows
that a call keeps it, and `FewerDirty` that the commits and rollbacks of others
do. Together with "every pending change is some task's" this is the invariant.
The last part is about reading. A fold is the last value of a recursive function
along the list; that this function exists and what it does step by step is
proved once, and an invariant of the steps is carried along by the
well-foundedness of the naturals (`Upwards`), not by the library's induction.
`FoundIds`: when one service with two ends is found under a name, its ends are on
exactly the nodes that have an instance of the name.

**VllNetworkProofs**: `SpecDryRunStaysHome`, `SpecCommitInstalls`,
`SpecDeleteIsComplete` and the refinement `SpecImplementsRegistry`. A commit takes
the whole intent of its nodes to the network, whoever wrote it, so all four
are about whose writings a commit finds. Every step of a program is about the
task's own devices and its own instance (`NamedInv`), every instance was there at
first or belongs to a task with that name (`KnownInv`), and a task that met
nobody shares no node with what another one runs on or left (`ApartInv`). What a dry run
has written is therefore only where it is dirty itself, and nobody can
commit it unmet (`DryInv`). A creation that is on its way will have written what
it was asked for by the time of its last commit, or is sure to fail
(`TrackInv`): `Promise` says for each object of the two ends that the rest of the
program writes it and does not undo it, or that it is written and the rest
leaves it alone. The reset of the interfaces comes first, and what it deletes is
written again; where both ends lie on one interface the second end writes over
the first, which is why the property asks that they agree (`Consistent`).
For the other two the same argument is made of the instances of a whole service
(`EndsInv`, `WholeInv`): the nodes that have one are none or all the ends of one
undisturbed creation, a deletion on its way is about exactly those (`FoundIds`),
and the last commit of a task is the `Install` or the `Remove` of the registry.
Every other step stutters, or it begins a task that meets another one or
disagrees about the ends, and is `GiveUp`. The deletion is proved for nodes whose
instances at first have the shape that `CreateVll` gives them (`ShapedAtFirst`), the refinement for nodes
that have none (`NothingAtFirst`), since its initial state has no service.

**L2ServicesProofs**: `SpecNothingIsLeft`, for any mixture of the tasks of the
three services, `SpecVplsLeavesNothing`, the case of VPLS tasks alone, and
`SpecBiWholeOrNothing`. The
invariant `L2Inv` is that of `VllServiceProofs` for steps that may also be
overlooked, withdraw what they wrote or do so and abort. A running task is
either going, its remaining program sound from the nodes it has made dirty, with
nothing failed but writes (`Going`); or rolling back, with a reason for every
node the rollback does not cover (`RollingBack`); and a task that ended is
justified on every node it left dirty (`Justified`). The programs of VPLS and BI
have as many steps as there are ends, so `FlattenSound` shows by induction along
the list that sound programs in a row are sound; every operator of the
two modules then has its lemma, up to `AnyBegins`: whatever task begins, begins with a
sound program. `SpecVplsLeavesNothing` follows since the reasons of the other two
services are those of tasks that VPLS has none of.

`SpecBiWholeOrNothing` says that the VLAN, the VE interface and the IS-IS of an
end are on the network together or not at all, for any number of ends; the port is
no part of it, since the reset of a later end may delete it.
A BI task commits once for every end it resets and once at the end, so
its invariant is about what the rest of a program will have done to these three
objects of each end at each of its commits: `BiPrograms` computes it for a program
as it starts, `Due` says it of a program that is under way over the stores as
they are, and `DueTail` and `DueElsewhere` carry it over the task's own calls and
those of others. `BiInv` joins that to `L2Inv`, to the nodes a task runs on or left
being its own (`OwnDevices`) and to the network being whole (`NetworkWhole`). The
hypothesis `EndsAgree` is that the ends of one node agree on the VE interface and the
address of a VLAN, that a port is not a VE interface, and that the nodes have no
part of the ends at first; without it two ends may ask for different things of one object.
TLC evaluates it on the inputs of the run (`MCServices`).

**VplsServiceProofs**: `SpecVplsFullMesh` and `SpecVplsReadsBack`. Growing and
shrinking write what they have read, so the first part is about reading: `MeshReads` says that the instances
of a full mesh of two or more devices, merged in any order of the nodes, give every
end its own address and leave no address without a device. One more device after
the other, the service merged so far knows all addresses but those of the devices it
has (`PartsMerged`). The second part is about
programs: each operation writes instances that are a mesh, to all devices of the
old one and of the new one, and commits none of them before all are written
(`Brings`, `Aims`). The invariant `VplsInv` says that the network has a mesh
(`Net`), that an instance which waits for a commit is that of a task of its name
(`Clean`) which shares no device with another one (`Apart`), and that a task
which may still commit has a program that brings another mesh from where the stores
are (`Meant`, over `Course`, which follows the program step by step). Without
`Apart` somebody else's commit could bring half of a mesh, and without the part
of `Meant` that the old mesh lies within the task's devices it would stay behind. The
theorem asks that whoever asks for a device gives it one address, which is no
other's (`AddressesAgree`), that no node has an instance of the names at first
(`Fresh`), that the nodes are read once each, and that an instance is not `None`;
TLC evaluates the first three (`MCServices`). It is about VPLS tasks among each
other; beside the other services the property is checked by `l2_services`.

`SpecVplsReadsBack` adds to the mesh what reading asks of the devices: each
interface of the service is there, and has both policies or none. What is in the
way is the reset: it deletes the interface, commits the device and reads
it again, and a task that fails then may leave the service's device without the
interface. The second invariant, `PortsInv`, says why nobody reads a service in that state. Every
program writes again what it deletes (`Good`, for what is left of it `Keeps`), and no
call is passed over whose success this depends on (`Skips`). So each interface asked for
under a calm name is in both datastores, or a task that creates the service is about to write it
again, or has failed, while no device has an instance of the service
yet (`Served`, `Refilling`); the commit that brings the instances finds
the interfaces in the intent (`RefillingOwn`). The theorem asks in
addition that the interfaces asked for exist at first with both policies or
none, that both policies or none are asked for, and that an interface that is
reset is asked for under one name only (`InterfacesServe`, evaluated by TLC): where two
services share an interface, the reset of one takes it from the other, and the
reading of the other ends in an exception.

**DeviceIdentificationProofs**: `SpecTypeOK`, `SpecCompletedLeavesNothing`,
`SpecMissingForCause`. The invariant remembers why a field is missing: it was
refused in every round the thread has finished, or another attempt had
unmounted the device (`RefusedInv`), whether it was given up or raised after its
unmounting was sent; and that what is mounted is the chosen
type, a type passed over, or the command line while its branch runs
(`MountInv`).

**LoopbackProofs**: `SpecTypeOK`, `SpecAddressesAccounted`,
`SpecCompletedIsOnNetwork`, `SpecCommitsNothingStale`. The properties are about
single steps; the invariant is about the shared configuration between them:
from the reset of its device on nothing stale waits there (`Clean`), from its
write on it holds the job's loopback (`Held`), and from its commit on the
network does (`OnNet`), unless another run reset or overwrote it. `Ledger` is
the accounting of addresses.

**Model-checked only.** Liveness under fairness is beyond the prover:
`Termination`, `EveryRunEnds`, `FoundIsUnmounted`, `ForkCompletes`. Of the services,
`VplsChangesMembers`, `VllCreatedReadsBack` and `BiReadsBack` compare what a
task was asked for with what reading and merging make of the instances
afterwards, field by field; they have no theorem (section 5).
`FailsOnlyForCause`, `OptionalGoesOn` and `TwoDevicesLeft`
are violated.

## 5. Plan

What is left is proof more than model, and all of it is about reading services back:

1. `VplsChangesMembers`: `ReadEnds` and `SpecVplsReadsBack` have what a task reads;
   that what it writes holds exactly those ends, changed as asked, has to be
   followed through its program as the mesh is;
2. `VllCreatedReadsBack` and `BiReadsBack` need every field of an end followed
   through the fold, where `FoundIds` follows the nodes only.

## 6. What is not modelled

* `Create_L2VPN_P2P_OC_uniconfig`: a straight row of tasks in a transaction.
  What starts and rolls back the transaction, `UC_TX_start` and
  `UC_TX_rollback`, is not in the repository, and a model of the row alone
  would repeat it.
* Monitoring, schedules, InfluxDB, topology discovery and BGP links, LLDP: one
  or two requests to a service that keeps the state.
* Upgrade workflows: rows of commands whose effect only the device knows; the
  decision in `IOSXR_Upgrade.json:49` is on a constant and so always the same.
* Uninstalling a device by name or id beside the other runs, and
  `installed_device`: the handler of `InventoryAdd` with another mutation, and
  a query.
* `Delete_loopback_interface_uniconfig`, `RM_claim_data_from_pool` and the small
  workflows: no branch, no state.
* Parsing of device output and of version strings, templates and messages (no
  property is about them); the unified, platform and SQL workers (single
  requests without state); deployment scripts, simulated devices, logging.

The services (Conductor, inventory, UniConfig, resource manager) are modelled
only from how the code under `src/` uses them, and are marked external in
`PROJECT.json`.
