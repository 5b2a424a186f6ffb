--------------------------- MODULE InventoryPaging ---------------------------
(***************************************************************************)
(* Install_all_from_inventory and Uninstall_all_from_inventory.            *)
(*                                                                         *)
(* One task walks the device inventory and collects a cursor every         *)
(* DeviceStep devices.  The cursors are cut into chunks of CursorCount; a  *)
(* DO_WHILE of the workflow forks one batch per cursor of a chunk and      *)
(* joins them before the next chunk.  A batch asks for the PageSize        *)
(* devices after its cursor and installs (uninstalls) them one by one.     *)
(* PageSize is larger than DeviceStep, so the pages of neighbouring        *)
(* batches overlap and the batches run in parallel on shared devices.      *)
(*                                                                         *)
(* Devices are numbered in the order the inventory lists them, so a cursor *)
(* is the number of the device it follows and 0 is the cursor ''.  Nothing *)
(* in the repository deletes a device: the inventory only grows.           *)
(***************************************************************************)
EXTENDS Integers, Sequences, FiniteSets

CONSTANTS
  DeviceStep,    (* device_step of get_device_pages_ids: 10                *)
  PageSize,      (* device_step of page_device_dynamic_fork_tasks: 40      *)
  CursorCount,   (* cursor_count of get_device_pages_ids: 20               *)
  Operation,     (* "install" or "uninstall"                               *)
  ForkOptional,  (* whether "optional" of the dynamic fork spares the      *)
                 (* workflow the failure of a batch                        *)
  MaxRetries,    (* retries Conductor grants a failed or timed out task    *)
  MaxDevices,    (* bound: devices the inventory can hold                  *)
  MaxFaults      (* bound: failed calls and timeouts in one behaviour      *)

ASSUME PagingAssumption ==
  /\ DeviceStep \in Nat \ {0}
  /\ PageSize \in Nat \ {0}
  /\ CursorCount \in Nat \ {0}
  /\ DeviceStep <= PageSize
  /\ Operation \in {"install", "uninstall"}
  /\ ForkOptional \in BOOLEAN
  /\ MaxRetries \in Nat
  /\ MaxDevices \in Nat
  /\ MaxFaults \in Nat

Device  == 1 .. MaxDevices
Batch   == 1 .. MaxDevices + 1   \* positions of page_ids
Attempt == 0 .. MaxRetries
Verdict == {"none", "success", "was installed before", "failed"}

VARIABLES
  devices,       \* number of devices the inventory holds for the labels
  installed,     \* the devices the inventory has installed
  wf,            \* where the workflow stands
  taskAttempt,   \* attempt of the task the workflow itself stands at
  last_page_id,  \* cursor the next page query starts from
  page_ids,      \* the cursors collected
  fetched,       \* devices present when the last page was answered
  iteration,     \* iterations of the DO_WHILE that were started
  batch,         \* Conductor's state of each batch
  attempt,       \* current attempt of each batch
  worker,        \* the worker thread of each attempt of each batch
  faults,        \* failed calls and timeouts so far
  before         \* history: the devices installed before the workflow

vars == <<devices, installed, wf, taskAttempt, last_page_id, page_ids, fetched,
          iteration, batch, attempt, worker, faults, before>>
fetchVars    == <<last_page_id, page_ids, fetched, before>>
workflowVars == <<wf, taskAttempt, fetchVars, iteration>>

Worker ==
  [pc : {"idle", "polled", "working", "ended"}, next : Nat, stop : Nat,
   device_status : [Device -> Verdict]]

IdleWorker ==
  [pc |-> "idle", next |-> 0, stop |-> 0,
   device_status |-> [d \in Device |-> "none"]]

\* Mutant of Chunk: a chunk starts with the last cursor of the one before.
Chunk_Overlap(i) ==
  {b \in DOMAIN page_ids : i * CursorCount <= b /\ b <= (i + 1) * CursorCount}

\* Mutant of Chunk: the inner loop stops one short of cursor_count.
Chunk_Short(i) ==
  {b \in DOMAIN page_ids : i * CursorCount < b /\ b < (i + 1) * CursorCount}

\* Positions of page_ids that page_loop[i] holds.
Chunk(i) ==
  {b \in DOMAIN page_ids : i * CursorCount < b /\ b <= (i + 1) * CursorCount}

\* len(page_loop), the output page_size of INVENTORY_get_pages_cursors.
PageLoopSize == (Len(page_ids) + CursorCount - 1) \div CursorCount

\* The page a batch asks for, in an inventory that holds n devices.
PageEnd(b, n) ==
  IF page_ids[b] + PageSize <= n THEN page_ids[b] + PageSize ELSE n
Page(b, n) == {d \in Device : page_ids[b] < d /\ d <= PageEnd(b, n)}

\* What a batch that Conductor accepted as completed reports of a device.
Reported(b, d) == worker[b][attempt[b]].device_status[d]

\* Mutant of Ended: the join does not wait for its batches.
Ended_Started(b) == batch[b] # "idle"

\* Mutant of Ended: a batch that failed keeps the join waiting.
Ended_Completed(b) == batch[b] = "completed"

\* What the JOIN waits for.
Ended(b) == batch[b] \in {"completed", "failed"}

-----------------------------------------------------------------------------
Init ==
  /\ devices \in 0 .. MaxDevices
  /\ installed \in SUBSET (1 .. devices)
  /\ wf = "fetching"
  /\ taskAttempt = 0
  /\ last_page_id = 0
  /\ page_ids = <<>>
  /\ fetched = 0
  /\ iteration = 0
  /\ batch = [b \in Batch |-> "idle"]
  /\ attempt = [b \in Batch |-> 0]
  /\ worker = [b \in Batch |-> [a \in Attempt |-> IdleWorker]]
  /\ faults = 0
  /\ before = installed

\* Somebody adds a device while the workflow runs; it is listed last.
AddDevice ==
  /\ devices < MaxDevices
  /\ devices' = devices + 1
  /\ UNCHANGED <<installed, workflowVars, batch, attempt, worker, faults>>

-----------------------------------------------------------------------------
(* INVENTORY_get_pages_cursors *)

\* Mutant of HasNextPage: the loop has no break.
HasNextPage_Always == TRUE

\* pageInfo.hasNextPage of the page after last_page_id.
HasNextPage == last_page_id + DeviceStep < devices

\* Mutant of WithFirst: only end cursors are collected.
WithFirst_None == page_ids

\* page_ids with the cursor '' of a page that has no previous page.
WithFirst == IF last_page_id > 0 THEN page_ids ELSE Append(page_ids, 0)

\* One page query that is answered with data.  The first page has no previous
\* page and contributes the cursor ''; a page with a next one contributes its
\* end cursor; a page without one ends the loop.
FetchPage ==
  LET hasNextPage == HasNextPage
      endCursor   == last_page_id + DeviceStep
  IN /\ wf = "fetching"
     /\ page_ids' = IF hasNextPage THEN Append(WithFirst, endCursor)
                                   ELSE WithFirst
     /\ last_page_id' = IF hasNextPage THEN endCursor ELSE last_page_id
     /\ wf' = IF hasNextPage THEN "fetching" ELSE "looping"
     /\ fetched' = IF hasNextPage THEN fetched ELSE devices
     /\ taskAttempt' = IF hasNextPage THEN taskAttempt ELSE 0
     /\ UNCHANGED <<devices, installed, iteration, batch, attempt, worker,
                    faults, before>>

\* Conductor learns that the workflow's own task failed.
FailTask ==
  \/ /\ taskAttempt < MaxRetries
     /\ taskAttempt' = taskAttempt + 1
     /\ UNCHANGED wf
  \/ /\ taskAttempt = MaxRetries
     /\ wf' = "failed"
     /\ UNCHANGED taskAttempt

\* Mutant of FetchFails: page_ids outlives the attempt that filled it.
FetchFails_KeepsPages ==
  /\ wf = "fetching"
  /\ faults < MaxFaults
  /\ faults' = faults + 1
  /\ FailTask
  /\ last_page_id' = 0
  /\ UNCHANGED <<devices, installed, page_ids, fetched, iteration, batch,
                 attempt, worker, before>>

\* A page query answered with errors, a label that does not exist, a query
\* that raises or a task that times out: the cursors collected so far are
\* local to the attempt and lost with it.
FetchFails ==
  /\ wf = "fetching"
  /\ faults < MaxFaults
  /\ faults' = faults + 1
  /\ FailTask
  /\ last_page_id' = 0
  /\ page_ids' = <<>>
  /\ UNCHANGED <<devices, installed, fetched, iteration, batch, attempt, worker,
                 before>>

-----------------------------------------------------------------------------
(* The DO_WHILE of the workflow *)

\* LAMBDA_TASK picks page_ids[iteration - 1], the next task makes one dynamic
\* task per cursor and FORK_JOIN_DYNAMIC schedules them all.
ForkBatches ==
  /\ wf = "looping"
  /\ iteration' = iteration + 1
  /\ batch' = [b \in Batch |->
                 IF b \in Chunk(iteration) THEN "scheduled" ELSE batch[b]]
  /\ wf' = "forked"
  /\ taskAttempt' = 0
  /\ UNCHANGED <<devices, installed, fetchVars, attempt, worker, faults>>

\* The task that makes the dynamic tasks fails: a label that does not exist any
\* more, a label query that raises, a timeout.
ForkFails ==
  /\ wf = "looping"
  /\ faults < MaxFaults
  /\ faults' = faults + 1
  /\ FailTask
  /\ UNCHANGED <<devices, installed, fetchVars, iteration, batch, attempt, worker>>

\* JOIN waits for every batch of the fork, then loopCondition is evaluated.
JoinBatches ==
  /\ wf = "forked"
  /\ \A b \in Chunk(iteration - 1) : Ended(b)
  /\ wf' = IF iteration < PageLoopSize THEN "looping" ELSE "done"
  /\ UNCHANGED <<devices, installed, taskAttempt, fetchVars, iteration, batch, attempt,
                 worker, faults>>

\* Conductor learns that the current attempt of b failed.
FailAttempt(b) ==
  \/ /\ attempt[b] < MaxRetries
     /\ attempt' = [attempt EXCEPT ![b] = @ + 1]
     /\ UNCHANGED <<batch, wf>>
  \/ /\ attempt[b] = MaxRetries
     /\ batch' = [batch EXCEPT ![b] = "failed"]
     /\ wf' = IF ForkOptional THEN wf ELSE "failed"
     /\ UNCHANGED attempt

\* Conductor still waits for attempt a of b; anything else it is told of the
\* task comes too late and is ignored.
Awaited(b, a) == wf = "forked" /\ batch[b] = "scheduled" /\ attempt[b] = a

\* responseTimeoutSeconds: the attempt is given up, its thread is not stopped.
TimeoutBatch(b) ==
  /\ Awaited(b, attempt[b])
  /\ worker[b][attempt[b]].pc # "idle"
  /\ faults < MaxFaults
  /\ faults' = faults + 1
  /\ FailAttempt(b)
  /\ UNCHANGED <<devices, installed, taskAttempt, fetchVars, iteration, worker>>

-----------------------------------------------------------------------------
(* INVENTORY_install_in_batch and INVENTORY_uninstall_in_batch *)

\* The thread of attempt a of b moves on to w.
Thread(b, a, w) == worker' = [worker EXCEPT ![b][a] = w]

\* A worker thread takes the scheduled task.
Poll(b) ==
  /\ Awaited(b, attempt[b])
  /\ worker[b][attempt[b]].pc = "idle"
  /\ Thread(b, attempt[b], [worker[b][attempt[b]] EXCEPT !.pc = "polled"])
  /\ UNCHANGED <<devices, installed, workflowVars, batch, attempt, faults>>

\* The page query: the devices of the page are fixed here.
QueryPage(b, a) ==
  /\ worker[b][a].pc = "polled"
  /\ Thread(b, a, [worker[b][a] EXCEPT !.pc = "working",
                                       !.next = page_ids[b] + 1,
                                       !.stop = PageEnd(b, devices)])
  /\ UNCHANGED <<devices, installed, workflowVars, batch, attempt, faults>>

\* Mutant of Answer: "already been installed" and the error of an uninstall
\* are taken for success.
Answer_Success(d) == "success"

\* What the worker makes of the inventory's answer to a mutation, by what it had of the device.
Answer(d) ==
  IF Operation = "install"
    THEN IF d \in installed THEN "was installed before" ELSE "success"
    ELSE IF d \in installed THEN "success" ELSE "failed"

\* installed after the mutation on d was applied.
Applied(d) ==
  IF Operation = "install" THEN installed \cup {d} ELSE installed \ {d}

\* The worker's next device; its verdict goes into device_status.
Report(b, a, verdict) ==
  Thread(b, a, [worker[b][a] EXCEPT
                  !.next = @ + 1,
                  !.device_status = [@ EXCEPT ![worker[b][a].next] = verdict]])

Working(b, a) ==
  /\ worker[b][a].pc = "working"
  /\ worker[b][a].next <= worker[b][a].stop

\* One device: the mutation is applied and answered.
CallDevice(b, a) ==
  /\ Working(b, a)
  /\ installed' = Applied(worker[b][a].next)
  /\ Report(b, a, Answer(worker[b][a].next))
  /\ UNCHANGED <<devices, workflowVars, batch, attempt, faults>>

\* Mutant of CallRefused: the errors of the answer are not looked at.
CallRefused_Success(b, a) ==
  /\ Working(b, a)
  /\ faults < MaxFaults
  /\ faults' = faults + 1
  /\ Report(b, a, "success")
  /\ UNCHANGED <<devices, installed, workflowVars, batch, attempt>>

\* One device: the inventory refuses it; the loop goes on.
CallRefused(b, a) ==
  /\ Working(b, a)
  /\ faults < MaxFaults
  /\ faults' = faults + 1
  /\ Report(b, a, "failed")
  /\ UNCHANGED <<devices, installed, workflowVars, batch, attempt>>

\* The attempt ends FAILED: its page query was answered with errors, or a
\* request raised.  A mutation whose answer was lost may have been applied;
\* device_status, local to the attempt, is lost.
BatchFails(b, a) ==
  /\ worker[b][a].pc \in {"polled", "working"}
  /\ faults < MaxFaults
  /\ faults' = faults + 1
  /\ \/ UNCHANGED installed
     \/ /\ Working(b, a)
        /\ installed' = Applied(worker[b][a].next)
  /\ Thread(b, a, [worker[b][a] EXCEPT !.pc = "ended"])
  /\ \/ Awaited(b, a) /\ FailAttempt(b)
     \/ ~Awaited(b, a) /\ UNCHANGED <<batch, attempt, wf>>
  /\ UNCHANGED <<devices, taskAttempt, fetchVars, iteration>>

\* The page is done: the task ends COMPLETED with device_status.
FinishBatch(b, a) ==
  /\ worker[b][a].pc = "working"
  /\ worker[b][a].next > worker[b][a].stop
  /\ Thread(b, a, [worker[b][a] EXCEPT !.pc = "ended"])
  /\ batch' = IF Awaited(b, a) THEN [batch EXCEPT ![b] = "completed"] ELSE batch
  /\ UNCHANGED <<devices, installed, workflowVars, attempt, faults>>

-----------------------------------------------------------------------------
WorkerStep(b, a) == QueryPage(b, a) \/ CallDevice(b, a) \/ FinishBatch(b, a)

Next ==
  \/ AddDevice
  \/ FetchPage
  \/ FetchFails
  \/ ForkBatches
  \/ ForkFails
  \/ JoinBatches
  \/ \E b \in Batch : Poll(b) \/ TimeoutBatch(b)
  \/ \E b \in Batch, a \in Attempt :
       \/ QueryPage(b, a)
       \/ CallDevice(b, a)
       \/ CallRefused(b, a)
       \/ BatchFails(b, a)
       \/ FinishBatch(b, a)

Spec == Init /\ [][Next]_vars

\* Conductor runs every task that is due and a worker thread goes on with the
\* task it holds; nobody has to add devices and nothing has to fail.
Fairness ==
  /\ WF_vars(FetchPage)
  /\ WF_vars(ForkBatches)
  /\ WF_vars(JoinBatches)
  /\ \A b \in Batch : WF_vars(Poll(b))
  /\ \A b \in Batch, a \in Attempt : WF_vars(WorkerStep(b, a))

FairSpec == Spec /\ Fairness
-----------------------------------------------------------------------------
(* Properties *)

TypeOK ==
  /\ devices \in 0 .. MaxDevices
  /\ installed \in SUBSET Device
  /\ before \in SUBSET Device
  /\ wf \in {"fetching", "looping", "forked", "done", "failed"}
  /\ taskAttempt \in Attempt
  /\ last_page_id \in 0 .. MaxDevices
  /\ page_ids \in Seq(0 .. MaxDevices)
  /\ fetched \in 0 .. MaxDevices
  /\ iteration \in Nat
  /\ batch \in [Batch -> {"idle", "scheduled", "completed", "failed"}]
  /\ attempt \in [Batch -> Attempt]
  /\ worker \in [Batch -> [Attempt -> Worker]]
  /\ faults \in Nat

(* Every device that was in the inventory when the cursors were collected  *)
(* is dealt with: once the workflow is done, some batch reports a verdict  *)
(* on it, or the batch that had it in its page failed and was forgiven.    *)
(* No gap between two cursors, no chunk and no page end loses a device,    *)
(* also when devices are added meanwhile.                                  *)
Settled(d) ==
  \E b \in DOMAIN page_ids :
    \/ batch[b] = "completed" /\ Reported(b, d) # "none"
    \/ ForkOptional /\ batch[b] = "failed" /\ d \in Page(b, fetched)

Coverage == wf = "done" => \A d \in 1 .. fetched : Settled(d)

(* Whatever the overlapping batches, the retries and the threads that      *)
(* outlive their task do, a device that the inventory does not have in the *)
(* state the workflow asked for is reported "failed" by every batch that   *)
(* reports it: no report claims more than what happened.                   *)
Reached(d) == (d \in installed) = (Operation = "install")

NoFalseSuccess ==
  \A b \in DOMAIN page_ids, d \in Device :
    batch[b] = "completed" /\ ~Reached(d) => Reported(b, d) \in {"none", "failed"}

(* The overlap is bounded: a device lies in the pages of at most           *)
(* ceil(PageSize / DeviceStep) batches, however often the collection of    *)
(* the cursors was retried and however the inventory grew.                 *)
OverlapBound ==
  \A d \in Device :
    Cardinality({b \in DOMAIN page_ids : d \in Page(b, devices)})
      <= (PageSize + DeviceStep - 1) \div DeviceStep

(* A change is shown once: no two batches report "success" on a device,    *)
(* although several have it in their page and a retry repeats the page; a  *)
(* "success" stands for a change of that device; and when nothing failed   *)
(* every device the workflow changed has its "success".                    *)
Changed(d) == (d \in installed) # (d \in before)
SuccessOn(d) ==
  {b \in DOMAIN page_ids : batch[b] = "completed" /\ Reported(b, d) = "success"}

ChangeShownOnce ==
  \A d \in Device :
    /\ Cardinality(SuccessOn(d)) <= IF Changed(d) THEN 1 ELSE 0
    /\ wf = "done" /\ faults = 0 /\ Changed(d) => SuccessOn(d) # {}

(* What a completed batch reports is final: neither a thread that outlives *)
(* its timed out attempt nor a later iteration changes the verdicts that   *)
(* the workflow has shown.                                                 *)
ReportsFinal ==
  [][\A b \in Batch : batch[b] = "completed" =>
       /\ batch'[b] = "completed"
       /\ \A d \in Device : Reported(b, d)' = Reported(b, d)]_vars

(* The workflow ends, and after it ended no thread keeps calling the       *)
(* inventory for ever.                                                     *)
Termination ==
  <>[](/\ wf \in {"done", "failed"}
       /\ \A b \in Batch, a \in Attempt :
            worker[b][a].pc \notin {"polled", "working"})

(* The workflow implements the promise of BulkOperation, with the devices  *)
(* it fetched as the target.                                               *)
Phase ==
  CASE wf = "fetching" -> "collecting"
    [] wf \in {"looping", "forked"} -> "running"
    [] OTHER -> wf

SettledDevices == {d \in Device : Settled(d)}

Bulk == INSTANCE BulkOperation WITH
  Items   <- Device,
  phase   <- Phase,
  target  <- 1 .. fetched,
  settled <- SettledDevices

ImplementsBulk == Bulk!Spec
=============================================================================
