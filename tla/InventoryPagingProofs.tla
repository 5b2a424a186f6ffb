------------------------ MODULE InventoryPagingProofs ------------------------
(***************************************************************************)
(* Proofs about InventoryPaging, for every inventory, step, page and chunk *)
(* size, number of retries and number of faults.                           *)
(***************************************************************************)
EXTENDS InventoryPaging, SequenceTheorems, FiniteSetTheorems, TLAPS

(* The inductive invariant. *)

\* A cursor that lets the device into the first DeviceStep of its page.
Covered(d) ==
  \E p \in DOMAIN page_ids : page_ids[p] < d /\ d <= page_ids[p] + DeviceStep

\* The cursors leave no gap below the last one, and from the last page on none
\* below the devices that were there.
CursorInv ==
  /\ last_page_id <= devices
  /\ fetched <= devices
  /\ Len(page_ids) <= last_page_id + 1
  /\ wf = "fetching" /\ last_page_id = 0 => page_ids = <<>>
  /\ wf = "fetching" /\ last_page_id > 0 =>
       \E p \in DOMAIN page_ids : page_ids[p] = last_page_id
  /\ wf = "fetching" => \A d \in 1 .. last_page_id : Covered(d)
  /\ wf \in {"looping", "forked", "done"} => \A d \in 1 .. fetched : Covered(d)

\* Only positions of page_ids that were forked have a batch and a worker.
ForkInv ==
  /\ \A b \in Batch : batch[b] # "idle" => b \in DOMAIN page_ids /\ wf # "fetching"
  /\ \A b \in Batch, a \in Attempt :
       worker[b][a].pc # "idle" => b \in DOMAIN page_ids /\ wf # "fetching"

\* The batches of the earlier chunks have ended.
LoopInv ==
  /\ wf = "looping" =>
       \A b \in DOMAIN page_ids : b <= iteration * CursorCount => Ended(b)
  /\ wf = "forked" =>
       /\ iteration \in Nat \ {0}
       /\ \A b \in DOMAIN page_ids : b <= (iteration - 1) * CursorCount => Ended(b)
  /\ wf = "done" => \A b \in DOMAIN page_ids : Ended(b)
  /\ wf = "fetching" => iteration = 0
  /\ wf # "failed" /\ ~ForkOptional => \A b \in Batch : batch[b] # "failed"

\* A working thread has a verdict on every device it has passed, and its page
\* holds what the cursors promised; a completed batch has it on the whole page.
WorkerInv ==
  /\ \A b \in Batch, a \in Attempt : worker[b][a].pc = "working" =>
       /\ worker[b][a].next >= 1
       /\ worker[b][a].stop <= MaxDevices
       /\ \A d \in Page(b, fetched) :
            /\ d <= worker[b][a].stop
            /\ d < worker[b][a].next => worker[b][a].device_status[d] # "none"
  /\ \A b \in Batch : batch[b] = "completed" =>
       /\ worker[b][attempt[b]].pc = "ended"
       /\ \A d \in Page(b, fetched) : Reported(b, d) # "none"

IInv == TypeOK /\ CursorInv /\ ForkInv /\ LoopInv /\ WorkerInv

-----------------------------------------------------------------------------
(* Facts about the operators *)

\* The chunks of the page loop reach the last cursor.
LEMMA PageLoopReachesEnd ==
  ASSUME NEW n \in Nat, NEW c \in Nat \ {0}, NEW i \in Nat,
         ~(i < (n + c - 1) \div c)
  PROVE  n <= i * c
<1> DEFINE q == (n + c - 1) \div c
           r == (n + c - 1) % c
<1>1. q \in Int /\ r \in 0 .. c - 1 /\ n + c - 1 = c * q + r
  OBVIOUS
<1>2. n <= c * q
  BY <1>1
<1>3. i - q \in Nat
  BY <1>1
<1>4. c * i = c * q + c * (i - q)
  BY <1>1, <1>3
<1>5. c * (i - q) >= 0
  BY <1>3
<1> QED
  BY <1>1, <1>2, <1>4, <1>5

\* Positions of page_ids are batches.
LEMMA PositionsAreBatches ==
  ASSUME TypeOK, CursorInv
  PROVE  /\ DOMAIN page_ids = 1 .. Len(page_ids)
         /\ DOMAIN page_ids \subseteq Batch
         /\ \A b \in DOMAIN page_ids : page_ids[b] \in 0 .. MaxDevices
BY PagingAssumption DEF TypeOK, CursorInv, Batch

-----------------------------------------------------------------------------
\* The invariant holds before the workflow takes its first step.
LEMMA InitIInv == Init => IInv
BY PagingAssumption DEF Init, IInv, TypeOK, CursorInv, ForkInv, LoopInv, WorkerInv,
   Covered, Worker, IdleWorker, Device, Batch, Attempt, Verdict

\* A new device is listed after every cursor, so nothing moves.
LEMMA AddDeviceIInv ==
  ASSUME IInv, AddDevice PROVE IInv'
<1> USE DEF IInv, AddDevice, workflowVars, fetchVars
<1>1. TypeOK'
  BY PagingAssumption DEF TypeOK
<1>2. CursorInv'
  BY PagingAssumption DEF TypeOK, CursorInv, Covered
<1>3. ForkInv' /\ LoopInv'
  BY DEF ForkInv, LoopInv, Ended
<1>4. WorkerInv'
  BY DEF WorkerInv, Page, PageEnd, Reported
<1> QED
  BY <1>1, <1>2, <1>3, <1>4

-----------------------------------------------------------------------------
(* Collecting the cursors *)

\* What appending a cursor does to the cursors.
LEMMA AppendCursor ==
  ASSUME NEW s \in Seq(0 .. MaxDevices), NEW c \in 0 .. MaxDevices
  PROVE  /\ Append(s, c) \in Seq(0 .. MaxDevices)
         /\ Len(Append(s, c)) = Len(s) + 1
         /\ \A q \in DOMAIN s : q \in DOMAIN Append(s, c) /\ Append(s, c)[q] = s[q]
         /\ \E q \in DOMAIN Append(s, c) : Append(s, c)[q] = c
<1>1. /\ Append(s, c) \in Seq(0 .. MaxDevices)
      /\ Len(Append(s, c)) = Len(s) + 1
      /\ \A q \in 1 .. Len(s) : Append(s, c)[q] = s[q]
      /\ Append(s, c)[Len(s) + 1] = c
  BY AppendProperties
<1>2. /\ DOMAIN s = 1 .. Len(s) /\ Len(s) \in Nat
      /\ DOMAIN Append(s, c) = 1 .. Len(s) + 1
  BY <1>1, LenProperties
<1>3. Len(s) + 1 \in DOMAIN Append(s, c)
  BY <1>2
<1>4. ASSUME NEW q \in DOMAIN s
      PROVE  q \in DOMAIN Append(s, c) /\ Append(s, c)[q] = s[q]
  BY <1>1, <1>2
<1>5. \E q \in DOMAIN Append(s, c) : Append(s, c)[q] = c
  BY <1>1, <1>3
<1> QED
  BY <1>1, <1>4, <1>5

\* A page adds the cursors that keep the gaps between cursors covered.
LEMMA FetchPageIInv ==
  ASSUME IInv, FetchPage PROVE IInv'
<1> USE DEF IInv
<1> DEFINE w == IF last_page_id > 0 THEN page_ids ELSE Append(page_ids, 0)
<1>1. /\ w \in Seq(0 .. MaxDevices)
      /\ Len(w) <= last_page_id + 1
      /\ \A q \in DOMAIN page_ids : q \in DOMAIN w /\ w[q] = page_ids[q]
      /\ \E q \in DOMAIN w : w[q] = last_page_id
  <2>1. CASE last_page_id > 0
    BY <2>1 DEF FetchPage, HasNextPage, WithFirst, TypeOK, CursorInv
  <2>2. CASE ~(last_page_id > 0)
    <3>1. last_page_id = 0 /\ page_ids = <<>> /\ Len(page_ids) = 0
      BY <2>2 DEF FetchPage, HasNextPage, WithFirst, TypeOK, CursorInv
    <3>2. page_ids \in Seq(0 .. MaxDevices) /\ 0 \in 0 .. MaxDevices
      BY PagingAssumption DEF TypeOK
    <3> QED
      BY <2>2, <3>1, <3>2, AppendCursor
  <2> QED
    BY <2>1, <2>2
<1> DEFINE more == last_page_id + DeviceStep < devices
<1> HIDE DEF w
<1>2. /\ wf = "fetching"
      /\ page_ids' = IF more THEN Append(w, last_page_id + DeviceStep) ELSE w
      /\ last_page_id' = IF more THEN last_page_id + DeviceStep ELSE last_page_id
      /\ wf' = IF more THEN "fetching" ELSE "looping"
      /\ fetched' = IF more THEN fetched ELSE devices
      /\ taskAttempt' = IF more THEN taskAttempt ELSE 0
      /\ UNCHANGED <<devices, installed, iteration, batch, attempt, worker,
                     faults, before>>
  BY DEF FetchPage, HasNextPage, WithFirst, w
<1>3. /\ last_page_id \in 0 .. MaxDevices /\ devices \in 0 .. MaxDevices
      /\ fetched \in 0 .. MaxDevices
      /\ last_page_id \in Nat /\ devices \in Nat /\ fetched \in Nat
      /\ last_page_id <= devices /\ fetched <= devices
      /\ DeviceStep \in Nat /\ DeviceStep > 0 /\ MaxDevices \in Nat
      /\ more => last_page_id + DeviceStep \in 0 .. MaxDevices
  BY PagingAssumption DEF TypeOK, CursorInv
<1>4. /\ page_ids' \in Seq(0 .. MaxDevices)
      /\ Len(page_ids') <= Len(w) + (IF more THEN 1 ELSE 0)
      /\ \A q \in DOMAIN w : q \in DOMAIN page_ids' /\ page_ids'[q] = w[q]
      /\ more => \E q \in DOMAIN page_ids' : page_ids'[q] = last_page_id + DeviceStep
  <2>1. CASE more
    <3>1. page_ids' = Append(w, last_page_id + DeviceStep)
      BY <2>1, <1>2
    <3>2. w \in Seq(0 .. MaxDevices) /\ last_page_id + DeviceStep \in 0 .. MaxDevices
      BY <2>1, <1>1, <1>3
    <3>3. /\ page_ids' \in Seq(0 .. MaxDevices)
          /\ Len(page_ids') = Len(w) + 1
          /\ \A q \in DOMAIN w : q \in DOMAIN page_ids' /\ page_ids'[q] = w[q]
          /\ \E q \in DOMAIN page_ids' : page_ids'[q] = last_page_id + DeviceStep
      BY <3>1, <3>2, AppendCursor, Zenon
    <3> QED
      BY <2>1, <3>2, <3>3, LenProperties
  <2>2. CASE ~more
    <3>1. page_ids' = w /\ Len(w) \in Nat
      BY <2>2, <1>1, <1>2, LenProperties
    <3> QED
      BY <2>2, <3>1, <1>1
  <2> QED
    BY <2>1, <2>2
<1>5. TypeOK'
  BY <1>2, <1>3, <1>4, PagingAssumption DEF TypeOK, Attempt
<1>6. CursorInv'
  <2>1. /\ last_page_id' <= devices' /\ fetched' <= devices'
        /\ wf' = "fetching" => last_page_id' > 0
    BY <1>2, <1>3
  <2>2. Len(page_ids') <= last_page_id' + 1
    <3>1. Len(w) \in Nat /\ Len(page_ids') \in Nat
      BY <1>1, <1>4, LenProperties
    <3> QED
      BY <3>1, <1>1, <1>2, <1>3, <1>4
  <2>3. wf' = "fetching" => \E q \in DOMAIN page_ids' : page_ids'[q] = last_page_id'
    BY <1>2, <1>4
  <2>4. PICK q \in DOMAIN page_ids' : page_ids'[q] = last_page_id
    BY <1>1, <1>4
  <2>5. ASSUME NEW d \in Nat, d > 0, d <= last_page_id + DeviceStep PROVE Covered(d)'
    <3>1. CASE d <= last_page_id
      <4>1. PICK p \in DOMAIN page_ids : page_ids[p] < d /\ d <= page_ids[p] + DeviceStep
        BY <3>1, <2>5, <1>2, <1>3 DEF CursorInv, Covered
      <4>2. p \in DOMAIN page_ids' /\ page_ids'[p] = page_ids[p]
        BY <1>1, <1>4
      <4> QED
        BY <4>1, <4>2 DEF Covered
    <3>2. CASE ~(d <= last_page_id)
      <4>1. last_page_id < d
        BY <3>2, <1>3, <2>5
      <4> QED
        BY <4>1, <2>4, <2>5 DEF Covered
    <3> QED
      BY <3>1, <3>2
  <2>6. wf' = "fetching" => \A d \in 1 .. last_page_id' : Covered(d)'
    BY <2>5, <1>2, <1>3
  <2>7. wf' \in {"looping", "forked", "done"} => \A d \in 1 .. fetched' : Covered(d)'
    BY <2>5, <1>2, <1>3
  <2> QED
    BY <2>1, <2>2, <2>3, <2>6, <2>7 DEF CursorInv
<1>7. ForkInv' /\ LoopInv' /\ WorkerInv'
  <2>1. /\ \A b \in Batch : batch[b] = "idle"
        /\ \A b \in Batch, a \in Attempt : worker[b][a].pc = "idle"
        /\ iteration = 0
    BY DEF FetchPage, HasNextPage, WithFirst, ForkInv, LoopInv
  <2>2. wf' \in {"fetching", "looping"} /\ UNCHANGED <<batch, worker, attempt, iteration>>
    BY DEF FetchPage
  <2>3. \A b \in DOMAIN page_ids' : b \in Nat /\ b > 0
    BY <1>5 DEF TypeOK
  <2>4. ForkInv' /\ WorkerInv'
    BY <2>1, <2>2 DEF ForkInv, WorkerInv
  <2>5. LoopInv'
    BY <2>1, <2>2, <2>3, PagingAssumption DEF LoopInv
  <2> QED
    BY <2>4, <2>5
<1> QED
  BY <1>5, <1>6, <1>7

\* A failed collection starts again from no cursor at all.
LEMMA FetchFailsIInv ==
  ASSUME IInv, FetchFails PROVE IInv'
<1> USE DEF IInv
<1>1. TypeOK'
  <2>1. taskAttempt' \in Attempt /\ wf' \in {"fetching", "failed"}
    BY PagingAssumption DEF TypeOK, FetchFails, FailTask, Attempt
  <2> QED
    BY <2>1, PagingAssumption DEF TypeOK, FetchFails
<1>2. CursorInv'
  BY PagingAssumption DEF TypeOK, CursorInv, FetchFails, FailTask
<1>3. /\ \A b \in Batch : batch[b] = "idle"
      /\ \A b \in Batch, a \in Attempt : worker[b][a].pc = "idle"
      /\ iteration = 0
  BY DEF FetchFails, ForkInv, LoopInv
<1>4. wf' \in {"fetching", "failed"} /\ UNCHANGED <<batch, worker, attempt, iteration>>
  BY DEF FetchFails, FailTask
<1>5. ForkInv' /\ LoopInv' /\ WorkerInv'
  BY <1>3, <1>4 DEF ForkInv, LoopInv, WorkerInv
<1> QED
  BY <1>1, <1>2, <1>5

-----------------------------------------------------------------------------
(* The DO_WHILE *)

\* The fork schedules the batches of its chunk and no other.
LEMMA ForkBatchesIInv ==
  ASSUME IInv, ForkBatches PROVE IInv'
<1> USE DEF IInv
<1>1. TypeOK'
  BY PagingAssumption DEF TypeOK, ForkBatches, fetchVars, Attempt
<1>2. CursorInv'
  BY DEF TypeOK, CursorInv, ForkBatches, fetchVars, Covered
<1>3. \A b \in Chunk(iteration) : b \in DOMAIN page_ids /\ ~(b <= iteration * CursorCount)
  BY PagingAssumption DEF Chunk, TypeOK
<1>4. ForkInv'
  BY <1>3 DEF ForkInv, ForkBatches, fetchVars
<1>5. LoopInv'
  <2>1. iteration \in Nat /\ iteration' = iteration + 1 /\ iteration' - 1 = iteration
    BY DEF TypeOK, ForkBatches
  <2>2. ASSUME NEW b \in DOMAIN page_ids, b <= iteration * CursorCount PROVE Ended(b)'
    <3>1. b \notin Chunk(iteration) /\ b \in Batch
      BY <1>3, <2>2, PositionsAreBatches
    <3>2. Ended(b)
      BY <2>2 DEF LoopInv, ForkBatches
    <3> QED
      BY <3>1, <3>2 DEF Ended, ForkBatches
  <2>3. ~ForkOptional => \A b \in Batch : batch'[b] # "failed"
    BY DEF LoopInv, ForkBatches
  <2> QED
    BY <2>1, <2>2, <2>3 DEF LoopInv, ForkBatches, fetchVars
<1>6. WorkerInv'
  BY DEF WorkerInv, ForkBatches, fetchVars, Page, PageEnd, Reported
<1> QED
  BY <1>1, <1>2, <1>4, <1>5, <1>6

\* A fork that fails is tried again in the same chunk, or ends the workflow.
LEMMA ForkFailsIInv ==
  ASSUME IInv, ForkFails PROVE IInv'
<1> USE DEF IInv
<1>1. /\ wf = "looping" /\ wf' \in {"looping", "failed"}
      /\ taskAttempt' \in Attempt /\ faults' \in Nat
      /\ UNCHANGED <<devices, installed, last_page_id, page_ids, fetched, before,
                     iteration, batch, attempt, worker>>
  BY PagingAssumption DEF TypeOK, ForkFails, FailTask, Attempt, fetchVars
<1>2. TypeOK' /\ CursorInv'
  BY <1>1 DEF TypeOK, CursorInv, Covered
<1>3. ForkInv' /\ LoopInv' /\ WorkerInv'
  BY <1>1 DEF ForkInv, LoopInv, WorkerInv, Ended, Page, PageEnd, Reported
<1> QED
  BY <1>2, <1>3

\* The join leaves the loop only when no chunk is left.
LEMMA JoinBatchesIInv ==
  ASSUME IInv, JoinBatches PROVE IInv'
<1> USE DEF IInv
<1>1. TypeOK'
  BY DEF TypeOK, JoinBatches, fetchVars
<1>2. CursorInv'
  BY DEF TypeOK, CursorInv, JoinBatches, fetchVars, Covered
<1>3. ForkInv' /\ WorkerInv'
  BY DEF ForkInv, WorkerInv, JoinBatches, fetchVars, Page, PageEnd, Reported
<1>4. LoopInv'
  <2>1. iteration \in Nat \ {0} /\ (iteration - 1) + 1 = iteration
    BY DEF LoopInv, JoinBatches, TypeOK
  <2>2. ASSUME NEW b \in DOMAIN page_ids, b <= iteration * CursorCount PROVE Ended(b)
    <3>1. CASE b <= (iteration - 1) * CursorCount
      BY <3>1 DEF LoopInv, JoinBatches
    <3>2. CASE ~(b <= (iteration - 1) * CursorCount)
      <4>1. (iteration - 1) * CursorCount \in Int /\ b \in Nat
        BY <2>1, PagingAssumption DEF TypeOK
      <4>2. b \in Chunk(iteration - 1)
        BY <3>2, <4>1, <2>1, <2>2 DEF Chunk
      <4> QED
        BY <4>2 DEF JoinBatches
    <3> QED
      BY <3>1, <3>2
  <2>3. ASSUME ~(iteration < PageLoopSize), NEW b \in DOMAIN page_ids PROVE Ended(b)
    <3>1. Len(page_ids) \in Nat /\ b <= Len(page_ids) /\ b \in Nat
      BY DEF TypeOK
    <3>2. Len(page_ids) <= iteration * CursorCount
      BY <2>1, <2>3, <3>1, PageLoopReachesEnd, PagingAssumption DEF PageLoopSize
    <3>3. iteration * CursorCount \in Int
      BY <2>1, PagingAssumption
    <3> QED
      BY <2>2, <3>1, <3>2, <3>3
  <2> QED
    BY <2>1, <2>2, <2>3 DEF LoopInv, JoinBatches, fetchVars, Ended
<1> QED
  BY <1>1, <1>2, <1>3, <1>4

-----------------------------------------------------------------------------
(* The batches *)

\* Conductor giving up an attempt of b touches nothing but b itself.
LEMMA FailAttemptKeeps ==
  ASSUME IInv, NEW b \in Batch, Awaited(b, attempt[b]), FailAttempt(b),
         UNCHANGED <<fetchVars, iteration>>
  PROVE  /\ wf = "forked" /\ wf' \in {"forked", "failed"}
         /\ batch' \in [Batch -> {"idle", "scheduled", "completed", "failed"}]
         /\ attempt' \in [Batch -> Attempt]
         /\ \A c \in Batch : Ended(c) => Ended(c)'
         /\ \A c \in Batch : batch'[c] = "completed" =>
              batch[c] = "completed" /\ attempt'[c] = attempt[c]
         /\ \A c \in Batch : batch'[c] # "idle" => batch[c] # "idle"
         /\ LoopInv'
<1> USE DEF IInv
<1>1. /\ wf = "forked" /\ batch[b] = "scheduled" /\ attempt[b] \in Attempt
      /\ wf' \in {"forked", "failed"}
  BY DEF Awaited, FailAttempt, TypeOK
<1>2. batch' \in [Batch -> {"idle", "scheduled", "completed", "failed"}]
  BY DEF FailAttempt, TypeOK
<1>3. attempt' \in [Batch -> Attempt]
  <2>1. CASE attempt[b] < MaxRetries /\ attempt' = [attempt EXCEPT ![b] = @ + 1]
    <3>1. attempt[b] + 1 \in Attempt
      BY <1>1, <2>1, PagingAssumption DEF Attempt
    <3> QED
      BY <2>1, <3>1 DEF TypeOK
  <2>2. CASE UNCHANGED attempt
    BY <2>2 DEF TypeOK
  <2> QED
    BY <2>1, <2>2 DEF FailAttempt
<1>4. \A c \in Batch : Ended(c) => Ended(c)'
  BY <1>1 DEF FailAttempt, TypeOK, Ended
<1>5. /\ \A c \in Batch : batch'[c] = "completed" =>
           batch[c] = "completed" /\ attempt'[c] = attempt[c]
      /\ \A c \in Batch : batch'[c] # "idle" => batch[c] # "idle"
  BY <1>1 DEF FailAttempt, TypeOK
<1>6. LoopInv'
  <2>1. DOMAIN page_ids \subseteq Batch /\ page_ids' = page_ids /\ iteration' = iteration
    BY PositionsAreBatches DEF fetchVars
  <2>2. wf' # "failed" /\ ~ForkOptional => \A c \in Batch : batch'[c] # "failed"
    BY <1>1 DEF FailAttempt, LoopInv, TypeOK
  <2> QED
    BY <1>1, <1>4, <2>1, <2>2 DEF LoopInv
<1> QED
  BY <1>1, <1>2, <1>3, <1>4, <1>5, <1>6

\* A timed out attempt leaves its thread running and the others alone.
LEMMA TimeoutBatchIInv ==
  ASSUME IInv, NEW b \in Batch, TimeoutBatch(b) PROVE IInv'
<1> USE DEF IInv
<1>1. /\ Awaited(b, attempt[b]) /\ FailAttempt(b)
      /\ UNCHANGED <<devices, installed, taskAttempt, fetchVars, iteration, worker>>
      /\ faults' = faults + 1
  BY DEF TimeoutBatch
<1>2. /\ wf = "forked" /\ wf' \in {"forked", "failed"}
      /\ batch' \in [Batch -> {"idle", "scheduled", "completed", "failed"}]
      /\ attempt' \in [Batch -> Attempt]
      /\ \A c \in Batch : batch'[c] = "completed" =>
           batch[c] = "completed" /\ attempt'[c] = attempt[c]
      /\ \A c \in Batch : batch'[c] # "idle" => batch[c] # "idle"
      /\ LoopInv'
  BY <1>1, FailAttemptKeeps
<1>3. TypeOK'
  BY <1>1, <1>2 DEF TypeOK, fetchVars
<1>4. CursorInv'
  BY <1>1, <1>2 DEF CursorInv, Covered, fetchVars
<1>5. ForkInv'
  BY <1>1, <1>2 DEF ForkInv, fetchVars
<1>6. WorkerInv'
  BY <1>1, <1>2 DEF WorkerInv, fetchVars, Page, PageEnd, Reported
<1> QED
  BY <1>2, <1>3, <1>4, <1>5, <1>6

\* A step of a thread that leaves the workflow and the batches alone keeps the
\* parts of the invariant that do not speak of threads.
LEMMA ThreadStepKeeps ==
  ASSUME IInv, UNCHANGED <<devices, workflowVars, batch>>
  PROVE  CursorInv' /\ LoopInv'
<1>1. CursorInv'
  BY DEF IInv, CursorInv, Covered, workflowVars, fetchVars
<1>2. LoopInv'
  BY DEF IInv, LoopInv, Ended, workflowVars, fetchVars
<1> QED
  BY <1>1, <1>2

\* A verdict in the device_status of a thread.
LEMMA VerdictGiven ==
  ASSUME NEW f \in [Device -> Verdict], NEW n, NEW v \in Verdict
  PROVE  [f EXCEPT ![n] = v] \in [Device -> Verdict]
OBVIOUS

\* A step of one thread.
LEMMA ThreadUpdate ==
  ASSUME TypeOK, NEW b \in Batch, NEW a \in Attempt, NEW w \in Worker, Thread(b, a, w)
  PROVE  /\ worker' \in [Batch -> [Attempt -> Worker]]
         /\ worker'[b][a] = w
         /\ \A c \in Batch, e \in Attempt :
              ~(c = b /\ e = a) => worker'[c][e] = worker[c][e]
BY DEF TypeOK, Thread

\* What a thread must satisfy to keep the invariant, when its batch's state at
\* Conductor does not change.
LEMMA ThreadKeepsIInv ==
  ASSUME IInv, NEW b \in Batch, NEW a \in Attempt, NEW w \in Worker, Thread(b, a, w),
         worker[b][a].pc # "ended",
         b \in DOMAIN page_ids, wf # "fetching",
         installed' \in SUBSET Device, faults' \in Nat,
         UNCHANGED <<devices, workflowVars, batch, attempt>>,
         w.pc = "working" =>
           /\ w.next >= 1
           /\ w.stop <= MaxDevices
           /\ \A d \in Page(b, fetched) :
                d <= w.stop /\ (d < w.next => w.device_status[d] # "none")
  PROVE  IInv'
<1> USE DEF IInv
<1>1. /\ worker' \in [Batch -> [Attempt -> Worker]]
      /\ worker'[b][a] = w
      /\ \A c \in Batch, e \in Attempt :
           ~(c = b /\ e = a) => worker'[c][e] = worker[c][e]
  BY ThreadUpdate
<1>2. UNCHANGED <<devices, wf, taskAttempt, last_page_id, page_ids, fetched, before,
                  iteration, batch, attempt>>
  BY DEF workflowVars, fetchVars
<1>3. TypeOK'
  BY <1>1, <1>2 DEF TypeOK
<1>4. CursorInv' /\ LoopInv'
  BY ThreadStepKeeps
<1>5. ForkInv'
  BY <1>1, <1>2 DEF ForkInv
<1>6. WorkerInv'
  <2>1. \A c \in Batch : Page(c, fetched)' = Page(c, fetched)
    BY <1>2 DEF Page, PageEnd
  <2>2. ASSUME NEW c \in Batch, NEW e \in Attempt, worker'[c][e].pc = "working"
        PROVE  /\ worker'[c][e].next >= 1
               /\ worker'[c][e].stop <= MaxDevices
               /\ \A d \in Page(c, fetched) :
                    /\ d <= worker'[c][e].stop
                    /\ d < worker'[c][e].next => worker'[c][e].device_status[d] # "none"
    <3>1. CASE c = b /\ e = a
      BY <3>1, <2>2, <1>1
    <3>2. CASE ~(c = b /\ e = a)
      BY <3>2, <2>2, <1>1 DEF WorkerInv
    <3> QED
      BY <3>1, <3>2
  <2>3. ASSUME NEW c \in Batch, batch[c] = "completed"
        PROVE  /\ worker'[c][attempt[c]].pc = "ended"
               /\ \A d \in Page(c, fetched) :
                    worker'[c][attempt[c]].device_status[d] # "none"
    <3>1. attempt[c] \in Attempt /\ worker[c][attempt[c]].pc = "ended"
      BY <2>3 DEF WorkerInv, TypeOK
    <3>2. worker'[c][attempt[c]] = worker[c][attempt[c]]
      BY <3>1, <1>1
    <3> QED
      BY <2>3, <3>2 DEF WorkerInv, Reported
  <2> QED
    BY <2>1, <2>2, <2>3, <1>2 DEF WorkerInv, Reported
<1> QED
  BY <1>3, <1>4, <1>5, <1>6

\* A thread takes the attempt Conductor waits for.
LEMMA PollIInv ==
  ASSUME IInv, NEW b \in Batch, Poll(b) PROVE IInv'
<1> DEFINE a == attempt[b]
           w == [worker[b][a] EXCEPT !.pc = "polled"]
<1>1. a \in Attempt /\ worker[b][a] \in Worker
  BY DEF IInv, TypeOK
<1>2. w \in Worker /\ w.pc = "polled"
  BY <1>1 DEF Worker
<1>3. /\ worker[b][a].pc = "idle" /\ Thread(b, a, w)
      /\ UNCHANGED <<devices, workflowVars, batch, attempt, installed, faults>>
      /\ wf = "forked" /\ batch[b] = "scheduled"
  BY DEF Poll, Awaited
<1>4. b \in DOMAIN page_ids
  BY <1>3 DEF IInv, ForkInv
<1>5. installed' \in SUBSET Device /\ faults' \in Nat
  BY <1>3 DEF IInv, TypeOK
<1> HIDE DEF w, a
<1> QED
  BY <1>1, <1>2, <1>3, <1>4, <1>5, ThreadKeepsIInv

\* The page a thread is given starts right after its cursor.
LEMMA QueryPageIInv ==
  ASSUME IInv, NEW b \in Batch, NEW a \in Attempt, QueryPage(b, a) PROVE IInv'
<1> DEFINE w == [worker[b][a] EXCEPT !.pc = "working", !.next = page_ids[b] + 1,
                                     !.stop = PageEnd(b, devices)]
<1>1. /\ worker[b][a] \in Worker /\ worker[b][a].pc = "polled" /\ Thread(b, a, w)
      /\ UNCHANGED <<devices, workflowVars, batch, attempt, installed, faults>>
      /\ installed' \in SUBSET Device /\ faults' \in Nat
  BY DEF IInv, TypeOK, QueryPage
<1>2. b \in DOMAIN page_ids /\ wf # "fetching"
  BY <1>1 DEF IInv, ForkInv
<1>3. page_ids[b] \in 0 .. MaxDevices /\ devices \in 0 .. MaxDevices
  BY <1>2, PositionsAreBatches DEF IInv, TypeOK
<1>4. /\ PageEnd(b, devices) \in Nat /\ PageEnd(b, devices) <= MaxDevices
      /\ \A d \in Page(b, fetched) : page_ids[b] < d /\ d <= PageEnd(b, devices)
  BY <1>3, PagingAssumption DEF PageEnd, Page, IInv, TypeOK, CursorInv, Device
<1>5. /\ w \in Worker /\ w.pc = "working" /\ w.next = page_ids[b] + 1
      /\ w.stop = PageEnd(b, devices)
  <2>1. page_ids[b] + 1 \in Nat
    BY <1>3
  <2>2. worker[b][a] \in Worker /\ PageEnd(b, devices) \in Nat
    BY <1>1, <1>4
  <2> QED
    BY <2>1, <2>2 DEF Worker
<1>6. /\ w.next >= 1 /\ w.stop <= MaxDevices
      /\ \A d \in Page(b, fetched) :
           d <= w.stop /\ (d < w.next => w.device_status[d] # "none")
  BY <1>3, <1>4, <1>5 DEF Page, Device
<1> HIDE DEF w
<1> QED
  BY <1>1, <1>2, <1>5, <1>6, ThreadKeepsIInv

\* A verdict on the next device of a page.
LEMMA ReportIInv ==
  ASSUME IInv, NEW b \in Batch, NEW a \in Attempt, NEW v \in Verdict \ {"none"},
         Working(b, a), Report(b, a, v),
         installed' \in SUBSET Device, faults' \in Nat,
         UNCHANGED <<devices, workflowVars, batch, attempt>>
  PROVE  IInv'
<1> DEFINE n == worker[b][a].next
           w == [worker[b][a] EXCEPT !.next = @ + 1,
                   !.device_status = [@ EXCEPT ![n] = v]]
<1>1. /\ worker[b][a] \in Worker /\ worker[b][a].pc = "working" /\ n \in Nat
      /\ worker[b][a].device_status \in [Device -> Verdict]
  BY DEF IInv, TypeOK, Working, Worker
<1>2. Thread(b, a, w)
  BY DEF Report
<1>3. b \in DOMAIN page_ids /\ wf # "fetching"
  BY <1>1 DEF IInv, ForkInv
<1>4. /\ w \in Worker /\ w.next = n + 1 /\ w.stop = worker[b][a].stop
      /\ w.device_status = [worker[b][a].device_status EXCEPT ![n] = v]
  <2> DEFINE r == worker[b][a]
             st == [r.device_status EXCEPT ![n] = v]
  <2>1. r \in Worker /\ n + 1 \in Nat
    BY <1>1
  <2>2. st \in [Device -> Verdict]
    BY <1>1, VerdictGiven
  <2>3. w = [r EXCEPT !.next = n + 1, !.device_status = st]
    OBVIOUS
  <2> HIDE DEF st, r, n, w
  <2>4. w \in Worker /\ w.next = n + 1 /\ w.stop = r.stop /\ w.device_status = st
    BY <2>1, <2>2, <2>3 DEF Worker
  <2> QED
    BY <2>4 DEF st, r
<1>5. /\ n >= 1 /\ worker[b][a].stop <= MaxDevices
      /\ \A d \in Page(b, fetched) :
           /\ d <= worker[b][a].stop
           /\ d < n => worker[b][a].device_status[d] # "none"
  BY <1>1 DEF IInv, WorkerInv
<1>6. ASSUME NEW d \in Page(b, fetched), d < w.next PROVE w.device_status[d] # "none"
  <2>1. d \in Device /\ d \in Nat
    BY DEF Page, Device
  <2> QED
    BY <1>1, <1>4, <1>5, <1>6, <2>1
<1>7. /\ w.next >= 1 /\ w.stop <= MaxDevices
      /\ \A d \in Page(b, fetched) :
           d <= w.stop /\ (d < w.next => w.device_status[d] # "none")
  BY <1>1, <1>4, <1>5, <1>6
<1>8. worker[b][a].pc # "ended"
  BY <1>1
<1> HIDE DEF w
<1> QED
  BY <1>2, <1>3, <1>4, <1>7, <1>8, ThreadKeepsIInv

\* A mutation that is answered leaves a verdict.
LEMMA CallDeviceIInv ==
  ASSUME IInv, NEW b \in Batch, NEW a \in Attempt, CallDevice(b, a) PROVE IInv'
<1>1. Answer(worker[b][a].next) \in Verdict \ {"none"}
  BY DEF Answer, Verdict
<1>2. worker[b][a].next \in Device
  <2>1. /\ worker[b][a].next \in Nat /\ worker[b][a].stop \in Nat
        /\ worker[b][a].pc = "working" /\ worker[b][a].next <= worker[b][a].stop
    BY DEF IInv, TypeOK, Worker, CallDevice, Working
  <2>2. worker[b][a].next >= 1 /\ worker[b][a].stop <= MaxDevices
    BY <2>1 DEF IInv, WorkerInv
  <2> QED
    BY <2>1, <2>2, PagingAssumption DEF Device
<1>3. installed' \in SUBSET Device /\ faults' \in Nat
  BY <1>2 DEF CallDevice, Applied, IInv, TypeOK
<1> QED
  BY <1>1, <1>3, ReportIInv DEF CallDevice

\* A refused mutation leaves the verdict "failed".
LEMMA CallRefusedIInv ==
  ASSUME IInv, NEW b \in Batch, NEW a \in Attempt, CallRefused(b, a) PROVE IInv'
<1>1. installed' \in SUBSET Device /\ faults' \in Nat
  BY DEF CallRefused, IInv, TypeOK
<1> QED
  BY <1>1, ReportIInv DEF CallRefused, Verdict

\* A failing attempt ends its thread and leaves no report.
LEMMA BatchFailsIInv ==
  ASSUME IInv, NEW b \in Batch, NEW a \in Attempt, BatchFails(b, a) PROVE IInv'
<1> USE DEF IInv
<1> DEFINE w == [worker[b][a] EXCEPT !.pc = "ended"]
<1>1. /\ worker[b][a] \in Worker /\ worker[b][a].pc \in {"polled", "working"}
      /\ Thread(b, a, w)
      /\ UNCHANGED <<devices, taskAttempt, fetchVars, iteration>> /\ faults' = faults + 1
  BY DEF TypeOK, BatchFails
<1>2. w \in Worker /\ w.pc = "ended"
  <2>1. worker[b][a] \in Worker
    BY <1>1
  <2> QED
    BY <2>1 DEF Worker
<1> HIDE DEF w
<1>3. /\ worker' \in [Batch -> [Attempt -> Worker]]
      /\ worker'[b][a] = w
      /\ \A c \in Batch, e \in Attempt :
           ~(c = b /\ e = a) => worker'[c][e] = worker[c][e]
  BY <1>1, <1>2, ThreadUpdate
<1>4. installed' \in SUBSET Device
  <2>1. CASE Working(b, a) /\ installed' = Applied(worker[b][a].next)
    <3>1. /\ worker[b][a].next \in Nat /\ worker[b][a].stop \in Nat
          /\ worker[b][a].next <= worker[b][a].stop /\ worker[b][a].pc = "working"
      BY <1>1, <2>1 DEF Worker, Working
    <3>2. worker[b][a].next >= 1 /\ worker[b][a].stop <= MaxDevices
      BY <3>1 DEF WorkerInv
    <3>3. worker[b][a].next \in Device
      BY <3>1, <3>2, PagingAssumption DEF Device
    <3> QED
      BY <2>1, <3>3 DEF Applied, TypeOK
  <2>2. CASE UNCHANGED installed
    BY <2>2 DEF TypeOK
  <2> QED
    BY <2>1, <2>2 DEF BatchFails
<1>5. /\ wf' \in {"fetching", "looping", "forked", "done", "failed"}
      /\ wf' # wf => wf = "forked" /\ wf' = "failed"
      /\ batch' \in [Batch -> {"idle", "scheduled", "completed", "failed"}]
      /\ attempt' \in [Batch -> Attempt]
      /\ \A c \in Batch : batch'[c] = "completed" =>
           batch[c] = "completed" /\ attempt'[c] = attempt[c]
      /\ \A c \in Batch : batch'[c] # "idle" => batch[c] # "idle"
      /\ LoopInv'
  <2>1. CASE Awaited(b, a) /\ FailAttempt(b)
    <3>1. Awaited(b, attempt[b]) /\ UNCHANGED <<fetchVars, iteration>>
      BY <1>1, <2>1 DEF Awaited
    <3> QED
      BY <2>1, <3>1, FailAttemptKeeps
  <2>2. CASE UNCHANGED <<batch, attempt, wf>>
    BY <1>1, <2>2 DEF TypeOK, LoopInv, Ended, fetchVars
  <2> QED
    BY <2>1, <2>2 DEF BatchFails
<1>6. UNCHANGED <<devices, taskAttempt, last_page_id, page_ids, fetched, before, iteration>>
  BY <1>1 DEF fetchVars
<1>7. TypeOK'
  BY <1>1, <1>3, <1>4, <1>5, <1>6 DEF TypeOK
<1>8. CursorInv'
  BY <1>5, <1>6 DEF CursorInv, Covered
<1>9. ForkInv'
  BY <1>1, <1>3, <1>5, <1>6 DEF ForkInv
<1>10. WorkerInv'
  <2>1. \A c \in Batch : Page(c, fetched)' = Page(c, fetched)
    BY <1>6 DEF Page, PageEnd
  <2>2. ASSUME NEW c \in Batch, NEW e \in Attempt, worker'[c][e].pc = "working"
        PROVE  ~(c = b /\ e = a) /\ worker'[c][e] = worker[c][e]
    BY <2>2, <1>2, <1>3
  <2>3. ASSUME NEW c \in Batch, batch'[c] = "completed"
        PROVE  /\ batch[c] = "completed"
               /\ worker'[c][attempt'[c]] = worker[c][attempt[c]]
    <3>1. /\ batch[c] = "completed" /\ attempt'[c] = attempt[c] /\ attempt[c] \in Attempt
          /\ worker[c][attempt[c]].pc = "ended"
      BY <2>3, <1>5 DEF WorkerInv, TypeOK
    <3> QED
      BY <3>1, <1>1, <1>3
  <2> QED
    BY <2>1, <2>2, <2>3 DEF WorkerInv, Reported
<1> QED
  BY <1>5, <1>7, <1>8, <1>9, <1>10

\* A batch is completed only with a verdict on its whole page.
LEMMA FinishBatchIInv ==
  ASSUME IInv, NEW b \in Batch, NEW a \in Attempt, FinishBatch(b, a) PROVE IInv'
<1> USE DEF IInv
<1> DEFINE w == [worker[b][a] EXCEPT !.pc = "ended"]
<1>1. /\ worker[b][a] \in Worker /\ worker[b][a].pc = "working"
      /\ worker[b][a].next > worker[b][a].stop /\ Thread(b, a, w)
      /\ batch' = IF Awaited(b, a) THEN [batch EXCEPT ![b] = "completed"] ELSE batch
      /\ UNCHANGED <<devices, installed, wf, taskAttempt, last_page_id, page_ids, fetched,
                     before, iteration, attempt, faults>>
  BY DEF TypeOK, FinishBatch, workflowVars, fetchVars
<1>2. w \in Worker /\ w.pc = "ended" /\ w.device_status = worker[b][a].device_status
  <2>1. worker[b][a] \in Worker
    BY <1>1
  <2> QED
    BY <2>1 DEF Worker
<1> HIDE DEF w
<1>3. /\ worker' \in [Batch -> [Attempt -> Worker]]
      /\ worker'[b][a] = w
      /\ \A c \in Batch, e \in Attempt :
           ~(c = b /\ e = a) => worker'[c][e] = worker[c][e]
  BY <1>1, <1>2, ThreadUpdate
<1>4. /\ batch' \in [Batch -> {"idle", "scheduled", "completed", "failed"}]
      /\ \A c \in Batch : batch'[c] # batch[c] =>
           c = b /\ a = attempt[b] /\ wf = "forked" /\ batch[b] = "scheduled"
             /\ batch'[b] = "completed"
  BY <1>1 DEF TypeOK, Awaited
<1>5. TypeOK'
  BY <1>1, <1>3, <1>4 DEF TypeOK
<1>6. CursorInv'
  BY <1>1 DEF CursorInv, Covered
<1>7. ForkInv'
  BY <1>1, <1>3, <1>4 DEF ForkInv
<1>8. LoopInv'
  <2>1. DOMAIN page_ids \subseteq Batch
    BY PositionsAreBatches
  <2>2. \A c \in Batch : Ended(c) => Ended(c)'
    BY <1>4 DEF Ended
  <2> QED
    BY <1>1, <1>4, <2>1, <2>2 DEF LoopInv
<1>9. WorkerInv'
  <2>1. \A c \in Batch : Page(c, fetched)' = Page(c, fetched)
    BY <1>1 DEF Page, PageEnd
  <2>2. ASSUME NEW c \in Batch, NEW e \in Attempt, worker'[c][e].pc = "working"
        PROVE  ~(c = b /\ e = a) /\ worker'[c][e] = worker[c][e]
    BY <2>2, <1>2, <1>3
  <2>3. ASSUME NEW c \in Batch, batch'[c] = "completed"
        PROVE  /\ worker'[c][attempt[c]].pc = "ended"
               /\ \A d \in Page(c, fetched) :
                    worker'[c][attempt[c]].device_status[d] # "none"
    <3>1. CASE batch[c] = "completed"
      <4>1. attempt[c] \in Attempt /\ worker[c][attempt[c]].pc = "ended"
        BY <3>1 DEF WorkerInv, TypeOK
      <4>2. worker'[c][attempt[c]] = worker[c][attempt[c]]
        BY <4>1, <1>1, <1>3
      <4> QED
        BY <3>1, <4>2 DEF WorkerInv, Reported
    <3>2. CASE batch[c] # "completed"
      <4>1. c = b /\ a = attempt[b]
        BY <2>3, <3>2, <1>4
      <4>2. ASSUME NEW d \in Page(b, fetched)
            PROVE  worker[b][a].device_status[d] # "none"
        <5>1. d \in Nat /\ worker[b][a].next \in Nat /\ worker[b][a].stop \in Nat
          BY <1>1 DEF Page, Device, Worker
        <5>2. d <= worker[b][a].stop
          BY <1>1 DEF WorkerInv
        <5>3. d < worker[b][a].next
          BY <1>1, <5>1, <5>2
        <5> QED
          BY <1>1, <5>3 DEF WorkerInv
      <4> QED
        BY <4>1, <4>2, <1>2, <1>3
    <3> QED
      BY <3>1, <3>2
  <2> QED
    BY <1>1, <2>1, <2>2, <2>3 DEF WorkerInv, Reported
<1> QED
  BY <1>5, <1>6, <1>7, <1>8, <1>9

-----------------------------------------------------------------------------
(* The theorems *)

\* Every step keeps the invariant.
LEMMA StepIInv == IInv /\ [Next]_vars => IInv'
<1> SUFFICES ASSUME IInv, [Next]_vars PROVE IInv'
  OBVIOUS
<1>1. CASE UNCHANGED vars
  <2>1. UNCHANGED <<devices, installed, wf, taskAttempt, last_page_id, page_ids, fetched,
                    iteration, batch, attempt, worker, faults, before>>
    BY <1>1 DEF vars
  <2> QED
    BY <2>1 DEF IInv, TypeOK, CursorInv, ForkInv, LoopInv, WorkerInv, Covered, Ended,
                Page, PageEnd, Reported
<1>2. CASE Next
  BY <1>2, AddDeviceIInv, FetchPageIInv, FetchFailsIInv, ForkBatchesIInv, ForkFailsIInv,
     JoinBatchesIInv, TimeoutBatchIInv, PollIInv, QueryPageIInv, CallDeviceIInv, CallRefusedIInv,
     BatchFailsIInv, FinishBatchIInv DEF Next
<1> QED
  BY <1>1, <1>2

(* The invariant holds in every state the workflow can reach. *)
THEOREM SpecIInv == Spec => []IInv
BY InitIInv, StepIInv, PTL DEF Spec

(* Every variable keeps its type: in particular a cursor is never collected *)
(* at a position that has no batch, and no thread leaves the inventory.     *)
THEOREM SpecTypeOK == Spec => []TypeOK
<1>1. IInv => TypeOK
  BY DEF IInv
<1> QED
  BY <1>1, SpecIInv, PTL

\* A done workflow leaves nothing unsettled.
LEMMA DoneIsCovered == IInv => Coverage
<1> SUFFICES ASSUME IInv, wf = "done", NEW d \in 1 .. fetched PROVE Settled(d)
  BY DEF Coverage
<1> USE DEF IInv
<1>1. PICK p \in DOMAIN page_ids : page_ids[p] < d /\ d <= page_ids[p] + DeviceStep
  BY DEF CursorInv, Covered
<1>2. p \in Batch /\ page_ids[p] \in 0 .. MaxDevices
  BY PositionsAreBatches
<1>3. d \in Page(p, fetched)
  BY <1>1, <1>2, PagingAssumption DEF Page, PageEnd, Device, TypeOK
<1>4. Ended(p)
  BY DEF LoopInv
<1>5. CASE batch[p] = "completed"
  BY <1>2, <1>3, <1>5 DEF WorkerInv, Settled
<1>6. CASE batch[p] = "failed"
  BY <1>2, <1>3, <1>6, PagingAssumption DEF LoopInv, Settled
<1> QED
  BY <1>4, <1>5, <1>6 DEF Ended

(* No device that was there when the cursors were collected is forgotten:   *)
(* a done workflow has a verdict on it, or forgave the batch that had it.   *)
THEOREM SpecCoverage == Spec => []Coverage
BY DoneIsCovered, SpecIInv, PTL

-----------------------------------------------------------------------------
(* Reports *)

\* What NoFalseSuccess needs of every thread, not only of the accepted ones.
TruthInv ==
  \A b \in Batch, a \in Attempt, d \in Device :
    ~Reached(d) => worker[b][a].device_status[d] \in {"none", "failed"}

\* The workflow takes no device out of the state it asks for.
LEMMA AppliedReaches ==
  ASSUME NEW n, NEW d \in Device, installed' = Applied(n)
  PROVE  Reached(d) \/ d = n => Reached(d)'
BY PagingAssumption DEF Applied, Reached

\* Every step keeps the verdicts true.
LEMMA StepTruthInv == IInv /\ TruthInv /\ [Next]_vars => TruthInv'
<1> SUFFICES ASSUME IInv, TruthInv, [Next]_vars PROVE TruthInv'
  OBVIOUS
<1>1. CASE UNCHANGED <<installed, worker>>
  BY <1>1 DEF TruthInv, Reached
<1>2. ASSUME NEW b \in Batch, NEW a \in Attempt, NEW w \in Worker, Thread(b, a, w),
             w.device_status = worker[b][a].device_status,
             \A d \in Device : Reached(d) => Reached(d)'
      PROVE  TruthInv'
  <2>1. /\ worker'[b][a] = w
        /\ \A c \in Batch, e \in Attempt :
             ~(c = b /\ e = a) => worker'[c][e] = worker[c][e]
    BY <1>2, ThreadUpdate DEF IInv
  <2>2. \A c \in Batch, e \in Attempt :
          worker'[c][e].device_status = worker[c][e].device_status
    BY <1>2, <2>1
  <2> QED
    BY <1>2, <2>2 DEF TruthInv
<1>3. ASSUME NEW b \in Batch, NEW a \in Attempt, NEW v \in Verdict,
             Report(b, a, v),
             \A d \in Device : Reached(d) => Reached(d)',
             v \in {"none", "failed"} \/ \A d \in Device : d = worker[b][a].next => Reached(d)'
      PROVE  TruthInv'
  <2> DEFINE r == worker[b][a]
             n == r.next
             st == [r.device_status EXCEPT ![n] = v]
             w == [r EXCEPT !.next = @ + 1, !.device_status = [@ EXCEPT ![n] = v]]
  <2>1. r \in Worker /\ r.device_status \in [Device -> Verdict] /\ n + 1 \in Nat
    BY DEF IInv, TypeOK, Worker
  <2>2. st \in [Device -> Verdict]
    BY <2>1, VerdictGiven
  <2>3. w = [r EXCEPT !.next = n + 1, !.device_status = st]
    OBVIOUS
  <2>4. Thread(b, a, w)
    BY <1>3 DEF Report
  <2>5. w \in Worker /\ w.device_status = st
    <3> HIDE DEF st, r, n, w
    <3> QED
      BY <2>1, <2>2, <2>3 DEF Worker
  <2> HIDE DEF w
  <2>6. /\ worker'[b][a] = w
        /\ \A c \in Batch, e \in Attempt :
             ~(c = b /\ e = a) => worker'[c][e] = worker[c][e]
    BY <2>4, <2>5, ThreadUpdate DEF IInv
  <2>7. ASSUME NEW c \in Batch, NEW e \in Attempt, NEW d \in Device, ~Reached(d)'
        PROVE  worker'[c][e].device_status[d] \in {"none", "failed"}
    <3>1. worker[c][e].device_status[d] \in {"none", "failed"}
      BY <1>3, <2>7 DEF TruthInv
    <3>2. CASE ~(c = b /\ e = a)
      BY <3>1, <3>2, <2>6
    <3>3. CASE c = b /\ e = a /\ d = n
      BY <3>3, <1>3, <2>1, <2>5, <2>6, <2>7
    <3>4. CASE c = b /\ e = a /\ d # n
      BY <3>1, <3>4, <2>1, <2>5, <2>6
    <3> QED
      BY <3>2, <3>3, <3>4
  <2> QED
    BY <2>7 DEF TruthInv
<1>4. ASSUME NEW b \in Batch, Poll(b) PROVE TruthInv'
  <2> DEFINE r == worker[b][attempt[b]]
             w == [r EXCEPT !.pc = "polled"]
  <2>1. attempt[b] \in Attempt /\ r \in Worker
    BY DEF IInv, TypeOK
  <2>2. w \in Worker /\ w.device_status = r.device_status
    <3> HIDE DEF r
    <3> QED
      BY <2>1 DEF Worker
  <2>3. Thread(b, attempt[b], w) /\ UNCHANGED installed
    BY <1>4 DEF Poll
  <2> HIDE DEF w
  <2> QED
    BY <1>2, <2>1, <2>2, <2>3 DEF Reached
<1>5. ASSUME NEW b \in Batch, NEW a \in Attempt, QueryPage(b, a) PROVE TruthInv'
  <2> DEFINE r == worker[b][a]
             n == page_ids[b] + 1
             s == PageEnd(b, devices)
             w == [r EXCEPT !.pc = "working", !.next = n, !.stop = s]
  <2>1. r \in Worker /\ r.pc = "polled"
    BY <1>5 DEF IInv, TypeOK, QueryPage
  <2>2. n \in Nat /\ s \in Nat
    <3>1. b \in DOMAIN page_ids
      BY <2>1 DEF IInv, ForkInv
    <3>2. page_ids[b] \in 0 .. MaxDevices /\ devices \in 0 .. MaxDevices
      BY <3>1, PositionsAreBatches DEF IInv, TypeOK
    <3> QED
      BY <3>2, PagingAssumption DEF PageEnd
  <2>3. w \in Worker /\ w.device_status = r.device_status
    <3> HIDE DEF r, n, s
    <3> QED
      BY <2>1, <2>2 DEF Worker
  <2>4. Thread(b, a, w) /\ UNCHANGED installed
    BY <1>5 DEF QueryPage
  <2> HIDE DEF w
  <2> QED
    BY <1>2, <2>3, <2>4 DEF Reached
<1>6. ASSUME NEW b \in Batch, NEW a \in Attempt, CallDevice(b, a) PROVE TruthInv'
  <2>1. \A d \in Device : Reached(d) \/ d = worker[b][a].next => Reached(d)'
    BY <1>6, AppliedReaches DEF CallDevice
  <2>2. Answer(worker[b][a].next) \in Verdict
    BY DEF Answer, Verdict
  <2> QED
    BY <1>3, <1>6, <2>1, <2>2 DEF CallDevice
<1>7. ASSUME NEW b \in Batch, NEW a \in Attempt, CallRefused(b, a) PROVE TruthInv'
  BY <1>3, <1>7 DEF CallRefused, Reached, Verdict
<1>8. ASSUME NEW b \in Batch, NEW a \in Attempt, BatchFails(b, a) \/ FinishBatch(b, a)
      PROVE  TruthInv'
  <2> DEFINE r == worker[b][a]
             w == [r EXCEPT !.pc = "ended"]
  <2>1. r \in Worker
    BY DEF IInv, TypeOK
  <2>2. w \in Worker /\ w.device_status = r.device_status
    <3> HIDE DEF r
    <3> QED
      BY <2>1 DEF Worker
  <2>3. Thread(b, a, w) /\ (UNCHANGED installed \/ installed' = Applied(r.next))
    BY <1>8 DEF BatchFails, FinishBatch
  <2>4. \A d \in Device : Reached(d) => Reached(d)'
    BY <2>3, AppliedReaches DEF Reached
  <2> HIDE DEF w
  <2> QED
    BY <1>2, <2>2, <2>3, <2>4
<1> QED
  BY <1>1, <1>4, <1>5, <1>6, <1>7, <1>8
  DEF Next, vars, AddDevice, FetchPage, FetchFails, ForkBatches, ForkFails, JoinBatches,
      TimeoutBatch

(* No batch ever reports more than what happened to a device: when the      *)
(* device is not in the state the workflow asks for, its verdict is         *)
(* "failed", whichever threads and retries worked on it meanwhile.          *)
THEOREM SpecNoFalseSuccess == Spec => []NoFalseSuccess
<1>1. Init => TruthInv
  BY DEF Init, TruthInv, IdleWorker
<1>2. IInv /\ TruthInv => NoFalseSuccess
  <2> SUFFICES ASSUME IInv, TruthInv, NEW b \in DOMAIN page_ids, NEW d \in Device, ~Reached(d)
               PROVE  Reported(b, d) \in {"none", "failed"}
    BY DEF NoFalseSuccess
  <2>1. b \in Batch /\ attempt[b] \in Attempt
    BY PositionsAreBatches DEF IInv, TypeOK
  <2> QED
    BY <2>1 DEF TruthInv, Reported
<1>3. Spec => []TruthInv
  BY <1>1, StepTruthInv, SpecIInv, PTL DEF Spec
<1> QED
  BY <1>2, <1>3, SpecIInv, PTL

-----------------------------------------------------------------------------
(* What is reported is final, a change of a device is shown once, a device    *)
(* lies in few pages, and the workflow implements BulkOperation.              *)

(* What a step does to the batches and to the threads *)

\* The batches of the later chunks have not started: a fork disturbs no batch
\* that was forked before.
FutureInv ==
  wf \in {"looping", "forked"} =>
    \A b \in Batch : b > iteration * CursorCount => batch[b] = "idle"

\* Conductor changes its mind on a batch only while it waits for it.
Settling(b) ==
  /\ wf = "forked"
  /\ batch[b] = "scheduled"
  /\ \/ batch'[b] = "scheduled" /\ attempt'[b] = attempt[b] + 1 /\ faults' = faults + 1
     \/ batch'[b] = "failed" /\ attempt'[b] = attempt[b] /\ faults' = faults + 1
     \/ /\ batch'[b] = "completed" /\ attempt'[b] = attempt[b] /\ faults' = faults
        /\ worker[b][attempt[b]].pc = "working"
        /\ worker[b][attempt[b]].next > worker[b][attempt[b]].stop

\* A fork starts the idle batches of its chunk.
LEMMA ForkStartsIdle ==
  ASSUME IInv, FutureInv, ForkBatches
  PROVE  /\ \A b \in Batch : batch[b] # "idle" => batch'[b] = batch[b]
         /\ \A b \in Batch : batch'[b] # batch[b] => batch'[b] = "scheduled"
         /\ FutureInv'
<1>1. iteration \in Nat /\ iteration' = iteration + 1 /\ CursorCount \in Nat /\ CursorCount > 0
  BY PagingAssumption DEF IInv, TypeOK, ForkBatches
<1>2. (iteration + 1) * CursorCount = iteration * CursorCount + CursorCount
      /\ iteration * CursorCount \in Nat
  BY <1>1
<1>3. ASSUME NEW b \in Batch, b \in Chunk(iteration) PROVE batch[b] = "idle"
  <2>1. b \in Nat /\ b > iteration * CursorCount
    BY <1>2, <1>3, PagingAssumption DEF Chunk, Batch
  <2> QED
    BY <2>1 DEF FutureInv, ForkBatches
<1>4. ASSUME NEW b \in Batch, b > iteration' * CursorCount PROVE batch'[b] = "idle"
  <2>1. b \in Nat
    BY PagingAssumption DEF Batch
  <2>2. b > iteration * CursorCount /\ ~(b <= (iteration + 1) * CursorCount)
    BY <1>1, <1>2, <1>4, <2>1
  <2>3. b \notin Chunk(iteration)
    BY <2>2 DEF Chunk
  <2> QED
    BY <2>2, <2>3 DEF FutureInv, ForkBatches
<1> QED
  BY <1>3, <1>4 DEF ForkBatches, FutureInv

\* FailAttempt settles its batch.
LEMMA FailAttemptSettles ==
  ASSUME IInv, NEW b \in Batch, Awaited(b, attempt[b]), FailAttempt(b), faults' = faults + 1
  PROVE  /\ Settling(b)
         /\ \A c \in Batch : c # b => batch'[c] = batch[c] /\ attempt'[c] = attempt[c]
BY DEF Awaited, FailAttempt, Settling, IInv, TypeOK

\* What a step does to the batches.
LEMMA BatchMoves ==
  ASSUME IInv, FutureInv, [Next]_vars, NEW b \in Batch
  PROVE  \/ batch'[b] = batch[b] /\ attempt'[b] = attempt[b]
         \/ ForkBatches /\ batch[b] = "idle" /\ batch'[b] = "scheduled" /\ attempt'[b] = attempt[b]
         \/ Settling(b)
<1>1. CASE UNCHANGED <<batch, attempt>>
  BY <1>1
<1>2. CASE ForkBatches
  BY <1>2, ForkStartsIdle DEF ForkBatches
<1>3. ASSUME NEW c \in Batch, TimeoutBatch(c)
      PROVE  (batch'[b] = batch[b] /\ attempt'[b] = attempt[b]) \/ Settling(b)
  BY <1>3, FailAttemptSettles DEF TimeoutBatch
<1>4. ASSUME NEW c \in Batch, NEW a \in Attempt, BatchFails(c, a)
      PROVE  (batch'[b] = batch[b] /\ attempt'[b] = attempt[b]) \/ Settling(b)
  <2>1. CASE Awaited(c, a) /\ FailAttempt(c)
    <3>1. Awaited(c, attempt[c]) /\ faults' = faults + 1
      BY <1>4, <2>1 DEF Awaited, BatchFails
    <3> QED
      BY <2>1, <3>1, FailAttemptSettles
  <2>2. CASE UNCHANGED <<batch, attempt, wf>>
    BY <2>2
  <2> QED
    BY <1>4, <2>1, <2>2 DEF BatchFails
<1>5. ASSUME NEW c \in Batch, NEW a \in Attempt, FinishBatch(c, a)
      PROVE  (batch'[b] = batch[b] /\ attempt'[b] = attempt[b]) \/ Settling(b)
  BY <1>5 DEF FinishBatch, Awaited, Settling, IInv, TypeOK
<1> QED
  BY <1>1, <1>2, <1>3, <1>4, <1>5
  DEF Next, vars, AddDevice, FetchPage, FetchFails, ForkFails, JoinBatches, Poll, QueryPage,
      CallDevice, CallRefused

\* What a step does to a thread: an ended one is left alone.
LEMMA EndedStays ==
  ASSUME IInv, [Next]_vars, NEW b \in Batch, NEW a \in Attempt, worker[b][a].pc = "ended"
  PROVE  worker'[b][a] = worker[b][a]
<1>1. CASE UNCHANGED worker
  BY <1>1
<1>2. ASSUME NEW c \in Batch, NEW e \in Attempt, NEW w, Thread(c, e, w),
             worker[c][e].pc # "ended"
      PROVE  worker'[b][a] = worker[b][a]
  <2>1. ~(c = b /\ e = a)
    BY <1>2
  <2> QED
    BY <1>2, <2>1 DEF Thread, IInv, TypeOK
<1>3. ASSUME NEW c \in Batch, Poll(c) PROVE worker'[b][a] = worker[b][a]
  <2>1. attempt[c] \in Attempt
    BY DEF IInv, TypeOK
  <2> QED
    BY <1>2, <1>3, <2>1 DEF Poll
<1>4. ASSUME NEW c \in Batch, NEW e \in Attempt,
             \/ QueryPage(c, e) \/ CallDevice(c, e) \/ CallRefused(c, e)
             \/ BatchFails(c, e) \/ FinishBatch(c, e)
      PROVE  worker'[b][a] = worker[b][a]
  BY <1>2, <1>4 DEF QueryPage, CallDevice, CallRefused, BatchFails, FinishBatch, Report, Working
<1> QED
  BY <1>1, <1>3, <1>4
  DEF Next, vars, AddDevice, FetchPage, FetchFails, ForkBatches, ForkFails, JoinBatches,
      TimeoutBatch

\* Every step keeps the later batches idle.
LEMMA StepFutureInv == IInv /\ FutureInv /\ [Next]_vars => FutureInv'
<1> SUFFICES ASSUME IInv, FutureInv, [Next]_vars PROVE FutureInv'
  OBVIOUS
<1>1. CASE ForkBatches
  BY <1>1, ForkStartsIdle
<1>2. CASE ~ForkBatches
  <2>1. \A b \in Batch : batch[b] = "idle" => batch'[b] = "idle"
    BY <1>2, BatchMoves DEF Settling
  <2>2. CASE UNCHANGED iteration /\ (wf' \in {"looping", "forked"} => wf \in {"looping", "forked"})
    BY <2>1, <2>2 DEF FutureInv
  <2>3. CASE FetchPage
    BY <2>3, <2>1 DEF FutureInv, IInv, ForkInv, FetchPage
  <2> QED
    BY <1>2, <2>2, <2>3
    DEF Next, vars, AddDevice, FetchFails, ForkFails, FailTask, JoinBatches, TimeoutBatch,
        FailAttempt, Poll, QueryPage, CallDevice, CallRefused, BatchFails, FinishBatch,
        workflowVars, fetchVars
<1> QED
  BY <1>1, <1>2

(* The invariant of this module's step lemmas. *)
THEOREM SpecFutureInv == Spec => [](IInv /\ FutureInv)
<1>1. Init => FutureInv
  BY DEF Init, FutureInv
<1>2. Spec => []FutureInv
  BY <1>1, StepFutureInv, SpecIInv, PTL DEF Spec
<1> QED
  BY <1>2, SpecIInv, PTL

-----------------------------------------------------------------------------
(* Reports are final *)

\* A completed batch keeps its state and its report.
LEMMA CompletedStays ==
  ASSUME IInv, FutureInv, [Next]_vars, NEW b \in Batch, batch[b] = "completed"
  PROVE  /\ batch'[b] = "completed"
         /\ \A d \in Device : Reported(b, d)' = Reported(b, d)
<1>1. batch'[b] = "completed" /\ attempt'[b] = attempt[b]
  BY BatchMoves DEF Settling
<1>2. attempt[b] \in Attempt /\ worker[b][attempt[b]].pc = "ended"
  BY DEF IInv, TypeOK, WorkerInv
<1>3. worker'[b][attempt[b]] = worker[b][attempt[b]]
  BY <1>2, EndedStays
<1> QED
  BY <1>1, <1>3 DEF Reported

(* What a completed batch reports is final: no thread that outlives its     *)
(* timed out attempt, no retry and no later fork changes a verdict that the *)
(* workflow has shown, however many batches, retries and devices there are. *)
THEOREM SpecReportsFinal == Spec => ReportsFinal
<1> DEFINE A == \A b \in Batch : batch[b] = "completed" =>
                  /\ batch'[b] = "completed"
                  /\ \A d \in Device : Reported(b, d)' = Reported(b, d)
<1>1. IInv /\ FutureInv /\ [Next]_vars => [A]_vars
  BY CompletedStays
<1>2. Spec => [][A]_vars
  <2> HIDE DEF A
  <2> QED
    BY <1>1, SpecFutureInv, PTL DEF Spec
<1> QED
  BY <1>2 DEF ReportsFinal

-----------------------------------------------------------------------------
(* The refinement *)

\* The failure of a batch is the failure of the workflow.
GivenUp ==
  /\ wf' = "failed"
  /\ ~ForkOptional
  /\ \A b \in Batch : batch'[b] = "completed" => batch[b] = "completed"

\* Where the workflow can go.
LEMMA WorkflowMoves ==
  ASSUME IInv, [Next]_vars
  PROVE  \/ wf' = wf
         \/ wf = "fetching" /\ wf' = "looping" /\ FetchPage
         \/ wf = "fetching" /\ wf' = "failed" /\ FetchFails
         \/ wf = "looping" /\ wf' = "forked"
         \/ wf = "looping" /\ wf' = "failed" /\ UNCHANGED <<batch, attempt, worker>>
         \/ wf = "forked" /\ wf' = "looping"
         \/ wf = "forked" /\ wf' = "done" /\ UNCHANGED <<batch, attempt, worker>>
         \/ wf = "forked" /\ GivenUp
<1>1. CASE FetchPage \/ FetchFails \/ ForkBatches \/ ForkFails \/ JoinBatches
  BY <1>1 DEF FetchPage, FetchFails, FailTask, ForkBatches, ForkFails, JoinBatches
<1>2. CASE UNCHANGED vars \/ AddDevice
  BY <1>2 DEF vars, AddDevice, workflowVars
<1>3. ASSUME NEW b \in Batch, FailAttempt(b), wf = "forked"
      PROVE  wf' = wf \/ (wf = "forked" /\ GivenUp)
  BY <1>3 DEF FailAttempt, GivenUp, IInv, TypeOK
<1>4. ASSUME NEW b \in Batch, Poll(b) \/ TimeoutBatch(b)
      PROVE  wf' = wf \/ (wf = "forked" /\ GivenUp)
  BY <1>3, <1>4 DEF Poll, TimeoutBatch, Awaited, workflowVars
<1>5. ASSUME NEW b \in Batch, NEW a \in Attempt,
             \/ QueryPage(b, a) \/ CallDevice(b, a) \/ CallRefused(b, a)
             \/ BatchFails(b, a) \/ FinishBatch(b, a)
      PROVE  wf' = wf \/ (wf = "forked" /\ GivenUp)
  BY <1>3, <1>5 DEF QueryPage, CallDevice, CallRefused, BatchFails, FinishBatch, Awaited,
                    workflowVars
<1> QED
  BY <1>1, <1>2, <1>4, <1>5 DEF Next

\* The cursors are fixed once they are collected.
LEMMA CursorsStay ==
  ASSUME IInv, [Next]_vars, wf # "fetching"
  PROVE  UNCHANGED <<page_ids, fetched, last_page_id>>
BY DEF Next, vars, AddDevice, FetchPage, FetchFails, ForkBatches, ForkFails, JoinBatches,
       TimeoutBatch, Poll, QueryPage, CallDevice, CallRefused, BatchFails, FinishBatch,
       workflowVars, fetchVars

\* Nothing is settled before a batch was forked.
LEMMA NothingSettledYet ==
  ASSUME IInv, \A b \in Batch : batch[b] = "idle", NEW d \in Device
  PROVE  ~Settled(d)
BY PositionsAreBatches DEF IInv, Settled

\* What is settled stays settled.
LEMMA SettledStays ==
  ASSUME IInv, FutureInv, [Next]_vars, NEW d \in Device, Settled(d)
  PROVE  Settled(d)'
<1>1. PICK b \in DOMAIN page_ids :
        \/ batch[b] = "completed" /\ Reported(b, d) # "none"
        \/ ForkOptional /\ batch[b] = "failed" /\ d \in Page(b, fetched)
  BY DEF Settled
<1>2. b \in Batch
  BY PositionsAreBatches DEF IInv
<1>3. UNCHANGED <<page_ids, fetched>>
  BY <1>1, <1>2, CursorsStay DEF IInv, ForkInv
<1>4. CASE batch[b] = "completed" /\ Reported(b, d) # "none"
  BY <1>1, <1>2, <1>3, <1>4, CompletedStays DEF Settled
<1>5. CASE ForkOptional /\ batch[b] = "failed" /\ d \in Page(b, fetched)
  <2>1. batch'[b] = "failed"
    BY <1>2, <1>5, BatchMoves DEF Settling
  <2>2. Page(b, fetched)' = Page(b, fetched)
    BY <1>3 DEF Page, PageEnd
  <2> QED
    BY <1>1, <1>3, <1>5, <2>1, <2>2 DEF Settled
<1> QED
  BY <1>1, <1>4, <1>5

\* A step on which no batch is completed or forgiven settles nothing.
LEMMA SettledNoMore ==
  ASSUME IInv, FutureInv, [Next]_vars, wf # "fetching",
         \A b \in Batch : batch'[b] = "completed" => batch[b] = "completed",
         ForkOptional => \A b \in Batch : batch'[b] = "failed" => batch[b] = "failed",
         NEW d \in Device, Settled(d)'
  PROVE  Settled(d)
<1>1. UNCHANGED <<page_ids, fetched>> /\ DOMAIN page_ids \subseteq Batch
  BY CursorsStay, PositionsAreBatches DEF IInv
<1>2. PICK b \in DOMAIN page_ids :
        \/ batch'[b] = "completed" /\ Reported(b, d)' # "none"
        \/ ForkOptional /\ batch'[b] = "failed" /\ d \in Page(b, fetched)'
  BY <1>1 DEF Settled
<1>3. Page(b, fetched)' = Page(b, fetched)
  BY <1>1 DEF Page, PageEnd
<1> QED
  BY <1>1, <1>2, <1>3, CompletedStays DEF Settled

\* The phase BulkOperation is in.
LEMMA PhaseOfWf ==
  /\ wf = "fetching" => Phase = "collecting"
  /\ wf \in {"looping", "forked"} => Phase = "running"
  /\ wf = "done" => Phase = "done"
  /\ wf = "failed" => Phase = "failed"
BY DEF Phase

\* And the one it is in after a step.
LEMMA PhaseOfNextWf ==
  /\ wf' = "fetching" => Phase' = "collecting"
  /\ wf' \in {"looping", "forked"} => Phase' = "running"
  /\ wf' = "done" => Phase' = "done"
  /\ wf' = "failed" => Phase' = "failed"
BY DEF Phase

\* The workflow starts where BulkOperation does.
LEMMA InitBulk == Init => Bulk!Init
<1> SUFFICES ASSUME Init PROVE Bulk!Init
  OBVIOUS
<1>1. \A d \in Device : ~Settled(d)
  BY DEF Init, Settled
<1>2. wf = "fetching" /\ 1 .. fetched = {}
  BY DEF Init
<1>3. SettledDevices = {}
  BY <1>1 DEF SettledDevices
<1> QED
  BY <1>2, <1>3, PhaseOfWf DEF Bulk!Init

\* Every step of the workflow is a step of BulkOperation or none.
LEMMA StepBulk == IInv /\ FutureInv /\ [Next]_vars => [Bulk!Next]_(Bulk!vars)
<1> SUFFICES ASSUME IInv, FutureInv, [Next]_vars PROVE [Bulk!Next]_(Bulk!vars)
  OBVIOUS
<1>1. SettledDevices \subseteq SettledDevices' /\ SettledDevices' \subseteq Device
  BY SettledStays DEF SettledDevices
<1>2. wf # "fetching" => 1 .. fetched' = 1 .. fetched
  BY CursorsStay
<1>3. ASSUME wf # "fetching",
             \A b \in Batch : batch'[b] = "completed" => batch[b] = "completed",
             ForkOptional => \A b \in Batch : batch'[b] = "failed" => batch[b] = "failed"
      PROVE  SettledDevices' = SettledDevices
  BY <1>1, <1>3, SettledNoMore DEF SettledDevices
<1>4. CASE wf = "fetching"
  <2>1. \A b \in Batch : batch[b] = "idle"
    BY <1>4 DEF IInv, ForkInv
  <2>2. \A b \in Batch : batch'[b] = "idle"
    BY <1>4, <2>1, BatchMoves DEF Settling, ForkBatches
  <2>3. SettledDevices = {}
    BY <2>1, NothingSettledYet DEF SettledDevices
  <2>4. IInv'
    BY StepIInv
  <2>5. SettledDevices' = {}
    <3>1. DOMAIN page_ids' \subseteq Batch
      BY <2>4, PagingAssumption DEF IInv, TypeOK, CursorInv, Batch
    <3> QED
      BY <2>2, <3>1 DEF SettledDevices, Settled
  <2>6. CASE wf' = "fetching"
    <3>1. fetched' = fetched
      BY <1>4, <2>6
      DEF Next, vars, AddDevice, FetchPage, FetchFails, ForkBatches, ForkFails, JoinBatches,
          TimeoutBatch, Poll, QueryPage, CallDevice, CallRefused, BatchFails, FinishBatch,
          workflowVars, fetchVars
    <3> QED
      BY <1>4, <2>3, <2>5, <2>6, <3>1, PhaseOfWf, PhaseOfNextWf DEF Bulk!vars
  <2>7. CASE wf' = "looping"
    <3>1. fetched' \in 0 .. MaxDevices
      BY <2>4 DEF IInv, TypeOK
    <3>2. 1 .. fetched' \subseteq Device
      BY <3>1, PagingAssumption DEF Device
    <3> QED
      BY <1>4, <2>3, <2>5, <2>7, <3>2, PhaseOfWf, PhaseOfNextWf DEF Bulk!Next, Bulk!Collect
  <2>8. CASE wf' = "failed" /\ FetchFails
    BY <1>4, <2>3, <2>5, <2>8, PhaseOfWf, PhaseOfNextWf DEF Bulk!Next, Bulk!Fail, FetchFails
  <2> QED
    BY <1>4, <2>6, <2>7, <2>8, WorkflowMoves
<1>5. CASE wf \in {"looping", "forked"} /\ wf' \in {"looping", "forked"}
  <2>1. Bulk!Settle
    BY <1>1, <1>2, <1>5, PhaseOfWf, PhaseOfNextWf DEF Bulk!Settle
  <2> QED
    BY <2>1 DEF Bulk!Next
<1>6. CASE wf \in {"looping", "forked"} /\ wf' = "done"
  <2>1. UNCHANGED <<batch, attempt, worker>>
    BY <1>6, WorkflowMoves DEF GivenUp
  <2>2. SettledDevices' = SettledDevices
    BY <1>3, <1>6, <2>1
  <2>3. 1 .. fetched \subseteq SettledDevices
    <3>1. IInv'
      BY StepIInv
    <3>2. Coverage'
      BY <3>1, DoneIsCovered, PTL
    <3>3. 1 .. fetched' \subseteq SettledDevices'
      <4>1. fetched' \in 0 .. MaxDevices
        BY <3>1 DEF IInv, TypeOK
      <4> QED
        BY <1>6, <3>2, <4>1, PagingAssumption DEF Coverage, SettledDevices, Device
    <3> QED
      BY <1>2, <1>6, <2>2, <3>3
  <2> QED
    BY <1>2, <1>6, <2>2, <2>3, PhaseOfWf, PhaseOfNextWf DEF Bulk!Next, Bulk!Finish
<1>7. CASE wf \in {"looping", "forked"} /\ wf' = "failed"
  <2>1. \/ UNCHANGED <<batch, attempt, worker>>
        \/ wf = "forked" /\ GivenUp
    BY <1>7, WorkflowMoves
  <2>2. SettledDevices' = SettledDevices
    BY <1>3, <1>7, <2>1 DEF GivenUp
  <2> QED
    BY <1>2, <1>7, <2>2, PhaseOfWf, PhaseOfNextWf DEF Bulk!Next, Bulk!Fail
<1>8. CASE wf \in {"done", "failed"}
  <2>1. wf' = wf
    BY <1>8, WorkflowMoves
  <2>2. \A b \in Batch : batch'[b] = batch[b]
    BY <1>8, BatchMoves DEF Settling, ForkBatches
  <2>3. SettledDevices' = SettledDevices
    BY <1>3, <1>8, <2>2
  <2> QED
    BY <1>2, <1>8, <2>1, <2>3, PhaseOfWf, PhaseOfNextWf DEF Bulk!vars
<1>9. wf \in {"fetching", "looping", "forked", "done", "failed"}
  BY DEF IInv, TypeOK
<1> QED
  BY <1>4, <1>5, <1>6, <1>7, <1>8, <1>9, WorkflowMoves DEF GivenUp

(* The workflow keeps the promise of BulkOperation: it fixes the devices it *)
(* answers for once, from then on it only settles devices, it is done only  *)
(* when each of them is settled, and once it has ended nothing changes, not *)
(* even by a thread that outlives it.                                       *)
THEOREM SpecImplementsBulk == Spec => ImplementsBulk
<1>1. Spec => Bulk!Spec
  BY InitBulk, StepBulk, SpecFutureInv, PTL DEF Spec, Bulk!Spec
<1> QED
  BY <1>1 DEF ImplementsBulk

-----------------------------------------------------------------------------
(* The pages a device lies in *)

\* The cursors stand DeviceStep apart, from the cursor '' on.
StepInv ==
  /\ \A p \in DOMAIN page_ids : page_ids[p] = (p - 1) * DeviceStep
  /\ wf = "fetching" /\ Len(page_ids) > 0 =>
       last_page_id = (Len(page_ids) - 1) * DeviceStep

\* A factor cancels.
LEMMA FactorCancels ==
  ASSUME NEW x \in Int, NEW y \in Int, NEW s \in Nat \ {0}, x * s < y * s
  PROVE  x < y
<1> SUFFICES ASSUME ~(x < y) PROVE FALSE
  OBVIOUS
<1>1. x - y \in Nat
  OBVIOUS
<1>2. (x - y) * s >= 0
  BY <1>1
<1>3. x * s = y * s + (x - y) * s
  OBVIOUS
<1> QED
  BY <1>2, <1>3

\* The cursors whose pages of p devices hold d, when they stand s apart, are at
\* most ceil(p / s).
LEMMA CursorsOfDevice ==
  ASSUME NEW d \in Nat \ {0}, NEW s \in Nat \ {0}, NEW p \in Nat \ {0},
         NEW B, \A b \in B : b \in Nat /\ (b - 1) * s < d /\ d <= (b - 1) * s + p
  PROVE  IsFiniteSet(B) /\ Cardinality(B) <= (p + s - 1) \div s
<1> DEFINE q == (p + s - 1) \div s
           m == (d - 1) \div s
<1>1. /\ q \in Int /\ p <= q * s /\ q >= 0
  <2> DEFINE r == (p + s - 1) % s
  <2>1. q \in Int /\ r \in 0 .. s - 1 /\ p + s - 1 = s * q + r
    OBVIOUS
  <2>2. p <= s * q /\ s * q = q * s /\ 0 * s = 0
    BY <2>1
  <2>3. (0 - 1) * s < q * s
    BY <2>1, <2>2
  <2>4. 0 - 1 < q
    BY <2>1, <2>3, FactorCancels
  <2> QED
    BY <2>1, <2>2, <2>4
<1>2. m \in Int /\ m * s <= d - 1 /\ d - 1 < (m + 1) * s
  <2> DEFINE r == (d - 1) % s
  <2>1. m \in Int /\ r \in 0 .. s - 1 /\ d - 1 = s * m + r
    OBVIOUS
  <2>2. s * m = m * s /\ (m + 1) * s = m * s + s
    BY <2>1
  <2> QED
    BY <2>1, <2>2
<1> HIDE DEF q, m
<1>3. ASSUME NEW b \in B PROVE b \in m + 2 - q .. m + 1
  <2>1. b \in Nat /\ (b - 1) * s < d /\ d <= (b - 1) * s + p
    OBVIOUS
  <2>2. (b - 1) * s < (m + 1) * s
    BY <2>1, <1>2
  <2>3. b - 1 < m + 1
    BY <2>1, <2>2, <1>2, FactorCancels
  <2>4. (m - q) * s = m * s - q * s
    BY <1>1, <1>2
  <2>5. (m - q) * s < (b - 1) * s
    BY <2>1, <2>4, <1>1, <1>2
  <2>6. m - q < b - 1
    BY <2>1, <2>5, <1>1, <1>2, FactorCancels
  <2> QED
    BY <2>1, <2>3, <2>6, <1>1, <1>2
<1>4. /\ IsFiniteSet(m + 2 - q .. m + 1)
      /\ Cardinality(m + 2 - q .. m + 1) <= q
  <2> DEFINE l == m + 2 - q
             h == m + 1
  <2>1. l \in Int /\ h \in Int /\ h - l + 1 = q /\ 0 <= q
    BY <1>1, <1>2
  <2> HIDE DEF l, h
  <2>2. IsFiniteSet(l .. h) /\ Cardinality(l .. h) = IF l > h THEN 0 ELSE h - l + 1
    BY <2>1, FS_Interval
  <2>3. IsFiniteSet(l .. h) /\ Cardinality(l .. h) <= q
    BY <2>1, <2>2, <1>1
  <2> QED
    BY <2>3 DEF l, h
<1>5. B \subseteq m + 2 - q .. m + 1
  BY <1>3
<1>6. IsFiniteSet(B) /\ Cardinality(B) <= Cardinality(m + 2 - q .. m + 1)
  BY <1>4, <1>5, FS_Subset
<1>7. Cardinality(B) \in Nat /\ Cardinality(m + 2 - q .. m + 1) \in Nat
  BY <1>4, <1>6, FS_CardinalityType
<1>8. Cardinality(B) <= q
  BY <1>1, <1>4, <1>6, <1>7
<1> QED
  BY <1>6, <1>8 DEF q

\* Every step keeps the cursors DeviceStep apart.
LEMMA StepStepInv == IInv /\ StepInv /\ [Next]_vars => StepInv'
<1> SUFFICES ASSUME IInv, StepInv, [Next]_vars PROVE StepInv'
  OBVIOUS
<1>1. CASE wf # "fetching"
  <2>1. UNCHANGED <<page_ids, fetched, last_page_id>> /\ wf' # "fetching"
    BY <1>1, CursorsStay, WorkflowMoves DEF GivenUp
  <2> QED
    BY <2>1 DEF StepInv
<1>2. CASE UNCHANGED <<wf, page_ids, last_page_id>>
  BY <1>2 DEF StepInv
<1>3. CASE FetchFails
  <2>1. page_ids' = <<>>
    BY <1>3 DEF FetchFails
  <2> QED
    BY <2>1 DEF StepInv
<1>4. CASE FetchPage
  <2> DEFINE w == WithFirst
             more == HasNextPage
  <2>1. /\ wf = "fetching"
        /\ page_ids' = IF more THEN Append(w, last_page_id + DeviceStep) ELSE w
        /\ last_page_id' = IF more THEN last_page_id + DeviceStep ELSE last_page_id
        /\ wf' = IF more THEN "fetching" ELSE "looping"
    BY <1>4 DEF FetchPage
  <2>2. /\ page_ids \in Seq(0 .. MaxDevices) /\ last_page_id \in Nat
        /\ last_page_id = 0 => page_ids = <<>>
        /\ last_page_id > 0 => Len(page_ids) > 0
        /\ DeviceStep \in Nat
    BY <2>1, PagingAssumption DEF IInv, TypeOK, CursorInv
  <2>3. /\ w \in Seq(Nat) /\ Len(w) > 0
        /\ last_page_id = (Len(w) - 1) * DeviceStep
        /\ \A p \in 1 .. Len(w) : w[p] = (p - 1) * DeviceStep
    <3>1. CASE last_page_id > 0
      <4>1. w = page_ids
        BY <3>1 DEF WithFirst
      <4> QED
        BY <3>1, <4>1, <2>1, <2>2, PagingAssumption DEF StepInv
    <3>2. CASE last_page_id = 0
      <4>1. w = <<0>>
        BY <3>2, <2>2 DEF WithFirst
      <4> QED
        BY <3>2, <4>1, <2>2
    <3> QED
      BY <3>1, <3>2, <2>2
  <2> HIDE DEF w
  <2>4. CASE ~more
    BY <2>1, <2>3, <2>4 DEF StepInv
  <2>5. CASE more
    <3> DEFINE e == last_page_id + DeviceStep
               n == Len(w)
    <3>1. n \in Nat /\ n > 0 /\ e \in Nat /\ e = n * DeviceStep
      <4>1. Len(w) \in Nat
        BY <2>3, LenProperties
      <4>2. n * DeviceStep = (n - 1) * DeviceStep + DeviceStep
        BY <4>1, <2>2
      <4> QED
        BY <4>1, <4>2, <2>2, <2>3
    <3>2. /\ Len(page_ids') = n + 1 /\ DOMAIN page_ids' = 1 .. n + 1
          /\ \A p \in 1 .. n : page_ids'[p] = w[p]
          /\ page_ids'[n + 1] = e
      BY <2>1, <2>3, <2>5, <3>1, AppendProperties
    <3> HIDE DEF e, n
    <3>3. (n + 1) - 1 = n
      BY <3>1
    <3>4. ASSUME NEW p \in 1 .. n + 1 PROVE page_ids'[p] = (p - 1) * DeviceStep
      <4>1. CASE p \in 1 .. n
        BY <4>1, <2>3, <3>2 DEF n
      <4>2. CASE p = n + 1
        BY <4>2, <3>1, <3>2, <3>3
      <4> QED
        BY <3>1, <4>1, <4>2
    <3>5. last_page_id' = (Len(page_ids') - 1) * DeviceStep
      BY <2>1, <2>5, <3>1, <3>2, <3>3 DEF e
    <3> QED
      BY <3>2, <3>4, <3>5 DEF StepInv
  <2> QED
    BY <2>4, <2>5
<1> QED
  BY <1>1, <1>2, <1>3, <1>4
  DEF Next, vars, AddDevice, ForkBatches, ForkFails, JoinBatches, TimeoutBatch, Poll,
      QueryPage, CallDevice, CallRefused, BatchFails, FinishBatch, workflowVars, fetchVars,
      Awaited, FailAttempt

(* However the collection of the cursors was retried and however the        *)
(* inventory grew, a device lies in the pages of at most                    *)
(* ceil(PageSize / DeviceStep) batches: so many may install it at a time.   *)
THEOREM SpecOverlapBound == Spec => []OverlapBound
<1>1. Init => StepInv
  BY DEF Init, StepInv
<1>2. IInv /\ StepInv => OverlapBound
  <2> SUFFICES ASSUME IInv, StepInv, NEW d \in Device
               PROVE  Cardinality({b \in DOMAIN page_ids : d \in Page(b, devices)})
                        <= (PageSize + DeviceStep - 1) \div DeviceStep
    BY DEF OverlapBound
  <2> DEFINE B == {b \in DOMAIN page_ids : d \in Page(b, devices)}
  <2>1. d \in Nat \ {0} /\ DeviceStep \in Nat \ {0} /\ PageSize \in Nat \ {0}
        /\ devices \in Nat
    BY PagingAssumption DEF Device, IInv, TypeOK
  <2>2. ASSUME NEW b \in B
        PROVE  /\ b \in Nat
               /\ (b - 1) * DeviceStep < d
               /\ d <= (b - 1) * DeviceStep + PageSize
    <3>1. b \in Nat /\ page_ids[b] = (b - 1) * DeviceStep /\ page_ids[b] \in Nat
      BY PositionsAreBatches, PagingAssumption DEF IInv, StepInv, Batch
    <3>2. page_ids[b] < d /\ d <= PageEnd(b, devices)
      BY DEF Page
    <3>3. d <= page_ids[b] + PageSize
      BY <2>1, <3>1, <3>2 DEF PageEnd
    <3> QED
      BY <3>1, <3>2, <3>3
  <2> HIDE DEF B
  <2>3. Cardinality(B) <= (PageSize + DeviceStep - 1) \div DeviceStep
    BY <2>1, <2>2, CursorsOfDevice
  <2> QED
    BY <2>3 DEF B
<1>3. Spec => []StepInv
  BY <1>1, StepStepInv, SpecIInv, PTL DEF Spec
<1> QED
  BY <1>2, <1>3, SpecIInv, PTL

-----------------------------------------------------------------------------
(* A change is shown once *)

VerdictOf(b, a, d) == worker[b][a].device_status[d]
Marked(b, a, d) == VerdictOf(b, a, d) = "success"

\* The workflow moves devices in one direction only.
DirectionInv ==
  IF Operation = "install" THEN before \subseteq installed ELSE installed \subseteq before

\* A "success", whatever became of the thread that got it, stands for a change
\* of the device, and no other thread ever got one on it.
MarkInv ==
  \A b \in Batch, a \in Attempt, d \in Device : Marked(b, a, d) =>
    /\ Changed(d)
    /\ \A c \in Batch, e \in Attempt : Marked(c, e, d) => c = b /\ e = a

\* A thread has verdicts on the devices it has passed and on no other.
FreshInv ==
  \A b \in Batch, a \in Attempt, d \in Device : VerdictOf(b, a, d) # "none" =>
    /\ worker[b][a].pc \in {"working", "ended"}
    /\ worker[b][a].pc = "working" => d < worker[b][a].next

\* As long as nothing failed every thread is that of a first attempt, no batch
\* is given up, and every change has its "success".
NoFaultInv ==
  faults = 0 =>
    /\ \A b \in Batch : attempt[b] = 0 /\ batch[b] # "failed"
    /\ \A b \in Batch, a \in Attempt : worker[b][a].pc # "idle" => a = 0
    /\ \A d \in Device : Changed(d) => \E b \in Batch, a \in Attempt : Marked(b, a, d)

\* A step of thread a of b that gives no verdict.
Silent(b, a) ==
  /\ worker'[b][a].device_status = worker[b][a].device_status
  /\ \/ worker[b][a].pc = "idle" /\ worker'[b][a].pc = "polled" /\ a = attempt[b]
     \/ worker[b][a].pc = "polled" /\ worker'[b][a].pc = "working"
     \/ worker[b][a].pc \in {"polled", "working"} /\ worker'[b][a].pc = "ended"
  /\ \/ UNCHANGED installed
     \/ /\ worker[b][a].next \in Device
        /\ installed' = Applied(worker[b][a].next)
        /\ faults' = faults + 1

\* A step of thread a of b that gives verdict v.
Speaks(b, a, v) ==
  /\ worker[b][a].pc = "working" /\ worker'[b][a].pc = "working"
  /\ worker[b][a].next \in Device
  /\ worker'[b][a].next = worker[b][a].next + 1
  /\ worker'[b][a].device_status =
       [worker[b][a].device_status EXCEPT ![worker[b][a].next] = v]
  /\ \/ v = "failed" /\ UNCHANGED installed /\ faults' = faults + 1
     \/ v = Answer(worker[b][a].next) /\ installed' = Applied(worker[b][a].next)

\* The step of thread a of b moves no other thread.
Alone(b, a) ==
  \A c \in Batch, e \in Attempt : ~(c = b /\ e = a) => worker'[c][e] = worker[c][e]

\* What a report does to a thread.
LEMMA ReportSpeaks ==
  ASSUME IInv, NEW b \in Batch, NEW a \in Attempt, NEW v \in Verdict,
         Working(b, a), Report(b, a, v),
         \/ v = "failed" /\ UNCHANGED installed /\ faults' = faults + 1
         \/ v = Answer(worker[b][a].next) /\ installed' = Applied(worker[b][a].next)
  PROVE  Alone(b, a) /\ Speaks(b, a, v)
<1> DEFINE r == worker[b][a]
           n == r.next
           st == [r.device_status EXCEPT ![n] = v]
           w == [r EXCEPT !.next = @ + 1, !.device_status = [@ EXCEPT ![n] = v]]
<1>1. /\ r \in Worker /\ r.device_status \in [Device -> Verdict] /\ n + 1 \in Nat
      /\ r.pc = "working"
  BY DEF IInv, TypeOK, Worker, Working
<1>2. n \in Device
  <2>1. /\ n \in Nat /\ r.stop \in Nat /\ n <= r.stop
        /\ n >= 1 /\ r.stop <= MaxDevices
    BY <1>1 DEF IInv, WorkerInv, Worker, Working
  <2> QED
    BY <2>1, PagingAssumption DEF Device
<1>3. st \in [Device -> Verdict]
  BY <1>1, VerdictGiven
<1>4. w = [r EXCEPT !.next = n + 1, !.device_status = st] /\ Thread(b, a, w)
  BY DEF Report
<1>5. /\ w \in Worker /\ w.device_status = st /\ w.next = n + 1 /\ w.pc = "working"
  <2> HIDE DEF st, r, n, w
  <2> QED
    BY <1>1, <1>3, <1>4 DEF Worker
<1> HIDE DEF w
<1>6. worker'[b][a] = w /\ Alone(b, a)
  BY <1>4, <1>5, ThreadUpdate DEF IInv, Alone
<1> QED
  BY <1>1, <1>2, <1>5, <1>6 DEF Speaks

\* What a step of a thread that keeps its device_status does.
LEMMA SilentThread ==
  ASSUME IInv, NEW b \in Batch, NEW a \in Attempt, NEW w \in Worker, Thread(b, a, w),
         w.device_status = worker[b][a].device_status
  PROVE  /\ Alone(b, a)
         /\ worker'[b][a].device_status = worker[b][a].device_status
         /\ worker'[b][a].pc = w.pc
BY ThreadUpdate DEF IInv, Alone

\* What a step does to the threads and to the devices installed.
LEMMA ThreadMoves ==
  ASSUME IInv, [Next]_vars
  PROVE  \/ UNCHANGED <<worker, installed>>
         \/ \E b \in Batch, a \in Attempt :
              Alone(b, a) /\ (Silent(b, a) \/ \E v \in Verdict : Speaks(b, a, v))
<1>1. ASSUME NEW b \in Batch, Poll(b)
      PROVE  \E a \in Attempt : Alone(b, a) /\ Silent(b, a)
  <2> DEFINE a == attempt[b]
             r == worker[b][a]
             w == [r EXCEPT !.pc = "polled"]
  <2>1. a \in Attempt /\ r \in Worker /\ r.pc = "idle" /\ Thread(b, a, w) /\ UNCHANGED installed
    BY <1>1 DEF IInv, TypeOK, Poll
  <2>2. w \in Worker /\ w.device_status = r.device_status /\ w.pc = "polled"
    <3> HIDE DEF r
    <3> QED
      BY <2>1 DEF Worker
  <2> HIDE DEF w
  <2>3. Alone(b, a) /\ Silent(b, a)
    BY <2>1, <2>2, SilentThread DEF Silent
  <2> QED
    BY <2>1, <2>3
<1>2. ASSUME NEW b \in Batch, NEW a \in Attempt, QueryPage(b, a)
      PROVE  Alone(b, a) /\ Silent(b, a)
  <2> DEFINE r == worker[b][a]
             n == page_ids[b] + 1
             s == PageEnd(b, devices)
             w == [r EXCEPT !.pc = "working", !.next = n, !.stop = s]
  <2>1. r \in Worker /\ r.pc = "polled" /\ Thread(b, a, w) /\ UNCHANGED installed
    BY <1>2 DEF IInv, TypeOK, QueryPage
  <2>2. n \in Nat /\ s \in Nat
    <3>1. b \in DOMAIN page_ids
      BY <2>1 DEF IInv, ForkInv
    <3>2. page_ids[b] \in 0 .. MaxDevices /\ devices \in 0 .. MaxDevices
      BY <3>1, PositionsAreBatches DEF IInv, TypeOK
    <3> QED
      BY <3>2, PagingAssumption DEF PageEnd
  <2>3. w \in Worker /\ w.device_status = r.device_status /\ w.pc = "working"
    <3> HIDE DEF r, n, s
    <3> QED
      BY <2>1, <2>2 DEF Worker
  <2> HIDE DEF w
  <2> QED
    BY <2>1, <2>3, SilentThread DEF Silent
<1>3. ASSUME NEW b \in Batch, NEW a \in Attempt, BatchFails(b, a) \/ FinishBatch(b, a)
      PROVE  Alone(b, a) /\ Silent(b, a)
  <2> DEFINE r == worker[b][a]
             w == [r EXCEPT !.pc = "ended"]
  <2>1. r \in Worker /\ r.pc \in {"polled", "working"} /\ Thread(b, a, w)
    BY <1>3 DEF IInv, TypeOK, BatchFails, FinishBatch
  <2>2. w \in Worker /\ w.device_status = r.device_status /\ w.pc = "ended"
    <3> HIDE DEF r
    <3> QED
      BY <2>1 DEF Worker
  <2>3. \/ UNCHANGED installed
        \/ r.next \in Device /\ installed' = Applied(r.next) /\ faults' = faults + 1
    <3>1. ASSUME Working(b, a) PROVE r.next \in Device
      <4>1. /\ r.next \in Nat /\ r.stop \in Nat /\ r.next <= r.stop
            /\ r.next >= 1 /\ r.stop <= MaxDevices
        BY <2>1, <3>1 DEF IInv, WorkerInv, Worker, Working
      <4> QED
        BY <4>1, PagingAssumption DEF Device
    <3> QED
      BY <1>3, <3>1 DEF BatchFails, FinishBatch
  <2> HIDE DEF w
  <2> QED
    BY <2>1, <2>2, <2>3, SilentThread DEF Silent
<1>4. ASSUME NEW b \in Batch, NEW a \in Attempt, CallDevice(b, a) \/ CallRefused(b, a)
      PROVE  Alone(b, a) /\ \E v \in Verdict : Speaks(b, a, v)
  <2>1. Answer(worker[b][a].next) \in Verdict /\ "failed" \in Verdict
    BY DEF Answer, Verdict
  <2> QED
    BY <1>4, <2>1, ReportSpeaks DEF CallDevice, CallRefused
<1> QED
  BY <1>1, <1>2, <1>3, <1>4
  DEF Next, vars, AddDevice, FetchPage, FetchFails, ForkBatches, ForkFails, JoinBatches,
      TimeoutBatch

\* The devices change in one direction, so a change is lasting; only a device
\* that is called changes.
LEMMA ChangeLasts ==
  ASSUME IInv, DirectionInv, before' = before, NEW n,
         UNCHANGED installed \/ installed' = Applied(n)
  PROVE  /\ DirectionInv'
         /\ \A d \in Device : Changed(d) => Changed(d)'
         /\ \A d \in Device : Changed(d)' /\ ~Changed(d) => d = n
<1>1. CASE UNCHANGED installed
  BY <1>1 DEF DirectionInv, Changed
<1>2. CASE Operation = "install" /\ installed' = installed \cup {n}
  BY <1>2 DEF DirectionInv, Changed
<1>3. CASE Operation = "uninstall" /\ installed' = installed \ {n}
  <2>1. Operation # "install"
    BY <1>3
  <2> QED
    BY <1>3, <2>1 DEF DirectionInv, Changed
<1> QED
  BY <1>1, <1>2, <1>3, PagingAssumption DEF Applied

\* Nobody rewrites the history.
LEMMA BeforeStays == ASSUME [Next]_vars PROVE before' = before
BY DEF Next, vars, AddDevice, FetchPage, FetchFails, ForkBatches, ForkFails, JoinBatches,
       TimeoutBatch, Poll, QueryPage, CallDevice, CallRefused, BatchFails, FinishBatch,
       workflowVars, fetchVars

\* The device a "success" is given on was in the state before the workflow, and
\* is not any more.
LEMMA SuccessChanges ==
  ASSUME IInv, DirectionInv, before' = before, NEW n \in Device,
         Answer(n) = "success", installed' = Applied(n)
  PROVE  ~Changed(n) /\ Changed(n)'
<1>1. CASE Operation = "install"
  BY <1>1 DEF Answer, Applied, DirectionInv, Changed
<1>2. CASE Operation = "uninstall"
  <2>1. Operation # "install"
    BY <1>2
  <2> QED
    BY <2>1 DEF Answer, Applied, DirectionInv, Changed
<1> QED
  BY <1>1, <1>2, PagingAssumption

\* The verdicts after a step.
LEMMA VerdictMoves ==
  ASSUME IInv, NEW b \in Batch, NEW a \in Attempt, NEW v \in Verdict,
         Alone(b, a), Speaks(b, a, v), NEW n, n = worker[b][a].next
  PROVE  /\ VerdictOf(b, a, n)' = v
         /\ \A c \in Batch, e \in Attempt, d \in Device :
              ~(c = b /\ e = a /\ d = n) =>
                VerdictOf(c, e, d)' = VerdictOf(c, e, d)
<1>1. worker[b][a].device_status \in [Device -> Verdict] /\ n \in Device
  BY DEF IInv, TypeOK, Worker, Speaks
<1>2. VerdictOf(b, a, n)' = v
  BY <1>1 DEF Speaks, VerdictOf
<1>3. ASSUME NEW c \in Batch, NEW e \in Attempt, NEW d \in Device,
             ~(c = b /\ e = a /\ d = n)
      PROVE  VerdictOf(c, e, d)' = VerdictOf(c, e, d)
  <2>1. CASE ~(c = b /\ e = a)
    BY <2>1 DEF Alone, VerdictOf
  <2>2. CASE c = b /\ e = a /\ d # n
    BY <1>1, <2>2 DEF Speaks, VerdictOf
  <2> QED
    BY <1>3, <2>1, <2>2
<1> QED
  BY <1>2, <1>3

\* A step without a verdict leaves the verdicts alone.
LEMMA VerdictStays ==
  ASSUME NEW b \in Batch, NEW a \in Attempt, Alone(b, a), Silent(b, a),
         NEW c \in Batch, NEW e \in Attempt, NEW d \in Device
  PROVE  VerdictOf(c, e, d)' = VerdictOf(c, e, d)
BY DEF Alone, Silent, VerdictOf

\* Every step keeps the verdicts behind the threads.
LEMMA StepFreshInv == IInv /\ FreshInv /\ [Next]_vars => FreshInv'
<1> SUFFICES ASSUME IInv, FreshInv, [Next]_vars,
                    NEW c \in Batch, NEW e \in Attempt, NEW d \in Device,
                    VerdictOf(c, e, d)' # "none"
             PROVE  /\ worker'[c][e].pc \in {"working", "ended"}
                    /\ worker'[c][e].pc = "working" => d < worker'[c][e].next
  BY DEF FreshInv
<1>1. CASE worker'[c][e] = worker[c][e]
  BY <1>1 DEF FreshInv, VerdictOf
<1>2. ASSUME NEW b \in Batch, NEW a \in Attempt, Alone(b, a), Silent(b, a), c = b, e = a
      PROVE  worker'[c][e].pc = "ended"
  <2>1. VerdictOf(c, e, d) # "none"
    BY <1>2, VerdictStays
  <2> QED
    BY <1>2, <2>1 DEF Silent, FreshInv
<1>3. ASSUME NEW b \in Batch, NEW a \in Attempt, NEW v \in Verdict,
             Alone(b, a), Speaks(b, a, v), c = b, e = a
      PROVE  worker'[c][e].pc = "working" /\ d < worker'[c][e].next
  <2>1. d = worker[b][a].next \/ d < worker[b][a].next
    BY <1>3, VerdictMoves DEF FreshInv, Speaks
  <2>2. d \in Nat /\ worker[b][a].next \in Nat
    BY <1>3 DEF Device, Speaks
  <2> QED
    BY <1>3, <2>1, <2>2 DEF Speaks
<1> QED
  BY <1>1, <1>2, <1>3, ThreadMoves DEF Alone

\* Every step keeps the marks single and true.
LEMMA StepMarkInv ==
  IInv /\ DirectionInv /\ MarkInv /\ [Next]_vars => DirectionInv' /\ MarkInv'
<1> SUFFICES ASSUME IInv, DirectionInv, MarkInv, [Next]_vars PROVE DirectionInv' /\ MarkInv'
  OBVIOUS
<1>1. before' = before
  BY BeforeStays
<1>2. CASE UNCHANGED <<worker, installed>>
  BY <1>1, <1>2 DEF DirectionInv, MarkInv, Marked, VerdictOf, Changed
<1>3. ASSUME NEW b \in Batch, NEW a \in Attempt, Alone(b, a), Silent(b, a)
      PROVE  DirectionInv' /\ MarkInv'
  <2>1. UNCHANGED installed \/ installed' = Applied(worker[b][a].next)
    BY <1>3 DEF Silent
  <2>2. DirectionInv' /\ \A d \in Device : Changed(d) => Changed(d)'
    BY <1>1, <2>1, ChangeLasts
  <2>3. \A c \in Batch, e \in Attempt, d \in Device : Marked(c, e, d)' = Marked(c, e, d)
    BY <1>3, VerdictStays DEF Marked
  <2> QED
    BY <2>2, <2>3 DEF MarkInv
<1>4. ASSUME NEW b \in Batch, NEW a \in Attempt, NEW v \in Verdict,
             Alone(b, a), Speaks(b, a, v)
      PROVE  DirectionInv' /\ MarkInv'
  <2>1. PICK n \in Device : n = worker[b][a].next
    BY <1>4 DEF Speaks
  <2>2. UNCHANGED installed \/ installed' = Applied(n)
    BY <1>4, <2>1 DEF Speaks
  <2>3. DirectionInv' /\ \A d \in Device : Changed(d) => Changed(d)'
    BY <1>1, <2>2, ChangeLasts
  <2>4. VerdictOf(b, a, n)' = v
        /\ \A c \in Batch, e \in Attempt, d \in Device :
             ~(c = b /\ e = a /\ d = n) => VerdictOf(c, e, d)' = VerdictOf(c, e, d)
    BY <1>4, <2>1, VerdictMoves
  <2>5. v = "success" => ~Changed(n) /\ Changed(n)'
    <3>1. v = "success" => Answer(n) = "success" /\ installed' = Applied(n)
      BY <1>4, <2>1 DEF Speaks
    <3> QED
      BY <1>1, <3>1, SuccessChanges
  <2>6. ASSUME NEW c \in Batch, NEW e \in Attempt, NEW d \in Device, Marked(c, e, d)'
        PROVE  (Marked(c, e, d) /\ Changed(d)) \/ (c = b /\ e = a /\ d = n /\ v = "success")
    BY <2>4, <2>6 DEF MarkInv, Marked
  <2>7. ASSUME NEW c \in Batch, NEW e \in Attempt, NEW d \in Device, Marked(c, e, d)'
        PROVE  /\ Changed(d)'
               /\ \A x \in Batch, y \in Attempt : Marked(x, y, d)' => x = c /\ y = e
    BY <2>3, <2>5, <2>6, <2>7 DEF MarkInv
  <2> QED
    BY <2>3, <2>7 DEF MarkInv
<1> QED
  BY <1>2, <1>3, <1>4, ThreadMoves

\* A device changes by a call that is answered with success.
LEMMA ChangeSucceeds ==
  ASSUME before' = before, NEW n \in Device, installed' = Applied(n), ~Changed(n), Changed(n)'
  PROVE  Answer(n) = "success"
<1>1. CASE Operation = "install"
  BY <1>1 DEF Answer, Applied, Changed
<1>2. CASE Operation = "uninstall"
  <2>1. Operation # "install"
    BY <1>2
  <2> QED
    BY <2>1 DEF Answer, Applied, Changed
<1> QED
  BY <1>1, <1>2, PagingAssumption

\* Faults are counted.
LEMMA FaultsGrow == ASSUME IInv, [Next]_vars PROVE faults' \in Nat /\ faults' >= faults
<1>1. faults \in Nat
  BY DEF IInv, TypeOK
<1>2. faults' = faults \/ faults' = faults + 1
  BY DEF Next, vars, AddDevice, FetchPage, FetchFails, ForkBatches, ForkFails, JoinBatches,
         TimeoutBatch, Poll, QueryPage, CallDevice, CallRefused, BatchFails, FinishBatch
<1> QED
  BY <1>1, <1>2

\* Every step keeps what the absence of faults implies.
LEMMA StepNoFaultInv ==
  IInv /\ FutureInv /\ DirectionInv /\ FreshInv /\ NoFaultInv /\ [Next]_vars => NoFaultInv'
<1> SUFFICES ASSUME IInv, FutureInv, DirectionInv, FreshInv, NoFaultInv, [Next]_vars, faults' = 0
             PROVE  /\ \A b \in Batch : attempt'[b] = 0 /\ batch'[b] # "failed"
                    /\ \A b \in Batch, a \in Attempt : worker'[b][a].pc # "idle" => a = 0
                    /\ \A d \in Device : Changed(d)' =>
                         \E b \in Batch, a \in Attempt : Marked(b, a, d)'
  BY DEF NoFaultInv
<1>1. faults = 0 /\ faults' # faults + 1 /\ before' = before
  BY FaultsGrow, BeforeStays DEF IInv, TypeOK
<1>2. \A b \in Batch : attempt'[b] = 0 /\ batch'[b] # "failed"
  BY <1>1, BatchMoves DEF NoFaultInv, Settling
<1>3. CASE UNCHANGED <<worker, installed>>
  BY <1>1, <1>2, <1>3 DEF NoFaultInv, Marked, VerdictOf, Changed
<1>4. ASSUME NEW b \in Batch, NEW a \in Attempt, Alone(b, a), Silent(b, a)
      PROVE  /\ \A c \in Batch, e \in Attempt : worker'[c][e].pc # "idle" => e = 0
             /\ \A d \in Device : Changed(d)' =>
                  \E c \in Batch, e \in Attempt : Marked(c, e, d)'
  <2>1. a = 0
    BY <1>1, <1>4 DEF NoFaultInv, Silent
  <2>2. installed' = installed
    BY <1>1, <1>4 DEF Silent
  <2>3. \A c \in Batch, e \in Attempt, d \in Device : Marked(c, e, d)' = Marked(c, e, d)
    BY <1>4, VerdictStays DEF Marked
  <2>4. \A d \in Device : Changed(d)' = Changed(d)
    BY <1>1, <2>2 DEF Changed
  <2>5. ASSUME NEW c \in Batch, NEW e \in Attempt, worker'[c][e].pc # "idle" PROVE e = 0
    <3>1. CASE c = b /\ e = a
      BY <2>1, <3>1
    <3>2. CASE ~(c = b /\ e = a)
      <4>1. worker[c][e].pc # "idle"
        BY <1>4, <2>5, <3>2 DEF Alone
      <4> QED
        BY <1>1, <4>1 DEF NoFaultInv
    <3> QED
      BY <3>1, <3>2
  <2> QED
    BY <1>1, <2>3, <2>4, <2>5 DEF NoFaultInv
<1>5. ASSUME NEW b \in Batch, NEW a \in Attempt, NEW v \in Verdict,
             Alone(b, a), Speaks(b, a, v)
      PROVE  /\ \A c \in Batch, e \in Attempt : worker'[c][e].pc # "idle" => e = 0
             /\ \A d \in Device : Changed(d)' =>
                  \E c \in Batch, e \in Attempt : Marked(c, e, d)'
  <2>1. PICK n \in Device : n = worker[b][a].next
    BY <1>5 DEF Speaks
  <2>2. v = Answer(n) /\ installed' = Applied(n)
    BY <1>1, <1>5, <2>1 DEF Speaks
  <2>3. VerdictOf(b, a, n)' = v
        /\ \A c \in Batch, e \in Attempt, d \in Device :
             ~(c = b /\ e = a /\ d = n) => VerdictOf(c, e, d)' = VerdictOf(c, e, d)
    BY <1>5, <2>1, VerdictMoves
  <2>4. \A c \in Batch, e \in Attempt : worker'[c][e].pc # "idle" => e = 0
    BY <1>1, <1>5 DEF NoFaultInv, Alone, Speaks
  <2>5. ~Marked(b, a, n)
    <3>1. VerdictOf(b, a, n) # "none" => n < n
      BY <1>5, <2>1 DEF FreshInv, Speaks
    <3>2. ~(n < n)
      BY DEF Device
    <3> QED
      BY <3>1, <3>2 DEF Marked
  <2>6. ASSUME NEW d \in Device, Changed(d)'
        PROVE  \E c \in Batch, e \in Attempt : Marked(c, e, d)'
    <3>1. CASE Changed(d)
      <4>1. PICK c \in Batch, e \in Attempt : Marked(c, e, d)
        BY <1>1, <3>1 DEF NoFaultInv
      <4>2. ~(c = b /\ e = a /\ d = n)
        BY <2>5, <4>1
      <4>3. Marked(c, e, d)'
        BY <2>3, <4>1, <4>2 DEF Marked
      <4> QED
        BY <4>3
    <3>2. CASE ~Changed(d)
      <4>1. d = n
        BY <1>1, <2>2, <2>6, <3>2, ChangeLasts
      <4>2. v = "success"
        BY <1>1, <2>2, <2>6, <3>2, <4>1, ChangeSucceeds
      <4>3. Marked(b, a, d)'
        BY <2>3, <4>1, <4>2 DEF Marked
      <4> QED
        BY <4>3
    <3> QED
      BY <3>1, <3>2
  <2> QED
    BY <2>4, <2>6
<1> QED
  BY <1>2, <1>3, <1>4, <1>5, ThreadMoves

\* The marks at the start.
LEMMA InitMarks == Init => DirectionInv /\ MarkInv /\ FreshInv /\ NoFaultInv
<1> SUFFICES ASSUME Init PROVE DirectionInv /\ MarkInv /\ FreshInv /\ NoFaultInv
  OBVIOUS
<1>1. \A b \in Batch, a \in Attempt, d \in Device :
        VerdictOf(b, a, d) = "none" /\ ~Marked(b, a, d)
  BY DEF Init, VerdictOf, Marked, IdleWorker
<1>2. before = installed
  BY DEF Init
<1>3. DirectionInv /\ \A d \in Device : ~Changed(d)
  BY <1>2 DEF DirectionInv, Changed
<1>4. /\ \A b \in Batch : attempt[b] = 0 /\ batch[b] # "failed"
      /\ \A b \in Batch, a \in Attempt : worker[b][a].pc = "idle"
  BY DEF Init, IdleWorker
<1>5. MarkInv
  BY <1>1 DEF MarkInv
<1>6. FreshInv
  BY <1>1 DEF FreshInv
<1>7. NoFaultInv
  BY <1>3, <1>4 DEF NoFaultInv
<1> QED
  BY <1>3, <1>5, <1>6, <1>7

\* What was marked is what is reported.
LEMMA MarksAreReports ==
  ASSUME IInv, DirectionInv, MarkInv, FreshInv, NoFaultInv
  PROVE  ChangeShownOnce
<1> SUFFICES ASSUME NEW d \in Device
             PROVE  /\ Cardinality(SuccessOn(d)) <= IF Changed(d) THEN 1 ELSE 0
                    /\ wf = "done" /\ faults = 0 /\ Changed(d) => SuccessOn(d) # {}
  BY DEF ChangeShownOnce
<1>1. DOMAIN page_ids \subseteq Batch /\ \A b \in Batch : attempt[b] \in Attempt
  BY PositionsAreBatches DEF IInv, TypeOK
<1>2. \A b \in SuccessOn(d) : b \in Batch /\ Marked(b, attempt[b], d)
  BY <1>1 DEF SuccessOn, Marked, VerdictOf, Reported
<1>3. CASE SuccessOn(d) = {}
  <2>1. Cardinality(SuccessOn(d)) = 0
    BY <1>3, FS_EmptySet
  <2>2. wf = "done" /\ faults = 0 /\ Changed(d) => FALSE
    <3> SUFFICES ASSUME wf = "done", faults = 0, Changed(d) PROVE FALSE
      OBVIOUS
    <3>1. PICK b \in Batch, a \in Attempt : Marked(b, a, d)
      BY DEF NoFaultInv
    <3>2. worker[b][a].pc \in {"working", "ended"}
      BY <3>1 DEF FreshInv, Marked
    <3>3. a = 0 /\ attempt[b] = 0 /\ batch[b] # "failed" /\ b \in DOMAIN page_ids
      BY <3>2 DEF NoFaultInv, IInv, ForkInv
    <3>4. batch[b] = "completed"
      BY <3>3 DEF IInv, LoopInv, Ended
    <3> QED
      BY <1>3, <3>1, <3>3, <3>4 DEF SuccessOn, Reported, Marked, VerdictOf
  <2> QED
    BY <2>1, <2>2
<1>4. CASE SuccessOn(d) # {}
  <2>1. PICK b \in SuccessOn(d) : TRUE
    BY <1>4
  <2>2. SuccessOn(d) = {b} /\ Changed(d)
    BY <1>1, <1>2, <2>1 DEF MarkInv
  <2>3. Cardinality(SuccessOn(d)) = 1
    BY <2>2, FS_Singleton
  <2> QED
    BY <1>4, <2>2, <2>3
<1> QED
  BY <1>3, <1>4

(* A change is shown once: however the pages overlap, the requests fail and *)
(* the threads outlive their tasks, at most one completed batch reports     *)
(* "success" on a device, only when the workflow did change it, and when    *)
(* nothing failed every device it changed has its "success".                *)
THEOREM SpecChangeShownOnce == Spec => []ChangeShownOnce
<1> DEFINE J == DirectionInv /\ MarkInv /\ FreshInv /\ NoFaultInv
<1>1. Init => J
  BY InitMarks
<1>2. IInv /\ FutureInv /\ J /\ [Next]_vars => J'
  BY StepMarkInv, StepFreshInv, StepNoFaultInv
<1>3. IInv /\ J => ChangeShownOnce
  BY MarksAreReports
<1> HIDE DEF J
<1> QED
  BY <1>1, <1>2, <1>3, SpecFutureInv, PTL DEF Spec
=============================================================================
