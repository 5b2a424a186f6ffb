-------------------------- MODULE InventoryAddProofs --------------------------
(***************************************************************************)
(* Proofs about InventoryAdd, for any number of runs, names, labels,       *)
(* retries and faults.                                                     *)
(*                                                                         *)
(* The inventory only grows: a name keeps its device, labels and installed *)
(* devices stay.  What a completed task relied on stays true for that      *)
(* reason, and what it relied on is in the invariant: labels a thread has  *)
(* read exist, a device that a thread is about to install is there, no     *)
(* thread works while the process imports, and nobody but the import has   *)
(* the names of the CSV files.                                             *)
(***************************************************************************)
EXTENDS InventoryAdd, FiniteSetTheorems, TLAPS

\* The labels a thread has read exist.
SnapshotInv ==
  \A t \in Task, s \in Stage, a \in Attempt : thread[t][s][a].label_id \subseteq labels

\* A thread installs only a device that is there.
FoundInv ==
  \A t \in Task, a \in Attempt :
    thread[t]["install"][a].pc = "installing" => device[input[t].name] # Absent

\* While the process imports, no thread works; but for those it asked for in
\* vain, the names of the CSV files are free or have the devices of the files.
ImportInv ==
  /\ process = "running" => imports = {}
  /\ process = "importing" =>
       \A t \in Task, s \in Stage, a \in Attempt : thread[t][s][a].pc \in {"idle", "ended"}
  /\ \A n \in DOMAIN CsvLabels \ refused :
       device[n] # Absent =>
         /\ device[n] = [owner |-> Csv, labels |-> CsvLabels[n]]
         /\ CsvLabels[n] \subseteq labels
  /\ \A n \in DOMAIN CsvLabels \ refused : n \notin imports => device[n] # Absent

IInv ==
  /\ TypeOK
  /\ SnapshotInv
  /\ FoundInv
  /\ ImportInv
  /\ AddedAsAsked
  /\ CompletedIsInstalled

\* The inventory only grows, and no run changes what it was started with.
Grows ==
  /\ labels \subseteq labels'
  /\ installed \subseteq installed'
  /\ \A n \in Name : device[n] # Absent => device'[n] = device[n]
  /\ input' = input

-----------------------------------------------------------------------------
(* Facts about the operators *)

\* A device is never Absent.
LEMMA DeviceIsThere == \A d \in Device : d # Absent
BY DEF Device, Absent

\* The inputs of the runs are of their type.
LEMMA InputTyped == TypeOK => \A t \in Task : input[t] \in InputType
BY AddAssumption DEF TypeOK

\* Thread (t, s, a) becomes w; its pc becomes p.
Becomes(t, s, a, w) == thread' = [thread EXCEPT ![t][s][a] = w]
Jumps(t, s, a, p)   == thread' = [thread EXCEPT ![t][s][a].pc = p]

\* A thread that moves on leaves the others alone.
LEMMA ThreadUpdate ==
  ASSUME TypeOK, NEW t \in Task, NEW s \in Stage, NEW a \in Attempt, NEW w \in Thread,
         Becomes(t, s, a, w)
  PROVE  /\ thread' \in [Task -> [Stage -> [Attempt -> Thread]]]
         /\ thread'[t][s][a] = w
         /\ \A u \in Task, x \in Stage, b \in Attempt :
              ~(u = t /\ x = s /\ b = a) => thread'[u][x][b] = thread[u][x][b]
<1> DEFINE f == thread[t]
           g == f[s]
           h == [g EXCEPT ![a] = w]
           k == [f EXCEPT ![s] = h]
<1>1. f \in [Stage -> [Attempt -> Thread]] /\ g \in [Attempt -> Thread]
  BY DEF TypeOK
<1>2. thread' = [thread EXCEPT ![t] = k]
  BY DEF Becomes
<1>3. /\ h \in [Attempt -> Thread] /\ h[a] = w
      /\ \A b \in Attempt : b # a => h[b] = g[b]
  <2> HIDE DEF g
  <2> QED
    BY <1>1
<1>4. /\ k \in [Stage -> [Attempt -> Thread]] /\ k[s] = h
      /\ \A x \in Stage : x # s => k[x] = f[x]
  <2> HIDE DEF f, h
  <2> QED
    BY <1>1, <1>3
<1>5. /\ thread' \in [Task -> [Stage -> [Attempt -> Thread]]] /\ thread'[t] = k
      /\ \A u \in Task : u # t => thread'[u] = thread[u]
  <2> HIDE DEF k
  <2> QED
    BY <1>2, <1>4 DEF TypeOK
<1>6. /\ \A b \in Attempt : b # a => thread'[t][s][b] = thread[t][s][b]
      /\ \A x \in Stage : x # s => thread'[t][x] = thread[t][x]
  <2> HIDE DEF k, h
  <2> QED
    BY <1>3, <1>4, <1>5
<1> HIDE DEF k, h
<1> QED
  BY <1>3, <1>4, <1>5, <1>6

\* The same for a thread that keeps the labels it has read.
LEMMA PcUpdate ==
  ASSUME TypeOK, NEW t \in Task, NEW s \in Stage, NEW a \in Attempt,
         NEW p \in {"idle", "polled", "adding", "installing", "ended"},
         Jumps(t, s, a, p)
  PROVE  /\ thread' \in [Task -> [Stage -> [Attempt -> Thread]]]
         /\ thread'[t][s][a].pc = p
         /\ thread'[t][s][a].label_id = thread[t][s][a].label_id
         /\ \A u \in Task, x \in Stage, b \in Attempt :
              ~(u = t /\ x = s /\ b = a) => thread'[u][x][b] = thread[u][x][b]
<1> DEFINE r == thread[t][s][a]
           w == [r EXCEPT !.pc = p]
<1>1. r \in Thread
  BY DEF TypeOK
<1>2. w \in Thread /\ w.pc = p /\ w.label_id = r.label_id
  <2> HIDE DEF r
  <2> QED
    BY <1>1 DEF Thread
<1>3. Becomes(t, s, a, w)
  BY DEF Jumps, Becomes
<1> HIDE DEF w
<1>4. /\ thread' \in [Task -> [Stage -> [Attempt -> Thread]]]
      /\ thread'[t][s][a] = w
      /\ \A u \in Task, x \in Stage, b \in Attempt :
           ~(u = t /\ x = s /\ b = a) => thread'[u][x][b] = thread[u][x][b]
  BY <1>2, <1>3, ThreadUpdate
<1> QED
  BY <1>2, <1>4, Zenon

\* What Conductor makes of the end of a task.
LEMMA EndTaskKeeps ==
  ASSUME TypeOK, NEW t \in Task, NEW r \in {"completed", "failed"}, EndTask(t, r),
         stage[t] \in Stage
  PROVE  /\ stage' \in [Task -> Stage \cup {"completed", "failed"}]
         /\ attempt' \in [Task -> Attempt]
         /\ addResult' \in [Task -> {"none", "completed", "failed"}]
         /\ \A u \in Task : u # t => stage'[u] = stage[u] /\ addResult'[u] = addResult[u]
         /\ addResult'[t] = "completed" =>
              addResult[t] = "completed" \/ (stage[t] = "add" /\ r = "completed")
         /\ stage'[t] = "completed" =>
              \/ input[t].then = "end"
              \/ stage[t] = "install" /\ r = "completed"
<1>1. AfterAdd(t, r) \in Stage \cup {"completed", "failed"}
  BY DEF AfterAdd, Stage
<1>2. AfterAdd(t, r) = "completed" => input[t].then = "end"
  BY DEF AfterAdd
<1>3. 0 \in Attempt
  BY AddAssumption DEF Attempt
<1> QED
  BY <1>1, <1>2, <1>3 DEF EndTask, TypeOK, Stage

\* What Conductor makes of an attempt that failed.
LEMMA FailAttemptKeeps ==
  ASSUME TypeOK, NEW t \in Task, FailAttempt(t), stage[t] \in Stage
  PROVE  /\ stage' \in [Task -> Stage \cup {"completed", "failed"}]
         /\ attempt' \in [Task -> Attempt]
         /\ addResult' \in [Task -> {"none", "completed", "failed"}]
         /\ \A u \in Task : addResult'[u] = "completed" => addResult[u] = "completed"
         /\ \A u \in Task : stage'[u] = "completed" =>
              stage[u] = "completed" \/ input[u].then = "end"
<1>1. CASE EndTask(t, "failed")
  BY <1>1, EndTaskKeeps
<1>2. CASE /\ attempt[t] < MaxRetries
           /\ attempt' = [attempt EXCEPT ![t] = @ + 1]
           /\ UNCHANGED <<stage, addResult>>
  BY <1>2, AddAssumption DEF TypeOK, Attempt
<1> QED
  BY <1>1, <1>2 DEF FailAttempt

\* What the end of an attempt does to the thread and to Conductor's state.
LEMMA EndAttemptKeeps ==
  ASSUME TypeOK, NEW t \in Task, NEW s \in Stage, NEW a \in Attempt,
         NEW r \in {"completed", "failed"}, EndAttempt(t, s, a, r)
  PROVE  /\ stage' \in [Task -> Stage \cup {"completed", "failed"}]
         /\ attempt' \in [Task -> Attempt]
         /\ addResult' \in [Task -> {"none", "completed", "failed"}]
         /\ thread' \in [Task -> [Stage -> [Attempt -> Thread]]]
         /\ thread'[t][s][a].pc = "ended"
         /\ thread'[t][s][a].label_id = thread[t][s][a].label_id
         /\ \A u \in Task, x \in Stage, b \in Attempt :
              ~(u = t /\ x = s /\ b = a) => thread'[u][x][b] = thread[u][x][b]
         /\ \A u \in Task : addResult'[u] = "completed" =>
              addResult[u] = "completed" \/ (u = t /\ s = "add" /\ r = "completed")
         /\ \A u \in Task : stage'[u] = "completed" =>
              \/ stage[u] = "completed" \/ input[u].then = "end"
              \/ u = t /\ s = "install" /\ r = "completed"
<1>1. /\ thread' \in [Task -> [Stage -> [Attempt -> Thread]]]
      /\ thread'[t][s][a].pc = "ended"
      /\ thread'[t][s][a].label_id = thread[t][s][a].label_id
      /\ \A u \in Task, x \in Stage, b \in Attempt :
           ~(u = t /\ x = s /\ b = a) => thread'[u][x][b] = thread[u][x][b]
  <2>1. Jumps(t, s, a, "ended")
    BY DEF EndAttempt, Jumps
  <2>2. "ended" \in {"idle", "polled", "adding", "installing", "ended"}
    OBVIOUS
  <2> QED
    BY <2>1, <2>2, PcUpdate
<1>2. /\ stage' \in [Task -> Stage \cup {"completed", "failed"}]
      /\ attempt' \in [Task -> Attempt]
      /\ addResult' \in [Task -> {"none", "completed", "failed"}]
      /\ \A u \in Task : addResult'[u] = "completed" =>
           addResult[u] = "completed" \/ (u = t /\ s = "add" /\ r = "completed")
      /\ \A u \in Task : stage'[u] = "completed" =>
           \/ stage[u] = "completed" \/ input[u].then = "end"
           \/ u = t /\ s = "install" /\ r = "completed"
  <2>1. CASE Awaited(t, s, a) /\ r = "completed" /\ EndTask(t, r)
    <3>1. stage[t] = s
      BY <2>1 DEF Awaited
    <3> QED
      BY <2>1, <3>1, EndTaskKeeps
  <2>2. CASE Awaited(t, s, a) /\ r = "failed" /\ FailAttempt(t)
    <3>1. stage[t] = s
      BY <2>2 DEF Awaited
    <3> QED
      BY <2>2, <3>1, FailAttemptKeeps
  <2>3. CASE UNCHANGED conductorVars
    BY <2>3 DEF conductorVars, TypeOK
  <2> QED
    BY <2>1, <2>2, <2>3 DEF EndAttempt
<1> QED
  BY <1>1, <1>2

-----------------------------------------------------------------------------
(* What the steps have in common *)

\* The inventory takes a device only where there is none.
LEMMA WithDeviceGrows ==
  ASSUME TypeOK, NEW t \in Task, device' = device \/ device' = WithDevice(t)
  PROVE  /\ device' \in [Name -> Device \cup {Absent}]
         /\ \A n \in Name : device[n] # Absent => device'[n] = device[n]
<1>1. input[t].name \in Name /\ input[t].labels \in SUBSET Label
  BY InputTyped DEF InputType
<1>2. [owner |-> t, labels |-> input[t].labels] \in Device
  BY <1>1 DEF Device
<1> QED
  BY <1>1, <1>2 DEF TypeOK, WithDevice, Acceptable

\* A device that came with the growth of the inventory is as it was.
LEMMA DeviceStays ==
  ASSUME TypeOK, Grows, NEW t \in Task
  PROVE  /\ device[input[t].name] # Absent =>
              device'[input'[t].name] = device[input[t].name]
         /\ input[t].name \in installed => input'[t].name \in installed'
BY InputTyped DEF InputType, Grows

\* What was completed before a step stays as it was promised.
LEMMA PromisesKept ==
  ASSUME IInv, Grows, NEW t \in Task
  PROVE  /\ addResult[t] = "completed" =>
              /\ device'[input'[t].name] = [owner |-> t, labels |-> input'[t].labels]
              /\ input'[t].labels \subseteq labels'
         /\ stage[t] = "completed" /\ input[t].then # "end" =>
              /\ device'[input'[t].name] # Absent
              /\ input'[t].name \in installed'
<1>1. CASE addResult[t] = "completed"
  <2>1. /\ device[input[t].name] = [owner |-> t, labels |-> input[t].labels]
        /\ input[t].labels \subseteq labels
    BY <1>1 DEF IInv, AddedAsAsked
  <2>2. input[t].labels \in SUBSET Label
    BY InputTyped DEF IInv, InputType
  <2>3. [owner |-> t, labels |-> input[t].labels] \in Device
    BY <2>2 DEF Device
  <2>4. device[input[t].name] # Absent
    BY <2>1, <2>3, DeviceIsThere
  <2>5. device'[input'[t].name] = [owner |-> t, labels |-> input[t].labels]
    BY <2>1, <2>4, DeviceStays DEF IInv
  <2>6. input'[t].labels = input[t].labels /\ input[t].labels \subseteq labels'
    BY <2>1 DEF Grows
  <2>7. stage[t] = "completed" /\ input[t].then # "end" => input[t].name \in installed
    BY DEF IInv, CompletedIsInstalled
  <2> QED
    BY <2>1, <2>4, <2>5, <2>6, <2>7, DeviceStays DEF IInv
<1>2. CASE addResult[t] # "completed"
  BY <1>2, DeviceStays DEF IInv, CompletedIsInstalled
<1> QED
  BY <1>1, <1>2

\* A thread reads labels or looks for its device; Conductor learns nothing.
LEMMA MoveKeepsIInv ==
  ASSUME IInv, process = "running",
         NEW t \in Task, NEW s \in Stage, NEW a \in Attempt, NEW w \in Thread,
         Becomes(t, s, a, w),
         w.label_id \subseteq labels,
         s = "install" /\ w.pc = "installing" => device[input[t].name] # Absent,
         UNCHANGED <<inventoryVars, processVars, inputVars, conductorVars, faults>>
  PROVE  IInv'
<1> USE DEF IInv, inventoryVars, processVars, inputVars, conductorVars
<1>1. /\ thread' \in [Task -> [Stage -> [Attempt -> Thread]]]
      /\ thread'[t][s][a] = w
      /\ \A u \in Task, x \in Stage, b \in Attempt :
           ~(u = t /\ x = s /\ b = a) => thread'[u][x][b] = thread[u][x][b]
  BY ThreadUpdate
<1>2. TypeOK'
  BY <1>1 DEF TypeOK
<1>3. SnapshotInv'
  <2> SUFFICES ASSUME NEW u \in Task, NEW x \in Stage, NEW b \in Attempt
               PROVE  thread'[u][x][b].label_id \subseteq labels
    BY DEF SnapshotInv
  <2>1. CASE u = t /\ x = s /\ b = a
    <3>1. thread'[u][x][b] = w
      BY <2>1, <1>1, Zenon
    <3> QED
      BY <3>1
  <2>2. CASE ~(u = t /\ x = s /\ b = a)
    <3>1. thread'[u][x][b] = thread[u][x][b]
      BY <2>2, <1>1, Zenon
    <3> QED
      BY <3>1 DEF SnapshotInv
  <2> QED
    BY <2>1, <2>2
<1>4. FoundInv'
  <2> SUFFICES ASSUME NEW u \in Task, NEW b \in Attempt,
                      thread'[u]["install"][b].pc = "installing"
               PROVE  device[input[u].name] # Absent
    BY DEF FoundInv
  <2>1. "install" \in Stage
    BY DEF Stage
  <2>2. CASE u = t /\ b = a /\ s = "install"
    BY <2>2, <1>1
  <2>3. CASE ~(u = t /\ b = a /\ s = "install")
    BY <2>1, <2>3, <1>1 DEF FoundInv
  <2> QED
    BY <2>2, <2>3
<1>5. ImportInv'
  BY DEF ImportInv
<1>6. AddedAsAsked'
  BY DEF AddedAsAsked
<1>7. CompletedIsInstalled'
  BY DEF CompletedIsInstalled
<1> QED
  BY <1>2, <1>3, <1>4, <1>5, <1>6, <1>7

\* A thread ends its attempt, after it asked the inventory for something or
\* for nothing.
LEMMA EndKeepsIInv ==
  ASSUME IInv, NEW t \in Task, NEW s \in Stage, NEW a \in Attempt,
         NEW r \in {"completed", "failed"}, EndAttempt(t, s, a, r),
         thread[t][s][a].pc \notin {"idle", "ended"},
         labels' \in SUBSET Label, labels \subseteq labels',
         installed' \in SUBSET Name, installed \subseteq installed',
         device' = device \/ device' = WithDevice(t),
         faults' \in Nat,
         UNCHANGED <<processVars, inputVars>>,
         s = "add" /\ r = "completed" =>
           /\ device'[input[t].name] = [owner |-> t, labels |-> input[t].labels]
           /\ input[t].labels \subseteq labels',
         s = "install" /\ r = "completed" =>
           /\ device[input[t].name] # Absent
           /\ input[t].name \in installed'
  PROVE  IInv'
<1> USE DEF processVars, inputVars
<1>1. TypeOK
  BY DEF IInv
<1>2. /\ stage' \in [Task -> Stage \cup {"completed", "failed"}]
      /\ attempt' \in [Task -> Attempt]
      /\ addResult' \in [Task -> {"none", "completed", "failed"}]
      /\ thread' \in [Task -> [Stage -> [Attempt -> Thread]]]
      /\ thread'[t][s][a].pc = "ended"
      /\ thread'[t][s][a].label_id = thread[t][s][a].label_id
      /\ \A u \in Task, x \in Stage, b \in Attempt :
           ~(u = t /\ x = s /\ b = a) => thread'[u][x][b] = thread[u][x][b]
      /\ \A u \in Task : addResult'[u] = "completed" =>
           addResult[u] = "completed" \/ (u = t /\ s = "add" /\ r = "completed")
      /\ \A u \in Task : stage'[u] = "completed" =>
           \/ stage[u] = "completed" \/ input[u].then = "end"
           \/ u = t /\ s = "install" /\ r = "completed"
  BY <1>1, EndAttemptKeeps
<1>3. /\ device' \in [Name -> Device \cup {Absent}]
      /\ \A n \in Name : device[n] # Absent => device'[n] = device[n]
  BY <1>1, WithDeviceGrows, Zenon
<1>4. Grows
  BY <1>3 DEF Grows
<1>5. process = "running"
  BY <1>1 DEF IInv, ImportInv, TypeOK
<1>6. TypeOK'
  BY <1>1, <1>2, <1>3 DEF TypeOK
<1>7. SnapshotInv'
  <2> SUFFICES ASSUME NEW u \in Task, NEW x \in Stage, NEW b \in Attempt
               PROVE  thread'[u][x][b].label_id \subseteq labels'
    BY DEF SnapshotInv
  <2>1. \A k \in Task, y \in Stage, c \in Attempt :
          ~(k = t /\ y = s /\ c = a) => thread'[k][y][c] = thread[k][y][c]
    BY <1>2
  <2>2. thread'[t][s][a].label_id = thread[t][s][a].label_id
    BY <1>2
  <2>3. thread'[u][x][b].label_id = thread[u][x][b].label_id
    BY <2>1, <2>2
  <2> QED
    BY <2>3 DEF IInv, SnapshotInv
<1>8. FoundInv'
  <2> SUFFICES ASSUME NEW u \in Task, NEW b \in Attempt,
                      thread'[u]["install"][b].pc = "installing"
               PROVE  device'[input'[u].name] # Absent
    BY DEF FoundInv
  <2>1. "install" \in Stage
    BY DEF Stage
  <2>2. ~(u = t /\ "install" = s /\ b = a)
    BY <1>2
  <2>3. thread[u]["install"][b].pc = "installing"
    BY <1>2, <2>1, <2>2
  <2> QED
    BY <1>1, <1>4, <2>3, DeviceStays DEF IInv, FoundInv
<1>9. ImportInv'
  <2>1. \A n \in DOMAIN CsvLabels \ refused :
          /\ device[n] = [owner |-> Csv, labels |-> CsvLabels[n]]
          /\ CsvLabels[n] \subseteq labels
          /\ device'[n] = device[n]
    BY <1>3, <1>5, AddAssumption DEF IInv, ImportInv
  <2>2. \A n \in DOMAIN CsvLabels \ refused : device[n] # Absent
    BY <1>5 DEF IInv, ImportInv
  <2> QED
    BY <1>5, <2>1, <2>2 DEF IInv, ImportInv
<1>10. AddedAsAsked'
  <2> SUFFICES ASSUME NEW u \in Task, addResult'[u] = "completed"
               PROVE  /\ device'[input'[u].name] = [owner |-> u, labels |-> input'[u].labels]
                      /\ input'[u].labels \subseteq labels'
    BY DEF AddedAsAsked
  <2>1. CASE addResult[u] = "completed"
    BY <2>1, <1>4, PromisesKept
  <2>2. CASE u = t /\ s = "add" /\ r = "completed"
    BY <2>2
  <2> QED
    BY <1>2, <2>1, <2>2
<1>11. CompletedIsInstalled'
  <2> SUFFICES ASSUME NEW u \in Task, stage'[u] = "completed", input[u].then # "end"
               PROVE  /\ device'[input'[u].name] # Absent
                      /\ input'[u].name \in installed'
    BY DEF CompletedIsInstalled
  <2>1. CASE stage[u] = "completed"
    BY <2>1, <1>4, PromisesKept
  <2>2. CASE u = t /\ s = "install" /\ r = "completed"
    BY <2>2, <1>1, <1>4, DeviceStays
  <2> QED
    BY <1>2, <2>1, <2>2
<1> QED
  BY <1>6, <1>7, <1>8, <1>9, <1>10, <1>11 DEF IInv

-----------------------------------------------------------------------------
(* The start of the process *)

LEMMA InitIInv == Init => IInv
<1> SUFFICES ASSUME Init PROVE IInv
  OBVIOUS
<1>1. /\ 0 \in Attempt /\ Idle \in Thread
      /\ "add" \in Stage
  BY AddAssumption DEF Attempt, Idle, Thread, Stage
<1>2. \A t \in Task, s \in Stage, a \in Attempt : thread[t][s][a] = Idle
  BY DEF Init
<1>3. TypeOK
  BY <1>1 DEF Init, TypeOK
<1>4. SnapshotInv /\ FoundInv
  BY <1>2 DEF SnapshotInv, FoundInv, Idle, Stage
<1>5. ImportInv
  BY <1>2, AddAssumption DEF ImportInv, Init, Idle
<1>6. AddedAsAsked /\ CompletedIsInstalled
  BY DEF AddedAsAsked, CompletedIsInstalled, Init
<1> QED
  BY <1>3, <1>4, <1>5, <1>6 DEF IInv

\* A step of the import keeps what no import changes.
LEMMA ImportKeepsIInv ==
  ASSUME IInv, TypeOK', Grows, ImportInv',
         UNCHANGED <<inputVars, conductorVars, thread>>
  PROVE  IInv'
<1> USE DEF inputVars, conductorVars
<1>1. SnapshotInv'
  BY DEF IInv, SnapshotInv, Grows
<1>2. FoundInv'
  BY DeviceStays DEF IInv, FoundInv
<1>3. AddedAsAsked'
  BY PromisesKept DEF AddedAsAsked
<1>4. CompletedIsInstalled'
  <2> SUFFICES ASSUME NEW u \in Task, stage[u] = "completed", input[u].then # "end"
               PROVE  /\ device'[input'[u].name] # Absent
                      /\ input'[u].name \in installed'
    BY DEF CompletedIsInstalled
  <2> QED
    BY PromisesKept
<1> QED
  BY <1>1, <1>2, <1>3, <1>4 DEF IInv

LEMMA ImportLabelStep == \A n \in imports : IInv /\ ImportLabel(n) => IInv'
<1> SUFFICES ASSUME IInv, NEW n \in imports, ImportLabel(n) PROVE IInv'
  OBVIOUS
<1> USE DEF IInv, ImportLabel, inputVars, conductorVars, processVars
<1>1. n \in DOMAIN CsvLabels
  BY DEF TypeOK
<1>2. labels \subseteq labels' /\ labels' \subseteq Label
  BY <1>1, AddAssumption DEF TypeOK
<1>3. TypeOK'
  BY <1>2 DEF TypeOK
<1>4. Grows
  BY <1>2 DEF Grows
<1>5. ImportInv'
  BY <1>2 DEF ImportInv
<1> QED
  BY <1>3, <1>4, <1>5, ImportKeepsIInv DEF inputVars, conductorVars

LEMMA ImportDeviceStep == \A n \in imports : IInv /\ ImportDevice(n) => IInv'
<1> SUFFICES ASSUME IInv, NEW n \in imports, ImportDevice(n) PROVE IInv'
  OBVIOUS
<1> USE DEF IInv, ImportDevice, inputVars, conductorVars, processVars
<1> DEFINE d == [owner |-> Csv, labels |-> CsvLabels[n]]
<1>1. n \in DOMAIN CsvLabels /\ n \in Name /\ CsvLabels[n] \subseteq Label
  BY AddAssumption DEF TypeOK
<1>2. d \in Device /\ d # Absent
  BY <1>1, DeviceIsThere DEF Device
<1>3. /\ device' \in [Name -> Device \cup {Absent}]
      /\ \A m \in Name : device[m] # Absent => device'[m] = device[m]
      /\ \A m \in Name : m # n => device'[m] = device[m]
      /\ device[n] = Absent => device'[n] = d
  <2> HIDE DEF d
  <2>1. device' = IF device[n] = Absent THEN [device EXCEPT ![n] = d] ELSE device
    BY DEF d
  <2> QED
    BY <1>1, <1>2, <2>1 DEF TypeOK
<1>4. TypeOK'
  BY <1>3 DEF TypeOK
<1>5. Grows
  BY <1>3 DEF Grows
<1>6. ImportInv'
  <2>1. process = "importing" /\ process' = "importing" /\ CsvLabels[n] \subseteq labels
    OBVIOUS
  <2>2. \A m \in DOMAIN CsvLabels \ refused :
          device'[m] # Absent =>
            /\ device'[m] = [owner |-> Csv, labels |-> CsvLabels[m]]
            /\ CsvLabels[m] \subseteq labels'
    BY <1>1, <1>3, <2>1, AddAssumption DEF ImportInv
  <2>3. \A m \in DOMAIN CsvLabels \ refused : m \notin imports' => device'[m] # Absent
    <3> HIDE DEF d
    <3> QED
      BY <1>1, <1>2, <1>3, AddAssumption DEF ImportInv
  <2> QED
    BY <2>1, <2>2, <2>3 DEF ImportInv
<1> QED
  BY <1>4, <1>5, <1>6, ImportKeepsIInv DEF inputVars, conductorVars

LEMMA ImportRefusedStep == \A n \in imports : IInv /\ ImportRefused(n) => IInv'
<1> SUFFICES ASSUME IInv, NEW n \in imports, ImportRefused(n) PROVE IInv'
  OBVIOUS
<1> USE DEF IInv, ImportRefused, inputVars, conductorVars, inventoryVars
<1>1. n \in DOMAIN CsvLabels
  BY DEF TypeOK
<1>2. TypeOK' /\ Grows
  BY <1>1, AddAssumption DEF TypeOK, Grows
<1>3. ImportInv'
  BY <1>1 DEF ImportInv
<1> QED
  BY <1>2, <1>3, ImportKeepsIInv DEF inputVars, conductorVars

LEMMA StartWorkersStep == IInv /\ StartWorkers => IInv'
<1> SUFFICES ASSUME IInv, StartWorkers PROVE IInv'
  OBVIOUS
<1> USE DEF IInv, StartWorkers, inputVars, conductorVars, inventoryVars
<1>1. TypeOK' /\ Grows
  BY DEF TypeOK, Grows
<1>2. ImportInv'
  BY DEF ImportInv
<1> QED
  BY <1>1, <1>2, ImportKeepsIInv DEF inputVars, conductorVars

\* The threads of a process that died.
LEMMA ThreadsEnd ==
  ASSUME IInv, Restart
  PROVE  /\ thread' \in [Task -> [Stage -> [Attempt -> Thread]]]
         /\ \A t \in Task, s \in Stage, a \in Attempt :
              /\ thread'[t][s][a].pc \in {"idle", "ended"}
              /\ thread'[t][s][a].label_id \subseteq labels
<1> DEFINE Ended(w) == IF w.pc = "idle" THEN Idle ELSE [w EXCEPT !.pc = "ended"]
<1>1. ASSUME NEW w \in Thread, w.label_id \subseteq labels
      PROVE  /\ Ended(w) \in Thread
             /\ Ended(w).pc \in {"idle", "ended"}
             /\ Ended(w).label_id \subseteq labels
  BY <1>1 DEF Thread, Idle
<1>2. \A t \in Task, s \in Stage, a \in Attempt :
        thread[t][s][a] \in Thread /\ thread[t][s][a].label_id \subseteq labels
  BY DEF IInv, TypeOK, SnapshotInv
<1>3. thread' = [t \in Task |-> [s \in Stage |-> [a \in Attempt |->
                   Ended(thread[t][s][a])]]]
  BY DEF Restart
<1> HIDE DEF Ended
<1>4. \A t \in Task, s \in Stage, a \in Attempt : thread'[t][s][a] = Ended(thread[t][s][a])
  BY <1>3
<1>5. \A t \in Task, s \in Stage, a \in Attempt :
        /\ Ended(thread[t][s][a]) \in Thread
        /\ Ended(thread[t][s][a]).pc \in {"idle", "ended"}
        /\ Ended(thread[t][s][a]).label_id \subseteq labels
  BY <1>1, <1>2
<1>6. thread' \in [Task -> [Stage -> [Attempt -> Thread]]]
  <2>1. \A t \in Task, s \in Stage :
          [a \in Attempt |-> Ended(thread[t][s][a])] \in [Attempt -> Thread]
    BY <1>5
  <2>2. \A t \in Task :
          [s \in Stage |-> [a \in Attempt |-> Ended(thread[t][s][a])]]
             \in [Stage -> [Attempt -> Thread]]
    BY <2>1
  <2> QED
    BY <1>3, <2>2
<1> QED
  BY <1>4, <1>5, <1>6

LEMMA RestartStep == IInv /\ Restart => IInv'
<1> SUFFICES ASSUME IInv, Restart PROVE IInv'
  OBVIOUS
<1>3. /\ thread' \in [Task -> [Stage -> [Attempt -> Thread]]]
      /\ \A t \in Task, s \in Stage, a \in Attempt :
           /\ thread'[t][s][a].pc \in {"idle", "ended"}
           /\ thread'[t][s][a].label_id \subseteq labels
  BY ThreadsEnd
<1> USE DEF IInv, Restart, inputVars, conductorVars, inventoryVars
<1>4. TypeOK'
  BY <1>3 DEF TypeOK
<1>5. SnapshotInv' /\ FoundInv'
  BY <1>3 DEF SnapshotInv, FoundInv, Stage
<1>6. ImportInv'
  BY <1>3 DEF ImportInv
<1>7. AddedAsAsked' /\ CompletedIsInstalled'
  BY DEF AddedAsAsked, CompletedIsInstalled
<1> QED
  BY <1>4, <1>5, <1>6, <1>7

-----------------------------------------------------------------------------
(* Conductor *)

LEMMA TimeoutStep == \A t \in Task : IInv /\ Timeout(t) => IInv'
<1> SUFFICES ASSUME IInv, NEW t \in Task, Timeout(t) PROVE IInv'
  OBVIOUS
<1>1. /\ stage[t] \in Stage /\ FailAttempt(t) /\ faults' \in Nat
      /\ UNCHANGED <<inventoryVars, processVars, inputVars, thread>>
  BY DEF Timeout, IInv, TypeOK
<1>2. /\ stage' \in [Task -> Stage \cup {"completed", "failed"}]
      /\ attempt' \in [Task -> Attempt]
      /\ addResult' \in [Task -> {"none", "completed", "failed"}]
      /\ \A u \in Task : addResult'[u] = "completed" => addResult[u] = "completed"
      /\ \A u \in Task : stage'[u] = "completed" =>
           stage[u] = "completed" \/ input[u].then = "end"
  BY <1>1, FailAttemptKeeps DEF IInv
<1> USE <1>1 DEF inventoryVars, processVars, inputVars
<1>3. TypeOK'
  BY <1>2 DEF IInv, TypeOK
<1>4. SnapshotInv' /\ FoundInv' /\ ImportInv'
  BY DEF IInv, SnapshotInv, FoundInv, ImportInv
<1>5. AddedAsAsked'
  BY <1>2 DEF IInv, AddedAsAsked
<1>6. CompletedIsInstalled'
  BY <1>2 DEF IInv, CompletedIsInstalled
<1> QED
  BY <1>3, <1>4, <1>5, <1>6 DEF IInv

\* A thread that goes on keeps the labels it has read.
LEMMA JumpKeepsIInv ==
  ASSUME IInv, process = "running",
         NEW t \in Task, NEW s \in Stage, NEW a \in Attempt,
         NEW p \in {"idle", "polled", "adding", "installing", "ended"},
         Jumps(t, s, a, p),
         p = "installing" => device[input[t].name] # Absent,
         UNCHANGED <<inventoryVars, processVars, inputVars, conductorVars, faults>>
  PROVE  IInv'
<1> DEFINE r == thread[t][s][a]
           w == [r EXCEPT !.pc = p]
<1>1. r \in Thread /\ r.label_id \subseteq labels
  BY DEF IInv, TypeOK, SnapshotInv
<1>2. w \in Thread /\ w.pc = p /\ w.label_id \subseteq labels
  <2> HIDE DEF r
  <2> QED
    BY <1>1 DEF Thread
<1>3. Becomes(t, s, a, w)
  BY DEF Jumps, Becomes
<1> HIDE DEF w
<1> QED
  BY <1>2, <1>3, MoveKeepsIInv

LEMMA PollStep == \A t \in Task : IInv /\ Poll(t) => IInv'
<1> SUFFICES ASSUME IInv, NEW t \in Task, Poll(t) PROVE IInv'
  OBVIOUS
<1>1. stage[t] \in Stage /\ attempt[t] \in Attempt
  BY DEF Poll, IInv, TypeOK
<1>2. Jumps(t, stage[t], attempt[t], "polled")
  BY DEF Poll, Jumps
<1> QED
  BY <1>1, <1>2, JumpKeepsIInv DEF Poll

-----------------------------------------------------------------------------
(* The threads *)

\* A thread that is at work runs in a process that polls.
LEMMA AtWork ==
  ASSUME IInv, NEW t \in Task, NEW s \in Stage, NEW a \in Attempt,
         thread[t][s][a].pc \notin {"idle", "ended"}
  PROVE  process = "running"
BY DEF IInv, ImportInv, TypeOK

LEMMA ReadLabelsStep == \A t \in Task, a \in Attempt : IInv /\ ReadLabels(t, a) => IInv'
<1> SUFFICES ASSUME IInv, NEW t \in Task, NEW a \in Attempt, ReadLabels(t, a)
             PROVE  IInv'
  OBVIOUS
<1>1. "add" \in Stage
  BY DEF Stage
<1>2. process = "running"
  BY <1>1, AtWork DEF ReadLabels, Add
<1> DEFINE w == [pc |-> "adding", label_id |-> labels]
<1>3. w \in Thread /\ w.label_id \subseteq labels /\ w.pc # "installing"
  BY DEF Thread, IInv, TypeOK
<1>4. Becomes(t, "add", a, w)
  BY DEF ReadLabels, Becomes
<1> HIDE DEF w
<1> QED
  BY <1>1, <1>2, <1>3, <1>4, MoveKeepsIInv DEF ReadLabels

LEMMA AddStep ==
  \A t \in Task, a \in Attempt :
    /\ IInv
    /\ \/ BlacklistRaises(t, a) \/ CreateLabel(t, a)
       \/ AddDevice(t, a) \/ AddRaises(t, a)
    => IInv'
<1> SUFFICES ASSUME IInv, NEW t \in Task, NEW a \in Attempt,
                    \/ BlacklistRaises(t, a) \/ CreateLabel(t, a)
                    \/ AddDevice(t, a) \/ AddRaises(t, a)
             PROVE  IInv'
  OBVIOUS
<1>1. "add" \in Stage
  BY DEF Stage
<1>2. /\ faults \in Nat /\ labels \in SUBSET Label /\ installed \in SUBSET Name
      /\ input[t].labels \in SUBSET Label /\ input[t].name \in Name
      /\ thread[t]["add"][a].label_id \subseteq labels
  BY <1>1, InputTyped DEF IInv, TypeOK, SnapshotInv, InputType
<1>3. CASE BlacklistRaises(t, a)
  <2>1. EndAttempt(t, "add", a, "failed")
    BY <1>3 DEF BlacklistRaises
  <2> QED
    BY <1>1, <1>2, <1>3, <2>1, EndKeepsIInv DEF BlacklistRaises, Add, inventoryVars
<1>4. CASE CreateLabel(t, a)
  <2>1. EndAttempt(t, "add", a, "failed")
    BY <1>4 DEF CreateLabel
  <2>2. labels \subseteq labels' /\ labels' \subseteq Label
    BY <1>2, <1>4 DEF CreateLabel, Missing
  <2> QED
    BY <1>1, <1>2, <1>4, <2>1, <2>2, EndKeepsIInv DEF CreateLabel, Add
<1>5. CASE AddDevice(t, a)
  <2> DEFINE r == IF Acceptable(t) THEN "completed" ELSE "failed"
  <2>1. EndAttempt(t, "add", a, r) /\ r \in {"completed", "failed"}
    BY <1>5 DEF AddDevice
  <2>2. r = "completed" =>
          /\ device'[input[t].name] = [owner |-> t, labels |-> input[t].labels]
          /\ input[t].labels \subseteq labels'
    <3> SUFFICES ASSUME Acceptable(t)
                 PROVE  /\ device'[input[t].name] = [owner |-> t, labels |-> input[t].labels]
                        /\ input[t].labels \subseteq labels'
      OBVIOUS
    <3>1. input[t].labels \subseteq labels'
      BY <1>2, <1>5 DEF AddDevice, Missing, Add
    <3>2. device' = [device EXCEPT ![input[t].name] =
                       [owner |-> t, labels |-> input[t].labels]]
      BY <1>5 DEF AddDevice, WithDevice
    <3> QED
      BY <1>2, <3>1, <3>2 DEF IInv, TypeOK
  <2> HIDE DEF r
  <2> QED
    BY <1>1, <1>2, <1>5, <2>1, <2>2, EndKeepsIInv DEF AddDevice, Add
<1>6. CASE AddRaises(t, a)
  <2>1. EndAttempt(t, "add", a, "failed") /\ faults' \in Nat
    BY <1>2, <1>6 DEF AddRaises
  <2>2. device' = device \/ device' = WithDevice(t)
    BY <1>6 DEF AddRaises
  <2> QED
    BY <1>1, <1>2, <1>6, <2>1, <2>2, EndKeepsIInv DEF AddRaises, Add
<1> QED
  BY <1>3, <1>4, <1>5, <1>6

LEMMA InstallStep ==
  \A t \in Task, a \in Attempt :
    IInv /\ (FindDevice(t, a) \/ InstallDevice(t, a) \/ InstallRaises(t, a)) => IInv'
<1> SUFFICES ASSUME IInv, NEW t \in Task, NEW a \in Attempt,
                    FindDevice(t, a) \/ InstallDevice(t, a) \/ InstallRaises(t, a)
             PROVE  IInv'
  OBVIOUS
<1>1. "install" \in Stage
  BY DEF Stage
<1>2. /\ faults \in Nat /\ labels \in SUBSET Label /\ installed \in SUBSET Name
      /\ input[t].name \in Name
  BY InputTyped DEF IInv, TypeOK, InputType
<1>3. CASE FindDevice(t, a) /\ device[input[t].name] # Absent
  <2>1. Jumps(t, "install", a, "installing")
    BY <1>3 DEF FindDevice, Jumps
  <2>2. process = "running"
    BY <1>1, <1>3, AtWork DEF FindDevice, Install
  <2> QED
    BY <1>1, <1>3, <2>1, <2>2, JumpKeepsIInv DEF FindDevice
<1>4. CASE FindDevice(t, a) /\ device[input[t].name] = Absent
  <2>1. EndAttempt(t, "install", a, "failed")
    BY <1>4 DEF FindDevice
  <2> QED
    BY <1>1, <1>2, <1>4, <2>1, EndKeepsIInv DEF FindDevice, Install, inventoryVars
<1>5. CASE InstallDevice(t, a)
  <2>1. EndAttempt(t, "install", a, "completed")
    BY <1>5 DEF InstallDevice
  <2>2. device[input[t].name] # Absent
    BY <1>5 DEF InstallDevice, Install, IInv, FoundInv
  <2>3. /\ installed' \in SUBSET Name /\ installed \subseteq installed'
        /\ input[t].name \in installed'
    BY <1>2, <1>5 DEF InstallDevice
  <2> QED
    BY <1>1, <1>2, <1>5, <2>1, <2>2, <2>3, EndKeepsIInv DEF InstallDevice, Install
<1>6. CASE InstallRaises(t, a)
  <2>1. EndAttempt(t, "install", a, "failed") /\ faults' \in Nat
    BY <1>2, <1>6 DEF InstallRaises
  <2>2. installed' \in SUBSET Name /\ installed \subseteq installed'
    BY <1>2, <1>6 DEF InstallRaises
  <2> QED
    BY <1>1, <1>2, <1>6, <2>1, <2>2, EndKeepsIInv DEF InstallRaises, Install
<1> QED
  BY <1>3, <1>4, <1>5, <1>6

-----------------------------------------------------------------------------
(* The theorems *)

\* The invariant is inductive.
LEMMA StepKeepsIInv == IInv /\ [Next]_vars => IInv'
<1> SUFFICES ASSUME IInv, [Next]_vars PROVE IInv'
  OBVIOUS
<1>1. CASE UNCHANGED vars
  BY <1>1 DEF vars, IInv, TypeOK, SnapshotInv, FoundInv, ImportInv, AddedAsAsked,
              CompletedIsInstalled
<1>2. ASSUME NEW n \in imports, ImportLabel(n) \/ ImportDevice(n) \/ ImportRefused(n)
      PROVE  IInv'
  BY <1>2, ImportLabelStep, ImportDeviceStep, ImportRefusedStep
<1>3. ASSUME NEW t \in Task, NEW a \in Attempt, ThreadStep(t, a) PROVE IInv'
  BY <1>3, ReadLabelsStep, AddStep, InstallStep DEF ThreadStep
<1>4. ASSUME NEW t \in Task, NEW a \in Attempt, AddRaises(t, a) \/ InstallRaises(t, a)
      PROVE  IInv'
  BY <1>4, AddStep, InstallStep
<1>5. ASSUME NEW t \in Task, Poll(t) \/ Timeout(t) PROVE IInv'
  BY <1>5, PollStep, TimeoutStep
<1> QED
  BY <1>1, <1>2, <1>3, <1>4, <1>5, StartWorkersStep, RestartStep DEF Next, ProcessStep

\* Every reachable state satisfies the invariant.
LEMMA SpecIInv == Spec => []IInv
BY InitIInv, StepKeepsIInv, PTL DEF Spec

\* Every reachable state is of its type.
THEOREM SpecTypeOK == Spec => []TypeOK
<1>1. IInv => TypeOK
  BY DEF IInv
<1> QED
  BY <1>1, SpecIInv, PTL

\* A task that completed has added the device itself, with its labels, and
\* the device stays that way.
THEOREM SpecAddedAsAsked == Spec => []AddedAsAsked
<1>1. IInv => AddedAsAsked
  BY DEF IInv
<1> QED
  BY <1>1, SpecIInv, PTL

\* A process that polls has imported every device of its CSV files that the
\* inventory did not refuse.
THEOREM SpecImportedFirst == Spec => []ImportedFirst
<1>1. IInv => ImportedFirst
  BY DEF IInv, ImportInv, ImportedFirst
<1> QED
  BY <1>1, SpecIInv, PTL

\* A run that completed after its installing task left the device installed.
THEOREM SpecCompletedIsInstalled == Spec => []CompletedIsInstalled
<1>1. IInv => CompletedIsInstalled
  BY DEF IInv
<1> QED
  BY <1>1, SpecIInv, PTL

-----------------------------------------------------------------------------
(* The retries *)

\* No retry helps the task of run t.
Hopeless(t) == input[t].blacklist \/ ~Acceptable(t)

\* How many of the labels that had to be created for run t are among L.
Created(t, L) == Cardinality((input[t].labels \ labels0) \cap L)

\* As long as nothing failed, every attempt before the current one has left a
\* label less to create, and the labels the current one has read show it.
RetryOK(t) ==
  stage[t] = "add" =>
    /\ \A a \in Attempt : a > attempt[t] => Add(t, a).pc = "idle"
    /\ Add(t, attempt[t]).pc # "ended"
    /\ Hopeless(t) \/ attempt[t] <= Created(t, labels)
    /\ Add(t, attempt[t]).pc = "adding" =>
         /\ labels0 \subseteq Add(t, attempt[t]).label_id
         /\ Hopeless(t) \/ attempt[t] <= Created(t, Add(t, attempt[t]).label_id)

\* RetriesSuffice, of one run.
GivenUpOK(t) ==
  addResult[t] = "failed" =>
    Hopeless(t) \/ Cardinality(input[t].labels \ labels0) > MaxRetries

RetryInv ==
  /\ labels0 \subseteq labels
  /\ faults = 0 => \A t \in Task : RetryOK(t) /\ GivenUpOK(t)

\* The labels to create are finitely many, and more of them are created in a
\* larger set.
LEMMA CreatedGrows ==
  ASSUME TypeOK, NEW t \in Task, NEW L, NEW K, L \subseteq K
  PROVE  /\ Created(t, L) \in Nat /\ Created(t, K) \in Nat
         /\ Created(t, L) <= Created(t, K)
         /\ Cardinality(input[t].labels \ labels0) \in Nat
         /\ Created(t, K) <= Cardinality(input[t].labels \ labels0)
<1> DEFINE N == input[t].labels \ labels0
<1>1. IsFiniteSet(N)
  <2>1. N \subseteq Label /\ IsFiniteSet(Label)
    BY InputTyped, AddAssumption DEF InputType
  <2> QED
    BY <2>1, FS_Subset
<1>2. IsFiniteSet(N \cap K) /\ Cardinality(N \cap K) <= Cardinality(N)
  <2>1. N \cap K \subseteq N
    OBVIOUS
  <2> QED
    BY <1>1, <2>1, FS_Subset
<1>3. IsFiniteSet(N \cap L) /\ Cardinality(N \cap L) <= Cardinality(N \cap K)
  <2>1. N \cap L \subseteq N \cap K
    OBVIOUS
  <2> QED
    BY <1>2, <2>1, FS_Subset
<1>4. /\ Cardinality(N) \in Nat /\ Cardinality(N \cap K) \in Nat
      /\ Cardinality(N \cap L) \in Nat
  BY <1>1, <1>2, <1>3, FS_CardinalityType
<1> QED
  BY <1>2, <1>3, <1>4 DEF Created

\* One label more.
LEMMA CreatedMore ==
  ASSUME TypeOK, NEW t \in Task, NEW L, NEW K, NEW l \in input[t].labels \ labels0,
         L \subseteq K, l \in K, l \notin L
  PROVE  Created(t, L) + 1 <= Created(t, K)
<1> DEFINE N == input[t].labels \ labels0
           M == L \cup {l}
<1>1. IsFiniteSet(N \cap L)
  <2>1. N \cap L \subseteq Label /\ IsFiniteSet(Label)
    BY InputTyped, AddAssumption DEF InputType
  <2> QED
    BY <2>1, FS_Subset
<1>2. N \cap M = (N \cap L) \cup {l} /\ l \notin N \cap L
  OBVIOUS
<1>3. Cardinality(N \cap M) = Cardinality(N \cap L) + 1
  BY <1>1, <1>2, FS_AddElement
<1>4. Created(t, M) <= Created(t, K)
  <2>1. M \subseteq K
    OBVIOUS
  <2> QED
    BY <2>1, CreatedGrows
<1> QED
  BY <1>3, <1>4 DEF Created

\* The inventory grows on every step.
LEMMA StepGrows ==
  ASSUME IInv, [Next]_vars
  PROVE  Grows /\ labels0' = labels0
<1>1. input' = input /\ labels0' = labels0
  BY DEF Next, vars, ProcessStep, ImportLabel, ImportDevice, StartWorkers, Restart,
         ImportRefused, Poll, Timeout, ThreadStep, BlacklistRaises, ReadLabels, CreateLabel,
         AddDevice, FindDevice, InstallDevice, AddRaises, InstallRaises, inputVars
<1>2. labels \subseteq labels' /\ installed \subseteq installed'
  BY DEF Next, vars, ProcessStep, ImportLabel, ImportDevice, StartWorkers, Restart,
         ImportRefused, Poll, Timeout, ThreadStep, BlacklistRaises, ReadLabels, CreateLabel,
         AddDevice, FindDevice, InstallDevice, AddRaises, InstallRaises, inventoryVars
<1>3. CASE UNCHANGED device
  BY <1>1, <1>2, <1>3 DEF Grows
<1>4. ASSUME NEW n \in imports, ImportDevice(n) PROVE Grows
  BY <1>1, <1>2, <1>4 DEF Grows, ImportDevice, IInv, TypeOK
<1>5. ASSUME NEW t \in Task, NEW a \in Attempt, AddDevice(t, a) \/ AddRaises(t, a)
      PROVE  Grows
  <2>1. device' = device \/ device' = WithDevice(t)
    BY <1>5 DEF AddDevice, AddRaises
  <2> QED
    BY <1>1, <1>2, <2>1, WithDeviceGrows DEF Grows, IInv
<1> QED
  BY <1>1, <1>3, <1>4, <1>5
  DEF Next, vars, ProcessStep, ImportLabel, StartWorkers, Restart,
      ImportRefused, Poll, Timeout, ThreadStep, BlacklistRaises, ReadLabels, CreateLabel,
      FindDevice, InstallDevice, InstallRaises, inventoryVars

\* What made a task hopeless stays, and what made it give up.
LEMMA HopelessStays ==
  ASSUME IInv, Grows, labels0' = labels0, NEW t \in Task
  PROVE  /\ Hopeless(t) => Hopeless(t)'
         /\ GivenUpOK(t) /\ addResult'[t] = addResult[t] => GivenUpOK(t)'
<1>1. input' = input /\ input[t].name \in Name
  BY InputTyped DEF IInv, Grows, InputType
<1>2. Hopeless(t) => Hopeless(t)'
  BY <1>1 DEF Hopeless, Acceptable, Grows
<1> QED
  BY <1>1, <1>2 DEF GivenUpOK

\* A step that leaves a run alone keeps what holds of it.
LEMMA QuietRun ==
  ASSUME IInv, Grows, labels0' = labels0, NEW t \in Task, RetryOK(t), GivenUpOK(t),
         stage'[t] = stage[t], attempt'[t] = attempt[t], addResult'[t] = addResult[t],
         stage[t] = "add" =>
           \A a \in Attempt : a >= attempt[t] => Add(t, a)' = Add(t, a)
  PROVE  RetryOK(t)' /\ GivenUpOK(t)'
<1>1. GivenUpOK(t)' /\ (Hopeless(t) => Hopeless(t)')
  BY HopelessStays
<1>2. ASSUME stage[t] = "add" PROVE RetryOK(t)'
  <2>1. attempt[t] \in Attempt /\ attempt[t] \in Nat
    BY AddAssumption DEF IInv, TypeOK, Attempt
  <2>2. \A a \in Attempt : a >= attempt[t] => Add(t, a)' = Add(t, a)
    BY <1>2
  <2>3. Add(t, attempt[t])' = Add(t, attempt[t])
    BY <2>1, <2>2 DEF Add
  <2>4. \A a \in Attempt : a > attempt'[t] => Add(t, a)'.pc = "idle"
    BY <1>2, <2>1, <2>2 DEF RetryOK, Attempt
  <2>5. /\ Created(t, labels)' = Created(t, labels')
        /\ Created(t, Add(t, attempt[t]).label_id)' = Created(t, Add(t, attempt[t]).label_id)
    BY <2>3 DEF Created, Grows
  <2>6. /\ Created(t, labels) \in Nat /\ Created(t, labels') \in Nat
        /\ Created(t, labels) <= Created(t, labels')
    BY CreatedGrows DEF Grows, IInv
  <2> QED
    BY <1>1, <1>2, <2>1, <2>3, <2>4, <2>5, <2>6 DEF RetryOK
<1> QED
  BY <1>1, <1>2 DEF RetryOK

\* A step of run t leaves the other runs alone.
MovesOnly(t) ==
  \A u \in Task : u # t =>
    /\ stage'[u] = stage[u] /\ attempt'[u] = attempt[u] /\ addResult'[u] = addResult[u]
    /\ \A a \in Attempt : Add(u, a)' = Add(u, a)

\* The run of an attempt that ends is the only one that moves.
LEMMA EndMovesOnly ==
  ASSUME TypeOK, NEW t \in Task, NEW s \in Stage, NEW a \in Attempt,
         NEW r \in {"completed", "failed"}, EndAttempt(t, s, a, r)
  PROVE  MovesOnly(t)
<1>1. \A u \in Task : u # t =>
        stage'[u] = stage[u] /\ attempt'[u] = attempt[u] /\ addResult'[u] = addResult[u]
  BY DEF EndAttempt, FailAttempt, EndTask, conductorVars, TypeOK
<1>2. \A u \in Task, x \in Stage, b \in Attempt :
        ~(u = t /\ x = s /\ b = a) => thread'[u][x][b] = thread[u][x][b]
  BY EndAttemptKeeps
<1>3. \A u \in Task, b \in Attempt : u # t => Add(u, b)' = Add(u, b)
  BY <1>2 DEF Add, Stage
<1> QED
  BY <1>1, <1>3 DEF MovesOnly

\* After a failed attempt of the adding task, the task gave up for a cause or
\* has an attempt and the labels to show for it.
LEMMA EndOfAdd ==
  ASSUME IInv, Grows, labels0' = labels0, NEW t \in Task, NEW a \in Attempt,
         NEW r \in {"completed", "failed"}, EndAttempt(t, "add", a, r),
         Add(t, a).pc # "idle", RetryOK(t), GivenUpOK(t),
         Awaited(t, "add", a) /\ r = "failed" =>
           Hopeless(t)' \/ attempt[t] + 1 <= Created(t, labels')
  PROVE  RetryOK(t)' /\ GivenUpOK(t)'
<1>1. /\ attempt[t] \in Attempt /\ attempt[t] \in Nat /\ MaxRetries \in Nat
      /\ "add" \in Stage /\ TypeOK
  BY AddAssumption DEF IInv, TypeOK, Attempt, Stage
<1>2. /\ thread'[t]["add"][a].pc = "ended"
      /\ \A b \in Attempt : b # a => Add(t, b)' = Add(t, b)
  BY <1>1, EndAttemptKeeps DEF Add
<1>3. /\ Created(t, labels)' = Created(t, labels') /\ Created(t, labels') \in Nat
      /\ Cardinality(input'[t].labels \ labels0') = Cardinality(input[t].labels \ labels0)
      /\ Created(t, labels') <= Cardinality(input[t].labels \ labels0)
      /\ Cardinality(input[t].labels \ labels0) \in Nat
  BY <1>1, CreatedGrows DEF Grows, Created
<1>4. CASE UNCHANGED conductorVars /\ ~Awaited(t, "add", a)
  <2>1. stage'[t] = stage[t] /\ attempt'[t] = attempt[t] /\ addResult'[t] = addResult[t]
    BY <1>4 DEF conductorVars
  <2>2. ASSUME stage[t] = "add", NEW b \in Attempt, b >= attempt[t]
        PROVE  Add(t, b)' = Add(t, b)
    <3>1. a # attempt[t]
      BY <1>4, <2>2 DEF Awaited
    <3>2. ~(a > attempt[t])
      BY <2>2 DEF RetryOK
    <3>3. b # a
      BY <1>1, <2>2, <3>1, <3>2 DEF Attempt
    <3> QED
      BY <1>2, <3>3
  <2> QED
    BY <2>1, <2>2, QuietRun
<1>5. CASE /\ Awaited(t, "add", a) /\ EndTask(t, r)
           /\ r = "failed" => attempt[t] = MaxRetries
  <2>1. stage[t] = "add" /\ attempt[t] = a
    BY <1>5 DEF Awaited
  <2>2. AfterAdd(t, r) # "add"
    BY DEF AfterAdd
  <2>3. stage'[t] # "add" /\ addResult'[t] = r
    BY <1>1, <1>5, <2>1, <2>2 DEF EndTask, TypeOK
  <2>4. r = "failed" =>
          Hopeless(t)' \/ Cardinality(input'[t].labels \ labels0') > MaxRetries
    BY <1>1, <1>3, <1>5
  <2> QED
    BY <2>3, <2>4 DEF RetryOK, GivenUpOK
<1>6. CASE /\ Awaited(t, "add", a) /\ r = "failed" /\ attempt[t] < MaxRetries
           /\ attempt' = [attempt EXCEPT ![t] = @ + 1]
           /\ UNCHANGED <<stage, addResult>>
  <2>1. stage[t] = "add" /\ attempt[t] = a /\ attempt'[t] = a + 1 /\ a + 1 \in Attempt
    BY <1>1, <1>6, AddAssumption DEF Awaited, TypeOK, Attempt
  <2>2. \A b \in Attempt : b > a => Add(t, b)' = Add(t, b) /\ Add(t, b)'.pc = "idle"
    BY <1>2, <2>1 DEF RetryOK, Attempt
  <2>3. Add(t, attempt[t])'.pc = "idle"
    BY <1>1, <2>1, <2>2 DEF Add
  <2>4. \A b \in Attempt : b > attempt'[t] => Add(t, b)'.pc = "idle"
    BY <1>1, <2>1, <2>2 DEF Attempt
  <2>5. Hopeless(t)' \/ attempt'[t] <= Created(t, labels)'
    BY <1>3, <1>6, <2>1
  <2>6. RetryOK(t)'
    BY <2>3, <2>4, <2>5 DEF RetryOK
  <2> QED
    BY <1>6, <2>6, HopelessStays
<1> QED
  BY <1>4, <1>5, <1>6 DEF EndAttempt, FailAttempt

\* The end of an installing attempt says nothing of the adding task.
LEMMA EndOfInstall ==
  ASSUME IInv, Grows, labels0' = labels0, NEW t \in Task, NEW a \in Attempt,
         NEW r \in {"completed", "failed"}, EndAttempt(t, "install", a, r),
         RetryOK(t), GivenUpOK(t)
  PROVE  RetryOK(t)' /\ GivenUpOK(t)'
<1>1. "add" \in Stage /\ "install" \in Stage /\ TypeOK
  BY DEF IInv, Stage
<1>2. \A b \in Attempt : Add(t, b)' = Add(t, b)
  BY <1>1, EndAttemptKeeps DEF Add
<1>3. CASE UNCHANGED conductorVars
  BY <1>2, <1>3, QuietRun DEF conductorVars
<1>4. CASE ~(UNCHANGED conductorVars)
  <2>1. stage[t] = "install"
    BY <1>4 DEF EndAttempt, Awaited
  <2>2. stage'[t] # "add" /\ addResult'[t] = addResult[t]
    BY <1>1, <1>4, <2>1 DEF EndAttempt, FailAttempt, EndTask, TypeOK
  <2>3. RetryOK(t)'
    BY <2>2 DEF RetryOK
  <2> QED
    BY <2>2, <2>3, HopelessStays
<1> QED
  BY <1>3, <1>4

\* The adding task of run t makes a step.
LEMMA AddRetryStep ==
  ASSUME IInv, RetryInv, Grows, labels0' = labels0, faults = 0, faults' = 0,
         NEW t \in Task, NEW a \in Attempt,
         BlacklistRaises(t, a) \/ CreateLabel(t, a) \/ AddDevice(t, a)
  PROVE  MovesOnly(t) /\ RetryOK(t)' /\ GivenUpOK(t)'
<1>1. /\ attempt[t] \in Attempt /\ attempt[t] \in Nat
      /\ "add" \in Stage /\ TypeOK
  BY AddAssumption DEF IInv, TypeOK, Attempt, Stage
<1>2. RetryOK(t) /\ GivenUpOK(t)
  BY DEF RetryInv
<1>3. CASE BlacklistRaises(t, a)
  <2>1. EndAttempt(t, "add", a, "failed") /\ Add(t, a).pc # "idle" /\ Hopeless(t)
    BY <1>3 DEF BlacklistRaises, Hopeless
  <2> QED
    BY <1>1, <1>2, <2>1, EndOfAdd, EndMovesOnly, HopelessStays
<1>4. CASE CreateLabel(t, a)
  <2>1. EndAttempt(t, "add", a, "failed") /\ Add(t, a).pc = "adding"
    BY <1>4 DEF CreateLabel
  <2>2. PICK l \in Missing(t, a) : labels' = labels \cup {l}
    BY <1>4 DEF CreateLabel
  <2>3. ASSUME Awaited(t, "add", a)
        PROVE  Hopeless(t)' \/ attempt[t] + 1 <= Created(t, labels')
    <3> DEFINE L == Add(t, a).label_id
    <3>1. stage[t] = "add" /\ attempt[t] = a
      BY <2>3 DEF Awaited
    <3>2. labels0 \subseteq L /\ (Hopeless(t) \/ attempt[t] <= Created(t, L))
      BY <1>2, <2>1, <3>1 DEF RetryOK
    <3>3. l \in input[t].labels \ labels0 /\ l \notin L
      BY <2>2, <3>2 DEF Missing
    <3>4. L \subseteq labels' /\ l \in labels'
      BY <1>1, <2>2 DEF IInv, SnapshotInv, Add
    <3> HIDE DEF L
    <3>5. Created(t, L) + 1 <= Created(t, labels')
      BY <1>1, <3>3, <3>4, CreatedMore
    <3>6. Created(t, L) \in Nat /\ Created(t, labels') \in Nat
      BY <1>1, <3>4, CreatedGrows
    <3> QED
      BY <1>1, <3>2, <3>5, <3>6, HopelessStays
  <2> QED
    BY <1>1, <1>2, <2>1, <2>3, EndOfAdd, EndMovesOnly
<1>5. CASE AddDevice(t, a)
  <2> DEFINE r == IF Acceptable(t) THEN "completed" ELSE "failed"
  <2>1. /\ EndAttempt(t, "add", a, r) /\ r \in {"completed", "failed"}
        /\ Add(t, a).pc # "idle"
    BY <1>5 DEF AddDevice
  <2>2. r = "failed" => Hopeless(t)'
    BY HopelessStays DEF Hopeless
  <2> HIDE DEF r
  <2> QED
    BY <1>1, <1>2, <2>1, <2>2, EndOfAdd, EndMovesOnly
<1> QED
  BY <1>3, <1>4, <1>5

\* Run t is polled for, or reads the labels the inventory has.
LEMMA ReadRetryStep ==
  ASSUME IInv, RetryInv, Grows, labels0' = labels0, faults = 0, faults' = 0,
         NEW t \in Task, Poll(t) \/ \E a \in Attempt : ReadLabels(t, a)
  PROVE  MovesOnly(t) /\ RetryOK(t)' /\ GivenUpOK(t)'
<1>1. /\ attempt[t] \in Attempt /\ "add" \in Stage /\ TypeOK /\ attempt[t] \in Nat
  BY AddAssumption DEF IInv, TypeOK, Stage, Attempt
<1>2. RetryOK(t) /\ GivenUpOK(t)
  BY DEF RetryInv
<1>3. UNCHANGED conductorVars /\ labels' = labels
  BY DEF Poll, ReadLabels, inventoryVars
<1>4. stage' = stage /\ attempt' = attempt /\ addResult' = addResult
  BY <1>3 DEF conductorVars
<1>5. GivenUpOK(t)'
  BY <1>2, <1>4, HopelessStays
<1>6. CASE Poll(t)
  <2>1. stage[t] \in Stage /\ Jumps(t, stage[t], attempt[t], "polled")
    BY <1>6 DEF Poll, Jumps
  <2>2. /\ thread'[t][stage[t]][attempt[t]].pc = "polled"
        /\ \A u \in Task, x \in Stage, b \in Attempt :
             ~(u = t /\ x = stage[t] /\ b = attempt[t]) => thread'[u][x][b] = thread[u][x][b]
    BY <1>1, <2>1, PcUpdate
  <2>3. MovesOnly(t)
    BY <1>1, <1>4, <2>2 DEF MovesOnly, Add
  <2>4. RetryOK(t)'
    <3>1. CASE stage[t] # "add"
      BY <1>4, <3>1 DEF RetryOK
    <3>2. CASE stage[t] = "add"
      <4>1. Add(t, attempt[t])'.pc = "polled"
        BY <1>4, <2>2, <3>2 DEF Add
      <4>2. \A b \in Attempt : b > attempt'[t] => Add(t, b)'.pc = "idle"
        BY <1>1, <1>2, <1>4, <2>2, <3>2 DEF Add, RetryOK
      <4>3. Hopeless(t)' \/ attempt'[t] <= Created(t, labels)'
        <5>1. Created(t, labels)' = Created(t, labels)
          BY <1>3 DEF Created, Grows
        <5> QED
          BY <1>2, <1>4, <3>2, <5>1, HopelessStays DEF RetryOK
      <4> QED
        BY <4>1, <4>2, <4>3 DEF RetryOK
    <3> QED
      BY <3>1, <3>2
  <2> QED
    BY <1>5, <2>3, <2>4
<1>7. ASSUME NEW a \in Attempt, ReadLabels(t, a) PROVE MovesOnly(t) /\ RetryOK(t)'
  <2> DEFINE w == [pc |-> "adding", label_id |-> labels]
  <2>1. Becomes(t, "add", a, w) /\ w \in Thread /\ Add(t, a).pc = "polled"
    BY <1>7 DEF ReadLabels, Becomes, Thread, IInv, TypeOK
  <2>2. w.pc = "adding" /\ w.label_id = labels
    OBVIOUS
  <2> HIDE DEF w
  <2>3. /\ thread'[t]["add"][a] = w
        /\ \A u \in Task, x \in Stage, b \in Attempt :
             ~(u = t /\ x = "add" /\ b = a) => thread'[u][x][b] = thread[u][x][b]
    BY <1>1, <2>1, ThreadUpdate
  <2>4. MovesOnly(t)
    BY <1>1, <1>4, <2>3 DEF MovesOnly, Add
  <2>5. RetryOK(t)'
    <3>1. CASE stage[t] # "add"
      BY <1>4, <3>1 DEF RetryOK
    <3>2. CASE stage[t] = "add"
      <4>1. Created(t, labels)' = Created(t, labels)
        BY <1>3 DEF Created, Grows
      <4>2. \A b \in Attempt : b > attempt'[t] => Add(t, b)'.pc = "idle"
        BY <1>1, <1>2, <1>4, <2>1, <2>3, <3>2 DEF Add, RetryOK
      <4>3. Hopeless(t)' \/ attempt'[t] <= Created(t, labels)'
        BY <1>2, <1>4, <3>2, <4>1, HopelessStays DEF RetryOK
      <4>4. CASE a = attempt[t]
        <5>1. Add(t, attempt[t])' = w
          BY <1>4, <2>3, <4>4 DEF Add
        <5>2. Created(t, Add(t, attempt[t]).label_id)' = Created(t, labels)'
          BY <1>3, <2>2, <5>1 DEF Created
        <5>3. labels0' \subseteq Add(t, attempt[t])'.label_id
          BY <2>2, <5>1 DEF RetryInv
        <5> QED
          BY <2>2, <4>2, <4>3, <5>1, <5>2, <5>3 DEF RetryOK
      <4>5. CASE a # attempt[t]
        <5>1. Add(t, attempt[t])' = Add(t, attempt[t])
          BY <1>1, <1>4, <2>3, <4>5 DEF Add
        <5>2. Created(t, Add(t, attempt[t]).label_id)' =
                Created(t, Add(t, attempt[t]).label_id)
          BY <5>1 DEF Created, Grows
        <5> QED
          BY <1>2, <1>4, <3>2, <4>2, <4>3, <5>1, <5>2, HopelessStays DEF RetryOK
      <4> QED
        BY <4>4, <4>5
    <3> QED
      BY <3>1, <3>2
  <2> QED
    BY <2>4, <2>5
<1> QED
  BY <1>5, <1>6, <1>7

\* Every step of a run keeps what holds of the run.
LEMMA RunRetryStep ==
  ASSUME IInv, RetryInv, Grows, labels0' = labels0, faults = 0, faults' = 0, NEW t \in Task,
         \/ Poll(t) \/ Timeout(t)
         \/ \E a \in Attempt : ThreadStep(t, a) \/ AddRaises(t, a) \/ InstallRaises(t, a)
  PROVE  MovesOnly(t) /\ RetryOK(t)' /\ GivenUpOK(t)'
<1>1. "add" \in Stage /\ "install" \in Stage /\ TypeOK /\ RetryOK(t) /\ GivenUpOK(t)
  BY DEF IInv, Stage, RetryInv
<1>2. CASE Timeout(t)
  <2>1. /\ stage[t] \in Stage /\ FailAttempt(t) /\ thread' = thread
        /\ thread[t][stage[t]][attempt[t]].pc = "ended"
    BY <1>2 DEF Timeout
  <2>2. stage[t] = "install"
    BY <1>1, <2>1 DEF Stage, RetryOK, Add
  <2>3. MovesOnly(t) /\ stage'[t] # "add" /\ addResult'[t] = addResult[t]
    BY <1>1, <2>1, <2>2 DEF MovesOnly, FailAttempt, EndTask, TypeOK, Add
  <2>4. RetryOK(t)'
    BY <2>3 DEF RetryOK
  <2> QED
    BY <1>1, <2>3, <2>4, HopelessStays
<1>3. ASSUME NEW a \in Attempt, FindDevice(t, a), device[input[t].name] # Absent
      PROVE  MovesOnly(t) /\ RetryOK(t)' /\ GivenUpOK(t)'
  <2>1. Jumps(t, "install", a, "installing") /\ UNCHANGED conductorVars
    BY <1>3 DEF FindDevice, Jumps
  <2>2. \A u \in Task, x \in Stage, b \in Attempt :
          ~(u = t /\ x = "install" /\ b = a) => thread'[u][x][b] = thread[u][x][b]
    BY <1>1, <2>1, PcUpdate
  <2>3. \A u \in Task, b \in Attempt : Add(u, b)' = Add(u, b)
    BY <1>1, <2>2 DEF Add
  <2>4. stage' = stage /\ attempt' = attempt /\ addResult' = addResult
    BY <2>1 DEF conductorVars
  <2> QED
    BY <1>1, <2>3, <2>4, QuietRun DEF MovesOnly
<1>4. ASSUME NEW a \in Attempt,
             \/ FindDevice(t, a) /\ device[input[t].name] = Absent
             \/ InstallDevice(t, a)
      PROVE  MovesOnly(t) /\ RetryOK(t)' /\ GivenUpOK(t)'
  <2>1. PICK r \in {"completed", "failed"} : EndAttempt(t, "install", a, r)
    BY <1>4 DEF FindDevice, InstallDevice
  <2> QED
    BY <1>1, <2>1, EndOfInstall, EndMovesOnly
<1>5. \A a \in Attempt : ~AddRaises(t, a) /\ ~InstallRaises(t, a)
  BY DEF AddRaises, InstallRaises
<1>6. ASSUME NEW a \in Attempt, ThreadStep(t, a)
      PROVE  MovesOnly(t) /\ RetryOK(t)' /\ GivenUpOK(t)'
  BY <1>3, <1>4, <1>6, AddRetryStep, ReadRetryStep DEF ThreadStep
<1> QED
  BY <1>2, <1>5, <1>6, ReadRetryStep

\* The invariant on the retries is inductive.
LEMMA StepRetryInv == IInv /\ RetryInv /\ [Next]_vars => RetryInv'
<1> SUFFICES ASSUME IInv, RetryInv, [Next]_vars PROVE RetryInv'
  OBVIOUS
<1>1. Grows /\ labels0' = labels0
  BY StepGrows
<1>2. labels0' \subseteq labels'
  BY <1>1 DEF RetryInv, Grows
<1> SUFFICES ASSUME faults' = 0, NEW u \in Task PROVE RetryOK(u)' /\ GivenUpOK(u)'
  BY <1>2 DEF RetryInv
<1>3. faults = 0
  <2>1. faults \in Nat
    BY DEF IInv, TypeOK
  <2>2. faults' = faults \/ faults' = faults + 1
    BY DEF Next, vars, ProcessStep, ImportLabel, ImportDevice, StartWorkers, Restart,
           ImportRefused, Poll, Timeout, ThreadStep, BlacklistRaises, ReadLabels, CreateLabel,
           AddDevice, FindDevice, InstallDevice, AddRaises, InstallRaises
  <2> QED
    BY <2>1, <2>2
<1>4. RetryOK(u) /\ GivenUpOK(u)
  BY <1>3 DEF RetryInv
<1>5. CASE UNCHANGED <<thread, stage, attempt, addResult>>
  BY <1>1, <1>4, <1>5, QuietRun DEF Add
<1>6. ASSUME NEW t \in Task,
             \/ Poll(t) \/ Timeout(t)
             \/ \E a \in Attempt : ThreadStep(t, a) \/ AddRaises(t, a) \/ InstallRaises(t, a)
      PROVE  RetryOK(u)' /\ GivenUpOK(u)'
  <2>1. MovesOnly(t) /\ RetryOK(t)' /\ GivenUpOK(t)'
    BY <1>1, <1>3, <1>6, RunRetryStep
  <2>2. CASE u # t
    BY <1>1, <1>4, <2>1, <2>2, QuietRun DEF MovesOnly
  <2> QED
    BY <2>1, <2>2
<1>7. ~Restart
  BY <1>3 DEF Restart
<1> QED
  BY <1>5, <1>6, <1>7
  DEF Next, vars, ProcessStep, ImportLabel, ImportDevice, StartWorkers, ImportRefused,
      conductorVars

\* Without faults a device is not added only for a cause that no retry could
\* remedy, or when more labels had to be created than there are retries: each
\* failed attempt leaves one label less, whichever run created it.
THEOREM SpecRetriesSuffice == Spec => []RetriesSuffice
<1>1. Init => RetryInv
  <2> SUFFICES ASSUME Init PROVE RetryInv
    OBVIOUS
  <2>1. "add" \in Stage /\ 0 \in Attempt /\ labels0 = labels
    BY AddAssumption DEF Init, Stage, Attempt
  <2>2. \A t \in Task, a \in Attempt : Add(t, a).pc = "idle"
    BY <2>1 DEF Init, Add, Idle
  <2>3. ASSUME NEW t \in Task PROVE RetryOK(t) /\ GivenUpOK(t)
    <3>1. attempt[t] = 0 /\ addResult[t] = "none"
      BY DEF Init
    <3>2. Created(t, labels) \in Nat
      BY InitIInv, CreatedGrows DEF IInv
    <3> QED
      BY <2>1, <2>2, <3>1, <3>2 DEF RetryOK, GivenUpOK
  <2> QED
    BY <2>1, <2>3 DEF RetryInv
<1>2. RetryInv => RetriesSuffice
  BY DEF RetryInv, GivenUpOK, Hopeless, RetriesSuffice
<1> QED
  BY <1>1, <1>2, StepRetryInv, SpecIInv, PTL DEF Spec
=============================================================================
