---------------------------- MODULE LoopbackProofs ----------------------------
(* Safety of LoopbackProvisioning, for any number of runs, devices, addresses *)
(* and faults.  The inductive invariant says what the shared configuration    *)
(* holds for each job: nothing stale once its device was reset (Clean), its   *)
(* loopback from the write on (Held), and, completed, also on the network     *)
(* (OnNet), unless another run meddled with it.                               *)
EXTENDS LoopbackProvisioning, TLAPS

-----------------------------------------------------------------------------
(* The inductive invariant *)

\* A run has no jobs before it forks.
Unstarted ==
  \A r \in Run, d \in Device : stage[r] \in {"idle", "list"} => job[r][d] = NoJob

BeforeClaim == {"none", "sync", "replace", "query", "claim"}

\* The jobs of a run are about its devices; only jobs that provide an address do
\* more than write, and have one, once they claimed it.
Kinds ==
  \A r \in Run, d \in Device :
    /\ job[r][d].at # "none" => d \in input[r].devices
    /\ job[r][d].at \in Active \ {"write"} => Provides(r)
    /\ job[r][d].address # None => Provides(r)
    /\ job[r][d].at \in BeforeClaim => job[r][d].address = None
    /\ job[r][d].at \in Active => job[r][d].attempts <= ClaimRetries

\* Whoever is about to write an address has one.
HasAddress ==
  \A r \in Run, d \in Device :
    Provides(r) /\ job[r][d].at \in {"write", "commit", "COMPLETED"}
      => job[r][d].address \in Address

\* Every address that left the pool was lost or is some job's.
Claimed ==
  \A a \in Address \ free :
    a \in lost \/ \E r \in Run, d \in Device : job[r][d].address = a

\* From the reset of its device on, what waits there for a commit is a job's own
\* loopback, or was written by others since.
Clean ==
  \A r \in Run, d \in Device, l \in Loopback :
    Provides(r) /\ job[r][d].at \in AfterReset /\ config[d][l] # network[d][l]
      => l = input[r].loopback \/ l \in fresh[r][d]

\* From its write on, the configuration holds what a job wrote.
Held ==
  \A r \in Run, d \in Device :
    job[r][d].at \in {"commit", "COMPLETED"} /\ <<r, d>> \notin overwritten
      => config[d][input[r].loopback] = Written(r, d)

\* A job that has committed is on the network.
OnNet ==
  \A r \in Run, d \in Device :
    Provides(r) /\ job[r][d].at = "COMPLETED" /\ <<r, d>> \notin overwritten
      => network[d][input[r].loopback] = Written(r, d)

Ledger == Unstarted /\ Kinds /\ HasAddress /\ Claimed
Stores == Clean /\ Held /\ OnNet
IInv   == TypeOK /\ Ledger /\ Stores

-----------------------------------------------------------------------------
(* How a job moves *)

\* The input of a run that was started.
LEMMA InputTyped ==
  ASSUME TypeOK, NEW r \in Run, stage[r] # "idle"
  PROVE  input[r] \in Input /\ input[r] \in InputType /\ input[r].loopback \in Loopback
BY InputAssumption DEF TypeOK, InputType

\* The start: nothing has been written or claimed.
LEMMA InitIInv == Init => IInv
<1> SUFFICES ASSUME Init PROVE IInv
  OBVIOUS
<1> USE DEF Init
<1>1. TypeOK
  BY BoundAssumption DEF TypeOK, Contents, Stages, Job, NoJob, Positions, Active
<1>2. Unstarted
  BY DEF Unstarted
<1>3. \A r \in Run, d \in Device : job[r][d] = NoJob
  OBVIOUS
<1>4. Kinds /\ HasAddress /\ Claimed
  BY <1>3, BoundAssumption DEF Kinds, HasAddress, Claimed, NoJob, Active, BeforeClaim
<1>5. Clean /\ Held /\ OnNet
  BY <1>3 DEF Clean, Held, OnNet, NoJob, AfterReset
<1> QED
  BY <1>1, <1>2, <1>4, <1>5 DEF IInv, Ledger, Stores

\* A step of a job that changes its position and no more.
LEMMA GoToMoves ==
  ASSUME TypeOK, NEW r \in Run, NEW d \in Device, NEW at \in Positions, GoTo(r, d, at)
  PROVE  /\ job' \in [Run -> [Device -> Job]]
         /\ job'[r][d].at = at
         /\ \A u \in Run, e \in Device : job'[u][e].address = job[u][e].address
                                        /\ job'[u][e].attempts = job[u][e].attempts
         /\ \A u \in Run, e \in Device : u # r \/ e # d => job'[u][e] = job[u][e]
<1> DEFINE new == [job[r][d] EXCEPT !.at = at]
<1>1. job \in [Run -> [Device -> Job]] /\ job[r] \in [Device -> Job] /\ job[r][d] \in Job
  BY DEF TypeOK
<1>2. new \in Job /\ new.at = at /\ new.address = job[r][d].address
      /\ new.attempts = job[r][d].attempts
  BY <1>1 DEF Job
<1>3. job' = [job EXCEPT ![r] = [job[r] EXCEPT ![d] = new]]
  BY <1>1 DEF GoTo
<1> HIDE DEF new
<1>4. [job[r] EXCEPT ![d] = new] \in [Device -> Job]
  BY <1>1, <1>2
<1>5. job' \in [Run -> [Device -> Job]]
  BY <1>1, <1>3, <1>4
<1>6. job'[r][d] = new /\ \A u \in Run, e \in Device : u # r \/ e # d => job'[u][e] = job[u][e]
  BY <1>1, <1>3
<1> QED
  BY <1>2, <1>5, <1>6

\* Where the tasks of a job lead.
LEMMA NextTasks ==
  ASSUME NEW r, NEW at \in Active
  PROVE  /\ NextTask(r, at) \in Positions
         /\ at = "sync" => NextTask(r, at) = "replace"
         /\ at = "replace" => NextTask(r, at) = "query"
         /\ at = "query" => NextTask(r, at) = "claim"
         /\ at = "claim" => NextTask(r, at) = "write"
         /\ at = "write" /\ Provides(r) => NextTask(r, at) = "commit"
         /\ at = "write" /\ ~Provides(r) => NextTask(r, at) = "COMPLETED"
         /\ at = "commit" => NextTask(r, at) = "COMPLETED"
BY DEF NextTask, Active, Positions

\* A call that did its work leaves the job there, moves it on or fails it.
LEMMA Outcomes ==
  ASSUME TypeOK, NEW r \in Run, NEW d \in Device, Outcome(r, d)
  PROVE  /\ faults' \in 0..MaxFaults
         /\ \E at \in {job[r][d].at, NextTask(r, job[r][d].at), "FAILED"} : GoTo(r, d, at)
BY BoundAssumption DEF TypeOK, Outcome, Fault

\* Moving a job keeps the ledger when it moves to where it may be.
LEMMA GoToLedger ==
  ASSUME TypeOK, Ledger, NEW r \in Run, NEW d \in Device, NEW at \in Positions,
         GoTo(r, d, at), stage[r] = "fork", job[r][d].at # "none",
         at \in Active \ {"write"} => Provides(r),
         at \in BeforeClaim => job[r][d].address = None,
         at \in Active => job[r][d].at \in Active,
         Provides(r) /\ at \in {"write", "commit", "COMPLETED"}
           => job[r][d].address \in Address,
         UNCHANGED <<free, input, stage, lost>>
  PROVE  Ledger'
<1> /\ job'[r][d].at = at
    /\ \A u \in Run, e \in Device : job'[u][e].address = job[u][e].address
                                   /\ job'[u][e].attempts = job[u][e].attempts
    /\ \A u \in Run, e \in Device : u # r \/ e # d => job'[u][e] = job[u][e]
  BY GoToMoves
<1> USE DEF Ledger
<1>1. Unstarted'
  BY DEF Unstarted
<1>2. Kinds'
  BY DEF Kinds, Provides
<1>3. HasAddress'
  BY DEF HasAddress, Provides
<1>4. Claimed'
  BY DEF Claimed
<1> QED
  BY <1>1, <1>2, <1>3, <1>4

\* A call that did its work keeps the ledger, whatever becomes of its answer.
LEMMA OutcomeMoves ==
  ASSUME TypeOK, Ledger, NEW r \in Run, NEW d \in Device, stage[r] = "fork",
         job[r][d].at \in Active \ {"claim"}, Outcome(r, d),
         UNCHANGED <<free, input, stage, lost>>
  PROVE  /\ Ledger'
         /\ job' \in [Run -> [Device -> Job]] /\ faults' \in 0..MaxFaults
         /\ job'[r][d].at \in {job[r][d].at, NextTask(r, job[r][d].at), "FAILED"}
         /\ job'[r][d].address = job[r][d].address
         /\ \A u \in Run, e \in Device : u # r \/ e # d => job'[u][e] = job[u][e]
<1>1. PICK at \in {job[r][d].at, NextTask(r, job[r][d].at), "FAILED"} : GoTo(r, d, at)
  BY Outcomes
<1>2. job[r][d].at \in Active /\ job[r][d].at # "none"
  BY DEF Active
<1>3. at \in Positions
  BY <1>1, <1>2, NextTasks DEF Positions
<1>4. job[r][d].at # "write" => Provides(r)
  BY <1>2 DEF Ledger, Kinds
<1>5. at \in Active \ {"write"} => Provides(r)
  BY <1>1, <1>2, <1>4, NextTasks DEF Active
<1>6. Provides(r) /\ at \in {"write", "commit", "COMPLETED"} => job[r][d].address \in Address
  BY <1>1, <1>2, NextTasks DEF Ledger, HasAddress, Active
<1>7. at \in BeforeClaim => job[r][d].address = None
  BY <1>1, <1>2, <1>4, NextTasks DEF Ledger, Kinds, BeforeClaim, Active
<1>8. Ledger'
  BY <1>1, <1>2, <1>3, <1>5, <1>6, <1>7, GoToLedger
<1>9. faults' \in 0..MaxFaults
  BY Outcomes
<1> QED
  BY <1>1, <1>3, <1>8, <1>9, GoToMoves

\* Steps that leave both stores and their history alone, and bring no job to
\* where the stores owe it something, keep what the stores hold for the jobs.
LEMMA StoresKept ==
  ASSUME Stores, UNCHANGED <<config, network, overwritten, fresh>>,
         \A u \in Run, e \in Device :
           \/ job'[u][e].at \notin AfterReset \cup {"COMPLETED"}
           \/ job'[u][e].at = "write" /\ ~Provides(u)'
           \/ input'[u] = input[u] /\ job'[u][e] = job[u][e]
           \/ /\ input'[u] = input[u] /\ job[u][e].at \in AfterReset
              /\ job'[u][e].at \in {"query", "claim", "write"}
  PROVE  Stores'
<1> USE DEF Stores, AfterReset
<1>1. Clean'
  BY DEF Clean, Provides
<1>2. Held'
  BY DEF Held, Written, Provides
<1>3. OnNet'
  BY DEF OnNet, Written, Provides
<1> QED
  BY <1>1, <1>2, <1>3

-----------------------------------------------------------------------------
(* The steps of a job *)

\* Sync and query leave the configuration alone.
LEMMA QuietStep ==
  ASSUME IInv, NEW r \in Run, NEW d \in Device, stage[r] = "fork",
         Sync(r, d) \/ Query(r, d)
  PROVE  IInv'
<1> USE DEF IInv
<1>1. job[r][d].at \in {"sync", "query"} /\ Outcome(r, d)
      /\ UNCHANGED <<shared, input, stage, lost, overwritten, fresh>>
  BY DEF Sync, Query
<1>2. /\ Ledger'
      /\ job' \in [Run -> [Device -> Job]] /\ faults' \in 0..MaxFaults
      /\ job'[r][d].at \in {job[r][d].at, NextTask(r, job[r][d].at), "FAILED"}
      /\ \A u \in Run, e \in Device : u # r \/ e # d => job'[u][e] = job[u][e]
  BY <1>1, OutcomeMoves DEF Active, shared
<1>3. TypeOK'
  BY <1>1, <1>2 DEF TypeOK, shared
<1>4. \/ job'[r][d].at \notin AfterReset \cup {"COMPLETED"}
      \/ job[r][d].at \in AfterReset /\ job'[r][d].at \in {"query", "claim", "write"}
  BY <1>1, <1>2, NextTasks DEF Active, AfterReset
<1>5. Stores'
  BY <1>1, <1>2, <1>4, StoresKept DEF shared
<1> QED
  BY <1>2, <1>3, <1>5

\* A job that is refused fails, and changes nothing.
LEMMA TaskRefusedStep ==
  ASSUME IInv, NEW r \in Run, NEW d \in Device, stage[r] = "fork", TaskRefused(r, d)
  PROVE  IInv'
<1> USE DEF IInv
<1>1. job[r][d].at \in Active /\ GoTo(r, d, "FAILED")
      /\ UNCHANGED <<shared, input, stage, lost, overwritten, fresh>>
  BY DEF TaskRefused
<1>2. faults' \in 0..MaxFaults
  BY BoundAssumption DEF TaskRefused, Fault, TypeOK
<1>3. "FAILED" \in Positions /\ "FAILED" \notin Active /\ job[r][d].at # "none"
  BY <1>1 DEF Positions, Active
<1>4. Ledger'
  BY <1>1, <1>3, GoToLedger DEF shared, BeforeClaim
<1>5. /\ job' \in [Run -> [Device -> Job]] /\ job'[r][d].at = "FAILED"
      /\ \A u \in Run, e \in Device : u # r \/ e # d => job'[u][e] = job[u][e]
  BY <1>1, <1>3, GoToMoves
<1>6. TypeOK'
  BY <1>1, <1>2, <1>5 DEF TypeOK, shared
<1>7. Stores'
  BY <1>1, <1>5, StoresKept DEF shared, AfterReset
<1> QED
  BY <1>4, <1>6, <1>7

\* The reset of a device: its configuration is what it runs, and jobs whose
\* loopback was waiting there are overwritten.
LEMMA ReplaceStep ==
  ASSUME IInv, NEW r \in Run, NEW d \in Device, stage[r] = "fork", Replace(r, d)
  PROVE  IInv'
<1> USE DEF IInv
<1>1. job[r][d].at = "replace" /\ Outcome(r, d)
      /\ UNCHANGED <<network, free, input, stage, lost, fresh>>
      /\ config' = [config EXCEPT ![d] = network[d]]
  BY DEF Replace
<1>2. /\ Ledger'
      /\ job' \in [Run -> [Device -> Job]] /\ faults' \in 0..MaxFaults
      /\ job'[r][d].at \in {job[r][d].at, NextTask(r, job[r][d].at), "FAILED"}
      /\ \A u \in Run, e \in Device : u # r \/ e # d => job'[u][e] = job[u][e]
  BY <1>1, OutcomeMoves DEF Active
<1>3. job'[r][d].at \notin {"commit", "COMPLETED"}
  BY <1>1, <1>2, NextTasks DEF Active
<1>4. overwritten \subseteq overwritten' /\ overwritten' \subseteq Run \X Device
  BY DEF Replace, TypeOK
<1>5. \A u \in Run : u # r /\ job[u][d].at \in {"commit", "COMPLETED"}
        /\ config[d][input[u].loopback] # network[d][input[u].loopback]
        => <<u, d>> \in overwritten'
  <2> SUFFICES ASSUME NEW u \in Run, u # r, job[u][d].at \in {"commit", "COMPLETED"},
                      config[d][input[u].loopback] # network[d][input[u].loopback]
               PROVE  <<u, d>> \in overwritten'
    OBVIOUS
  <2>1. stage[u] # "idle"
    BY DEF Ledger, Unstarted, NoJob
  <2>2. input[u].loopback \in Loopback
    BY <2>1, InputTyped
  <2> QED
    BY <2>2 DEF Replace, Past
<1>6. config' \in [Device -> [Loopback -> Contents]] /\ config'[d] = network[d]
      /\ \A e \in Device \ {d} : config'[e] = config[e]
  BY <1>1 DEF TypeOK
<1>7. TypeOK'
  BY <1>1, <1>2, <1>4, <1>6 DEF TypeOK
<1>8. Clean'
  BY <1>1, <1>2, <1>6 DEF Stores, Clean, Provides
<1>9. Held'
  <2> SUFFICES ASSUME NEW u \in Run, NEW e \in Device, job'[u][e].at \in {"commit", "COMPLETED"},
                      <<u, e>> \notin overwritten'
               PROVE  config'[e][input[u].loopback] = Written(u, e)'
    BY <1>1 DEF Held
  <2>1. job'[u][e] = job[u][e] /\ (u # r \/ e # d)
    BY <1>2, <1>3
  <2>2. config[e][input[u].loopback] = Written(u, e)
    BY <2>1, <1>4 DEF Stores, Held
  <2>3. Written(u, e)' = Written(u, e)
    BY <1>1, <2>1 DEF Written, Provides
  <2>4. config'[e][input[u].loopback] = config[e][input[u].loopback]
    BY <1>3, <1>5, <1>6, <2>1
  <2> QED
    BY <2>2, <2>3, <2>4
<1>10. OnNet'
  BY <1>1, <1>2, <1>3, <1>4 DEF Stores, OnNet, Written, Provides
<1> QED
  BY <1>2, <1>7, <1>8, <1>9, <1>10 DEF Stores

\* A claim that failed leaves the job to claim again, or fails it.
LEMMA FailClaimMoves ==
  ASSUME IInv, NEW r \in Run, NEW d \in Device, job[r][d].at = "claim", FailClaim(r, d)
  PROVE  /\ job' \in [Run -> [Device -> Job]]
         /\ job'[r][d].at \in {"claim", "FAILED"} /\ job'[r][d].address = None
         /\ job'[r][d].at = "claim" => job'[r][d].attempts <= ClaimRetries
         /\ \A u \in Run, e \in Device : u # r \/ e # d => job'[u][e] = job[u][e]
<1> DEFINE tried == job[r][d].attempts
           new == [at |-> IF tried < ClaimRetries THEN "claim" ELSE "FAILED",
                   address |-> None, attempts |-> tried + 1]
<1>1. job \in [Run -> [Device -> Job]] /\ job[r] \in [Device -> Job] /\ job[r][d] \in Job
  BY DEF IInv, TypeOK
<1>2. tried \in Nat /\ tried <= ClaimRetries /\ ClaimRetries \in Nat
  BY <1>1, BoundAssumption DEF IInv, Ledger, Kinds, Active, Job
<1>3. new \in Job /\ new.at \in {"claim", "FAILED"} /\ new.address = None
      /\ (new.at = "claim" => new.attempts <= ClaimRetries)
  BY <1>2 DEF Job, Positions, Active
<1>4. job' = [job EXCEPT ![r] = [job[r] EXCEPT ![d] = new]]
  BY <1>1 DEF FailClaim
<1> HIDE DEF new
<1>5. [job[r] EXCEPT ![d] = new] \in [Device -> Job]
  BY <1>1, <1>3
<1>6. job' \in [Run -> [Device -> Job]]
  BY <1>1, <1>4, <1>5
<1>7. job'[r][d] = new /\ \A u \in Run, e \in Device : u # r \/ e # d => job'[u][e] = job[u][e]
  BY <1>1, <1>4
<1> QED
  BY <1>3, <1>6, <1>7

\* A claim that was answered gives the job its address.
LEMMA ClaimMoves ==
  ASSUME IInv, NEW r \in Run, NEW d \in Device, job[r][d].at = "claim", NEW a \in Address,
         job' = [job EXCEPT ![r][d] = [@ EXCEPT !.at = NextTask(r, "claim"), !.address = a]]
  PROVE  /\ job' \in [Run -> [Device -> Job]]
         /\ job'[r][d].at = "write" /\ job'[r][d].address = a
         /\ job'[r][d].attempts <= ClaimRetries
         /\ \A u \in Run, e \in Device : u # r \/ e # d => job'[u][e] = job[u][e]
<1> DEFINE new == [[job[r][d] EXCEPT !.at = "write"] EXCEPT !.address = a]
<1>1. job \in [Run -> [Device -> Job]] /\ job[r] \in [Device -> Job] /\ job[r][d] \in Job
  BY DEF IInv, TypeOK
<1>2. job[r][d].attempts <= ClaimRetries /\ NextTask(r, "claim") = "write"
  BY NextTasks DEF IInv, Ledger, Kinds, Active
<1>3. new \in Job /\ new.at = "write" /\ new.address = a /\ new.attempts = job[r][d].attempts
  BY <1>1 DEF Job, Positions, Active
<1>4. job' = [job EXCEPT ![r] = [job[r] EXCEPT ![d] = new]]
  BY <1>1, <1>2
<1> HIDE DEF new
<1>5. [job[r] EXCEPT ![d] = new] \in [Device -> Job]
  BY <1>1, <1>3
<1>6. job' \in [Run -> [Device -> Job]]
  BY <1>1, <1>4, <1>5
<1>7. job'[r][d] = new /\ \A u \in Run, e \in Device : u # r \/ e # d => job'[u][e] = job[u][e]
  BY <1>1, <1>4
<1> QED
  BY <1>2, <1>3, <1>6, <1>7

\* Claiming an address: the pool loses it to the job, or to an answer that is
\* lost.  That the job held no address before is why none gets forgotten.
LEMMA ClaimStep ==
  ASSUME IInv, NEW r \in Run, NEW d \in Device, stage[r] = "fork",
         Claim(r, d) \/ ClaimRefused(r, d)
  PROVE  IInv'
<1> USE DEF IInv
<1>1. job[r][d].at = "claim" /\ Provides(r) /\ d \in input[r].devices /\ job[r][d].address = None
      /\ UNCHANGED <<config, network, input, stage, overwritten, fresh>>
  BY DEF Claim, ClaimRefused, shared, Ledger, Kinds, Active, BeforeClaim
<1>2. /\ job' \in [Run -> [Device -> Job]]
      /\ job'[r][d].at \in {"claim", "FAILED", "write"}
      /\ job'[r][d].at = "write" => job'[r][d].address \in Address
      /\ job'[r][d].at # "write" => job'[r][d].address = None
      /\ job'[r][d].at # "FAILED" => job'[r][d].attempts <= ClaimRetries
      /\ \A u \in Run, e \in Device : u # r \/ e # d => job'[u][e] = job[u][e]
  <2>1. CASE FailClaim(r, d)
    BY <1>1, <2>1, FailClaimMoves
  <2>2. ASSUME NEW a \in free,
               job' = [job EXCEPT ![r][d] = [@ EXCEPT !.at = NextTask(r, "claim"), !.address = a]]
        PROVE  <1>2!1 /\ <1>2!2 /\ <1>2!3 /\ <1>2!4 /\ <1>2!5 /\ <1>2!6
    <3>1. a \in Address
      BY DEF TypeOK
    <3> QED
      BY <1>1, <2>2, <3>1, ClaimMoves
  <2> QED
    BY <2>1, <2>2 DEF Claim, ClaimRefused
<1>3. free' \subseteq Address /\ lost' \subseteq Address /\ faults' \in 0..MaxFaults
  <2>1. free' \subseteq Address /\ lost' \subseteq Address
    BY DEF Claim, ClaimRefused, shared, TypeOK
  <2>2. UNCHANGED faults \/ Fault
    BY DEF Claim, ClaimRefused
  <2> QED
    BY <2>1, <2>2, BoundAssumption DEF TypeOK, Fault
<1>4. TypeOK'
  BY <1>1, <1>2, <1>3 DEF TypeOK
<1>5. Unstarted'
  BY <1>1, <1>2 DEF Ledger, Unstarted
<1>6. Kinds'
  BY <1>1, <1>2 DEF Ledger, Kinds, Provides, Active, BeforeClaim
<1>7. HasAddress'
  BY <1>1, <1>2 DEF Ledger, HasAddress, Provides
<1>8. Claimed'
  <2> SUFFICES ASSUME NEW a \in Address, a \notin free', a \notin lost'
               PROVE  \E u \in Run, e \in Device : job'[u][e].address = a
    BY DEF Claimed
  <2>1. CASE a \in free
    <3>1. job' = [job EXCEPT ![r][d] = [@ EXCEPT !.at = NextTask(r, "claim"), !.address = a]]
      BY <2>1 DEF Claim, ClaimRefused, shared
    <3>2. job'[r][d].address = a
      BY <1>1, <3>1, ClaimMoves
    <3> QED
      BY <3>2
  <2>2. CASE a \notin free
    <3>1. lost \subseteq lost'
      BY DEF Claim, ClaimRefused
    <3>2. PICK u \in Run, e \in Device : job[u][e].address = a
      BY <2>2, <3>1 DEF Ledger, Claimed
    <3>3. u # r \/ e # d
      BY <3>2, <1>1, NoneAssumption
    <3> QED
      BY <3>2, <3>3, <1>2
  <2> QED
    BY <2>1, <2>2
<1>9. Stores'
  BY <1>1, <1>2, StoresKept DEF AfterReset
<1> QED
  BY <1>4, <1>5, <1>6, <1>7, <1>8, <1>9 DEF Ledger

\* The write: the configuration holds the loopback of the job, and whoever else
\* had written that loopback is overwritten.
LEMMA WriteStep ==
  ASSUME IInv, NEW r \in Run, NEW d \in Device, stage[r] = "fork", Write(r, d)
  PROVE  IInv'
<1> USE DEF IInv
<1> DEFINE l == input[r].loopback
<1>1. job[r][d].at = "write" /\ Outcome(r, d)
      /\ UNCHANGED <<network, free, input, stage, lost>>
      /\ config' = [config EXCEPT ![d][l] = Written(r, d)]
  BY DEF Write
<1>2. /\ Ledger'
      /\ job' \in [Run -> [Device -> Job]] /\ faults' \in 0..MaxFaults
      /\ job'[r][d].at \in {"write", NextTask(r, "write"), "FAILED"}
      /\ job'[r][d].address = job[r][d].address
      /\ \A u \in Run, e \in Device : u # r \/ e # d => job'[u][e] = job[u][e]
  BY <1>1, OutcomeMoves DEF Active
<1>3. l \in Loopback /\ Written(r, d) \in Contents
  BY <1>1, InputTyped DEF Written, Contents, Ledger, HasAddress
<1>4. overwritten' \subseteq Run \X Device
      /\ \A u \in Run, e \in Device :
           /\ <<u, e>> \notin overwritten' /\ (u # r \/ e # d) => <<u, e>> \notin overwritten
           /\ u # r /\ job[u][d].at \in {"commit", "COMPLETED"} /\ input[u].loopback = l
                => <<u, d>> \in overwritten'
  BY DEF Write, TypeOK, Past
<1>5. fresh' = [u \in Run |-> [e \in Device |->
                  IF u # r /\ e = d /\ job[u][e].at \in AfterReset
                  THEN fresh[u][e] \cup {l} ELSE fresh[u][e]]]
  BY DEF Write
<1>6. fresh' \in [Run -> [Device -> SUBSET Loopback]]
  BY <1>3, <1>5 DEF TypeOK
<1>7. /\ config' \in [Device -> [Loopback -> Contents]] /\ config'[d][l] = Written(r, d)
      /\ \A e \in Device, k \in Loopback : e # d \/ k # l => config'[e][k] = config[e][k]
  BY <1>1, <1>3 DEF TypeOK
<1> HIDE DEF l
<1>8. TypeOK'
  BY <1>1, <1>2, <1>4, <1>6, <1>7 DEF TypeOK
<1>9. Written(r, d)' = Written(r, d)
  BY <1>1, <1>2 DEF Written, Provides
<1>10. Clean'
  <2> SUFFICES ASSUME NEW u \in Run, NEW e \in Device, NEW k \in Loopback,
                      Provides(u), job'[u][e].at \in AfterReset,
                      config'[e][k] # network[e][k]
               PROVE  k = input[u].loopback \/ k \in fresh'[u][e]
    BY <1>1 DEF Clean, Provides
  <2>1. job[u][e].at \in AfterReset
    BY <1>1, <1>2 DEF AfterReset
  <2>2. CASE e = d /\ k = l
    BY <2>1, <2>2, <1>5 DEF l
  <2>3. CASE e # d \/ k # l
    <3>1. config[e][k] # network[e][k]
      BY <1>7, <2>3
    <3>2. k = input[u].loopback \/ k \in fresh[u][e]
      BY <3>1, <2>1 DEF Stores, Clean
    <3> QED
      BY <3>2, <1>5
  <2> QED
    BY <2>2, <2>3
<1>11. Held'
  <2> SUFFICES ASSUME NEW u \in Run, NEW e \in Device, job'[u][e].at \in {"commit", "COMPLETED"},
                      <<u, e>> \notin overwritten'
               PROVE  config'[e][input[u].loopback] = Written(u, e)'
    BY <1>1 DEF Held
  <2>1. CASE u = r /\ e = d
    BY <2>1, <1>7, <1>9 DEF l
  <2>2. CASE u # r \/ e # d
    <3>1. job'[u][e] = job[u][e]
      BY <1>2, <2>2
    <3>2. config[e][input[u].loopback] = Written(u, e)
      BY <3>1, <2>2, <1>4 DEF Stores, Held
    <3>3. Written(u, e)' = Written(u, e)
      BY <1>1, <3>1 DEF Written, Provides
    <3>4. stage[u] # "idle"
      BY <3>1 DEF Ledger, Unstarted, NoJob
    <3>5. input[u].loopback \in Loopback
      BY <3>4, InputTyped
    <3>6. e # d \/ input[u].loopback # l
      BY <2>2, <3>1, <1>4
    <3> QED
      BY <3>2, <3>3, <3>5, <3>6, <1>7
  <2> QED
    BY <2>1, <2>2
<1>12. OnNet'
  <2> SUFFICES ASSUME NEW u \in Run, NEW e \in Device, Provides(u),
                      job'[u][e].at = "COMPLETED", <<u, e>> \notin overwritten'
               PROVE  network[e][input[u].loopback] = Written(u, e)'
    BY <1>1 DEF OnNet, Provides
  <2>1. u # r \/ e # d
    BY <1>2, NextTasks DEF Active
  <2>2. job'[u][e] = job[u][e] /\ <<u, e>> \notin overwritten
    BY <2>1, <1>2, <1>4
  <2> QED
    BY <2>2, <1>1 DEF Stores, OnNet, Written, Provides
<1> QED
  BY <1>2, <1>8, <1>10, <1>11, <1>12 DEF Stores

\* The commit: what the configuration holds for the jobs is on the network.
LEMMA CommitStep ==
  ASSUME IInv, NEW r \in Run, NEW d \in Device, stage[r] = "fork", Commit(r, d)
  PROVE  IInv'
<1> USE DEF IInv
<1>1. job[r][d].at = "commit" /\ Outcome(r, d)
      /\ UNCHANGED <<config, free, input, stage, lost, overwritten, fresh>>
      /\ network' = [network EXCEPT ![d] = config[d]]
  BY DEF Commit
<1>2. /\ Ledger'
      /\ job' \in [Run -> [Device -> Job]] /\ faults' \in 0..MaxFaults
      /\ job'[r][d].at \in {"commit", NextTask(r, "commit"), "FAILED"}
      /\ job'[r][d].address = job[r][d].address
      /\ \A u \in Run, e \in Device : u # r \/ e # d => job'[u][e] = job[u][e]
  BY <1>1, OutcomeMoves DEF Active
<1>3. network' \in [Device -> [Loopback -> Contents]] /\ network'[d] = config[d]
      /\ \A e \in Device : e # d => network'[e] = network[e]
  BY <1>1 DEF TypeOK
<1>4. TypeOK'
  BY <1>1, <1>2, <1>3 DEF TypeOK
<1>5. \A u \in Run, e \in Device :
        /\ Written(u, e)' = Written(u, e) /\ Provides(u)' = Provides(u)
        /\ job'[u][e].at \in {"commit", "COMPLETED"} => job[u][e].at \in {"commit", "COMPLETED"}
        /\ job'[u][e].at \in AfterReset => job[u][e].at \in AfterReset
  BY <1>1, <1>2 DEF Written, Provides, AfterReset
<1>6. Clean'
  BY <1>1, <1>3, <1>5 DEF Stores, Clean
<1>7. Held'
  BY <1>1, <1>5 DEF Stores, Held
<1>8. OnNet'
  BY <1>1, <1>2, <1>3, <1>5 DEF Stores, Held, OnNet
<1> QED
  BY <1>2, <1>4, <1>6, <1>7, <1>8 DEF Stores

\* Every step of a job.
LEMMA JobStepIInv ==
  ASSUME IInv, NEW r \in Run, NEW d \in Device, JobStep(r, d)
  PROVE  IInv'
BY QuietStep, ReplaceStep, ClaimStep, WriteStep, CommitStep, TaskRefusedStep DEF JobStep

-----------------------------------------------------------------------------
(* The steps of a run *)

\* Forking begins one job for each device, and claims nothing.
LEMMA ForkStep ==
  ASSUME IInv, NEW r \in Run, NEW in \in Input, stage[r] \in {"idle", "list"},
         input' = [input EXCEPT ![r] = in], stage' = [stage EXCEPT ![r] = "fork"],
         job' = [job EXCEPT ![r] = Forked(in)],
         UNCHANGED <<shared, faults, lost, overwritten, fresh>>
  PROVE  IInv'
<1> USE DEF IInv
<1>1. in \in InputType /\ in # None
  BY InputAssumption
<1>2. /\ Forked(in) \in [Device -> Job]
      /\ \A d \in Device : /\ Forked(in)[d].at \in {"none", FirstTask(in)}
                           /\ Forked(in)[d].at # "none" => d \in in.devices
                           /\ Forked(in)[d].address = None /\ Forked(in)[d].attempts = 0
  BY <1>1, BoundAssumption DEF Forked, NoJob, Job, FirstTask, Positions, Active
<1>3. /\ job'[r] = Forked(in) /\ input'[r] = in /\ stage'[r] = "fork"
      /\ \A u \in Run \ {r} : job'[u] = job[u] /\ input'[u] = input[u] /\ stage'[u] = stage[u]
      /\ UNCHANGED <<config, network, free, faults, lost, overwritten, fresh>>
  BY DEF TypeOK, shared
<1>4. /\ in.workflow = "create_all" => FirstTask(in) = "write" /\ ~Provides(r)'
      /\ in.workflow # "create_all" => FirstTask(in) = "sync" /\ Provides(r)'
  BY <1>3 DEF FirstTask, Provides
<1>5. TypeOK'
  <2>1. job' \in [Run -> [Device -> Job]] /\ input' \in [Run -> Input \cup {None}]
        /\ stage' \in [Run -> Stages]
    BY <1>2 DEF TypeOK, Stages
  <2> QED
    BY <2>1, <1>1, <1>3 DEF TypeOK
<1>6. Unstarted'
  BY <1>3 DEF Ledger, Unstarted
<1>7. Kinds'
  <2> SUFFICES ASSUME NEW u \in Run, NEW d \in Device
               PROVE  /\ job'[u][d].at # "none" => d \in input'[u].devices
                      /\ job'[u][d].at \in Active \ {"write"} => Provides(u)'
                      /\ job'[u][d].address # None => Provides(u)'
                      /\ job'[u][d].at \in BeforeClaim => job'[u][d].address = None
                      /\ job'[u][d].at \in Active => job'[u][d].attempts <= ClaimRetries
    BY DEF Kinds
  <2>1. CASE u = r
    BY <2>1, <1>2, <1>4, <1>3, BoundAssumption DEF Active, BeforeClaim
  <2>2. CASE u # r
    BY <2>2, <1>3 DEF Ledger, Kinds, Provides
  <2> QED
    BY <2>1, <2>2
<1>8. HasAddress'
  <2> SUFFICES ASSUME NEW u \in Run, NEW d \in Device, Provides(u)',
                      job'[u][d].at \in {"write", "commit", "COMPLETED"}
               PROVE  job'[u][d].address \in Address
    BY DEF HasAddress
  <2>1. u # r
    BY <1>2, <1>4, <1>3
  <2> QED
    BY <2>1, <1>3 DEF Ledger, HasAddress, Provides
<1>9. Claimed'
  <2> SUFFICES ASSUME NEW a \in Address, a \notin free, a \notin lost
               PROVE  \E u \in Run, d \in Device : job'[u][d].address = a
    BY <1>3 DEF Claimed
  <2>1. PICK u \in Run, d \in Device : job[u][d].address = a
    BY DEF Ledger, Claimed
  <2>2. u # r
    BY <2>1, NoneAssumption DEF Ledger, Unstarted, NoJob
  <2> QED
    BY <2>1, <2>2, <1>3
<1>10. \A u \in Run, d \in Device :
         \/ job'[u][d].at \notin AfterReset \cup {"COMPLETED"}
         \/ job'[u][d].at = "write" /\ ~Provides(u)'
         \/ input'[u] = input[u] /\ job'[u][d] = job[u][d]
  BY <1>2, <1>4, <1>3 DEF AfterReset
<1>11. Stores'
  BY <1>3, <1>10, StoresKept
<1> QED
  BY <1>5, <1>6, <1>7, <1>8, <1>9, <1>11 DEF Ledger

\* A step of a run that only changes its stage, and neither to nor from where it
\* has no jobs.
LEMMA StageStep ==
  ASSUME IInv, NEW r \in Run, NEW s \in Stages \ {"idle", "list"}, stage[r] # "idle",
         stage' = [stage EXCEPT ![r] = s], faults' \in 0..MaxFaults,
         UNCHANGED <<shared, input, job, lost, overwritten, fresh>>
  PROVE  IInv'
<1> USE DEF IInv
<1>1. TypeOK'
  BY DEF TypeOK, shared
<1>2. Unstarted'
  BY DEF Ledger, Unstarted, TypeOK
<1>3. Kinds' /\ HasAddress' /\ Claimed'
  BY DEF Ledger, Kinds, HasAddress, Claimed, Provides, shared
<1>4. Stores'
  BY StoresKept DEF shared
<1> QED
  BY <1>1, <1>2, <1>3, <1>4 DEF Ledger

\* A run whose answer is the list of its devices, or that a label unknown fails.
LEMMA ListStep ==
  ASSUME IInv, NEW r \in Run, ListDevices(r)
  PROVE  IInv'
<1>1. stage[r] = "list" /\ input[r] \in Input /\ input' = [input EXCEPT ![r] = input[r]]
      /\ UNCHANGED <<shared, faults, lost, overwritten, fresh>>
  BY InputTyped DEF IInv, ListDevices, TypeOK
<1>2. CASE stage' = [stage EXCEPT ![r] = "fork"] /\ job' = [job EXCEPT ![r] = Forked(input[r])]
  BY <1>1, <1>2, ForkStep
<1>3. CASE stage' = [stage EXCEPT ![r] = "FAILED"] /\ UNCHANGED job
  <2>1. UNCHANGED input /\ faults' \in 0..MaxFaults /\ "FAILED" \in Stages \ {"idle", "list"}
    BY <1>1 DEF IInv, TypeOK, ListDevices, Stages
  <2> QED
    BY <1>1, <1>3, <2>1, StageStep
<1> QED
  BY <1>2, <1>3 DEF ListDevices

\* A run that is started.
LEMMA StartStep ==
  ASSUME IInv, NEW r \in Run, Start(r)
  PROVE  IInv'
<1>1. PICK in \in Input :
        /\ stage[r] = "idle" /\ input' = [input EXCEPT ![r] = in]
        /\ \/ stage' = [stage EXCEPT ![r] = "fork"] /\ job' = [job EXCEPT ![r] = Forked(in)]
           \/ stage' = [stage EXCEPT ![r] = "list"] /\ UNCHANGED job
        /\ UNCHANGED <<shared, faults, lost, overwritten, fresh>>
  BY DEF Start
<1>2. CASE stage' = [stage EXCEPT ![r] = "fork"] /\ job' = [job EXCEPT ![r] = Forked(in)]
  BY <1>1, <1>2, ForkStep
<1>3. CASE stage' = [stage EXCEPT ![r] = "list"] /\ UNCHANGED job
  <2> USE DEF IInv
  <2>1. /\ stage'[r] = "list" /\ input'[r] = in /\ in # None
        /\ \A u \in Run \ {r} : input'[u] = input[u] /\ stage'[u] = stage[u]
        /\ UNCHANGED <<config, network, free, job, faults, lost, overwritten, fresh>>
    BY <1>1, <1>3, InputAssumption DEF TypeOK, shared
  <2>2. TypeOK'
    <3>1. input' \in [Run -> Input \cup {None}] /\ stage' \in [Run -> Stages]
      BY <1>1, <1>3 DEF TypeOK, Stages
    <3> QED
      BY <3>1, <2>1 DEF TypeOK
  <2>3. \A d \in Device : job[r][d] = NoJob
    BY <1>1 DEF Ledger, Unstarted
  <2>4. Unstarted'
    BY <2>1, <2>3 DEF Ledger, Unstarted
  <2>5. Kinds'
    BY <2>1, <2>3, BoundAssumption DEF Ledger, Kinds, Provides, NoJob, Active, BeforeClaim
  <2>6. HasAddress' /\ Claimed'
    BY <2>1, <2>3 DEF Ledger, HasAddress, Claimed, Provides, NoJob
  <2>7. Stores'
    BY <2>1, <2>3, StoresKept DEF NoJob, AfterReset
  <2> QED
    BY <2>2, <2>4, <2>5, <2>6, <2>7 DEF Ledger
<1> QED
  BY <1>1, <1>2, <1>3

\* A join that fails cancels the jobs that are under way.
LEMMA JoinFailsStep ==
  ASSUME IInv, NEW r \in Run, JoinFails(r)
  PROVE  IInv'
<1> USE DEF IInv
<1>1. /\ stage[r] = "fork" /\ stage' = [stage EXCEPT ![r] = "FAILED"]
      /\ UNCHANGED <<config, network, free, input, faults, lost, overwritten, fresh>>
  BY DEF JoinFails, shared
<1> DEFINE canceled == [d \in Device |-> IF job[r][d].at \in Active
                            THEN [job[r][d] EXCEPT !.at = "CANCELED"] ELSE job[r][d]]
<1>2. \A d \in Device :
        /\ canceled[d] \in Job /\ canceled[d].address = job[r][d].address
        /\ \/ canceled[d] = job[r][d]
           \/ canceled[d].at = "CANCELED" /\ job[r][d].at # "none"
  <2> SUFFICES ASSUME NEW d \in Device
               PROVE  /\ canceled[d] \in Job /\ canceled[d].address = job[r][d].address
                      /\ \/ canceled[d] = job[r][d]
                         \/ canceled[d].at = "CANCELED" /\ job[r][d].at # "none"
    BY DEF canceled
  <2>1. job[r][d] \in Job
    BY DEF TypeOK
  <2>2. CASE job[r][d].at \in Active
    BY <2>1, <2>2 DEF Job, Positions, Active
  <2>3. CASE job[r][d].at \notin Active
    BY <2>1, <2>3
  <2> QED
    BY <2>2, <2>3
<1>3. job' = [job EXCEPT ![r] = canceled]
  BY DEF JoinFails
<1>10. canceled = [d \in Device |-> canceled[d]]
  OBVIOUS
<1> HIDE DEF canceled
<1>11. canceled \in [Device -> Job]
  BY <1>2, <1>10
<1>4. job' \in [Run -> [Device -> Job]]
      /\ \A u \in Run, d \in Device :
           /\ job'[u][d].address = job[u][d].address
           /\ \/ job'[u][d] = job[u][d]
              \/ u = r /\ job'[u][d].at = "CANCELED" /\ job[u][d].at # "none"
  BY <1>2, <1>3, <1>11 DEF TypeOK
<1>5. TypeOK'
  BY <1>1, <1>4 DEF TypeOK, Stages
<1>6. Unstarted'
  BY <1>1, <1>4 DEF Ledger, Unstarted, TypeOK
<1>7. Kinds' /\ HasAddress'
  BY <1>1, <1>4 DEF Ledger, Kinds, HasAddress, Provides, Active, BeforeClaim
<1>8. Claimed'
  BY <1>1, <1>4 DEF Ledger, Claimed
<1>9. Stores'
  BY <1>1, <1>4, StoresKept DEF AfterReset
<1> QED
  BY <1>5, <1>6, <1>7, <1>8, <1>9 DEF Ledger

\* The commit of all devices of a run, or one of the calls before it.
LEMMA LastTasksStep ==
  ASSUME IInv, NEW r \in Run, LastTasks(r)
  PROVE  IInv'
<1> USE DEF IInv
<1>1. /\ stage[r] \in {"calc", "dryrun", "commit"}
      /\ UNCHANGED <<config, free, input, job, lost, overwritten, fresh>>
      /\ \A d \in Device : network'[d] = network[d] \/ network'[d] = config[d]
  BY DEF LastTasks, TypeOK
<1>2. network' \in [Device -> [Loopback -> Contents]]
  BY DEF LastTasks, TypeOK
<1>3. faults' \in 0..MaxFaults
  BY BoundAssumption DEF LastTasks, Fault, TypeOK
<1>4. /\ stage' \in [Run -> Stages] /\ stage'[r] \notin {"idle", "list"}
      /\ \A u \in Run \ {r} : stage'[u] = stage[u]
  BY <1>1 DEF LastTasks, TypeOK, Stages
<1>5. TypeOK'
  BY <1>1, <1>2, <1>3, <1>4 DEF TypeOK
<1>6. Ledger'
  <2>1. Unstarted'
    BY <1>1, <1>4 DEF Ledger, Unstarted
  <2>2. Kinds' /\ HasAddress' /\ Claimed'
    BY <1>1 DEF Ledger, Kinds, HasAddress, Claimed, Provides
  <2> QED
    BY <2>1, <2>2 DEF Ledger
<1>7. Clean'
  BY <1>1 DEF Stores, Clean, Provides
<1>8. Held'
  BY <1>1 DEF Stores, Held, Written, Provides
<1>9. OnNet'
  BY <1>1 DEF Stores, Held, OnNet, Written, Provides
<1> QED
  BY <1>5, <1>6, <1>7, <1>8, <1>9 DEF Stores

\* Every step of a run but those of its jobs and its start.
LEMMA GoesOnIInv ==
  ASSUME IInv, NEW r \in Run, GoesOn(r)
  PROVE  IInv'
<1>1. CASE Join(r)
  <2>1. PICK s \in {"COMPLETED", "calc"} : stage' = [stage EXCEPT ![r] = s]
    BY <1>1 DEF Join
  <2> QED
    BY <1>1, <2>1, StageStep DEF Join, IInv, TypeOK, Stages
<1>2. CASE LastTaskRefused(r)
  <2>1. faults' \in 0..MaxFaults
    BY <1>2, BoundAssumption DEF LastTaskRefused, Fault, IInv, TypeOK
  <2> QED
    BY <1>2, <2>1, StageStep DEF LastTaskRefused, Stages
<1> QED
  BY <1>1, <1>2, ListStep, JoinFailsStep, LastTasksStep DEF GoesOn

\* Every step keeps the invariant.
LEMMA NextIInv == IInv /\ [Next]_vars => IInv'
<1> SUFFICES ASSUME IInv, [Next]_vars PROVE IInv'
  OBVIOUS
<1>1. CASE UNCHANGED vars
  <2>1. TypeOK'
    BY <1>1 DEF IInv, TypeOK, vars, shared
  <2>2. Ledger'
    BY <1>1 DEF IInv, Ledger, Unstarted, Kinds, HasAddress, Claimed, Provides, vars, shared
  <2>3. Stores'
    BY <1>1 DEF IInv, Stores, Clean, Held, OnNet, Written, Provides, vars, shared
  <2> QED
    BY <2>1, <2>2, <2>3 DEF IInv
<1>2. CASE Next
  BY <1>2, StartStep, GoesOnIInv, JobStepIInv DEF Next
<1> QED
  BY <1>1, <1>2

\* The inductive invariant holds in every reachable state.
THEOREM SpecIInv == Spec => []IInv
  BY InitIInv, NextIInv, PTL DEF Spec

-----------------------------------------------------------------------------
(* The properties *)

\* Every variable has its type, for any number of runs, devices and faults.
THEOREM SpecTypeOK == Spec => []TypeOK
<1>1. IInv => TypeOK
  BY DEF IInv
<1> QED
  BY <1>1, SpecIInv, PTL

\* No address is forgotten: what left the pool was lost with an answer, is held
\* by a job that did not complete, or is on the network.
THEOREM SpecAddressesAccounted == Spec => []AddressesAccounted
<1>1. ASSUME IInv PROVE AddressesAccounted
  <2> SUFFICES ASSUME NEW a \in Address \ free, a \notin lost
               PROVE  \E r \in Run, d \in Device :
                        /\ job[r][d].address = a
                        /\ job[r][d].at = "COMPLETED" =>
                             network[d][input[r].loopback] = a \/ <<r, d>> \in overwritten
    BY DEF AddressesAccounted
  <2>1. PICK r \in Run, d \in Device : job[r][d].address = a
    BY <1>1 DEF IInv, Ledger, Claimed
  <2>2. Provides(r)
    BY <1>1, <2>1, NoneAssumption DEF IInv, Ledger, Kinds
  <2>3. job[r][d].at = "COMPLETED" =>
          network[d][input[r].loopback] = a \/ <<r, d>> \in overwritten
    BY <1>1, <2>1, <2>2 DEF IInv, Stores, OnNet, Written
  <2> QED
    BY <2>1, <2>3
<1> QED
  BY <1>1, SpecIInv, PTL

\* A commit brings nothing to the network that was waiting before the run had
\* reset the device.
THEOREM SpecCommitsNothingStale == Spec => CommitsNothingStale
<1> DEFINE A == \A r \in Run, d \in Device, l \in Loopback :
                 Commit(r, d) /\ network'[d][l] # network[d][l]
                   => l = input[r].loopback \/ l \in fresh[r][d]
<1>1. IInv => A
  <2> SUFFICES ASSUME IInv, NEW r \in Run, NEW d \in Device, NEW l \in Loopback,
                      Commit(r, d), network'[d][l] # network[d][l]
               PROVE  l = input[r].loopback \/ l \in fresh[r][d]
    OBVIOUS
  <2>1. config[d][l] # network[d][l] /\ job[r][d].at = "commit"
    BY DEF Commit, IInv, TypeOK
  <2>2. Provides(r)
    BY <2>1 DEF IInv, Ledger, Kinds, Active
  <2> QED
    BY <2>1, <2>2 DEF IInv, Stores, Clean, AfterReset
<1>2. IInv /\ [Next]_vars => [A]_vars
  BY <1>1
<1> QED
  BY <1>2, SpecIInv, PTL DEF Spec, CommitsNothingStale

\* A job that provides an address completes by its commit.
LEMMA CompletesByCommit ==
  ASSUME IInv, Next, NEW r \in Run, NEW d \in Device, Provides(r),
         job[r][d].at # "COMPLETED", job'[r][d].at = "COMPLETED"
  PROVE  Commit(r, d)
<1> USE DEF IInv
<1>1. PICK u \in Run : Start(u) \/ GoesOn(u) \/ \E e \in Device : JobStep(u, e)
  BY DEF Next
<1>2. ASSUME NEW in, job' = [job EXCEPT ![u] = Forked(in)] PROVE FALSE
  <2>1. r = u => job'[r][d] = Forked(in)[d]
    BY <1>2 DEF TypeOK
  <2>2. Forked(in)[d].at # "COMPLETED"
    BY DEF Forked, NoJob, FirstTask
  <2> QED
    BY <1>2, <2>1, <2>2 DEF TypeOK
<1>3. ~Start(u)
  BY <1>2 DEF Start
<1>4. ~ListDevices(u)
  BY <1>2 DEF ListDevices
<1>5. ~JoinFails(u)
  <2> SUFFICES ASSUME JoinFails(u) PROVE FALSE
    OBVIOUS
  <2>1. job'[r] = job[r] \/ job'[r][d] = job[r][d] \/ job'[r][d] = [job[r][d] EXCEPT !.at = "CANCELED"]
    BY DEF JoinFails, TypeOK
  <2>2. [job[r][d] EXCEPT !.at = "CANCELED"].at # "COMPLETED"
    BY DEF TypeOK, Job
  <2> QED
    BY <2>1, <2>2
<1>6. ~GoesOn(u)
  BY <1>4, <1>5 DEF GoesOn, Join, LastTasks, LastTaskRefused
<1>7. PICK e \in Device : JobStep(u, e)
  BY <1>1, <1>3, <1>6
<1>8. ASSUME Claim(u, e) \/ ClaimRefused(u, e) PROVE FALSE
  <2>1. job[u][e].at = "claim"
    BY <1>8 DEF Claim, ClaimRefused
  <2>2. CASE FailClaim(u, e)
    BY <2>1, <2>2, FailClaimMoves
  <2>3. ASSUME NEW a \in free,
               job' = [job EXCEPT ![u][e] = [@ EXCEPT !.at = NextTask(u, "claim"), !.address = a]]
        PROVE  FALSE
    <3>1. a \in Address
      BY DEF TypeOK
    <3> QED
      BY <2>1, <2>3, <3>1, ClaimMoves
  <2> QED
    BY <1>8, <2>2, <2>3 DEF Claim, ClaimRefused
<1>9. ~TaskRefused(u, e)
  <2> SUFFICES ASSUME TaskRefused(u, e) PROVE FALSE
    OBVIOUS
  <2>1. "FAILED" \in Positions /\ GoTo(u, e, "FAILED")
    BY DEF TaskRefused, Positions
  <2> QED
    BY <2>1, GoToMoves
<1>10. /\ stage[u] = "fork" /\ job[u][e].at \in Active \ {"claim"} /\ Outcome(u, e)
       /\ UNCHANGED <<free, input, stage, lost>>
  BY <1>7, <1>8, <1>9 DEF JobStep, Sync, Replace, Query, Write, Commit, Active, shared
<1>11. /\ job'[u][e].at \in {job[u][e].at, NextTask(u, job[u][e].at), "FAILED"}
       /\ u # r \/ e # d => job'[r][d] = job[r][d]
  BY <1>10, OutcomeMoves
<1>12. u = r /\ e = d
  BY <1>11
<1>13. NextTask(r, job[r][d].at) = "COMPLETED" => job[r][d].at = "commit"
  BY <1>10, <1>12, NextTasks DEF Active
<1>14. job[r][d].at = "commit"
  BY <1>11, <1>12, <1>13
<1> QED
  BY <1>7, <1>8, <1>9, <1>12, <1>14 DEF JobStep, Sync, Replace, Query, Write

\* Create_loopback_all_in_uniconfig completes by the commit of all its devices.
LEMMA CompletesByLastTask ==
  ASSUME IInv, Next, NEW r \in Run, ~Provides(r),
         stage[r] # "COMPLETED", stage'[r] = "COMPLETED"
  PROVE  LastTasks(r) /\ stage[r] = "commit"
<1> USE DEF IInv
<1>1. \A u \in Run, e \in Device : ~JobStep(u, e)
  BY DEF JobStep, Sync, Replace, Query, Claim, ClaimRefused, Write, Commit, TaskRefused
<1>2. PICK u \in Run : Start(u) \/ GoesOn(u)
  BY <1>1 DEF Next
<1>3. u = r
  BY <1>2 DEF Start, GoesOn, ListDevices, JoinFails, Join, LastTasks, LastTaskRefused, TypeOK
<1>4. ~Start(r) /\ ~ListDevices(r) /\ ~JoinFails(r) /\ ~Join(r) /\ ~LastTaskRefused(r)
  BY DEF Start, ListDevices, JoinFails, Join, LastTaskRefused, TypeOK
<1>5. LastTasks(r)
  BY <1>2, <1>3, <1>4 DEF GoesOn
<1> QED
  BY <1>5 DEF LastTasks, TypeOK

\* What is reported COMPLETED is on the network when it is reported, unless
\* another run meddled with it.
THEOREM SpecCompletedIsOnNetwork == Spec => CompletedIsOnNetwork
<1> DEFINE A == \A r \in Run, d \in Device :
                 <<r, d>> \notin overwritten /\ input[r] # None =>
                   LET onNetwork == network'[d][input[r].loopback] IN
                   /\ Provides(r) /\ job[r][d].at # "COMPLETED" /\ job'[r][d].at = "COMPLETED"
                        => onNetwork = job[r][d].address /\ onNetwork # None
                   /\ ~Provides(r) /\ stage[r] # "COMPLETED" /\ stage'[r] = "COMPLETED"
                        /\ job[r][d].at = "COMPLETED"
                        => onNetwork = Bare
<1>1. IInv /\ Next => A
  <2> SUFFICES ASSUME IInv, Next, NEW r \in Run, NEW d \in Device, <<r, d>> \notin overwritten
               PROVE  LET onNetwork == network'[d][input[r].loopback] IN
                      /\ Provides(r) /\ job[r][d].at # "COMPLETED" /\ job'[r][d].at = "COMPLETED"
                           => onNetwork = job[r][d].address /\ onNetwork # None
                      /\ ~Provides(r) /\ stage[r] # "COMPLETED" /\ stage'[r] = "COMPLETED"
                           /\ job[r][d].at = "COMPLETED"
                           => onNetwork = Bare
    OBVIOUS
  <2> USE DEF IInv
  <2>1. ASSUME Provides(r), job[r][d].at # "COMPLETED", job'[r][d].at = "COMPLETED"
        PROVE  network'[d][input[r].loopback] = job[r][d].address /\ job[r][d].address # None
    <3>1. job[r][d].at = "commit" /\ network'[d] = config[d]
      BY <2>1, CompletesByCommit DEF Commit, TypeOK
    <3>2. config[d][input[r].loopback] = job[r][d].address
      BY <3>1, <2>1 DEF Stores, Held, Written
    <3>3. job[r][d].address \in Address
      BY <3>1, <2>1 DEF Ledger, HasAddress
    <3> QED
      BY <3>1, <3>2, <3>3, NoneAssumption
  <2>2. ASSUME ~Provides(r), stage[r] # "COMPLETED", stage'[r] = "COMPLETED",
               job[r][d].at = "COMPLETED"
        PROVE  network'[d][input[r].loopback] = Bare
    <3>1. LastTasks(r) /\ stage[r] = "commit"
      BY <2>2, CompletesByLastTask
    <3>2. d \in input[r].devices
      BY <2>2 DEF Ledger, Kinds
    <3>3. network'[d] = config[d]
      BY <3>1, <3>2 DEF LastTasks
    <3> QED
      BY <2>2, <3>3 DEF Stores, Held, Written
  <2> QED
    BY <2>1, <2>2
<1> HIDE DEF A
<1>2. IInv /\ [Next]_vars => [A]_vars
  BY <1>1
<1>3. Spec => [][A]_vars
  BY <1>2, SpecIInv, PTL DEF Spec
<1> QED
  BY <1>3 DEF A, CompletedIsOnNetwork
=============================================================================
