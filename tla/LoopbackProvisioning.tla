------------------------- MODULE LoopbackProvisioning -------------------------
(* Runs of the workflows that put loopback interfaces on devices:             *)
(* Provision_loopback_ipv4 for one device and, forked, for all devices with a *)
(* label, and Create_loopback_all_in_uniconfig.  Runs share the devices'      *)
(* configuration in UniConfig, since they name no transaction, and the pool   *)
(* their addresses are claimed from.                                          *)
(*                                                                            *)
(* A provisioning of one device is a job of the run: alone, or as one of the  *)
(* forked tasks.  UniConfig, the resource manager and Conductor are not in    *)
(* the repository; what devices run is what UniConfig knows them to run.      *)
EXTENDS Naturals

CONSTANTS
  Run, Device, Loopback, Address, None,
  Bare,          \* the contents of a loopback without an address
  Mounted,       \* devices that UniConfig reaches
  Input,         \* what a run may be started with
  ClaimRetries,  \* further attempts at claiming an address
  MaxFaults      \* bound on the calls that fail without need

Contents == Address \cup {None, Bare}
InputType ==
  [workflow : {"provision", "provision_all", "create_all"}, devices : SUBSET Device,
   loopback : Loopback, labelled : BOOLEAN, optional : {"text", "toggle", "no"}]

ASSUME NoneAssumption  == None \notin Address /\ None # Bare
ASSUME InputAssumption == Input \subseteq InputType /\ None \notin Input
ASSUME BoundAssumption == ClaimRetries \in Nat /\ MaxFaults \in Nat /\ Mounted \subseteq Device

VARIABLES
  config,   \* the configuration of the devices that all runs share
  network,  \* what the devices run
  free,     \* the pool
  input,    \* per run
  stage,    \* per run: the task that is due, or how it ended
  job,      \* per run and device
  faults,
  \* History variables, read by no guard.
  lost,        \* addresses whose claim was not answered
  overwritten, \* jobs whose loopback another run reset or wrote since
  fresh        \* per job: loopbacks that others wrote after it had reset its device

shared == <<config, network, free>>
vars   == <<shared, input, stage, job, faults, lost, overwritten, fresh>>

Active    == {"sync", "replace", "query", "claim", "write", "commit"}
AfterReset == {"query", "claim", "write", "commit"}
Positions == Active \cup {"none", "COMPLETED", "FAILED", "CANCELED"}
Job       == [at : Positions, address : Address \cup {None}, attempts : 0..(ClaimRetries + 1)]
NoJob     == [at |-> "none", address |-> None, attempts |-> 0]
Stages    == {"idle", "list", "fork", "calc", "dryrun", "commit", "COMPLETED", "FAILED"}

TypeOK ==
  /\ config \in [Device -> [Loopback -> Contents]]
  /\ network \in [Device -> [Loopback -> Contents]]
  /\ free \subseteq Address
  /\ input \in [Run -> Input \cup {None}]
  /\ stage \in [Run -> Stages]
  /\ job \in [Run -> [Device -> Job]]
  /\ faults \in 0..MaxFaults
  /\ lost \subseteq Address
  /\ overwritten \subseteq Run \X Device
  /\ fresh \in [Run -> [Device -> SUBSET Loopback]]
  /\ \A r \in Run : stage[r] # "idle" => input[r] # None

Init ==
  /\ config  = [d \in Device |-> [l \in Loopback |-> None]]
  /\ network = config
  /\ free  = Address
  /\ input = [r \in Run |-> None]
  /\ stage = [r \in Run |-> "idle"]
  /\ job   = [r \in Run |-> [d \in Device |-> NoJob]]
  /\ faults = 0
  /\ lost = {} /\ overwritten = {}
  /\ fresh = [r \in Run |-> [d \in Device |-> {}]]

-----------------------------------------------------------------------------
(* Jobs *)

Provides(r) == input[r].workflow # "create_all"

\* Mutants of NextTask: the device is reset after the write; it is not reset.
NextTask_ResetLate(r, at) ==
  CASE at = "sync" -> "query" [] at = "query" -> "claim" [] at = "claim" -> "write"
    [] at = "write" /\ Provides(r) -> "replace" [] at = "replace" -> "commit"
    [] OTHER -> "COMPLETED"
NextTask_NoReset(r, at) ==
  CASE at = "sync" -> "query" [] at = "query" -> "claim" [] at = "claim" -> "write"
    [] at = "write" /\ Provides(r) -> "commit" [] OTHER -> "COMPLETED"

\* The tasks of a job in order; Create_loopback_interface_uniconfig only writes.
NextTask(r, at) ==
  CASE at = "sync"    -> "replace"
    [] at = "replace" -> "query"
    [] at = "query"   -> "claim"
    [] at = "claim"   -> "write"
    [] at = "write" /\ Provides(r) -> "commit"
    [] OTHER -> "COMPLETED"

FirstTask(in) == IF in.workflow = "create_all" THEN "write" ELSE "sync"

\* Mutant of Written: the template leaves the address out.
Written_Bare(r, d) == Bare

Written(r, d) == IF Provides(r) THEN job[r][d].address ELSE Bare

Fault == faults < MaxFaults /\ faults' = faults + 1

GoTo(r, d, at) == job' = [job EXCEPT ![r][d].at = at]

\* A call that did its work is answered, or is not: then the task runs again,
\* or the job has failed.
Outcome(r, d) ==
  \/ GoTo(r, d, NextTask(r, job[r][d].at)) /\ UNCHANGED faults
  \/ Fault /\ \E at \in {job[r][d].at, "FAILED"} : GoTo(r, d, at)

\* The loopback of another run's job that this configuration holds for it.
Past(u, d, l) == job[u][d].at \in {"commit", "COMPLETED"} /\ input[u].loopback = l

Sync(r, d) ==
  /\ job[r][d].at = "sync" /\ d \in Mounted
  /\ Outcome(r, d)
  /\ UNCHANGED <<shared, input, stage, lost, overwritten, fresh>>

\* UNICONFIG_replace_config_with_oper: whatever waits there for a commit is gone.
Replace(r, d) ==
  /\ job[r][d].at = "replace" /\ d \in Mounted
  /\ config' = [config EXCEPT ![d] = network[d]]
  /\ overwritten' = overwritten \cup
       {<<u, d>> : u \in {x \in Run \ {r} : \E l \in Loopback :
                            Past(x, d, l) /\ config[d][l] # network[d][l]}}
  /\ Outcome(r, d)
  /\ UNCHANGED <<network, free, input, stage, lost, fresh>>

Query(r, d) ==
  /\ job[r][d].at = "query"
  /\ Outcome(r, d)
  /\ UNCHANGED <<shared, input, stage, lost, overwritten, fresh>>

\* Mutant of FailClaim: one attempt too many.
FailClaim_Again(r, d) ==
  LET tried == job[r][d].attempts IN
  job' = [job EXCEPT ![r][d] =
            [at |-> IF tried <= ClaimRetries THEN "claim" ELSE "FAILED",
             address |-> None, attempts |-> tried + 1]]

\* An attempt at claiming that failed, for Conductor to start another one.
FailClaim(r, d) ==
  LET tried == job[r][d].attempts IN
  job' = [job EXCEPT ![r][d] =
            [at |-> IF tried < ClaimRetries THEN "claim" ELSE "FAILED",
             address |-> None, attempts |-> tried + 1]]

Claim(r, d) ==
  /\ job[r][d].at = "claim"
  /\ \E a \in free :
       /\ free' = free \ {a}
       /\ \/ /\ job' = [job EXCEPT ![r][d] = [@ EXCEPT !.at = NextTask(r, "claim"),
                                                       !.address = a]]
             /\ UNCHANGED <<faults, lost>>
          \/ Fault /\ FailClaim(r, d) /\ lost' = lost \cup {a}
  /\ UNCHANGED <<config, network, input, stage, overwritten, fresh>>

ClaimRefused(r, d) ==
  /\ job[r][d].at = "claim"
  /\ (free = {} /\ UNCHANGED faults) \/ Fault
  /\ FailClaim(r, d)
  /\ UNCHANGED <<shared, input, stage, lost, overwritten, fresh>>

Write(r, d) ==
  /\ job[r][d].at = "write" /\ d \in Mounted
  /\ LET l == input[r].loopback IN
     /\ config' = [config EXCEPT ![d][l] = Written(r, d)]
     /\ overwritten' = (overwritten \ {<<r, d>>}) \cup
                         {<<u, d>> : u \in {x \in Run \ {r} : Past(x, d, l)}}
     /\ fresh' = [u \in Run |-> [e \in Device |->
                    IF u # r /\ e = d /\ job[u][e].at \in AfterReset
                    THEN fresh[u][e] \cup {l} ELSE fresh[u][e]]]
  /\ Outcome(r, d)
  /\ UNCHANGED <<network, free, input, stage, lost>>

Commit(r, d) ==
  /\ job[r][d].at = "commit" /\ d \in Mounted
  /\ network' = [network EXCEPT ![d] = config[d]]
  /\ Outcome(r, d)
  /\ UNCHANGED <<config, free, input, stage, lost, overwritten, fresh>>

\* A device that is not mounted, a pool that does not exist, a device that does
\* not take the contents: the job fails.
TaskRefused(r, d) ==
  /\ job[r][d].at \in Active \ {"claim"}
  /\ (job[r][d].at # "query" /\ d \notin Mounted /\ UNCHANGED faults) \/ Fault
  /\ GoTo(r, d, "FAILED")
  /\ UNCHANGED <<shared, input, stage, lost, overwritten, fresh>>

JobStep(r, d) ==
  /\ stage[r] = "fork"
  /\ \/ Sync(r, d) \/ Replace(r, d) \/ Query(r, d) \/ Claim(r, d) \/ ClaimRefused(r, d)
     \/ Write(r, d) \/ Commit(r, d) \/ TaskRefused(r, d)

-----------------------------------------------------------------------------
(* Runs *)

\* What is forked for the devices of a run.
Forked(in) ==
  [d \in Device |->
     IF d \in in.devices THEN [NoJob EXCEPT !.at = FirstTask(in)] ELSE NoJob]

\* A run for one device begins with its only job.
Start(r) ==
  /\ stage[r] = "idle"
  /\ \E in \in Input :
       /\ input' = [input EXCEPT ![r] = in]
       /\ \/ /\ in.workflow = "provision"
             /\ stage' = [stage EXCEPT ![r] = "fork"]
             /\ job' = [job EXCEPT ![r] = Forked(in)]
          \/ /\ in.workflow # "provision"
             /\ stage' = [stage EXCEPT ![r] = "list"]
             /\ UNCHANGED job
  /\ UNCHANGED <<shared, faults, lost, overwritten, fresh>>

\* INVENTORY_get_all_devices_as_dynamic_fork_tasks, and the fork of its answer.
ListDevices(r) ==
  /\ stage[r] = "list"
  /\ IF input[r].labelled
     THEN /\ stage' = [stage EXCEPT ![r] = "fork"]
          /\ job' = [job EXCEPT ![r] = Forked(input[r])]
     ELSE stage' = [stage EXCEPT ![r] = "FAILED"] /\ UNCHANGED job
  /\ UNCHANGED <<shared, input, faults, lost, overwritten, fresh>>

\* Mutant of Forgiven: the text is not recognised.
Forgiven_Toggle(in) == in.optional = "toggle"

\* Only the text "true" makes forked tasks optional, and the Boolean that the
\* toggle of Create_loopback_all_in_uniconfig gives does not.
Forgiven(in) == in.optional = "text"

\* A job that failed and is not optional fails the run, and ends its other jobs.
JoinFails(r) ==
  /\ stage[r] = "fork" /\ ~Forgiven(input[r])
  /\ \E d \in Device : job[r][d].at = "FAILED"
  /\ stage' = [stage EXCEPT ![r] = "FAILED"]
  /\ job' = [job EXCEPT ![r] =
       [d \in Device |-> IF job[r][d].at \in Active
                         THEN [job[r][d] EXCEPT !.at = "CANCELED"] ELSE job[r][d]]]
  /\ UNCHANGED <<shared, input, faults, lost, overwritten, fresh>>

Join(r) ==
  /\ stage[r] = "fork"
  /\ \A d \in Device : job[r][d].at \notin Active
  /\ Forgiven(input[r]) \/ (\A d \in Device : job[r][d].at # "FAILED")
  /\ stage' = [stage EXCEPT ![r] = IF Provides(r) THEN "COMPLETED" ELSE "calc"]
  /\ UNCHANGED <<shared, input, job, faults, lost, overwritten, fresh>>

\* UNICONFIG_calculate_diff, UNICONFIG_dryrun_commit, UNICONFIG_commit name all
\* devices that were forked for.  The commit is of all of them or of none.
LastTasks(r) ==
  /\ stage[r] \in {"calc", "dryrun", "commit"}
  /\ input[r].devices \subseteq Mounted
  /\ network' = IF stage[r] # "commit" THEN network
                ELSE [d \in Device |-> IF d \in input[r].devices THEN config[d]
                                       ELSE network[d]]
  /\ \/ /\ stage' = [stage EXCEPT ![r] = CASE @ = "calc" -> "dryrun" [] @ = "dryrun" -> "commit"
                                           [] OTHER -> "COMPLETED"]
        /\ UNCHANGED faults
     \/ Fault /\ \E s \in {stage[r], "FAILED"} : stage' = [stage EXCEPT ![r] = s]
  /\ UNCHANGED <<config, free, input, job, lost, overwritten, fresh>>

LastTaskRefused(r) ==
  /\ stage[r] \in {"calc", "dryrun", "commit"}
  /\ (~(input[r].devices \subseteq Mounted) /\ UNCHANGED faults) \/ Fault
  /\ stage' = [stage EXCEPT ![r] = "FAILED"]
  /\ UNCHANGED <<shared, input, job, lost, overwritten, fresh>>

GoesOn(r) ==
  \/ ListDevices(r) \/ JoinFails(r) \/ Join(r) \/ LastTasks(r) \/ LastTaskRefused(r)

Next == \E r \in Run : Start(r) \/ GoesOn(r) \/ \E d \in Device : JobStep(r, d)

Spec == Init /\ [][Next]_vars

\* Conductor goes on with a run that was started, and so do the calls of a job;
\* nothing makes somebody start a run.
FairSpec ==
  /\ Spec
  /\ \A r \in Run : WF_vars(GoesOn(r)) /\ \A d \in Device : WF_vars(JobStep(r, d))

-----------------------------------------------------------------------------
(* Properties *)

\* A provisioning that completes, and a Create_loopback_all_in_uniconfig that
\* does for the tasks that completed in it, has put its loopback on the network
\* with the address claimed for it, unless another run reset the shared
\* configuration or wrote the same loopback in between.
CompletedIsOnNetwork ==
  [][\A r \in Run, d \in Device :
       <<r, d>> \notin overwritten /\ input[r] # None =>
         LET onNetwork == network'[d][input[r].loopback] IN
         /\ Provides(r) /\ job[r][d].at # "COMPLETED" /\ job'[r][d].at = "COMPLETED"
              => onNetwork = job[r][d].address /\ onNetwork # None
         /\ ~Provides(r) /\ stage[r] # "COMPLETED" /\ stage'[r] = "COMPLETED"
              /\ job[r][d].at = "COMPLETED"
              => onNetwork = Bare]_vars

\* The commit of a provisioning brings to the network, besides its own
\* loopback, only what others wrote after the run had reset the device: what
\* failed runs left waiting before that is not committed with it.
CommitsNothingStale ==
  [][\A r \in Run, d \in Device, l \in Loopback :
       Commit(r, d) /\ network'[d][l] # network[d][l]
         => l = input[r].loopback \/ l \in fresh[r][d]]_vars

\* An address that left the pool was lost with the answer of its claim, or a
\* job holds it that did not complete, or it is on the network where that job
\* put it, unless another run changed that loopback.
AddressesAccounted ==
  \A a \in Address \ free :
    \/ a \in lost
    \/ \E r \in Run, d \in Device :
         /\ job[r][d].address = a
         /\ job[r][d].at = "COMPLETED" =>
              network[d][input[r].loopback] = a \/ <<r, d>> \in overwritten

\* Devices that fail do not fail the provisioning of all devices, whatever
\* happens to them: once it has forked it completes.
ForkCompletes ==
  \A r \in Run : stage[r] = "fork" /\ input[r].workflow = "provision_all"
                   ~> stage[r] = "COMPLETED"

\* Create_loopback_all_in_uniconfig.json:73, of its input optional: "If one of
\* devices doesn't use openconfig model, workflow will continue".
OptionalGoesOn ==
  [][\A r \in Run : stage[r] = "fork" /\ input[r].workflow = "create_all"
                      /\ input[r].optional # "no" => stage'[r] # "FAILED"]_vars
=============================================================================
