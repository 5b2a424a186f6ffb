---------------------------- MODULE UniconfigTasks ----------------------------
(* The ground the service workers stand on: the two datastores UniConfig      *)
(* keeps of every mounted node, and the way a task of these workers goes      *)
(* through its calls.  A task of vll_service_worker, vpls_service_worker or   *)
(* bi_service_worker is one handler that makes REST calls one after the       *)
(* other; other threads of the worker process make theirs in between.  What   *)
(* the handlers of a service call, in which order, with which devices to roll *)
(* back when a call fails, is their program: a sequence of steps computed     *)
(* from the input of the task in VllService, VplsService and BiService.       *)
(*                                                                            *)
(* UniConfig and the helpers of frinx_conductor_workers are not part of the   *)
(* repository.  They are modelled from their use: writes go to the intent, a  *)
(* commit carries the intent of all its nodes to the network or fails as a    *)
(* whole, replace_cfg_with_oper resets the intent to what the network has.    *)
EXTENDS UniconfigData

CONSTANTS
  Task,       \* tasks that Conductor hands to the worker threads
  Threads,    \* tasks that are worked on at a time
  MaxFaults,  \* bound on the calls that fail without need, and deaths
  Value,      \* contents of objects
  Initial     \* what every node holds at first

ASSUME BoundsAssumption == Threads \in Nat \ {0} /\ MaxFaults \in Nat

ASSUME NoneAssumption == None \notin Value

ASSUME InitialAssumption == Initial \in [Node -> [Object -> Value \cup {None}]]

VARIABLES
  intent,     \* per node: the datastore "config"
  actual,     \* per node: the datastore "operational", what the network has
  input,      \* per task: what it was started with
  todo,       \* per task: the calls it has yet to make
  result,     \* per task: where it stands, in the end its status
  broke,      \* per task: the calls that failed and changed its course
  faults,     \* calls that failed without need, and deaths
  \* History variables, read by no guard.
  scope,      \* per task: the devices its program is about
  dirty,      \* per task: nodes it changed, neither committed nor reset since
  disturbed   \* tasks that met another one, or what it left, on a node

vars == <<intent, actual, input, todo, result, broke, faults,
          scope, dirty, disturbed>>

-----------------------------------------------------------------------------
(* Steps of a program *)

\* What becomes of the task when a call fails.
OnFailure == {"abort",              \* roll back step.undo, end FAILED
              "ignore",             \* nobody looks at the answer
              "overlook",           \* the same, where the code means to look
              "skip",               \* leave out the next step
              "withdraw",           \* delete the object, go to the last step
              "withdraw_abort"}     \* delete the object, then abort

Step == [call: {"read", "write", "commit", "sync", "dryrun", "rollback"},
         on: SUBSET Id, object: Object \cup {None}, value: Value \cup {None},
         undo: SUBSET Id, fails: OnFailure]

\* A call about one object of one device.
Read(id, o, undo) == [call |-> "read", on |-> {id}, object |-> o,
                      value |-> None, undo |-> undo, fails |-> "abort"]
Put(id, o, v, undo) == [call |-> "write", on |-> {id}, object |-> o,
                        value |-> v, undo |-> undo, fails |-> "abort"]
Delete(id, o, undo) == Put(id, o, None, undo)
\* A call about the configuration of several devices.
Call(call, ids, undo) == [call |-> call, on |-> ids, object |-> None,
                          value |-> None, undo |-> undo, fails |-> "abort"]
Commit(ids, undo)     == Call("commit", ids, undo)
SyncFromNet(ids, undo) == Call("sync", ids, undo)
DryRun(ids)           == Call("dryrun", ids, {})
\* Ends a task FAILED; with no device to roll back it is an exception.
Rollback(ids)         == Call("rollback", ids, {})
Raise                 == Rollback({})

When(condition, steps) == IF condition THEN steps ELSE <<>>

-----------------------------------------------------------------------------
(* The datastores *)

\* The store with the object of a step replaced on the nodes of the step.
Written(store, s) ==
  [d \in Node |->
     IF d \in s.on THEN [store[d] EXCEPT ![s.object] = s.value] ELSE store[d]]

\* The store with the nodes ids copied from another one.
Copied(store, from, ids) ==
  [d \in Node |-> IF d \in ids THEN from[d] ELSE store[d]]

\* A device keeps its ports: what was deleted of them it shows again, as it
\* was at first, when it is read.
Reread(store, ids) ==
  [d \in Node |->
     IF d \in ids
     THEN [o \in Object |->
             IF store[d][o] = None /\ o[1] = "interface" THEN Initial[d][o]
                                                         ELSE store[d][o]]
     ELSE store[d]]

Pending(d) == intent[d] # actual[d]

-----------------------------------------------------------------------------
(* States of a task *)

Running(t)  == result[t] = "running"
Ended(t)    == result[t] \in {"COMPLETED", "FAILED", "LOST"}
This(t)     == Head(todo[t])
Doing(t, call) == Running(t) /\ todo[t] # <<>> /\ This(t).call = call

TypeOK ==
  /\ intent \in [Node -> [Object -> Value \cup {None}]]
  /\ actual \in [Node -> [Object -> Value \cup {None}]]
  /\ todo \in [Task -> Seq(Step)]
  /\ result \in [Task -> {"idle", "running", "COMPLETED", "FAILED", "LOST"}]
  /\ broke \in [Task -> Seq(Step)]
  /\ faults \in 0..MaxFaults
  /\ scope \in [Task -> SUBSET Id]
  /\ dirty \in [Task -> SUBSET Node]
  /\ disturbed \subseteq Task

Init ==
  /\ intent = Initial
  /\ actual = Initial
  /\ input = [t \in Task |-> None]
  /\ todo = [t \in Task |-> <<>>]
  /\ result = [t \in Task |-> "idle"]
  /\ broke = [t \in Task |-> <<>>]
  /\ faults = 0
  /\ scope = [t \in Task |-> {}]
  /\ dirty = [t \in Task |-> {}]
  /\ disturbed = {}
-----------------------------------------------------------------------------
(* Next-state formulae *)

\* A thread is free for task t.
MayBegin(t) ==
  result[t] = "idle" /\ Cardinality({u \in Task : Running(u)}) < Threads

\* The thread takes it up: its program, about the devices ids, is known.
Begin(t, in, program, ids) ==
  LET met == {u \in Task \ {t} : \/ Running(u) /\ scope[u] \cap ids # {}
                                \/ dirty[u] \cap ids # {}}
  IN
  /\ input' = [input EXCEPT ![t] = in]
  /\ todo' = [todo EXCEPT ![t] = program]
  /\ result' = [result EXCEPT ![t] = "running"]
  /\ scope' = [scope EXCEPT ![t] = ids]
  /\ disturbed' = disturbed \cup met \cup (IF met = {} THEN {} ELSE {t})
  /\ UNCHANGED <<intent, actual, broke, faults, dirty>>

\* The call at the head of the program is answered: the next one is due, or
\* the task is done.
GoOn(t) ==
  /\ todo' = [todo EXCEPT ![t] = Tail(todo[t])]
  /\ result' = IF Len(todo[t]) = 1
               THEN [result EXCEPT ![t] = "COMPLETED"] ELSE result
  /\ UNCHANGED <<input, broke, faults, scope, disturbed>>

Reachable(t) == This(t).on \subseteq Node

\* read_structured_data answers only for what the intent has.
ReadData(t) ==
  /\ Doing(t, "read") /\ Reachable(t)
  /\ \A d \in This(t).on : intent[d][This(t).object] # None
  /\ GoOn(t)
  /\ UNCHANGED <<intent, actual, dirty>>

\* write_structured_data and delete_structured_data.
WriteData(t) ==
  /\ Doing(t, "write") /\ Reachable(t)
  /\ GoOn(t)
  /\ intent' = Written(intent, This(t))
  /\ dirty' = [dirty EXCEPT ![t] = @ \cup This(t).on]
  /\ UNCHANGED actual

Cleaned(ids) == [u \in Task |-> dirty[u] \ ids]

\* commit: the intent of all nodes reaches the network, whoever wrote it.
CommitData(t) ==
  /\ Doing(t, "commit") /\ Reachable(t)
  /\ GoOn(t)
  /\ actual' = Copied(actual, intent, This(t).on)
  /\ dirty' = Cleaned(This(t).on)
  /\ UNCHANGED intent

\* sync_from_net: the nodes are read again; the intent stays.
SyncData(t) ==
  /\ Doing(t, "sync") /\ Reachable(t)
  /\ GoOn(t)
  /\ actual' = Reread(actual, This(t).on)
  /\ dirty' = [dirty EXCEPT ![t] = @ \cup This(t).on]
  /\ UNCHANGED intent

\* dryrun_commit shows the commands and changes neither datastore.
DryRunData(t) ==
  /\ Doing(t, "dryrun") /\ Reachable(t)
  /\ GoOn(t)
  /\ UNCHANGED <<intent, actual, dirty>>

\* The calls that are always refused: those about a device that is not
\* mounted, and the read of an object that is not there.
MustFail(t) ==
  \/ ~Reachable(t)
  \/ This(t).call = "read" /\ \E d \in This(t).on : intent[d][This(t).object] = None

Fault == faults < MaxFaults /\ faults' = faults + 1

\* A call is refused.  Every call can be.
CallFails(t) ==
  /\ Running(t) /\ todo[t] # <<>> /\ This(t).call # "rollback"
  /\ IF MustFail(t) THEN UNCHANGED faults ELSE Fault
  /\ LET s    == This(t)
         rest == Tail(todo[t])
         withdraw == [s EXCEPT !.value = None, !.undo = {}, !.fails = "ignore"]
     IN
     \/ /\ s.fails = "abort"
        /\ todo' = [todo EXCEPT ![t] = <<Rollback(s.undo)>>]
        /\ broke' = [broke EXCEPT ![t] = Append(@, s)]
        /\ UNCHANGED result
     \/ /\ s.fails \in {"ignore", "overlook"}
        /\ todo' = [todo EXCEPT ![t] = rest]
        /\ result' = IF rest = <<>>
                     THEN [result EXCEPT ![t] = "COMPLETED"] ELSE result
        /\ broke' = IF s.fails = "ignore" THEN broke
                    ELSE [broke EXCEPT ![t] = Append(@, s)]
     \/ /\ s.fails = "skip"
        /\ todo' = [todo EXCEPT ![t] = Tail(rest)]
        /\ UNCHANGED <<result, broke>>
     \/ /\ s.fails = "withdraw"
        /\ todo' = [todo EXCEPT ![t] = <<withdraw, rest[Len(rest)]>>]
        /\ broke' = [broke EXCEPT ![t] = Append(@, s)]
        /\ UNCHANGED result
     \/ /\ s.fails = "withdraw_abort"
        /\ todo' = [todo EXCEPT ![t] = <<withdraw, Rollback(s.undo)>>]
        /\ broke' = [broke EXCEPT ![t] = Append(@, s)]
        /\ UNCHANGED result
  /\ UNCHANGED <<intent, actual, input, scope, dirty, disturbed>>

\* replace_cfg_with_oper ends a task that cannot go on.  Nobody looks at its
\* answer: when it fails the intent stays as it is.
RollBack(t) ==
  /\ Doing(t, "rollback")
  /\ todo' = [todo EXCEPT ![t] = <<>>]
  /\ result' = [result EXCEPT ![t] = "FAILED"]
  /\ \/ /\ Reachable(t)
        /\ intent' = Copied(intent, actual, This(t).on)
        /\ dirty' = Cleaned(This(t).on)
        /\ UNCHANGED <<broke, faults>>
     \/ /\ This(t).on # {}
        /\ IF Reachable(t) THEN Fault ELSE UNCHANGED faults
        /\ broke' = [broke EXCEPT ![t] = Append(@, This(t))]
        /\ UNCHANGED <<intent, dirty>>
  /\ UNCHANGED <<actual, input, scope, disturbed>>

\* The worker process dies, or a call ends in an exception of its own: the
\* calls made so far stand, no other one is made.
WorkerDies(t) ==
  /\ Running(t) /\ Fault
  /\ todo' = [todo EXCEPT ![t] = <<>>]
  /\ result' = [result EXCEPT ![t] = "LOST"]
  /\ UNCHANGED <<intent, actual, input, broke, scope, dirty, disturbed>>

Advance(t) ==
  \/ ReadData(t) \/ WriteData(t) \/ CommitData(t) \/ SyncData(t)
  \/ DryRunData(t) \/ CallFails(t) \/ RollBack(t)

-----------------------------------------------------------------------------
(* Properties of the tasks of every service *)

\* The step in which a task ends COMPLETED.
Completes(t) == Running(t) /\ result'[t] = "COMPLETED"

\* What a task that has ended may leave pending on a node: the changes of a
\* task that is there to write only or of a dry run, which has nothing to roll
\* back even when it fails itself, those of a worker that died, and those whose
\* rollback failed.
LeftByDesign(t) ==
  \/ input[t].do \in {"write", "erase"}
  \/ Running(t) \/ result[t] = "LOST"
  \/ result[t] = "COMPLETED" /\ input[t].dryrun
  \/ \E k \in DOMAIN broke[t] : broke[t][k].call \in {"dryrun", "rollback"}

\* The call that ended the program of t is undone on its own device only, and
\* that is not d: so are the calls that reset an interface.
BrokeResettingElsewhere(t, d) ==
  \E k \in DOMAIN broke[t] :
    broke[t][k].undo = broke[t][k].on /\ d \notin broke[t][k].on
=============================================================================
