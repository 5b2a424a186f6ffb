------------------------------ MODULE VllService ------------------------------
(* The tasks of vll_service_worker that change devices: a VLL is created on   *)
(* two ends, or deleted, as a dry run or with a commit.                       *)
(*                                                                            *)
(* An input is a record: service ("VLL"), do, dryrun, id, vccid, mtu and      *)
(* devices, two ends as in VllModel with interface_reset in addition.         *)
(* "create" and "delete" are the tasks that end with a dry run or a commit;   *)
(* "write" and "erase" only touch the intent.  A delete names the service and *)
(* finds its ends in UniConfig.                                               *)
EXTENDS UniconfigTasks, VllModel

CONSTANTS
  VllInput,   \* what the tasks may be started with
  NodeOrder   \* the nodes in the order UniConfig lists them

ASSUME NodeOrderAssumption == NodeOrder \in Seq(Node) /\ Range(NodeOrder) = Node

\* A service no promise is made of any more is told from one that has ends.
ASSUME SpoiltAssumption == \A nodes \in SUBSET Node : nodes # None

-----------------------------------------------------------------------------
(* Calls about the interface of an end.  VPLS makes them too, and BI some. *)

ReadInterface(end, undo) == <<Read(end.id, Port(end.interface), undo)>>

DeleteInterface(end, undo) == <<Delete(end.id, Port(end.interface), undo)>>

\* Mutant of PutInterface: the tag protocol is written as it was given.
PutInterface_AsGiven(end, undo) ==
  <<Put(end.id, Port(end.interface), PortData(end.auto, end.tpid), undo)>>

PutInterface(end, undo) ==
  <<Put(end.id, Port(end.interface), PortData(end.auto, LongTpid(end.tpid)), undo)>>

PutMinimalInterface(end, undo) == <<Put(end.id, Port(end.interface), Bare, undo)>>

\* The policy is deleted when it can be read, and only for an end that is
\* itself given one: for the others the deletion sends nothing.
ResetPolicy(end, undo) ==
  When(end.policy # {},
       <<[Read(end.id, Policy(end.interface), {}) EXCEPT !.fails = "skip"],
         Delete(end.id, Policy(end.interface), undo)>>)

PutPolicy(end, undo) ==
  When(end.policy # {},
       <<Put(end.id, Policy(end.interface), PolicyData(end.policy), undo)>>)

\* Nobody looks at whether the spanning tree could be switched off.
DisableStp(end) ==
  <<[Delete(end.id, Stp(end.interface), {}) EXCEPT !.fails = "ignore"]>>

Configure(end, undo) ==
  PutInterface(end, undo) \o PutPolicy(end, undo) \o DisableStp(end)

-----------------------------------------------------------------------------
(* The programs of the tasks *)

IsLocal(s) == s.devices[1].id = s.devices[2].id
EndIds(s)  == {s.devices[1].id, s.devices[2].id}

\* RemoteService wants a vccid and an address for both ends; without, it ends
\* the task in an exception.
Remote(s) == s.vccid # None /\ \A k \in 1..2 : s.devices[k].remote_ip # None

CreateVllLocal(s, undo) ==
  <<Put(s.devices[1].id, Instance(s.id), LocalInstance(s), undo)>>

CreateVllRemote(s, undo) ==
  IF ~Remote(s) THEN <<Raise>>
  ELSE <<Put(s.devices[1].id, Instance(s.id),
             RemoteInstance(s, s.devices[1], s.devices[2]), undo),
         Put(s.devices[2].id, Instance(s.id),
             RemoteInstance(s, s.devices[2], s.devices[1]), undo)>>

CreateVll(s, undo) ==
  IF IsLocal(s) THEN CreateVllLocal(s, undo) ELSE CreateVllRemote(s, undo)

RemoveVll(id, s, undo) == <<Delete(id, Instance(s.id), undo)>>

\* Mutant of DeleteVll: every service is taken for a local one.
DeleteVll_OneEnd(s, undo) == RemoveVll(s.devices[1].id, s, undo)

DeleteVll(s, undo) ==
  RemoveVll(s.devices[1].id, s, undo) \o
  When(~IsLocal(s), RemoveVll(s.devices[2].id, s, undo))

\* Mutants of Finish: a commit that fails is not rolled back; the devices are
\* committed one by one; a dry run ends with a commit.
Finish_NoRollback(dryrun, ids) ==
  IF dryrun THEN <<DryRun(ids)>> ELSE <<Commit(ids, {})>>
Finish_OneByOne(dryrun, ids) ==
  IF dryrun THEN <<DryRun(ids)>>
  ELSE LET list == SetToSeq(ids)
       IN [k \in DOMAIN list |-> Commit({list[k]}, ids)]
Finish_Commits(dryrun, ids) == <<Commit(ids, ids)>>

\* commit_response rolls back when the commit failed, dryrun_response has
\* nothing to roll back.
Finish(dryrun, ids) == IF dryrun THEN <<DryRun(ids)>> ELSE <<Commit(ids, ids)>>

ResetEnd(end, both) ==
  When(end.interface_reset,
       ResetPolicy(end, {end.id}) \o DeleteInterface(end, both))

ResetEnds(s) ==
  LET both == EndIds(s) IN
  ResetEnd(s.devices[1], both) \o ResetEnd(s.devices[2], both) \o
  When(\E k \in 1..2 : s.devices[k].interface_reset,
       <<Commit(both, both), SyncFromNet(both, both)>>)

\* Mutant of CreateVllTask: the interfaces are reset after they were written.
CreateVllTask_ResetLast(in) ==
  LET both == EndIds(in) IN
  Configure(in.devices[1], both) \o Configure(in.devices[2], both) \o
  When(~in.dryrun, ResetEnds(in)) \o CreateVll(in, both) \o
  Finish(in.dryrun, both)

CreateVllTask(in) ==
  LET both == EndIds(in) IN
  ReadInterface(in.devices[1], {}) \o ReadInterface(in.devices[2], {}) \o
  When(~in.dryrun, ResetEnds(in)) \o
  Configure(in.devices[1], both) \o Configure(in.devices[2], both) \o
  CreateVll(in, both) \o
  Finish(in.dryrun, both)

\* Service takes two ends, no more, and no tag protocol it does not know.
Parses(s) ==
  /\ Len(s.devices) = 2 /\ s.id \in Name
  /\ \A k \in 1..2 : s.devices[k].id \in Id /\ ValidTpid(s.devices[k].tpid)

\* What the tasks are asked to write is what a node can hold.
ASSUME VllInputAssumption ==
  /\ None \notin VllInput
  /\ \A in \in VllInput :
       /\ in.service = "VLL" /\ in.dryrun \in BOOLEAN
       /\ in.do \in {"create", "delete", "write", "erase"}
       /\ in.do # "delete" /\ Parses(in) =>
            /\ \A k \in 1..2 : LET end == in.devices[k] IN
                 /\ end.interface \in Interface
                 /\ PortData(end.auto, LongTpid(end.tpid)) \in Value
                 /\ end.policy # {} => PolicyData(end.policy) \in Value
            /\ IsLocal(in) => LocalInstance(in) \in Value
            /\ ~IsLocal(in) /\ Remote(in) => \A k \in 1..2 :
                 RemoteInstance(in, in.devices[k], in.devices[3 - k]) \in Value

DeleteVllTask(s, dryrun) ==
  DeleteVll(s, EndIds(s)) \o Finish(dryrun, EndIds(s))

-----------------------------------------------------------------------------
(* Next-state formulae *)

StartCreateVll(t) ==
  \E in \in {i \in VllInput : i.do = "create"} :
    IF Parses(in) THEN Begin(t, in, CreateVllTask(in), EndIds(in))
                  ELSE Begin(t, in, <<Raise>>, {})

\* The services the network has under a name, when it can be read.
FoundVll(n) ==
  IF VllReadable(actual, NodeOrder, {n}) THEN VllReadAll(actual, NodeOrder, {n}, "id")
                                         ELSE {}

\* There must be one such service, with two ends.
StartDeleteVll(t) ==
  \E in \in {i \in VllInput : i.do = "delete"} :
    \/ /\ Cardinality(FoundVll(in.id)) = 1
       /\ \E s \in FoundVll(in.id) :
            IF Parses(s) THEN Begin(t, in, DeleteVllTask(s, in.dryrun), EndIds(s))
                         ELSE Begin(t, in, <<Raise>>, {})
    \/ Cardinality(FoundVll(in.id)) # 1 /\ Begin(t, in, <<Raise>>, {})

\* VLL_service_create and VLL_service_delete write or delete the ends of their
\* input and roll nothing back; a transaction is the business of the workflow.
StartWriteVll(t) ==
  \E in \in {i \in VllInput : i.do \in {"write", "erase"}} :
    IF ~Parses(in) THEN Begin(t, in, <<Raise>>, {})
    ELSE Begin(t, in, IF in.do = "write" THEN CreateVll(in, {}) ELSE DeleteVll(in, {}),
               EndIds(in))

VllStart(t) ==
  MayBegin(t) /\ (StartCreateVll(t) \/ StartDeleteVll(t) \/ StartWriteVll(t))

VllNext == \E t \in Task : VllStart(t) \/ Advance(t) \/ WorkerDies(t)

VllSpec == Init /\ [][VllNext]_vars

-----------------------------------------------------------------------------
(* Properties *)

IsVll(t)   == input[t] # None /\ input[t].service = "VLL"
Creates(t) == IsVll(t) /\ input[t].do = "create" /\ scope[t] # {}
Deletes(t) == IsVll(t) /\ input[t].do = "delete"

\* The nodes that have an end of a service.
Holders(store, n) == {d \in Node : store[d][Instance(n)] # None}

\* All tasks that create n agree on its ends and none met another task.
Undisturbed(n) ==
  /\ \A t \in Task : IsVll(t) /\ input[t].id = n => t \notin disturbed
  /\ \A t, u \in Task : Creates(t) /\ Creates(u) /\ input[t].id = n
        /\ input[u].id = n => input[t].devices = input[u].devices

\* The code reasons for which a VLL task leaves a change of node d behind: a
\* remote service without vccid or address ends in an exception after its
\* interfaces were written; the policy of the second end cannot be reset, and
\* only that end is rolled back.
VllLeaves(t, d) ==
  /\ Creates(t)
  /\ \/ ~IsLocal(input[t]) /\ ~Remote(input[t])
     \/ /\ BrokeResettingElsewhere(t, d)
        /\ d = input[t].devices[1].id /\ input[t].devices[1].interface_reset

\* A VLL task that ends leaves no change in the intent of a node which a later
\* commit would carry to the network, but for those reasons.
VllLeavesNothing ==
  \A d \in Node : Pending(d) =>
    \E t \in Task : d \in dirty[t] /\ (LeftByDesign(t) \/ VllLeaves(t, d))

\* The worker implements the registry of services, in which the ends of a
\* service appear and disappear together.
Registry == INSTANCE ServiceRegistry WITH
  Spoilt <- None,
  ends <- [n \in Name |-> IF Undisturbed(n) THEN Holders(actual, n) ELSE None]
VllImplementsRegistry == Registry!Spec

\* A dry run alone never reaches the network, though it leaves its service in
\* the intent: only the nodes that had an instance of this name at first can
\* have one.  It takes the commit of a task it meets.
VllDryRunStaysHome ==
  \A t \in Task :
    (/\ Creates(t) /\ input[t].dryrun /\ t \notin disturbed
     /\ \A u \in Task \ {t} : IsVll(u) => input[u].id # input[t].id)
    => Holders(actual, input[t].id) \subseteq Holders(Initial, input[t].id)

\* The two ends as the network should have them: each with the address of the
\* other, on interfaces that are configured as asked.
InstalledEnd(store, s, end) ==
  /\ store[end.id][Port(end.interface)] = PortData(end.auto, LongTpid(end.tpid))
  /\ end.policy # {} =>
       store[end.id][Policy(end.interface)] = PolicyData(end.policy)
  /\ store[end.id][Instance(s.id)] # None
Installed(store, s) ==
  /\ \A k \in 1..2 : InstalledEnd(store, s, s.devices[k])
  /\ ~IsLocal(s) =>
       \A k \in 1..2 :
         store[s.devices[k].id][Instance(s.id)].points
           = <<LocalPoint(s.devices[k].interface, s.devices[k].vlan),
               RemotePoint(s.devices[3 - k].remote_ip, s.vccid)>>

\* Two ends on one interface ask the same of it; otherwise what the second end
\* asks for replaces what the first one does.
Consistent(s) ==
  LET end1 == s.devices[1]
      end2 == s.devices[2]
  IN end1.id = end2.id /\ end1.interface = end2.interface =>
       /\ end1.auto = end2.auto /\ LongTpid(end1.tpid) = LongTpid(end2.tpid)
       /\ end1.policy = end2.policy

\* A creation that completes undisturbed has put both ends, with the
\* interfaces and policies asked for, on the network: resetting an interface
\* first and reading the device again takes nothing of it back.
VllCommitInstalls ==
  [][\A t \in Task :
       Completes(t) /\ Creates(t) /\ ~input[t].dryrun /\ t \notin disturbed
         => (Consistent(input[t]) => Installed(actual', input[t]))]_vars

\* The tasks of the name of t met nobody and share a node with t: none of them
\* puts an end elsewhere while t is on its way.
Beside(t) ==
  \A u \in Task : IsVll(u) /\ input[u].id = input[t].id =>
    u \notin disturbed /\ (scope[u] = {} \/ scope[u] \cap scope[t] # {})

\* A deletion that completes undisturbed leaves no end on any node, not only
\* on those it found: a service of which an end is missing, or has too many,
\* cannot be deleted.
VllDeleteIsComplete ==
  [][\A t \in Task :
       Completes(t) /\ Deletes(t) /\ ~input[t].dryrun /\ Beside(t)
         => Holders(actual', input[t].id) = {}]_vars

\* The policies of an end: those asked for, or else those it had.
PolicyOf(end) ==
  IF end.policy # {} THEN end.policy ELSE PoliciesRead(actual[end.id], end.interface)

\* What reading gives back of an end.
AsRead(end, local) ==
  [id |-> end.id, interface |-> end.interface, vlan |-> end.vlan,
   remote_ip |-> IF local THEN None ELSE end.remote_ip, policy |-> PolicyOf(end),
   tpid |-> ShortTpid(end.tpid), auto |-> IF end.auto = FALSE THEN None ELSE end.auto]

\* What was just created reads back by its name as one service with the ends
\* and addresses of the input, and so can be deleted; unless an end has one
\* policy only, and then reading fails.
VllCreatedReadsBack ==
  [][\A t \in Task :
       Completes(t) /\ Creates(t) /\ ~input[t].dryrun /\ Undisturbed(input[t].id)
         => LET s == input[t]
                onesided == \E k \in 1..2 : PolicyOf(s.devices[k]) \in {{"in"}, {"out"}}
                read == VllReadAll(actual', NodeOrder, {s.id}, "id")
            IN /\ VllReadable(actual', NodeOrder, {s.id}) = ~onesided
               /\ ~onesided =>
                    /\ Cardinality(read) = 1
                    /\ \A x \in read :
                         /\ x.id = s.id /\ (~IsLocal(s) => x.vccid = s.vccid)
                         /\ ToSet(x.devices) =
                              {AsRead(s.devices[k], IsLocal(s)) : k \in 1..2}]_vars
=============================================================================
