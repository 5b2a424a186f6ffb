------------------------------ MODULE VplsService ------------------------------
(* The tasks of vpls_service_worker that change devices: a VPLS is created on *)
(* two or more devices, deleted, or a device is added to it or removed from   *)
(* it, as a dry run or with a commit.                                         *)
(*                                                                            *)
(* An input is a record: service ("VPLS"), do, dryrun, id, vccid, mtu and     *)
(* devices, a sequence of ends (see VllService).  Several ends may be on one  *)
(* device.  A task that deletes, adds or removes finds the service in         *)
(* UniConfig; one that removes names the devices only (field removed).        *)
EXTENDS VllService, VplsModel

CONSTANT VplsInput    \* what the tasks may be started with

ASSUME VplsInputAssumption ==
  /\ None \notin VplsInput
  /\ \A in \in VplsInput :
       /\ in.service = "VPLS" /\ in.dryrun \in BOOLEAN
       /\ in.do \in {"create", "delete", "add", "remove", "write", "erase"}
       /\ in.devices \in Seq(Range(in.devices))
       /\ in.do = "remove" => IsFiniteSet(in.removed)

-----------------------------------------------------------------------------
(* The programs of the tasks *)

VplsIds(ends) == {ends[k].id : k \in DOMAIN ends} \ {Unknown}

\* An end is reset, committed and read again before it is configured, and what
\* fails is undone on its device only.
ResetVplsEnd(end) ==
  LET alone == {end.id} IN
  ResetPolicy(end, alone) \o DeleteInterface(end, alone) \o
  <<Commit(alone, alone), SyncFromNet(alone, alone)>>

CreateVplsEnd(end, dryrun, all) ==
  ReadInterface(end, all) \o
  When(~dryrun /\ end.interface_reset, ResetVplsEnd(end)) \o
  Configure(end, all)

\* service_create_vpls_instance: the instance of each device, in any order.
\* The one that cannot be written is deleted.
CreateInstances(s, ends, order, all, fails) ==
  [k \in DOMAIN order |->
     [Put(order[k], Instance(s.id), VplsInstance(s, ends, order[k]), all)
        EXCEPT !.fails = fails]]

RemoveVpls(id, s, undo) == <<Delete(id, Instance(s.id), undo)>>

DeleteInstances(s, order, undo) ==
  FlattenSeq([k \in DOMAIN order |-> RemoveVpls(order[k], s, undo)])

CreateVplsTask(in, order) ==
  LET all == VplsIds(in.devices) IN
  FlattenSeq([k \in DOMAIN in.devices |->
                CreateVplsEnd(in.devices[k], in.dryrun, all)]) \o
  CreateInstances(in, in.devices, order, all, "withdraw_abort") \o
  Finish(in.dryrun, all)

DeleteVplsTask(s, order, dryrun) ==
  DeleteInstances(s, order, KnownIds(s)) \o Finish(dryrun, KnownIds(s))

\* Mutant of AddDeviceTask: the devices that have the service are not written.
AddDeviceTask_NewOnly(s, ends, order, dryrun) ==
  CreateInstances(s, ends, SelectSeq(order, LAMBDA d : d \notin KnownIds(s)),
                  {}, "withdraw") \o
  Finish(dryrun, VplsIds(ends))

\* Nobody looks at whether all instances could be written.
AddDeviceTask(s, ends, order, dryrun) ==
  CreateInstances(s, ends, order, {}, "withdraw") \o
  Finish(dryrun, VplsIds(ends))

\* Mutant of RemoveDeviceTask: the commit names the devices left only.
RemoveDeviceTask_Forgets(s, ends, order, removed, dryrun, raises) ==
  LET deletes == [k \in DOMAIN removed |->
                    [RemoveVpls(removed[k], s, {})[1] EXCEPT !.fails = "overlook"]]
  IN deletes \o CreateInstances(s, ends, order, {}, "withdraw") \o
     Finish(dryrun, VplsIds(ends))

\* task_failed is asked about the list of answers in place of the answer: what
\* that gives, false or an exception, is not known here.
RemoveDeviceTask(s, ends, order, removed, dryrun, raises) ==
  LET deletes == [k \in DOMAIN removed |->
                    [RemoveVpls(removed[k], s, {})[1] EXCEPT !.fails = "overlook"]]
  IN IF raises /\ removed # <<>> THEN <<deletes[1], Raise>>
     ELSE deletes \o CreateInstances(s, ends, order, {}, "withdraw") \o
          Finish(dryrun, VplsIds(ends) \cup Range(removed))

-----------------------------------------------------------------------------
(* Next-state formulae *)

Refuse(t, in) == Begin(t, in, <<Raise>>, {})

StartCreateVpls(t) ==
  \E in \in {i \in VplsInput : i.do = "create"} :
    LET ids == VplsIds(in.devices) IN
    IF Cardinality(ids) < 2 THEN Refuse(t, in)
    ELSE \E order \in SetToSeqs(ids) : Begin(t, in, CreateVplsTask(in, order), ids)

\* The service the network has under a name, when it can be read.  Its ends
\* are a list in the code, so they are finitely many.
FoundVpls(n, names) ==
  IF VplsReadable(actual, NodeOrder, names)
  THEN {s \in VplsReadAll(actual, NodeOrder, names) :
          s.id = n /\ IsFiniteSet(s.devices)}
  ELSE {}

StartDeleteVpls(t) ==
  \E in \in {i \in VplsInput : i.do = "delete"} :
    LET found == FoundVpls(in.id, {in.id}) IN
    IF found = {} THEN Refuse(t, in)
    ELSE \E s \in found : \E order \in SetToSeqs(KnownIds(s)) :
           Begin(t, in, DeleteVplsTask(s, order, in.dryrun), KnownIds(s))

\* To add and to remove, all services are read.
StartAddDevice(t) ==
  \E in \in {i \in VplsInput : i.do = "add"} :
    LET found == FoundVpls(in.id, Name) IN
    IF found = {} THEN Refuse(t, in)
    ELSE \E s \in found :
           LET ends == SetToSeq(s.devices) \o in.devices IN
           \E order \in SetToSeqs(VplsIds(ends)) :
             Begin(t, in, AddDeviceTask(s, ends, order, in.dryrun), VplsIds(ends))

\* Two ends must be left, of whatever device.
EnoughLeft(ends) == Len(ends) >= 2

StartRemoveDevice(t) ==
  \E in \in {i \in VplsInput : i.do = "remove"} :
    LET found == FoundVpls(in.id, Name) IN
    IF found = {} THEN Refuse(t, in)
    ELSE \E s \in found :
           LET ends == SetToSeq({e \in s.devices : e.id \notin in.removed})
               ids  == VplsIds(ends)
           IN IF ~EnoughLeft(ends) THEN Refuse(t, in)
              ELSE \E order \in SetToSeqs(ids), removed \in SetToSeqs(in.removed),
                      raises \in BOOLEAN :
                     Begin(t, in,
                       RemoveDeviceTask(s, ends, order, removed, in.dryrun, raises),
                       ids \cup in.removed)

\* VPLS_service_create and VPLS_service_delete only touch the intent.
StartWriteVpls(t) ==
  \E in \in {i \in VplsInput : i.do \in {"write", "erase"}} :
    LET ids == VplsIds(in.devices) IN
    \E order \in SetToSeqs(ids) :
      Begin(t, in,
        IF in.do = "erase" THEN DeleteInstances(in, order, {})
        ELSE CreateInstances(in, in.devices, order, {}, "withdraw_abort"), ids)

VplsStart(t) ==
  /\ MayBegin(t)
  /\ \/ StartCreateVpls(t) \/ StartDeleteVpls(t)
     \/ StartAddDevice(t)  \/ StartRemoveDevice(t) \/ StartWriteVpls(t)

VplsNext == \E t \in Task : VplsStart(t) \/ Advance(t) \/ WorkerDies(t)

VplsSpec == Init /\ [][VplsNext]_vars

-----------------------------------------------------------------------------
(* Properties *)

IsVpls(t)       == input[t] # None /\ input[t].service = "VPLS"
DoesVpls(t, do) == IsVpls(t) /\ input[t].do = do /\ scope[t] # {}

\* The code reasons for which a VPLS task leaves a change of node d behind: the
\* reset of an end on another device failed, and only that device was rolled
\* back; or the removal of a device ended in an exception.
VplsLeaves(t, d) ==
  \/ DoesVpls(t, "create") /\ BrokeResettingElsewhere(t, d)
  \/ /\ DoesVpls(t, "remove") /\ d \in input[t].removed
     /\ \A k \in DOMAIN broke[t] : broke[t][k].call = "write"

\* A VPLS task that ends leaves no change in the intent of a node which a
\* later commit would carry to the network, but for those reasons.
VplsLeavesNothing ==
  \A d \in Node : Pending(d) =>
    \E t \in Task : d \in dirty[t] /\ (LeftByDesign(t) \/ VplsLeaves(t, d))

\* The ends asked for under a name, by whoever created the service or added a
\* device to it.
EndsAsked(n) ==
  UNION {Range(input[t].devices) :
           t \in {u \in Task : /\ DoesVpls(u, "create") \/ DoesVpls(u, "add")
                               /\ input[u].id = n}}

\* One task created the service, none met another task, and no write failed
\* while a device was added or removed: these tasks commit whatever they have
\* when an instance could not be written.
Calm(n) ==
  /\ \A t \in Task : input[t] # None /\ input[t].id = n =>
       t \notin disturbed /\ (broke[t] # <<>> => DoesVpls(t, "create"))
  /\ \A t, u \in Task : DoesVpls(t, "create") /\ DoesVpls(u, "create")
       /\ input[t].id = n /\ input[u].id = n => t = u

\* The nodes that have an end of a VPLS; a VLL may have its name.
Members(store, n) == {d \in Node : InstancesAt(store[d], "L2VSI", {n}) # {}}

\* What the inputs and the first store are like where a VPLS is meshed: whoever
\* asks for a device gives it the same address, which is no other's, and no node
\* has an instance of the services at first.
AddressesAgree ==
  \A in, other \in VplsInput : \A e \in Range(in.devices), f \in Range(other.devices) :
    /\ e.id # Unknown /\ e.remote_ip # Unknown
    /\ e.id = f.id <=> e.remote_ip = f.remote_ip
Fresh == \A n \in Name : Members(Initial, n) = {}

\* What they are like where a VPLS can be read: a device has the interfaces that
\* are asked for and both policies of an interface or none, and an interface is
\* reset for one service only, which alone asks for it.
InterfacesServe ==
  /\ \A in \in VplsInput : \A e \in Range(in.devices) :
       /\ e.policy \in {{}, {"in", "out"}}
       /\ e.id \in Node =>
            e.interface \in Interface /\ Initial[e.id][Port(e.interface)] # None
       /\ e.interface_reset => \A other \in VplsInput : \A f \in Range(other.devices) :
            f.id = e.id /\ f.interface = e.interface => other.id = in.id
  /\ \A d \in Node, i \in Interface :
       Initial[d][Policy(i)] \in {None, PolicyData({"in", "out"})}

\* The addresses asked for the devices ids.
AddressesOf(n, ids) == {e.remote_ip : e \in {x \in EndsAsked(n) : x.id \in ids}}

\* The network holds a full mesh: every device that has an instance of the
\* service has in it the addresses of all the others, and no other address.
VplsFullMesh ==
  \A n \in Name : Calm(n) =>
    \A d \in Members(actual, n) :
      {p.system : p \in Range(PointsOf(actual[d][Instance(n)], "REMOTE"))}
        = AddressesOf(n, Members(actual, n) \ {d})

\* The interfaces and VLANs that a store has in the service, with their nodes.
EndsHeld(store, n) ==
  UNION {{<<d, p.interface, p.subinterface>> :
            p \in Range(PointsOf(store[d][Instance(n)], "LOCAL"))} :
           d \in Members(store, n)}

\* What the network has of a service reads back as the ends it has, each with
\* its own address: the merging of what the devices know of each other finds
\* out whose address is whose.
VplsReadsBack ==
  \A n \in Name :
    Calm(n) /\ Cardinality(Members(actual, n)) >= 2 =>
      /\ VplsReadable(actual, NodeOrder, {n})
      /\ \A s \in VplsReadAll(actual, NodeOrder, {n}) :
           s.devices = UNION {{VplsEnd(e[1], e[2], e[3], ip) :
                                 ip \in AddressesOf(n, {e[1]})} :
                                e \in EndsHeld(actual, n)}

\* A task that completes without meeting another one or a failure changes the
\* ends of its service as it was asked to and loses none of the others: what
\* it writes is computed from what it read, and replaces every instance.
VplsChangesMembers ==
  [][\A t \in Task :
       Completes(t) /\ IsVpls(t) /\ ~input[t].dryrun /\ broke[t] = <<>>
         /\ t \notin disturbed
       => LET n     == input[t].id
              asked == {<<e.id, e.interface, e.vlan>> : e \in Range(input[t].devices)}
              old   == EndsHeld(actual, n)
              new   == EndsHeld(actual', n)
          IN \/ input[t].do = "create" /\ new \ asked = {e \in old : e[1] \notin scope[t]}
                                      /\ asked \subseteq new
             \/ input[t].do = "add"    /\ new = old \cup asked
             \/ input[t].do = "remove" /\ new = {e \in old : e[1] \notin input[t].removed}
             \/ input[t].do = "delete" /\ new = {}
             \/ input[t].do \in {"write", "erase"} /\ new = old]_vars

\* vpls_service_worker.py:332, "VPLS must have at least 2 devices left": when a
\* device was removed from a service, two devices or more still have it.
TwoDevicesLeft ==
  [][\A t \in Task :
       Completes(t) /\ DoesVpls(t, "remove") /\ ~input[t].dryrun
         /\ t \notin disturbed /\ broke[t] = <<>>
       => Cardinality(Holders(actual', input[t].id)) >= 2]_vars
=============================================================================
