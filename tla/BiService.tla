------------------------------- MODULE BiService -------------------------------
(* The tasks of bi_service_worker: internet access over a VLAN, a VE          *)
(* interface in it and IS-IS on the VE, created on or deleted from one or     *)
(* several devices, and the reading of what the nodes have of it (bi_model).  *)
(*                                                                            *)
(* An input is a record: service ("BI"), do (create, delete, erase), dryrun,  *)
(* id and devices, a sequence of ends: id, interface, interface_reset, vlan,  *)
(* untagged, ve_interface, ip, auto, tpid, policy.  Unlike VLL and VPLS, a    *)
(* deletion takes the ends from its input.                                    *)
EXTENDS VllService

CONSTANT BiInput    \* what the tasks may be started with

VlanData(s) == [name |-> s.id]

ASSUME BiInputAssumption ==
  /\ None \notin BiInput /\ [passive |-> TRUE] \in Value
  /\ \A in \in BiInput :
       /\ in.service = "BI" /\ in.dryrun \in BOOLEAN
       /\ in.do \in {"create", "delete", "erase"}
       /\ in.devices \in Seq(Range(in.devices)) /\ VlanData(in) \in Value
       /\ \A end \in Range(in.devices) :
            end.vlan \in Vlan /\ {end.interface, end.ve_interface} \subseteq Interface

-----------------------------------------------------------------------------
(* Writing *)

\* Mutant of BiPort: auto_negotiate is written beside the VLAN.
BiPort_Both(end) ==
  [PortData(end.auto, LongTpid(end.tpid)) EXCEPT
     !.mode = IF end.untagged THEN "ACCESS" ELSE "TRUNK", !.vlans = {end.vlan}]

\* auto_negotiate is written in place of the VLAN the port switches, not
\* beside it.
BiPort(end) ==
  IF end.auto # None THEN PortData(end.auto, LongTpid(end.tpid))
  ELSE [PortData(None, LongTpid(end.tpid)) EXCEPT
          !.mode = IF end.untagged THEN "ACCESS" ELSE "TRUNK", !.vlans = {end.vlan}]

VeData(end) == [Bare EXCEPT !.routed = end.vlan, !.ip = end.ip]

BiIds(s) == {s.devices[k].id : k \in DOMAIN s.devices}

\* What fails while an end is reset is undone on all devices, but for the
\* deletion of its policy.
ResetBiEnd(end, all) ==
  ResetPolicy(end, {end.id}) \o DeleteInterface(end, all) \o
  <<Commit({end.id}, all), SyncFromNet({end.id}, all)>>

ConfigureBiEnd(s, end, all) ==
  <<Put(end.id, VlanOf(end.vlan), VlanData(s), all),
    Put(end.id, Port(end.interface), BiPort(end), all)>> \o
  PutPolicy(end, all) \o DisableStp(end) \o
  <<Put(end.id, Port(end.ve_interface), VeData(end), all),
    Put(end.id, Isis(end.ve_interface), [passive |-> TRUE], all)>>

\* Mutant of CreateBiTask: nothing is rolled back.
CreateBiTask_NoUndo(in) ==
  FlattenSeq([k \in DOMAIN in.devices |-> ConfigureBiEnd(in, in.devices[k], {})]) \o
  Finish(in.dryrun, {})

CreateBiTask(in) ==
  FlattenSeq([k \in DOMAIN in.devices |->
    When(~in.dryrun /\ in.devices[k].interface_reset,
         ResetBiEnd(in.devices[k], BiIds(in))) \o
    ConfigureBiEnd(in, in.devices[k], BiIds(in))]) \o
  Finish(in.dryrun, BiIds(in))

\* Mutant of DeleteBiEnd: the VE interface stays.
DeleteBiEnd_KeepsVe(end, all) ==
  PutMinimalInterface(end, all) \o
  <<Delete(end.id, VlanOf(end.vlan), all)>>

\* IS-IS and the policies stay.
DeleteBiEnd(end, all) ==
  <<Delete(end.id, Port(end.ve_interface), all)>> \o
  PutMinimalInterface(end, all) \o
  <<Delete(end.id, VlanOf(end.vlan), all)>>

DeleteBiEnds(in, all) ==
  FlattenSeq([k \in DOMAIN in.devices |-> DeleteBiEnd(in.devices[k], all)])

DeleteBiTask(in) == DeleteBiEnds(in, BiIds(in)) \o Finish(in.dryrun, BiIds(in))

\* bi_service_delete only touches the intent.
EraseBiTask(in) == DeleteBiEnds(in, {})

-----------------------------------------------------------------------------
(* Reading: service_read_all *)

\* VLAN 1 is nobody's service, nor is a VLAN without a name.
BiVlans(conf) ==
  {v \in Vlan : v # 1 /\ conf[VlanOf(v)] # None /\ conf[VlanOf(v)].name # None}

\* The ports that are in a VLAN, and the VE interfaces that are routed to it.
PortsIn(conf, v) ==
  {i \in Interface : conf[Port(i)] # None /\ v \in conf[Port(i)].vlans}
VesIn(conf, v) ==
  {i \in Interface : conf[Port(i)] # None /\ conf[Port(i)].routed = v}

\* The ends of a VLAN of a node: one per port, or one with the port UNKNOWN.
\* A port with an untagged VLAN is in mode ACCESS, or NATIVE, as a TRUNK with
\* a native VLAN is called here.
BiEnds(node, conf, v) ==
  LET one == Cardinality(VesIn(conf, v)) = 1
      ve  == CHOOSE i \in VesIn(conf, v) : TRUE
      End(i, untagged) ==
        [id |-> node, vlan |-> v, interface |-> i, untagged |-> untagged,
         ve_interface |-> IF one THEN ve ELSE None,
         ip |-> IF one THEN conf[Port(ve)].ip ELSE None]
  IN IF PortsIn(conf, v) = {} THEN {End(Unknown, FALSE)}
     ELSE {End(i, conf[Port(i)].mode \in {"ACCESS", "NATIVE"}) : i \in PortsIn(conf, v)}

\* One service per node and VLAN: those of different nodes are not merged.
BiReadAll(store) ==
  {[id |-> store[v[1]][VlanOf(v[2])].name, devices |-> BiEnds(v[1], store[v[1]], v[2])] :
     v \in {x \in Node \X Vlan : x[2] \in BiVlans(store[x[1]])}}

BiReadable(store) ==
  \A d \in Node : \A v \in BiVlans(store[d]) : \A i \in PortsIn(store[d], v) :
    AttributesRead(store[d], i)

-----------------------------------------------------------------------------
(* Next-state formulae *)

BiParses(s) == \A k \in DOMAIN s.devices : ValidTpid(s.devices[k].tpid)

BiTask(in) ==
  CASE in.do = "create" -> CreateBiTask(in)
    [] in.do = "delete" -> DeleteBiTask(in)
    [] in.do = "erase"  -> EraseBiTask(in)

StartBi(t) ==
  \E in \in BiInput :
    IF BiParses(in) THEN Begin(t, in, BiTask(in), BiIds(in))
                    ELSE Begin(t, in, <<Raise>>, {})

BiStart(t) == MayBegin(t) /\ StartBi(t)

BiNext == \E t \in Task : BiStart(t) \/ Advance(t) \/ WorkerDies(t)

BiSpec == Init /\ [][BiNext]_vars

-----------------------------------------------------------------------------
(* Properties *)

IsBi(t)       == input[t] # None /\ input[t].service = "BI"
DoesBi(t, do) == IsBi(t) /\ input[t].do = do /\ scope[t] # {}

\* The code reason for which a BI task leaves a change behind: the deletion of
\* the policy of an end failed, and only the device of that end was rolled
\* back, after the ends before it were written.
BiLeaves(t, d) == DoesBi(t, "create") /\ BrokeResettingElsewhere(t, d)

\* The BI tasks are about one service with the same ends and none met another
\* task.
BiQuiet ==
  /\ \A t \in Task : IsBi(t) => t \notin disturbed
  /\ \A t, u \in Task : IsBi(t) /\ IsBi(u) =>
       input[t].id = input[u].id /\ input[t].devices = input[u].devices

\* The ends of a service on one node agree on the VE interface of a VLAN, and
\* on its address; what they configure as a port is no VE interface; and the
\* nodes have no part of them at first.
EndsAgree(s) ==
  \A k \in DOMAIN s.devices :
    LET end == s.devices[k] IN
    /\ end.id \in Node =>
         Initial[end.id][VlanOf(end.vlan)] = None /\ Initial[end.id][Port(end.ve_interface)] = None
    /\ \A j \in DOMAIN s.devices :
         LET other == s.devices[j] IN
         other.id = end.id =>
           /\ other.interface # end.ve_interface
           /\ other.vlan = end.vlan <=> other.ve_interface = end.ve_interface
           /\ other.vlan = end.vlan => other.ip = end.ip

\* The VLAN of the end k of s is on its device when a later end is reset there.
ResetAfter(s, k) ==
  \E i, j \in DOMAIN s.devices :
    /\ i < j /\ s.devices[j].interface_reset
    /\ s.devices[i].id = s.devices[k].id /\ s.devices[j].id = s.devices[k].id
    /\ s.devices[i].vlan = s.devices[k].vlan

EndWhole(store, s, end) ==
  /\ end.id \in Node
  /\ store[end.id][VlanOf(end.vlan)] = VlanData(s)
  /\ store[end.id][Port(end.ve_interface)] = VeData(end)
  /\ store[end.id][Isis(end.ve_interface)] # None
EndGone(store, end) ==
  end.id \in Node =>
    store[end.id][VlanOf(end.vlan)] = None /\ store[end.id][Port(end.ve_interface)] = None

\* VLAN, VE and IS-IS of an end come to the network together, and with all
\* other ends of their service: a creation that has failed has left no part of
\* an end there.  The commit that resets a later end on the same device is the
\* exception: it carries the ends that are written by then.
BiWholeOrNothing ==
  BiQuiet =>
    \A t \in {u \in Task : DoesBi(u, "create")} :
      LET s == input[t] IN
      \A k \in DOMAIN s.devices :
        LET end == s.devices[k] IN
        /\ EndWhole(actual, s, end) \/ EndGone(actual, end)
        /\ (EndWhole(actual, s, end) /\ ~ResetAfter(s, k)) =>
             \A j \in DOMAIN s.devices :
               \/ EndWhole(actual, s, s.devices[j])
               \/ \E u \in Task : /\ DoesBi(u, "delete")
                                  /\ s.devices[j].id \in BiIds(input[u])

\* An end that was created reads back on its node: with its port, unless
\* auto_negotiate was given, for then the port is in no VLAN; with its VE and
\* its address.  After a deletion of the same ends none of them reads back,
\* though IS-IS still names their VE interfaces.
BiReadsBack ==
  [][\A t \in Task :
       Completes(t) /\ IsBi(t) /\ input[t].do # "erase" /\ ~input[t].dryrun /\ BiQuiet
       => LET s == input[t]
              read == UNION {x.devices : x \in {y \in BiReadAll(actual') : y.id = s.id}}
          IN \A k \in DOMAIN s.devices :
               LET end == s.devices[k]
                   here == {e \in read : e.id = end.id /\ e.vlan = end.vlan}
                   back == [id |-> end.id, vlan |-> end.vlan,
                            interface |-> end.interface, untagged |-> end.untagged,
                            ve_interface |-> end.ve_interface, ip |-> end.ip]
               IN IF s.do = "delete" THEN here = {}
                  ELSE IF end.auto = None THEN back \in here
                  ELSE \A e \in here : e.interface # end.interface]_vars
=============================================================================
