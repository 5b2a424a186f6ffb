----------------------------- MODULE UniconfigData -----------------------------
(* The pieces of a node's configuration that the service workers address in   *)
(* UniConfig, and what they put there.  A node's configuration is a function  *)
(* from objects to contents; an object that is not there has the content      *)
(* None.  Contents are records, so that they can be told apart.               *)
EXTENDS Naturals, Sequences, FiniteSets, SequencesExt

CONSTANTS
  Id,         \* identifiers of devices that a task may name
  Node,       \* those that are mounted in UniConfig
  Interface,  \* names of interfaces, physical ones and VEs
  Name,       \* names of services
  Vlan,       \* identifiers of VLANs
  None,       \* no content; also "not given" in an input
  Unknown     \* the text UNKNOWN that stands for what a node does not know

ASSUME NodeAssumption == Node \subseteq Id /\ Unknown \notin Node

\* One constructor per URI of the workers.
Port(i)     == <<"interface", i>>   \* physical ports and VE interfaces
Policy(i)   == <<"policy", i>>
Stp(i)      == <<"stp", i>>
Isis(i)     == <<"isis", i>>
Instance(n) == <<"instance", n>>    \* network instances of VLL and VPLS
VlanOf(v)   == <<"vlan", v>>        \* vlans of the default network instance

Object == ({"interface", "policy", "stp", "isis"} \X Interface)
            \cup ({"instance"} \X Name) \cup ({"vlan"} \X Vlan)

\* An interface: auto negotiation, tag protocol, the switched-vlan of a port
\* of BI, the routed-vlan and the address of a VE interface.
Bare == [auto |-> None, tpid |-> None, mode |-> None, vlans |-> {},
         routed |-> None, ip |-> None]
PortData(auto, tpid) == [Bare EXCEPT !.auto = auto, !.tpid = tpid]

\* The policies of an interface, a set of "in" and "out".
PolicyData(which) == [policies |-> which]

\* The elements of a sequence that are in a set, in their order.  A fold can be
\* reasoned about, SelectSeq cannot.
Among(seq, set) ==
  FoldLeft(LAMBDA kept, x : IF x \in set THEN Append(kept, x) ELSE kept, <<>>, seq)

\* Connection points of a network instance.
LocalPoint(i, vlan)    == [type |-> "LOCAL", interface |-> i, subinterface |-> vlan]
RemotePoint(ip, vccid) == [type |-> "REMOTE", system |-> ip, vccid |-> vccid]
PointsOf(ni, type)     == Among(ni.points, {p \in Range(ni.points) : p.type = type})

\* A network instance; mtu is written only when it is neither missing nor 0.
NetworkInstance(net, mtu, points, interfaces, vlans) ==
  [net |-> net, mtu |-> IF mtu = 0 THEN None ELSE mtu, points |-> points,
   interfaces |-> interfaces, vlans |-> vlans]

\* set_attributes adds what the node says of the interface of an end.  It ends
\* in an exception when the interface is not there or has one policy only.
AttributesRead(conf, i) ==
  /\ conf[Port(i)] # None
  /\ conf[Policy(i)] \in {None, PolicyData({"in", "out"})}
PoliciesRead(conf, i) ==
  IF conf[Policy(i)] = None THEN {} ELSE conf[Policy(i)].policies

\* The instances of a kind a node has under one of the names.
InstancesAt(conf, net, names) ==
  {n \in names : conf[Instance(n)] # None /\ conf[Instance(n)].net = net}
=============================================================================
