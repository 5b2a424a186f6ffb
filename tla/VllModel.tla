------------------------------- MODULE VllModel -------------------------------
(* The data of the VLL service: what vll_worker writes of a service into the  *)
(* network instances of its devices, and how service_read_all of              *)
(* vll_service_worker, with the classes of vll_model, puts the services       *)
(* together again from what the nodes hold.  Only functions, no state.        *)
(*                                                                            *)
(* A service is a record: id, vccid, mtu and devices, the sequence of its     *)
(* ends.  An end is a record: id, interface, vlan, remote_ip, auto            *)
(* (auto_negotiate), tpid and policy (the set of in_policy and out_policy).   *)
EXTENDS UniconfigData

-----------------------------------------------------------------------------
(* The tag protocol identifier has a short and a long name *)

SwitchTpid == "0x8100" :> "TPID_0X8100" @@ "0x8A88" :> "TPID_0X8A88" @@
              "0x9200" :> "TPID_0X9200" @@ "0x9100" :> "TPID_0X9100"

ValidTpid(x) == x = None \/ x \in DOMAIN SwitchTpid \cup Range(SwitchTpid)

\* Device.__init__ keeps the short name, whichever it is given.
ShortTpid(x) == IF \E s \in DOMAIN SwitchTpid : SwitchTpid[s] = x
                THEN CHOOSE s \in DOMAIN SwitchTpid : SwitchTpid[s] = x ELSE x

\* put_interface writes the long name.
LongTpid(x) == IF x = None THEN None ELSE SwitchTpid[ShortTpid(x)]

-----------------------------------------------------------------------------
(* Writing: the requests of vll_worker *)

Given(vlan) == IF vlan = None THEN <<>> ELSE <<vlan>>

RemoteInstance(s, end, other) ==
  NetworkInstance("L2P2P", s.mtu,
    <<LocalPoint(end.interface, end.vlan), RemotePoint(other.remote_ip, s.vccid)>>,
    <<end.interface>>, Given(end.vlan))

\* The vlans of the second end replace those of the first.
LocalInstance(s) ==
  LET end1 == s.devices[1]
      end2 == s.devices[2]
  IN NetworkInstance("L2P2P", s.mtu,
       <<LocalPoint(end1.interface, end1.vlan), LocalPoint(end2.interface, end2.vlan)>>,
       IF end1.interface = end2.interface THEN <<end1.interface>>
                                          ELSE <<end1.interface, end2.interface>>,
       IF end2.vlan = None THEN Given(end1.vlan) ELSE Given(end2.vlan))

-----------------------------------------------------------------------------
(* Reading: service_read_all *)

VllType(ni) ==
  LET types == {ni.points[k].type : k \in DOMAIN ni.points} IN
  CASE Len(ni.points) # 2           -> "no VLL"
    [] types = {"LOCAL"}            -> "LOCAL"
    [] types = {"LOCAL", "REMOTE"}  -> "REMOTE"
    [] OTHER                        -> "UNKNOWN"

EndRead(node, conf, p, ip) ==
  [id |-> node, interface |-> p.interface, vlan |-> p.subinterface,
   remote_ip |-> ip, policy |-> PoliciesRead(conf, p.interface),
   tpid |-> ShortTpid(conf[Port(p.interface)].tpid),
   auto |-> conf[Port(p.interface)].auto]

\* The other end of a remote service, which its node does not know.
UnknownEnd == [id |-> Unknown, interface |-> Unknown, vlan |-> None,
               remote_ip |-> Unknown, policy |-> {}, tpid |-> None, auto |-> None]

ParseLocal(node, conf, name) ==
  LET points == conf[Instance(name)].points IN
  [id |-> name, vccid |-> None, mtu |-> 0,
   devices |-> [k \in 1..2 |-> EndRead(node, conf, points[k], None)]]

ParseRemote(node, conf, name) ==
  LET ni     == conf[Instance(name)]
      remote == PointsOf(ni, "REMOTE")[1]
  IN [id |-> name, vccid |-> remote.vccid,
      mtu |-> IF ni.mtu = None THEN 0 ELSE ni.mtu,
      devices |-> <<EndRead(node, conf, PointsOf(ni, "LOCAL")[1], remote.system),
                    UnknownEnd>>]

\* Mutant of TurnedAround: each end keeps the address its node holds.
TurnedAround_Not(ends) == ends

\* Two halves become one service.  The end of a node carries the address of
\* its peer, for that is what the node holds, until they are turned around.
TurnedAround(ends) ==
  IF Len(ends) # 2 THEN ends
  ELSE <<[ends[1] EXCEPT !.remote_ip = ends[2].remote_ip],
         [ends[2] EXCEPT !.remote_ip = ends[1].remote_ip]>>

Merge(s, other) ==
  LET Known(ends) == Among(ends, {e \in Range(ends) : e.id # Unknown}) IN
  [s EXCEPT !.devices = TurnedAround(Known(s.devices) \o Known(other.devices))]

\* aggregate_l2p2p_remote: the halves with one key ("id" or "vccid"), in the
\* order of the nodes.
Aggregate(halves, key) ==
  {LET group == Among(halves, {s \in Range(halves) : s[key] = k})
   IN FoldLeft(Merge, Head(group), Tail(group)) :
     k \in {halves[n][key] : n \in DOMAIN halves}}

\* to_dict leaves out what Python takes for false.
EndToDict(e)     == [e EXCEPT !.auto = IF @ = FALSE THEN None ELSE @]
ServiceToDict(s) == [s EXCEPT !.devices = [k \in DOMAIN @ |-> EndToDict(@[k])]]

\* The instances of a type, node by node as UniConfig lists them.
VllsOf(store, nodes, names, type) ==
  FlattenSeq([k \in DOMAIN nodes |->
    LET conf  == store[nodes[k]]
        found == {n \in InstancesAt(conf, "L2P2P", names) :
                    VllType(conf[Instance(n)]) = type}
        list  == SetToSeq(found)
    IN [j \in DOMAIN list |-> [node |-> nodes[k], name |-> list[j]]]])

\* One interface that cannot be read ends the whole reading in an exception.
VllReadable(store, nodes, names) ==
  \A k \in DOMAIN nodes :
    \A n \in InstancesAt(store[nodes[k]], "L2P2P", names) :
      LET ni == store[nodes[k]][Instance(n)] IN
      VllType(ni) \in {"LOCAL", "REMOTE"} =>
        \A p \in Range(PointsOf(ni, "LOCAL")) :
          AttributesRead(store[nodes[k]], p.interface)

\* The services with one of the names, ends joined by the key.
VllReadAll(store, nodes, names, key) ==
  LET locals  == VllsOf(store, nodes, names, "LOCAL")
      remotes == VllsOf(store, nodes, names, "REMOTE")
  IN {ServiceToDict(s) : s \in
       {ParseLocal(l.node, store[l.node], l.name) : l \in Range(locals)} \cup
       Aggregate([k \in DOMAIN remotes |->
                    ParseRemote(remotes[k].node, store[remotes[k].node],
                                remotes[k].name)], key)}
=============================================================================
