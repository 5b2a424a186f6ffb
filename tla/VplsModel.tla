------------------------------ MODULE VplsModel ------------------------------
(* The data of the VPLS service: what vpls_worker writes of a service into    *)
(* the network instance of each of its devices, and how read_remote_services  *)
(* of vpls_service_worker, with vpls_model, finds out again which addresses   *)
(* belong to which device.  Only functions, no state.                         *)
(*                                                                            *)
(* A service that is read is a record: id, vccid, mtu, remotes (addresses     *)
(* whose device is not known) and devices, a set of ends: id, interface,      *)
(* vlan and remote_ip.  An end that is read carries no address at first; for  *)
(* each remote there is an end of which only the address is known.  The       *)
(* untagged mark of an end is left out, it goes where the vlan goes.          *)
EXTENDS UniconfigData

KnownIds(s) == {e.id : e \in s.devices} \ {Unknown}

-----------------------------------------------------------------------------
(* Writing *)

\* Mutant of VplsInstance: the remotes hold the address of the device itself.
VplsInstance_OwnAddress(s, ends, id) ==
  LET own    == SelectSeq(ends, LAMBDA e : e.id = id)
      others == SelectSeq(ends, LAMBDA e : e.remote_ip # Unknown)
  IN NetworkInstance("L2VSI", s.mtu,
       [k \in DOMAIN own |-> LocalPoint(own[k].interface, own[k].vlan)] \o
       [k \in DOMAIN others |-> RemotePoint(others[k].remote_ip, s.vccid)],
       [k \in DOMAIN own |-> own[k].interface], <<>>)

\* The instance of a device: its own interfaces, the addresses of the others.
\* ends is the list of the ends of the service s.
VplsInstance(s, ends, id) ==
  LET own     == Among(ends, {e \in Range(ends) : e.id = id})
      others  == Among(ends, {e \in Range(ends) : e.id # id /\ e.remote_ip # Unknown})
      locals  == [k \in DOMAIN own |-> LocalPoint(own[k].interface, own[k].vlan)]
      remotes == [k \in DOMAIN others |-> RemotePoint(others[k].remote_ip, s.vccid)]
  IN NetworkInstance("L2VSI", s.mtu, locals \o remotes,
       [k \in DOMAIN own |-> own[k].interface],
       FoldLeft(LAMBDA vlans, e : IF Contains(vlans, e.vlan) THEN vlans
                                  ELSE Append(vlans, e.vlan), <<>>, own))

-----------------------------------------------------------------------------
(* Reading *)

VplsEnd(id, i, vlan, ip) == [id |-> id, interface |-> i, vlan |-> vlan,
                             remote_ip |-> ip]
Addressed(ip) == VplsEnd(Unknown, Unknown, None, ip)

\* Mutant of VplsParse: one interface per device.
VplsParse_OneInterface(node, conf, name) ==
  LET ni      == conf[Instance(name)]
      local   == PointsOf(ni, "LOCAL")[1]
      remotes == {p.system : p \in Range(PointsOf(ni, "REMOTE"))}
  IN [id |-> name, vccid |-> PointsOf(ni, "REMOTE")[1].vccid, mtu |-> 0,
      remotes |-> remotes,
      devices |-> {VplsEnd(node, local.interface, local.subinterface, Unknown)}
                  \cup {Addressed(ip) : ip \in remotes}]

VplsParse(node, conf, name) ==
  LET ni      == conf[Instance(name)]
      remotes == {p.system : p \in Range(PointsOf(ni, "REMOTE"))}
  IN [id |-> name, vccid |-> PointsOf(ni, "REMOTE")[1].vccid,
      mtu |-> IF ni.mtu = None THEN 0 ELSE ni.mtu, remotes |-> remotes,
      devices |-> {VplsEnd(node, p.interface, p.subinterface, Unknown) :
                     p \in Range(PointsOf(ni, "LOCAL"))}
                  \cup {Addressed(ip) : ip \in remotes}]

\* An instance without a remote ends the reading in an exception, like an
\* interface whose attributes cannot be read.
\*
\* Assumed of UniConfig: an end without a VLAN, written with subinterface null,
\* is read with that key; from_device demands it, where VLL reads it with get.
VplsReadable(store, nodes, names) ==
  \A k \in DOMAIN nodes : \A n \in InstancesAt(store[nodes[k]], "L2VSI", names) :
    LET ni == store[nodes[k]][Instance(n)] IN
    /\ PointsOf(ni, "REMOTE") # <<>>
    /\ \A p \in Range(PointsOf(ni, "LOCAL")) :
         AttributesRead(store[nodes[k]], p.interface)

\* The ends of the nodes that have no address yet.
Unaddressed(s) == {e \in s.devices : e.remote_ip = Unknown}
OneId(s)       == Cardinality({e.id : e \in Unaddressed(s)}) = 1

\* The ends of s after other was found to be all but one device away: the one
\* address that only other knows is that of s, and the one address that only
\* s knows belongs to other and is no end of s any more.
EndsMerged(s, other) ==
  LET theirs == other.remotes \ s.remotes
      ours   == s.remotes \ other.remotes
      addressed == IF Cardinality(theirs) = 1 /\ OneId(s)
                   THEN {[e EXCEPT !.remote_ip = CHOOSE ip \in theirs : TRUE] :
                           e \in Unaddressed(s)}
                   ELSE Unaddressed(s)
      resolved  == IF Cardinality(ours) = 1 /\ OneId(other)
                   THEN {Addressed(ip) : ip \in ours} ELSE {}
  IN (s.devices \ (Unaddressed(s) \cup resolved)) \cup addressed

\* Mutant of VplsMerge: an address stays without a device though one has it.
VplsMerge_KeepsUnknown(s, other) ==
  LET ours   == s.remotes \ other.remotes
      theirs == other.remotes \ s.remotes
  IN [s EXCEPT
        !.remotes = (s.remotes \cup other.remotes) \
                      (IF Cardinality(ours) = 1 /\ Cardinality(theirs) = 1
                       THEN ours \cup theirs ELSE {}),
        !.devices = EndsMerged(s, other) \cup EndsMerged(other, s)]

VplsMerge(s, other) ==
  LET ours   == s.remotes \ other.remotes
      theirs == other.remotes \ s.remotes
      ends   == EndsMerged(s, other) \cup EndsMerged(other, s)
      placed == {e.remote_ip : e \in {x \in ends : x.id # Unknown}} \ {Unknown}
  IN [s EXCEPT
        !.remotes = (s.remotes \cup other.remotes) \
                      (IF Cardinality(ours) = 1 /\ Cardinality(theirs) = 1
                       THEN ours \cup theirs ELSE {}),
        !.devices = {e \in ends : e.id = Unknown => e.remote_ip \notin placed}]

\* The services with one of the names, in which the nodes are merged in order.
VplsReadAll(store, nodes, names) ==
  LET Holding(n) == Among(nodes, {d \in Range(nodes) :
                                    InstancesAt(store[d], "L2VSI", {n}) # {}})
      Parts(n) == [k \in DOMAIN Holding(n) |->
                     VplsParse(Holding(n)[k], store[Holding(n)[k]], n)]
  IN {FoldLeft(VplsMerge, Head(Parts(n)), Tail(Parts(n))) :
        n \in {m \in names : Holding(m) # <<>>}}
=============================================================================
