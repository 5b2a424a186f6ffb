----------------------------- MODULE MCServices -----------------------------
(* Model-checking instances of VllService, VplsService and L2Services.        *)
EXTENDS L2Services

CONSTANTS t1, t2, t3, n1, n2, n3, p1, p2, v1, s1, s2

Nodes      == {n1, n2, n3}
Ids        == Nodes \cup {Unknown}
Interfaces == {p1, p2, v1}    \* two ports and a VE interface
Names      == {s1, s2}
Vlans      == {1, 2}
Order      == <<n1, n2, n3>>
TwoTasks   == {t1, t2}
ThreeTasks == {t1, t2, t3}
Symmetry2  == Permutations(TwoTasks)
Symmetry3  == Permutations(ThreeTasks)

-----------------------------------------------------------------------------
(* Contents *)

Ports == [auto : BOOLEAN \cup {None}, tpid : Range(SwitchTpid) \cup {None},
          mode : {None, "ACCESS", "TRUNK"}, vlans : {{}, {2}},
          routed : {None, 2}, ip : {None, 1}]
Policies  == [policies : {{"in"}, {"out"}, {"in", "out"}}]
Marks     == [stp : {TRUE}] \cup [passive : {TRUE}] \cup [name : Names]
Points    == [type : {"LOCAL"}, interface : Interfaces, subinterface : Vlans \cup {None}]
               \cup [type : {"REMOTE"}, system : {1, 2, 3}, vccid : {1}]
Instances == [net : {"L2P2P", "L2VSI"}, mtu : {None, 1500}, points : Seq(Points),
              interfaces : Seq(Interfaces), vlans : Seq(Vlans \cup {None})]
Values    == Ports \cup Policies \cup Marks \cup Instances

\* Every port is bare and runs the spanning tree; one has policies already.
AtFirst ==
  [d \in Nodes |-> [o \in Object |->
     CASE o \in {Port(p1), Port(p2)} -> Bare
       [] o \in {Stp(p1), Stp(p2)} -> [stp |-> TRUE]
       [] d = n1 /\ o = Policy(p1) -> PolicyData({"in", "out"})
       [] OTHER -> None]]

-----------------------------------------------------------------------------
(* Inputs *)

Address == n1 :> 1 @@ n2 :> 2 @@ n3 :> 3
Both    == {"in", "out"}

End(d, i) == [id |-> d, interface |-> i, interface_reset |-> FALSE, policy |-> {},
              vlan |-> None, remote_ip |-> Address[d], auto |-> None, tpid |-> None]
Reset(end) == [end EXCEPT !.interface_reset = TRUE, !.policy = Both]
Tagged(end) == [end EXCEPT !.vlan = 2, !.tpid = "0x9100", !.auto = FALSE]

Asked(service, do, n, ends) ==
  [service |-> service, do |-> do, dryrun |-> FALSE, id |-> n, vccid |-> 1,
   mtu |-> 0, devices |-> ends]
DeleteOf(service, n) == Asked(service, "delete", n, <<>>)
Dry(in) == [in EXCEPT !.dryrun = TRUE]

\* A VLL with policies over two nodes whose ports are reset; another one that
\* shares a node with it, also as a dry run and without its vccid; a service
\* within one node, with a vlan, a tag protocol and auto negotiation; one with
\* an end that has a single policy; one with an end too many.
VllFull  == [Asked("VLL", "create", s1, <<Reset(End(n1, p1)), Reset(Tagged(End(n2, p1)))>>)
               EXCEPT !.mtu = 1500]
VllOther == Asked("VLL", "create", s2, <<End(n2, p2), End(n3, p1)>>)
VllLocal    == Asked("VLL", "create", s2, <<Tagged(End(n2, p1)), End(n2, p2)>>)
VllOneSided == Asked("VLL", "create", s2,
                     <<End(n3, p2), [End(n2, p2) EXCEPT !.policy = {"in"}]>>)
VllThree    == Asked("VLL", "create", s2, <<End(n1, p1), End(n2, p2), End(n3, p1)>>)
VllInputs ==
  {VllFull, VllOther, Dry(VllOther), [VllOther EXCEPT !.vccid = None],
   VllLocal, VllOneSided, VllThree,
   DeleteOf("VLL", s1), Dry(DeleteOf("VLL", s2)), DeleteOf("VLL", s2),
   [VllOther EXCEPT !.do = "write"], [VllFull EXCEPT !.do = "erase"]}

\* A VPLS with two ends on one node and one on another.
VplsFull  == Asked("VPLS", "create", s1,
                   <<End(n1, p1), Reset(End(n2, p1)), Tagged(End(n1, p2))>>)
VplsAdd   == Asked("VPLS", "add", s1, <<End(n3, p1)>>)
VplsAlone == Asked("VPLS", "create", s2, <<End(n1, p1), End(n1, p2)>>)
Removing(n, ids) ==
  [service |-> "VPLS", do |-> "remove", dryrun |-> FALSE, id |-> n, devices |-> <<>>,
   removed |-> ids]
VplsInputs ==
  {VplsFull, Dry(VplsFull), VplsAdd, VplsAlone, Removing(s1, {n3}),
   DeleteOf("VPLS", s1), [VplsFull EXCEPT !.do = "write"],
   [VplsFull EXCEPT !.do = "erase"]}

\* One that starts with three nodes, and grows and shrinks.
VplsThree == Asked("VPLS", "create", s1,
                   <<End(n1, p1), End(n2, p1), Tagged(End(n3, p2))>>)
VplsInputsInTurn ==
  {VplsFull, VplsThree, VplsAdd, Removing(s1, {n3}), DeleteOf("VPLS", s1)}
VplsInputsShrinking == {VplsFull, Removing(s1, {n2})}

BiEnd(d, i, reset) ==
  [id |-> d, interface |-> i, interface_reset |-> reset, vlan |-> 2,
   untagged |-> FALSE, ve_interface |-> v1, ip |-> 1, auto |-> None,
   tpid |-> None, policy |-> IF reset THEN Both ELSE {}]
BiOf(do, ends) == Asked("BI", do, s2, ends)
BiFull == <<BiEnd(n1, p1, TRUE), [BiEnd(n2, p1, TRUE) EXCEPT !.untagged = TRUE]>>
\* Two ports of one node in one VLAN, and another node.
BiTwice == <<[BiEnd(n2, p1, FALSE) EXCEPT !.auto = TRUE], BiEnd(n2, p2, TRUE),
             BiEnd(n3, p1, FALSE)>>
BiInputs == {BiOf("create", BiFull), BiOf("delete", BiFull), BiOf("create", BiTwice),
             BiOf("erase", BiFull)}

\* SpecBiWholeOrNothing, SpecVplsFullMesh and SpecVplsReadsBack ask this of the
\* constants.
ASSUME \A in \in BiInput : EndsAgree(in)
ASSUME AddressesAgree /\ Fresh /\ InterfacesServe /\ IsInjective(NodeOrder)

VllInputsMixed  == {VllOther, DeleteOf("VLL", s2)}

NoInputs == {}
=============================================================================
