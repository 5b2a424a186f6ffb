-------------------------- MODULE VplsServiceProofs --------------------------
(* Proofs about VplsService: VPLS tasks leave the network full meshes that    *)
(* can be read back, for any tasks, threads, nodes and faults.                *)
(*                                                                            *)
(* A task writes the instances of all devices of its service and commits them *)
(* at once.  So the network goes from one mesh to another if the task knew    *)
(* all devices of the mesh that it replaces, which is what reading the mesh   *)
(* back gives, and if nobody brings half of what the task has written to the  *)
(* network before: nobody does who is apart from it, and who is not has met   *)
(* it, so that the service is calm no more.                                   *)
(*                                                                            *)
(* A mesh reads back if its devices have their interfaces.  A task that       *)
(* creates a service deletes an interface only to write it again, and the     *)
(* service is not there before it was: where it fails in between, there is    *)
(* nothing to be read.                                                        *)
(*                                                                            *)
(* First how a mesh reads back, then what the programs of VPLS write, then    *)
(* what each operation is after, then the invariant of the meshes, call by    *)
(* call; then the same for the interfaces.                                    *)
EXTENDS L2ServicesProofs, SequenceTheorems
-----------------------------------------------------------------------------
(* Lists of what is in a set *)

\* The orders of a finite set have all its elements.
LEMMA OrderOnto ==
  ASSUME NEW S, IsFiniteSet(S)
  PROVE  /\ \A o \in SetToSeqs(S) : \A x \in S : \E k \in 1..Cardinality(S) : o[k] = x
         /\ SetToSeq(S) \in Seq(S) /\ Range(SetToSeq(S)) = S
<1> DEFINE n == Cardinality(S)
<1>1. n \in Nat /\ ExistsBijection(1..n, S)
  BY FS_CardinalityType
<1>2. IsFiniteSet(1..n) /\ Cardinality(1..n) = n
  <2>1. 1 \in Int /\ n \in Int
    BY <1>1
  <2> HIDE DEF n
  <2> QED BY <1>1, <2>1, FS_Interval
<1>3. ASSUME NEW f \in [1..n -> S], \A i, j \in 1..n : f[i] = f[j] => i = j
      PROVE  \A x \in S : \E k \in 1..n : f[k] = x
  <2>1. f \in Injection(1..n, S)
    BY <1>3 DEF Injection, IsInjective
  <2>2. f \in Surjection(1..n, S)
    BY <1>2, <2>1, FS_Injection
  <2> HIDE DEF n
  <2> QED BY <2>2 DEF Surjection
<1> DEFINE F == {f \in [1..n -> S] : IsInjective(f)}
<1>4. F # {}
  <2> HIDE DEF n
  <2> QED BY <1>1 DEF ExistsBijection, Bijection, Injection, IsInjective
<1>5. SetToSeq(S) \in F
  <2>1. SetToSeq(S) = CHOOSE f \in [1..n -> S] : IsInjective(f)
    BY DEF SetToSeq
  <2> HIDE DEF n
  <2> QED BY <1>4, <2>1
<1>6. \A o \in SetToSeqs(S) : o \in [1..n -> S] /\ \A i, j \in 1..n : o[i] = o[j] => i = j
  BY DEF SetToSeqs
<1>7. \A o \in SetToSeqs(S) : \A x \in S : \E k \in 1..n : o[k] = x
  <2> HIDE DEF n
  <2> QED BY <1>3, <1>6
<1> DEFINE q == SetToSeq(S)
<1> HIDE DEF q, n
<1>8. q \in [1..n -> S] /\ \A i, j \in 1..n : q[i] = q[j] => i = j
  BY <1>5 DEF IsInjective, q
<1>9. q \in Seq(S) /\ Len(q) = n
  BY <1>1, <1>8, ListIsProgram
<1>10. Range(q) = S
  <2>1. \A x \in S : \E k \in 1..n : q[k] = x
    BY <1>3, <1>8
  <2>2. DOMAIN q = 1..n /\ \A k \in 1..n : q[k] \in S
    BY <1>8
  <2> QED BY <2>1, <2>2 DEF Range
<1> QED BY <1>7, <1>9, <1>10 DEF q, n

\* Among an injective sequence the elements of a set are found once.
LEMMA AmongOnce ==
  ASSUME NEW T, NEW S, NEW seq \in Seq(S), IsInjective(seq)
  PROVE  IsInjective(Among(seq, T))
<1> DEFINE n == Len(seq)
<1>1. n \in Nat /\ DOMAIN seq = 1..n /\ \A m \in 1..n : seq[m] \in S
  OBVIOUS
<1>2. PICK f : /\ Among(seq, T) = f[n] /\ f[0] = <<>>
               /\ \A m \in 1..n :
                    f[m] = IF seq[m] \in T THEN Append(f[m - 1], seq[m]) ELSE f[m - 1]
  BY AmongFold
<1>3. \A i, j \in 1..n : seq[i] = seq[j] => i = j
  BY <1>1 DEF IsInjective
<1> HIDE DEF n
<1> DEFINE Good(m) == /\ f[m] \in Seq(S)
                      /\ \A k \in 1..Len(f[m]) : \E i \in 1..m : f[m][k] = seq[i]
                      /\ \A k, l \in 1..Len(f[m]) : f[m][k] = f[m][l] => k = l
           G == {m \in 0..n : Good(m)}
<1>4. 0 \in G
  <2>1. f[0] \in Seq(S) /\ Len(f[0]) = 0
    BY <1>2
  <2>2. Good(0)
    BY <2>1
  <2>3. 0 \in 0..n
    BY <1>1
  <2> HIDE DEF Good
  <2> QED BY <2>2, <2>3
<1>5. ASSUME NEW m \in 1..n, m - 1 \in G PROVE m \in G
  <2> DEFINE a == f[m - 1]
  <2>1. /\ a \in Seq(S) /\ Len(a) \in Nat
        /\ \A k \in 1..Len(a) : \E i \in 1..(m - 1) : a[k] = seq[i]
        /\ \A k, l \in 1..Len(a) : a[k] = a[l] => k = l
    BY <1>5
  <2>2. f[m] = IF seq[m] \in T THEN Append(a, seq[m]) ELSE a
    BY <1>2
  <2> HIDE DEF a
  <2>3. \A i \in 1..(m - 1) : i \in 1..m /\ i \in 1..n /\ i # m
    BY <1>1
  <2>4. CASE seq[m] \in T
    <3>1. /\ f[m] \in Seq(S) /\ Len(f[m]) = Len(a) + 1 /\ f[m][Len(a) + 1] = seq[m]
          /\ \A k \in 1..Len(a) : f[m][k] = a[k]
      BY <1>1, <2>1, <2>2, <2>4
    <3>2. \A k \in 1..(Len(a) + 1) : k = Len(a) + 1 \/ k \in 1..Len(a)
      BY <2>1
    <3>3. \A k \in 1..Len(a) : f[m][k] # seq[m]
      BY <1>3, <2>1, <2>3, <3>1
    <3>4. \A k \in 1..Len(f[m]) : \E i \in 1..m : f[m][k] = seq[i]
      <4>1. m \in 1..m
        BY <1>1
      <4> QED BY <2>1, <2>3, <3>1, <3>2, <4>1
    <3>5. \A k, l \in 1..Len(f[m]) : f[m][k] = f[m][l] => k = l
      BY <2>1, <3>1, <3>2, <3>3
    <3>6. Good(m)
      BY <3>1, <3>4, <3>5
    <3> QED BY <1>1, <3>6
  <2>5. CASE seq[m] \notin T
    <3>1. Good(m)
      BY <2>1, <2>2, <2>3, <2>5
    <3> QED BY <1>1, <3>1
  <2> QED BY <2>4, <2>5
<1> HIDE DEF G
<1>6. n \in G
  <2>1. \A m \in 0..n : m \in G
    BY <1>1, <1>4, <1>5, StepByStep
  <2> QED BY <1>1, <2>1
<1> DEFINE r == Among(seq, T)
<1>7. r \in Seq(S) /\ \A k, l \in 1..Len(r) : r[k] = r[l] => k = l
  BY <1>2, <1>6 DEF G
<1> HIDE DEF r
<1>8. IsInjective(r)
  BY <1>7 DEF IsInjective
<1> QED BY <1>8 DEF r
-----------------------------------------------------------------------------
(* The addresses of devices *)

\* The ends that tasks are asked for, their devices and the addresses of these.
AllEnds == UNION {Range(in.devices) : in \in VplsInput}
Devices == {e.id : e \in AllEnds}
Address(d) == CHOOSE ip : \E e \in AllEnds : e.id = d /\ e.remote_ip = ip

\* Every device has one address, which is no other's.
AddressOf ==
  /\ Unknown \notin Devices
  /\ \A e \in AllEnds : e.remote_ip = Address(e.id) /\ e.id \in Devices
  /\ \A d \in Devices : Address(d) # Unknown
  /\ \A d, c \in Devices : Address(d) = Address(c) => d = c

\* The addresses of the inputs agree, so each device has its own.
LEMMA AddressFacts == AddressesAgree => AddressOf
<1> SUFFICES ASSUME AddressesAgree PROVE AddressOf
  OBVIOUS
<1>1. \A e, f \in AllEnds : /\ e.id # Unknown /\ e.remote_ip # Unknown
                            /\ e.id = f.id <=> e.remote_ip = f.remote_ip
  BY DEF AllEnds, AddressesAgree
<1>2. ASSUME NEW e \in AllEnds PROVE Address(e.id) = e.remote_ip
  <2> DEFINE P(ip) == \E f \in AllEnds : f.id = e.id /\ f.remote_ip = ip
  <2>1. P(e.remote_ip)
    OBVIOUS
  <2>2. \A ip : P(ip) => ip = e.remote_ip
    BY <1>1
  <2>3. Address(e.id) = CHOOSE ip : P(ip)
    BY DEF Address
  <2> HIDE DEF P
  <2> QED BY <2>1, <2>2, <2>3
<1> QED BY <1>1, <1>2 DEF AddressOf, Devices

\* An end with the address of its device.
Placed(e) == e.id \in Devices /\ e.remote_ip = Address(e.id)

\* The addresses that an instance has, and its interfaces.
Systems(ni) == {p.system : p \in Range(PointsOf(ni, "REMOTE"))}
Locals(ni)  == Range(PointsOf(ni, "LOCAL"))

\* What the instance of the device d has in a mesh of the devices M.
Meshed(ni, M, d) ==
  /\ ni # None /\ ni.net = "L2VSI" /\ IsProgram(ni.points)
  /\ Locals(ni) # {}
  /\ Systems(ni) = {Address(m) : m \in M \ {d}}

\* No instance and no interface is None.
NoneIsApart ==
  /\ \A s, ends, id : VplsInstance(s, ends, id) # None
  /\ \A auto, tpid : PortData(auto, tpid) # None

\* The points of a list are those of each type.
LEMMA PointsRange ==
  ASSUME NEW ni, IsProgram(ni.points), NEW type
  PROVE  /\ \A p : p \in Range(PointsOf(ni, type)) <=> p \in Range(ni.points) /\ p.type = type
         /\ IsProgram(PointsOf(ni, type))
<1>1. PICK S : ni.points \in Seq(S)
  BY DEF IsProgram
<1> DEFINE T == {p \in Range(ni.points) : p.type = type}
<1>2. /\ Among(ni.points, T) \in Seq(S)
      /\ \A x : x \in Range(Among(ni.points, T)) <=> x \in Range(ni.points) /\ x \in T
  <2> HIDE DEF T
  <2> QED BY <1>1, AmongRange
<1>3. PointsOf(ni, type) = Among(ni.points, T)
  BY DEF PointsOf
<1> QED BY <1>2, <1>3 DEF IsProgram

\* What is in a list that is made of another.
LEMMA ListRange ==
  ASSUME NEW n \in Nat, NEW q, IsList(q, n)
  PROVE  IsProgram(q) /\ Len(q) = n /\ Range(q) = {q[k] : k \in 1..n}
<1>1. PICK S : S = {q[k] : k \in 1..n}
  OBVIOUS
<1>2. q \in [1..n -> S]
  BY <1>1 DEF IsList
<1>3. q \in Seq(S) /\ Len(q) = n
  BY <1>2, ListIsProgram
<1>4. DOMAIN q = 1..n
  BY <1>2
<1> QED BY <1>3, <1>4 DEF Range, IsProgram

\* The instance that is written on the device d has the points of the ends of d
\* and those of all other ends that have an address.
LEMMA WrittenPoints ==
  ASSUME NEW S, NEW ends \in Seq(S), NEW s, NEW d
  PROVE  LET ni == VplsInstance(s, ends, d) IN
         /\ ni.net = "L2VSI" /\ IsProgram(ni.points)
         /\ \A p : p \in Locals(ni) <=>
              \E e \in Range(ends) : e.id = d /\ p = LocalPoint(e.interface, e.vlan)
         /\ \A p : p \in Range(PointsOf(ni, "REMOTE")) <=>
              \E e \in Range(ends) : e.id # d /\ e.remote_ip # Unknown
                                     /\ p = RemotePoint(e.remote_ip, s.vccid)
<1> DEFINE ni == VplsInstance(s, ends, d)
           O == {e \in Range(ends) : e.id = d}
           R == {e \in Range(ends) : e.id # d /\ e.remote_ip # Unknown}
           own == Among(ends, O)
           others == Among(ends, R)
           locals == [k \in DOMAIN own |-> LocalPoint(own[k].interface, own[k].vlan)]
           remotes == [k \in DOMAIN others |-> RemotePoint(others[k].remote_ip, s.vccid)]
<1>1. ni.net = "L2VSI" /\ ni.points = locals \o remotes
  BY DEF VplsInstance, NetworkInstance
<1>2. /\ own \in Seq(S) /\ \A x : x \in Range(own) <=> x \in O
      /\ others \in Seq(S) /\ \A x : x \in Range(others) <=> x \in R
  <2>1. /\ own \in Seq(S) /\ \A x : x \in Range(own) <=> x \in Range(ends) /\ x \in O
    <3> HIDE DEF O
    <3> QED BY AmongRange
  <2>2. /\ others \in Seq(S) /\ \A x : x \in Range(others) <=> x \in Range(ends) /\ x \in R
    <3> HIDE DEF R
    <3> QED BY AmongRange
  <2> QED BY <2>1, <2>2
<1> HIDE DEF own, others, ni
<1>3. /\ Len(own) \in Nat /\ DOMAIN own = 1..Len(own)
      /\ Len(others) \in Nat /\ DOMAIN others = 1..Len(others)
  BY <1>2
<1>4. IsList(locals, Len(own)) /\ IsList(remotes, Len(others))
  BY <1>3 DEF IsList
<1>5. /\ IsProgram(locals) /\ Range(locals) = {locals[k] : k \in 1..Len(own)}
      /\ IsProgram(remotes) /\ Range(remotes) = {remotes[k] : k \in 1..Len(others)}
  <2> HIDE DEF locals, remotes
  <2> QED BY <1>3, <1>4, ListRange
<1>6. /\ \A p : p \in Range(locals)
              <=> \E e \in Range(ends) : e.id = d /\ p = LocalPoint(e.interface, e.vlan)
      /\ \A p : p \in Range(remotes)
              <=> \E e \in Range(ends) : e.id # d /\ e.remote_ip # Unknown
                                         /\ p = RemotePoint(e.remote_ip, s.vccid)
  <2>1. \A x : x \in O <=> \E k \in 1..Len(own) : x = own[k]
    BY <1>2, <1>3, SMTT(30) DEF Range
  <2>2. \A x : x \in R <=> \E k \in 1..Len(others) : x = others[k]
    BY <1>2, <1>3, SMTT(30) DEF Range
  <2>3. \A p : p \in Range(locals) <=> \E e \in O : p = LocalPoint(e.interface, e.vlan)
    BY <1>3, <1>5, <2>1
  <2>4. \A p : p \in Range(remotes) <=> \E e \in R : p = RemotePoint(e.remote_ip, s.vccid)
    BY <1>3, <1>5, <2>2
  <2> QED BY <2>3, <2>4
<1> HIDE DEF locals, remotes
<1>7. /\ IsProgram(ni.points)
      /\ \A p : p \in Range(ni.points) <=> p \in Range(locals) \/ p \in Range(remotes)
  <2>1. PICK T : locals \in Seq(T) /\ remotes \in Seq(T)
    <3>1. PICK U : locals \in Seq(U)
      BY <1>5 DEF IsProgram
    <3>2. PICK V : remotes \in Seq(V)
      BY <1>5 DEF IsProgram
    <3>3. /\ Len(locals) \in Nat /\ locals \in [1..Len(locals) -> U \cup V]
          /\ Len(remotes) \in Nat /\ remotes \in [1..Len(remotes) -> U \cup V]
      BY <3>1, <3>2
    <3>4. locals \in Seq(U \cup V) /\ remotes \in Seq(U \cup V)
      BY <3>3, ListIsProgram
    <3> QED BY <3>4
  <2>2. /\ locals \o remotes \in Seq(T)
        /\ \A x : x \in Range(locals \o remotes) <=> x \in Range(locals) \/ x \in Range(remotes)
    BY <2>1, RangeConcat
  <2> QED BY <1>1, <2>2 DEF IsProgram
<1>8. /\ \A p : p \in Range(PointsOf(ni, "LOCAL")) <=> p \in Range(ni.points) /\ p.type = "LOCAL"
      /\ \A p : p \in Range(PointsOf(ni, "REMOTE")) <=> p \in Range(ni.points) /\ p.type = "REMOTE"
  BY <1>7, PointsRange
<1>9. /\ \A i, v : LocalPoint(i, v).type = "LOCAL"
      /\ \A ip, v : RemotePoint(ip, v).type = "REMOTE" /\ RemotePoint(ip, v).system = ip
  BY DEF LocalPoint, RemotePoint
<1>10. \A p : p \in Range(PointsOf(ni, "REMOTE")) <=>
             \E e \in Range(ends) : e.id # d /\ e.remote_ip # Unknown
                                    /\ p = RemotePoint(e.remote_ip, s.vccid)
  <2>1. \A p \in Range(locals) : p.type # "REMOTE"
    BY <1>6, <1>9
  <2>2. \A p \in Range(remotes) : p.type = "REMOTE"
    BY <1>6, <1>9
  <2> QED BY <1>6, <1>7, <1>8, <2>1, <2>2
<1>11. \A p : p \in Locals(ni) <=>
              \E e \in Range(ends) : e.id = d /\ p = LocalPoint(e.interface, e.vlan)
  <2>1. \A p \in Range(locals) : p.type = "LOCAL"
    BY <1>6, <1>9
  <2>2. \A p \in Range(remotes) : p.type # "LOCAL"
    BY <1>6, <1>9
  <2> QED BY <1>6, <1>7, <1>8, <2>1, <2>2 DEF Locals
<1> QED BY <1>1, <1>7, <1>10, <1>11 DEF ni

\* It is an instance of a mesh of the devices of the ends.
LEMMA WrittenMeshed ==
  ASSUME AddressOf, NoneIsApart, NEW S, NEW ends \in Seq(S), \A e \in Range(ends) : Placed(e),
         NEW s, NEW d \in VplsIds(ends)
  PROVE  Meshed(VplsInstance(s, ends, d), VplsIds(ends), d)
<1> DEFINE ni == VplsInstance(s, ends, d)
<1>1. /\ ni.net = "L2VSI" /\ IsProgram(ni.points)
      /\ \A p : p \in Locals(ni) <=>
           \E e \in Range(ends) : e.id = d /\ p = LocalPoint(e.interface, e.vlan)
      /\ \A p : p \in Range(PointsOf(ni, "REMOTE")) <=>
           \E e \in Range(ends) : e.id # d /\ e.remote_ip # Unknown
                                  /\ p = RemotePoint(e.remote_ip, s.vccid)
  BY WrittenPoints
<1> HIDE DEF ni
<1>9. \A ip, v : RemotePoint(ip, v).system = ip
  BY DEF RemotePoint
<1>10. \A m : m \in VplsIds(ends) <=> \E e \in Range(ends) : e.id = m
  <2>1. \A e \in Range(ends) : e.id # Unknown
    BY DEF Placed, AddressOf
  <2> QED BY <2>1 DEF VplsIds, Range
<1>11. Locals(ni) # {}
  <2>1. PICK e \in Range(ends) : e.id = d
    BY <1>10
  <2> QED BY <1>1, <2>1
<1>13. \A e \in Range(ends) : e.remote_ip # Unknown /\ e.remote_ip = Address(e.id)
  BY DEF Placed, AddressOf
<1>14. Systems(ni) = {Address(m) : m \in VplsIds(ends) \ {d}}
  <2>1. ASSUME NEW ip \in Systems(ni) PROVE \E m \in VplsIds(ends) \ {d} : ip = Address(m)
    <3>1. PICK p \in Range(PointsOf(ni, "REMOTE")) : ip = p.system
      BY DEF Systems
    <3>2. PICK e \in Range(ends) : e.id # d /\ p = RemotePoint(e.remote_ip, s.vccid)
      BY <1>1
    <3> QED BY <1>9, <1>10, <1>13, <3>1, <3>2
  <2>2. ASSUME NEW m \in VplsIds(ends) \ {d} PROVE Address(m) \in Systems(ni)
    <3>1. PICK e \in Range(ends) : e.id = m
      BY <1>10
    <3>2. RemotePoint(e.remote_ip, s.vccid) \in Range(PointsOf(ni, "REMOTE"))
      BY <1>1, <1>13, <3>1
    <3> QED BY <1>9, <1>13, <3>1, <3>2 DEF Systems
  <2> QED BY <2>1, <2>2
<1>15. ni # None
  BY DEF NoneIsApart, ni
<1> QED BY <1>1, <1>11, <1>14, <1>15 DEF Meshed, ni
-----------------------------------------------------------------------------
(* What the parts of a VPLS are merged to *)

\* The ends of a device whose interfaces are the points P.
EndsOf(d, P, ip) == {VplsEnd(d, p.interface, p.subinterface, ip) : p \in P}

\* A VPLS as reading it gives one.
IsService(s) ==
  s = [id |-> s.id, vccid |-> s.vccid, mtu |-> s.mtu, remotes |-> s.remotes,
       devices |-> s.devices]

\* What the device d knows of a mesh of the devices M with the points P.
KnownBy(s, n, M, P, d) ==
  /\ IsService(s) /\ s.id = n
  /\ s.remotes = {Address(m) : m \in M \ {d}}
  /\ s.devices = EndsOf(d, P[d], Unknown) \cup {Addressed(ip) : ip \in s.remotes}

\* The ends that the devices K have on the points P.
EndsPlaced(K, P) == UNION {EndsOf(k, P[k], Address(k)) : k \in K}

\* What is known once the devices K were merged.
KnownOf(s, n, M, P, K) ==
  /\ IsService(s) /\ s.id = n
  /\ s.remotes \subseteq {Address(m) : m \in M}
  /\ \A m \in M \ K : Address(m) \in s.remotes
  /\ s.devices = EndsPlaced(K, P) \cup {Addressed(Address(m)) : m \in M \ K}

\* The ends that are kept when the devices with an address are known.
KeptEnds(ends) ==
  LET placed == {e.remote_ip : e \in {x \in ends : x.id # Unknown}} \ {Unknown} IN
  {e \in ends : e.id = Unknown => e.remote_ip \notin placed}

\* A service that is merged is one again.
LEMMA MergedService ==
  ASSUME NEW s, IsService(s), NEW other
  PROVE  LET ours   == s.remotes \ other.remotes
             theirs == other.remotes \ s.remotes
             ends   == EndsMerged(s, other) \cup EndsMerged(other, s)
             u      == VplsMerge(s, other)
         IN /\ IsService(u) /\ u.id = s.id
            /\ u.remotes \subseteq s.remotes \cup other.remotes
            /\ \A ip \in s.remotes \cup other.remotes :
                 ip \in ours \cup theirs \/ ip \in u.remotes
            /\ \A ip \in s.remotes \cup other.remotes :
                 Cardinality(theirs) # 1 => ip \in u.remotes
            /\ u.devices = KeptEnds(ends)
<1> DEFINE ours   == s.remotes \ other.remotes
           theirs == other.remotes \ s.remotes
           ends   == EndsMerged(s, other) \cup EndsMerged(other, s)
           placed == {e.remote_ip : e \in {x \in ends : x.id # Unknown}} \ {Unknown}
           R == (s.remotes \cup other.remotes) \
                  (IF Cardinality(ours) = 1 /\ Cardinality(theirs) = 1
                   THEN ours \cup theirs ELSE {})
           D == {e \in ends : e.id = Unknown => e.remote_ip \notin placed}
           u == VplsMerge(s, other)
<1>1. u = [s EXCEPT !.remotes = R, !.devices = D]
  BY DEF VplsMerge
<1> HIDE DEF R, D, u
<1>2. /\ IsService(u) /\ u.id = s.id /\ u.remotes = R /\ u.devices = D
  BY <1>1 DEF IsService
<1>3. /\ R \subseteq s.remotes \cup other.remotes
      /\ \A ip \in s.remotes \cup other.remotes : ip \in ours \cup theirs \/ ip \in R
      /\ \A ip \in s.remotes \cup other.remotes : Cardinality(theirs) # 1 => ip \in R
  BY DEF R
<1>4. D = KeptEnds(ends)
  BY DEF D, KeptEnds
<1> QED BY <1>2, <1>3, <1>4 DEF u

\* The ends of a device, as far as they matter.
LEMMA EndFacts ==
  /\ \A d, i, v, ip : LET e == VplsEnd(d, i, v, ip) IN
       e.id = d /\ e.remote_ip = ip /\ [e EXCEPT !.remote_ip = Address(d)] = VplsEnd(d, i, v, Address(d))
  /\ \A ip : Addressed(ip).id = Unknown /\ Addressed(ip).remote_ip = ip
BY DEF VplsEnd, Addressed

\* The ends of which only the address is known.
OnlyAddressed(A) == {Addressed(ip) : ip \in A}

\* A device whose ends have no address yet, and one address that it does not
\* know: its ends get that address.
LEMMA OneUnaddressed ==
  ASSUME NEW d, NEW P, P # {}, NEW A, Unknown \notin A, NEW s,
         s.devices = EndsOf(d, P, Unknown) \cup OnlyAddressed(A)
  PROVE  Unaddressed(s) = EndsOf(d, P, Unknown) /\ OneId(s)
<1>1. Unaddressed(s) = EndsOf(d, P, Unknown)
  <2>1. \A e \in EndsOf(d, P, Unknown) : e.remote_ip = Unknown
    BY EndFacts DEF EndsOf
  <2>2. \A ip \in A : Addressed(ip).remote_ip # Unknown
    BY EndFacts
  <2> QED BY <2>1, <2>2 DEF Unaddressed, OnlyAddressed
<1>2. {e.id : e \in EndsOf(d, P, Unknown)} = {d}
  BY EndFacts DEF EndsOf
<1>3. Cardinality({d}) = 1
  BY FS_Singleton
<1> QED BY <1>1, <1>2, <1>3 DEF OneId

\* The address that only s knows, when it is that of the other.
Resolved(s, other) ==
  IF Cardinality(s.remotes \ other.remotes) = 1 /\ OneId(other)
  THEN s.remotes \ other.remotes ELSE {}

\* The ends of d, which is another's unknown address: the one only that knows.
LEMMA MergedEnds ==
  ASSUME NEW d, NEW P, P # {}, NEW A, Unknown \notin A, NEW s, NEW other,
         s.devices = EndsOf(d, P, Unknown) \cup OnlyAddressed(A),
         other.remotes \ s.remotes = {Address(d)}
  PROVE  EndsMerged(s, other) = EndsOf(d, P, Address(d)) \cup OnlyAddressed(A \ Resolved(s, other))
<1> DEFINE r == Resolved(s, other)
           theirs == other.remotes \ s.remotes
           ours   == s.remotes \ other.remotes
           U == EndsOf(d, P, Unknown)
           V == EndsOf(d, P, Address(d))
           addressed == IF Cardinality(theirs) = 1 /\ OneId(s)
                        THEN {[e EXCEPT !.remote_ip = CHOOSE ip \in theirs : TRUE] : e \in Unaddressed(s)}
                        ELSE Unaddressed(s)
           resolved  == IF Cardinality(ours) = 1 /\ OneId(other)
                        THEN {Addressed(ip) : ip \in ours} ELSE {}
<1>1. EndsMerged(s, other) = (s.devices \ (Unaddressed(s) \cup resolved)) \cup addressed
  BY DEF EndsMerged
<1>2. Unaddressed(s) = U /\ OneId(s)
  BY OneUnaddressed
<1>3. Cardinality(theirs) = 1 /\ (CHOOSE ip \in theirs : TRUE) = Address(d)
  <2>1. Cardinality({Address(d)}) = 1
    BY FS_Singleton
  <2>2. (CHOOSE ip \in {Address(d)} : TRUE) = Address(d)
    OBVIOUS
  <2> QED BY <2>1, <2>2
<1>4. addressed = V
  <2>1. addressed = {[e EXCEPT !.remote_ip = Address(d)] : e \in U}
    BY <1>2, <1>3
  <2>2. \A e : e \in {[x EXCEPT !.remote_ip = Address(d)] : x \in U} <=> e \in V
    BY EndFacts DEF EndsOf
  <2> HIDE DEF addressed, U, V
  <2>3. {[e EXCEPT !.remote_ip = Address(d)] : e \in U} = V
    BY <2>2
  <2> QED BY <2>1, <2>3
<1>5. resolved = {Addressed(ip) : ip \in r}
  BY DEF Resolved
<1>6. s.devices \ (U \cup resolved) = OnlyAddressed(A \ r)
  <2>1. \A ip \in A : Addressed(ip) \notin U
    BY EndFacts DEF EndsOf
  <2>2. \A ip, x : Addressed(ip) = Addressed(x) => ip = x
    BY EndFacts
  <2> HIDE DEF U, resolved, r
  <2> QED BY <1>5, <2>1, <2>2 DEF U, OnlyAddressed
<1> HIDE DEF addressed, resolved, U, V
<1> QED BY <1>1, <1>2, <1>4, <1>6 DEF V

\* Devices that have an address each, and interfaces.
Mesh(M, P) == AddressOf /\ M \subseteq Devices /\ \A d \in M : P[d] # {}

\* An address whose device has ends is not kept by itself.
LEMMA PlacedEnds ==
  ASSUME NEW M, NEW P, Mesh(M, P), NEW K \in SUBSET M, NEW B, B \subseteq {Address(m) : m \in M},
         \A m \in M \ K : Address(m) \in B, NEW ends,
         \A e : e \in ends <=> e \in EndsPlaced(K, P) \/ \E ip \in B : e = Addressed(ip)
  PROVE  KeptEnds(ends) = EndsPlaced(K, P) \cup {Addressed(Address(m)) : m \in M \ K}
<1> DEFINE placed == {e.remote_ip : e \in {x \in ends : x.id # Unknown}} \ {Unknown}
           V == EndsPlaced(K, P)
<1>1. \A e \in V : \E k \in K : e.id = k /\ e.remote_ip = Address(k)
  BY EndFacts DEF EndsOf, EndsPlaced
<1>2. \A k \in K : \E e \in V : e.id = k /\ e.remote_ip = Address(k)
  <2> SUFFICES ASSUME NEW k \in K PROVE \E e \in V : e.id = k /\ e.remote_ip = Address(k)
    OBVIOUS
  <2>1. PICK p : p \in P[k]
    BY DEF Mesh
  <2>2. VplsEnd(k, p.interface, p.subinterface, Address(k)) \in V
    BY <2>1 DEF EndsOf, EndsPlaced
  <2> QED BY <2>2, EndFacts
<1> HIDE DEF V
<1>0. \A e : e \in ends <=> e \in V \/ \E ip \in B : e = Addressed(ip)
  BY DEF V
<1>3. \A k \in M : k # Unknown /\ Address(k) # Unknown
  BY DEF Mesh, AddressOf
<1>4. \A k \in K, m \in M : Address(k) = Address(m) => k = m
  BY DEF Mesh, AddressOf
<1>5. \A e \in V : e.id # Unknown
  BY <1>1, <1>3
<1>6. \A ip : ip \in placed <=> \E k \in K : ip = Address(k)
  <2>1. ASSUME NEW ip \in placed PROVE \E k \in K : ip = Address(k)
    <3>1. PICK e \in ends : e.id # Unknown /\ e.remote_ip = ip
      OBVIOUS
    <3>2. e \in V
      BY <1>0, <3>1, EndFacts
    <3> QED BY <1>1, <3>1, <3>2
  <2>2. ASSUME NEW k \in K PROVE Address(k) \in placed
    <3>1. PICK e \in V : e.id = k /\ e.remote_ip = Address(k)
      BY <1>2
    <3>2. e \in ends /\ e.id # Unknown
      BY <1>0, <1>5, <3>1
    <3> QED BY <1>3, <3>1, <3>2
  <2> QED BY <2>1, <2>2
<1> HIDE DEF placed
<1>8. ASSUME NEW e \in ends, e.id = Unknown => e.remote_ip \notin placed
      PROVE  e \in V \/ \E m \in M \ K : e = Addressed(Address(m))
  <2> SUFFICES ASSUME e \notin V PROVE \E m \in M \ K : e = Addressed(Address(m))
    OBVIOUS
  <2>1. PICK ip \in B : e = Addressed(ip)
    BY <1>0
  <2>2. PICK m \in M : ip = Address(m)
    OBVIOUS
  <2> QED BY <1>6, <1>8, <2>1, <2>2, EndFacts
<1>9. ASSUME NEW m \in M \ K
      PROVE  Addressed(Address(m)) \in ends /\ Address(m) \notin placed
  <2>1. Address(m) \in B /\ m \in M
    OBVIOUS
  <2>2. Addressed(Address(m)) \in ends
    BY <1>0, <2>1
  <2>3. \A k \in K : Address(k) # Address(m)
    BY <1>4
  <2> QED BY <1>6, <2>2, <2>3
<1> DEFINE X == {e \in ends : e.id = Unknown => e.remote_ip \notin placed}
           Y == V \cup {Addressed(Address(m)) : m \in M \ K}
<1>10. \A e : e \in X => e \in Y
  BY <1>8
<1>11. \A e : e \in Y => e \in X
  BY <1>0, <1>5, <1>9, EndFacts
<1>12. X = Y
  <2> HIDE DEF X, Y
  <2> QED BY <1>10, <1>11
<1>13. KeptEnds(ends) = X
  BY DEF KeptEnds, placed
<1> QED BY <1>12, <1>13 DEF V

\* The parts of two devices are merged.
LEMMA FirstMerge ==
  ASSUME NEW n, NEW M, NEW P, Mesh(M, P), NEW d \in M, NEW c \in M, d # c,
         NEW s, KnownBy(s, n, M, P, d), NEW other, KnownBy(other, n, M, P, c)
  PROVE  KnownOf(VplsMerge(s, other), n, M, P, {d, c})
<1>1. \A k, m \in M : Address(k) = Address(m) => k = m
  BY DEF Mesh, AddressOf
<1>2. \A k \in M : k # Unknown /\ Address(k) # Unknown /\ P[k] # {}
  BY DEF Mesh, AddressOf
<1>3. /\ other.remotes \ s.remotes = {Address(d)} /\ s.remotes \ other.remotes = {Address(c)}
      /\ Unknown \notin s.remotes /\ Unknown \notin other.remotes
  BY <1>1, <1>2 DEF KnownBy
<1>4. Cardinality({Address(d)}) = 1 /\ Cardinality({Address(c)}) = 1
  BY FS_Singleton
<1>5. OneId(s) /\ OneId(other)
  BY <1>2, <1>3, OneUnaddressed DEF KnownBy, OnlyAddressed
<1>6. EndsMerged(s, other)
        = EndsOf(d, P[d], Address(d)) \cup {Addressed(ip) : ip \in s.remotes \ {Address(c)}}
  <2> DEFINE A == s.remotes
             r == {Address(c)}
             Q == P[d]
  <2>1. s.devices = EndsOf(d, Q, Unknown) \cup OnlyAddressed(A)
    BY DEF KnownBy, OnlyAddressed
  <2>2. r = Resolved(s, other)
    BY <1>3, <1>4, <1>5 DEF Resolved
  <2>3. Unknown \notin A /\ Q # {} /\ other.remotes \ s.remotes = {Address(d)}
    BY <1>2, <1>3
  <2> HIDE DEF A, r, Q
  <2>4. EndsMerged(s, other) = EndsOf(d, Q, Address(d)) \cup OnlyAddressed(A \ r)
    BY <2>1, <2>2, <2>3, MergedEnds
  <2> QED BY <2>4 DEF A, r, Q, OnlyAddressed
<1>7. EndsMerged(other, s)
        = EndsOf(c, P[c], Address(c)) \cup {Addressed(ip) : ip \in other.remotes \ {Address(d)}}
  <2> DEFINE A == other.remotes
             r == {Address(d)}
             Q == P[c]
  <2>1. other.devices = EndsOf(c, Q, Unknown) \cup OnlyAddressed(A)
    BY DEF KnownBy, OnlyAddressed
  <2>2. r = Resolved(other, s)
    BY <1>3, <1>4, <1>5 DEF Resolved
  <2>3. Unknown \notin A /\ Q # {} /\ s.remotes \ other.remotes = {Address(c)}
    BY <1>2, <1>3
  <2> HIDE DEF A, r, Q
  <2>4. EndsMerged(other, s) = EndsOf(c, Q, Address(c)) \cup OnlyAddressed(A \ r)
    BY <2>1, <2>2, <2>3, MergedEnds
  <2> QED BY <2>4 DEF A, r, Q, OnlyAddressed
<1> DEFINE K == {d, c}
           B == (s.remotes \ {Address(c)}) \cup (other.remotes \ {Address(d)})
           ends == EndsMerged(s, other) \cup EndsMerged(other, s)
           u == VplsMerge(s, other)
<1>8. \A e : e \in ends <=> e \in EndsPlaced(K, P) \/ \E ip \in B : e = Addressed(ip)
  <2>1. \A e : e \in EndsPlaced(K, P)
               <=> e \in EndsOf(d, P[d], Address(d)) \/ e \in EndsOf(c, P[c], Address(c))
    BY DEF EndsPlaced
  <2>2. \A e : e \in EndsMerged(s, other) <=>
              \/ e \in EndsOf(d, P[d], Address(d))
              \/ \E ip \in s.remotes \ {Address(c)} : e = Addressed(ip)
    BY <1>6
  <2>3. \A e : e \in EndsMerged(other, s) <=>
              \/ e \in EndsOf(c, P[c], Address(c))
              \/ \E ip \in other.remotes \ {Address(d)} : e = Addressed(ip)
    BY <1>7
  <2> HIDE DEF K
  <2> QED BY <2>1, <2>2, <2>3
<1>9. B \subseteq {Address(m) : m \in M} /\ \A m \in M \ K : Address(m) \in B
  BY <1>1 DEF KnownBy
<1>10. /\ IsService(u) /\ u.id = s.id
       /\ u.remotes \subseteq s.remotes \cup other.remotes
       /\ \A ip \in s.remotes \cup other.remotes :
            ip \in (s.remotes \ other.remotes) \cup (other.remotes \ s.remotes) \/ ip \in u.remotes
       /\ u.devices = KeptEnds(ends)
  BY MergedService DEF KnownBy
<1>11. u.devices = EndsPlaced(K, P) \cup {Addressed(Address(m)) : m \in M \ K}
  <2>1. K \in SUBSET M
    OBVIOUS
  <2> HIDE DEF ends, B, K, u
  <2> QED BY <1>8, <1>9, <1>10, <2>1, PlacedEnds
<1>12. u.remotes \subseteq {Address(m) : m \in M} /\ \A m \in M \ K : Address(m) \in u.remotes
  <2>1. s.remotes \cup other.remotes \subseteq {Address(m) : m \in M}
    BY DEF KnownBy
  <2>2. \A m \in M \ K : Address(m) \in s.remotes \cup other.remotes
                         /\ Address(m) # Address(d) /\ Address(m) # Address(c)
    BY <1>1 DEF KnownBy
  <2> HIDE DEF u
  <2> QED BY <1>3, <1>10, <2>1, <2>2
<1> HIDE DEF u, K
<1>13. KnownOf(u, n, M, P, K)
  BY <1>10, <1>11, <1>12 DEF KnownOf, KnownBy
<1> QED BY <1>13 DEF u, K

\* The part of another device is merged into what is known.
LEMMA NextMerge ==
  ASSUME NEW n, NEW M, NEW P, Mesh(M, P), NEW K \in SUBSET M, NEW d \in M \ K,
         NEW s, KnownOf(s, n, M, P, K), NEW other, KnownBy(other, n, M, P, d)
  PROVE  KnownOf(VplsMerge(s, other), n, M, P, K \cup {d})
<1> DEFINE V == EndsPlaced(K, P)
           A == {Address(m) : m \in M}
           u == VplsMerge(s, other)
           ends == EndsMerged(s, other) \cup EndsMerged(other, s)
           B == {ip \in A : ip # Address(d)}
           L == K \cup {d}
<1>1. \A k, m \in M : Address(k) = Address(m) => k = m
  BY DEF Mesh, AddressOf
<1>2. \A k \in M : k # Unknown /\ Address(k) # Unknown /\ P[k] # {}
  BY DEF Mesh, AddressOf
<1>3. s.remotes \subseteq A /\ other.remotes = B /\ Address(d) \in s.remotes
  BY <1>1 DEF KnownBy, KnownOf
<1>4. s.remotes \ other.remotes = {Address(d)} /\ Unknown \notin other.remotes
      /\ Cardinality({Address(d)}) = 1
  <2>1. s.remotes \ other.remotes = {Address(d)}
    BY <1>3
  <2>2. Unknown \notin other.remotes
    BY <1>2, <1>3
  <2> QED BY <2>1, <2>2, FS_Singleton
<1>5. OneId(other)
  BY <1>2, <1>4, OneUnaddressed DEF KnownBy, OnlyAddressed
<1>6. Unaddressed(s) = {} /\ ~OneId(s)
  <2>1. \A e \in s.devices : e.remote_ip # Unknown
    <3>1. \A e \in EndsPlaced(K, P) : e.remote_ip # Unknown
      BY <1>2, EndFacts DEF EndsOf, EndsPlaced
    <3>2. \A m \in M \ K : Addressed(Address(m)).remote_ip # Unknown
      BY <1>2, EndFacts
    <3> QED BY <3>1, <3>2 DEF KnownOf
  <2>2. Unaddressed(s) = {}
    BY <2>1 DEF Unaddressed
  <2>3. {e.id : e \in {}} = {} /\ Cardinality({}) = 0
    BY FS_EmptySet
  <2> QED BY <2>2, <2>3 DEF OneId
<1>7. EndsMerged(other, s) = EndsOf(d, P[d], Address(d)) \cup {Addressed(ip) : ip \in B}
  <2> DEFINE r == {}
             Q == P[d]
  <2>1. other.devices = EndsOf(d, Q, Unknown) \cup OnlyAddressed(B)
    BY <1>3 DEF KnownBy, OnlyAddressed
  <2>2. r = Resolved(other, s)
    BY <1>6 DEF Resolved
  <2>3. Unknown \notin B /\ Q # {} /\ s.remotes \ other.remotes = {Address(d)}
    BY <1>2, <1>3, <1>4
  <2>4. B \ r = B
    OBVIOUS
  <2> HIDE DEF B, r, Q
  <2>5. EndsMerged(other, s) = EndsOf(d, Q, Address(d)) \cup OnlyAddressed(B \ r)
    BY <2>1, <2>2, <2>3, MergedEnds
  <2> QED BY <2>4, <2>5 DEF Q, OnlyAddressed
<1>8. EndsMerged(s, other) = s.devices \ {Addressed(Address(d))}
  <2> DEFINE theirs == other.remotes \ s.remotes
             addressed == IF Cardinality(theirs) = 1 /\ OneId(s)
                          THEN {[e EXCEPT !.remote_ip = CHOOSE ip \in theirs : TRUE] :
                                  e \in Unaddressed(s)}
                          ELSE Unaddressed(s)
             resolved == IF Cardinality(s.remotes \ other.remotes) = 1 /\ OneId(other)
                         THEN {Addressed(ip) : ip \in s.remotes \ other.remotes} ELSE {}
  <2>1. EndsMerged(s, other) = (s.devices \ (Unaddressed(s) \cup resolved)) \cup addressed
    BY DEF EndsMerged
  <2>2. addressed = {}
    BY <1>6
  <2>3. resolved = {Addressed(Address(d))}
    BY <1>4, <1>5
  <2> HIDE DEF addressed, resolved
  <2> QED BY <1>6, <2>1, <2>2, <2>3
<1>9. \A m \in M \ K : Address(m) \in A
  OBVIOUS
<1>10. \A e : e \in ends <=> e \in EndsPlaced(L, P) \/ \E ip \in B : e = Addressed(ip)
  <2>1. \A e : e \in s.devices <=> e \in V \/ \E m \in M \ K : e = Addressed(Address(m))
    BY DEF KnownOf
  <2>2. \A e \in V : e # Addressed(Address(d))
    BY <1>2, EndFacts DEF EndsOf, EndsPlaced
  <2>3. \A m \in M \ K : m # d => Address(m) \in B
    BY <1>1
  <2>4. \A e : e \in EndsPlaced(L, P) <=> e \in V \/ e \in EndsOf(d, P[d], Address(d))
    BY DEF EndsPlaced
  <2>5. \A e : e \in EndsMerged(other, s)
               <=> e \in EndsOf(d, P[d], Address(d)) \/ \E ip \in B : e = Addressed(ip)
    <3> HIDE DEF B
    <3> QED BY <1>7
  <2>6. \A e : e \in EndsMerged(s, other) <=> e \in s.devices /\ e # Addressed(Address(d))
    BY <1>8
  <2> HIDE DEF V, B, L
  <2> QED BY <2>1, <2>2, <2>3, <2>4, <2>5, <2>6
<1>11. /\ IsService(u) /\ u.id = s.id
       /\ u.remotes \subseteq s.remotes \cup other.remotes
       /\ \A ip \in s.remotes \cup other.remotes :
            ip \in (s.remotes \ other.remotes) \cup (other.remotes \ s.remotes) \/ ip \in u.remotes
       /\ u.devices = KeptEnds(ends)
  BY MergedService DEF KnownOf
<1>12. u.devices = EndsPlaced(L, P) \cup {Addressed(Address(m)) : m \in M \ L}
  <2>1. L \in SUBSET M /\ B \subseteq {Address(m) : m \in M}
    OBVIOUS
  <2>2. \A m \in M \ L : Address(m) \in B
    BY <1>1
  <2> HIDE DEF ends, B, L, u
  <2> QED BY <1>10, <1>11, <2>1, <2>2, PlacedEnds
<1>13. u.remotes \subseteq A /\ \A m \in M \ L : Address(m) \in u.remotes
  <2>1. \A m \in M \ L : Address(m) \in s.remotes /\ Address(m) \in other.remotes
    BY <1>1 DEF KnownOf, KnownBy
  <2> HIDE DEF u, L
  <2> QED BY <1>3, <1>11, <2>1
<1> HIDE DEF u, L
<1>14. KnownOf(u, n, M, P, L)
  BY <1>11, <1>12, <1>13 DEF KnownOf
<1> QED BY <1>14 DEF u, L
-----------------------------------------------------------------------------
(* What is read of a mesh *)

\* The instances of a name know each other's devices.
MeshOf(store, n) ==
  \A d \in Members(store, n) : Meshed(store[d][Instance(n)], Members(store, n), d)

\* The points of the interfaces that the devices have in the instance.
LocalsOf(store, n) == [d \in Members(store, n) |-> Locals(store[d][Instance(n)])]

\* The members of a service have an instance of its name.
LEMMA MemberHas ==
  \A store, n : \A d : d \in Members(store, n) <=>
    d \in Node /\ store[d][Instance(n)] # None /\ store[d][Instance(n)].net = "L2VSI"
BY DEF Members, InstancesAt

\* A device of a mesh knows the other ones' addresses, and its interfaces.
LEMMA ParseKnows ==
  ASSUME NEW store, NEW n, MeshOf(store, n), NEW d \in Members(store, n)
  PROVE  KnownBy(VplsParse(d, store[d], n), n, Members(store, n), LocalsOf(store, n), d)
<1> DEFINE M == Members(store, n)
           P == LocalsOf(store, n)
           ni == store[d][Instance(n)]
           R == {p.system : p \in Range(PointsOf(ni, "REMOTE"))}
           s == VplsParse(d, store[d], n)
           D == {VplsEnd(d, p.interface, p.subinterface, Unknown) :
                   p \in Range(PointsOf(ni, "LOCAL"))} \cup {Addressed(ip) : ip \in R}
<1>1. R = {Address(m) : m \in M \ {d}}
  <2>1. R = Systems(ni)
    BY DEF Systems
  <2> QED BY <2>1 DEF MeshOf, Meshed
<1>2. P[d] = Range(PointsOf(ni, "LOCAL"))
  BY DEF LocalsOf, Locals
<1>3. s = [id |-> n, vccid |-> PointsOf(ni, "REMOTE")[1].vccid,
           mtu |-> IF ni.mtu = None THEN 0 ELSE ni.mtu, remotes |-> R, devices |-> D]
  BY DEF VplsParse
<1>4. D = EndsOf(d, P[d], Unknown) \cup {Addressed(ip) : ip \in R}
  BY <1>2 DEF EndsOf
<1> HIDE DEF s, R, D, P, M
<1>5. IsService(s) /\ s.id = n /\ s.remotes = R /\ s.devices = D
  BY <1>3 DEF IsService
<1>6. KnownBy(s, n, M, P, d)
  BY <1>1, <1>4, <1>5 DEF KnownBy
<1> QED BY <1>6 DEF s, P, M

\* The parts rest are merged into base one after the other.
HasFold(base, rest) ==
  \E f : /\ MergeParts(base, rest) = f[Len(rest)] /\ f[0] = base
         /\ \A m \in 1..Len(rest) : f[m] = VplsMerge(f[m - 1], rest[m])

\* They are, for parts in a set.
LEMMA SeqFold == ASSUME NEW base, NEW S, NEW rest \in Seq(S) PROVE HasFold(base, rest)
BY MergePartsFold DEF HasFold

\* They are, whatever the parts.
LEMMA PartsFold == \A base, rest : IsProgram(rest) => HasFold(base, rest)
BY SeqFold DEF IsProgram

\* The parts of a service are merged from the first to the last.
LEMMA PartsMerged ==
  ASSUME NEW q, IsProgram(q), q # <<>>
  PROVE  /\ Len(q) \in Nat \ {0}
         /\ \E f : /\ MergeParts(Head(q), Tail(q)) = f[Len(q)] /\ f[1] = q[1]
                   /\ \A k \in 2..Len(q) : f[k] = VplsMerge(f[k - 1], q[k])
<1>1. /\ Len(q) \in Nat \ {0} /\ Head(q) = q[1] /\ IsProgram(Tail(q))
      /\ Len(Tail(q)) = Len(q) - 1
      /\ \A k \in 1..(Len(q) - 1) : Tail(q)[k] = q[k + 1]
  BY ProgramTail
<1>2. HasFold(Head(q), Tail(q))
  BY <1>1, PartsFold
<1>3. PICK g : /\ MergeParts(Head(q), Tail(q)) = g[Len(Tail(q))] /\ g[0] = Head(q)
               /\ \A m \in 1..Len(Tail(q)) : g[m] = VplsMerge(g[m - 1], Tail(q)[m])
  BY <1>2 DEF HasFold
<1> DEFINE N == Len(q)
           f == [k \in 1..N |-> g[k - 1]]
<1>4. N \in Nat \ {0} /\ Len(Tail(q)) = N - 1
  BY <1>1
<1>5. f[N] = MergeParts(Head(q), Tail(q)) /\ f[1] = q[1]
  BY <1>1, <1>3, <1>4
<1>6. ASSUME NEW k \in 2..N PROVE f[k] = VplsMerge(f[k - 1], q[k])
  <2>1. k - 1 \in 1..(N - 1) /\ k - 1 \in 1..N /\ k \in 1..N /\ (k - 1) + 1 = k
    BY <1>4
  <2>2. f[k] = g[k - 1] /\ f[k - 1] = g[(k - 1) - 1] /\ Tail(q)[k - 1] = q[k]
    BY <1>1, <2>1
  <2>3. g[k - 1] = VplsMerge(g[(k - 1) - 1], Tail(q)[k - 1])
    BY <1>3, <1>4, <2>1
  <2> QED BY <2>2, <2>3
<1> HIDE DEF f
<1> QED BY <1>1, <1>5, <1>6 DEF N

\* The merged parts are a service with the identifier of the first.
LEMMA PartsKeepId ==
  ASSUME NEW q, IsProgram(q), q # <<>>, IsService(q[1])
  PROVE  MergeParts(Head(q), Tail(q)).id = q[1].id
<1>1. /\ Len(q) \in Nat \ {0}
      /\ \E f : /\ MergeParts(Head(q), Tail(q)) = f[Len(q)] /\ f[1] = q[1]
                /\ \A k \in 2..Len(q) : f[k] = VplsMerge(f[k - 1], q[k])
  BY PartsMerged
<1>2. PICK f : /\ MergeParts(Head(q), Tail(q)) = f[Len(q)] /\ f[1] = q[1]
               /\ \A k \in 2..Len(q) : f[k] = VplsMerge(f[k - 1], q[k])
  BY <1>1
<1> DEFINE N == Len(q)
           G == {k \in 0..N : k = 0 \/ (IsService(f[k]) /\ f[k].id = q[1].id)}
<1>3. N \in Nat \ {0}
  BY <1>1
<1> HIDE DEF N
<1>4. ASSUME NEW k \in 1..N, k - 1 \in G PROVE k \in G
  <2>1. CASE k = 1
    BY <1>2, <1>3, <2>1
  <2>2. CASE k # 1
    <3>1. k \in 2..N /\ k - 1 # 0
      BY <1>3, <2>2
    <3>2. IsService(f[k - 1]) /\ f[k - 1].id = q[1].id
      BY <1>4, <3>1
    <3>3. f[k] = VplsMerge(f[k - 1], q[k])
      BY <1>2, <3>1 DEF N
    <3>4. IsService(VplsMerge(f[k - 1], q[k])) /\ VplsMerge(f[k - 1], q[k]).id = f[k - 1].id
      BY <3>2, MergedService
    <3> QED BY <1>3, <3>2, <3>3, <3>4
  <2> QED BY <2>1, <2>2
<1>5. 0 \in G
  BY <1>3
<1> HIDE DEF G
<1>6. \A k \in 0..N : k \in G
  BY <1>3, <1>4, <1>5, StepByStep
<1>7. N \in G
  BY <1>3, <1>6
<1> QED BY <1>2, <1>3, <1>7 DEF G, N

\* The first k elements of a list.
Firsts(own, k) == {own[l] : l \in 1..k}

\* What each of the devices M knows of the mesh.
PartsOf(q, own, n, M, P) ==
  /\ IsProgram(q) /\ own \in [1..Len(q) -> M]
  /\ \A k \in 1..Len(q) : KnownBy(q[k], n, M, P, own[k])
  /\ \A k, l \in 1..Len(q) : own[k] = own[l] => k = l
  /\ \A m \in M : \E k \in 1..Len(q) : own[k] = m

\* The parts of all devices of a mesh are merged to all their ends.
LEMMA PartsOfMesh ==
  ASSUME NEW n, NEW M, NEW P, Mesh(M, P), NEW q, NEW own, PartsOf(q, own, n, M, P),
         NEW c \in M, NEW d \in M, c # d
  PROVE  q # <<>> /\ KnownOf(MergeParts(Head(q), Tail(q)), n, M, P, M)
<1> DEFINE N == Len(q)
<1>0. N \in Nat
  BY DEF IsProgram, PartsOf
<1>1. N >= 2
  <2>1. PICK k \in 1..N : own[k] = c
    BY DEF PartsOf
  <2>2. PICK l \in 1..N : own[l] = d
    BY DEF PartsOf
  <2>3. k # l
    BY <2>1, <2>2
  <2> HIDE DEF N
  <2> QED BY <1>0, <2>3
<1>2. q # <<>>
  BY <1>1
<1>11. IsProgram(q)
  BY DEF PartsOf
<1>3. \E f : /\ MergeParts(Head(q), Tail(q)) = f[N] /\ f[1] = q[1]
             /\ \A k \in 2..N : f[k] = VplsMerge(f[k - 1], q[k])
  BY <1>2, <1>11, PartsMerged
<1>4. PICK f : /\ MergeParts(Head(q), Tail(q)) = f[N] /\ f[1] = q[1]
               /\ \A k \in 2..N : f[k] = VplsMerge(f[k - 1], q[k])
  BY <1>3
<1> HIDE DEF N
<1> DEFINE G == {k \in 0..N : k >= 2 => KnownOf(f[k], n, M, P, Firsts(own, k))}
<1>5. /\ own \in [1..N -> M] /\ \A k \in 1..N : KnownBy(q[k], n, M, P, own[k])
      /\ \A k, l \in 1..N : own[k] = own[l] => k = l
      /\ \A m \in M : \E k \in 1..N : own[k] = m
  BY DEF N, PartsOf
<1>6. ASSUME NEW k \in 1..N, k - 1 \in G PROVE k \in G
  <2>1. CASE k = 1
    BY <1>0, <2>1
  <2>2. CASE k = 2
    <3>1. 1 \in 1..N /\ 2 \in 1..N /\ 2 \in 2..N /\ 2 - 1 = 1
      BY <1>0, <1>1
    <3>2. own[1] \in M /\ own[2] \in M /\ own[1] # own[2]
      BY <1>5, <3>1
    <3>3. KnownBy(q[1], n, M, P, own[1]) /\ KnownBy(q[2], n, M, P, own[2])
      BY <1>5, <3>1
    <3>4. KnownOf(VplsMerge(q[1], q[2]), n, M, P, {own[1], own[2]})
      BY <3>2, <3>3, FirstMerge
    <3>5. f[2] = VplsMerge(q[1], q[2])
      BY <1>4, <3>1
    <3>6. Firsts(own, 2) = {own[1], own[2]}
      <4>1. \A l \in 1..2 : l = 1 \/ l = 2
        OBVIOUS
      <4>2. 1 \in 1..2 /\ 2 \in 1..2
        OBVIOUS
      <4>3. \A x : x \in Firsts(own, 2) <=> x = own[1] \/ x = own[2]
        BY <4>1, <4>2 DEF Firsts
      <4> QED BY <4>3
    <3>7. 2 \in 0..N
      BY <1>0, <1>1
    <3>8. KnownOf(f[2], n, M, P, Firsts(own, 2))
      BY <3>4, <3>5, <3>6
    <3> QED BY <2>2, <3>7, <3>8
  <2>3. CASE k > 2
    <3>1. k - 1 >= 2 /\ k \in 2..N /\ k \in Nat
      BY <1>0, <2>3
    <3>2. KnownOf(f[k - 1], n, M, P, Firsts(own, k - 1))
      BY <1>6, <3>1
    <3>3. Firsts(own, k - 1) \in SUBSET M /\ own[k] \in M \ Firsts(own, k - 1)
      <4>1. \A l \in 1..(k - 1) : l \in 1..N /\ l # k
        BY <1>0, <3>1
      <4>2. \A l \in 1..(k - 1) : own[l] \in M /\ own[l] # own[k]
        BY <1>5, <4>1
      <4>3. own[k] \in M
        BY <1>5
      <4> QED BY <4>2, <4>3 DEF Firsts
    <3>4. Firsts(own, k) = Firsts(own, k - 1) \cup {own[k]}
      <4>1. \A l \in 1..k : l \in 1..(k - 1) \/ l = k
        BY <3>1
      <4>2. k \in 1..k /\ \A l \in 1..(k - 1) : l \in 1..k
        BY <3>1
      <4> QED BY <4>1, <4>2 DEF Firsts
    <3>5. f[k] = VplsMerge(f[k - 1], q[k])
      BY <1>4, <3>1
    <3>6. KnownBy(q[k], n, M, P, own[k])
      BY <1>5
    <3>7. KnownOf(VplsMerge(f[k - 1], q[k]), n, M, P, Firsts(own, k - 1) \cup {own[k]})
      BY <3>2, <3>3, <3>6, NextMerge
    <3>8. KnownOf(f[k], n, M, P, Firsts(own, k))
      BY <3>4, <3>5, <3>7
    <3> QED BY <1>0, <3>8
  <2> QED BY <1>0, <2>1, <2>2, <2>3
<1>7. 0 \in G
  BY <1>0
<1> HIDE DEF G
<1>8. \A k \in 0..N : k \in G
  BY <1>0, <1>6, <1>7, StepByStep
<1>9. KnownOf(f[N], n, M, P, Firsts(own, N))
  BY <1>0, <1>1, <1>8 DEF G
<1>10. Firsts(own, N) = M
  <2>1. \A l \in 1..N : own[l] \in M
    BY <1>5
  <2>2. \A m \in M : \E l \in 1..N : m = own[l]
    BY <1>5
  <2>3. \A m : m \in Firsts(own, N) <=> \E l \in 1..N : m = own[l]
    BY DEF Firsts
  <2> HIDE DEF N
  <2>4. \A m : m \in Firsts(own, N) <=> m \in M
    BY <2>1, <2>2, <2>3
  <2> QED BY <2>4
<1> QED BY <1>2, <1>4, <1>9, <1>10

\* The devices of NodeOrder that have an instance of the name, in that order,
\* and what is read of each.
Held(store, m) == Among(NodeOrder, Members(store, m))
PartsRead(store, m) ==
  [k \in DOMAIN Held(store, m) |->
     VplsParse(Held(store, m)[k], store[Held(store, m)[k]], m)]

\* Reading all services merges, for each name, what is read of its devices.
LEMMA ReadAllIs ==
  \A store, names :
    VplsReadAll(store, NodeOrder, names) =
      {MergeParts(Head(PartsRead(store, m)), Tail(PartsRead(store, m))) :
         m \in {x \in names : Held(store, x) # <<>>}}
<1> SUFFICES ASSUME NEW store, NEW names
             PROVE  VplsReadAll(store, NodeOrder, names) =
                      {MergeParts(Head(PartsRead(store, m)), Tail(PartsRead(store, m))) :
                         m \in {x \in names : Held(store, x) # <<>>}}
  OBVIOUS
<1> DEFINE Holding(m) == Among(NodeOrder, {d \in Range(NodeOrder) :
                                             InstancesAt(store[d], "L2VSI", {m}) # {}})
           Parts2(m) == [k \in DOMAIN Holding(m) |->
                           VplsParse(Holding(m)[k], store[Holding(m)[k]], m)]
<1>1. \A m : Holding(m) = Held(store, m)
  BY NodeOrderAssumption DEF Held, Members
<1>2. \A m : Parts2(m) = PartsRead(store, m)
  <2> HIDE DEF Holding
  <2> QED BY <1>1 DEF PartsRead
<1>3. VplsReadAll(store, NodeOrder, names)
        = {FoldLeft(VplsMerge, Head(Parts2(m)), Tail(Parts2(m))) :
             m \in {x \in names : Holding(x) # <<>>}}
  BY DEF VplsReadAll
<1>4. \A q, r : FoldLeft(VplsMerge, q, r) = MergeParts(q, r)
  BY DEF MergeParts
<1> HIDE DEF Holding, Parts2
<1> QED BY <1>1, <1>2, <1>3, <1>4

\* What is read is of one name, and of the devices that have its instance.
LEMMA PartsReadFacts ==
  ASSUME NEW store, NEW m, IsInjective(NodeOrder), Held(store, m) # <<>>
  PROVE  LET q == PartsRead(store, m)
             own == Held(store, m) IN
         /\ IsProgram(q) /\ q # <<>> /\ Len(q) \in Nat \ {0}
         /\ own \in [1..Len(q) -> Members(store, m)]
         /\ \A k \in 1..Len(q) : q[k] = VplsParse(own[k], store[own[k]], m)
         /\ \A k, l \in 1..Len(q) : own[k] = own[l] => k = l
         /\ \A d \in Members(store, m) : \E k \in 1..Len(q) : own[k] = d
<1> DEFINE own == Held(store, m)
           M == Members(store, m)
           q == PartsRead(store, m)
           N == Len(own)
<1>0. NodeOrder \in Seq(Node)
  BY NodeOrderAssumption
<1>1. own \in Seq(Node) /\ \A d : d \in Range(own) <=> d \in Range(NodeOrder) /\ d \in M
  <2> HIDE DEF M
  <2>1. /\ Among(NodeOrder, M) \in Seq(Node)
        /\ \A d : d \in Range(Among(NodeOrder, M)) <=> d \in Range(NodeOrder) /\ d \in M
    BY <1>0, AmongRange
  <2> QED BY <2>1 DEF Held, M
<1>2. IsInjective(own)
  <2> HIDE DEF M
  <2>1. IsInjective(Among(NodeOrder, M))
    BY <1>0, AmongOnce
  <2> QED BY <2>1 DEF Held, M
<1>3. q = [k \in DOMAIN own |-> VplsParse(own[k], store[own[k]], m)]
  BY DEF PartsRead
<1>4. \A d \in M : d \in Range(NodeOrder)
  BY NodeOrderAssumption DEF Members
<1>5. own # <<>>
  OBVIOUS
<1> HIDE DEF own, q
<1>6. N \in Nat \ {0} /\ DOMAIN own = 1..N
  BY <1>1, <1>5
<1>7. q = [k \in 1..N |-> q[k]] /\ \A k \in 1..N : q[k] = VplsParse(own[k], store[own[k]], m)
  BY <1>3, <1>6
<1>8. IsProgram(q) /\ Len(q) = N
  BY <1>6, <1>7, ListRange DEF IsList
<1>9. q # <<>>
  BY <1>6, <1>8
<1>10. own \in [1..N -> M] /\ \A d \in M : \E k \in 1..N : own[k] = d
  <2>1. own = [k \in 1..N |-> own[k]]
    BY <1>1, <1>6
  <2>2. \A k \in 1..N : own[k] \in M
    BY <1>1, <1>6 DEF Range
  <2>3. \A d \in M : \E k \in 1..N : own[k] = d
    BY <1>1, <1>4, <1>6 DEF Range
  <2> HIDE DEF M, N
  <2> QED BY <2>1, <2>2, <2>3
<1>11. \A k, l \in 1..N : own[k] = own[l] => k = l
  BY <1>2, <1>6 DEF IsInjective
<1> HIDE DEF M, N
<1> QED BY <1>6, <1>7, <1>8, <1>9, <1>10, <1>11 DEF q, own, M

\* A service that is read has one of the names asked for, and is what is merged
\* of that name.
LEMMA ServiceRead ==
  ASSUME NEW store, NEW names, NEW s, s \in VplsReadAll(store, NodeOrder, names),
         IsInjective(NodeOrder)
  PROVE  \E m \in names :
           /\ s.id = m /\ Held(store, m) # <<>>
           /\ s = MergeParts(Head(PartsRead(store, m)), Tail(PartsRead(store, m)))
<1>1. PICK m \in names : Held(store, m) # <<>>
                         /\ s = MergeParts(Head(PartsRead(store, m)), Tail(PartsRead(store, m)))
  BY ReadAllIs
<1>2. /\ IsProgram(PartsRead(store, m)) /\ PartsRead(store, m) # <<>>
      /\ Len(PartsRead(store, m)) \in Nat \ {0}
      /\ \A k \in 1..Len(PartsRead(store, m)) :
           PartsRead(store, m)[k] = VplsParse(Held(store, m)[k], store[Held(store, m)[k]], m)
  BY <1>1, PartsReadFacts
<1>3. PartsRead(store, m)[1] = VplsParse(Held(store, m)[1], store[Held(store, m)[1]], m)
  BY <1>2
<1>4. \A d, c : IsService(VplsParse(d, c, m)) /\ VplsParse(d, c, m).id = m
  BY DEF IsService, VplsParse
<1>5. IsService(PartsRead(store, m)[1]) /\ PartsRead(store, m)[1].id = m
  BY <1>3, <1>4
<1>6. s.id = m
  BY <1>1, <1>2, <1>5, PartsKeepId
<1> QED BY <1>1, <1>6

\* A service that is read of a mesh has all its ends, each with the address
\* of its device, and no other.
LEMMA MeshReads ==
  ASSUME AddressOf, IsInjective(NodeOrder), NEW store, NEW n, NEW names, MeshOf(store, n),
         Members(store, n) \subseteq Devices, VplsReadable(store, NodeOrder, names),
         NEW s, s \in VplsReadAll(store, NodeOrder, names), s.id = n
  PROVE  /\ Members(store, n) # {}
         /\ s.devices = EndsPlaced(Members(store, n), LocalsOf(store, n))
<1> DEFINE M == Members(store, n)
           P == LocalsOf(store, n)
<1>1. /\ n \in names /\ Held(store, n) # <<>>
      /\ s = MergeParts(Head(PartsRead(store, n)), Tail(PartsRead(store, n)))
  BY ServiceRead
<1> DEFINE q == PartsRead(store, n)
           own == Held(store, n)
<1>4. /\ IsProgram(q) /\ q # <<>> /\ Len(q) \in Nat \ {0}
      /\ own \in [1..Len(q) -> M]
      /\ \A k \in 1..Len(q) : q[k] = VplsParse(own[k], store[own[k]], n)
      /\ \A k, l \in 1..Len(q) : own[k] = own[l] => k = l
      /\ \A d \in M : \E k \in 1..Len(q) : own[k] = d
  BY <1>1, PartsReadFacts
<1>5. s = MergeParts(Head(q), Tail(q))
  BY <1>1
<1>6. \A d \in M : KnownBy(VplsParse(d, store[d], n), n, M, P, d)
  BY ParseKnows
<1>7. Mesh(M, P)
  BY DEF Mesh, MeshOf, Meshed, LocalsOf
<1>8. \A d \in M : \A k : q[k] = q[k] => n \in names
  BY <1>1
<1>9. M # {} /\ own[1] \in M
  BY <1>4
<1>10. \E c \in M : c # own[1]
  <2> DEFINE d == own[1]
             ni == store[d][Instance(n)]
  <2>1. d \in Node /\ n \in InstancesAt(store[d], "L2VSI", names)
    BY <1>1, <1>9, MemberHas DEF InstancesAt
  <2>2. PICK k \in DOMAIN NodeOrder : NodeOrder[k] = d
    BY <2>1, NodeOrderAssumption DEF Range
  <2>3. PointsOf(ni, "REMOTE") # <<>>
    BY <2>1, <2>2 DEF VplsReadable
  <2>4. IsProgram(ni.points) /\ Systems(ni) = {Address(c) : c \in M \ {d}}
    BY <1>9 DEF MeshOf, Meshed
  <2>5. IsProgram(PointsOf(ni, "REMOTE"))
    BY <2>4, PointsRange
  <2> HIDE DEF ni, d
  <2>6. PICK p : p \in Range(PointsOf(ni, "REMOTE"))
    <3>1. PointsOf(ni, "REMOTE")[1] \in Range(PointsOf(ni, "REMOTE"))
      BY <2>3, <2>5 DEF Range, IsProgram
    <3> QED BY <3>1
  <2>7. p.system \in Systems(ni)
    BY <2>6 DEF Systems
  <2> QED BY <2>4, <2>7 DEF d
<1> HIDE DEF q, own, M, P
<1>11. PICK c \in M : c # own[1]
  BY <1>10
<1>12. KnownOf(MergeParts(Head(q), Tail(q)), n, M, P, M)
  <2>1. \A k \in 1..Len(q) : KnownBy(q[k], n, M, P, own[k])
    BY <1>4, <1>6
  <2>2. PICK b \in M : b = own[1]
    BY <1>9
  <2>3. c # b
    BY <1>11, <2>2
  <2>4. PartsOf(q, own, n, M, P)
    BY <1>4, <2>1 DEF PartsOf
  <2> QED BY <1>7, <2>2, <2>3, <2>4, PartsOfMesh
<1>13. s.devices = EndsPlaced(M, P)
  BY <1>5, <1>12 DEF KnownOf
<1> QED BY <1>9, <1>13 DEF M, P
-----------------------------------------------------------------------------
(* The programs of VPLS, and the instances they write *)

\* A step about the devices ids that writes no instance but that of the task;
\* a program of such steps; one that brings nothing to the network.
OwnStep(in, ids, x) ==
  /\ x.on \subseteq ids /\ x.undo \subseteq ids
  /\ x.call = "write" => \A n \in Name : x.object = Instance(n) => n = in.id
  /\ x.fails \in {"withdraw", "withdraw_abort", "overlook"} => x.call = "write"
  /\ x.fails \in {"withdraw", "overlook"} => in.do \in {"add", "remove"}
Own(in, ids, p) == IsProgram(p) /\ \A x \in Steps(p) : OwnStep(in, ids, x)
Still(p) == \A x \in Steps(p) : x.call # "commit"

\* A step before the instances are written; a dry run commits nothing.
Plain(ids, dry, x) ==
  /\ x.on \subseteq ids /\ x.undo \subseteq ids
  /\ x.call = "write" => \A n : x.object # Instance(n)
  /\ x.fails \in {"abort", "ignore", "skip"}
  /\ dry \/ x.fails # "abort" => x.call # "commit"
Prelude(ids, dry, q) ==
  /\ IsProgram(q)
  /\ \A k \in 1..Len(q) :
       /\ Plain(ids, dry, q[k])
       /\ q[k].fails = "skip" => k + 1 \in 1..Len(q) /\ q[k + 1].call # "commit"

\* What the calls about an object are.
LEMMA PutFields ==
  ASSUME NEW id, NEW o, NEW v, NEW undo, NEW f
  PROVE  /\ LET s == Put(id, o, v, undo) IN
            /\ s.call = "write" /\ s.on = {id} /\ s.object = o /\ s.value = v
            /\ s.undo = undo /\ s.fails = "abort"
         /\ LET s == [Put(id, o, v, undo) EXCEPT !.fails = f] IN
            /\ s.call = "write" /\ s.on = {id} /\ s.object = o /\ s.value = v
            /\ s.undo = undo /\ s.fails = f
BY DEF Put

\* The instances are objects of their own.
LEMMA InstanceApart ==
  /\ \A n, m : Instance(n) = Instance(m) => n = m
  /\ \A n, i : Port(i) # Instance(n) /\ Policy(i) # Instance(n) /\ Stp(i) # Instance(n)
  /\ \A n \in Name : Instance(n) \in Object
  /\ \A n : Instance(n)[1] # "interface"
<1>1. \A n, m : Instance(n) = Instance(m) => n = m
  BY DEF Instance
<1>2. \A n, i : Port(i) # Instance(n) /\ Policy(i) # Instance(n) /\ Stp(i) # Instance(n)
  BY DEF Instance, Port, Policy, Stp
<1>3. \A n \in Name : Instance(n) \in Object
  BY DEF Instance, Object
<1>4. \A n : Instance(n)[1] # "interface"
  BY DEF Instance
<1> QED BY <1>1, <1>2, <1>3, <1>4

\* No steps are a prelude.
LEMMA EmptyPrelude == \A ids, dry : Prelude(ids, dry, <<>>)
<1>1. <<>> \in Seq({}) /\ Len(<<>>) = 0 /\ \A k : k \notin 1..0
  OBVIOUS
<1> QED BY <1>1 DEF Prelude, IsProgram

\* A single step.
LEMMA OnePrelude ==
  ASSUME NEW ids, NEW dry, NEW x, Plain(ids, dry, x), x.fails # "skip"
  PROVE  Prelude(ids, dry, <<x>>)
<1>1. \A k : k \in 1..1 <=> k = 1
  OBVIOUS
<1> DEFINE p == <<x>>
<1>2. Len(p) = 1 /\ p[1] = x /\ IsProgram(p)
  BY SingleStep
<1> HIDE DEF p
<1>3. Prelude(ids, dry, p)
  BY <1>1, <1>2 DEF Prelude
<1> QED BY <1>3 DEF p

\* A step whose failure leaves out the next one.
LEMMA SkipPrelude ==
  ASSUME NEW ids, NEW dry, NEW x, NEW y, Plain(ids, dry, x), Plain(ids, dry, y),
         y.call # "commit", y.fails # "skip"
  PROVE  Prelude(ids, dry, <<x, y>>)
<1>1. /\ <<x, y>> \in Seq({x, y}) /\ Len(<<x, y>>) = 2
      /\ <<x, y>>[1] = x /\ <<x, y>>[2] = y
  OBVIOUS
<1>2. \A k : k \in 1..2 <=> k = 1 \/ k = 2
  OBVIOUS
<1>3. 1 + 1 = 2
  OBVIOUS
<1> DEFINE p == <<x, y>>
<1> HIDE DEF p
<1>4. p \in Seq({x, y}) /\ Len(p) = 2 /\ p[1] = x /\ p[2] = y
  BY <1>1 DEF p
<1>5. Prelude(ids, dry, p)
  BY <1>2, <1>3, <1>4 DEF Prelude, IsProgram
<1> QED BY <1>5 DEF p

\* One prelude after another.
LEMMA ConcatPrelude ==
  ASSUME NEW ids, NEW dry, NEW p, NEW q, Prelude(ids, dry, p), Prelude(ids, dry, q)
  PROVE  Prelude(ids, dry, p \o q)
<1> DEFINE r == p \o q
           m == Len(p)
           n == Len(q)
           Good(u, k) == /\ Plain(ids, dry, u[k])
                         /\ u[k].fails = "skip" => k + 1 \in 1..Len(u) /\ u[k + 1].call # "commit"
<1>1. /\ IsProgram(r) /\ Len(r) = m + n /\ m \in Nat /\ n \in Nat
      /\ \A k \in 1..m : r[k] = p[k]
      /\ \A k \in 1..(m + n) : k > m => r[k] = q[k - m] /\ k - m \in 1..n
  BY ProgramConcat DEF Prelude
<1> HIDE DEF r
<1>2. ASSUME NEW k \in 1..(m + n) PROVE Good(r, k)
  <2>1. CASE k \in 1..m
    <3>1. Good(p, k) /\ r[k] = p[k]
      BY <1>1, <2>1 DEF Prelude
    <3>2. k + 1 \in 1..m => k + 1 \in 1..(m + n) /\ r[k + 1] = p[k + 1]
      BY <1>1
    <3> QED BY <1>1, <3>1, <3>2
  <2>2. CASE k \notin 1..m
    <3>1. r[k] = q[k - m] /\ k - m \in 1..n
      BY <1>1, <2>2
    <3>2. Good(q, k - m)
      BY <3>1 DEF Prelude
    <3>3. (k - m) + 1 \in 1..n => /\ k + 1 \in 1..(m + n) /\ k + 1 > m
                                  /\ (k + 1) - m = (k - m) + 1
      BY <1>1
    <3>4. (k - m) + 1 \in 1..n => r[k + 1] = q[(k - m) + 1]
      <4> SUFFICES ASSUME (k - m) + 1 \in 1..n PROVE r[k + 1] = q[(k - m) + 1]
        OBVIOUS
      <4>1. r[k + 1] = q[(k + 1) - m]
        BY <1>1, <3>3
      <4> QED BY <3>3, <4>1
    <3> QED BY <1>1, <3>1, <3>2, <3>3, <3>4
  <2> QED BY <2>1, <2>2
<1>3. Prelude(ids, dry, r)
  BY <1>1, <1>2 DEF Prelude
<1> QED BY <1>3 DEF r

\* What elements of a set are flattened to is in it, when it is closed.
LEMMA FlattenClosed ==
  ASSUME NEW R, <<>> \in R, \A a, b \in R : a \o b \in R, NEW n \in Nat, NEW ps \in [1..n -> R]
  PROVE  FlattenSeq(ps) \in R
<1> DEFINE Def(g) == g = [i \in 1..n |-> IF i = 1 THEN ps[i] ELSE g[i - 1] \o ps[i]]
           f == CHOOSE g : Def(g)
<1>1. ps \in Seq(R) /\ Len(ps) = n
  BY ListIsProgram
<1>2. CASE n = 0
  <2>1. FlattenSeq(ps) = <<>>
    BY <1>1, <1>2 DEF FlattenSeq
  <2> QED BY <2>1
<1>3. CASE n # 0
  <2>1. FlattenSeq(ps) = f[n]
    BY <1>1, <1>3 DEF FlattenSeq
  <2>2. Def(f)
    <3>1. \E g : Def(g)
      BY FlattenExists
    <3> HIDE DEF Def
    <3> QED BY <3>1
  <2> HIDE DEF f
  <2> DEFINE T == {i \in 1..n : f[i] \in R}
  <2>3. ASSUME NEW i \in 1..n, \A k \in 1..(i - 1) : k \in T PROVE i \in T
    <3>1. CASE i = 1
      <4>1. f[i] = ps[i]
        BY <2>2, <3>1
      <4> QED BY <4>1
    <3>2. CASE i # 1
      <4>1. i - 1 \in 1..(i - 1)
        BY <3>2
      <4>2. i - 1 \in T
        <5> HIDE DEF T
        <5> QED BY <2>3, <4>1
      <4>3. f[i] = f[i - 1] \o ps[i]
        BY <2>2, <3>2
      <4> QED BY <4>2, <4>3
    <3> QED BY <3>1, <3>2
  <2>4. n \in T
    <3>1. \A i \in 1..n : i \in T
      <4> HIDE DEF T
      <4> QED BY <2>3, Upwards
    <3> QED BY <1>3, <3>1
  <2> QED BY <2>1, <2>4
<1> QED BY <1>2, <1>3

\* Any number of preludes joined.
LEMMA FlattenPrelude ==
  ASSUME NEW ids, NEW dry, NEW n \in Nat, NEW ps, IsList(ps, n),
         \A i \in 1..n : Prelude(ids, dry, ps[i])
  PROVE  Prelude(ids, dry, FlattenSeq(ps))
<1> DEFINE Q == UNION {{ps[i][k] : k \in 1..Len(ps[i])} : i \in 1..n}
           R == {q \in Seq(Q) : Prelude(ids, dry, q)}
<1>1. ASSUME NEW i \in 1..n PROVE ps[i] \in Seq(Q)
  <2>1. PICK S : ps[i] \in Seq(S)
    BY DEF Prelude, IsProgram
  <2>2. Len(ps[i]) \in Nat /\ ps[i] \in [1..Len(ps[i]) -> S]
    BY <2>1
  <2>3. \A k \in 1..Len(ps[i]) : ps[i][k] \in Q
    OBVIOUS
  <2>4. ps[i] \in [1..Len(ps[i]) -> Q]
    BY <2>2, <2>3
  <2> QED BY <2>2, <2>4, ListIsProgram
<1> HIDE DEF Q
<1>2. <<>> \in R
  BY EmptyPrelude
<1>3. \A a, b \in R : a \o b \in R
  BY ConcatPrelude
<1>4. ps \in [1..n -> R]
  BY <1>1 DEF IsList
<1> HIDE DEF R
<1>5. FlattenSeq(ps) \in R
  BY <1>2, <1>3, <1>4, FlattenClosed
<1> QED BY <1>5 DEF R

\* An end is configured.
LEMMA EndPrelude ==
  ASSUME NEW ids, NEW dry \in BOOLEAN, NEW end, end.id \in ids
  PROVE  Prelude(ids, dry, CreateVplsEnd(end, dry, ids))
<1> DEFINE alone == {end.id}
           d == end.id
<1>1. alone \subseteq ids /\ {} \subseteq ids /\ ids \subseteq ids
  OBVIOUS
<1>2. ASSUME NEW undo, undo \subseteq ids
      PROVE  /\ \A i, v : Plain(ids, dry, Put(d, Port(i), v, undo))
             /\ \A i, v : Plain(ids, dry, Put(d, Policy(i), v, undo))
             /\ \A i, v : Plain(ids, dry, [Put(d, Stp(i), v, undo) EXCEPT !.fails = "ignore"])
             /\ \A i, o : Plain(ids, dry, Read(d, o, undo))
             /\ \A i, o : Plain(ids, dry, [Read(d, o, undo) EXCEPT !.fails = "skip"])
  <2>1. ASSUME NEW i, NEW v, NEW x, x = Put(d, Port(i), v, undo) PROVE Plain(ids, dry, x)
    <3>1. /\ x.call = "write" /\ x.on = {d} /\ x.object = Port(i) /\ x.undo = undo
          /\ x.fails = "abort"
      BY <2>1, PutFields
    <3> QED BY <1>2, <3>1, InstanceApart DEF Plain
  <2>2. ASSUME NEW i, NEW v, NEW x, x = Put(d, Policy(i), v, undo) PROVE Plain(ids, dry, x)
    <3>1. /\ x.call = "write" /\ x.on = {d} /\ x.object = Policy(i) /\ x.undo = undo
          /\ x.fails = "abort"
      BY <2>2, PutFields
    <3> QED BY <1>2, <3>1, InstanceApart DEF Plain
  <2>3. ASSUME NEW i, NEW v, NEW x, x = [Put(d, Stp(i), v, undo) EXCEPT !.fails = "ignore"]
        PROVE  Plain(ids, dry, x)
    <3>1. /\ x.call = "write" /\ x.on = {d} /\ x.object = Stp(i) /\ x.undo = undo
          /\ x.fails = "ignore"
      BY <2>3, PutFields
    <3> QED BY <1>2, <3>1, InstanceApart DEF Plain
  <2>4. ASSUME NEW o, NEW x, x = Read(d, o, undo) PROVE Plain(ids, dry, x)
    <3>1. x.call = "read" /\ x.on = {d} /\ x.undo = undo /\ x.fails = "abort"
      BY <2>4 DEF Read
    <3> QED BY <1>2, <3>1 DEF Plain
  <2>5. ASSUME NEW o, NEW x, x = [Read(d, o, undo) EXCEPT !.fails = "skip"]
        PROVE  Plain(ids, dry, x)
    <3>1. x.call = "read" /\ x.on = {d} /\ x.undo = undo /\ x.fails = "skip"
      BY <2>5 DEF Read
    <3> QED BY <1>2, <3>1 DEF Plain
  <2> QED BY <2>1, <2>2, <2>3, <2>4, <2>5
<1>3. /\ \A o, v, undo : Put(d, o, v, undo).fails # "skip" /\ Put(d, o, v, undo).call # "commit"
      /\ \A o, v, undo : [Put(d, o, v, undo) EXCEPT !.fails = "ignore"].fails # "skip"
      /\ \A o, undo : Read(d, o, undo).fails # "skip"
  <2>1. \A o, v, undo : Put(d, o, v, undo).fails # "skip" /\ Put(d, o, v, undo).call # "commit"
    BY DEF Put
  <2>2. \A o, v, undo : [Put(d, o, v, undo) EXCEPT !.fails = "ignore"].fails # "skip"
    BY DEF Put
  <2>3. \A o, undo : Read(d, o, undo).fails # "skip"
    BY DEF Read
  <2> QED BY <2>1, <2>2, <2>3
<1> HIDE DEF d, alone
<1>4. Prelude(ids, dry, ReadInterface(end, ids))
  BY <1>1, <1>2, <1>3, OnePrelude DEF ReadInterface, d
<1>5. Prelude(ids, dry, ResetPolicy(end, alone))
  <2> DEFINE x == [Read(d, Policy(end.interface), {}) EXCEPT !.fails = "skip"]
             y == Put(d, Policy(end.interface), None, alone)
  <2>1. Plain(ids, dry, x) /\ Plain(ids, dry, y) /\ y.call # "commit" /\ y.fails # "skip"
    <3>1. Plain(ids, dry, y)
      BY <1>1, <1>2
    <3>2. Plain(ids, dry, x)
      BY <1>1, <1>2
    <3>3. y.call # "commit" /\ y.fails # "skip"
      BY <1>3
    <3> QED BY <3>1, <3>2, <3>3
  <2> HIDE DEF x, y
  <2>2. Prelude(ids, dry, <<x, y>>)
    BY <2>1, SkipPrelude
  <2> QED BY <2>2, EmptyPrelude DEF ResetPolicy, When, Delete, d, x, y
<1>6. \A undo : undo \subseteq ids => Prelude(ids, dry, DeleteInterface(end, undo))
  BY <1>2, <1>3, OnePrelude DEF DeleteInterface, Delete, d
<1>7. ~dry => Prelude(ids, dry, <<Commit(alone, alone), SyncFromNet(alone, alone)>>)
  <2> SUFFICES ASSUME ~dry
               PROVE  Prelude(ids, dry, <<Commit(alone, alone), SyncFromNet(alone, alone)>>)
    OBVIOUS
  <2> DEFINE x == Commit(alone, alone)
             y == SyncFromNet(alone, alone)
  <2>1. x.call = "commit" /\ x.on = alone /\ x.undo = alone /\ x.fails = "abort"
    BY CallIs DEF Commit
  <2>2. y.call = "sync" /\ y.on = alone /\ y.undo = alone /\ y.fails = "abort"
    BY CallIs DEF SyncFromNet
  <2> HIDE DEF x, y
  <2>3. Plain(ids, dry, x) /\ Plain(ids, dry, y)
    BY <1>1, <2>1, <2>2 DEF Plain
  <2>4. Prelude(ids, dry, <<x, y>>)
    BY <2>2, <2>3, SkipPrelude
  <2> QED BY <2>4 DEF x, y
<1>8. Prelude(ids, dry, When(~dry /\ end.interface_reset, ResetVplsEnd(end)))
  <2>1. CASE ~dry /\ end.interface_reset
    <3> DEFINE a == ResetPolicy(end, alone)
               b == DeleteInterface(end, alone)
               c == <<Commit(alone, alone), SyncFromNet(alone, alone)>>
    <3>1. ResetVplsEnd(end) = a \o b \o c
      BY DEF ResetVplsEnd, alone
    <3>2. Prelude(ids, dry, a) /\ Prelude(ids, dry, b) /\ Prelude(ids, dry, c)
      BY <1>1, <1>5, <1>6, <1>7, <2>1
    <3> HIDE DEF a, b, c
    <3>3. Prelude(ids, dry, a \o b \o c)
      BY <3>2, ConcatPrelude
    <3> QED BY <2>1, <3>1, <3>3 DEF When
  <2>2. CASE ~(~dry /\ end.interface_reset)
    BY <2>2, EmptyPrelude DEF When
  <2> QED BY <2>1, <2>2
<1>9. Prelude(ids, dry, Configure(end, ids))
  <2>1. Prelude(ids, dry, PutInterface(end, ids))
    BY <1>1, <1>2, <1>3, OnePrelude DEF PutInterface, d
  <2>2. Prelude(ids, dry, PutPolicy(end, ids))
    BY <1>1, <1>2, <1>3, OnePrelude, EmptyPrelude DEF PutPolicy, When, d
  <2>3. Prelude(ids, dry, DisableStp(end))
    <3> DEFINE x == [Put(d, Stp(end.interface), None, {}) EXCEPT !.fails = "ignore"]
    <3>1. Plain(ids, dry, x) /\ x.fails # "skip"
      BY <1>1, <1>2, <1>3
    <3> HIDE DEF x
    <3>2. Prelude(ids, dry, <<x>>)
      BY <3>1, OnePrelude
    <3> QED BY <3>2 DEF DisableStp, Delete, d, x
  <2> QED BY <2>1, <2>2, <2>3, ConcatPrelude DEF Configure
<1> QED BY <1>4, <1>8, <1>9, ConcatPrelude DEF CreateVplsEnd
-----------------------------------------------------------------------------
(* What the programs of VPLS consist of *)

\* The ends of a service are configured.
LEMMA EndsPrelude ==
  ASSUME NEW ids, NEW dry \in BOOLEAN, NEW ends, IsProgram(ends),
         \A k \in 1..Len(ends) : ends[k].id \in ids
  PROVE  Prelude(ids, dry, FlattenSeq([k \in DOMAIN ends |-> CreateVplsEnd(ends[k], dry, ids)]))
<1> DEFINE n == Len(ends)
           ps == [k \in 1..n |-> CreateVplsEnd(ends[k], dry, ids)]
<1>1. n \in Nat /\ DOMAIN ends = 1..n
  BY DEF IsProgram
<1>2. \A k \in 1..n : Prelude(ids, dry, CreateVplsEnd(ends[k], dry, ids))
  BY EndPrelude
<1> HIDE DEF n
<1>3. IsList(ps, n) /\ \A k \in 1..n : Prelude(ids, dry, ps[k])
  BY <1>2 DEF IsList
<1> HIDE DEF ps
<1>4. Prelude(ids, dry, FlattenSeq(ps))
  BY <1>1, <1>3, FlattenPrelude
<1> QED BY <1>1, <1>4 DEF ps

\* The steps that write the instances of the task, with the contents g.
WritesInstance(in, ids, g, x) ==
  /\ OwnStep(in, ids, x) /\ x.call = "write" /\ x.object = Instance(in.id)
  /\ \A d \in x.on : x.value = g[d]
  /\ x.fails \in {"abort", "withdraw_abort", "withdraw", "overlook"}
\* A program of such steps; one that writes the object o of all devices D.
Middle(in, ids, g, q) == IsProgram(q) /\ \A x \in Steps(q) : WritesInstance(in, ids, g, x)
Fills(q, D, o) == \A d \in D : Has(q, Len(q), d, o)

\* What the settings of an instance call for when it cannot be written.
Fitting(in, fails) ==
  \/ fails = "withdraw_abort"
  \/ fails = "withdraw" /\ in.do \in {"add", "remove"}

\* The instances are written.
LEMMA CreateMiddle ==
  ASSUME NEW in, NEW ids, NEW D, IsFiniteSet(D), D \subseteq ids, NEW order \in SetToSeqs(D),
         NEW s, s.id = in.id, NEW ends, NEW undo, undo \subseteq ids, NEW fails,
         Fitting(in, fails), NEW g, \A d \in D : g[d] = VplsInstance(s, ends, d)
  PROVE  LET q == CreateInstances(s, ends, order, undo, fails) IN
         Middle(in, ids, g, q) /\ Fills(q, D, Instance(in.id))
<1> DEFINE n == Cardinality(D)
           Of(k) == [Put(order[k], Instance(s.id), VplsInstance(s, ends, order[k]), undo)
                       EXCEPT !.fails = fails]
           q == CreateInstances(s, ends, order, undo, fails)
<1>1. /\ n \in Nat /\ DOMAIN order = 1..n /\ \A k \in 1..n : order[k] \in D
      /\ \A d \in D : \E k \in 1..n : order[k] = d
  BY OrderFacts, OrderOnto DEF IsList
<1>2. q = [k \in 1..n |-> Of(k)]
  BY <1>1 DEF CreateInstances
<1>3. ASSUME NEW k \in 1..n
      PROVE  WritesInstance(in, ids, g, Of(k)) /\ WritesTo(Of(k), order[k], Instance(in.id))
  <2> PICK x : x = Of(k)
    OBVIOUS
  <2> PICK d : d = order[k]
    OBVIOUS
  <2>1. /\ x.call = "write" /\ x.on = {d} /\ x.object = Instance(in.id) /\ x.undo = undo
        /\ x.value = VplsInstance(s, ends, d) /\ x.fails = fails
    BY PutFields
  <2>2. d \in D
    BY <1>1
  <2> HIDE DEF Of
  <2>3. WritesInstance(in, ids, g, x) /\ WritesTo(x, d, Instance(in.id))
    BY <2>1, <2>2, InstanceApart DEF WritesInstance, OwnStep, Fitting, WritesTo
  <2> QED BY <2>3
<1> HIDE DEF Of, q, n
<1>4. q \in Seq({Of(k) : k \in 1..n}) /\ Len(q) = n /\ \A k \in 1..n : q[k] = Of(k)
  BY <1>1, <1>2, ListIsProgram
<1>5. Middle(in, ids, g, q)
  BY <1>3, <1>4 DEF Middle, IsProgram, Steps
<1>6. Fills(q, D, Instance(in.id))
  <2> SUFFICES ASSUME NEW d \in D PROVE Has(q, Len(q), d, Instance(in.id))
    BY DEF Fills
  <2>1. PICK k \in 1..n : order[k] = d
    BY <1>1
  <2> QED BY <1>3, <1>4, <2>1 DEF Has
<1> QED BY <1>5, <1>6 DEF q

\* A deletion of an instance.
LEMMA DeleteWrites ==
  ASSUME NEW in, NEW ids, NEW d \in ids, NEW s, s.id = in.id, NEW g, g[d] = None, NEW undo,
         undo \subseteq ids, NEW x,
         \/ x = Delete(d, Instance(s.id), undo)
         \/ x = [Delete(d, Instance(s.id), undo) EXCEPT !.fails = "overlook"] /\ in.do = "remove"
  PROVE  WritesInstance(in, ids, g, x) /\ WritesTo(x, d, Instance(in.id))
<1>1. /\ x.call = "write" /\ x.on = {d} /\ x.object = Instance(in.id) /\ x.undo = undo
      /\ x.value = None
      /\ x.fails = "abort" \/ (x.fails = "overlook" /\ in.do = "remove")
  <2>1. CASE x = Delete(d, Instance(s.id), undo)
    BY <2>1 DEF Delete, Put
  <2>2. CASE x = [Delete(d, Instance(s.id), undo) EXCEPT !.fails = "overlook"] /\ in.do = "remove"
    BY <2>2 DEF Delete, Put
  <2> QED BY <2>1, <2>2
<1> QED BY <1>1, InstanceApart DEF WritesInstance, OwnStep, WritesTo

\* Every step of programs that are flattened is there.
LEMMA FlattenHas ==
  ASSUME NEW n \in Nat, NEW ps, IsList(ps, n), \A i \in 1..n : IsProgram(ps[i])
  PROVE  \A i \in 1..n : Steps(ps[i]) \subseteq Steps(FlattenSeq(ps))
<1> DEFINE Def(g) == g = [i \in 1..n |-> IF i = 1 THEN ps[i] ELSE g[i - 1] \o ps[i]]
           f == CHOOSE g : Def(g)
<1>0. Len(ps) = n
  <2>1. ps \in [1..n -> {ps[i] : i \in 1..n}]
    BY DEF IsList
  <2> QED BY <2>1, ListIsProgram
<1>1. CASE n = 0
  BY <1>1
<1>2. CASE n # 0
  <2>1. FlattenSeq(ps) = f[n]
    <3>1. ps # <<>>
      <4>1. Len(<<>>) = 0
        OBVIOUS
      <4> QED BY <1>0, <1>2, <4>1
    <3> QED BY <1>0, <1>2, <3>1 DEF FlattenSeq
  <2>2. Def(f)
    <3>1. \E g : Def(g)
      BY FlattenExists
    <3> HIDE DEF Def
    <3> QED BY <3>1
  <2> HIDE DEF f
  <2> DEFINE T == {i \in 1..n : IsProgram(f[i]) /\ \A j \in 1..i : Steps(ps[j]) \subseteq Steps(f[i])}
  <2>3. ASSUME NEW i \in 1..n, \A k \in 1..(i - 1) : k \in T PROVE i \in T
    <3>1. CASE i = 1
      <4>1. f[i] = ps[i] /\ \A j \in 1..i : j = i
        BY <2>2, <3>1
      <4> QED BY <4>1
    <3>2. CASE i # 1
      <4>1. i - 1 \in 1..(i - 1) /\ \A j \in 1..i : j = i \/ j \in 1..(i - 1)
        BY <3>2
      <4>2. i - 1 \in T
        <5> HIDE DEF T
        <5> QED BY <2>3, <4>1
      <4>3. f[i] = f[i - 1] \o ps[i]
        BY <2>2, <3>2
      <4>4. IsProgram(f[i]) /\ Steps(f[i]) = Steps(f[i - 1]) \cup Steps(ps[i])
        BY <4>2, <4>3, ProgramConcat, RowSteps
      <4> QED BY <4>1, <4>2, <4>4
    <3> QED BY <3>1, <3>2
  <2>4. n \in T
    <3>1. \A i \in 1..n : i \in T
      <4> HIDE DEF T
      <4> QED BY <2>3, Upwards
    <3> QED BY <1>2, <3>1
  <2> QED BY <2>1, <2>4
<1> QED BY <1>1, <1>2

\* The instances are deleted.
LEMMA DeleteMiddle ==
  ASSUME NEW in, NEW ids, NEW D, IsFiniteSet(D), D \subseteq ids, NEW order \in SetToSeqs(D),
         NEW s, s.id = in.id, NEW undo, undo \subseteq ids, NEW g, \A d \in D : g[d] = None
  PROVE  LET q == DeleteInstances(s, order, undo) IN
         Middle(in, ids, g, q) /\ Fills(q, D, Instance(in.id))
<1> DEFINE n == Cardinality(D)
           Of(k) == Delete(order[k], Instance(s.id), undo)
           ps == [k \in 1..n |-> <<Of(k)>>]
           q == FlattenSeq(ps)
<1>1. /\ n \in Nat /\ DOMAIN order = 1..n /\ \A k \in 1..n : order[k] \in D
      /\ \A d \in D : \E k \in 1..n : order[k] = d
  BY OrderFacts, OrderOnto DEF IsList
<1>2. DeleteInstances(s, order, undo) = q
  BY <1>1 DEF DeleteInstances, RemoveVpls
<1>3. ASSUME NEW k \in 1..n
      PROVE  WritesInstance(in, ids, g, Of(k)) /\ WritesTo(Of(k), order[k], Instance(in.id))
  <2>1. order[k] \in D
    BY <1>1
  <2> HIDE DEF n
  <2> QED BY <2>1, DeleteWrites
<1>4. ASSUME NEW k \in 1..n PROVE IsProgram(ps[k]) /\ Steps(ps[k]) = {Of(k)}
  <2>1. ps[k] = <<Of(k)>>
    OBVIOUS
  <2> HIDE DEF Of, ps
  <2> QED BY <2>1, SingleStep
<1>5. IsList(ps, n)
  BY DEF IsList
<1> HIDE DEF ps, Of, n
<1>6. /\ IsProgram(q)
      /\ \A k \in 1..Len(q) : \E i \in 1..n : \E j \in 1..Len(ps[i]) : q[k] = ps[i][j]
  BY <1>1, <1>4, <1>5, FlattenedFrom
<1>7. \A i \in 1..n : Steps(ps[i]) \subseteq Steps(q)
  BY <1>1, <1>4, <1>5, FlattenHas
<1> HIDE DEF q
<1>8. Middle(in, ids, g, q)
  <2> SUFFICES ASSUME NEW k \in 1..Len(q) PROVE WritesInstance(in, ids, g, q[k])
    BY <1>6 DEF Middle, Steps
  <2>1. PICK i \in 1..n : \E j \in 1..Len(ps[i]) : q[k] = ps[i][j]
    BY <1>6
  <2>2. q[k] \in Steps(ps[i])
    BY <2>1 DEF Steps
  <2> QED BY <1>3, <1>4, <2>2
<1>9. Fills(q, D, Instance(in.id))
  <2> SUFFICES ASSUME NEW d \in D PROVE Has(q, Len(q), d, Instance(in.id))
    BY DEF Fills
  <2>1. PICK k \in 1..n : order[k] = d
    BY <1>1
  <2>2. Of(k) \in Steps(q)
    BY <1>4, <1>7
  <2>3. PICK j \in 1..Len(q) : q[j] = Of(k)
    BY <2>2 DEF Steps
  <2> QED BY <1>3, <2>1, <2>3 DEF Has
<1> QED BY <1>2, <1>8, <1>9

\* The deletions before what is left is written.
Deletions(s, removed) ==
  [k \in DOMAIN removed |-> [RemoveVpls(removed[k], s, {})[1] EXCEPT !.fails = "overlook"]]

\* The instances of the devices that leave are deleted.
LEMMA RemoveMiddle ==
  ASSUME NEW in, in.do = "remove", NEW ids, NEW D, IsFiniteSet(D), D \subseteq ids,
         NEW removed \in SetToSeqs(D), NEW s, s.id = in.id, NEW g, \A d \in D : g[d] = None
  PROVE  LET q == Deletions(s, removed) IN
         Middle(in, ids, g, q) /\ Fills(q, D, Instance(in.id))
<1> DEFINE n == Cardinality(D)
           Of(k) == [Delete(removed[k], Instance(s.id), {}) EXCEPT !.fails = "overlook"]
           q == [k \in 1..n |-> Of(k)]
<1>1. /\ n \in Nat /\ DOMAIN removed = 1..n /\ \A k \in 1..n : removed[k] \in D
      /\ \A d \in D : \E k \in 1..n : removed[k] = d
  BY OrderFacts, OrderOnto DEF IsList
<1>2. Deletions(s, removed) = q
  BY <1>1 DEF RemoveVpls, Deletions
<1>3. ASSUME NEW k \in 1..n
      PROVE  WritesInstance(in, ids, g, Of(k)) /\ WritesTo(Of(k), removed[k], Instance(in.id))
  <2>1. removed[k] \in D
    BY <1>1
  <2> HIDE DEF n
  <2> QED BY <2>1, DeleteWrites
<1>7. q = [k \in 1..n |-> Of(k)]
  OBVIOUS
<1> HIDE DEF Of, n, q
<1>4. q \in Seq({Of(k) : k \in 1..n}) /\ Len(q) = n /\ \A k \in 1..n : q[k] = Of(k)
  BY <1>1, <1>7, ListIsProgram
<1>5. Middle(in, ids, g, q)
  BY <1>3, <1>4 DEF Middle, IsProgram, Steps
<1>6. Fills(q, D, Instance(in.id))
  <2> SUFFICES ASSUME NEW d \in D PROVE Has(q, Len(q), d, Instance(in.id))
    BY DEF Fills
  <2>1. PICK k \in 1..n : removed[k] = d
    BY <1>1
  <2> QED BY <1>3, <1>4, <2>1 DEF Has
<1> QED BY <1>2, <1>5, <1>6
-----------------------------------------------------------------------------
(* Programs and their end *)

\* A step that is about other objects than the instances of the task.
Tame(in, x) == x.call # "commit" /\ \A d : ~WritesTo(x, d, Instance(in.id))
\* Steps whose failure is passed over are not needed for the instances.
Paced(in, p) ==
  \A k \in 1..Len(p) :
    /\ p[k].fails \in {"ignore", "skip"} => Tame(in, p[k])
    /\ p[k].fails = "skip" => k + 1 \in 1..Len(p) /\ Tame(in, p[k + 1])
\* What is written of the instances is g.
Valued(in, g, p) ==
  \A x \in Steps(p) : \A d : WritesTo(x, d, Instance(in.id)) => x.value = g[d]

\* A program, but for its end: it writes the instances of all its devices, and
\* commits nothing once it has written one.
Body(in, ids, g, p) ==
  /\ Own(in, ids, p) /\ Paced(in, p) /\ Valued(in, g, p)
  /\ in.dryrun => Still(p)
  /\ Fills(p, ids, Instance(in.id))
  /\ \A c \in 1..Len(p) : p[c].call = "commit" => \A d : ~Has(p, c, d, Instance(in.id))

\* What a plain step does not do.
LEMMA PlainIs ==
  ASSUME NEW in, NEW ids, NEW x, Plain(ids, in.dryrun, x)
  PROVE  /\ OwnStep(in, ids, x) /\ \A d : ~WritesTo(x, d, Instance(in.id))
         /\ in.dryrun => x.call # "commit"
         /\ x.fails \in {"ignore", "skip"} => x.call # "commit"
BY DEF Plain, OwnStep, WritesTo

\* What a step that writes instances does not do.
LEMMA WritesIs ==
  ASSUME NEW in, NEW ids, NEW g, NEW x, WritesInstance(in, ids, g, x)
  PROVE  /\ OwnStep(in, ids, x) /\ \A d : WritesTo(x, d, Instance(in.id)) => x.value = g[d]
         /\ x.call # "commit" /\ x.fails \notin {"ignore", "skip"}
BY DEF WritesInstance, WritesTo

\* A prelude, then the instances: a program but for its end.
LEMMA PreludeBody ==
  ASSUME NEW in, NEW ids, NEW g, NEW q, Prelude(ids, in.dryrun, q), NEW m,
         Middle(in, ids, g, m), Fills(m, ids, Instance(in.id))
  PROVE  Body(in, ids, g, q \o m)
<1> DEFINE p == q \o m
           I == Instance(in.id)
           a == Len(q)
           b == Len(m)
<1>1. IsProgram(q) /\ IsProgram(m)
  BY DEF Prelude, Middle
<1>2. /\ IsProgram(p) /\ Len(p) = a + b /\ a \in Nat /\ b \in Nat
      /\ \A k \in 1..a : p[k] = q[k]
      /\ \A k \in 1..(a + b) : k > a => p[k] = m[k - a] /\ k - a \in 1..b
  BY <1>1, ProgramConcat
<1>3. /\ Steps(p) = Steps(q) \cup Steps(m)
      /\ \A c \in 1..a : \A d : Has(p, c, d, I) <=> Has(q, c, d, I)
      /\ \A d : Has(p, Len(p), d, I) <=> Has(q, a, d, I) \/ Has(m, b, d, I)
  BY <1>1, RowSteps
<1>4. ASSUME NEW k \in 1..a
      PROVE  /\ Plain(ids, in.dryrun, q[k])
             /\ q[k].fails = "skip" => k + 1 \in 1..a /\ q[k + 1].call # "commit"
  BY DEF Prelude
<1>5. ASSUME NEW k \in 1..b PROVE WritesInstance(in, ids, g, m[k])
  BY DEF Middle, Steps
<1> HIDE DEF p, I
<1>6. /\ \A x \in Steps(q) : Plain(ids, in.dryrun, x)
      /\ \A x \in Steps(m) : WritesInstance(in, ids, g, x)
  BY <1>4, <1>5 DEF Steps
<1>7. \A c \in 1..a : \A d : ~Has(q, c, d, I)
  <2> SUFFICES ASSUME NEW c \in 1..a, NEW d, NEW j \in 1..c, WritesTo(q[j], d, I) PROVE FALSE
    BY DEF Has
  <2>1. j \in 1..a
    BY <1>2
  <2> QED BY <1>4, <2>1, PlainIs DEF I
<1>8. Own(in, ids, p)
  BY <1>2, <1>3, <1>6, PlainIs, WritesIs DEF Own
<1>9. Valued(in, g, p)
  <2> SUFFICES ASSUME NEW x \in Steps(p), NEW d, WritesTo(x, d, Instance(in.id))
               PROVE  x.value = g[d]
    BY DEF Valued
  <2>1. CASE x \in Steps(q)
    BY <1>6, <2>1, PlainIs
  <2>2. CASE x \in Steps(m)
    BY <1>6, <2>2, WritesIs
  <2> QED BY <1>3, <2>1, <2>2
<1>10. in.dryrun => Still(p)
  <2> SUFFICES ASSUME in.dryrun, NEW x \in Steps(p) PROVE x.call # "commit"
    BY DEF Still
  <2>1. CASE x \in Steps(q)
    BY <1>6, <2>1, PlainIs
  <2>2. CASE x \in Steps(m)
    BY <1>6, <2>2, WritesIs
  <2> QED BY <1>3, <2>1, <2>2
<1>11. Fills(p, ids, I)
  BY <1>3 DEF Fills, I
<1>12. ASSUME NEW k \in 1..Len(p)
       PROVE  /\ p[k].call = "commit" => \A d : ~Has(p, k, d, I)
              /\ p[k].fails \in {"ignore", "skip"} => Tame(in, p[k])
              /\ p[k].fails = "skip" => k + 1 \in 1..Len(p) /\ Tame(in, p[k + 1])
  <2>1. CASE k \in 1..a
    <3>1. p[k] = q[k]
      BY <1>2, <2>1
    <3>2. \A d : ~Has(p, k, d, I)
      BY <1>3, <1>7, <2>1
    <3>3. ASSUME NEW j \in 1..a, q[j].call # "commit" PROVE Tame(in, p[j])
      <4>1. p[j] = q[j] /\ Plain(ids, in.dryrun, q[j])
        BY <1>2, <1>4
      <4> QED BY <3>3, <4>1, PlainIs DEF Tame
    <3>4. p[k].fails \in {"ignore", "skip"} => Tame(in, p[k])
      BY <1>4, <2>1, <3>1, <3>3, PlainIs
    <3>5. p[k].fails = "skip" => k + 1 \in 1..a /\ Tame(in, p[k + 1])
      BY <1>4, <2>1, <3>1, <3>3
    <3>6. k + 1 \in 1..a => k + 1 \in 1..Len(p)
      BY <1>2
    <3> QED BY <3>2, <3>4, <3>5, <3>6
  <2>2. CASE k \notin 1..a
    <3>1. p[k] = m[k - a] /\ k - a \in 1..b
      BY <1>2, <2>2
    <3>2. WritesInstance(in, ids, g, p[k])
      BY <1>5, <3>1
    <3> QED BY <3>2, WritesIs
  <2> QED BY <2>1, <2>2
<1>13. Paced(in, p)
  BY <1>12 DEF Paced
<1>14. Body(in, ids, g, p)
  BY <1>8, <1>9, <1>10, <1>11, <1>12, <1>13 DEF Body, I
<1> QED BY <1>14 DEF p

\* Instances that are written one part after another.
LEMMA ConcatMiddle ==
  ASSUME NEW in, NEW ids, NEW g, NEW p, NEW q, Middle(in, ids, g, p), Middle(in, ids, g, q),
         NEW D, NEW E, Fills(p, D, Instance(in.id)), Fills(q, E, Instance(in.id))
  PROVE  Middle(in, ids, g, p \o q) /\ Fills(p \o q, D \cup E, Instance(in.id))
<1>1. IsProgram(p) /\ IsProgram(q)
  BY DEF Middle
<1> DEFINE r == p \o q
           I == Instance(in.id)
<1>2. /\ IsProgram(r) /\ Steps(r) = Steps(p) \cup Steps(q)
      /\ \A d : Has(r, Len(r), d, I) <=> Has(p, Len(p), d, I) \/ Has(q, Len(q), d, I)
  BY <1>1, ProgramConcat, RowSteps
<1> HIDE DEF r, I
<1>3. Middle(in, ids, g, r)
  BY <1>2 DEF Middle
<1>4. Fills(r, D \cup E, I)
  BY <1>2 DEF Fills, I
<1> QED BY <1>3, <1>4 DEF r, I

\* A task that writes instances and nothing else.
LEMMA MiddleBody ==
  ASSUME NEW in, in.dryrun \in BOOLEAN, NEW ids, NEW g, NEW m, Middle(in, ids, g, m),
         Fills(m, ids, Instance(in.id))
  PROVE  Body(in, ids, g, m)
<1>1. PICK S : m \in Seq(S)
  BY DEF Middle, IsProgram
<1>2. <<>> \o m = m
  BY <1>1
<1>3. Prelude(ids, in.dryrun, <<>>)
  BY EmptyPrelude
<1>4. Body(in, ids, g, <<>> \o m)
  BY <1>3, PreludeBody
<1> QED BY <1>2, <1>4
-----------------------------------------------------------------------------
(* What a VPLS task has yet to do, over the stores it does it to *)

\* The rest p of a program, which brings the instances g to the devices ids by
\* its last step: each is in the intent or will be written, and the commits
\* before carry none of them.
Course(in, p, ids, g, want, have) ==
  LET I == Instance(in.id) IN
  /\ IsProgram(p) /\ p # <<>> /\ Paced(in, p) /\ Valued(in, g, p)
  /\ p[Len(p)].call = "commit" /\ p[Len(p)].on = ids
  /\ \A d \in ids \cap Node : want[d][I] = g[d] \/ Has(p, Len(p), d, I)
  /\ \A c \in 1..(Len(p) - 1) : p[c].call = "commit" =>
       \A d \in ids \cap Node : ~Has(p, c, d, I) /\ want[d][I] = have[d][I]

\* A program that commits what it wrote, or shows it.
LEMMA FinishBody ==
  ASSUME NEW in, in.dryrun \in BOOLEAN, NEW ids, NEW g, NEW a, Body(in, ids, g, a)
  PROVE  LET p == a \o Finish(in.dryrun, ids) IN
         /\ Own(in, ids, p)
         /\ in.dryrun => Still(p)
         /\ ~in.dryrun => \A want, have :
              (\A d \in ids \cap Node : want[d] = have[d]) => Course(in, p, ids, g, want, have)
<1> PICK x : x = IF in.dryrun THEN DryRun(ids) ELSE Commit(ids, ids)
  OBVIOUS
<1>1. /\ Finish(in.dryrun, ids) = <<x>>
      /\ x.call = (IF in.dryrun THEN "dryrun" ELSE "commit") /\ x.on = ids /\ x.undo \subseteq ids
      /\ x.fails = "abort"
  BY DEF Finish, DryRun, Commit, Call
<1> DEFINE p == a \o <<x>>
           I == Instance(in.id)
           m == Len(a)
<1>2. IsProgram(a) /\ IsProgram(<<x>>) /\ Len(<<x>>) = 1 /\ <<x>>[1] = x /\ Steps(<<x>>) = {x}
  BY SingleStep DEF Body, Own
<1>3. /\ IsProgram(p) /\ Len(p) = m + 1 /\ m \in Nat
      /\ \A k \in 1..m : p[k] = a[k]
      /\ p[m + 1] = x
  <2> DEFINE q == <<x>>
  <2>1. IsProgram(q) /\ Len(q) = 1 /\ q[1] = x
    BY <1>2
  <2> HIDE DEF q
  <2>2. /\ IsProgram(a \o q) /\ Len(a \o q) = m + Len(q) /\ m \in Nat
        /\ \A k \in 1..m : (a \o q)[k] = a[k]
        /\ \A k \in 1..(m + Len(q)) : k > m => (a \o q)[k] = q[k - m]
    BY <1>2, <2>1, ProgramConcat
  <2>3. m + 1 \in 1..(m + 1) /\ m + 1 > m /\ (m + 1) - m = 1
    BY <2>2
  <2> QED BY <2>1, <2>2, <2>3 DEF q
<1>4. /\ Steps(p) = Steps(a) \cup {x}
      /\ \A c \in 1..m : \A d : Has(p, c, d, I) <=> Has(a, c, d, I)
      /\ \A d : Has(a, m, d, I) => Has(p, Len(p), d, I)
  <2> DEFINE q == <<x>>
  <2>1. IsProgram(q) /\ Steps(q) = {x}
    BY <1>2
  <2> HIDE DEF q
  <2>2. /\ Steps(a \o q) = Steps(a) \cup Steps(q)
        /\ \A c \in 1..Len(a) : \A d, o : Has(a \o q, c, d, o) <=> Has(a, c, d, o)
        /\ \A d, o : Has(a \o q, Len(a \o q), d, o) <=> Has(a, Len(a), d, o) \/ Has(q, Len(q), d, o)
    BY <1>2, <2>1, RowSteps
  <2> HIDE DEF I
  <2>3. /\ Steps(a \o q) = Steps(a) \cup {x}
        /\ \A c \in 1..m : \A d : Has(a \o q, c, d, I) <=> Has(a, c, d, I)
        /\ \A d : Has(a, m, d, I) => Has(a \o q, Len(a \o q), d, I)
    BY <2>1, <2>2
  <2> QED BY <2>3 DEF q
<1>5. /\ Own(in, ids, a) /\ Paced(in, a) /\ Valued(in, g, a) /\ Fills(a, ids, I)
      /\ in.dryrun => Still(a)
      /\ \A c \in 1..m : a[c].call = "commit" => \A d : ~Has(a, c, d, I)
  BY DEF Body
<1> HIDE DEF p, I, m
<1>6. OwnStep(in, ids, x) /\ \A d, o : ~WritesTo(x, d, o)
  BY <1>1 DEF OwnStep, WritesTo
<1>7. Own(in, ids, p)
  BY <1>3, <1>4, <1>5, <1>6 DEF Own
<1>8. in.dryrun => Still(p)
  BY <1>1, <1>4, <1>5 DEF Still
<1>9. ASSUME ~in.dryrun, NEW want, NEW have, \A d \in ids \cap Node : want[d] = have[d]
      PROVE  Course(in, p, ids, g, want, have)
  <2>1. p # <<>> /\ p[Len(p)] = x
    <3>1. Len(<<>>) = 0
      OBVIOUS
    <3>2. p = <<>> => Len(p) = 0
      BY <3>1
    <3> QED BY <1>3, <3>2
  <2>2. Paced(in, p)
    <3> SUFFICES ASSUME NEW k \in 1..(m + 1)
                 PROVE  /\ p[k].fails \in {"ignore", "skip"} => Tame(in, p[k])
                        /\ p[k].fails = "skip" => k + 1 \in 1..(m + 1) /\ Tame(in, p[k + 1])
      BY <1>3 DEF Paced
    <3>1. CASE k = m + 1
      BY <1>1, <1>3, <3>1
    <3>2. CASE k # m + 1
      <4>1. k \in 1..m /\ p[k] = a[k]
        BY <1>3, <3>2
      <4>2. /\ a[k].fails \in {"ignore", "skip"} => Tame(in, a[k])
            /\ a[k].fails = "skip" => k + 1 \in 1..m /\ Tame(in, a[k + 1])
        BY <1>5, <4>1 DEF Paced, m
      <4>3. k + 1 \in 1..m => k + 1 \in 1..(m + 1) /\ p[k + 1] = a[k + 1]
        BY <1>3
      <4> QED BY <4>1, <4>2, <4>3
    <3> QED BY <3>1, <3>2
  <2>3. Valued(in, g, p)
    BY <1>4, <1>5, <1>6 DEF Valued
  <2>4. \A d \in ids \cap Node : Has(p, Len(p), d, I)
    BY <1>4, <1>5 DEF Fills, m
  <2>5. \A c \in 1..(Len(p) - 1) : p[c].call = "commit" =>
          \A d \in ids \cap Node : ~Has(p, c, d, I) /\ want[d][I] = have[d][I]
    <3> SUFFICES ASSUME NEW c \in 1..(Len(p) - 1), p[c].call = "commit", NEW d \in ids \cap Node
                 PROVE  ~Has(p, c, d, I) /\ want[d][I] = have[d][I]
      OBVIOUS
    <3>1. c \in 1..m /\ p[c] = a[c]
      BY <1>3
    <3> QED BY <1>4, <1>5, <1>9, <3>1
  <2> QED BY <1>1, <1>3, <1>9, <2>1, <2>2, <2>3, <2>4, <2>5 DEF Course, I
<1> QED BY <1>1, <1>7, <1>8, <1>9 DEF p
-----------------------------------------------------------------------------
(* What each operation brings to the network *)

\* A program for the devices ids that shows what it writes, or brings the
\* instances g to the network; it does so from stores that are equal there.
Brings(in, ids, g, p) ==
  /\ Own(in, ids, p)
  /\ \/ Still(p)
     \/ \A want, have :
          (\A d \in ids \cap Node : want[d] = have[d]) => Course(in, p, ids, g, want, have)

\* With its end, such a program brings its instances to the network.
LEMMA FinishBrings ==
  ASSUME NEW in \in VplsInput, NEW ids, NEW g, NEW a, Body(in, ids, g, a)
  PROVE  Brings(in, ids, g, a \o Finish(in.dryrun, ids))
<1>1. in.dryrun \in BOOLEAN
  BY VplsInputAssumption
<1>2. LET p == a \o Finish(in.dryrun, ids) IN
      /\ Own(in, ids, p)
      /\ in.dryrun => Still(p)
      /\ ~in.dryrun => \A want, have :
           (\A d \in ids \cap Node : want[d] = have[d]) => Course(in, p, ids, g, want, have)
  BY <1>1, FinishBody
<1> QED BY <1>1, <1>2 DEF Brings

\* So does one without a prelude.
LEMMA MiddleBrings ==
  ASSUME NEW in \in VplsInput, NEW ids, NEW g, NEW m, Middle(in, ids, g, m)
  PROVE  /\ Own(in, ids, m) /\ Still(m)
         /\ Fills(m, ids, Instance(in.id)) => Brings(in, ids, g, m \o Finish(in.dryrun, ids))
<1>1. Own(in, ids, m) /\ Still(m)
  BY WritesIs DEF Middle, Own, Still
<1>2. in.dryrun \in BOOLEAN
  BY VplsInputAssumption
<1>3. Fills(m, ids, Instance(in.id)) => Brings(in, ids, g, m \o Finish(in.dryrun, ids))
  BY <1>2, MiddleBody, FinishBrings
<1> QED BY <1>1, <1>3 DEF Brings

\* A task that ends in an exception, at once or after its first deletion.
LEMMA RaiseBrings ==
  ASSUME NEW in, NEW ids, NEW g
  PROVE  /\ Own(in, ids, <<Raise>>) /\ Still(<<Raise>>)
         /\ \A x : WritesInstance(in, ids, g, x) => Brings(in, ids, g, <<x, Raise>>)
<1>1. OwnStep(in, ids, Raise) /\ Raise.call # "commit"
  BY DEF Raise, Rollback, Call, OwnStep
<1>2. Own(in, ids, <<Raise>>) /\ Still(<<Raise>>)
  <2> DEFINE p == <<Raise>>
  <2>1. IsProgram(p) /\ Steps(p) = {Raise}
    BY SingleStep
  <2> HIDE DEF p
  <2>2. Own(in, ids, p) /\ Still(p)
    BY <1>1, <2>1 DEF Own, Still
  <2> QED BY <2>2 DEF p
<1>3. ASSUME NEW x, WritesInstance(in, ids, g, x) PROVE Brings(in, ids, g, <<x, Raise>>)
  <2>1. /\ <<x, Raise>> \in Seq({x, Raise}) /\ Len(<<x, Raise>>) = 2
        /\ \A k \in 1..2 : <<x, Raise>>[k] \in {x, Raise}
    OBVIOUS
  <2> DEFINE p == <<x, Raise>>
  <2>2. IsProgram(p) /\ Steps(p) \subseteq {x, Raise}
    BY <2>1 DEF IsProgram, Steps
  <2> HIDE DEF p
  <2>3. \A y \in Steps(p) : OwnStep(in, ids, y) /\ y.call # "commit"
    BY <1>1, <1>3, <2>2, WritesIs
  <2>4. Brings(in, ids, g, p)
    BY <2>2, <2>3 DEF Brings, Own, Still
  <2> QED BY <2>4 DEF p
<1> QED BY <1>2, <1>3

\* The ends a task is asked for.
LEMMA AskedEnds ==
  ASSUME AddressOf, NEW in \in VplsInput
  PROVE  /\ in.devices \in Seq(Range(in.devices)) /\ IsProgram(in.devices)
         /\ \A k \in 1..Len(in.devices) : in.devices[k].id \in VplsIds(in.devices)
         /\ \A e \in Range(in.devices) : Placed(e)
         /\ \A d : d \in VplsIds(in.devices) <=> \E e \in Range(in.devices) : e.id = d
<1>1. in.devices \in Seq(Range(in.devices)) /\ DOMAIN in.devices = 1..Len(in.devices)
  BY VplsInputFacts
<1>2. \A e \in Range(in.devices) : Placed(e) /\ e.id # Unknown
  BY DEF AddressOf, AllEnds, Placed
<1>3. \A k \in 1..Len(in.devices) : in.devices[k] \in Range(in.devices)
  BY <1>1 DEF Range
<1>4. \A d : d \in VplsIds(in.devices) <=> \E e \in Range(in.devices) : e.id = d
  BY <1>1, <1>2 DEF VplsIds, Range
<1> QED BY <1>1, <1>2, <1>3, <1>4 DEF IsProgram

\* The instances of the devices of a list of ends.
InstancesOf(s, ends, ids) ==
  [d \in ids |-> IF d \in VplsIds(ends) THEN VplsInstance(s, ends, d) ELSE None]

\* CreateVplsTask brings instances of all ends asked for.
LEMMA CreateBrings ==
  ASSUME AddressOf, NEW in \in VplsInput, in.do = "create",
         NEW order \in SetToSeqs(VplsIds(in.devices))
  PROVE  LET ids == VplsIds(in.devices) IN
         Brings(in, ids, InstancesOf(in, in.devices, ids), CreateVplsTask(in, order))
<1> DEFINE ids == VplsIds(in.devices)
           g == InstancesOf(in, in.devices, ids)
           q == FlattenSeq([k \in DOMAIN in.devices |->
                              CreateVplsEnd(in.devices[k], in.dryrun, ids)])
           m == CreateInstances(in, in.devices, order, ids, "withdraw_abort")
<1>1. in.dryrun \in BOOLEAN /\ in.devices \in Seq(Range(in.devices)) /\ IsProgram(in.devices)
      /\ \A k \in 1..Len(in.devices) : in.devices[k].id \in ids
  BY AskedEnds, VplsInputAssumption
<1>2. IsFiniteSet(ids)
  BY <1>1, EndsFacts
<1>3. \A d \in ids : g[d] = VplsInstance(in, in.devices, d)
  BY DEF InstancesOf
<1>4. CreateVplsTask(in, order) = q \o m \o Finish(in.dryrun, ids)
  BY DEF CreateVplsTask
<1> HIDE DEF g
<1>5. Prelude(ids, in.dryrun, q)
  <2> HIDE DEF ids
  <2> QED BY <1>1, EndsPrelude
<1>6. Middle(in, ids, g, m) /\ Fills(m, ids, Instance(in.id))
  <2>1. order \in SetToSeqs(ids) /\ ids \subseteq ids /\ Fitting(in, "withdraw_abort")
    BY DEF Fitting
  <2> HIDE DEF ids
  <2> QED BY <1>2, <1>3, <2>1, CreateMiddle
<1> HIDE DEF q, m, ids
<1>7. Body(in, ids, g, q \o m)
  BY <1>5, <1>6, PreludeBody
<1>8. Brings(in, ids, g, q \o m \o Finish(in.dryrun, ids))
  BY <1>7, FinishBrings
<1> QED BY <1>4, <1>8 DEF ids, g

\* DeleteVplsTask brings None to all devices that are known.
LEMMA DeleteBrings ==
  ASSUME NEW in \in VplsInput, NEW s, s.id = in.id, IsFiniteSet(s.devices),
         NEW order \in SetToSeqs(KnownIds(s))
  PROVE  Brings(in, KnownIds(s), [d \in KnownIds(s) |-> None], DeleteVplsTask(s, order, in.dryrun))
<1> DEFINE ids == KnownIds(s)
           g == [d \in ids |-> None]
           m == DeleteInstances(s, order, ids)
<1>1. IsFiniteSet(ids)
  BY KnownFinite
<1>2. Middle(in, ids, g, m) /\ Fills(m, ids, Instance(in.id))
  <2>1. \A d \in ids : g[d] = None
    OBVIOUS
  <2>2. order \in SetToSeqs(ids)
    OBVIOUS
  <2> HIDE DEF g, ids
  <2> QED BY <1>1, <2>1, <2>2, DeleteMiddle
<1> HIDE DEF g, ids, m
<1>3. Brings(in, ids, g, m \o Finish(in.dryrun, ids))
  BY <1>2, MiddleBrings
<1> QED BY <1>3 DEF DeleteVplsTask, g, ids, m

\* AddDeviceTask brings instances of the ends found and those asked for.
LEMMA AddBrings ==
  ASSUME NEW in \in VplsInput, in.do = "add", NEW s, s.id = in.id, NEW S, NEW ends \in Seq(S),
         NEW order \in SetToSeqs(VplsIds(ends))
  PROVE  Brings(in, VplsIds(ends), InstancesOf(s, ends, VplsIds(ends)),
                AddDeviceTask(s, ends, order, in.dryrun))
<1> DEFINE ids == VplsIds(ends)
           g == InstancesOf(s, ends, ids)
           m == CreateInstances(s, ends, order, {}, "withdraw")
<1>1. IsFiniteSet(ids)
  BY EndsFacts
<1>2. Middle(in, ids, g, m) /\ Fills(m, ids, Instance(in.id))
  <2>1. \A d \in ids : g[d] = VplsInstance(s, ends, d)
    BY DEF InstancesOf
  <2>2. order \in SetToSeqs(ids) /\ {} \subseteq ids /\ ids \subseteq ids /\ Fitting(in, "withdraw")
    BY DEF Fitting
  <2> HIDE DEF g, ids
  <2> QED BY <1>1, <2>1, <2>2, CreateMiddle
<1> HIDE DEF g, ids, m
<1>3. Brings(in, ids, g, m \o Finish(in.dryrun, ids))
  BY <1>2, MiddleBrings
<1> QED BY <1>3 DEF AddDeviceTask, g, ids, m

\* RemoveDeviceTask brings instances of the ends kept, and None to the others.
LEMMA RemoveBrings ==
  ASSUME NEW in \in VplsInput, in.do = "remove", NEW s, s.id = in.id, NEW S, NEW ends \in Seq(S),
         VplsIds(ends) \cap in.removed = {}, NEW order \in SetToSeqs(VplsIds(ends)),
         NEW removed \in SetToSeqs(in.removed), NEW raises
  PROVE  LET ids == VplsIds(ends) \cup in.removed IN
         Brings(in, ids, InstancesOf(s, ends, ids),
                RemoveDeviceTask(s, ends, order, removed, in.dryrun, raises))
<1> DEFINE left == VplsIds(ends)
           gone == in.removed
           ids == left \cup gone
           g == InstancesOf(s, ends, ids)
           ds == Deletions(s, removed)
           c == CreateInstances(s, ends, order, {}, "withdraw")
<1>1. IsFiniteSet(left) /\ IsFiniteSet(gone)
  BY EndsFacts, VplsInputFacts
<1>2. /\ \A d \in left : g[d] = VplsInstance(s, ends, d)
      /\ \A d \in gone : g[d] = None
  BY DEF InstancesOf
<1>3. order \in SetToSeqs(left) /\ removed \in SetToSeqs(gone)
  OBVIOUS
<1>4. left \subseteq ids /\ gone \subseteq ids /\ {} \subseteq ids
  OBVIOUS
<1> HIDE DEF g
<1>5. Middle(in, ids, g, ds) /\ Fills(ds, gone, Instance(in.id))
  <2> HIDE DEF ids, gone, left
  <2> QED BY <1>1, <1>2, <1>3, <1>4, RemoveMiddle
<1>6. Middle(in, ids, g, c) /\ Fills(c, left, Instance(in.id))
  <2>1. Fitting(in, "withdraw")
    BY DEF Fitting
  <2> HIDE DEF ids, gone, left
  <2> QED BY <1>1, <1>2, <1>3, <1>4, <2>1, CreateMiddle
<1>7. /\ DOMAIN removed = 1..Cardinality(gone) /\ Cardinality(gone) \in Nat
      /\ Range(removed) = gone /\ (removed # <<>> => Cardinality(gone) # 0)
  <2>1. /\ Cardinality(gone) \in Nat /\ IsList(removed, Cardinality(gone))
        /\ \A k \in 1..Cardinality(gone) : removed[k] \in gone
        /\ \A d \in gone : \E k \in 1..Cardinality(gone) : removed[k] = d
    <3> HIDE DEF gone
    <3> QED BY <1>1, <1>3, OrderFacts, OrderOnto
  <2>2. Cardinality(gone) = 0 => removed = <<>>
    BY <2>1 DEF IsList
  <2>3. DOMAIN removed = 1..Cardinality(gone)
    BY <2>1 DEF IsList
  <2> HIDE DEF gone
  <2> QED BY <2>1, <2>2, <2>3 DEF Range
<1>8. CASE raises /\ removed # <<>>
  <2>1. RemoveDeviceTask(s, ends, order, removed, in.dryrun, raises) = <<ds[1], Raise>>
    BY <1>8 DEF RemoveDeviceTask, Deletions
  <2>2. ds[1] \in Steps(ds)
    <3>1. DOMAIN ds = 1..Cardinality(gone)
      BY <1>7 DEF Deletions
    <3>2. Len(ds) = Cardinality(gone)
      <4> HIDE DEF ds
      <4>1. PICK S2 : ds \in Seq(S2)
        BY <1>5 DEF Middle, IsProgram
      <4>2. DOMAIN ds = 1..Len(ds) /\ Len(ds) \in Nat
        BY <4>1
      <4> HIDE DEF gone
      <4> QED BY <1>7, <3>1, <4>2
    <3> HIDE DEF ds, gone
    <3>3. 1 \in 1..Len(ds)
      BY <1>7, <1>8, <3>2
    <3> QED BY <3>3 DEF Steps
  <2> HIDE DEF ds, ids
  <2>3. WritesInstance(in, ids, g, ds[1])
    BY <1>5, <2>2 DEF Middle
  <2>4. Brings(in, ids, g, <<ds[1], Raise>>)
    BY <2>3, RaiseBrings
  <2> QED BY <2>1, <2>4 DEF g, ids
<1>9. CASE ~(raises /\ removed # <<>>)
  <2>1. RemoveDeviceTask(s, ends, order, removed, in.dryrun, raises)
          = ds \o c \o Finish(in.dryrun, left \cup Range(removed))
    BY <1>9 DEF RemoveDeviceTask, Deletions
  <2>2. left \cup Range(removed) = ids /\ gone \cup left = ids
    BY <1>7
  <2> HIDE DEF ds, c, ids, gone
  <2>3. Middle(in, ids, g, ds \o c) /\ Fills(ds \o c, ids, Instance(in.id))
    <3> HIDE DEF left
    <3>1. Middle(in, ids, g, ds \o c) /\ Fills(ds \o c, gone \cup left, Instance(in.id))
      BY <1>5, <1>6, ConcatMiddle
    <3> QED BY <2>2, <3>1
  <2>4. Brings(in, ids, g, ds \o c \o Finish(in.dryrun, ids))
    BY <2>3, MiddleBrings
  <2> QED BY <2>1, <2>2, <2>4 DEF ids, g, gone
<1> QED BY <1>8, <1>9

\* Writing or erasing a service commits nothing.
LEMMA WriteBrings ==
  ASSUME NEW in \in VplsInput, in.do \in {"write", "erase"},
         NEW order \in SetToSeqs(VplsIds(in.devices))
  PROVE  LET p == IF in.do = "erase" THEN DeleteInstances(in, order, {})
                  ELSE CreateInstances(in, in.devices, order, {}, "withdraw_abort")
         IN Own(in, VplsIds(in.devices), p) /\ Still(p)
<1> DEFINE ids == VplsIds(in.devices)
<1>1. IsFiniteSet(ids)
  BY VplsInputFacts, EndsFacts
<1>2. order \in SetToSeqs(ids) /\ {} \subseteq ids /\ ids \subseteq ids
  OBVIOUS
<1>3. CASE in.do = "erase"
  <2> DEFINE g == [d \in ids |-> None]
             m == DeleteInstances(in, order, {})
  <2>1. \A d \in ids : g[d] = None
    OBVIOUS
  <2> HIDE DEF g, ids
  <2>2. Middle(in, ids, g, m)
    BY <1>1, <1>2, <2>1, DeleteMiddle
  <2> HIDE DEF m
  <2>3. Own(in, ids, m) /\ Still(m)
    BY <2>2, MiddleBrings
  <2> QED BY <1>3, <2>3 DEF ids, m
<1>4. CASE in.do # "erase"
  <2> DEFINE g == [d \in ids |-> VplsInstance(in, in.devices, d)]
             m == CreateInstances(in, in.devices, order, {}, "withdraw_abort")
  <2>1. \A d \in ids : g[d] = VplsInstance(in, in.devices, d)
    OBVIOUS
  <2>2. Fitting(in, "withdraw_abort")
    BY DEF Fitting
  <2> HIDE DEF g, ids
  <2>3. Middle(in, ids, g, m)
    BY <1>1, <1>2, <2>1, <2>2, CreateMiddle
  <2> HIDE DEF m
  <2>4. Own(in, ids, m) /\ Still(m)
    BY <2>3, MiddleBrings
  <2> QED BY <1>4, <2>4 DEF ids, m
<1> QED BY <1>3, <1>4
-----------------------------------------------------------------------------
(* What each operation is after *)

\* What is asked of the constants.
Premises == AddressOf /\ NoneIsApart /\ IsInjective(NodeOrder)

\* The devices that an assignment of instances gives one.
GivenOne(ids, g) == {d \in ids : g[d] # None}

\* What a task is after: a mesh of devices that have the service or were asked
\* for; it replaces the whole service, which is not there when it is created.
Aims(in, ids, g) ==
  LET M == Members(actual, in.id)
      G == GivenOne(ids, g)
  IN /\ ids # {} /\ \A d \in G : Meshed(g[d], G, d)
     /\ \A d \in G : d \in M \/ (in.do \in {"create", "add"} /\ d \in VplsIds(in.devices))
     /\ \/ in.do = "create"
        \/ in.do \in {"add", "remove", "delete"} /\ M # {} /\ M \subseteq ids

\* The devices of a list of ends, one by one.
LEMMA DevicesOfEnds ==
  ASSUME NEW S, NEW ends \in Seq(S)
  PROVE  \A d : d \in VplsIds(ends) <=> d # Unknown /\ \E e \in Range(ends) : e.id = d
<1>1. DOMAIN ends = 1..Len(ends)
  OBVIOUS
<1> QED BY <1>1 DEF VplsIds, Range

\* The instances of a list of ends are a mesh of its devices.
LEMMA InstancesAim ==
  ASSUME Premises, NEW s, NEW S, NEW ends \in Seq(S), \A e \in Range(ends) : Placed(e),
         NEW ids, VplsIds(ends) \subseteq ids
  PROVE  LET g == InstancesOf(s, ends, ids) IN
         /\ GivenOne(ids, g) = VplsIds(ends)
         /\ \A d \in GivenOne(ids, g) : Meshed(g[d], GivenOne(ids, g), d)
<1> DEFINE g == InstancesOf(s, ends, ids)
           V == VplsIds(ends)
<1>1. ASSUME NEW d \in V PROVE g[d] = VplsInstance(s, ends, d) /\ Meshed(g[d], V, d)
  <2>1. g[d] = VplsInstance(s, ends, d)
    BY DEF InstancesOf
  <2>2. Meshed(VplsInstance(s, ends, d), VplsIds(ends), d)
    BY WrittenMeshed DEF Premises
  <2> QED BY <2>1, <2>2
<1>2. \A d \in ids \ V : g[d] = None
  BY DEF InstancesOf
<1> HIDE DEF g, V
<1>3. \A d \in V : g[d] # None
  BY <1>1 DEF Premises, NoneIsApart
<1>4. V \subseteq ids
  BY DEF V
<1>5. GivenOne(ids, g) = V
  BY <1>2, <1>3, <1>4 DEF GivenOne
<1> QED BY <1>1, <1>5 DEF g, V

\* The service that was found has the devices of the network's mesh.
LEMMA FoundMesh ==
  ASSUME Premises, NEW n, MeshOf(actual, n), Members(actual, n) \subseteq Devices,
         NEW names, NEW s \in FoundVpls(n, names)
  PROVE  /\ Members(actual, n) # {}
         /\ \A e \in s.devices : Placed(e) /\ e.id \in Members(actual, n)
         /\ \A d \in Members(actual, n) : \E e \in s.devices : e.id = d
         /\ KnownIds(s) = Members(actual, n) /\ Unknown \notin Members(actual, n)
<1> DEFINE M == Members(actual, n)
           P == LocalsOf(actual, n)
<1>1. /\ VplsReadable(actual, NodeOrder, names) /\ s \in VplsReadAll(actual, NodeOrder, names)
      /\ s.id = n
  BY DEF FoundVpls
<1>2. M # {} /\ s.devices = EndsPlaced(M, P)
  BY <1>1, MeshReads DEF Premises
<1>3. ASSUME NEW d \in M PROVE P[d] # {} /\ d \in Devices
  <2>1. Meshed(actual[d][Instance(n)], M, d)
    BY DEF MeshOf
  <2> QED BY <2>1 DEF Meshed, LocalsOf
<1>4. Unknown \notin M
  BY DEF Premises, AddressOf
<1> HIDE DEF M, P
<1>5. \A e \in s.devices : \E k \in M : \E p \in P[k] :
        e = VplsEnd(k, p.interface, p.subinterface, Address(k))
  BY <1>2 DEF EndsPlaced, EndsOf
<1>6. \A k \in M : \A p \in P[k] :
        VplsEnd(k, p.interface, p.subinterface, Address(k)) \in s.devices
  BY <1>2 DEF EndsPlaced, EndsOf
<1>7. \A e \in s.devices : Placed(e) /\ e.id \in M
  BY <1>3, <1>5, EndFacts DEF Placed
<1>8. \A d \in M : \E e \in s.devices : e.id = d
  BY <1>3, <1>6, EndFacts
<1>9. KnownIds(s) = M
  BY <1>4, <1>7, <1>8 DEF KnownIds
<1> QED BY <1>2, <1>4, <1>7, <1>8, <1>9 DEF M

\* How a task begins.
BeginsVpls(t, in, p, area, g) ==
  /\ Begin(t, in, p, area) /\ Brings(in, area, g, p)
  /\ MeshOf(actual, in.id) /\ Members(actual, in.id) \subseteq Devices /\ ~Still(p) =>
       Aims(in, area, g)

\* What a task is after that creates a service.
LEMMA CreateAims ==
  ASSUME Premises, NEW in \in VplsInput, in.do = "create", Cardinality(VplsIds(in.devices)) >= 2
  PROVE  Aims(in, VplsIds(in.devices), InstancesOf(in, in.devices, VplsIds(in.devices)))
<1> DEFINE ids == VplsIds(in.devices)
           g == InstancesOf(in, in.devices, ids)
<1>1. /\ in.devices \in Seq(Range(in.devices))
      /\ \A e \in Range(in.devices) : Placed(e)
  BY AskedEnds DEF Premises
<1>2. /\ GivenOne(ids, g) = ids /\ \A d \in GivenOne(ids, g) : Meshed(g[d], GivenOne(ids, g), d)
  <2>1. ids \subseteq ids
    OBVIOUS
  <2> QED BY <1>1, <2>1, InstancesAim
<1>3. ids # {}
  BY FS_EmptySet
<1> HIDE DEF g
<1> QED BY <1>2, <1>3 DEF Aims, g

\* What a task is after that deletes the service it found.
LEMMA DeleteAims ==
  ASSUME Premises, NEW in \in VplsInput, in.do = "delete", NEW names,
         NEW s \in FoundVpls(in.id, names), MeshOf(actual, in.id),
         Members(actual, in.id) \subseteq Devices
  PROVE  Aims(in, KnownIds(s), [d \in KnownIds(s) |-> None])
<1> DEFINE ids == KnownIds(s)
           g == [d \in ids |-> None]
<1>1. Members(actual, in.id) # {} /\ ids = Members(actual, in.id)
  BY FoundMesh
<1>2. GivenOne(ids, g) = {}
  BY DEF GivenOne
<1> HIDE DEF g, ids
<1> QED BY <1>1, <1>2 DEF Aims, g, ids

\* What a task is after that adds ends to the service it found.
LEMMA AddAims ==
  ASSUME Premises, NEW in \in VplsInput, in.do = "add", NEW names,
         NEW s \in FoundVpls(in.id, names), MeshOf(actual, in.id),
         Members(actual, in.id) \subseteq Devices,
         NEW ends, ends = SetToSeq(s.devices) \o in.devices
  PROVE  Aims(in, VplsIds(ends), InstancesOf(s, ends, VplsIds(ends)))
<1> DEFINE M == Members(actual, in.id)
           ids == VplsIds(ends)
           g == InstancesOf(s, ends, ids)
           S == s.devices \cup Range(in.devices)
<1>1. /\ in.devices \in Seq(Range(in.devices))
      /\ \A e \in Range(in.devices) : Placed(e)
      /\ \A d : d \in VplsIds(in.devices) <=> \E e \in Range(in.devices) : e.id = d
  BY AskedEnds DEF Premises
<1>2. /\ M # {} /\ \A e \in s.devices : Placed(e) /\ e.id \in M
      /\ \A d \in M : \E e \in s.devices : e.id = d
      /\ Unknown \notin M
  BY FoundMesh
<1>3. IsFiniteSet(s.devices)
  BY FoundFinite
<1>4. SetToSeq(s.devices) \in Seq(s.devices) /\ Range(SetToSeq(s.devices)) = s.devices
  BY <1>3, OrderOnto
<1>5. ends \in Seq(S) /\ Range(ends) = s.devices \cup Range(in.devices)
  <2> DEFINE q == SetToSeq(s.devices)
  <2> HIDE DEF q
  <2>1. q \in Seq(s.devices) /\ Range(q) = s.devices /\ ends = q \o in.devices
    BY <1>4 DEF q
  <2>2. q \in Seq(S) /\ in.devices \in Seq(S)
    <3>1. Len(q) \in Nat /\ q \in [1..Len(q) -> S]
      BY <2>1
    <3>2. Len(in.devices) \in Nat /\ in.devices \in [1..Len(in.devices) -> S]
      BY <1>1
    <3> HIDE DEF S
    <3> QED BY <3>1, <3>2, ListIsProgram
  <2> HIDE DEF S
  <2>3. /\ q \o in.devices \in Seq(S)
        /\ \A x : x \in Range(q \o in.devices) <=> x \in Range(q) \/ x \in Range(in.devices)
    BY <2>2, RangeConcat
  <2> QED BY <2>1, <2>3
<1>6. \A e \in Range(ends) : Placed(e)
  BY <1>1, <1>2, <1>5
<1>7. \A d : d \in ids <=> d \in M \/ d \in VplsIds(in.devices)
  <2>1. \A d : d \in ids <=> d # Unknown /\ \E e \in Range(ends) : e.id = d
    <3> PICK T : T = S
      OBVIOUS
    <3> HIDE DEF S
    <3>1. ends \in Seq(T)
      BY <1>5
    <3>2. \A d : d \in VplsIds(ends) <=> d # Unknown /\ \E e \in Range(ends) : e.id = d
      BY ONLY <3>1, DevicesOfEnds
    <3> QED BY <3>2
  <2>2. \A d : (\E e \in Range(ends) : e.id = d) <=>
               (\E e \in s.devices : e.id = d) \/ (\E e \in Range(in.devices) : e.id = d)
    BY <1>5
  <2>3. \A d : d \in VplsIds(in.devices) => d # Unknown
    BY DEF VplsIds
  <2>4. \A d : (\E e \in s.devices : e.id = d) <=> d \in M
    <3> HIDE DEF M
    <3> QED BY <1>2
  <2> HIDE DEF ids, M, S
  <2> TAKE d
  <2>5. d \in M => d # Unknown
    BY <1>2
  <2>6. (\E e \in Range(in.devices) : e.id = d) <=> d \in VplsIds(in.devices)
    BY <1>1
  <2> QED BY <2>1, <2>2, <2>3, <2>4, <2>5, <2>6
<1>8. /\ GivenOne(ids, g) = ids /\ \A d \in GivenOne(ids, g) : Meshed(g[d], GivenOne(ids, g), d)
  <2>1. ids \subseteq ids
    OBVIOUS
  <2> HIDE DEF S
  <2> QED BY <1>5, <1>6, <2>1, InstancesAim
<1> HIDE DEF g, ids
<1> QED BY <1>2, <1>7, <1>8 DEF Aims, g, ids, M

\* What a task is after that removes devices from the service it found.
LEMMA RemoveAims ==
  ASSUME Premises, NEW in \in VplsInput, in.do = "remove", NEW names,
         NEW s \in FoundVpls(in.id, names), MeshOf(actual, in.id),
         Members(actual, in.id) \subseteq Devices,
         NEW ends, ends = SetToSeq({e \in s.devices : e.id \notin in.removed}),
         NEW ids, ids = VplsIds(ends) \cup in.removed
  PROVE  Aims(in, ids, InstancesOf(s, ends, ids))
<1> DEFINE M == Members(actual, in.id)
           g == InstancesOf(s, ends, ids)
           S == {e \in s.devices : e.id \notin in.removed}
<1>2. /\ M # {} /\ \A e \in s.devices : Placed(e) /\ e.id \in M
      /\ \A d \in M : \E e \in s.devices : e.id = d
      /\ Unknown \notin M
  BY FoundMesh
<1>3. IsFiniteSet(S)
  <2>1. S \in SUBSET s.devices
    OBVIOUS
  <2> HIDE DEF S
  <2> QED BY <2>1, FoundFinite, FS_Subset
<1>4. \A e : e \in S <=> e \in s.devices /\ e.id \notin in.removed
  OBVIOUS
<1>5. ends = SetToSeq(S)
  OBVIOUS
<1> HIDE DEF S
<1>6. ends \in Seq(S) /\ Range(ends) = S
  BY <1>3, <1>5, OrderOnto
<1>7. \A e \in Range(ends) : Placed(e)
  BY <1>2, <1>4, <1>6
<1>8. \A d : d \in VplsIds(ends) <=> d # Unknown /\ \E e \in Range(ends) : e.id = d
  BY <1>6, DevicesOfEnds
<1>9. \A d : d \in VplsIds(ends) <=> d \in M /\ d \notin in.removed
  <2>1. \A d : (\E e \in s.devices : e.id = d) <=> d \in M
    <3> HIDE DEF M
    <3> QED BY <1>2
  <2> HIDE DEF M
  <2> TAKE d
  <2>2. (\E e \in Range(ends) : e.id = d) <=> (\E e \in s.devices : e.id = d) /\ d \notin in.removed
    BY <1>4, <1>6
  <2>3. d \in M => d # Unknown
    BY <1>2
  <2> QED BY <1>8, <2>1, <2>2, <2>3
<1>10. /\ GivenOne(ids, g) = VplsIds(ends)
       /\ \A d \in GivenOne(ids, g) : Meshed(g[d], GivenOne(ids, g), d)
  BY <1>6, <1>7, InstancesAim
<1> HIDE DEF g
<1>11. ids # {} /\ M \subseteq ids
  BY <1>2, <1>9
<1> QED BY <1>2, <1>9, <1>10, <1>11 DEF Aims, g, M

\* A program without a commit is after nothing.
LEMMA StillBegins ==
  ASSUME NEW t, NEW in, NEW p, NEW area, Begin(t, in, p, area), Own(in, area, p), Still(p)
  PROVE  \E g : BeginsVpls(t, in, p, area, g)
BY DEF BeginsVpls, Brings

\* A task of VPLS begins with a program that brings a mesh to the network.
LEMMA VplsBeginsWith ==
  ASSUME Premises, NEW t, VplsStart(t)
  PROVE  MayBegin(t) /\ \E in \in VplsInput : \E p, area, g : BeginsVpls(t, in, p, area, g)
<1> DEFINE Good == \E in \in VplsInput : \E p, area, g : BeginsVpls(t, in, p, area, g)
<1>1. ASSUME NEW in \in VplsInput, Refuse(t, in) PROVE Good
  <2>1. Own(in, {}, <<Raise>>) /\ Still(<<Raise>>)
    BY RaiseBrings
  <2>2. Begin(t, in, <<Raise>>, {})
    BY <1>1 DEF Refuse
  <2>3. \E g : BeginsVpls(t, in, <<Raise>>, {}, g)
    BY <2>1, <2>2, StillBegins
  <2> QED BY <2>3
<1>7. ASSUME NEW in \in VplsInput, NEW p, NEW area, NEW g, BeginsVpls(t, in, p, area, g) PROVE Good
  BY <1>7
<1> HIDE DEF Good
<1>2. ASSUME StartCreateVpls(t) PROVE Good
  <2>1. PICK in \in VplsInput :
          /\ in.do = "create"
          /\ \/ Refuse(t, in)
             \/ /\ Cardinality(VplsIds(in.devices)) >= 2
                /\ \E order \in SetToSeqs(VplsIds(in.devices)) :
                     Begin(t, in, CreateVplsTask(in, order), VplsIds(in.devices))
    <3>1. PICK in \in VplsInput :
            /\ in.do = "create"
            /\ IF Cardinality(VplsIds(in.devices)) < 2 THEN Refuse(t, in)
               ELSE \E order \in SetToSeqs(VplsIds(in.devices)) :
                      Begin(t, in, CreateVplsTask(in, order), VplsIds(in.devices))
      BY <1>2 DEF StartCreateVpls
    <3>2. Cardinality(VplsIds(in.devices)) \in Nat
      <4>1. IsFiniteSet(VplsIds(in.devices))
        BY VplsInputFacts, EndsFacts
      <4> QED BY <4>1, FS_CardinalityType
    <3>3. ~(Cardinality(VplsIds(in.devices)) < 2) => Cardinality(VplsIds(in.devices)) >= 2
      BY <3>2
    <3> QED BY <3>1, <3>3
  <2>2. ASSUME Cardinality(VplsIds(in.devices)) >= 2, NEW order \in SetToSeqs(VplsIds(in.devices)),
               Begin(t, in, CreateVplsTask(in, order), VplsIds(in.devices))
        PROVE  Good
    <3>1. Brings(in, VplsIds(in.devices), InstancesOf(in, in.devices, VplsIds(in.devices)),
                 CreateVplsTask(in, order))
      BY <2>1, CreateBrings DEF Premises
    <3>2. Aims(in, VplsIds(in.devices), InstancesOf(in, in.devices, VplsIds(in.devices)))
      BY <2>1, <2>2, CreateAims
    <3>3. BeginsVpls(t, in, CreateVplsTask(in, order), VplsIds(in.devices),
                     InstancesOf(in, in.devices, VplsIds(in.devices)))
      BY <2>2, <3>1, <3>2 DEF BeginsVpls
    <3> QED BY <1>7, <3>3
  <2> QED BY <1>1, <2>1, <2>2
<1>3. ASSUME StartDeleteVpls(t) PROVE Good
  <2>1. PICK in \in VplsInput :
          /\ in.do = "delete"
          /\ \/ Refuse(t, in)
             \/ \E s \in FoundVpls(in.id, {in.id}) : \E order \in SetToSeqs(KnownIds(s)) :
                  Begin(t, in, DeleteVplsTask(s, order, in.dryrun), KnownIds(s))
    BY <1>3 DEF StartDeleteVpls
  <2>2. ASSUME NEW s \in FoundVpls(in.id, {in.id}), NEW order \in SetToSeqs(KnownIds(s)),
               Begin(t, in, DeleteVplsTask(s, order, in.dryrun), KnownIds(s))
        PROVE  Good
    <3> DEFINE g == [d \in KnownIds(s) |-> None]
    <3>1. s.id = in.id /\ IsFiniteSet(s.devices)
      BY DEF FoundVpls
    <3>2. Brings(in, KnownIds(s), g, DeleteVplsTask(s, order, in.dryrun))
      BY <3>1, DeleteBrings
    <3>3. MeshOf(actual, in.id) /\ Members(actual, in.id) \subseteq Devices =>
            Aims(in, KnownIds(s), g)
      BY <2>1, DeleteAims
    <3> HIDE DEF g
    <3>4. BeginsVpls(t, in, DeleteVplsTask(s, order, in.dryrun), KnownIds(s), g)
      BY <2>2, <3>2, <3>3 DEF BeginsVpls
    <3> QED BY <1>7, <3>4
  <2> QED BY <1>1, <2>1, <2>2
<1>4. ASSUME StartAddDevice(t) PROVE Good
  <2>1. PICK in \in VplsInput :
          /\ in.do = "add"
          /\ \/ Refuse(t, in)
             \/ \E s \in FoundVpls(in.id, Name) :
                  \E order \in SetToSeqs(VplsIds(SetToSeq(s.devices) \o in.devices)) :
                    Begin(t, in,
                      AddDeviceTask(s, SetToSeq(s.devices) \o in.devices, order, in.dryrun),
                      VplsIds(SetToSeq(s.devices) \o in.devices))
    BY <1>4 DEF StartAddDevice
  <2>2. ASSUME NEW s \in FoundVpls(in.id, Name), NEW ends,
               ends = SetToSeq(s.devices) \o in.devices,
               NEW order \in SetToSeqs(VplsIds(ends)),
               Begin(t, in, AddDeviceTask(s, ends, order, in.dryrun), VplsIds(ends))
        PROVE  Good
    <3> DEFINE g == InstancesOf(s, ends, VplsIds(ends))
    <3>1. s.id = in.id /\ IsFiniteSet(s.devices)
      BY DEF FoundVpls
    <3>2. in.devices \in Seq(Range(in.devices))
      BY VplsInputFacts
    <3>3. ends \in Seq(s.devices \cup Range(in.devices))
      BY <2>2, <3>1, <3>2, MoreEnds
    <3>4. Brings(in, VplsIds(ends), g, AddDeviceTask(s, ends, order, in.dryrun))
      BY <2>1, <2>2, <3>1, <3>3, AddBrings
    <3>5. MeshOf(actual, in.id) /\ Members(actual, in.id) \subseteq Devices =>
            Aims(in, VplsIds(ends), g)
      BY <2>1, <2>2, AddAims
    <3> HIDE DEF g
    <3>6. BeginsVpls(t, in, AddDeviceTask(s, ends, order, in.dryrun), VplsIds(ends), g)
      BY <2>2, <3>4, <3>5 DEF BeginsVpls
    <3> QED BY <1>7, <3>6
  <2> QED BY <1>1, <2>1, <2>2
<1>5. ASSUME StartRemoveDevice(t) PROVE Good
  <2> DEFINE Left(s, in) == SetToSeq({e \in s.devices : e.id \notin in.removed})
  <2>1. PICK in \in VplsInput :
          /\ in.do = "remove"
          /\ \/ Refuse(t, in)
             \/ \E s \in FoundVpls(in.id, Name) :
                  \/ Refuse(t, in)
                  \/ \E order \in SetToSeqs(VplsIds(Left(s, in))),
                        removed \in SetToSeqs(in.removed), raises \in BOOLEAN :
                       Begin(t, in,
                         RemoveDeviceTask(s, Left(s, in), order, removed, in.dryrun, raises),
                         VplsIds(Left(s, in)) \cup in.removed)
    BY <1>5 DEF StartRemoveDevice
  <2>2. ASSUME NEW s \in FoundVpls(in.id, Name), NEW ends, ends = Left(s, in),
               NEW order \in SetToSeqs(VplsIds(ends)), NEW removed \in SetToSeqs(in.removed),
               NEW raises \in BOOLEAN,
               Begin(t, in, RemoveDeviceTask(s, ends, order, removed, in.dryrun, raises),
                     VplsIds(ends) \cup in.removed)
        PROVE  Good
    <3> DEFINE S == {e \in s.devices : e.id \notin in.removed}
               ids == VplsIds(ends) \cup in.removed
               g == InstancesOf(s, ends, ids)
               p == RemoveDeviceTask(s, ends, order, removed, in.dryrun, raises)
    <3>1. s.id = in.id /\ IsFiniteSet(s.devices)
      BY DEF FoundVpls
    <3>2. IsFiniteSet(S)
      BY <3>1, FS_Subset
    <3>3. ends = SetToSeq(S) /\ \A e \in S : e.id \notin in.removed
      BY <2>2
    <3>4. ends \in Seq(S) /\ Range(ends) = S
      <4> HIDE DEF S
      <4> QED BY <3>2, <3>3, OrderOnto
    <3>5. VplsIds(ends) \cap in.removed = {}
      <4> HIDE DEF S
      <4>1. \A d : d \in VplsIds(ends) => \E e \in Range(ends) : e.id = d
        BY <3>4, DevicesOfEnds
      <4> QED BY <3>3, <3>4, <4>1
    <3>6. Brings(in, ids, g, p)
      <4> HIDE DEF S
      <4> QED BY <2>1, <2>2, <3>1, <3>4, <3>5, RemoveBrings
    <3>7. MeshOf(actual, in.id) /\ Members(actual, in.id) \subseteq Devices => Aims(in, ids, g)
      BY <2>1, <2>2, RemoveAims
    <3>8. Begin(t, in, p, ids)
      BY <2>2
    <3> HIDE DEF g, p, ids
    <3>9. BeginsVpls(t, in, p, ids, g)
      BY <3>6, <3>7, <3>8 DEF BeginsVpls
    <3> QED BY <1>7, <3>9
  <2> HIDE DEF Left
  <2> QED BY <1>1, <2>1, <2>2
<1>6. ASSUME StartWriteVpls(t) PROVE Good
  <2>1. PICK in \in VplsInput :
          /\ in.do \in {"write", "erase"}
          /\ \E order \in SetToSeqs(VplsIds(in.devices)) :
               Begin(t, in,
                 IF in.do = "erase" THEN DeleteInstances(in, order, {})
                 ELSE CreateInstances(in, in.devices, order, {}, "withdraw_abort"),
                 VplsIds(in.devices))
    BY <1>6 DEF StartWriteVpls
  <2>2. PICK order \in SetToSeqs(VplsIds(in.devices)) :
          Begin(t, in,
            IF in.do = "erase" THEN DeleteInstances(in, order, {})
            ELSE CreateInstances(in, in.devices, order, {}, "withdraw_abort"),
            VplsIds(in.devices))
    BY <2>1
  <2> DEFINE p == IF in.do = "erase" THEN DeleteInstances(in, order, {})
                  ELSE CreateInstances(in, in.devices, order, {}, "withdraw_abort")
  <2>3. Own(in, VplsIds(in.devices), p) /\ Still(p)
    BY <2>1, WriteBrings
  <2> HIDE DEF p
  <2>4. \E g : BeginsVpls(t, in, p, VplsIds(in.devices), g)
    BY <2>2, <2>3, StillBegins DEF p
  <2> QED BY <1>7, <2>4
<1>8. Good
  BY <1>2, <1>3, <1>4, <1>5, <1>6 DEF VplsStart
<1>9. MayBegin(t)
  BY DEF VplsStart
<1> QED BY <1>8, <1>9 DEF Good
-----------------------------------------------------------------------------
(* The course of a VPLS task, step by step *)

\* The rest of a program that goes on after its first step was done, or left
\* out where it writes no instance.
LEMMA CourseTail ==
  ASSUME NEW in, NEW ids, NEW g, NEW p, NEW want, NEW have, Course(in, p, ids, g, want, have),
         Len(p) # 1, NEW want2, NEW have2,
         \A d \in ids \cap Node : LET I == Instance(in.id) IN
           /\ want2[d][I] = IF WritesTo(p[1], d, I) THEN g[d] ELSE want[d][I]
           /\ have2[d][I] = have[d][I] \/ have2[d][I] = want2[d][I]
  PROVE  Course(in, Tail(p), ids, g, want2, have2)
<1> DEFINE q == Tail(p)
           I == Instance(in.id)
<1>1. /\ Len(p) \in Nat \ {0} /\ IsProgram(p) /\ p # <<>> /\ IsProgram(q) /\ Len(q) = Len(p) - 1
      /\ \A k \in 1..(Len(p) - 1) : q[k] = p[k + 1]
  BY ProgramTail DEF Course
<1>2. \A c \in 1..(Len(p) - 1) : \A d :
        Has(p, c + 1, d, I) <=> WritesTo(p[1], d, I) \/ Has(q, c, d, I)
  BY <1>1, HasTail
<1> HIDE DEF q, I
<1>3. q # <<>>
  <2>1. Len(<<>>) = 0
    OBVIOUS
  <2>2. q = <<>> => Len(q) = 0
    BY <2>1
  <2> QED BY <1>1, <2>2
<1>4. ASSUME NEW k \in 1..Len(q)
      PROVE  /\ q[k].fails \in {"ignore", "skip"} => Tame(in, q[k])
             /\ q[k].fails = "skip" => k + 1 \in 1..Len(q) /\ Tame(in, q[k + 1])
             /\ q[k] \in Steps(p)
  <2>1. k \in 1..(Len(p) - 1) /\ k + 1 \in 1..Len(p) /\ q[k] = p[k + 1]
    BY <1>1
  <2>2. /\ p[k + 1].fails \in {"ignore", "skip"} => Tame(in, p[k + 1])
        /\ p[k + 1].fails = "skip" => (k + 1) + 1 \in 1..Len(p) /\ Tame(in, p[(k + 1) + 1])
    BY <2>1 DEF Course, Paced
  <2>3. (k + 1) + 1 \in 1..Len(p) => k + 1 \in 1..Len(q) /\ q[k + 1] = p[(k + 1) + 1]
    BY <1>1
  <2> QED BY <2>1, <2>2, <2>3 DEF Steps
<1>5. Paced(in, q)
  BY <1>4 DEF Paced
<1>6. Valued(in, g, q)
  <2>1. \A x \in Steps(q) : x \in Steps(p)
    BY <1>4 DEF Steps
  <2> QED BY <2>1 DEF Course, Valued
<1>7. q[Len(q)].call = "commit" /\ q[Len(q)].on = ids
  <2>1. Len(q) \in 1..(Len(p) - 1) /\ Len(q) + 1 = Len(p)
    BY <1>1
  <2>2. q[Len(q)] = p[Len(p)]
    BY <1>1, <2>1
  <2> QED BY <2>2 DEF Course
<1>8. ASSUME NEW d \in ids \cap Node
      PROVE  want2[d][I] = g[d] \/ Has(q, Len(q), d, I)
  <2>1. Len(q) \in 1..(Len(p) - 1) /\ Len(q) + 1 = Len(p)
    BY <1>1
  <2>2. Has(p, Len(p), d, I) <=> WritesTo(p[1], d, I) \/ Has(q, Len(q), d, I)
    BY <1>2, <2>1
  <2>3. want[d][I] = g[d] \/ Has(p, Len(p), d, I)
    BY DEF Course, I
  <2>4. want2[d][I] = IF WritesTo(p[1], d, I) THEN g[d] ELSE want[d][I]
    BY DEF I
  <2> QED BY <2>2, <2>3, <2>4
<1>9. ASSUME NEW c \in 1..(Len(q) - 1), q[c].call = "commit", NEW d \in ids \cap Node
      PROVE  ~Has(q, c, d, I) /\ want2[d][I] = have2[d][I]
  <2>1. c \in 1..(Len(p) - 1) /\ c + 1 \in 1..(Len(p) - 1) /\ q[c] = p[c + 1]
    BY <1>1
  <2>2. ~Has(p, c + 1, d, I) /\ want[d][I] = have[d][I]
    BY <1>9, <2>1 DEF Course, I
  <2>3. Has(p, c + 1, d, I) <=> WritesTo(p[1], d, I) \/ Has(q, c, d, I)
    BY <1>2, <2>1
  <2>4. /\ want2[d][I] = IF WritesTo(p[1], d, I) THEN g[d] ELSE want[d][I]
        /\ have2[d][I] = have[d][I] \/ have2[d][I] = want2[d][I]
    BY DEF I
  <2> QED BY <2>2, <2>3, <2>4
<1> QED BY <1>1, <1>3, <1>5, <1>6, <1>7, <1>8, <1>9 DEF Course, q, I

\* What happens to other objects or on other devices is not about it.
LEMMA CourseElsewhere ==
  ASSUME NEW in, NEW ids, NEW g, NEW p, NEW want, NEW have, Course(in, p, ids, g, want, have),
         NEW want2, NEW have2,
         \A d \in ids \cap Node : LET I == Instance(in.id) IN
           want2[d][I] = want[d][I] /\ have2[d][I] = have[d][I]
  PROVE  Course(in, p, ids, g, want2, have2)
BY DEF Course

\* The rest of a program of the task's own steps.
LEMMA OwnTail ==
  ASSUME NEW in, NEW ids, NEW p, Own(in, ids, p), p # <<>>
  PROVE  /\ Own(in, ids, Tail(p)) /\ OwnStep(in, ids, p[1]) /\ Head(p) = p[1] /\ 1 \in 1..Len(p)
         /\ Still(p) => Still(Tail(p)) /\ p[1].call # "commit"
<1> DEFINE q == Tail(p)
<1>1. /\ Len(p) \in Nat \ {0} /\ IsProgram(q) /\ Len(q) = Len(p) - 1 /\ Head(p) = p[1]
      /\ \A k \in 1..(Len(p) - 1) : q[k] = p[k + 1]
  BY ProgramTail DEF Own
<1> HIDE DEF q
<1>2. \A x \in Steps(q) : x \in Steps(p)
  <2> SUFFICES ASSUME NEW k \in 1..Len(q) PROVE q[k] \in Steps(p)
    BY DEF Steps
  <2>1. k \in 1..(Len(p) - 1) /\ k + 1 \in 1..Len(p)
    BY <1>1
  <2> QED BY <1>1, <2>1 DEF Steps
<1>3. 1 \in 1..Len(p) /\ p[1] \in Steps(p)
  BY <1>1 DEF Steps
<1> QED BY <1>1, <1>2, <1>3 DEF Own, Still, q

\* A program of one step.
LEMMA OwnSingle ==
  ASSUME NEW in, NEW ids, NEW x, OwnStep(in, ids, x) PROVE Own(in, ids, <<x>>)
<1>1. IsProgram(<<x>>) /\ Steps(<<x>>) = {x}
  BY SingleStep
<1> QED BY <1>1 DEF Own

\* A program of two steps.
LEMMA OwnPair ==
  ASSUME NEW in, NEW ids, NEW x, NEW y, OwnStep(in, ids, x), OwnStep(in, ids, y)
  PROVE  /\ Own(in, ids, <<x, y>>)
         /\ x.call # "commit" /\ y.call # "commit" => Still(<<x, y>>)
<1> DEFINE p == <<x, y>>
<1>1. p \in Seq({x, y}) /\ Len(p) = 2 /\ p[1] = x /\ p[2] = y
  OBVIOUS
<1> HIDE DEF p
<1>2. \A k : k \in 1..2 <=> k = 1 \/ k = 2
  OBVIOUS
<1>3. Steps(p) = {x, y}
  BY <1>1, <1>2 DEF Steps
<1>4. IsProgram(p)
  BY <1>1 DEF IsProgram
<1>5. Own(in, ids, p) /\ (x.call # "commit" /\ y.call # "commit" => Still(p))
  BY <1>3, <1>4 DEF Own, Still
<1> QED BY <1>5 DEF p
-----------------------------------------------------------------------------
(* The invariant of VPLS tasks *)

\* The task is about a service of that name.
Named(t, n) == input[t] # None /\ input[t].id = n

\* The devices asked for under a name.
AskedIds(n) == {e.id : e \in EndsAsked(n)}

\* An instance that is pending belongs to a task of its name.
Clean(n) ==
  \A d \in Node : intent[d][Instance(n)] # actual[d][Instance(n)] =>
    \E t \in Task : Named(t, n) /\ d \in dirty[t]

\* A task of the name and another one have no device in common while one of
\* them runs there.
Apart(n) ==
  \A t \in Task : Named(t, n) => \A u \in Task \ {t} :
    /\ Running(t) /\ Running(u) => scope[t] \cap scope[u] = {}
    /\ Running(t) => dirty[u] \cap scope[t] = {}
    /\ Running(u) => dirty[t] \cap scope[u] = {}

\* The network has a mesh of devices that were asked for, once the task that
\* creates it has ended.
Net(n) ==
  /\ MeshOf(actual, n) /\ Members(actual, n) \subseteq AskedIds(n)
  /\ Members(actual, n) # {} =>
       \E u \in Task : ~Running(u) /\ DoesVpls(u, "create") /\ input[u].id = n

\* A task that brings the network from one mesh to another: it replaces the
\* whole service, which is not there when it is created.
Meant(t) ==
  LET n == input[t].id
      M == Members(actual, n)
  IN /\ scope[t] # {}
     /\ \E g : LET G == GivenOne(scope[t], g) IN
          /\ Course(input[t], todo[t], scope[t], g, intent, actual)
          /\ G \subseteq AskedIds(n) /\ \A d \in G : Meshed(g[d], G, d)
     /\ input[t].do = "create" \/ (M # {} /\ M \subseteq scope[t])
\* A running task commits nothing more, or brings another mesh.
Bound(t) == Still(todo[t]) \/ Meant(t)

\* What holds of the tasks and instances of a name that is calm.
Meshing(n) ==
  Apart(n) /\ Net(n) /\ \A t \in Task : Running(t) /\ Named(t, n) => Bound(t)

\* The invariant: that of all services, programs that keep to their own devices
\* and instance, and for each name that is calm a mesh, or one on its way.
VplsInv ==
  /\ L2Inv /\ OnlyVpls /\ WholeStores
  /\ \A t \in Task : result[t] = "idle" => input[t] = None
  /\ \A t \in Task : Running(t) => Own(input[t], scope[t], todo[t])
  /\ \A n \in Name : Clean(n) /\ (Calm(n) => Meshing(n))
-----------------------------------------------------------------------------
(* What the calls do to an instance *)

\* What the step x of a task does to the stores when it is done.
Done(t, x) ==
  \/ x.call \notin {"write", "commit"} /\ UNCHANGED <<intent, actual, dirty>>
  \/ /\ x.call = "write" /\ intent' = Written(intent, x) /\ UNCHANGED actual
     /\ dirty' = [dirty EXCEPT ![t] = @ \cup x.on]
  \/ /\ x.call = "commit" /\ actual' = Copied(actual, intent, x.on) /\ UNCHANGED intent
     /\ dirty' = Cleaned(x.on)
  \/ /\ x.call = "sync" /\ actual' = Reread(actual, x.on) /\ UNCHANGED intent
     /\ dirty' = [dirty EXCEPT ![t] = @ \cup x.on]
  \/ /\ x.call = "rollback" /\ intent' = Copied(intent, actual, x.on) /\ UNCHANGED actual
     /\ dirty' = Cleaned(x.on)
\* The step is done, or nothing is.
Deed(t, x) == Done(t, x) \/ UNCHANGED <<intent, actual, dirty>>

\* What a call does to an object.
LEMMA ObjectEffects ==
  ASSUME WholeStores, NEW t, NEW x, Deed(t, x), NEW o \in Object, NEW d \in Node
  PROVE  /\ d \notin x.on => intent'[d][o] = intent[d][o] /\ actual'[d][o] = actual[d][o]
         /\ \/ intent'[d][o] = intent[d][o]
            \/ WritesTo(x, d, o) /\ Done(t, x) /\ intent'[d][o] = x.value
            \/ x.call = "rollback" /\ intent'[d][o] = actual[d][o]
         /\ \/ actual'[d][o] = actual[d][o]
            \/ x.call = "commit" /\ d \in x.on /\ actual'[d][o] = intent[d][o]
            \/ o[1] = "interface" /\ actual[d][o] = None
         /\ WritesTo(x, d, o) /\ Done(t, x) => intent'[d][o] = x.value
         /\ x.call = "commit" /\ Done(t, x) =>
              /\ intent'[d][o] = intent[d][o]
              /\ actual'[d][o] = IF d \in x.on THEN intent[d][o] ELSE actual[d][o]
<1>1. DOMAIN intent[d] = Object /\ DOMAIN actual[d] = Object
  BY DEF WholeStores
<1>2. CASE UNCHANGED <<intent, actual, dirty>> /\ ~Done(t, x)
  BY <1>2
<1>3. CASE x.call \notin {"write", "commit"} /\ UNCHANGED <<intent, actual, dirty>>
  BY <1>3 DEF WritesTo
<1>4. CASE Done(t, x) /\ x.call = "write" /\ intent' = Written(intent, x) /\ UNCHANGED actual
  <2>1. CASE d \in x.on
    <3>1. intent'[d] = [intent[d] EXCEPT ![x.object] = x.value]
      BY <1>4, <2>1 DEF Written
    <3>2. intent'[d][o] = IF o = x.object THEN x.value ELSE intent[d][o]
      BY <1>1, <3>1
    <3> QED BY <1>4, <2>1, <3>2 DEF WritesTo
  <2>2. CASE d \notin x.on
    <3>1. intent'[d] = intent[d]
      BY <1>4, <2>2 DEF Written
    <3> QED BY <1>4, <2>2, <3>1 DEF WritesTo
  <2> QED BY <2>1, <2>2
<1>5. CASE x.call = "commit" /\ actual' = Copied(actual, intent, x.on) /\ UNCHANGED intent
  <2>1. actual'[d] = IF d \in x.on THEN intent[d] ELSE actual[d]
    BY <1>5 DEF Copied
  <2> QED BY <1>5, <2>1 DEF WritesTo
<1>6. CASE x.call = "sync" /\ actual' = Reread(actual, x.on) /\ UNCHANGED intent
  <2>1. CASE d \in x.on
    <3>1. actual'[d] = [q \in Object |->
             IF actual[d][q] = None /\ q[1] = "interface" THEN Initial[d][q] ELSE actual[d][q]]
      BY <1>6, <2>1 DEF Reread
    <3>2. actual'[d][o] = actual[d][o] \/ (o[1] = "interface" /\ actual[d][o] = None)
      BY <3>1
    <3> QED BY <1>6, <2>1, <3>2 DEF WritesTo
  <2>2. CASE d \notin x.on
    <3>1. actual'[d] = actual[d]
      BY <1>6, <2>2 DEF Reread
    <3> QED BY <1>6, <3>1 DEF WritesTo
  <2> QED BY <2>1, <2>2
<1>7. CASE x.call = "rollback" /\ intent' = Copied(intent, actual, x.on) /\ UNCHANGED actual
  <2>1. intent'[d] = IF d \in x.on THEN actual[d] ELSE intent[d]
    BY <1>7 DEF Copied
  <2> QED BY <1>7, <2>1 DEF WritesTo
<1> QED BY <1>2, <1>3, <1>4, <1>5, <1>6, <1>7 DEF Deed, Done

\* What a call does to the instances of a name.
LEMMA Effects ==
  ASSUME WholeStores, NEW t, NEW x, Deed(t, x), NEW n \in Name, NEW d \in Node
  PROVE  LET I == Instance(n) IN
         /\ d \notin x.on => intent'[d][I] = intent[d][I] /\ actual'[d][I] = actual[d][I]
         /\ \/ intent'[d][I] = intent[d][I]
            \/ WritesTo(x, d, I) /\ intent'[d][I] = x.value
            \/ x.call = "rollback" /\ intent'[d][I] = actual[d][I]
         /\ \/ actual'[d][I] = actual[d][I]
            \/ x.call = "commit" /\ d \in x.on /\ actual'[d][I] = intent'[d][I]
         /\ WritesTo(x, d, I) /\ Done(t, x) => intent'[d][I] = x.value
         /\ x.call = "commit" /\ Done(t, x) =>
              /\ intent'[d][I] = intent[d][I]
              /\ actual'[d][I] = IF d \in x.on THEN intent[d][I] ELSE actual[d][I]
BY InstanceApart, ObjectEffects DEF WritesTo

\* What it does to the nodes that are dirty.
LEMMA DirtyAfter ==
  ASSUME Tables, NEW t \in Task, NEW x, Deed(t, x)
  PROVE  /\ dirty'[t] \subseteq dirty[t] \cup x.on
         /\ \A u \in Task \ {t} : dirty'[u] \subseteq dirty[u]
         /\ \A d \in Node : \A o : WritesTo(x, d, o) /\ intent' # intent => d \in dirty'[t]
         /\ \A u \in Task : \A d \in dirty[u] : d \notin dirty'[u] => intent'[d] = actual'[d]
<1>1. dirty \in [Task -> SUBSET Node]
  BY DEF Tables
<1>2. CASE UNCHANGED <<intent, actual, dirty>>
  BY <1>2
<1>3. CASE dirty' = [dirty EXCEPT ![t] = @ \cup x.on]
  <2>1. /\ dirty'[t] = dirty[t] \cup x.on
        /\ \A u \in Task \ {t} : dirty'[u] = dirty[u]
    BY <1>1, <1>3
  <2> QED BY <2>1 DEF WritesTo
<1>4. CASE dirty' = Cleaned(x.on) /\ x.call # "write"
           /\ \A d \in Node : d \in x.on => intent'[d] = actual'[d]
  <2>1. \A u \in Task : dirty'[u] = dirty[u] \ x.on
    BY <1>4 DEF Cleaned
  <2>2. \A u \in Task : dirty[u] \subseteq Node
    BY <1>1
  <2> QED BY <1>4, <2>1, <2>2 DEF WritesTo
<1>5. Deed(t, x) =>
        \/ UNCHANGED <<intent, actual, dirty>>
        \/ dirty' = [dirty EXCEPT ![t] = @ \cup x.on]
        \/ dirty' = Cleaned(x.on) /\ x.call # "write"
           /\ \A d \in Node : d \in x.on => intent'[d] = actual'[d]
  BY DEF Deed, Done, Copied
<1> QED BY <1>2, <1>3, <1>4, <1>5

\* An instance that becomes pending belongs to the task that writes it.
LEMMA CleanAfter ==
  ASSUME WholeStores, Tables, OnlyVpls, NEW t \in Task, NEW x, Deed(t, x), input' = input,
         input[t] # None, NEW ids, OwnStep(input[t], ids, x), NEW n \in Name, Clean(n)
  PROVE  Clean(n)'
<1> DEFINE I == Instance(n)
<1> SUFFICES ASSUME NEW d \in Node, intent'[d][I] # actual'[d][I]
             PROVE  \E u \in Task : Named(u, n)' /\ d \in dirty'[u]
  BY DEF Clean
<1>1. /\ \/ intent'[d][I] = intent[d][I]
         \/ WritesTo(x, d, I)
         \/ x.call = "rollback" /\ intent'[d][I] = actual[d][I]
      /\ \/ actual'[d][I] = actual[d][I]
         \/ actual'[d][I] = intent'[d][I]
  BY Effects
<1>2. /\ \A e \in Node : \A o : WritesTo(x, e, o) /\ intent' # intent => e \in dirty'[t]
      /\ \A u \in Task : \A e \in dirty[u] : e \notin dirty'[u] => intent'[e] = actual'[e]
  BY DirtyAfter
<1>3. \A u : Named(u, n)' <=> Named(u, n)
  BY DEF Named
<1>4. CASE intent[d][I] # actual[d][I]
  <2>1. PICK u \in Task : Named(u, n) /\ d \in dirty[u]
    BY <1>4 DEF Clean
  <2> QED BY <1>2, <1>3, <2>1
<1>5. CASE intent[d][I] = actual[d][I]
  <2>1. WritesTo(x, d, I) /\ intent' # intent
    BY <1>1, <1>5
  <2>2. input[t].id = n
    BY <2>1 DEF OwnStep, WritesTo
  <2> QED BY <1>2, <1>3, <2>1, <2>2 DEF Named
<1> QED BY <1>4, <1>5

\* Members and meshes are about the instances of the name only.
LEMMA SameMembers ==
  ASSUME NEW n, NEW store, NEW other,
         \A d \in Node : store[d][Instance(n)] = other[d][Instance(n)]
  PROVE  Members(store, n) = Members(other, n) /\ (MeshOf(store, n) <=> MeshOf(other, n))
<1>1. \A d : d \in Members(store, n) <=> d \in Members(other, n)
  BY MemberHas
<1>2. Members(store, n) = Members(other, n)
  BY <1>1
<1>3. \A d \in Members(store, n) : d \in Node
  BY MemberHas
<1> QED BY <1>2, <1>3 DEF MeshOf

\* A task keeps its distance: it makes dirty what it is about.
LEMMA ApartAfter ==
  ASSUME Tables, NEW t \in Task, Running(t), NEW x, Deed(t, x), x.on \subseteq scope[t],
         input' = input, scope' = scope, \A u \in Task \ {t} : result'[u] = result[u],
         NEW n, Apart(n)
  PROVE  Apart(n)'
<1>1. /\ dirty'[t] \subseteq dirty[t] \cup x.on
      /\ \A u \in Task \ {t} : dirty'[u] \subseteq dirty[u]
  BY DirtyAfter
<1>2. \A u \in Task : Running(u)' => Running(u)
  BY DEF Running
<1>3. \A u : Named(u, n)' <=> Named(u, n)
  BY DEF Named
<1> SUFFICES ASSUME NEW v \in Task, Named(v, n), NEW u \in Task \ {v}
             PROVE  /\ Running(v)' /\ Running(u)' => scope[v] \cap scope[u] = {}
                    /\ Running(v)' => dirty'[u] \cap scope[v] = {}
                    /\ Running(u)' => dirty'[v] \cap scope[u] = {}
  BY <1>3 DEF Apart
<1>4. /\ Running(v) /\ Running(u) => scope[v] \cap scope[u] = {}
      /\ Running(v) => dirty[u] \cap scope[v] = {}
      /\ Running(u) => dirty[v] \cap scope[u] = {}
  BY DEF Apart
<1>5. CASE v = t
  BY <1>1, <1>2, <1>4, <1>5
<1>6. CASE u = t
  BY <1>1, <1>2, <1>4, <1>6
<1>7. CASE v # t /\ u # t
  BY <1>1, <1>2, <1>4, <1>7
<1> QED BY <1>5, <1>6, <1>7

\* A task of another name leaves the instances of the name as they are.
LEMMA ElsewhereKept ==
  ASSUME WholeStores, NEW t \in Task, Running(t), NEW x, Deed(t, x), input[t] # None,
         OwnStep(input[t], scope[t], x), NEW n \in Name, Clean(n), Apart(n), ~Named(t, n)
  PROVE  \A d \in Node : /\ intent'[d][Instance(n)] = intent[d][Instance(n)]
                         /\ actual'[d][Instance(n)] = actual[d][Instance(n)]
<1> DEFINE I == Instance(n)
<1> SUFFICES ASSUME NEW d \in Node
             PROVE  intent'[d][I] = intent[d][I] /\ actual'[d][I] = actual[d][I]
  OBVIOUS
<1>1. /\ d \notin x.on => intent'[d][I] = intent[d][I] /\ actual'[d][I] = actual[d][I]
      /\ \/ intent'[d][I] = intent[d][I]
         \/ WritesTo(x, d, I)
         \/ x.call = "rollback" /\ intent'[d][I] = actual[d][I]
      /\ \/ actual'[d][I] = actual[d][I]
         \/ x.call = "commit" /\ actual'[d][I] = intent'[d][I]
  BY Effects
<1>2. ~WritesTo(x, d, I)
  BY DEF OwnStep, WritesTo, Named
<1>3. CASE d \in x.on
  <2>1. d \in scope[t]
    BY <1>3 DEF OwnStep
  <2>2. intent[d][I] = actual[d][I]
    <3> SUFFICES ASSUME intent[d][I] # actual[d][I] PROVE FALSE
      OBVIOUS
    <3>1. PICK u \in Task : Named(u, n) /\ d \in dirty[u]
      BY DEF Clean
    <3>2. u # t
      BY <3>1
    <3>3. dirty[u] \cap scope[t] = {}
      BY <3>1, <3>2 DEF Apart
    <3> QED BY <2>1, <3>1, <3>3
  <2> QED BY <1>1, <1>2, <2>2
<1> QED BY <1>1, <1>3
-----------------------------------------------------------------------------
(* A task makes a step *)

\* What was asked for does not change while tasks make their steps.
LEMMA AskedStay ==
  ASSUME input' = input, scope' = scope
  PROVE  /\ \A n : AskedIds(n)' = AskedIds(n)
         /\ \A n, t : Named(t, n)' <=> Named(t, n)
         /\ \A t, do : DoesVpls(t, do)' <=> DoesVpls(t, do)
<1>1. \A t, do : DoesVpls(t, do)' <=> DoesVpls(t, do)
  BY DEF DoesVpls, IsVpls
<1>2. \A n, t : Named(t, n)' <=> Named(t, n)
  BY DEF Named
<1>3. \A n : EndsAsked(n)' = EndsAsked(n)
  BY DEF EndsAsked, DoesVpls, IsVpls
<1> QED BY <1>1, <1>2, <1>3 DEF AskedIds

\* The mesh stays when the network does.
LEMMA NetKept ==
  ASSUME NEW n, input' = input, scope' = scope, \A u \in Task : Running(u)' => Running(u),
         \A d \in Node : actual'[d][Instance(n)] = actual[d][Instance(n)], Net(n)
  PROVE  Net(n)' /\ Members(actual', n) = Members(actual, n)
<1>1. Members(actual', n) = Members(actual, n) /\ (MeshOf(actual', n) <=> MeshOf(actual, n))
  BY SameMembers
<1>2. AskedIds(n)' = AskedIds(n) /\ \A u : DoesVpls(u, "create")' <=> DoesVpls(u, "create")
  BY AskedStay
<1>3. Net(n)'
  BY <1>1, <1>2 DEF Net
<1> QED BY <1>1, <1>3

\* A task is bound as before when nobody touches the instances of its devices.
LEMMA BoundKept ==
  ASSUME NEW u, input' = input, scope' = scope, todo'[u] = todo[u], Bound(u),
         \A d \in scope[u] \cap Node : LET I == Instance(input[u].id) IN
           intent'[d][I] = intent[d][I] /\ actual'[d][I] = actual[d][I],
         Meant(u) => \/ input[u].do = "create"
                     \/ Members(actual', input[u].id) = Members(actual, input[u].id)
  PROVE  Bound(u)'
<1>1. CASE Still(todo[u])
  BY <1>1 DEF Bound
<1>2. CASE Meant(u)
  <2> DEFINE n == input[u].id
  <2>1. AskedIds(n)' = AskedIds(n)
    BY AskedStay
  <2>2. PICK g : LET G == GivenOne(scope[u], g) IN
                 /\ Course(input[u], todo[u], scope[u], g, intent, actual)
                 /\ G \subseteq AskedIds(n) /\ \A d \in G : Meshed(g[d], G, d)
    BY <1>2 DEF Meant
  <2>3. Course(input[u], todo[u], scope[u], g, intent', actual')
    BY <2>2, CourseElsewhere
  <2>4. /\ scope'[u] = scope[u] /\ input'[u] = input[u] /\ todo'[u] = todo[u] /\ scope[u] # {}
        /\ \/ input[u].do = "create"
           \/ Members(actual', n) # {} /\ Members(actual', n) \subseteq scope[u]
    BY <1>2 DEF Meant
  <2>5. Meant(u)'
    BY <2>1, <2>2, <2>3, <2>4 DEF Meant
  <2> QED BY <2>5 DEF Bound
<1> QED BY <1>1, <1>2 DEF Bound

\* What a task does to the meshes when it makes a step: it keeps its own service
\* or replaces it, and is bound to do so as before.
Moves(t, n) ==
  /\ Running(t)' => Bound(t)'
  /\ \/ \A d \in Node : actual'[d][Instance(n)] = actual[d][Instance(n)]
     \/ Net(n)' /\ \A u \in Task \ {t} : Running(u) /\ Named(u, n) /\ Meant(u) =>
                                           input[u].do = "create"

\* A name stays in order if its own task moves as it should.
LEMMA MeshingKept ==
  ASSUME VplsInv, NEW t \in Task, Running(t), NEW x, Deed(t, x), OwnStep(input[t], scope[t], x),
         input' = input, scope' = scope,
         \A u \in Task \ {t} : todo'[u] = todo[u] /\ result'[u] = result[u],
         NEW n \in Name, Meshing(n), Clean(n), Named(t, n) => Moves(t, n)
  PROVE  Meshing(n)'
<1>1. Tables /\ WholeStores /\ x.on \subseteq scope[t] /\ input[t] # None
  <2>1. result[t] # "idle" /\ TaskSound(t) /\ Tables
    BY DEF VplsInv, L2Inv, Running
  <2> QED BY <2>1, InputFacts DEF VplsInv, TaskSound, OwnStep
<1>2. \A u \in Task : Running(u)' => Running(u)
  BY DEF Running
<1>3. Apart(n)'
  BY <1>1, ApartAfter DEF Meshing
<1>4. \A u, m : Named(u, m)' <=> Named(u, m)
  BY AskedStay
<1>5. Apart(n) /\ Net(n)
  BY DEF Meshing
<1>6. CASE ~Named(t, n)
  <2>1. \A d \in Node : /\ intent'[d][Instance(n)] = intent[d][Instance(n)]
                        /\ actual'[d][Instance(n)] = actual[d][Instance(n)]
    BY <1>1, <1>5, <1>6, ElsewhereKept
  <2>2. Net(n)' /\ Members(actual', n) = Members(actual, n)
    BY <1>2, <1>5, <2>1, NetKept
  <2>3. ASSUME NEW u \in Task, Running(u)', Named(u, n)' PROVE Bound(u)'
    <3>1. u # t /\ Running(u) /\ Named(u, n) /\ input[u].id = n
      BY <1>2, <1>4, <1>6, <2>3 DEF Named
    <3>2. Bound(u)
      BY <3>1 DEF Meshing
    <3> QED BY <2>1, <2>2, <3>1, <3>2, BoundKept
  <2> QED BY <1>3, <2>2, <2>3 DEF Meshing
<1>7. CASE Named(t, n)
  <2>1. Moves(t, n)
    BY <1>7
  <2>2. Net(n)'
    BY <1>2, <1>5, <2>1, NetKept DEF Moves
  <2>3. ASSUME NEW u \in Task, u # t, Running(u)', Named(u, n)' PROVE Bound(u)'
    <3>1. Running(u) /\ Named(u, n) /\ input[u].id = n /\ todo'[u] = todo[u]
      BY <1>2, <1>4, <2>3 DEF Named
    <3>2. Bound(u)
      BY <3>1 DEF Meshing
    <3>3. scope[t] \cap scope[u] = {}
      BY <1>5, <1>7, <2>3, <3>1 DEF Apart
    <3>4. ASSUME NEW d \in scope[u] \cap Node
          PROVE  /\ intent'[d][Instance(n)] = intent[d][Instance(n)]
                 /\ actual'[d][Instance(n)] = actual[d][Instance(n)]
      <4>1. d \notin x.on
        BY <1>1, <3>3
      <4> QED BY <1>1, <4>1, Effects
    <3>5. Meant(u) => input[u].do = "create" \/ Members(actual', n) = Members(actual, n)
      BY <1>2, <1>5, <2>1, <2>3, <3>1, NetKept DEF Moves
    <3> QED BY <3>1, <3>2, <3>4, <3>5, BoundKept
  <2>4. \A u \in Task : Running(u)' /\ Named(u, n)' => Bound(u)'
    BY <2>1, <2>3 DEF Moves
  <2> QED BY <1>3, <2>2, <2>4 DEF Meshing
<1> QED BY <1>6, <1>7

\* The invariant is kept by a step that moves the meshes as it should.
LEMMA VplsMoveInv ==
  ASSUME VplsInv, L2Inv', WholeStores', NEW t \in Task, Running(t),
         NEW x, Deed(t, x), OwnStep(input[t], scope[t], x),
         input' = input, scope' = scope, disturbed' = disturbed, result'[t] # "idle",
         \A u \in Task \ {t} : /\ todo'[u] = todo[u] /\ result'[u] = result[u]
                               /\ broke'[u] = broke[u],
         broke[t] # <<>> => broke'[t] # <<>>,
         Running(t)' => Own(input[t], scope[t], todo'[t]),
         \A n \in Name : Named(t, n) /\ Meshing(n) /\ Calm(n) /\ Calm(n)' => Moves(t, n)
  PROVE  VplsInv'
<1>1. OnlyVpls' /\ \A u \in Task : result'[u] = "idle" => input'[u] = None
  <2>1. \A u \in Task : result'[u] = "idle" => result[u] = "idle"
    OBVIOUS
  <2> QED BY <2>1 DEF VplsInv, OnlyVpls
<1>2. \A u \in Task : Running(u)' => Own(input'[u], scope'[u], todo'[u])
  <2>1. \A u \in Task : Running(u)' => Running(u)
    BY DEF Running
  <2> QED BY <2>1 DEF VplsInv
<1>3. Tables /\ WholeStores /\ OnlyVpls /\ input[t] # None
  <2>1. result[t] # "idle" /\ TaskSound(t) /\ Tables
    BY DEF VplsInv, L2Inv, Running
  <2> QED BY <2>1, InputFacts DEF VplsInv, TaskSound
<1>4. ASSUME NEW n \in Name PROVE Clean(n)' /\ (Calm(n)' => Meshing(n)')
  <2>1. Clean(n) /\ (Calm(n) => Meshing(n))
    BY DEF VplsInv
  <2>2. Clean(n)'
    BY <1>3, <2>1, CleanAfter
  <2>3. ASSUME Calm(n)' PROVE Calm(n)
    <3>1. \A u, do : DoesVpls(u, do)' <=> DoesVpls(u, do)
      BY AskedStay
    <3>2. \A u \in Task : broke[u] # <<>> => broke'[u] # <<>>
      OBVIOUS
    <3> QED BY <2>3, <3>1, <3>2 DEF Calm
  <2>4. ASSUME Calm(n)' PROVE Meshing(n)'
    <3>1. Calm(n) /\ Meshing(n)
      BY <2>1, <2>3, <2>4
    <3>2. Named(t, n) => Moves(t, n)
      BY <2>4, <3>1
    <3> QED BY <2>1, <3>1, <3>2, MeshingKept
  <2> QED BY <2>2, <2>4
<1> QED BY <1>1, <1>2, <1>4 DEF VplsInv
-----------------------------------------------------------------------------
(* A call of a task succeeds, is rolled back, or the worker dies *)

\* A running task of VPLS.
LEMMA VplsTask ==
  ASSUME VplsInv, NEW t \in Task, Running(t)
  PROVE  /\ input[t] \in VplsInput /\ input[t] # None /\ IsVpls(t)
         /\ Own(input[t], scope[t], todo[t]) /\ Tables /\ WholeStores /\ TaskSound(t)
<1>1. result[t] # "idle" /\ TaskSound(t) /\ Tables
  BY DEF VplsInv, L2Inv, Running
<1>2. input[t] \in L2Input
  BY <1>1 DEF TaskSound
<1>3. input[t] # None /\ input[t] \in VplsInput
  BY <1>2, InputFacts DEF VplsInv, OnlyVpls
<1> QED BY <1>1, <1>3, InputFacts DEF VplsInv, IsVpls

\* The last commit of a task replaces the mesh of its service by another one.
LEMMA LastCommit ==
  ASSUME VplsInv, NEW t \in Task, Running(t), NEW n \in Name, Named(t, n), Calm(n), Meshing(n),
         Meant(t), Len(todo[t]) = 1, Done(t, todo[t][1]), todo[t][1].on \subseteq Node,
         input' = input, scope' = scope, \A u \in Task \ {t} : result'[u] = result[u],
         ~Running(t)'
  PROVE  Moves(t, n)
<1> DEFINE x == todo[t][1]
           I == Instance(n)
           M == Members(actual, n)
           ids == scope[t]
<1>1. /\ input[t].id = n /\ ids # {} /\ IsVpls(t) /\ WholeStores
      /\ input[t].do = "create" \/ (M # {} /\ M \subseteq ids)
  BY VplsTask DEF Meant, Named
<1>2. PICK g : LET G == GivenOne(ids, g) IN
               /\ Course(input[t], todo[t], ids, g, intent, actual)
               /\ G \subseteq AskedIds(n) /\ \A d \in G : Meshed(g[d], G, d)
  BY <1>1 DEF Meant
<1> DEFINE G == GivenOne(ids, g)
<1>3. x.call = "commit" /\ x.on = ids
  BY <1>2 DEF Course
<1>4. ids \subseteq Node
  BY <1>3
<1>5. ASSUME NEW d \in ids PROVE intent[d][I] = g[d]
  <2>1. intent[d][I] = g[d] \/ Has(todo[t], Len(todo[t]), d, I)
    BY <1>1, <1>2, <1>4 DEF Course
  <2>2. \A k : k \in 1..1 <=> k = 1
    OBVIOUS
  <2> QED BY <1>3, <2>1, <2>2 DEF Has, WritesTo
<1>6. \A d \in Node : actual'[d][I] = IF d \in ids THEN g[d] ELSE actual[d][I]
  <2> SUFFICES ASSUME NEW d \in Node
               PROVE  actual'[d][I] = IF d \in ids THEN g[d] ELSE actual[d][I]
    OBVIOUS
  <2>1. actual'[d][I] = IF d \in x.on THEN intent[d][I] ELSE actual[d][I]
    BY <1>1, <1>3, Effects DEF Deed
  <2> QED BY <1>3, <1>5, <2>1
<1>7. Net(n) /\ Apart(n) /\ (input[t].do = "create" => DoesVpls(t, "create"))
  BY <1>1 DEF Meshing, DoesVpls
<1>8. input[t].do = "create" => M = {}
  <2> SUFFICES ASSUME input[t].do = "create", M # {} PROVE FALSE
    OBVIOUS
  <2>1. PICK u \in Task : ~Running(u) /\ DoesVpls(u, "create") /\ input[u].id = n
    BY <1>7 DEF Net
  <2>2. u = t
    BY <1>1, <1>7, <2>1 DEF Calm
  <2> QED BY <2>1, <2>2
<1>9. M \subseteq ids
  BY <1>1, <1>8
<1> HIDE DEF x, M, G, ids, I
<1>10. \A d \in G : g[d] # None /\ g[d].net = "L2VSI" /\ d \in ids
  BY <1>2 DEF G, GivenOne, Meshed
<1>11. \A d : d \in Members(actual', n) <=> d \in G
  <2> TAKE d
  <2>1. d \in Members(actual', n) <=>
          d \in Node /\ actual'[d][I] # None /\ actual'[d][I].net = "L2VSI"
    BY MemberHas DEF I
  <2>2. d \in M <=> d \in Node /\ actual[d][I] # None /\ actual[d][I].net = "L2VSI"
    BY MemberHas DEF I, M
  <2>3. d \in G <=> d \in ids /\ g[d] # None
    BY DEF G, GivenOne
  <2>4. CASE d \in ids
    BY <1>4, <1>6, <1>10, <2>1, <2>3, <2>4
  <2>5. CASE d \notin ids
    BY <1>6, <1>9, <2>1, <2>2, <2>3, <2>5
  <2> QED BY <2>4, <2>5
<1>12. Members(actual', n) = G
  BY <1>11
<1>13. MeshOf(actual', n)
  <2>1. \A d \in G : actual'[d][I] = g[d]
    BY <1>4, <1>6, <1>10
  <2> QED BY <1>2, <1>12, <2>1 DEF MeshOf, G, I
<1>14. AskedIds(n)' = AskedIds(n) /\ \A u : DoesVpls(u, "create")' <=> DoesVpls(u, "create")
  BY AskedStay
<1>15. Members(actual', n) \subseteq AskedIds(n)'
  BY <1>2, <1>12, <1>14 DEF G
<1>16. \E u \in Task : ~Running(u)' /\ DoesVpls(u, "create")' /\ input'[u].id = n
  <2>1. CASE input[t].do = "create"
    BY <1>1, <1>7, <1>14, <2>1
  <2>2. CASE input[t].do # "create"
    <3>1. PICK u \in Task : ~Running(u) /\ DoesVpls(u, "create") /\ input[u].id = n
      BY <1>1, <1>7, <2>2 DEF Net, M
    <3>2. ~Running(u)'
      BY <3>1 DEF Running
    <3> QED BY <1>14, <3>1, <3>2
  <2> QED BY <2>1, <2>2
<1>17. Net(n)'
  BY <1>13, <1>15, <1>16 DEF Net
<1>18. ASSUME NEW u \in Task \ {t}, Running(u), Named(u, n), Meant(u)
       PROVE  input[u].do = "create"
  <2> SUFFICES ASSUME input[u].do # "create" PROVE FALSE
    OBVIOUS
  <2>1. M # {} /\ M \subseteq scope[u]
    BY <1>18 DEF Meant, Named, M
  <2>2. ids \cap scope[u] = {}
    BY <1>7, <1>18 DEF Apart, ids
  <2> QED BY <1>9, <2>1, <2>2
<1> QED BY <1>17, <1>18 DEF Moves

\* A step on the way.
LEMMA OneStepOn ==
  ASSUME VplsInv, NEW t \in Task, Running(t), NEW n \in Name, Named(t, n), Meant(t),
         Len(todo[t]) # 1, Done(t, todo[t][1]), todo[t][1].call # "rollback",
         input' = input, scope' = scope, todo'[t] = Tail(todo[t])
  PROVE  Moves(t, n)
<1> DEFINE p == todo[t]
           x == p[1]
           I == Instance(n)
           ids == scope[t]
<1>1. /\ input[t].id = n /\ WholeStores /\ Own(input[t], ids, p) /\ Deed(t, x)
  BY VplsTask DEF Named, Deed
<1>2. PICK g : LET G == GivenOne(ids, g) IN
               /\ Course(input[t], p, ids, g, intent, actual)
               /\ G \subseteq AskedIds(n) /\ \A d \in G : Meshed(g[d], G, d)
  BY <1>1 DEF Meant
<1>3. p # <<>> /\ IsProgram(p) /\ Valued(input[t], g, p)
  BY <1>2 DEF Course
<1>4. /\ OwnStep(input[t], ids, x) /\ 1 \in 1..Len(p) /\ Len(p) \in Nat
  BY <1>1, <1>3, OwnTail, ProgramTail
<1>5. x \in Steps(p) /\ 1 \in 1..(Len(p) - 1)
  <2>1. x \in Steps(p)
    BY <1>4 DEF Steps
  <2>2. PICK k : k = Len(p)
    OBVIOUS
  <2>3. k \in Nat /\ 1 \in 1..k /\ k # 1
    BY <1>4, <2>2
  <2>4. 1 \in 1..(k - 1)
    BY ONLY <2>3
  <2>5. 1 \in 1..(Len(p) - 1)
    BY <2>2, <2>4
  <2> QED BY <2>1, <2>5
<1>6. \A d : WritesTo(x, d, I) => x.value = g[d]
  BY <1>1, <1>3, <1>5 DEF Valued
<1> HIDE DEF x, I
<1>7. x.call # "rollback" /\ Done(t, x)
  BY DEF x
<1>8. ASSUME NEW d \in Node
      PROVE  /\ d \notin x.on => intent'[d][I] = intent[d][I] /\ actual'[d][I] = actual[d][I]
             /\ intent'[d][I] = IF WritesTo(x, d, I) THEN g[d] ELSE intent[d][I]
             /\ \/ actual'[d][I] = actual[d][I]
                \/ x.call = "commit" /\ d \in x.on /\ actual'[d][I] = intent'[d][I]
             /\ x.call = "commit" => intent'[d][I] = intent[d][I]
  <2>1. /\ d \notin x.on => intent'[d][I] = intent[d][I] /\ actual'[d][I] = actual[d][I]
        /\ \/ intent'[d][I] = intent[d][I]
           \/ WritesTo(x, d, I) /\ intent'[d][I] = x.value
           \/ x.call = "rollback" /\ intent'[d][I] = actual[d][I]
        /\ \/ actual'[d][I] = actual[d][I]
           \/ x.call = "commit" /\ d \in x.on /\ actual'[d][I] = intent'[d][I]
        /\ WritesTo(x, d, I) /\ Done(t, x) => intent'[d][I] = x.value
        /\ x.call = "commit" /\ Done(t, x) => intent'[d][I] = intent[d][I]
    BY <1>1, Effects DEF I
  <2> QED BY <1>6, <1>7, <2>1
<1>9. Course(input[t], Tail(p), ids, g, intent', actual')
  <2>1. \A d \in ids \cap Node : LET J == Instance(input[t].id) IN
           /\ intent'[d][J] = IF WritesTo(p[1], d, J) THEN g[d] ELSE intent[d][J]
           /\ actual'[d][J] = actual[d][J] \/ actual'[d][J] = intent'[d][J]
    BY <1>1, <1>8 DEF I, x
  <2> QED BY <1>2, <2>1, CourseTail
<1>10. ASSUME NEW d \in Node PROVE actual'[d][I] = actual[d][I]
  <2>1. CASE x.call = "commit" /\ d \in x.on
    <3>1. d \in ids \cap Node
      BY <1>4, <2>1 DEF OwnStep
    <3>2. intent[d][I] = actual[d][I]
      BY <1>1, <1>2, <1>5, <2>1, <3>1 DEF Course, I, x
    <3> QED BY <1>8, <2>1, <3>2
  <2>2. CASE ~(x.call = "commit" /\ d \in x.on)
    BY <1>8, <2>2
  <2> QED BY <2>1, <2>2
<1>11. Members(actual', n) = Members(actual, n)
  BY <1>10, SameMembers DEF I
<1>12. AskedIds(n)' = AskedIds(n)
  BY AskedStay
<1>13. /\ ids # {}
       /\ \/ input[t].do = "create"
          \/ Members(actual, n) # {} /\ Members(actual, n) \subseteq ids
  BY <1>1 DEF Meant
<1>14. Meant(t)'
  BY <1>1, <1>2, <1>9, <1>11, <1>12, <1>13 DEF Meant
<1> QED BY <1>10, <1>14 DEF Moves, Bound, I

\* A step of a task that brings nothing to the network.
LEMMA StillMoves ==
  ASSUME VplsInv, NEW t \in Task, NEW n \in Name, NEW x, Deed(t, x), x.call # "commit",
         Running(t)' => Still(todo'[t])
  PROVE  Moves(t, n)
<1>1. WholeStores
  BY DEF VplsInv
<1>2. \A d \in Node : actual'[d][Instance(n)] = actual[d][Instance(n)]
  BY <1>1, Effects
<1> QED BY <1>2 DEF Moves, Bound

\* The calls that succeed.
LEMMA VplsSucceeds ==
  ASSUME VplsInv, NEW t \in Task,
         ReadData(t) \/ WriteData(t) \/ CommitData(t) \/ SyncData(t) \/ DryRunData(t)
  PROVE  VplsInv'
<1> DEFINE p == todo[t]
           x == p[1]
<1>1. /\ Running(t) /\ p # <<>> /\ GoOn(t) /\ This(t).call # "rollback" /\ This(t).on \subseteq Node
  BY DEF ReadData, WriteData, CommitData, SyncData, DryRunData, Doing, Reachable
<1>2. /\ todo' = [todo EXCEPT ![t] = Tail(p)]
      /\ result' = IF Len(p) = 1 THEN [result EXCEPT ![t] = "COMPLETED"] ELSE result
      /\ input' = input /\ scope' = scope /\ disturbed' = disturbed /\ broke' = broke
  BY <1>1 DEF GoOn
<1>3. Own(input[t], scope[t], p) /\ Tables /\ WholeStores
  BY <1>1, VplsTask
<1>4. /\ Own(input[t], scope[t], Tail(p)) /\ OwnStep(input[t], scope[t], x) /\ This(t) = x
      /\ Still(p) => Still(Tail(p)) /\ x.call # "commit"
  BY <1>1, <1>3, OwnTail DEF This
<1>5. /\ \A u \in Task \ {t} : todo'[u] = todo[u] /\ result'[u] = result[u]
      /\ todo'[t] = Tail(p) /\ result'[t] # "idle" /\ (Len(p) = 1 => ~Running(t)')
  BY <1>1, <1>2, <1>3 DEF Tables, Running
<1>6. L2Inv'
  BY CallSucceeds DEF VplsInv
<1>7. WholeStores'
  <2>1. \/ UNCHANGED <<intent, actual>>
        \/ intent' = Written(intent, This(t)) /\ actual' = actual
        \/ actual' = Copied(actual, intent, This(t).on) /\ intent' = intent
        \/ actual' = Reread(actual, This(t).on) /\ intent' = intent
    BY DEF ReadData, WriteData, CommitData, SyncData, DryRunData
  <2> QED BY <1>3, <2>1, StoresKept
<1>8. Done(t, This(t))
  BY DEF ReadData, WriteData, CommitData, SyncData, DryRunData, Doing, Done
<1> HIDE DEF p, x
<1>9. Done(t, x) /\ Deed(t, x) /\ x.call # "rollback" /\ x.on \subseteq Node
  BY <1>1, <1>4, <1>8 DEF Deed
<1>10. ASSUME NEW n \in Name, Named(t, n), Meshing(n), Calm(n) PROVE Moves(t, n)
  <2>1. CASE Still(p)
    BY <1>4, <1>5, <1>9, <2>1, StillMoves
  <2>2. CASE Meant(t)
    <3>1. CASE Len(p) = 1
      BY <1>1, <1>2, <1>5, <1>9, <1>10, <2>2, <3>1, LastCommit DEF p, x
    <3>2. CASE Len(p) # 1
      BY <1>1, <1>2, <1>5, <1>9, <1>10, <2>2, <3>2, OneStepOn DEF p, x
    <3> QED BY <3>1, <3>2
  <2> QED BY <1>1, <1>10, <2>1, <2>2 DEF Meshing, Bound, p
<1> QED BY <1>1, <1>2, <1>4, <1>5, <1>6, <1>7, <1>9, <1>10, VplsMoveInv

\* A task ends in a rollback, answered or not.
LEMMA VplsRolls ==
  ASSUME VplsInv, NEW t \in Task, RollBack(t) PROVE VplsInv'
<1> DEFINE x == This(t)
<1>1. /\ Running(t) /\ todo[t] # <<>> /\ x.call = "rollback"
      /\ result' = [result EXCEPT ![t] = "FAILED"] /\ todo' = [todo EXCEPT ![t] = <<>>]
      /\ input' = input /\ scope' = scope /\ disturbed' = disturbed
      /\ broke' = broke \/ broke' = [broke EXCEPT ![t] = Append(@, x)]
  BY DEF RollBack, Doing
<1>2. Own(input[t], scope[t], todo[t]) /\ Tables
  BY <1>1, VplsTask
<1>3. OwnStep(input[t], scope[t], x)
  <2>1. todo[t] # <<>>
    BY <1>1
  <2>2. OwnStep(input[t], scope[t], todo[t][1]) /\ Head(todo[t]) = todo[t][1]
    BY <1>2, <2>1, OwnTail
  <2> QED BY <2>2 DEF This
<1>4. Deed(t, x)
  BY DEF RollBack, Doing, Deed, Done
<1>5. /\ \A u \in Task \ {t} : /\ todo'[u] = todo[u] /\ result'[u] = result[u]
                               /\ broke'[u] = broke[u]
      /\ result'[t] = "FAILED"
  BY <1>1, <1>2 DEF Tables
<1>6. broke[t] # <<>> => broke'[t] # <<>>
  <2>1. IsProgram(broke[t]) /\ DOMAIN broke = Task
    BY <1>2 DEF Tables
  <2>2. Append(broke[t], x) # <<>>
    <3>1. Len(broke[t]) + 1 \in DOMAIN Append(broke[t], x)
      BY <2>1, AppendFacts
    <3>2. DOMAIN <<>> = {}
      OBVIOUS
    <3>3. ASSUME Append(broke[t], x) = <<>> PROVE FALSE
      BY <3>1, <3>2, <3>3
    <3> QED BY <3>3
  <2>3. CASE broke' = broke
    BY <2>3
  <2>4. CASE broke' = [broke EXCEPT ![t] = Append(@, x)]
    <3>1. broke'[t] = Append(broke[t], x)
      BY <2>1, <2>4
    <3> QED BY <2>2, <3>1
  <2> QED BY <1>1, <2>3, <2>4
<1>7. ~Running(t)'
  BY <1>5 DEF Running
<1>8. L2Inv' /\ WholeStores'
  <2>1. intent' = intent \/ intent' = Copied(intent, actual, This(t).on)
    BY DEF RollBack
  <2>2. actual' = actual
    BY DEF RollBack
  <2> QED BY <2>1, <2>2, RollInv, StoresKept DEF VplsInv
<1>9. \A n \in Name : Moves(t, n)
  BY <1>1, <1>4, <1>7, StillMoves
<1> HIDE DEF x
<1> QED BY <1>1, <1>3, <1>4, <1>5, <1>6, <1>7, <1>8, <1>9, VplsMoveInv

\* The worker of a task dies.
LEMMA VplsDies ==
  ASSUME VplsInv, NEW t \in Task, WorkerDies(t) PROVE VplsInv'
<1>1. /\ Running(t)
      /\ result' = [result EXCEPT ![t] = "LOST"] /\ todo' = [todo EXCEPT ![t] = <<>>]
      /\ UNCHANGED <<intent, actual, dirty, input, scope, disturbed, broke>>
  BY DEF WorkerDies
<1>2. Tables
  BY DEF VplsInv, L2Inv
<1>3. /\ \A u \in Task \ {t} : todo'[u] = todo[u] /\ result'[u] = result[u]
      /\ result'[t] = "LOST"
  BY <1>1, <1>2 DEF Tables
<1>4. ~Running(t)'
  BY <1>3 DEF Running
<1>5. L2Inv' /\ WholeStores'
  BY <1>1, DiesInv DEF VplsInv, WholeStores
<1>6. OwnStep(input[t], scope[t], Raise) /\ Raise.call # "commit" /\ Deed(t, Raise)
  BY <1>1 DEF Raise, Rollback, Call, OwnStep, Deed
<1>7. \A n \in Name : Moves(t, n)
  BY <1>4, <1>6, StillMoves
<1> QED BY <1>1, <1>3, <1>4, <1>5, <1>6, <1>7, VplsMoveInv
-----------------------------------------------------------------------------
(* A call of a task fails *)

\* What withdraws a step of the task is a step of its own.
LEMMA WithdrawIs ==
  ASSUME NEW in, NEW ids, NEW x, IsStep(x), OwnStep(in, ids, x), x.call = "write"
  PROVE  LET w == [x EXCEPT !.value = None, !.undo = {}, !.fails = "ignore"] IN
         OwnStep(in, ids, w) /\ w.call # "commit"
<1> DEFINE w == [x EXCEPT !.value = None, !.undo = {}, !.fails = "ignore"]
<1>1. w.call = x.call /\ w.on = x.on /\ w.object = x.object /\ w.undo = {} /\ w.fails = "ignore"
  BY DEF IsStep
<1> HIDE DEF w
<1>2. OwnStep(in, ids, w) /\ w.call # "commit"
  BY <1>1 DEF OwnStep
<1> QED BY <1>2 DEF w

\* A task that passes over a call that failed.
LEMMA PassesOver ==
  ASSUME NEW in, NEW ids, NEW g, NEW p, NEW want, NEW have, Course(in, p, ids, g, want, have),
         Tame(in, p[1])
  PROVE  Course(in, Tail(p), ids, g, want, have)
<1>1. Len(p) # 1
  BY DEF Course, Tame
<1>2. \A d \in ids \cap Node : LET I == Instance(in.id) IN
        /\ want[d][I] = IF WritesTo(p[1], d, I) THEN g[d] ELSE want[d][I]
        /\ have[d][I] = have[d][I] \/ have[d][I] = want[d][I]
  BY DEF Tame
<1> QED BY <1>1, <1>2, CourseTail

\* The steps that are left when a call failed.
LEMMA LeftSteps ==
  ASSUME NEW in, NEW ids, NEW p, Own(in, ids, p), p # <<>>, IsStep(p[1]),
         Len(p) = 1 => p[1].fails \notin {"skip", "withdraw"}, NEW q,
         LET x == p[1]
             w == [x EXCEPT !.value = None, !.undo = {}, !.fails = "ignore"]
             rest == Tail(p)
         IN \/ x.fails \in {"abort"} /\ q = <<Rollback(x.undo)>>
            \/ x.fails \in {"ignore", "overlook"} /\ q = rest
            \/ x.fails = "skip" /\ q = Tail(rest)
            \/ x.fails = "withdraw" /\ q = <<w, rest[Len(rest)]>>
            \/ x.fails = "withdraw_abort" /\ q = <<w, Rollback(x.undo)>>
  PROVE  /\ Own(in, ids, q)
         /\ Still(p) \/ p[1].fails \in {"abort", "withdraw_abort"} => Still(q)
<1> DEFINE x == p[1]
           w == [x EXCEPT !.value = None, !.undo = {}, !.fails = "ignore"]
           rest == Tail(p)
           r == Rollback(x.undo)
<1>1. /\ Len(p) \in Nat \ {0} /\ IsProgram(rest) /\ Len(rest) = Len(p) - 1
      /\ \A k \in 1..(Len(p) - 1) : rest[k] = p[k + 1]
  BY ProgramTail DEF Own
<1>2. /\ Own(in, ids, rest) /\ OwnStep(in, ids, x)
      /\ Still(p) => Still(rest) /\ x.call # "commit"
  BY OwnTail
<1>3. OwnStep(in, ids, r) /\ r.call # "commit"
  BY <1>2, RollbackFacts DEF OwnStep
<1>4. x.fails \in {"withdraw", "withdraw_abort"} => OwnStep(in, ids, w) /\ w.call # "commit"
  BY <1>2, WithdrawIs DEF OwnStep
<1>5. /\ \/ x.fails = "abort" /\ q = <<r>>
         \/ x.fails \in {"ignore", "overlook"} /\ q = rest
         \/ x.fails = "skip" /\ q = Tail(rest)
         \/ x.fails = "withdraw" /\ q = <<w, rest[Len(rest)]>>
         \/ x.fails = "withdraw_abort" /\ q = <<w, r>>
      /\ Len(p) = 1 => x.fails \notin {"skip", "withdraw"}
  OBVIOUS
<1> HIDE DEF w, rest, r, x
<1>6. Len(p) # 1 => rest # <<>> /\ rest[Len(rest)] \in Steps(rest) /\ Len(rest) \in 1..Len(rest)
  <2> SUFFICES ASSUME Len(p) # 1
               PROVE  rest # <<>> /\ rest[Len(rest)] \in Steps(rest) /\ Len(rest) \in 1..Len(rest)
    OBVIOUS
  <2>1. Len(<<>>) = 0
    OBVIOUS
  <2>2. rest = <<>> => Len(rest) = 0
    BY <2>1
  <2>3. Len(rest) # 0 /\ Len(rest) \in 1..Len(rest)
    BY <1>1
  <2> QED BY <2>2, <2>3 DEF Steps
<1>7. CASE x.fails = "abort" /\ q = <<r>>
  <2>1. Own(in, ids, <<r>>)
    BY <1>3, OwnSingle
  <2>2. Still(<<r>>)
    BY <1>3, SingleStep DEF Still
  <2> QED BY <1>7, <2>1, <2>2
<1>8. CASE x.fails \in {"ignore", "overlook"} /\ q = rest
  BY <1>2, <1>8 DEF x
<1>9. CASE x.fails = "skip" /\ q = Tail(rest)
  <2>1. rest # <<>>
    BY <1>5, <1>6, <1>9
  <2>2. Own(in, ids, Tail(rest)) /\ (Still(rest) => Still(Tail(rest)))
    BY <1>2, <2>1, OwnTail
  <2> QED BY <1>2, <1>9, <2>2 DEF x
<1>10. CASE x.fails = "withdraw" /\ q = <<w, rest[Len(rest)]>>
  <2>1. PICK y : y = rest[Len(rest)]
    OBVIOUS
  <2>2. y \in Steps(rest)
    BY <1>5, <1>6, <1>10, <2>1
  <2>3. OwnStep(in, ids, y) /\ (Still(rest) => y.call # "commit")
    BY <1>2, <2>2 DEF Own, Still
  <2>4. q = <<w, y>>
    BY <1>10, <2>1
  <2>5. Own(in, ids, <<w, y>>) /\ (y.call # "commit" => Still(<<w, y>>))
    BY <1>4, <1>10, <2>3, OwnPair
  <2>6. Own(in, ids, q) /\ (y.call # "commit" => Still(q))
    BY <2>4, <2>5
  <2> QED BY <1>2, <1>10, <2>3, <2>6 DEF x
<1>11. CASE x.fails = "withdraw_abort" /\ q = <<w, r>>
  <2>1. Own(in, ids, <<w, r>>) /\ Still(<<w, r>>)
    BY <1>3, <1>4, <1>11, OwnPair
  <2> QED BY <1>11, <2>1
<1> QED BY <1>5, <1>7, <1>8, <1>9, <1>10, <1>11

\* A call that fails.
LEMMA VplsFails ==
  ASSUME VplsInv, NEW t \in Task, CallFails(t) PROVE VplsInv'
<1> DEFINE x == This(t)
           p == todo[t]
           rest == Tail(p)
           w == [x EXCEPT !.value = None, !.undo = {}, !.fails = "ignore"]
<1>1. /\ Running(t) /\ p # <<>> /\ x.call # "rollback"
      /\ UNCHANGED <<intent, actual, input, scope, dirty, disturbed>>
  BY DEF CallFails
<1>2. /\ Own(input[t], scope[t], p) /\ Tables /\ WholeStores /\ TaskSound(t)
      /\ input[t] \in VplsInput /\ input[t] # None
  BY <1>1, VplsTask
<1>3. x = p[1] /\ OwnStep(input[t], scope[t], x) /\ 1 \in 1..Len(p)
  <2>1. OwnStep(input[t], scope[t], p[1]) /\ Head(p) = p[1] /\ 1 \in 1..Len(p)
    BY <1>1, <1>2, OwnTail
  <2> QED BY <2>1 DEF This
<1>4. IsStep(x) /\ (Len(p) = 1 => x.fails \notin {"skip", "withdraw"})
  <2>1. Going(t)
    BY <1>1, <1>2, GoingIf
  <2>2. PICK ids : SoundFrom(input[t], ids, p, dirty[t]) /\ EndSound(input[t], ids, p)
    BY <2>1 DEF Going, Follows
  <2>3. Apt(ids, p[1])
    BY <1>3, <2>2 DEF SoundFrom
  <2>4. Len(p) = 1 => LastSound(input[t], ids, p[1])
    BY <1>1, <2>2 DEF EndSound
  <2> QED BY <1>3, <2>3, <2>4 DEF Apt, LastSound
<1>5. /\ todo'[t] = IF x.fails = "abort" THEN <<Rollback(x.undo)>>
                    ELSE IF x.fails \in {"ignore", "overlook"} THEN rest
                    ELSE IF x.fails = "skip" THEN Tail(rest)
                    ELSE IF x.fails = "withdraw" THEN <<w, rest[Len(rest)]>>
                    ELSE <<w, Rollback(x.undo)>>
      /\ x.fails \in {"abort", "ignore", "overlook", "skip", "withdraw", "withdraw_abort"}
  <2>1. DOMAIN todo = Task
    BY <1>2 DEF Tables
  <2> HIDE DEF x, w, rest
  <2>2. \/ x.fails = "abort" /\ todo' = [todo EXCEPT ![t] = <<Rollback(x.undo)>>]
        \/ x.fails \in {"ignore", "overlook"} /\ todo' = [todo EXCEPT ![t] = rest]
        \/ x.fails = "skip" /\ todo' = [todo EXCEPT ![t] = Tail(rest)]
        \/ x.fails = "withdraw" /\ todo' = [todo EXCEPT ![t] = <<w, rest[Len(rest)]>>]
        \/ x.fails = "withdraw_abort" /\ todo' = [todo EXCEPT ![t] = <<w, Rollback(x.undo)>>]
    BY DEF CallFails, x, w, rest, p
  <2> QED BY <2>1, <2>2
<1>6. /\ \A u \in Task \ {t} : /\ todo'[u] = todo[u] /\ result'[u] = result[u]
                               /\ broke'[u] = broke[u]
      /\ result'[t] # "idle"
      /\ broke' = broke \/ broke' = [broke EXCEPT ![t] = Append(@, x)]
      /\ x.fails \in {"overlook", "withdraw"} => broke' = [broke EXCEPT ![t] = Append(@, x)]
  <2> HIDE DEF x, w, rest, p
  <2>1. /\ \E q : todo' = [todo EXCEPT ![t] = q]
        /\ result' = result \/ result' = [result EXCEPT ![t] = "COMPLETED"]
        /\ broke' = broke \/ broke' = [broke EXCEPT ![t] = Append(@, x)]
        /\ x.fails \in {"overlook", "withdraw"} => broke' = [broke EXCEPT ![t] = Append(@, x)]
    BY DEF CallFails, x
  <2>2. \A u \in Task \ {t} : todo'[u] = todo[u]
    BY <2>1
  <2>3. \A u \in Task \ {t} : broke'[u] = broke[u]
    <3>1. DOMAIN broke = Task
      BY <1>2 DEF Tables
    <3>2. PICK q : q = Append(broke[t], x)
      OBVIOUS
    <3>3. broke' = broke \/ broke' = [broke EXCEPT ![t] = q]
      BY <2>1, <3>2
    <3> QED BY <3>1, <3>3
  <2>4. (\A u \in Task \ {t} : result'[u] = result[u]) /\ result'[t] # "idle"
    BY <1>1, <1>2, <2>1 DEF Tables, Running
  <2> QED BY <2>1, <2>2, <2>3, <2>4
<1>7. Append(broke[t], x) # <<>> /\ DOMAIN broke = Task
  <2>1. IsProgram(broke[t]) /\ DOMAIN broke = Task
    BY <1>2 DEF Tables
  <2>2. Len(broke[t]) + 1 \in DOMAIN Append(broke[t], x)
    BY <2>1, AppendFacts
  <2>3. DOMAIN <<>> = {}
    OBVIOUS
  <2>4. ASSUME Append(broke[t], x) = <<>> PROVE FALSE
    BY <2>2, <2>3, <2>4
  <2> QED BY <2>1, <2>4
<1>8. L2Inv' /\ WholeStores'
  BY <1>1, FailInv DEF VplsInv, WholeStores
<1>9. Own(input[t], scope[t], todo'[t])
      /\ (Still(p) \/ x.fails \in {"abort", "withdraw_abort"} => Still(todo'[t]))
  <2>1. PICK q : q = todo'[t]
    OBVIOUS
  <2>2. LET y == p[1]
            v == [y EXCEPT !.value = None, !.undo = {}, !.fails = "ignore"]
        IN \/ y.fails \in {"abort"} /\ q = <<Rollback(y.undo)>>
           \/ y.fails \in {"ignore", "overlook"} /\ q = rest
           \/ y.fails = "skip" /\ q = Tail(rest)
           \/ y.fails = "withdraw" /\ q = <<v, rest[Len(rest)]>>
           \/ y.fails = "withdraw_abort" /\ q = <<v, Rollback(y.undo)>>
    <3> HIDE DEF x
    <3>1. \A v : v = x => x = p[1]
      BY <1>3
    <3> QED BY <1>3, <1>5, <2>1
  <2>3. Own(input[t], scope[t], q)
        /\ (Still(p) \/ p[1].fails \in {"abort", "withdraw_abort"} => Still(q))
    <3> HIDE DEF x
    <3> QED BY <1>1, <1>2, <1>3, <1>4, <2>2, LeftSteps
  <2> QED BY <1>3, <2>1, <2>3
<1> HIDE DEF x, p, rest, w
<1>10. broke[t] # <<>> => broke'[t] # <<>>
  <2>1. CASE broke' = broke
    BY <2>1
  <2>2. CASE broke' = [broke EXCEPT ![t] = Append(@, x)]
    BY <1>7, <2>2
  <2> QED BY <1>6, <2>1, <2>2
<1>11. ASSUME NEW n \in Name, Named(t, n), Meshing(n), Calm(n)' PROVE Moves(t, n)
  <2>1. x.fails \notin {"overlook", "withdraw"}
    <3> SUFFICES ASSUME x.fails \in {"overlook", "withdraw"} PROVE FALSE
      OBVIOUS
    <3>1. broke'[t] # <<>>
      <4>1. broke' = [broke EXCEPT ![t] = Append(@, x)]
        BY <1>6
      <4> QED BY <1>7, <4>1
    <3>2. input'[t] # None /\ input'[t].id = n
      BY <1>1, <1>11 DEF Named
    <3>3. DoesVpls(t, "create")'
      BY <1>11, <3>1, <3>2 DEF Calm
    <3>4. input[t].do = "create"
      BY <1>1, <3>3 DEF DoesVpls
    <3>5. input[t].do \in {"add", "remove"}
      BY <1>3 DEF OwnStep
    <3> QED BY <3>4, <3>5
  <2>2. \A d \in Node : actual'[d][Instance(n)] = actual[d][Instance(n)]
    BY <1>1
  <2>3. CASE Still(todo'[t])
    BY <2>2, <2>3 DEF Moves, Bound
  <2>4. CASE Meant(t) /\ x.fails \in {"ignore", "skip"}
    <3>1. PICK g : LET G == GivenOne(scope[t], g) IN
                   /\ Course(input[t], p, scope[t], g, intent, actual)
                   /\ G \subseteq AskedIds(input[t].id) /\ \A d \in G : Meshed(g[d], G, d)
      BY <2>4 DEF Meant, p
    <3>2. /\ Tame(input[t], p[1])
          /\ x.fails = "skip" => 1 + 1 \in 1..Len(p) /\ Tame(input[t], p[1 + 1])
      BY <1>3, <2>4, <3>1 DEF Course, Paced
    <3>3. Course(input[t], rest, scope[t], g, intent, actual)
      BY <3>1, <3>2, PassesOver DEF rest
    <3>4. x.fails = "skip" => Course(input[t], Tail(rest), scope[t], g, intent, actual)
      <4> SUFFICES ASSUME x.fails = "skip"
                   PROVE  Course(input[t], Tail(rest), scope[t], g, intent, actual)
        OBVIOUS
      <4>1. rest[1] = p[1 + 1]
        <5>1. Len(p) \in Nat /\ \A k \in 1..(Len(p) - 1) : rest[k] = p[k + 1]
          BY <1>1, <1>2, ProgramTail DEF Own, rest
        <5>2. 1 \in 1..(Len(p) - 1)
          BY <3>2, <5>1
        <5> QED BY <5>1, <5>2
      <4>2. Tame(input[t], rest[1])
        BY <3>2, <4>1
      <4> QED BY <3>3, <4>2, PassesOver
    <3>5. Course(input[t], todo'[t], scope[t], g, intent, actual)
      <4>1. CASE x.fails = "ignore"
        <5>1. todo'[t] = rest
          BY <1>5, <4>1
        <5> QED BY <3>3, <5>1
      <4>2. CASE x.fails = "skip"
        <5>1. todo'[t] = Tail(rest)
          BY <1>5, <4>2
        <5> QED BY <3>4, <4>2, <5>1
      <4> QED BY <2>4, <4>1, <4>2
    <3>6. \A m : AskedIds(m)' = AskedIds(m)
      BY <1>1, AskedStay
    <3>7. Meant(t)'
      BY <1>1, <2>4, <3>1, <3>5, <3>6 DEF Meant
    <3> QED BY <2>2, <3>7 DEF Moves, Bound
  <2>5. Still(p) \/ Meant(t)
    BY <1>1, <1>11 DEF Meshing, Bound, p
  <2> QED BY <1>5, <1>9, <2>1, <2>3, <2>4, <2>5
<1>12. Deed(t, x)
  BY <1>1 DEF Deed
<1>13. \A n \in Name : Named(t, n) /\ Meshing(n) /\ Calm(n) /\ Calm(n)' => Moves(t, n)
  BY <1>11
<1> QED BY <1>1, <1>3, <1>6, <1>8, <1>9, <1>10, <1>12, <1>13, VplsMoveInv
-----------------------------------------------------------------------------
(* A task begins *)

\* What is asked for is an end of an input.
LEMMA AskedKnown ==
  ASSUME Premises, OnlyVpls, NEW n PROVE AskedIds(n) \subseteq Devices
<1> SUFFICES ASSUME NEW e \in EndsAsked(n) PROVE e.id \in Devices
  BY DEF AskedIds
<1>1. PICK t \in Task : /\ DoesVpls(t, "create") \/ DoesVpls(t, "add")
                        /\ e \in Range(input[t].devices)
  BY DEF EndsAsked
<1>2. input[t] \in VplsInput
  BY <1>1 DEF DoesVpls, IsVpls, OnlyVpls
<1>3. e \in AllEnds
  BY <1>1, <1>2 DEF AllEnds
<1> QED BY <1>3 DEF Devices

\* What a task that begins does to the tables.
Takes(t, in, p, area) ==
  /\ input[t] = None /\ ~Running(t) /\ in # None /\ IsVpls(t)'
  /\ input'[t] = in /\ todo'[t] = p /\ result'[t] = "running" /\ scope'[t] = area
  /\ \A u \in Task \ {t} : /\ input'[u] = input[u] /\ todo'[u] = todo[u]
                           /\ result'[u] = result[u] /\ scope'[u] = scope[u]
  /\ intent' = intent /\ actual' = actual /\ dirty' = dirty /\ broke' = broke
  /\ dirty[t] = {} /\ disturbed \subseteq disturbed'
  /\ \A v \in Task \ {t} : t \notin disturbed' \/ v \notin disturbed' =>
       (Running(v) => scope[v] \cap area = {}) /\ dirty[v] \cap area = {}

\* Begin does that.
LEMMA BeginTakes ==
  ASSUME VplsInv, NEW t \in Task, MayBegin(t), NEW in \in VplsInput, NEW p, NEW area,
         Begin(t, in, p, area)
  PROVE  Takes(t, in, p, area)
<1>1. result[t] = "idle" /\ input[t] = None
  BY DEF MayBegin, VplsInv
<1>2. Tables /\ dirty[t] = {}
  BY <1>1 DEF VplsInv, L2Inv, TaskSound
<1>3. /\ input' = [input EXCEPT ![t] = in] /\ todo' = [todo EXCEPT ![t] = p]
      /\ result' = [result EXCEPT ![t] = "running"] /\ scope' = [scope EXCEPT ![t] = area]
      /\ UNCHANGED <<intent, actual, broke, dirty>>
      /\ LET met == {u \in Task \ {t} : \/ Running(u) /\ scope[u] \cap area # {}
                                        \/ dirty[u] \cap area # {}}
         IN disturbed' = disturbed \cup met \cup (IF met = {} THEN {} ELSE {t})
  BY DEF Begin
<1>4. /\ input'[t] = in /\ todo'[t] = p /\ result'[t] = "running" /\ scope'[t] = area
      /\ \A u \in Task \ {t} : /\ input'[u] = input[u] /\ todo'[u] = todo[u]
                               /\ result'[u] = result[u] /\ scope'[u] = scope[u]
  BY <1>2, <1>3 DEF Tables
<1>5. in # None /\ in.service = "VPLS"
  BY VplsInputAssumption
<1>6. ASSUME NEW v \in Task \ {t}, t \notin disturbed' \/ v \notin disturbed'
      PROVE  (Running(v) => scope[v] \cap area = {}) /\ dirty[v] \cap area = {}
  <2> DEFINE met == {u \in Task \ {t} : \/ Running(u) /\ scope[u] \cap area # {}
                                        \/ dirty[u] \cap area # {}}
  <2>1. disturbed' = disturbed \cup met \cup (IF met = {} THEN {} ELSE {t})
    BY <1>3
  <2>2. v \notin met
    <3> HIDE DEF met
    <3> QED BY <1>6, <2>1
  <2> QED BY <2>2
<1>7. ~Running(t) /\ IsVpls(t)'
  BY <1>1, <1>4, <1>5 DEF Running, IsVpls
<1>8. disturbed \subseteq disturbed'
  BY <1>3
<1> QED BY <1>1, <1>2, <1>3, <1>4, <1>5, <1>6, <1>7, <1>8 DEF Takes

\* More is asked for once a task has begun, and the other tasks are as before.
LEMMA TakesAsked ==
  ASSUME NEW t \in Task, NEW in, NEW p, NEW area, Takes(t, in, p, area), NEW n
  PROVE  /\ \A u : \A do : u \in Task /\ DoesVpls(u, do) => u # t /\ DoesVpls(u, do)'
         /\ \A u \in Task \ {t} : Named(u, n)' <=> Named(u, n)
         /\ \A u \in Task \ {t} : Running(u)' <=> Running(u)
         /\ AskedIds(n) \subseteq AskedIds(n)'
         /\ Calm(n)' => Calm(n)
<1>1. \A u : \A do : u \in Task /\ DoesVpls(u, do) =>
        /\ u # t /\ DoesVpls(u, do)' /\ input'[u] = input[u]
  BY DEF DoesVpls, IsVpls, Takes
<1>2. \A u \in Task \ {t} : Named(u, n)' <=> Named(u, n)
  BY DEF Named, Takes
<1>3. \A u \in Task \ {t} : Running(u)' <=> Running(u)
  BY DEF Running, Takes
<1>4. ASSUME NEW e \in EndsAsked(n) PROVE e \in EndsAsked(n)'
  <2>1. PICK u \in Task : /\ DoesVpls(u, "create") \/ DoesVpls(u, "add")
                          /\ input[u].id = n /\ e \in Range(input[u].devices)
    BY <1>4 DEF EndsAsked
  <2>2. /\ DoesVpls(u, "create")' \/ DoesVpls(u, "add")'
        /\ input'[u].id = n /\ e \in Range(input'[u].devices)
    BY <1>1, <2>1
  <2> QED BY <2>2 DEF EndsAsked
<1>5. AskedIds(n) \subseteq AskedIds(n)'
  BY <1>4 DEF AskedIds
<1>6. ASSUME Calm(n)' PROVE Calm(n)
  <2>1. ASSUME NEW u \in Task, input[u] # None, input[u].id = n
        PROVE  u \notin disturbed /\ (broke[u] # <<>> => DoesVpls(u, "create"))
    <3>1. u # t /\ input'[u] = input[u] /\ broke'[u] = broke[u] /\ disturbed \subseteq disturbed'
          /\ scope'[u] = scope[u]
      BY <2>1 DEF Takes
    <3>2. u \notin disturbed' /\ (broke'[u] # <<>> => DoesVpls(u, "create")')
      BY <1>6, <2>1, <3>1 DEF Calm
    <3>3. DoesVpls(u, "create")' <=> DoesVpls(u, "create")
      BY <3>1 DEF DoesVpls, IsVpls
    <3> QED BY <3>1, <3>2, <3>3
  <2>2. ASSUME NEW u \in Task, NEW v \in Task, DoesVpls(u, "create"), DoesVpls(v, "create"),
               input[u].id = n, input[v].id = n
        PROVE  u = v
    BY <1>1, <1>6, <2>2 DEF Calm
  <2> QED BY <2>1, <2>2 DEF Calm
<1> QED BY <1>1, <1>2, <1>3, <1>5, <1>6

\* A service is a mesh when a task begins, and the tasks of it are bound.
LEMMA TakesMeshing ==
  ASSUME VplsInv, Premises, NEW t \in Task, NEW in \in VplsInput, NEW p, NEW area, NEW g,
         BeginsVpls(t, in, p, area, g), Takes(t, in, p, area), NEW n \in Name, Calm(n)'
  PROVE  Meshing(n)'
<1>1. /\ \A u : \A do : u \in Task /\ DoesVpls(u, do) => u # t /\ DoesVpls(u, do)'
      /\ \A u \in Task \ {t} : Named(u, n)' <=> Named(u, n)
      /\ \A u \in Task \ {t} : Running(u)' <=> Running(u)
      /\ AskedIds(n) \subseteq AskedIds(n)' /\ Calm(n)
  BY TakesAsked
<1>2. /\ Apart(n) /\ Net(n) /\ \A u \in Task : Running(u) /\ Named(u, n) => Bound(u)
      /\ OnlyVpls /\ Accountable
  BY <1>1 DEF VplsInv, Meshing, L2Inv
<1>3. ASSUME NEW v \in Task \ {t}, Named(t, n)' \/ Named(v, n)
      PROVE  (Running(v) => scope[v] \cap area = {}) /\ dirty[v] \cap area = {}
  <2>1. Named(v, n)' <=> Named(v, n)
    BY <1>1
  <2>2. \A u \in Task : Named(u, n)' => u \notin disturbed'
    BY DEF Calm, Named
  <2>3. t \notin disturbed' \/ v \notin disturbed'
    BY <1>3, <2>1, <2>2
  <2> QED BY <2>3 DEF Takes
<1>4. /\ input'[t] = in /\ todo'[t] = p /\ result'[t] = "running" /\ scope'[t] = area
      /\ \A u \in Task \ {t} : /\ input'[u] = input[u] /\ todo'[u] = todo[u]
                               /\ result'[u] = result[u] /\ scope'[u] = scope[u]
      /\ intent' = intent /\ actual' = actual /\ dirty' = dirty /\ dirty[t] = {}
      /\ ~Running(t) /\ input[t] = None /\ IsVpls(t)'
  BY DEF Takes
<1>5. Apart(n)'
  <2> SUFFICES ASSUME NEW v \in Task, Named(v, n)', NEW u \in Task \ {v}
               PROVE  /\ Running(v)' /\ Running(u)' => scope'[v] \cap scope'[u] = {}
                      /\ Running(v)' => dirty'[u] \cap scope'[v] = {}
                      /\ Running(u)' => dirty'[v] \cap scope'[u] = {}
    BY DEF Apart
  <2>1. CASE v = t
    <3>1. (Running(u) => scope[u] \cap area = {}) /\ dirty[u] \cap area = {}
      BY <1>3, <2>1
    <3> QED BY <1>1, <1>4, <2>1, <3>1
  <2>2. CASE u = t
    <3>1. Named(v, n)
      BY <1>1, <2>2
    <3>2. (Running(v) => scope[v] \cap area = {}) /\ dirty[v] \cap area = {}
      BY <1>3, <2>2, <3>1
    <3> QED BY <1>1, <1>4, <2>2, <3>2
  <2>3. CASE v # t /\ u # t
    <3>1. Named(v, n)
      BY <1>1, <2>3
    <3>2. /\ Running(v) /\ Running(u) => scope[v] \cap scope[u] = {}
          /\ Running(v) => dirty[u] \cap scope[v] = {}
          /\ Running(u) => dirty[v] \cap scope[u] = {}
      BY <1>2, <3>1 DEF Apart
    <3> QED BY <1>1, <1>4, <2>3, <3>2
  <2> QED BY <2>1, <2>2, <2>3
<1>6. Net(n)'
  <2>1. MeshOf(actual', n) /\ Members(actual', n) = Members(actual, n)
        /\ Members(actual', n) \subseteq AskedIds(n)'
    BY <1>1, <1>2, <1>4 DEF Net
  <2>2. ASSUME Members(actual', n) # {}
        PROVE  \E u \in Task : ~Running(u)' /\ DoesVpls(u, "create")' /\ input'[u].id = n
    <3>1. PICK u \in Task : ~Running(u) /\ DoesVpls(u, "create") /\ input[u].id = n
      BY <1>2, <2>1, <2>2 DEF Net
    <3>2. u # t /\ DoesVpls(u, "create")'
      BY <1>1, <3>1
    <3>3. ~Running(u)' /\ input'[u].id = n
      BY <1>1, <1>4, <3>1, <3>2
    <3> QED BY <3>2, <3>3
  <2> QED BY <2>1, <2>2 DEF Net
<1>7. ASSUME NEW u \in Task, u # t, Running(u)', Named(u, n)' PROVE Bound(u)'
  <2>1. Running(u) /\ Named(u, n) /\ Bound(u) /\ input[u].id = n
    BY <1>1, <1>2, <1>7 DEF Named
  <2>2. CASE Still(todo[u])
    BY <1>4, <1>7, <2>2 DEF Bound
  <2>3. CASE Meant(u)
    <3>1. input'[u] = input[u] /\ scope'[u] = scope[u] /\ todo'[u] = todo[u]
      BY <1>4, <1>7
    <3>2. PICK h : LET G == GivenOne(scope[u], h) IN
                   /\ Course(input[u], todo[u], scope[u], h, intent, actual)
                   /\ G \subseteq AskedIds(n) /\ \A d \in G : Meshed(h[d], G, d)
      BY <2>1, <2>3 DEF Meant
    <3>3. GivenOne(scope[u], h) \subseteq AskedIds(n)'
      BY <1>1, <3>2
    <3>4. Meant(u)'
      BY <1>4, <2>1, <2>3, <3>1, <3>2, <3>3 DEF Meant
    <3> QED BY <3>4 DEF Bound
  <2> QED BY <2>1, <2>2, <2>3 DEF Bound
<1>8. ASSUME Named(t, n)' PROVE Bound(t)'
  <2>1. in.id = n
    BY <1>4, <1>8 DEF Named
  <2>2. CASE Still(p)
    BY <1>4, <2>2 DEF Bound
  <2>3. CASE ~Still(p)
    <3>1. ASSUME NEW d \in area \cap Node PROVE intent[d] = actual[d]
      <4>1. \A u \in Task : d \notin dirty[u]
        BY <1>3, <1>4, <1>8
      <4> QED BY <1>2, <4>1 DEF Accountable, Pending
    <3>2. Course(in, p, area, g, intent, actual)
      BY <2>3, <3>1 DEF BeginsVpls, Brings
    <3>3. Members(actual, n) \subseteq Devices
      BY <1>2, AskedKnown DEF Net
    <3>4. Aims(in, area, g)
      BY <1>2, <2>1, <2>3, <3>3 DEF BeginsVpls, Net
    <3> DEFINE G == GivenOne(area, g)
               M == Members(actual, n)
    <3>5. /\ area # {} /\ \A d \in G : Meshed(g[d], G, d)
          /\ \A d \in G : d \in M \/ (in.do \in {"create", "add"} /\ d \in VplsIds(in.devices))
          /\ in.do = "create" \/ (M # {} /\ M \subseteq area)
      BY <2>1, <3>4 DEF Aims
    <3> HIDE DEF G, M
    <3>6. ASSUME NEW d \in G PROVE d \in AskedIds(n)'
      <4>1. CASE d \in M
        BY <1>1, <1>2, <4>1 DEF Net, M
      <4>2. CASE in.do \in {"create", "add"} /\ d \in VplsIds(in.devices)
        <5>1. PICK e \in Range(in.devices) : e.id = d
          <6>1. in.devices \in Seq(Range(in.devices))
            BY VplsInputAssumption
          <6> QED BY <4>2, <6>1, DevicesOfEnds
        <5>2. DoesVpls(t, "create")' \/ DoesVpls(t, "add")'
          BY <1>4, <3>5, <4>2 DEF DoesVpls
        <5>3. e \in EndsAsked(n)'
          BY <1>4, <2>1, <5>1, <5>2 DEF EndsAsked
        <5> QED BY <5>1, <5>3 DEF AskedIds
      <4> QED BY <3>5, <4>1, <4>2
    <3>7. Meant(t)'
      <4>1. /\ Course(in, p, area, g, intent, actual) /\ G \subseteq AskedIds(n)'
            /\ \A d \in G : Meshed(g[d], G, d)
        BY <3>2, <3>5, <3>6
      <4> QED BY <1>4, <2>1, <3>5, <4>1 DEF Meant, G, M
    <3> QED BY <3>7 DEF Bound
  <2> QED BY <2>2, <2>3
<1> QED BY <1>5, <1>6, <1>7, <1>8 DEF Meshing

\* A task begins.
LEMMA VplsBeginsInv ==
  ASSUME VplsInv, Premises, NEW t \in Task, VplsStart(t) PROVE VplsInv'
<1>1. MayBegin(t) /\ \E in \in VplsInput : \E p, area, g : BeginsVpls(t, in, p, area, g)
  BY VplsBeginsWith
<1>2. PICK in \in VplsInput : \E p, area, g : BeginsVpls(t, in, p, area, g)
  BY <1>1
<1>3. PICK p, area, g : BeginsVpls(t, in, p, area, g)
  BY <1>2
<1>4. Takes(t, in, p, area)
  BY <1>1, <1>3, BeginTakes DEF BeginsVpls
<1>5. L2Inv'
  <2>1. VllStart(t) \/ VplsStart(t) \/ BiStart(t)
    OBVIOUS
  <2> QED BY <2>1, AnyBegins, StartInv DEF VplsInv
<1>6. /\ input'[t] = in /\ todo'[t] = p /\ result'[t] = "running" /\ scope'[t] = area
      /\ \A u \in Task \ {t} : /\ input'[u] = input[u] /\ todo'[u] = todo[u]
                               /\ result'[u] = result[u] /\ scope'[u] = scope[u]
      /\ intent' = intent /\ actual' = actual /\ dirty' = dirty /\ input[t] = None
  BY <1>4 DEF Takes
<1>7. OnlyVpls' /\ WholeStores' /\ \A u \in Task : result'[u] = "idle" => input'[u] = None
  <2>1. DOMAIN input' = Task
    BY <1>3 DEF VplsInv, OnlyVpls, BeginsVpls, Begin
  <2>2. OnlyVpls'
    BY <1>6, <2>1 DEF VplsInv, OnlyVpls
  <2>3. WholeStores'
    BY <1>6 DEF VplsInv, WholeStores
  <2>4. \A u \in Task : result'[u] = "idle" => input'[u] = None
    BY <1>6 DEF VplsInv
  <2> QED BY <2>2, <2>3, <2>4
<1>8. ASSUME NEW u \in Task, Running(u)' PROVE Own(input'[u], scope'[u], todo'[u])
  <2>1. CASE u = t
    BY <1>3, <1>6, <2>1 DEF BeginsVpls, Brings
  <2>2. CASE u # t
    BY <1>6, <1>8, <2>2 DEF VplsInv, Running
  <2> QED BY <2>1, <2>2
<1>9. ASSUME NEW n \in Name PROVE Clean(n)' /\ (Calm(n)' => Meshing(n)')
  <2>1. Clean(n)
    BY DEF VplsInv
  <2>2. \A u \in Task : Named(u, n) => Named(u, n)'
    BY <1>6 DEF Named
  <2>3. Clean(n)'
    BY <1>6, <2>1, <2>2 DEF Clean
  <2> QED BY <1>3, <1>4, <2>3, TakesMeshing
<1> QED BY <1>5, <1>7, <1>8, <1>9 DEF VplsInv
-----------------------------------------------------------------------------
(* VPLS tasks leave a full mesh *)

\* The invariant holds at first.
LEMMA InitVplsInv == Fresh /\ Init => VplsInv
<1> SUFFICES ASSUME Fresh, Init PROVE VplsInv
  OBVIOUS
<1>1. L2Inv /\ OnlyVpls /\ \A t \in Task : ~Running(t) /\ input[t] = None
  BY InitL2Inv DEF Init, OnlyVpls, Running
<1>2. WholeStores
  BY InitialAssumption DEF Init, WholeStores
<1>3. ASSUME NEW n \in Name PROVE Clean(n) /\ Meshing(n)
  <2>1. Clean(n)
    BY DEF Init, Clean
  <2>2. Members(actual, n) = {}
    BY DEF Fresh, Init
  <2>3. Net(n)
    BY <2>2 DEF Net, MeshOf
  <2>4. Apart(n) /\ \A t \in Task : ~Named(t, n)
    BY <1>1 DEF Apart, Named
  <2> QED BY <2>1, <2>3, <2>4 DEF Meshing
<1> QED BY <1>1, <1>2, <1>3 DEF VplsInv

\* Every step of VPLS tasks keeps the invariant.
LEMMA NextVplsInv == Premises /\ VplsInv /\ [VplsNext]_vars => VplsInv'
<1> SUFFICES ASSUME Premises, VplsInv, [VplsNext]_vars PROVE VplsInv'
  OBVIOUS
<1>1. ASSUME NEW t \in Task, VplsStart(t) \/ Advance(t) \/ WorkerDies(t) PROVE VplsInv'
  BY <1>1, VplsBeginsInv, VplsSucceeds, VplsFails, VplsRolls, VplsDies DEF Advance
<1>2. CASE UNCHANGED vars
  <2>1. UNCHANGED <<intent, actual, input, todo, result, broke, scope, dirty, disturbed>>
    BY <1>2 DEF vars
  <2>2. L2Inv'
    BY <1>2, NextL2Inv DEF VplsInv
  <2>3. OnlyVpls' /\ WholeStores'
    BY <2>1 DEF VplsInv, OnlyVpls, WholeStores
  <2>4. \A t : Running(t)' <=> Running(t)
    BY <2>1 DEF Running
  <2>5. \A n : AskedIds(n)' = AskedIds(n)
    BY <2>1, AskedStay
  <2>6. \A n, t : (Named(t, n)' <=> Named(t, n)) /\ \A do : DoesVpls(t, do)' <=> DoesVpls(t, do)
    BY <2>1, AskedStay
  <2>7. ASSUME NEW n \in Name PROVE Clean(n)' /\ (Calm(n)' => Meshing(n)')
    <3>1. Clean(n) /\ (Calm(n) => Meshing(n))
      BY DEF VplsInv
    <3>2. Clean(n)'
      BY <2>1, <2>6, <3>1 DEF Clean
    <3>3. Calm(n)' => Calm(n)
      BY <2>1, <2>6 DEF Calm
    <3>4. Apart(n) => Apart(n)'
      BY <2>1, <2>4, <2>6 DEF Apart
    <3>5. Net(n) => Net(n)'
      BY <2>1, <2>4, <2>5, <2>6 DEF Net
    <3>6. \A t : Bound(t) => Bound(t)'
      <4> SUFFICES ASSUME NEW t, Bound(t) PROVE Bound(t)'
        OBVIOUS
      <4>1. Members(actual', input[t].id) = Members(actual, input[t].id)
        BY <2>1
      <4> QED BY <2>1, <4>1, BoundKept
    <3> QED BY <2>4, <2>6, <3>1, <3>2, <3>3, <3>4, <3>5, <3>6 DEF Meshing
  <2> QED BY <2>1, <2>2, <2>3, <2>4, <2>7 DEF VplsInv
<1> QED BY <1>1, <1>2 DEF VplsNext

\* The addresses asked for devices of a service are theirs.
LEMMA AskedAddresses ==
  ASSUME Premises, OnlyVpls, NEW n, NEW ids, ids \subseteq AskedIds(n)
  PROVE  AddressesOf(n, ids) = {Address(m) : m \in ids}
<1>1. ASSUME NEW e \in EndsAsked(n) PROVE e.remote_ip = Address(e.id)
  <2>1. PICK t \in Task : /\ DoesVpls(t, "create") \/ DoesVpls(t, "add")
                          /\ e \in Range(input[t].devices)
    BY <1>1 DEF EndsAsked
  <2>2. input[t] \in VplsInput
    BY <2>1 DEF DoesVpls, IsVpls, OnlyVpls
  <2>3. e \in AllEnds
    BY <2>1, <2>2 DEF AllEnds
  <2> QED BY <2>3 DEF Premises, AddressOf
<1>2. \A m \in ids : \E e \in EndsAsked(n) : e.id = m
  BY DEF AskedIds
<1> QED BY <1>1, <1>2 DEF AddressesOf

\* The invariant has what the property asks for.
LEMMA InvVplsFullMesh == Premises /\ VplsInv => VplsFullMesh
<1> SUFFICES ASSUME Premises, VplsInv, NEW n \in Name, Calm(n), NEW d \in Members(actual, n)
             PROVE  {p.system : p \in Range(PointsOf(actual[d][Instance(n)], "REMOTE"))}
                      = AddressesOf(n, Members(actual, n) \ {d})
  BY DEF VplsFullMesh
<1> DEFINE M == Members(actual, n)
<1>1. Net(n) /\ OnlyVpls
  BY DEF VplsInv, Meshing
<1>2. Systems(actual[d][Instance(n)]) = {Address(m) : m \in M \ {d}}
  BY <1>1 DEF Net, MeshOf, Meshed
<1>3. M \subseteq AskedIds(n)
  BY <1>1 DEF Net
<1> HIDE DEF M
<1>4. AddressesOf(n, M \ {d}) = {Address(m) : m \in M \ {d}}
  BY <1>1, <1>3, AskedAddresses
<1> QED BY <1>2, <1>4 DEF Systems, M

\* VPLS tasks, whichever of their calls fail and whenever their worker dies,
\* leave the network a full mesh of every service that is calm: each of its
\* devices knows the addresses of all the others and no other.
THEOREM SpecVplsFullMesh ==
  Fresh /\ AddressesAgree /\ NoneIsApart /\ IsInjective(NodeOrder) /\ VplsSpec => []VplsFullMesh
<1> DEFINE Terms == Fresh /\ AddressesAgree /\ NoneIsApart /\ IsInjective(NodeOrder)
<1>1. Terms => Premises
  BY AddressFacts DEF Premises
<1>2. Terms /\ Init => VplsInv
  BY InitVplsInv
<1>3. Terms /\ VplsInv /\ [VplsNext]_vars => VplsInv'
  BY <1>1, NextVplsInv
<1>4. Terms /\ VplsInv => VplsFullMesh
  BY <1>1, InvVplsFullMesh
<1>5. Terms => Terms'
  BY DEF Fresh, AddressesAgree, NoneIsApart
<1> HIDE DEF Terms
<1>6. Terms /\ VplsSpec => []VplsFullMesh
  BY <1>2, <1>3, <1>4, <1>5, PTL DEF VplsSpec
<1> QED BY <1>6 DEF Terms
-----------------------------------------------------------------------------
(* The ends of a service that is read, mesh or not *)

\* The interfaces and VLANs of ends that have a device.
Triples(ends) == {<<e.id, e.interface, e.vlan>> : e \in {x \in ends : x.id # Unknown}}
Wellformed(s) ==
  \A e \in s.devices : e = VplsEnd(e.id, e.interface, e.vlan, e.remote_ip)

\* Looking for the addresses of ends changes nothing else of them.
LEMMA TriplesMerged ==
  ASSUME NEW s, NEW other, Wellformed(s)
  PROVE  /\ Triples(EndsMerged(s, other)) = Triples(s.devices)
         /\ \A e \in EndsMerged(s, other) : e = VplsEnd(e.id, e.interface, e.vlan, e.remote_ip)
<1> DEFINE theirs == other.remotes \ s.remotes
           ours == s.remotes \ other.remotes
           chosen == CHOOSE ip \in theirs : TRUE
           new(e) == [e EXCEPT !.remote_ip = chosen]
           U == Unaddressed(s)
           addressed == IF Cardinality(theirs) = 1 /\ OneId(s) THEN {new(e) : e \in U} ELSE U
           resolved == IF Cardinality(ours) = 1 /\ OneId(other)
                       THEN {Addressed(ip) : ip \in ours} ELSE {}
           E == EndsMerged(s, other)
<1>1. E = (s.devices \ (U \cup resolved)) \cup addressed
  BY DEF EndsMerged
<1> HIDE DEF chosen
<1>2. U \subseteq s.devices
  BY DEF Unaddressed
<1>3. \A e \in resolved : e.id = Unknown
  BY DEF Addressed, VplsEnd
<1>4. \A e \in U : /\ new(e).id = e.id /\ new(e).interface = e.interface
                   /\ new(e).vlan = e.vlan
                   /\ new(e) = VplsEnd(new(e).id, new(e).interface, new(e).vlan, new(e).remote_ip)
  <2> SUFFICES ASSUME NEW e \in U
               PROVE  /\ new(e).id = e.id /\ new(e).interface = e.interface
                      /\ new(e).vlan = e.vlan
                      /\ new(e) = VplsEnd(new(e).id, new(e).interface, new(e).vlan,
                                          new(e).remote_ip)
    OBVIOUS
  <2>1. e = VplsEnd(e.id, e.interface, e.vlan, e.remote_ip)
    BY <1>2 DEF Wellformed
  <2>2. \A i, j, v, a, b : [VplsEnd(i, j, v, a) EXCEPT !.remote_ip = b] = VplsEnd(i, j, v, b)
    BY DEF VplsEnd
  <2>3. new(e) = VplsEnd(e.id, e.interface, e.vlan, chosen)
    <3>1. new(e) = [VplsEnd(e.id, e.interface, e.vlan, e.remote_ip) EXCEPT !.remote_ip = chosen]
      BY <2>1, Zenon
    <3> HIDE DEF new
    <3> QED BY <2>2, <3>1
  <2> HIDE DEF new
  <2> QED BY <2>3 DEF VplsEnd
<1> HIDE DEF new, U, theirs
<1>5. \A e \in addressed : \E x \in U : /\ e.id = x.id /\ e.interface = x.interface
                                        /\ e.vlan = x.vlan
                                        /\ e = VplsEnd(e.id, e.interface, e.vlan, e.remote_ip)
  BY <1>2, <1>4 DEF Wellformed
<1>6. \A x \in U : \E e \in addressed : /\ e.id = x.id /\ e.interface = x.interface
                                        /\ e.vlan = x.vlan
  BY <1>4
<1> HIDE DEF addressed, resolved, E
<1>7. \A e \in E : e = VplsEnd(e.id, e.interface, e.vlan, e.remote_ip)
  BY <1>1, <1>5 DEF Wellformed
<1>8. ASSUME NEW p PROVE p \in Triples(E) <=> p \in Triples(s.devices)
  <2>1. ASSUME p \in Triples(E) PROVE p \in Triples(s.devices)
    <3>1. PICK e \in E : e.id # Unknown /\ p = <<e.id, e.interface, e.vlan>>
      BY <2>1 DEF Triples
    <3> QED BY <1>1, <1>2, <1>5, <3>1 DEF Triples
  <2>2. ASSUME p \in Triples(s.devices) PROVE p \in Triples(E)
    <3>1. PICK e \in s.devices : e.id # Unknown /\ p = <<e.id, e.interface, e.vlan>>
      BY <2>2 DEF Triples
    <3>2. \E x \in E : x.id = e.id /\ x.interface = e.interface /\ x.vlan = e.vlan
      BY <1>1, <1>3, <1>6, <3>1
    <3> QED BY <3>1, <3>2 DEF Triples
  <2> QED BY <2>1, <2>2
<1>9. Triples(E) = Triples(s.devices)
  BY <1>8
<1> QED BY <1>7, <1>9 DEF E

\* Two services have the ends of both when they are merged.
LEMMA MergeKeepsEnds ==
  ASSUME NEW s, IsService(s), Wellformed(s), NEW other, Wellformed(other)
  PROVE  LET u == VplsMerge(s, other) IN
         /\ IsService(u) /\ Wellformed(u) /\ u.id = s.id
         /\ Triples(u.devices) = Triples(s.devices) \cup Triples(other.devices)
<1> DEFINE u == VplsMerge(s, other)
           ends == EndsMerged(s, other) \cup EndsMerged(other, s)
           placed == {e.remote_ip : e \in {x \in ends : x.id # Unknown}} \ {Unknown}
<1>1. /\ IsService(u) /\ u.id = s.id
      /\ u.devices = {e \in ends : e.id = Unknown => e.remote_ip \notin placed}
  BY MergedService DEF KeptEnds
<1>2. /\ Triples(EndsMerged(s, other)) = Triples(s.devices)
      /\ Triples(EndsMerged(other, s)) = Triples(other.devices)
      /\ \A e \in ends : e = VplsEnd(e.id, e.interface, e.vlan, e.remote_ip)
  BY TriplesMerged
<1>3. Triples(ends) = Triples(EndsMerged(s, other)) \cup Triples(EndsMerged(other, s))
  BY DEF Triples
<1> HIDE DEF u, ends, placed
<1>4. Triples(u.devices) = Triples(ends)
  BY <1>1 DEF Triples
<1>5. Wellformed(u)
  BY <1>1, <1>2 DEF Wellformed
<1> QED BY <1>1, <1>2, <1>3, <1>4, <1>5 DEF u

\* The ends that a device has in an instance.
OwnEnds(d, ni) == {<<d, p.interface, p.subinterface>> : p \in Locals(ni)}

\* What a device tells has its own ends.
LEMMA ParseEnds ==
  ASSUME NEW d, d # Unknown, NEW conf, NEW n
  PROVE  LET s == VplsParse(d, conf, n) IN
         /\ IsService(s) /\ Wellformed(s) /\ s.id = n
         /\ Triples(s.devices) = OwnEnds(d, conf[Instance(n)])
<1> DEFINE s == VplsParse(d, conf, n)
           L == Locals(conf[Instance(n)])
           R == {p.system : p \in Range(PointsOf(conf[Instance(n)], "REMOTE"))}
           mine == {VplsEnd(d, p.interface, p.subinterface, Unknown) : p \in L}
<1>1. IsService(s) /\ s.id = n /\ s.devices = mine \cup {Addressed(ip) : ip \in R}
  BY DEF VplsParse, IsService, Locals
<1> HIDE DEF s, L, R
<1>2. Wellformed(s)
  BY <1>1 DEF Wellformed, VplsEnd, Addressed
<1>3. \A e \in s.devices : e.id # Unknown <=> e \in mine
  BY <1>1 DEF VplsEnd, Addressed
<1>4. Triples(s.devices) = {<<d, p.interface, p.subinterface>> : p \in L}
  <2>1. Triples(s.devices) = {<<e.id, e.interface, e.vlan>> : e \in mine}
    BY <1>1, <1>3 DEF Triples
  <2>2. {<<e.id, e.interface, e.vlan>> : e \in mine} = {<<d, p.interface, p.subinterface>> : p \in L}
    <3> DEFINE end(p) == VplsEnd(d, p.interface, p.subinterface, Unknown)
    <3>1. \A p \in L : /\ end(p).id = d /\ end(p).interface = p.interface
                       /\ end(p).vlan = p.subinterface
      BY DEF VplsEnd
    <3> HIDE DEF end
    <3>2. mine = {end(p) : p \in L}
      BY DEF end
    <3> HIDE DEF mine
    <3> QED BY <3>1, <3>2
  <2> QED BY <2>1, <2>2
<1> QED BY <1>1, <1>2, <1>4 DEF s, L, OwnEnds

\* A service that is read under a name has the ends that its devices hold.
LEMMA ReadEnds ==
  ASSUME IsInjective(NodeOrder), NEW store, NEW names, NEW n,
         NEW s, s \in VplsReadAll(store, NodeOrder, names), s.id = n
  PROVE  /\ Wellformed(s) /\ Triples(s.devices) = EndsHeld(store, n)
         /\ Members(store, n) # {} /\ n \in names
<1>1. PICK m \in names : Held(store, m) # <<>>
                         /\ s = MergeParts(Head(PartsRead(store, m)), Tail(PartsRead(store, m)))
  BY ReadAllIs
<1> DEFINE q == PartsRead(store, m)
           own == Held(store, m)
           M == Members(store, m)
           N == Len(q)
           has == [k \in 1..N |-> OwnEnds(own[k], store[own[k]][Instance(m)])]
<1>2. /\ IsProgram(q) /\ q # <<>> /\ N \in Nat \ {0} /\ own \in [1..N -> M]
      /\ \A k \in 1..N : q[k] = VplsParse(own[k], store[own[k]], m)
      /\ \A d \in M : \E k \in 1..N : own[k] = d
  BY <1>1, PartsReadFacts
<1>3. PICK f : /\ s = f[N] /\ f[1] = q[1]
               /\ \A k \in 2..N : f[k] = VplsMerge(f[k - 1], q[k])
  BY <1>1, <1>2, PartsMerged
<1>4. \A k \in 1..N : own[k] \in M /\ own[k] # Unknown
  BY <1>2, NodeAssumption DEF Members
<1> HIDE DEF q, own, M, N
<1>5. ASSUME NEW k \in 1..N
      PROVE  /\ IsService(q[k]) /\ Wellformed(q[k]) /\ q[k].id = m
             /\ Triples(q[k].devices) = has[k]
  <2>1. LET u == VplsParse(own[k], store[own[k]], m) IN
        /\ IsService(u) /\ Wellformed(u) /\ u.id = m
        /\ Triples(u.devices) = OwnEnds(own[k], store[own[k]][Instance(m)])
    BY <1>4, ParseEnds
  <2>2. q[k] = VplsParse(own[k], store[own[k]], m)
    BY <1>2
  <2> QED BY <2>1, <2>2 DEF has
<1> DEFINE G == {k \in 0..N : k = 0 \/ (/\ IsService(f[k]) /\ Wellformed(f[k]) /\ f[k].id = m
                                      /\ Triples(f[k].devices) = UNION {has[j] : j \in 1..k})}
<1> HIDE DEF has
<1>6. ASSUME NEW k \in 1..N, k - 1 \in G PROVE k \in G
  <2>1. CASE k = 1
    <3>1. UNION {has[j] : j \in 1..1} = has[1]
      OBVIOUS
    <3>2. f[k] = q[k]
      BY <1>3, <2>1
    <3> QED BY <1>5, <2>1, <3>1, <3>2
  <2>2. CASE k # 1
    <3>1. k \in 2..N /\ k - 1 # 0
      BY <1>2, <2>2
    <3>2. /\ IsService(f[k - 1]) /\ Wellformed(f[k - 1]) /\ f[k - 1].id = m
          /\ Triples(f[k - 1].devices) = UNION {has[j] : j \in 1..(k - 1)}
      BY <1>6, <3>1
    <3>3. f[k] = VplsMerge(f[k - 1], q[k])
      BY <1>3, <3>1
    <3>4. /\ IsService(f[k]) /\ Wellformed(f[k]) /\ f[k].id = f[k - 1].id
          /\ Triples(f[k].devices) = Triples(f[k - 1].devices) \cup Triples(q[k].devices)
      BY <1>5, <3>2, <3>3, MergeKeepsEnds
    <3>5. UNION {has[j] : j \in 1..k} = (UNION {has[j] : j \in 1..(k - 1)}) \cup has[k]
      <4>1. \A j : j \in 1..k <=> j \in 1..(k - 1) \/ j = k
        BY <1>2, <3>1
      <4> QED BY <4>1
    <3> QED BY <1>5, <3>2, <3>4, <3>5
  <2> QED BY <2>1, <2>2
<1>7. 0 \in G
  BY <1>2
<1> HIDE DEF G
<1>8. N \in G /\ N # 0
  <2>1. \A k \in 0..N : k \in G
    BY <1>2, <1>6, <1>7, StepByStep
  <2> QED BY <1>2, <2>1
<1>9. Wellformed(s) /\ s.id = m /\ Triples(s.devices) = UNION {has[j] : j \in 1..N}
  BY <1>3, <1>8 DEF G
<1>10. m = n
  BY <1>9
<1>11. UNION {has[j] : j \in 1..N} = EndsHeld(store, m)
  <2>1. EndsHeld(store, m) = UNION {OwnEnds(d, store[d][Instance(m)]) : d \in M}
    BY DEF EndsHeld, OwnEnds, Locals, M
  <2>2. \A j \in 1..N : has[j] = OwnEnds(own[j], store[own[j]][Instance(m)])
    BY DEF has
  <2> QED BY <1>2, <1>4, <2>1, <2>2
<1>12. M # {}
  BY <1>2, <1>4
<1> QED BY <1>9, <1>10, <1>11, <1>12 DEF M
-----------------------------------------------------------------------------
(* What the programs of VPLS do to interfaces *)

\* The interfaces that are asked for under a name.
Ports(n) ==
  UNION {{<<e.id, e.interface>> : e \in Range(in.devices)} : in \in {i \in VplsInput : i.id = n}}

\* A value that suits an object of the device d: both policies or none, and a
\* VPLS with interfaces that were asked for.
Fit(d, o, v) ==
  /\ \A i : o = Policy(i) => v \in {None, PolicyData({"in", "out"})}
  /\ \A n : o = Instance(n) /\ v # None /\ v.net = "L2VSI" =>
              \A p \in Locals(v) : <<d, p.interface>> \in Ports(n)

\* An interface that the task deletes to configure it anew.
Clears(in, d, i) ==
  in.do = "create" /\ \E e \in Range(in.devices) : e.id = d /\ e.interface = i /\ e.interface_reset

\* A step that writes or deletes an interface.
WritesPort(x) == x.call = "write" /\ \E i : x.object = Port(i)

\* A step that writes what suits, and deletes no interface but those.
FitStep(in, x) ==
  /\ x.call = "write" =>
       \A d \in x.on : /\ Fit(d, x.object, x.value)
                       /\ \A i : x.object = Port(i) /\ x.value = None => Clears(in, d, i)
  /\ x.fails \in {"withdraw", "withdraw_abort"} => x.object = Instance(in.id)
  /\ x.fails \in {"ignore", "skip", "overlook"} => ~WritesPort(x)

\* An interface that is deleted is written again later on, and that is not left
\* out when another call fails.
Puts(x, d, o)   == WritesTo(x, d, o) /\ x.value # None
Empties(x, d, o) == WritesTo(x, d, o) /\ x.value = None
Filling(p, d, o) == \E k \in 1..Len(p) : Puts(p[k], d, o)
Refills(p) ==
  \A d, i : \A k \in 1..Len(p) : Empties(p[k], d, Port(i)) =>
    \E m \in 1..Len(p) : m > k /\ Puts(p[m], d, Port(i))
Skips(p) ==
  \A k \in 1..Len(p) : p[k].fails = "skip" => k + 1 \in 1..Len(p) /\ ~WritesPort(p[k + 1])

\* A program that does all that.
Good(in, p) ==
  /\ IsProgram(p) /\ \A x \in Steps(p) : FitStep(in, x)
  /\ Refills(p) /\ Skips(p)

\* Steps that write no interface and do not hang together.
Aside(in, x) == FitStep(in, x) /\ ~WritesPort(x) /\ x.fails # "skip"

\* A program of such steps.
LEMMA AsideGood ==
  ASSUME NEW in, NEW p, IsProgram(p), \A x \in Steps(p) : Aside(in, x)
  PROVE  Good(in, p)
<1>1. \A k \in 1..Len(p) : Aside(in, p[k])
  BY DEF Steps
<1>2. Refills(p)
  BY <1>1 DEF Refills, Empties, WritesTo, WritesPort, Aside
<1>3. Skips(p)
  BY <1>1 DEF Skips, Aside
<1> QED BY <1>2, <1>3 DEF Good, Aside

\* No step and a single one.
LEMMA AsideFew ==
  ASSUME NEW in
  PROVE  Good(in, <<>>) /\ \A x : Aside(in, x) => Good(in, <<x>>)
<1>1. IsProgram(<<>>) /\ Steps(<<>>) = {}
  <2>1. <<>> \in Seq({}) /\ Len(<<>>) = 0 /\ \A k : k \notin 1..0
    OBVIOUS
  <2> QED BY <2>1 DEF IsProgram, Steps
<1>2. Good(in, <<>>)
  BY <1>1, AsideGood
<1>3. ASSUME NEW x, Aside(in, x) PROVE Good(in, <<x>>)
  <2> DEFINE p == <<x>>
  <2>1. IsProgram(p) /\ Steps(p) = {x}
    BY SingleStep
  <2> HIDE DEF p
  <2>2. Good(in, p)
    BY <1>3, <2>1, AsideGood
  <2> QED BY <2>2 DEF p
<1> QED BY <1>2, <1>3

\* Programs in a row are left out of as each of them is.
LEMMA RowSkips ==
  ASSUME NEW p, NEW q, IsProgram(p), IsProgram(q), Skips(p), Skips(q)
  PROVE  Skips(p \o q)
<1> DEFINE r == p \o q
           m == Len(p)
           n == Len(q)
<1>1. /\ IsProgram(r) /\ Len(r) = m + n /\ m \in Nat /\ n \in Nat
      /\ \A k \in 1..m : r[k] = p[k]
      /\ \A k \in 1..(m + n) : k > m => r[k] = q[k - m] /\ k - m \in 1..n
  BY ProgramConcat
<1> HIDE DEF r
<1>2. \A l \in 1..n : l + m \in 1..(m + n) /\ r[l + m] = q[l]
  <2>1. \A l \in 1..n : l + m \in 1..(m + n) /\ l + m > m /\ (l + m) - m = l
    BY <1>1
  <2> QED BY <1>1, <2>1
<1> SUFFICES ASSUME NEW k \in 1..(m + n), r[k].fails = "skip"
             PROVE  k + 1 \in 1..(m + n) /\ ~WritesPort(r[k + 1])
  BY <1>1 DEF Skips, r
<1>3. CASE k \in 1..m
  <2>1. r[k] = p[k]
    BY <1>1, <1>3
  <2>2. k + 1 \in 1..m /\ ~WritesPort(p[k + 1])
    BY <1>3, <2>1 DEF Skips
  <2> QED BY <1>1, <2>2
<1>4. CASE k \notin 1..m
  <2>1. r[k] = q[k - m] /\ k - m \in 1..n
    BY <1>1, <1>4
  <2>2. (k - m) + 1 \in 1..n /\ ~WritesPort(q[(k - m) + 1])
    BY <2>1 DEF Skips
  <2>3. ((k - m) + 1) + m = k + 1
    BY <1>1
  <2> QED BY <1>2, <2>2, <2>3
<1> QED BY <1>3, <1>4

\* Two programs in a row, of which the second writes again what the first one
\* has left deleted.
LEMMA RowGood ==
  ASSUME NEW in, NEW p, NEW q, IsProgram(p), \A x \in Steps(p) : FitStep(in, x), Skips(p),
         Good(in, q),
         \A d, i : \A k \in 1..Len(p) : Empties(p[k], d, Port(i)) =>
           \/ \E m \in 1..Len(p) : m > k /\ Puts(p[m], d, Port(i))
           \/ Filling(q, d, Port(i))
  PROVE  Good(in, p \o q)
<1> DEFINE r == p \o q
           m == Len(p)
           n == Len(q)
<1>1. /\ IsProgram(r) /\ Len(r) = m + n /\ m \in Nat /\ n \in Nat
      /\ \A k \in 1..m : r[k] = p[k]
      /\ \A k \in 1..(m + n) : k > m => r[k] = q[k - m] /\ k - m \in 1..n
  BY ProgramConcat DEF Good
<1>2. Steps(r) = Steps(p) \cup Steps(q)
  BY RowSteps DEF Good
<1> HIDE DEF r
<1>3. \A l \in 1..n : l + m \in 1..(m + n) /\ l + m > m /\ (l + m) - m = l /\ r[l + m] = q[l]
  <2>1. \A l \in 1..n : l + m \in 1..(m + n) /\ l + m > m /\ (l + m) - m = l
    BY <1>1
  <2> QED BY <1>1, <2>1
<1>4. Refills(r)
  <2> SUFFICES ASSUME NEW d, NEW i, NEW k \in 1..(m + n), Empties(r[k], d, Port(i))
               PROVE  \E l \in 1..(m + n) : l > k /\ Puts(r[l], d, Port(i))
    BY <1>1 DEF Refills
  <2>1. CASE k \in 1..m
    <3>1. Empties(p[k], d, Port(i))
      BY <1>1, <2>1
    <3>2. CASE \E l \in 1..m : l > k /\ Puts(p[l], d, Port(i))
      <4>1. PICK l \in 1..m : l > k /\ Puts(p[l], d, Port(i))
        BY <3>2
      <4>2. l \in 1..(m + n) /\ r[l] = p[l]
        BY <1>1
      <4> QED BY <4>1, <4>2
    <3>3. CASE Filling(q, d, Port(i))
      <4>1. PICK l \in 1..n : Puts(q[l], d, Port(i))
        BY <3>3 DEF Filling
      <4>2. l + m \in 1..(m + n) /\ l + m > k /\ r[l + m] = q[l]
        BY <1>1, <1>3, <2>1
      <4> QED BY <4>1, <4>2
    <3> QED BY <2>1, <3>1, <3>2, <3>3
  <2>2. CASE k \notin 1..m
    <3>1. r[k] = q[k - m] /\ k - m \in 1..n
      BY <1>1, <2>2
    <3>2. PICK l \in 1..n : l > k - m /\ Puts(q[l], d, Port(i))
      BY <3>1 DEF Good, Refills
    <3>3. l + m \in 1..(m + n) /\ l + m > k /\ r[l + m] = q[l]
      BY <1>1, <1>3, <3>1, <3>2
    <3> QED BY <3>2, <3>3
  <2> QED BY <2>1, <2>2
<1>5. Skips(r)
  BY RowSkips DEF r, Good
<1>6. Good(in, r)
  BY <1>1, <1>2, <1>4, <1>5 DEF Good
<1> QED BY <1>6 DEF r

\* Two programs in a row, each complete.
LEMMA ConcatGood ==
  ASSUME NEW in, NEW p, NEW q, Good(in, p), Good(in, q)
  PROVE  Good(in, p \o q)
BY RowGood DEF Good, Refills

\* Any number of programs.
LEMMA FlattenGood ==
  ASSUME NEW in, NEW n \in Nat, NEW ps, IsList(ps, n), \A i \in 1..n : Good(in, ps[i])
  PROVE  Good(in, FlattenSeq(ps))
<1> DEFINE Q == UNION {{ps[i][k] : k \in 1..Len(ps[i])} : i \in 1..n}
           R == {q \in Seq(Q) : Good(in, q)}
<1>1. ASSUME NEW i \in 1..n PROVE ps[i] \in Seq(Q)
  <2>1. PICK S : ps[i] \in Seq(S)
    BY DEF Good, IsProgram
  <2>2. Len(ps[i]) \in Nat /\ ps[i] \in [1..Len(ps[i]) -> S]
    BY <2>1
  <2>3. \A k \in 1..Len(ps[i]) : ps[i][k] \in Q
    OBVIOUS
  <2>4. ps[i] \in [1..Len(ps[i]) -> Q]
    BY <2>2, <2>3
  <2> QED BY <2>2, <2>4, ListIsProgram
<1> HIDE DEF Q
<1>2. <<>> \in R
  BY AsideFew
<1>3. \A a, b \in R : a \o b \in R
  BY ConcatGood
<1>4. ps \in [1..n -> R]
  BY <1>1 DEF IsList
<1> HIDE DEF R
<1>5. FlattenSeq(ps) \in R
  BY <1>2, <1>3, <1>4, FlattenClosed
<1> QED BY <1>5 DEF R
-----------------------------------------------------------------------------
(* The programs of VPLS keep the interfaces *)

\* The objects that are not instances.
LEMMA PortsApart ==
  /\ \A i, j : /\ Port(i) = Port(j) => i = j
               /\ Port(i) # Policy(j) /\ Port(i) # Stp(j) /\ Policy(i) # Stp(j)
               /\ Policy(i) = Policy(j) => i = j
  /\ \A i, n : Port(i) # Instance(n) /\ Policy(i) # Instance(n) /\ Stp(i) # Instance(n)
<1>1. \A i, j : /\ Port(i) = Port(j) => i = j
                /\ Port(i) # Policy(j) /\ Port(i) # Stp(j) /\ Policy(i) # Stp(j)
                /\ Policy(i) = Policy(j) => i = j
  BY DEF Port, Policy, Stp
<1> QED BY <1>1, InstanceApart

\* The end of a program leaves the interfaces alone, and so do deletions of the
\* instance of the task.
LEMMA EndAside ==
  ASSUME NEW in
  PROVE  /\ \A dry \in BOOLEAN : \A ids : Good(in, Finish(dry, ids))
         /\ Good(in, <<Raise>>) /\ Aside(in, Raise)
         /\ \A d, undo : Aside(in, Delete(d, Instance(in.id), undo))
         /\ \A d, undo : Aside(in, [Delete(d, Instance(in.id), undo) EXCEPT !.fails = "overlook"])
<1>1. ASSUME NEW x, x.call # "write", x.fails = "abort" PROVE Aside(in, x)
  BY <1>1 DEF Aside, FitStep, WritesPort
<1>2. ASSUME NEW ids
      PROVE  Aside(in, Commit(ids, ids)) /\ Aside(in, DryRun(ids)) /\ Aside(in, Raise)
  <2>1. /\ Commit(ids, ids).call # "write" /\ Commit(ids, ids).fails = "abort"
        /\ DryRun(ids).call # "write" /\ DryRun(ids).fails = "abort"
        /\ Raise.call # "write" /\ Raise.fails = "abort"
    BY DEF Commit, DryRun, Raise, Rollback, Call
  <2> QED BY <1>1, <2>1
<1>3. Good(in, <<Raise>>) /\ \A ids : Good(in, <<Commit(ids, ids)>>) /\ Good(in, <<DryRun(ids)>>)
  BY <1>2, AsideFew
<1>4. ASSUME NEW x, x.call = "write", x.object = Instance(in.id), x.value = None,
             x.fails \in {"abort", "overlook"}
      PROVE  Aside(in, x)
  BY <1>4, PortsApart DEF Aside, FitStep, WritesPort, Fit
<1>5. ASSUME NEW d, NEW undo
      PROVE  /\ Aside(in, Delete(d, Instance(in.id), undo))
             /\ Aside(in, [Delete(d, Instance(in.id), undo) EXCEPT !.fails = "overlook"])
  <2> PICK x : x = Delete(d, Instance(in.id), undo)
    OBVIOUS
  <2> PICK y : y = [Delete(d, Instance(in.id), undo) EXCEPT !.fails = "overlook"]
    OBVIOUS
  <2>1. /\ x.call = "write" /\ x.object = Instance(in.id) /\ x.value = None /\ x.fails = "abort"
        /\ y.call = "write" /\ y.object = Instance(in.id) /\ y.value = None
        /\ y.fails = "overlook"
    BY PutFields DEF Delete
  <2>2. Aside(in, x) /\ Aside(in, y)
    BY <1>4, <2>1
  <2> QED BY <2>2
<1> QED BY <1>2, <1>3, <1>5 DEF Finish

\* The ends that a service is written with have interfaces that were asked for.
AreAsked(n, ends) == \A e \in ends : e.id # Unknown => <<e.id, e.interface>> \in Ports(n)

\* So have the instances.
LEMMA InstancesGood ==
  ASSUME NEW in, NEW S, NEW ends \in Seq(S), AreAsked(in.id, Range(ends)), NEW D, IsFiniteSet(D),
         Unknown \notin D, NEW order \in SetToSeqs(D), NEW s, s.id = in.id, NEW undo,
         NEW fails \in {"withdraw", "withdraw_abort"}
  PROVE  Good(in, CreateInstances(s, ends, order, undo, fails))
<1> DEFINE n == Cardinality(D)
           Of(k) == [Put(order[k], Instance(s.id), VplsInstance(s, ends, order[k]), undo)
                       EXCEPT !.fails = fails]
           q == CreateInstances(s, ends, order, undo, fails)
<1>1. n \in Nat /\ DOMAIN order = 1..n /\ \A k \in 1..n : order[k] \in D
  BY OrderFacts DEF IsList
<1>2. q = [k \in 1..n |-> Of(k)]
  BY <1>1 DEF CreateInstances
<1>3. ASSUME NEW k \in 1..n PROVE Aside(in, Of(k))
  <2> PICK x : x = Of(k)
    OBVIOUS
  <2> PICK d : d = order[k]
    OBVIOUS
  <2> DEFINE ni == VplsInstance(s, ends, d)
  <2>1. /\ x.call = "write" /\ x.on = {d} /\ x.object = Instance(in.id) /\ x.value = ni
        /\ x.fails = fails
    BY PutFields
  <2>2. \A p : p \in Locals(ni) =>
          \E e \in Range(ends) : e.id = d /\ p = LocalPoint(e.interface, e.vlan)
    BY WrittenPoints
  <2>3. d # Unknown
    BY <1>1
  <2> HIDE DEF ni, Of
  <2>4. \A p \in Locals(ni) : <<d, p.interface>> \in Ports(in.id)
    <3> SUFFICES ASSUME NEW p \in Locals(ni) PROVE <<d, p.interface>> \in Ports(in.id)
      OBVIOUS
    <3>1. PICK e \in Range(ends) : e.id = d /\ p = LocalPoint(e.interface, e.vlan)
      BY <2>2
    <3>2. p.interface = e.interface
      BY <3>1 DEF LocalPoint
    <3> QED BY <2>3, <3>1, <3>2 DEF AreAsked
  <2>5. Fit(d, Instance(in.id), ni)
    BY <2>4, PortsApart, InstanceApart DEF Fit
  <2>6. Aside(in, x)
    BY <2>1, <2>5, PortsApart DEF Aside, FitStep, WritesPort
  <2> QED BY <2>6
<1> HIDE DEF Of, q, n
<1>4. q \in Seq({Of(k) : k \in 1..n}) /\ Len(q) = n /\ \A k \in 1..n : q[k] = Of(k)
  BY <1>1, <1>2, ListIsProgram
<1>5. IsProgram(q) /\ \A x \in Steps(q) : Aside(in, x)
  BY <1>3, <1>4 DEF IsProgram, Steps
<1>6. Good(in, q)
  BY <1>5, AsideGood
<1> QED BY <1>6 DEF q

\* The deletions of a service leave the interfaces alone.
LEMMA DeletesGood ==
  ASSUME NEW in, NEW D, IsFiniteSet(D), NEW order \in SetToSeqs(D), NEW s, s.id = in.id, NEW undo
  PROVE  /\ Good(in, DeleteInstances(s, order, undo))
         /\ Good(in, Deletions(s, order)) /\ \A x \in Steps(Deletions(s, order)) : Aside(in, x)
<1> DEFINE n == Cardinality(D)
           Of(k) == Delete(order[k], Instance(s.id), undo)
           Gone(k) == [Delete(order[k], Instance(s.id), {}) EXCEPT !.fails = "overlook"]
           ps == [k \in 1..n |-> <<Of(k)>>]
           q == [k \in 1..n |-> Gone(k)]
<1>1. n \in Nat /\ DOMAIN order = 1..n
  BY OrderFacts DEF IsList
<1>2. DeleteInstances(s, order, undo) = FlattenSeq(ps)
  BY <1>1 DEF DeleteInstances, RemoveVpls
<1>3. Deletions(s, order) = q
  BY <1>1 DEF RemoveVpls, Deletions
<1>4. \A k \in 1..n : Aside(in, Of(k)) /\ Aside(in, Gone(k))
  BY EndAside
<1>5. ASSUME NEW k \in 1..n PROVE Good(in, ps[k])
  <2>1. ps[k] = <<Of(k)>>
    OBVIOUS
  <2> HIDE DEF Of, ps
  <2> QED BY <1>4, <2>1, AsideFew
<1>6. IsList(ps, n)
  BY DEF IsList
<1>7. q = [k \in 1..n |-> Gone(k)]
  OBVIOUS
<1> HIDE DEF ps, Of, Gone, n, q
<1>8. Good(in, FlattenSeq(ps))
  BY <1>1, <1>5, <1>6, FlattenGood
<1>9. q \in Seq({Gone(k) : k \in 1..n}) /\ Len(q) = n /\ \A k \in 1..n : q[k] = Gone(k)
  BY <1>1, <1>7, ListIsProgram
<1>10. IsProgram(q) /\ \A x \in Steps(q) : Aside(in, x)
  BY <1>4, <1>9 DEF IsProgram, Steps
<1> QED BY <1>2, <1>3, <1>8, <1>10, AsideGood

\* A program that deletes the interface of one end only.
Opens(in, end, p) ==
  /\ IsProgram(p) /\ Skips(p)
  /\ \A x \in Steps(p) : /\ FitStep(in, x)
                         /\ \A d, i : Empties(x, d, Port(i)) => d = end.id /\ i = end.interface

\* Two such programs in a row.
LEMMA ConcatOpens ==
  ASSUME NEW in, NEW end, NEW p, NEW q, Opens(in, end, p), Opens(in, end, q)
  PROVE  Opens(in, end, p \o q)
BY ProgramConcat, RowSkips, RowSteps DEF Opens

\* No step, one step, and two of which the second may be left out.
LEMMA FewOpens ==
  ASSUME NEW in, NEW end
  PROVE  /\ Opens(in, end, <<>>)
         /\ \A x : /\ FitStep(in, x) /\ x.fails # "skip"
                   /\ \A d, i : Empties(x, d, Port(i)) => d = end.id /\ i = end.interface
                   => Opens(in, end, <<x>>)
         /\ \A x, y : FitStep(in, x) /\ Aside(in, y) /\ ~WritesPort(x) => Opens(in, end, <<x, y>>)
<1>1. Opens(in, end, <<>>)
  BY AsideFew DEF Good, Opens, Steps
<1>2. ASSUME NEW x, FitStep(in, x), x.fails # "skip",
             \A d, i : Empties(x, d, Port(i)) => d = end.id /\ i = end.interface
      PROVE  Opens(in, end, <<x>>)
  <2> DEFINE p == <<x>>
  <2>1. IsProgram(p) /\ Steps(p) = {x}
    BY SingleStep
  <2> HIDE DEF p
  <2>2. Skips(p)
    BY <1>2, <2>1 DEF Skips, Steps
  <2>3. Opens(in, end, p)
    BY <1>2, <2>1, <2>2 DEF Opens
  <2> QED BY <2>3 DEF p
<1>3. ASSUME NEW x, NEW y, FitStep(in, x), Aside(in, y), ~WritesPort(x)
      PROVE  Opens(in, end, <<x, y>>)
  <2> DEFINE p == <<x, y>>
  <2>1. p \in Seq({x, y}) /\ Len(p) = 2 /\ p[1] = x /\ p[2] = y
    OBVIOUS
  <2> HIDE DEF p
  <2>2. (\A k : k \in 1..2 <=> k = 1 \/ k = 2) /\ 1 + 1 = 2
    OBVIOUS
  <2>3. Steps(p) = {x, y} /\ IsProgram(p)
    BY <2>1, <2>2 DEF Steps, IsProgram
  <2>4. Skips(p)
    BY <1>3, <2>1, <2>2 DEF Skips, Aside
  <2>5. Opens(in, end, p)
    BY <1>3, <2>3, <2>4 DEF Opens, Aside, Empties, WritesTo, WritesPort
  <2> QED BY <2>5 DEF p
<1> QED BY <1>1, <1>2, <1>3

\* What is written is written in a longer program, too.
LEMMA FillingRow ==
  ASSUME NEW p, NEW q, IsProgram(p), IsProgram(q), NEW d, NEW o, Filling(p, d, o)
  PROVE  Filling(p \o q, d, o)
<1> DEFINE r == p \o q
<1>1. Steps(r) = Steps(p) \cup Steps(q)
  BY RowSteps
<1> HIDE DEF r
<1>2. PICK k \in 1..Len(p) : Puts(p[k], d, o)
  BY DEF Filling
<1>3. p[k] \in Steps(r)
  BY <1>1 DEF Steps
<1>4. PICK m \in 1..Len(r) : p[k] = r[m]
  BY <1>3 DEF Steps
<1>5. Filling(r, d, o)
  BY <1>2, <1>4 DEF Filling
<1> QED BY <1>5 DEF r

\* An end is configured: its interface, which may have been deleted, is written.
LEMMA ConfigureGood ==
  ASSUME InterfacesServe, NoneIsApart, NEW in \in VplsInput, NEW end \in Range(in.devices), NEW all
  PROVE  /\ Good(in, Configure(end, all))
         /\ Filling(Configure(end, all), end.id, Port(end.interface))
<1> DEFINE d == end.id
           i == end.interface
           data == PortData(end.auto, LongTpid(end.tpid))
           x == Put(d, Port(i), data, all)
           y == Put(d, Policy(i), PolicyData(end.policy), all)
           z == [Put(d, Stp(i), None, {}) EXCEPT !.fails = "ignore"]
<1>1. data # None
  BY DEF NoneIsApart
<1> HIDE DEF data
<1>2. /\ x.call = "write" /\ x.on = {d} /\ x.object = Port(i) /\ x.value = data /\ x.fails = "abort"
      /\ y.call = "write" /\ y.on = {d} /\ y.object = Policy(i)
      /\ y.value = PolicyData(end.policy) /\ y.fails = "abort"
      /\ z.call = "write" /\ z.on = {d} /\ z.object = Stp(i) /\ z.value = None /\ z.fails = "ignore"
  BY PutFields
<1> HIDE DEF x, y, z
<1>3. Good(in, <<x>>) /\ Filling(<<x>>, d, Port(i))
  <2> DEFINE p == <<x>>
  <2>1. IsProgram(p) /\ Steps(p) = {x} /\ Len(p) = 1 /\ p[1] = x
    BY SingleStep
  <2> HIDE DEF p
  <2>2. FitStep(in, x)
    BY <1>1, <1>2, PortsApart DEF FitStep, Fit
  <2>3. \A e, o : ~Empties(x, e, o)
    BY <1>1, <1>2 DEF Empties
  <2>4. \A k \in 1..Len(p) : p[k] = x
    BY <2>1
  <2>5. Refills(p) /\ Skips(p)
    BY <1>2, <2>3, <2>4 DEF Refills, Skips
  <2>6. Puts(x, d, Port(i))
    BY <1>1, <1>2 DEF Puts, WritesTo
  <2>7. 1 \in 1..Len(p)
    BY <2>1
  <2>8. Good(in, p) /\ Filling(p, d, Port(i))
    BY <2>1, <2>2, <2>5, <2>6, <2>7 DEF Good, Filling
  <2> QED BY <2>8 DEF p
<1>4. Good(in, When(end.policy # {}, <<y>>))
  <2>1. CASE end.policy # {}
    <3>1. end.policy = {"in", "out"}
      BY <2>1 DEF InterfacesServe
    <3>2. Aside(in, y)
      BY <1>2, <3>1, PortsApart DEF Aside, FitStep, WritesPort, Fit
    <3> QED BY <2>1, <3>2, AsideFew DEF When
  <2>2. CASE end.policy = {}
    BY <2>2, AsideFew DEF When
  <2> QED BY <2>1, <2>2
<1>5. Good(in, <<z>>)
  <2>1. Aside(in, z)
    BY <1>2, PortsApart DEF Aside, FitStep, WritesPort, Fit
  <2> QED BY <2>1, AsideFew
<1> DEFINE a == <<x>>
           b == When(end.policy # {}, <<y>>)
           c == <<z>>
<1>6. Configure(end, all) = a \o b \o c
  BY DEF Configure, PutInterface, PutPolicy, DisableStp, Delete, x, y, z, data
<1>7. Good(in, a) /\ Filling(a, d, Port(i)) /\ Good(in, b) /\ Good(in, c)
  BY <1>3, <1>4, <1>5
<1> HIDE DEF a, b, c, d, i
<1>8. Good(in, a \o b) /\ Filling(a \o b, d, Port(i))
  BY <1>7, ConcatGood, FillingRow DEF Good
<1>9. Good(in, a \o b \o c) /\ Filling(a \o b \o c, d, Port(i))
  BY <1>7, <1>8, ConcatGood, FillingRow DEF Good
<1> QED BY <1>6, <1>9 DEF d, i

\* An end is reset first: its interface is deleted and written again.
LEMMA EndGood ==
  ASSUME InterfacesServe, NoneIsApart, NEW in \in VplsInput, in.do = "create",
         NEW end \in Range(in.devices), NEW dry, NEW all
  PROVE  Good(in, CreateVplsEnd(end, dry, all))
<1> DEFINE d == end.id
           i == end.interface
           alone == {d}
           x == Read(d, Port(i), all)
           y == [Read(d, Policy(i), {}) EXCEPT !.fails = "skip"]
           z == Put(d, Policy(i), None, alone)
           w == Put(d, Port(i), None, alone)
           c == Commit(alone, alone)
           r == SyncFromNet(alone, alone)
<1>1. /\ x.call = "read" /\ x.fails = "abort" /\ y.call = "read" /\ y.fails = "skip"
      /\ c.call = "commit" /\ c.fails = "abort" /\ r.call = "sync" /\ r.fails = "abort"
  BY DEF Read, Commit, SyncFromNet, Call
<1>2. /\ z.call = "write" /\ z.on = {d} /\ z.object = Policy(i) /\ z.value = None /\ z.fails = "abort"
      /\ w.call = "write" /\ w.on = {d} /\ w.object = Port(i) /\ w.value = None /\ w.fails = "abort"
  BY PutFields
<1> HIDE DEF x, y, z, w, c, r, alone
<1>3. Aside(in, x) /\ Aside(in, c) /\ Aside(in, r) /\ Aside(in, z)
  BY <1>1, <1>2, PortsApart DEF Aside, FitStep, WritesPort, Fit
<1>4. FitStep(in, y) /\ ~WritesPort(y)
  BY <1>1 DEF FitStep, WritesPort
<1>5. \A s : Aside(in, s) => Opens(in, end, <<s>>)
  <2> SUFFICES ASSUME NEW s, Aside(in, s) PROVE Opens(in, end, <<s>>)
    OBVIOUS
  <2>1. FitStep(in, s) /\ s.fails # "skip" /\ \A e, j : ~Empties(s, e, Port(j))
    BY DEF Aside, Empties, WritesTo, WritesPort
  <2> QED BY <2>1, FewOpens
<1>6. Opens(in, end, <<x>>) /\ Opens(in, end, <<y, z>>)
  BY <1>3, <1>4, <1>5, FewOpens
<1>7. Opens(in, end, <<c, r>>)
  <2>1. FitStep(in, c) /\ ~WritesPort(c)
    BY <1>3 DEF Aside
  <2> QED BY <1>3, <2>1, FewOpens
<1>8. end.interface_reset => Opens(in, end, <<w>>)
  <2> SUFFICES ASSUME end.interface_reset PROVE Opens(in, end, <<w>>)
    OBVIOUS
  <2>1. Clears(in, d, i)
    BY DEF Clears
  <2>2. FitStep(in, w)
    BY <1>2, <2>1, PortsApart DEF FitStep, Fit
  <2>3. \A e, j : Empties(w, e, Port(j)) => e = d /\ j = i
    BY <1>2, PortsApart DEF Empties, WritesTo
  <2> QED BY <1>2, <2>2, <2>3, FewOpens
<1>9. Opens(in, end, When(~dry /\ end.interface_reset, ResetVplsEnd(end)))
  <2>1. CASE ~dry /\ end.interface_reset
    <3> DEFINE pa == When(end.policy # {}, <<y, z>>)
               pb == <<w>>
               pc == <<c, r>>
    <3>1. ResetVplsEnd(end) = pa \o pb \o pc
      BY DEF ResetVplsEnd, ResetPolicy, DeleteInterface, Delete, y, z, w, c, r, alone
    <3>2. Opens(in, end, pa) /\ Opens(in, end, pb) /\ Opens(in, end, pc)
      BY <1>6, <1>7, <1>8, <2>1, FewOpens DEF When
    <3> HIDE DEF pa, pb, pc
    <3>3. Opens(in, end, pa \o pb \o pc)
      BY <3>2, ConcatOpens
    <3> QED BY <2>1, <3>1, <3>3 DEF When
  <2>2. CASE ~(~dry /\ end.interface_reset)
    BY <2>2, FewOpens DEF When
  <2> QED BY <2>1, <2>2
<1> DEFINE p == ReadInterface(end, all) \o When(~dry /\ end.interface_reset, ResetVplsEnd(end))
           q == Configure(end, all)
<1>10. Opens(in, end, p)
  <2>1. Opens(in, end, ReadInterface(end, all))
    BY <1>6 DEF ReadInterface, x
  <2> QED BY <1>9, <2>1, ConcatOpens
<1>11. Good(in, q) /\ Filling(q, d, Port(i))
  BY ConfigureGood
<1>12. CreateVplsEnd(end, dry, all) = p \o q
  BY DEF CreateVplsEnd
<1> HIDE DEF p, q
<1>13. \A e, j : \A k \in 1..Len(p) : Empties(p[k], e, Port(j)) => Filling(q, e, Port(j))
  <2> SUFFICES ASSUME NEW e, NEW j, NEW k \in 1..Len(p), Empties(p[k], e, Port(j))
               PROVE  Filling(q, e, Port(j))
    OBVIOUS
  <2>1. p[k] \in Steps(p)
    BY DEF Steps
  <2>2. e = d /\ j = i
    BY <1>10, <2>1 DEF Opens
  <2> QED BY <1>11, <2>2
<1>14. Good(in, p \o q)
  BY <1>10, <1>11, <1>13, RowGood DEF Opens
<1> QED BY <1>12, <1>14

\* What a store holds suits its objects.
Fitted(store) == \A d \in Node, o \in Object : Fit(d, o, store[d][o])

\* A service that is created.
LEMMA CreateGood ==
  ASSUME InterfacesServe, NoneIsApart, NEW in \in VplsInput, in.do = "create",
         NEW order \in SetToSeqs(VplsIds(in.devices))
  PROVE  Good(in, CreateVplsTask(in, order))
<1> DEFINE ids == VplsIds(in.devices)
           n == Len(in.devices)
           ps == [k \in 1..n |-> CreateVplsEnd(in.devices[k], in.dryrun, ids)]
           m == CreateInstances(in, in.devices, order, ids, "withdraw_abort")
<1>1. /\ in.devices \in Seq(Range(in.devices)) /\ DOMAIN in.devices = 1..n /\ n \in Nat
      /\ in.dryrun \in BOOLEAN
  BY VplsInputFacts, VplsInputAssumption
<1>2. IsFiniteSet(ids) /\ Unknown \notin ids
  BY <1>1, EndsFacts DEF VplsIds
<1>3. CreateVplsTask(in, order) = FlattenSeq(ps) \o m \o Finish(in.dryrun, ids)
  BY <1>1 DEF CreateVplsTask
<1>4. AreAsked(in.id, Range(in.devices))
  BY DEF AreAsked, Ports
<1>5. \A k \in 1..n : Good(in, ps[k])
  <2> SUFFICES ASSUME NEW k \in 1..n PROVE Good(in, ps[k])
    OBVIOUS
  <2>1. in.devices[k] \in Range(in.devices)
    BY <1>1 DEF Range
  <2>2. ps[k] = CreateVplsEnd(in.devices[k], in.dryrun, ids)
    OBVIOUS
  <2> HIDE DEF ps, ids
  <2> QED BY <2>1, <2>2, EndGood
<1>6. IsList(ps, n)
  BY DEF IsList
<1>7. order \in SetToSeqs(ids)
  OBVIOUS
<1> HIDE DEF ps, n, ids
<1>8. Good(in, FlattenSeq(ps))
  BY <1>1, <1>5, <1>6, FlattenGood
<1>9. Good(in, m)
  BY <1>1, <1>2, <1>4, <1>7, InstancesGood
<1> HIDE DEF m
<1>10. Good(in, FlattenSeq(ps) \o m \o Finish(in.dryrun, ids))
  <2>1. Good(in, FlattenSeq(ps) \o m)
    BY <1>8, <1>9, ConcatGood
  <2>2. Good(in, Finish(in.dryrun, ids))
    BY <1>1, EndAside
  <2> QED BY <2>1, <2>2, ConcatGood
<1> QED BY <1>3, <1>10

\* The service that was found has interfaces that were asked for.
LEMMA FoundAsked ==
  ASSUME IsInjective(NodeOrder), Fitted(actual), NEW n, NEW s \in FoundVpls(n, Name)
  PROVE  /\ AreAsked(n, s.devices) /\ s.id = n
         /\ IsFiniteSet(s.devices)
<1>1. s \in VplsReadAll(actual, NodeOrder, Name) /\ s.id = n /\ IsFiniteSet(s.devices)
  BY DEF FoundVpls
<1>2. Triples(s.devices) = EndsHeld(actual, n) /\ n \in Name
  BY <1>1, ReadEnds
<1>3. ASSUME NEW e \in s.devices, e.id # Unknown PROVE <<e.id, e.interface>> \in Ports(n)
  <2>1. <<e.id, e.interface, e.vlan>> \in EndsHeld(actual, n)
    BY <1>2, <1>3 DEF Triples
  <2>2. PICK d \in Members(actual, n) : \E p \in Locals(actual[d][Instance(n)]) :
          <<e.id, e.interface, e.vlan>> = <<d, p.interface, p.subinterface>>
    BY <2>1 DEF EndsHeld, Locals
  <2>3. PICK p \in Locals(actual[d][Instance(n)]) : e.id = d /\ e.interface = p.interface
    BY <2>2
  <2>4. d \in Node /\ actual[d][Instance(n)] # None /\ actual[d][Instance(n)].net = "L2VSI"
    BY MemberHas
  <2>5. Fit(d, Instance(n), actual[d][Instance(n)])
    BY <1>2, <2>4, InstanceApart DEF Fitted
  <2> QED BY <2>3, <2>4, <2>5 DEF Fit
<1> QED BY <1>1, <1>3 DEF AreAsked

\* Ends are added to it.
LEMMA AddGood ==
  ASSUME IsInjective(NodeOrder), Fitted(actual), NEW in \in VplsInput, in.do = "add",
         NEW s \in FoundVpls(in.id, Name), NEW ends, ends = SetToSeq(s.devices) \o in.devices,
         NEW order \in SetToSeqs(VplsIds(ends))
  PROVE  Good(in, AddDeviceTask(s, ends, order, in.dryrun))
<1> DEFINE S == s.devices \cup Range(in.devices)
           ids == VplsIds(ends)
           m == CreateInstances(s, ends, order, {}, "withdraw")
<1>1. AreAsked(in.id, s.devices) /\ s.id = in.id /\ IsFiniteSet(s.devices)
  BY FoundAsked
<1>2. in.devices \in Seq(Range(in.devices)) /\ in.dryrun \in BOOLEAN
  BY VplsInputFacts, VplsInputAssumption
<1>3. AreAsked(in.id, Range(in.devices))
  BY DEF AreAsked, Ports
<1>4. ends \in Seq(S)
  BY <1>1, <1>2, MoreEnds
<1>5. AreAsked(in.id, Range(ends))
  <2>1. \A e \in Range(ends) : e \in S
    <3> HIDE DEF S
    <3>1. ends \in Seq(S)
      BY <1>4
    <3>2. ends \in [1..Len(ends) -> S]
      BY ONLY <3>1
    <3> QED BY <3>2 DEF Range
  <2> QED BY <1>1, <1>3, <2>1 DEF AreAsked
<1>6. IsFiniteSet(ids) /\ Unknown \notin ids /\ order \in SetToSeqs(ids)
  BY <1>4, EndsFacts DEF VplsIds
<1> HIDE DEF S, ids
<1>7. Good(in, m)
  BY <1>1, <1>4, <1>5, <1>6, InstancesGood
<1>8. Good(in, Finish(in.dryrun, ids))
  BY <1>2, EndAside
<1> HIDE DEF m
<1>9. Good(in, m \o Finish(in.dryrun, ids))
  BY <1>7, <1>8, ConcatGood
<1> QED BY <1>9 DEF AddDeviceTask, m, ids

\* Devices are removed from it.
LEMMA RemoveGood ==
  ASSUME IsInjective(NodeOrder), Fitted(actual), NEW in \in VplsInput, in.do = "remove",
         NEW s \in FoundVpls(in.id, Name),
         NEW ends, ends = SetToSeq({e \in s.devices : e.id \notin in.removed}),
         NEW order \in SetToSeqs(VplsIds(ends)), NEW removed \in SetToSeqs(in.removed), NEW raises
  PROVE  Good(in, RemoveDeviceTask(s, ends, order, removed, in.dryrun, raises))
<1> DEFINE S == {e \in s.devices : e.id \notin in.removed}
           ids == VplsIds(ends)
           ds == Deletions(s, removed)
           c == CreateInstances(s, ends, order, {}, "withdraw")
           f == Finish(in.dryrun, ids \cup Range(removed))
<1>1. AreAsked(in.id, s.devices) /\ s.id = in.id /\ IsFiniteSet(s.devices)
  BY FoundAsked
<1>2. IsFiniteSet(S) /\ \A e \in S : e \in s.devices
  <2>1. S \in SUBSET s.devices
    OBVIOUS
  <2> HIDE DEF S
  <2> QED BY <1>1, <2>1, FS_Subset
<1>3. ends = SetToSeq(S) /\ in.dryrun \in BOOLEAN /\ IsFiniteSet(in.removed)
  BY VplsInputAssumption
<1> HIDE DEF S
<1>4. ends \in Seq(S) /\ Range(ends) = S
  BY <1>2, <1>3, OrderOnto
<1>5. AreAsked(in.id, Range(ends))
  BY <1>1, <1>2, <1>4 DEF AreAsked
<1>6. IsFiniteSet(ids) /\ Unknown \notin ids /\ order \in SetToSeqs(ids)
  BY <1>4, EndsFacts DEF VplsIds
<1> HIDE DEF ids
<1>7. Good(in, c)
  BY <1>1, <1>4, <1>5, <1>6, InstancesGood
<1>8. Good(in, ds) /\ \A x \in Steps(ds) : Aside(in, x)
  BY <1>1, <1>3, DeletesGood
<1>9. Good(in, f)
  BY <1>3, EndAside
<1>10. CASE raises /\ removed # <<>>
  <2>1. RemoveDeviceTask(s, ends, order, removed, in.dryrun, raises) = <<ds[1], Raise>>
    BY <1>10 DEF RemoveDeviceTask, Deletions
  <2>2. PICK x : x = ds[1]
    OBVIOUS
  <2>3. Aside(in, x)
    <3>1. DOMAIN removed = 1..Cardinality(in.removed) /\ Cardinality(in.removed) \in Nat
      BY <1>3, OrderFacts DEF IsList
    <3>2. Cardinality(in.removed) # 0
      <4> SUFFICES ASSUME Cardinality(in.removed) = 0 PROVE FALSE
        OBVIOUS
      <4>1. IsList(removed, 0)
        BY <1>3, OrderFacts
      <4>2. removed = <<>>
        BY <4>1 DEF IsList
      <4> QED BY <1>10, <4>2
    <3>3. DOMAIN ds = 1..Cardinality(in.removed)
      BY <3>1 DEF Deletions
    <3> HIDE DEF ds
    <3>4. PICK S2 : ds \in Seq(S2)
      BY <1>8 DEF Good, IsProgram
    <3>5. DOMAIN ds = 1..Len(ds) /\ Len(ds) \in Nat
      BY <3>4
    <3>6. 1 \in 1..Len(ds)
      BY <3>1, <3>2, <3>3, <3>5
    <3> QED BY <1>8, <2>2, <3>6 DEF Steps
  <2>4. Good(in, <<x, Raise>>)
    <3>1. <<x, Raise>> = <<x>> \o <<Raise>>
      OBVIOUS
    <3>2. Good(in, <<x>>) /\ Good(in, <<Raise>>)
      BY <2>3, AsideFew, EndAside
    <3> QED BY <3>1, <3>2, ConcatGood
  <2> QED BY <2>1, <2>2, <2>4
<1>11. CASE ~(raises /\ removed # <<>>)
  <2>1. RemoveDeviceTask(s, ends, order, removed, in.dryrun, raises) = ds \o c \o f
    BY <1>11 DEF RemoveDeviceTask, Deletions, ids
  <2> HIDE DEF ds, c, f
  <2>2. Good(in, ds \o c \o f)
    BY <1>7, <1>8, <1>9, ConcatGood
  <2> QED BY <2>1, <2>2
<1> QED BY <1>10, <1>11

\* A task of VPLS begins with a program that keeps the interfaces.
LEMMA VplsBeginsGood ==
  ASSUME InterfacesServe, NoneIsApart, IsInjective(NodeOrder), Fitted(actual),
         NEW t, VplsStart(t)
  PROVE  MayBegin(t) /\ \E in \in VplsInput : \E p, area : Begin(t, in, p, area) /\ Good(in, p)
<1> DEFINE Begins == \E in \in VplsInput : \E p, area : Begin(t, in, p, area) /\ Good(in, p)
<1>1. ASSUME NEW in \in VplsInput, Refuse(t, in) PROVE Begins
  BY <1>1, EndAside DEF Refuse
<1>2. ASSUME NEW in \in VplsInput, NEW p, NEW area, Begin(t, in, p, area), Good(in, p) PROVE Begins
  BY <1>2
<1> HIDE DEF Begins
<1>3. ASSUME StartCreateVpls(t) PROVE Begins
  <2>1. PICK in \in VplsInput :
          /\ in.do = "create"
          /\ \/ Refuse(t, in)
             \/ \E order \in SetToSeqs(VplsIds(in.devices)) :
                  Begin(t, in, CreateVplsTask(in, order), VplsIds(in.devices))
    BY <1>3 DEF StartCreateVpls
  <2>2. ASSUME NEW order \in SetToSeqs(VplsIds(in.devices)),
               Begin(t, in, CreateVplsTask(in, order), VplsIds(in.devices))
        PROVE  Begins
    BY <1>2, <2>1, <2>2, CreateGood
  <2> QED BY <1>1, <2>1, <2>2
<1>4. ASSUME StartDeleteVpls(t) PROVE Begins
  <2>1. PICK in \in VplsInput :
          /\ in.do = "delete"
          /\ \/ Refuse(t, in)
             \/ \E s \in FoundVpls(in.id, {in.id}) : \E order \in SetToSeqs(KnownIds(s)) :
                  Begin(t, in, DeleteVplsTask(s, order, in.dryrun), KnownIds(s))
    BY <1>4 DEF StartDeleteVpls
  <2>2. ASSUME NEW s \in FoundVpls(in.id, {in.id}), NEW order \in SetToSeqs(KnownIds(s)),
               Begin(t, in, DeleteVplsTask(s, order, in.dryrun), KnownIds(s))
        PROVE  Begins
    <3>1. s.id = in.id /\ IsFiniteSet(KnownIds(s)) /\ in.dryrun \in BOOLEAN
      BY KnownFinite, VplsInputAssumption DEF FoundVpls
    <3>2. Good(in, DeleteInstances(s, order, KnownIds(s))) /\ Good(in, Finish(in.dryrun, KnownIds(s)))
      BY <3>1, DeletesGood, EndAside
    <3>3. Good(in, DeleteVplsTask(s, order, in.dryrun))
      BY <3>2, ConcatGood DEF DeleteVplsTask
    <3> QED BY <1>2, <2>2, <3>3
  <2> QED BY <1>1, <2>1, <2>2
<1>5. ASSUME StartAddDevice(t) PROVE Begins
  <2>1. PICK in \in VplsInput :
          /\ in.do = "add"
          /\ \/ Refuse(t, in)
             \/ \E s \in FoundVpls(in.id, Name) :
                  \E order \in SetToSeqs(VplsIds(SetToSeq(s.devices) \o in.devices)) :
                    Begin(t, in,
                      AddDeviceTask(s, SetToSeq(s.devices) \o in.devices, order, in.dryrun),
                      VplsIds(SetToSeq(s.devices) \o in.devices))
    BY <1>5 DEF StartAddDevice
  <2>2. ASSUME NEW s \in FoundVpls(in.id, Name), NEW ends,
               ends = SetToSeq(s.devices) \o in.devices,
               NEW order \in SetToSeqs(VplsIds(ends)),
               Begin(t, in, AddDeviceTask(s, ends, order, in.dryrun), VplsIds(ends))
        PROVE  Begins
    BY <1>2, <2>1, <2>2, AddGood
  <2> QED BY <1>1, <2>1, <2>2
<1>6. ASSUME StartRemoveDevice(t) PROVE Begins
  <2> DEFINE Left(s, in) == SetToSeq({e \in s.devices : e.id \notin in.removed})
  <2>1. PICK in \in VplsInput :
          /\ in.do = "remove"
          /\ \/ Refuse(t, in)
             \/ \E s \in FoundVpls(in.id, Name) :
                  \/ Refuse(t, in)
                  \/ \E order \in SetToSeqs(VplsIds(Left(s, in))),
                        removed \in SetToSeqs(in.removed), raises \in BOOLEAN :
                       Begin(t, in,
                         RemoveDeviceTask(s, Left(s, in), order, removed, in.dryrun, raises),
                         VplsIds(Left(s, in)) \cup in.removed)
    BY <1>6 DEF StartRemoveDevice
  <2>2. ASSUME NEW s \in FoundVpls(in.id, Name), NEW ends, ends = Left(s, in),
               NEW order \in SetToSeqs(VplsIds(ends)), NEW removed \in SetToSeqs(in.removed),
               NEW raises \in BOOLEAN,
               Begin(t, in, RemoveDeviceTask(s, ends, order, removed, in.dryrun, raises),
                     VplsIds(ends) \cup in.removed)
        PROVE  Begins
    <3>1. Good(in, RemoveDeviceTask(s, ends, order, removed, in.dryrun, raises))
      BY <2>1, <2>2, RemoveGood
    <3> QED BY <1>2, <2>2, <3>1
  <2> HIDE DEF Left
  <2> QED BY <1>1, <2>1, <2>2
<1>7. ASSUME StartWriteVpls(t) PROVE Begins
  <2>1. PICK in \in VplsInput :
          /\ in.do \in {"write", "erase"}
          /\ \E order \in SetToSeqs(VplsIds(in.devices)) :
               Begin(t, in,
                 IF in.do = "erase" THEN DeleteInstances(in, order, {})
                 ELSE CreateInstances(in, in.devices, order, {}, "withdraw_abort"),
                 VplsIds(in.devices))
    BY <1>7 DEF StartWriteVpls
  <2>2. PICK order \in SetToSeqs(VplsIds(in.devices)) :
          Begin(t, in,
            IF in.do = "erase" THEN DeleteInstances(in, order, {})
            ELSE CreateInstances(in, in.devices, order, {}, "withdraw_abort"),
            VplsIds(in.devices))
    BY <2>1
  <2>3. /\ in.devices \in Seq(Range(in.devices)) /\ IsFiniteSet(VplsIds(in.devices))
        /\ Unknown \notin VplsIds(in.devices)
    BY VplsInputFacts, EndsFacts DEF VplsIds
  <2>4. AreAsked(in.id, Range(in.devices))
    BY DEF AreAsked, Ports
  <2>5. Good(in, DeleteInstances(in, order, {}))
    BY <2>3, DeletesGood
  <2>6. Good(in, CreateInstances(in, in.devices, order, {}, "withdraw_abort"))
    BY <2>3, <2>4, InstancesGood
  <2> DEFINE p == IF in.do = "erase" THEN DeleteInstances(in, order, {})
                  ELSE CreateInstances(in, in.devices, order, {}, "withdraw_abort")
  <2>7. Good(in, p)
    BY <2>5, <2>6
  <2> HIDE DEF p
  <2> QED BY <1>2, <2>2, <2>7 DEF p
<1>8. Begins
  BY <1>3, <1>4, <1>5, <1>6, <1>7 DEF VplsStart
<1> QED BY <1>8 DEF Begins, VplsStart
-----------------------------------------------------------------------------
(* What is left of a program keeps the interfaces, too *)

\* What is left of a program: it brings nothing more to the network, or writes
\* again all that it deletes.
Keeps(in, p) ==
  /\ \A x \in Steps(p) : FitStep(in, x)
  /\ Still(p) \/ (Refills(p) /\ Skips(p))

\* What is written is written later on, unless it is written now.
LEMMA FillingTail ==
  ASSUME NEW p, IsProgram(p), p # <<>>, NEW d, NEW o
  PROVE  Filling(p, d, o) => Puts(p[1], d, o) \/ Filling(Tail(p), d, o)
<1> DEFINE q == Tail(p)
<1>1. /\ Len(p) \in Nat \ {0} /\ Len(q) = Len(p) - 1
      /\ \A k \in 1..(Len(p) - 1) : q[k] = p[k + 1]
  BY ProgramTail
<1> HIDE DEF q
<1> SUFFICES ASSUME Filling(p, d, o), ~Puts(p[1], d, o) PROVE Filling(q, d, o)
  BY DEF q
<1>2. PICK k \in 1..Len(p) : Puts(p[k], d, o)
  BY DEF Filling
<1>3. k # 1
  BY <1>2
<1>4. k - 1 \in 1..(Len(p) - 1) /\ (k - 1) + 1 = k
  BY <1>1, <1>3
<1>5. k - 1 \in 1..Len(q) /\ q[k - 1] = p[k]
  BY <1>1, <1>4
<1> QED BY <1>2, <1>5 DEF Filling

\* What is deleted now is written later on.
LEMMA RefillsTail ==
  ASSUME NEW p, IsProgram(p), p # <<>>
  PROVE  /\ Refills(p) => Refills(Tail(p))
         /\ Skips(p) => Skips(Tail(p))
         /\ Refills(p) => \A d, i : Empties(p[1], d, Port(i)) => Filling(Tail(p), d, Port(i))
         /\ Skips(p) /\ p[1].fails = "skip" =>
              Tail(p) # <<>> /\ ~WritesPort(Tail(p)[1])
<1> DEFINE q == Tail(p)
           n == Len(p)
<1>1. /\ n \in Nat \ {0} /\ Len(q) = n - 1 /\ IsProgram(q)
      /\ \A k \in 1..(n - 1) : q[k] = p[k + 1]
  BY ProgramTail
<1> HIDE DEF q, n
<1>2. \A k \in 1..n : k # 1 => k - 1 \in 1..(n - 1) /\ q[k - 1] = p[k]
  <2>1. \A k \in 1..n : k # 1 => k - 1 \in 1..(n - 1) /\ (k - 1) + 1 = k
    BY <1>1
  <2> QED BY <1>1, <2>1
<1>3. \A k \in 1..(n - 1) : k + 1 \in 1..n /\ q[k] = p[k + 1]
  BY <1>1
<1>4. ASSUME Refills(p) PROVE Refills(q)
  <2> SUFFICES ASSUME NEW d, NEW i, NEW k \in 1..(n - 1), Empties(q[k], d, Port(i))
               PROVE  \E m \in 1..(n - 1) : m > k /\ Puts(q[m], d, Port(i))
    BY <1>1 DEF Refills
  <2>1. k + 1 \in 1..n /\ Empties(p[k + 1], d, Port(i))
    BY <1>3
  <2>2. PICK m \in 1..n : m > k + 1 /\ Puts(p[m], d, Port(i))
    BY <1>4, <2>1 DEF Refills, n
  <2>3. m # 1 /\ m - 1 > k
    BY <1>1, <2>2
  <2> QED BY <1>2, <2>2, <2>3
<1>5. ASSUME Skips(p) PROVE Skips(q)
  <2> SUFFICES ASSUME NEW k \in 1..(n - 1), q[k].fails = "skip"
               PROVE  k + 1 \in 1..(n - 1) /\ ~WritesPort(q[k + 1])
    BY <1>1 DEF Skips
  <2>1. k + 1 \in 1..n /\ p[k + 1].fails = "skip"
    BY <1>3
  <2>2. (k + 1) + 1 \in 1..n /\ ~WritesPort(p[(k + 1) + 1])
    BY <1>5, <2>1 DEF Skips, n
  <2>3. (k + 1) + 1 # 1 /\ ((k + 1) + 1) - 1 = k + 1
    BY <1>1
  <2> QED BY <1>2, <2>2, <2>3
<1>6. ASSUME Refills(p), NEW d, NEW i, Empties(p[1], d, Port(i)) PROVE Filling(q, d, Port(i))
  <2>1. 1 \in 1..n
    BY <1>1
  <2>2. PICK m \in 1..n : m > 1 /\ Puts(p[m], d, Port(i))
    BY <1>6, <2>1 DEF Refills, n
  <2>3. m - 1 \in 1..Len(q) /\ q[m - 1] = p[m]
    BY <1>1, <1>2, <2>2
  <2> QED BY <2>2, <2>3 DEF Filling
<1>7. ASSUME Skips(p), p[1].fails = "skip" PROVE q # <<>> /\ ~WritesPort(q[1])
  <2>1. 1 \in 1..n
    BY <1>1
  <2>2. 1 + 1 \in 1..n /\ ~WritesPort(p[1 + 1])
    BY <1>7, <2>1 DEF Skips, n
  <2>3. 1 \in 1..(n - 1)
    BY <1>1, <2>2
  <2>4. q[1] = p[1 + 1] /\ 1 \in 1..Len(q)
    BY <1>1, <2>3
  <2>5. q # <<>>
    <3>1. Len(<<>>) = 0 /\ 1 \notin 1..0
      OBVIOUS
    <3> QED BY <2>4, <3>1
  <2> QED BY <2>2, <2>4, <2>5
<1> QED BY <1>4, <1>5, <1>6, <1>7 DEF q

\* The rest of a program.
LEMMA KeepsTail ==
  ASSUME NEW in, NEW ids, NEW p, Own(in, ids, p), p # <<>>, Keeps(in, p)
  PROVE  Keeps(in, Tail(p)) /\ Own(in, ids, Tail(p)) /\ FitStep(in, p[1])
<1>1. IsProgram(p) /\ Own(in, ids, Tail(p)) /\ (Still(p) => Still(Tail(p))) /\ 1 \in 1..Len(p)
  BY OwnTail DEF Own
<1>2. \A x \in Steps(Tail(p)) : x \in Steps(p)
  <2> SUFFICES ASSUME NEW k \in 1..Len(Tail(p)) PROVE Tail(p)[k] \in Steps(p)
    BY DEF Steps
  <2>1. /\ Len(p) \in Nat \ {0} /\ Len(Tail(p)) = Len(p) - 1
        /\ \A j \in 1..(Len(p) - 1) : Tail(p)[j] = p[j + 1]
    BY <1>1, ProgramTail
  <2>2. k \in 1..(Len(p) - 1) /\ k + 1 \in 1..Len(p)
    BY <2>1
  <2> QED BY <2>1, <2>2 DEF Steps
<1>3. FitStep(in, p[1])
  BY <1>1 DEF Keeps, Steps
<1> QED BY <1>1, <1>2, <1>3, RefillsTail DEF Keeps

\* What is left when a call failed.
LEMMA KeepsLeft ==
  ASSUME NEW in, NEW ids, NEW p, Own(in, ids, p), p # <<>>, Keeps(in, p), IsStep(p[1]),
         Len(p) = 1 => p[1].fails \notin {"skip", "withdraw"}, NEW q,
         LET x == p[1]
             w == [x EXCEPT !.value = None, !.undo = {}, !.fails = "ignore"]
             rest == Tail(p)
         IN \/ x.fails = "abort" /\ q = <<Rollback(x.undo)>>
            \/ x.fails \in {"ignore", "overlook"} /\ q = rest
            \/ x.fails = "skip" /\ q = Tail(rest)
            \/ x.fails = "withdraw" /\ q = <<w, rest[Len(rest)]>>
            \/ x.fails = "withdraw_abort" /\ q = <<w, Rollback(x.undo)>>
  PROVE  Keeps(in, q)
<1> DEFINE x == p[1]
           w == [x EXCEPT !.value = None, !.undo = {}, !.fails = "ignore"]
           rest == Tail(p)
           r == Rollback(x.undo)
           last == rest[Len(rest)]
<1>1. /\ Len(p) \in Nat \ {0} /\ IsProgram(rest) /\ Len(rest) = Len(p) - 1 /\ IsProgram(p)
      /\ \A k \in 1..(Len(p) - 1) : rest[k] = p[k + 1]
  BY ProgramTail DEF Own
<1>2. /\ Keeps(in, rest) /\ Own(in, ids, rest) /\ FitStep(in, x)
      /\ Still(p) => Still(rest)
  BY KeepsTail, OwnTail
<1>3. Aside(in, r) /\ r.call # "commit"
  BY RollbackFacts DEF Aside, FitStep, WritesPort
<1>4. x.fails \in {"withdraw", "withdraw_abort"} => Aside(in, w) /\ w.call # "commit"
  <2> SUFFICES ASSUME x.fails \in {"withdraw", "withdraw_abort"}
               PROVE  Aside(in, w) /\ w.call # "commit"
    OBVIOUS
  <2>1. w.call = x.call /\ w.object = x.object /\ w.value = None /\ w.fails = "ignore"
    BY DEF IsStep
  <2>2. x.object = Instance(in.id) /\ x.call = "write"
    <3>1. OwnStep(in, ids, x)
      BY OwnTail
    <3> QED BY <1>2, <3>1 DEF FitStep, OwnStep
  <2> HIDE DEF w, x
  <2> QED BY <2>1, <2>2, PortsApart DEF Aside, FitStep, WritesPort, Fit
<1>5. /\ \/ x.fails = "abort" /\ q = <<r>>
         \/ x.fails \in {"ignore", "overlook"} /\ q = rest
         \/ x.fails = "skip" /\ q = Tail(rest)
         \/ x.fails = "withdraw" /\ q = <<w, last>>
         \/ x.fails = "withdraw_abort" /\ q = <<w, r>>
      /\ Len(p) = 1 => x.fails \notin {"skip", "withdraw"}
  OBVIOUS
<1> HIDE DEF w, r
<1>6. ASSUME NEW y, NEW z, Aside(in, y), FitStep(in, z)
      PROVE  /\ \A s \in Steps(<<y, z>>) : FitStep(in, s)
             /\ y.call # "commit" /\ z.call # "commit" => Still(<<y, z>>)
             /\ z.fails # "skip" /\ (\A d, i : ~Empties(z, d, Port(i))) =>
                  Refills(<<y, z>>) /\ Skips(<<y, z>>)
  <2> DEFINE s == <<y, z>>
  <2>1. s \in Seq({y, z}) /\ Len(s) = 2 /\ s[1] = y /\ s[2] = z
    OBVIOUS
  <2> HIDE DEF s
  <2>2. \A k : k \in 1..2 <=> k = 1 \/ k = 2
    OBVIOUS
  <2>3. Steps(s) = {y, z} /\ IsProgram(s)
    BY <2>1, <2>2 DEF Steps, IsProgram
  <2>4. \A d, i : ~Empties(y, d, Port(i))
    BY <1>6 DEF Aside, Empties, WritesTo, WritesPort
  <2>5. y.fails # "skip" /\ FitStep(in, y)
    BY <1>6 DEF Aside
  <2>6. z.fails # "skip" /\ (\A d, i : ~Empties(z, d, Port(i))) => Refills(s) /\ Skips(s)
    BY <2>1, <2>2, <2>4, <2>5 DEF Refills, Skips
  <2>7. /\ \A e \in Steps(s) : FitStep(in, e)
        /\ y.call # "commit" /\ z.call # "commit" => Still(s)
    BY <1>6, <2>3, <2>5 DEF Still
  <2> QED BY <2>6, <2>7 DEF s
<1> HIDE DEF rest, x
<1>7. CASE x.fails = "abort" /\ q = <<r>>
  BY <1>3, <1>7, AsideFew DEF Good, Keeps
<1>8. CASE x.fails \in {"ignore", "overlook"} /\ q = rest
  BY <1>2, <1>8
<1>9. Len(p) # 1 => rest # <<>> /\ Len(rest) \in 1..Len(rest) /\ last = p[Len(p)]
  <2> SUFFICES ASSUME Len(p) # 1
               PROVE  rest # <<>> /\ Len(rest) \in 1..Len(rest) /\ last = p[Len(p)]
    OBVIOUS
  <2>1. Len(<<>>) = 0
    OBVIOUS
  <2>2. rest = <<>> => Len(rest) = 0
    BY <2>1
  <2>3. Len(rest) # 0 /\ Len(rest) \in 1..Len(rest) /\ Len(p) - 1 \in 1..(Len(p) - 1)
        /\ (Len(p) - 1) + 1 = Len(p)
    BY <1>1
  <2> QED BY <1>1, <2>2, <2>3
<1>10. CASE x.fails = "skip" /\ q = Tail(rest)
  BY <1>2, <1>5, <1>9, <1>10, KeepsTail
<1>11. CASE x.fails = "withdraw" /\ q = <<w, last>>
  <2>1. Len(p) # 1 /\ last \in Steps(rest)
    BY <1>5, <1>9, <1>11 DEF Steps
  <2>2. FitStep(in, last) /\ (Still(rest) => last.call # "commit")
    BY <1>2, <2>1 DEF Keeps, Still
  <2>3. Aside(in, w) /\ w.call # "commit"
    BY <1>4, <1>11
  <2>4. Refills(p) /\ Skips(p) => last.fails # "skip" /\ \A d, i : ~Empties(last, d, Port(i))
    <3> SUFFICES ASSUME Refills(p), Skips(p)
                 PROVE  last.fails # "skip" /\ \A d, i : ~Empties(last, d, Port(i))
      OBVIOUS
    <3>1. last = p[Len(p)] /\ Len(p) \in 1..Len(p) /\ Len(p) + 1 \notin 1..Len(p)
          /\ ~\E m \in 1..Len(p) : m > Len(p)
      BY <1>1, <1>9, <2>1
    <3> HIDE DEF last
    <3> QED BY <3>1 DEF Refills, Skips
  <2> HIDE DEF last
  <2>5. /\ \A s \in Steps(q) : FitStep(in, s)
        /\ last.call # "commit" => Still(q)
        /\ last.fails # "skip" /\ (\A d, i : ~Empties(last, d, Port(i))) =>
             Refills(q) /\ Skips(q)
    BY <1>6, <1>11, <2>2, <2>3
  <2> QED BY <1>2, <2>2, <2>4, <2>5 DEF Keeps
<1>12. CASE x.fails = "withdraw_abort" /\ q = <<w, r>>
  <2>1. Aside(in, w) /\ w.call # "commit" /\ FitStep(in, r)
    BY <1>3, <1>4, <1>12 DEF Aside
  <2> QED BY <1>3, <1>6, <1>12, <2>1 DEF Keeps
<1> QED BY <1>5, <1>7, <1>8, <1>10, <1>11, <1>12
-----------------------------------------------------------------------------
(* The invariant of the interfaces *)

\* Both datastores of a device have the interface.
Stands(d, i) == intent[d][Port(i)] # None /\ actual[d][Port(i)] # None

\* The task creates the service, which is not there yet, and has deleted the
\* interface to write it anew before the service is there.
Refilling(t, n, d, i) ==
  /\ DoesVpls(t, "create") /\ input[t].id = n /\ d \in scope[t] /\ Members(actual, n) = {}
  /\ Running(t) => Still(todo[t]) \/ intent[d][Port(i)] # None \/ Filling(todo[t], d, Port(i))

\* The interfaces of a service are there, or on their way.
PortsOf(n) == {dp \in Ports(n) : dp[1] \in Node}
Served(n) ==
  \A dp \in PortsOf(n) :
    Stands(dp[1], dp[2]) \/ \E t \in Task : Refilling(t, n, dp[1], dp[2])

\* The invariant: the stores hold what suits, programs write again what they
\* delete, and the interfaces of a calm service are there.
PortsInv ==
  /\ Fitted(intent) /\ Fitted(actual)
  /\ \A t \in Task : Running(t) => Keeps(input[t], todo[t])
  /\ \A n \in Name : Calm(n) => Served(n)

\* A step of a running task: the call at the head of its program is done, it
\* fails, or the task ends.
Went(t, x) ==
  /\ todo[t] # <<>> /\ x = todo[t][1] /\ Done(t, x) /\ x.call # "rollback"
  /\ todo'[t] = Tail(todo[t]) /\ (Len(todo[t]) # 1 => Running(t)')
Passed(t, x) ==
  /\ todo[t] # <<>> /\ x = todo[t][1] /\ UNCHANGED <<intent, actual>>
  /\ \/ x.fails \in {"ignore", "overlook"} /\ todo'[t] = Tail(todo[t])
     \/ x.fails = "skip" /\ todo'[t] = Tail(Tail(todo[t]))
     \/ x.fails = "withdraw"
     \/ Still(todo'[t])
Stopped(t, x) == ~Running(t)' /\ x.call \notin {"write", "commit"}

\* What a step x of a running task does, one way or another.
Treads(t, x) ==
  /\ Running(t) /\ OwnStep(input[t], scope[t], x) /\ FitStep(input[t], x) /\ Deed(t, x)
  /\ input' = input /\ scope' = scope /\ disturbed' = disturbed
  /\ \A u \in Task \ {t} : todo'[u] = todo[u] /\ result'[u] = result[u] /\ broke'[u] = broke[u]
  /\ broke[t] # <<>> => broke'[t] # <<>>
  /\ Running(t)' => Keeps(input[t], todo'[t]) /\ (Still(todo[t]) => Still(todo'[t]))
  /\ Went(t, x) \/ Passed(t, x) \/ Stopped(t, x)

\* A call that succeeds.
LEMMA SucceedsTreads ==
  ASSUME VplsInv, PortsInv, NEW t \in Task,
         ReadData(t) \/ WriteData(t) \/ CommitData(t) \/ SyncData(t) \/ DryRunData(t)
  PROVE  \E x : Treads(t, x)
<1> DEFINE p == todo[t]
           x == p[1]
<1>1. /\ Running(t) /\ p # <<>> /\ GoOn(t) /\ This(t).call # "rollback"
  BY DEF ReadData, WriteData, CommitData, SyncData, DryRunData, Doing
<1>2. /\ todo' = [todo EXCEPT ![t] = Tail(p)]
      /\ result' = IF Len(p) = 1 THEN [result EXCEPT ![t] = "COMPLETED"] ELSE result
      /\ input' = input /\ scope' = scope /\ disturbed' = disturbed /\ broke' = broke
  BY <1>1 DEF GoOn
<1>3. Own(input[t], scope[t], p) /\ Tables /\ Keeps(input[t], p)
  BY <1>1, VplsTask DEF PortsInv
<1>4. OwnStep(input[t], scope[t], x) /\ This(t) = x
  BY <1>1, <1>3, OwnTail DEF This
<1>5. Keeps(input[t], Tail(p)) /\ FitStep(input[t], x) /\ (Still(p) => Still(Tail(p)))
  BY <1>1, <1>3, KeepsTail, OwnTail
<1>6. /\ \A u \in Task \ {t} : todo'[u] = todo[u] /\ result'[u] = result[u]
      /\ todo'[t] = Tail(p) /\ (Len(p) # 1 => Running(t)')
  BY <1>1, <1>2, <1>3 DEF Tables, Running
<1>7. Done(t, This(t))
  BY DEF ReadData, WriteData, CommitData, SyncData, DryRunData, Doing, Done
<1> HIDE DEF p, x
<1>8. Done(t, x) /\ x.call # "rollback"
  BY <1>1, <1>4, <1>7
<1>9. Went(t, x) /\ todo'[t] = Tail(p) /\ todo[t] = p
  BY <1>1, <1>6, <1>8 DEF Went, p, x
<1>10. Treads(t, x)
  BY <1>1, <1>2, <1>4, <1>5, <1>6, <1>8, <1>9 DEF Treads, Deed
<1> QED BY <1>10

\* A task ends in a rollback, or its worker dies.
LEMMA StopTreads ==
  ASSUME VplsInv, PortsInv, NEW t \in Task, RollBack(t) \/ WorkerDies(t)
  PROVE  \E x : Treads(t, x)
<1>1. CASE RollBack(t)
  <2> DEFINE x == This(t)
  <2>1. /\ Running(t) /\ todo[t] # <<>> /\ x.call = "rollback"
        /\ result' = [result EXCEPT ![t] = "FAILED"] /\ todo' = [todo EXCEPT ![t] = <<>>]
        /\ input' = input /\ scope' = scope /\ disturbed' = disturbed
        /\ broke' = broke \/ broke' = [broke EXCEPT ![t] = Append(@, x)]
    BY <1>1 DEF RollBack, Doing
  <2>2. Own(input[t], scope[t], todo[t]) /\ Tables /\ Keeps(input[t], todo[t])
    BY <2>1, VplsTask DEF PortsInv
  <2>3. OwnStep(input[t], scope[t], x) /\ FitStep(input[t], x)
    <3>1. todo[t] # <<>>
      BY <2>1
    <3>2. OwnStep(input[t], scope[t], todo[t][1]) /\ Head(todo[t]) = todo[t][1]
      BY <2>2, <3>1, OwnTail
    <3>3. FitStep(input[t], todo[t][1])
      BY <2>2, <3>1, KeepsTail
    <3> QED BY <3>2, <3>3 DEF This
  <2>4. Deed(t, x)
    BY <1>1 DEF RollBack, Doing, Deed, Done
  <2>5. /\ \A u \in Task \ {t} : /\ todo'[u] = todo[u] /\ result'[u] = result[u]
                                 /\ broke'[u] = broke[u]
        /\ result'[t] = "FAILED"
    BY <2>1, <2>2 DEF Tables
  <2>6. broke[t] # <<>> => broke'[t] # <<>>
    <3>1. IsProgram(broke[t]) /\ DOMAIN broke = Task
      BY <2>2 DEF Tables
    <3>2. Append(broke[t], x) # <<>>
      <4>1. Len(broke[t]) + 1 \in DOMAIN Append(broke[t], x)
        BY <3>1, AppendFacts
      <4>2. DOMAIN <<>> = {}
        OBVIOUS
      <4>3. ASSUME Append(broke[t], x) = <<>> PROVE FALSE
        BY <4>1, <4>2, <4>3
      <4> QED BY <4>3
    <3>3. CASE broke' = broke
      BY <3>3
    <3>4. CASE broke' = [broke EXCEPT ![t] = Append(@, x)]
      <4>1. broke'[t] = Append(broke[t], x)
        BY <3>1, <3>4
      <4> QED BY <3>2, <4>1
    <3> QED BY <2>1, <3>3, <3>4
  <2>7. ~Running(t)'
    BY <2>5 DEF Running
  <2> HIDE DEF x
  <2>8. Stopped(t, x)
    BY <2>1, <2>7 DEF Stopped
  <2>9. Treads(t, x)
    BY <2>1, <2>3, <2>4, <2>5, <2>6, <2>7, <2>8 DEF Treads
  <2> QED BY <2>9
<1>2. CASE WorkerDies(t)
  <2>1. /\ Running(t)
        /\ result' = [result EXCEPT ![t] = "LOST"] /\ todo' = [todo EXCEPT ![t] = <<>>]
        /\ UNCHANGED <<intent, actual, dirty, input, scope, disturbed, broke>>
    BY <1>2 DEF WorkerDies
  <2>2. Tables
    BY DEF VplsInv, L2Inv
  <2>3. /\ \A u \in Task \ {t} : todo'[u] = todo[u] /\ result'[u] = result[u]
        /\ result'[t] = "LOST"
    BY <2>1, <2>2 DEF Tables
  <2>4. ~Running(t)'
    BY <2>3 DEF Running
  <2>5. OwnStep(input[t], scope[t], Raise) /\ Raise.call = "rollback" /\ Deed(t, Raise)
    BY <2>1 DEF Raise, Rollback, Call, OwnStep, Deed
  <2>6. FitStep(input[t], Raise)
    BY EndAside DEF Aside
  <2>7. Stopped(t, Raise)
    BY <2>4, <2>5 DEF Stopped
  <2>8. Treads(t, Raise)
    BY <2>1, <2>3, <2>4, <2>5, <2>6, <2>7 DEF Treads
  <2> QED BY <2>8
<1> QED BY <1>1, <1>2

\* A call that fails.
LEMMA FailsTreads ==
  ASSUME VplsInv, PortsInv, NEW t \in Task, CallFails(t)
  PROVE  \E x : Treads(t, x)
<1> DEFINE x == This(t)
           p == todo[t]
           rest == Tail(p)
           w == [x EXCEPT !.value = None, !.undo = {}, !.fails = "ignore"]
<1>1. /\ Running(t) /\ p # <<>> /\ x.call # "rollback"
      /\ UNCHANGED <<intent, actual, input, scope, dirty, disturbed>>
  BY DEF CallFails
<1>2. /\ Own(input[t], scope[t], p) /\ Tables /\ TaskSound(t) /\ Keeps(input[t], p)
  BY <1>1, VplsTask DEF PortsInv
<1>3. x = p[1] /\ OwnStep(input[t], scope[t], x) /\ 1 \in 1..Len(p) /\ FitStep(input[t], x)
  <2>1. OwnStep(input[t], scope[t], p[1]) /\ Head(p) = p[1] /\ 1 \in 1..Len(p)
    BY <1>1, <1>2, OwnTail
  <2>2. FitStep(input[t], p[1])
    BY <1>1, <1>2, KeepsTail
  <2> QED BY <2>1, <2>2 DEF This
<1>4. IsStep(x) /\ (Len(p) = 1 => x.fails \notin {"skip", "withdraw"})
  <2>1. Going(t)
    BY <1>1, <1>2, GoingIf
  <2>2. PICK ids : SoundFrom(input[t], ids, p, dirty[t]) /\ EndSound(input[t], ids, p)
    BY <2>1 DEF Going, Follows
  <2>3. Apt(ids, p[1])
    BY <1>3, <2>2 DEF SoundFrom
  <2>4. Len(p) = 1 => LastSound(input[t], ids, p[1])
    BY <1>1, <2>2 DEF EndSound
  <2> QED BY <1>3, <2>3, <2>4 DEF Apt, LastSound
<1>5. /\ todo'[t] = IF x.fails = "abort" THEN <<Rollback(x.undo)>>
                    ELSE IF x.fails \in {"ignore", "overlook"} THEN rest
                    ELSE IF x.fails = "skip" THEN Tail(rest)
                    ELSE IF x.fails = "withdraw" THEN <<w, rest[Len(rest)]>>
                    ELSE <<w, Rollback(x.undo)>>
      /\ x.fails \in {"abort", "ignore", "overlook", "skip", "withdraw", "withdraw_abort"}
  <2>1. DOMAIN todo = Task
    BY <1>2 DEF Tables
  <2> HIDE DEF x, w, rest
  <2>2. \/ x.fails = "abort" /\ todo' = [todo EXCEPT ![t] = <<Rollback(x.undo)>>]
        \/ x.fails \in {"ignore", "overlook"} /\ todo' = [todo EXCEPT ![t] = rest]
        \/ x.fails = "skip" /\ todo' = [todo EXCEPT ![t] = Tail(rest)]
        \/ x.fails = "withdraw" /\ todo' = [todo EXCEPT ![t] = <<w, rest[Len(rest)]>>]
        \/ x.fails = "withdraw_abort" /\ todo' = [todo EXCEPT ![t] = <<w, Rollback(x.undo)>>]
    BY DEF CallFails, x, w, rest, p
  <2> QED BY <2>1, <2>2
<1>6. /\ \A u \in Task \ {t} : /\ todo'[u] = todo[u] /\ result'[u] = result[u]
                               /\ broke'[u] = broke[u]
      /\ broke' = broke \/ broke' = [broke EXCEPT ![t] = Append(@, x)]
  <2> HIDE DEF x, w, rest, p
  <2>1. /\ \E q : todo' = [todo EXCEPT ![t] = q]
        /\ result' = result \/ result' = [result EXCEPT ![t] = "COMPLETED"]
        /\ broke' = broke \/ broke' = [broke EXCEPT ![t] = Append(@, x)]
    BY DEF CallFails, x
  <2>2. \A u \in Task \ {t} : todo'[u] = todo[u]
    BY <2>1
  <2>3. \A u \in Task \ {t} : broke'[u] = broke[u]
    <3>1. DOMAIN broke = Task
      BY <1>2 DEF Tables
    <3>2. PICK q : q = Append(broke[t], x)
      OBVIOUS
    <3>3. broke' = broke \/ broke' = [broke EXCEPT ![t] = q]
      BY <2>1, <3>2
    <3> QED BY <3>1, <3>3
  <2>4. \A u \in Task \ {t} : result'[u] = result[u]
    BY <1>2, <2>1 DEF Tables
  <2> QED BY <2>1, <2>2, <2>3, <2>4
<1>7. Append(broke[t], x) # <<>> /\ DOMAIN broke = Task
  <2>1. IsProgram(broke[t]) /\ DOMAIN broke = Task
    BY <1>2 DEF Tables
  <2>2. Len(broke[t]) + 1 \in DOMAIN Append(broke[t], x)
    BY <2>1, AppendFacts
  <2>3. DOMAIN <<>> = {}
    OBVIOUS
  <2>4. ASSUME Append(broke[t], x) = <<>> PROVE FALSE
    BY <2>2, <2>3, <2>4
  <2> QED BY <2>1, <2>4
<1>8. /\ Keeps(input[t], todo'[t])
      /\ Still(p) \/ x.fails \in {"abort", "withdraw_abort"} => Still(todo'[t])
  <2>1. PICK q : q = todo'[t]
    OBVIOUS
  <2>2. LET y == p[1]
            v == [y EXCEPT !.value = None, !.undo = {}, !.fails = "ignore"]
        IN \/ y.fails = "abort" /\ q = <<Rollback(y.undo)>>
           \/ y.fails \in {"ignore", "overlook"} /\ q = rest
           \/ y.fails = "skip" /\ q = Tail(rest)
           \/ y.fails = "withdraw" /\ q = <<v, rest[Len(rest)]>>
           \/ y.fails = "withdraw_abort" /\ q = <<v, Rollback(y.undo)>>
    <3> HIDE DEF x
    <3>1. \A v : v = x => x = p[1]
      BY <1>3
    <3> QED BY <1>3, <1>5, <2>1
  <2>3. Keeps(input[t], q)
    <3> HIDE DEF x
    <3> QED BY <1>1, <1>2, <1>3, <1>4, <2>2, KeepsLeft
  <2>4. Still(p) \/ p[1].fails \in {"abort", "withdraw_abort"} => Still(q)
    <3> HIDE DEF x
    <3> QED BY <1>1, <1>2, <1>3, <1>4, <2>2, LeftSteps
  <2> QED BY <1>3, <2>1, <2>3, <2>4
<1>14. p = todo[t]
  OBVIOUS
<1> HIDE DEF x, p, rest, w
<1>9. broke[t] # <<>> => broke'[t] # <<>>
  <2>1. CASE broke' = broke
    BY <2>1
  <2>2. CASE broke' = [broke EXCEPT ![t] = Append(@, x)]
    BY <1>7, <2>2
  <2> QED BY <1>6, <2>1, <2>2
<1>10. Passed(t, x)
  BY <1>1, <1>3, <1>5, <1>8 DEF Passed, p, rest
<1>11. Deed(t, x)
  BY <1>1 DEF Deed
<1>12. Treads(t, x)
  BY <1>1, <1>3, <1>6, <1>8, <1>9, <1>10, <1>11, <1>14 DEF Treads
<1> QED BY <1>12
-----------------------------------------------------------------------------
(* A step keeps the interfaces *)

\* An interface that is asked for is there at first.
LEMMA PortThere ==
  ASSUME InterfacesServe, NEW n, NEW d, NEW i, <<d, i>> \in PortsOf(n)
  PROVE  /\ d \in Node /\ i \in Interface /\ Port(i) \in Object /\ Port(i)[1] = "interface"
         /\ Initial[d][Port(i)] # None
         /\ \E in \in VplsInput : in.id = n /\ \E e \in Range(in.devices) :
              e.id = d /\ e.interface = i
<1>1. d \in Node /\ <<d, i>> \in Ports(n)
  BY DEF PortsOf
<1>2. PICK in \in VplsInput : in.id = n /\ \E e \in Range(in.devices) : e.id = d /\ e.interface = i
  BY <1>1 DEF Ports
<1>3. i \in Interface /\ Initial[d][Port(i)] # None
  BY <1>1, <1>2 DEF InterfacesServe
<1>4. Port(i) \in Object /\ Port(i)[1] = "interface"
  BY <1>3 DEF Port, Object
<1> QED BY <1>1, <1>2, <1>3, <1>4

\* What is written suits, and what a datastore gets from the other one.
LEMMA FittedKept ==
  ASSUME WholeStores, Fitted(intent), Fitted(actual), NEW t, NEW x, Deed(t, x), NEW in,
         FitStep(in, x)
  PROVE  Fitted(intent') /\ Fitted(actual')
<1> SUFFICES ASSUME NEW d \in Node, NEW o \in Object
             PROVE  Fit(d, o, intent'[d][o]) /\ Fit(d, o, actual'[d][o])
  BY DEF Fitted
<1>1. Fit(d, o, intent[d][o]) /\ Fit(d, o, actual[d][o])
  BY DEF Fitted
<1>2. /\ \/ intent'[d][o] = intent[d][o]
         \/ WritesTo(x, d, o) /\ intent'[d][o] = x.value
         \/ x.call = "rollback" /\ intent'[d][o] = actual[d][o]
      /\ \/ actual'[d][o] = actual[d][o]
         \/ actual'[d][o] = intent[d][o]
         \/ o[1] = "interface"
  BY ObjectEffects
<1>3. WritesTo(x, d, o) => Fit(d, o, x.value)
  BY DEF FitStep, WritesTo
<1>4. \A v : o[1] = "interface" => Fit(d, o, v)
  BY DEF Fit, Policy, Instance
<1> QED BY <1>1, <1>2, <1>3, <1>4

\* An interface stays, unless the step is done that deletes it.
LEMMA StandsKept ==
  ASSUME WholeStores, NEW t, NEW x, Deed(t, x), NEW d \in Node, NEW i, Port(i) \in Object,
         Stands(d, i)
  PROVE  \/ Stands(d, i)'
         \/ Done(t, x) /\ Empties(x, d, Port(i)) /\ actual' = actual
<1>1. intent[d][Port(i)] # None /\ actual[d][Port(i)] # None
  BY DEF Stands
<1>2. /\ \/ intent'[d][Port(i)] = intent[d][Port(i)]
         \/ WritesTo(x, d, Port(i)) /\ Done(t, x) /\ intent'[d][Port(i)] = x.value
         \/ x.call = "rollback" /\ intent'[d][Port(i)] = actual[d][Port(i)]
      /\ \/ actual'[d][Port(i)] = actual[d][Port(i)]
         \/ actual'[d][Port(i)] = intent[d][Port(i)]
         \/ actual[d][Port(i)] = None
  BY ObjectEffects
<1>3. Done(t, x) /\ x.call = "write" => actual' = actual
  BY DEF Done
<1>4. WritesTo(x, d, Port(i)) => x.call = "write"
  BY DEF WritesTo
<1>5. Stands(d, i)' <=> intent'[d][Port(i)] # None /\ actual'[d][Port(i)] # None
  BY DEF Stands
<1> QED BY <1>1, <1>2, <1>3, <1>4, <1>5 DEF Empties

\* The service of a name gets its first instance by the last commit of the task
\* that creates it.
LEMMA MembersFound ==
  ASSUME VplsInv, NEW t \in Task, NEW x, Treads(t, x), NEW n \in Name, Calm(n),
         Members(actual, n) = {}, Members(actual', n) # {}
  PROVE  /\ Named(t, n) /\ DoesVpls(t, "create") /\ Went(t, x) /\ Done(t, x)
         /\ x.call = "commit" /\ Meant(t)
<1> DEFINE I == Instance(n)
<1>1. /\ input[t] # None /\ IsVpls(t) /\ WholeStores /\ Clean(n) /\ Apart(n)
      /\ Running(t) /\ Deed(t, x) /\ OwnStep(input[t], scope[t], x)
      /\ Went(t, x) \/ Passed(t, x) \/ Stopped(t, x)
      /\ Own(input[t], scope[t], todo[t])
  BY VplsTask DEF VplsInv, Treads, Meshing
<1>2. PICK d \in Node : actual'[d][I] # actual[d][I]
  <2> SUFFICES ASSUME \A d \in Node : actual'[d][I] = actual[d][I] PROVE FALSE
    OBVIOUS
  <2>1. Members(actual', n) = Members(actual, n)
    BY SameMembers
  <2> QED BY <2>1
<1>3. Named(t, n)
  BY <1>1, <1>2, ElsewhereKept
<1>4. x.call = "commit"
  BY <1>1, <1>2, Effects
<1>5. Done(t, x)
  BY <1>1, <1>2 DEF Deed
<1>6. Went(t, x)
  BY <1>1, <1>2, <1>4 DEF Passed, Stopped
<1>7. ~Still(todo[t])
  <2>1. todo[t] # <<>> /\ x = todo[t][1]
    BY <1>6 DEF Went
  <2> QED BY <1>1, <1>4, <2>1, OwnTail
<1>8. Meant(t)
  BY <1>1, <1>3, <1>7 DEF VplsInv, Meshing, Bound
<1>9. input[t].do = "create" /\ scope[t] # {}
  BY <1>3, <1>8 DEF Meant, Named
<1> QED BY <1>1, <1>3, <1>4, <1>5, <1>6, <1>8, <1>9 DEF DoesVpls

\* An interface that is there stays, or the task that creates the service resets it.
LEMMA StandsServed ==
  ASSUME VplsInv, PortsInv, InterfacesServe, NEW t \in Task, NEW x, Treads(t, x),
         NEW n \in Name, Calm(n), NEW d, NEW i, <<d, i>> \in PortsOf(n), Stands(d, i)
  PROVE  Stands(d, i)' \/ Refilling(t, n, d, i)'
<1>1. /\ d \in Node /\ Port(i) \in Object
      /\ \E in \in VplsInput : in.id = n /\ \E e \in Range(in.devices) :
              e.id = d /\ e.interface = i
  BY PortThere
<1>2. /\ input[t] \in VplsInput /\ IsVpls(t) /\ Running(t) /\ WholeStores /\ Deed(t, x)
      /\ OwnStep(input[t], scope[t], x) /\ FitStep(input[t], x)
      /\ Keeps(input[t], todo[t]) /\ Own(input[t], scope[t], todo[t])
      /\ input' = input /\ scope' = scope
      /\ Went(t, x) \/ Passed(t, x) \/ Stopped(t, x)
      /\ Running(t)' => (Still(todo[t]) => Still(todo'[t]))
  BY VplsTask DEF VplsInv, PortsInv, Treads
<1>3. Stands(d, i)' \/ (Done(t, x) /\ Empties(x, d, Port(i)) /\ actual' = actual)
  BY <1>1, <1>2, StandsKept
<1> SUFFICES ASSUME ~Stands(d, i)' PROVE Refilling(t, n, d, i)'
  OBVIOUS
<1>4. /\ x.call = "write" /\ d \in x.on /\ x.object = Port(i) /\ x.value = None
      /\ Empties(x, d, Port(i)) /\ actual' = actual
  BY <1>3 DEF Empties, WritesTo
<1>5. Clears(input[t], d, i)
  BY <1>2, <1>4 DEF FitStep
<1>6. input[t].id = n /\ input[t].do = "create"
  BY <1>1, <1>2, <1>5 DEF Clears, InterfacesServe
<1>7. d \in scope[t] /\ DoesVpls(t, "create") /\ DoesVpls(t, "create")'
  BY <1>2, <1>4, <1>6, AskedStay DEF OwnStep, DoesVpls
<1>8. Members(actual', n) = {}
  <2> SUFFICES ASSUME Members(actual, n) # {} PROVE FALSE
    BY <1>4
  <2>1. PICK u \in Task : ~Running(u) /\ DoesVpls(u, "create") /\ input[u].id = n
    BY DEF VplsInv, Meshing, Net
  <2>2. u = t
    BY <1>6, <1>7, <2>1 DEF Calm
  <2> QED BY <1>2, <2>1, <2>2
<1>9. ASSUME Running(t)' PROVE Still(todo'[t]) \/ Filling(todo'[t], d, Port(i))
  <2>1. CASE Still(todo[t])
    BY <1>2, <1>9, <2>1
  <2>2. CASE Refills(todo[t])
    <3>1. Went(t, x)
      <4>1. intent' # intent
        BY <1>4 DEF Stands
      <4> QED BY <1>2, <1>4, <1>9, <4>1 DEF Passed, Stopped
    <3>2. todo[t] # <<>> /\ x = todo[t][1] /\ todo'[t] = Tail(todo[t])
      BY <3>1 DEF Went
    <3>3. IsProgram(todo[t])
      BY <1>2 DEF Own
    <3>4. Filling(Tail(todo[t]), d, Port(i))
      BY <1>4, <2>2, <3>2, <3>3, RefillsTail
    <3> QED BY <3>2, <3>4
  <2> QED BY <1>2, <2>1, <2>2 DEF Keeps
<1> QED BY <1>2, <1>6, <1>7, <1>8, <1>9 DEF Refilling

\* A task that resets an interface is not in the way of another one.
LEMMA RefillingOther ==
  ASSUME VplsInv, InterfacesServe, NEW t \in Task, NEW x, Treads(t, x), NEW u \in Task \ {t},
         NEW n \in Name, Calm(n), NEW d, NEW i, <<d, i>> \in PortsOf(n), Refilling(u, n, d, i)
  PROVE  Refilling(u, n, d, i)'
<1>1. d \in Node /\ Port(i) \in Object
  BY PortThere
<1>2. /\ Running(t) /\ WholeStores /\ Deed(t, x) /\ OwnStep(input[t], scope[t], x)
      /\ input' = input /\ scope' = scope
      /\ todo'[u] = todo[u] /\ result'[u] = result[u]
  BY DEF VplsInv, Treads
<1>3. /\ DoesVpls(u, "create") /\ input[u].id = n /\ d \in scope[u] /\ Members(actual, n) = {}
      /\ Running(u) => \/ Still(todo[u]) \/ intent[d][Port(i)] # None
                       \/ Filling(todo[u], d, Port(i))
  BY DEF Refilling
<1>4. Members(actual', n) = {}
  <2> SUFFICES ASSUME Members(actual', n) # {} PROVE FALSE
    OBVIOUS
  <2>1. Named(t, n) /\ DoesVpls(t, "create")
    BY <1>3, MembersFound
  <2> QED BY <1>3, <2>1 DEF Calm, Named
<1>5. ASSUME Running(u)'
      PROVE  Still(todo'[u]) \/ intent'[d][Port(i)] # None \/ Filling(todo'[u], d, Port(i))
  <2>1. Running(u)
    BY <1>2, <1>5 DEF Running
  <2>2. Apart(n) /\ Named(u, n)
    BY <1>3 DEF VplsInv, Meshing, Named, DoesVpls, IsVpls
  <2>3. scope[u] \cap scope[t] = {}
    BY <1>2, <2>1, <2>2 DEF Apart
  <2>4. d \notin x.on
    BY <1>2, <1>3, <2>3 DEF OwnStep
  <2>5. intent'[d][Port(i)] = intent[d][Port(i)]
    BY <1>1, <1>2, <2>4, ObjectEffects
  <2> QED BY <1>2, <1>3, <2>1, <2>5
<1>6. DoesVpls(u, "create")'
  BY <1>2, <1>3, AskedStay
<1> QED BY <1>2, <1>3, <1>4, <1>5, <1>6 DEF Refilling

\* A task writes the interface again before the service is there.
LEMMA RefillingOwn ==
  ASSUME VplsInv, VplsInv', PortsInv, InterfacesServe, NEW t \in Task, NEW x, Treads(t, x),
         NEW n \in Name, Calm(n), Calm(n)', NEW d, NEW i, <<d, i>> \in PortsOf(n),
         Refilling(t, n, d, i)
  PROVE  Stands(d, i)' \/ Refilling(t, n, d, i)'
<1> DEFINE p == todo[t]
           o == Port(i)
<1>1. d \in Node /\ o \in Object
  BY PortThere
<1>2. /\ WholeStores /\ Deed(t, x) /\ Running(t) /\ Keeps(input[t], p) /\ IsProgram(p)
      /\ OwnStep(input[t], scope[t], x) /\ FitStep(input[t], x)
      /\ input' = input /\ scope' = scope
      /\ Went(t, x) \/ Passed(t, x) \/ Stopped(t, x)
      /\ Running(t)' => (Still(p) => Still(todo'[t]))
  BY VplsTask DEF VplsInv, PortsInv, Treads, Own
<1>3. /\ DoesVpls(t, "create") /\ input[t].id = n /\ d \in scope[t] /\ Members(actual, n) = {}
      /\ Still(p) \/ intent[d][o] # None \/ Filling(p, d, o)
  BY <1>2 DEF Refilling
<1>4. DoesVpls(t, "create")' /\ input[t].do = "create"
  BY <1>2, <1>3, AskedStay DEF DoesVpls
<1>5. /\ \/ intent'[d][o] = intent[d][o]
         \/ WritesTo(x, d, o) /\ Done(t, x) /\ intent'[d][o] = x.value
         \/ x.call = "rollback" /\ intent'[d][o] = actual[d][o]
      /\ WritesTo(x, d, o) /\ Done(t, x) => intent'[d][o] = x.value
      /\ x.call = "commit" /\ Done(t, x) =>
           /\ intent'[d][o] = intent[d][o]
           /\ actual'[d][o] = IF d \in x.on THEN intent[d][o] ELSE actual[d][o]
  BY <1>1, <1>2, ObjectEffects
<1>6. CASE Members(actual', n) = {}
  <2> SUFFICES ASSUME Running(t)'
               PROVE  Still(todo'[t]) \/ intent'[d][o] # None \/ Filling(todo'[t], d, o)
    BY <1>2, <1>3, <1>4, <1>6 DEF Refilling
  <2>1. CASE Still(p)
    BY <1>2, <2>1
  <2>2. CASE ~Still(p) /\ Went(t, x)
    <3>1. p # <<>> /\ x = p[1] /\ Done(t, x) /\ x.call # "rollback" /\ todo'[t] = Tail(p)
      BY <2>2 DEF Went
    <3>2. Refills(p)
      BY <1>2, <2>2 DEF Keeps
    <3>3. CASE Filling(p, d, o)
      BY <1>2, <1>5, <3>1, <3>3, FillingTail DEF Puts
    <3>4. CASE intent[d][o] # None
      <4>1. Empties(p[1], d, o) => Filling(Tail(p), d, o)
        BY <1>2, <3>1, <3>2, RefillsTail
      <4> QED BY <1>5, <3>1, <3>4, <4>1 DEF Empties
    <3> QED BY <1>3, <2>2, <3>3, <3>4
  <2>3. CASE ~Still(p) /\ Passed(t, x)
    <3>1. p # <<>> /\ x = p[1] /\ intent' = intent
      BY <2>3 DEF Passed
    <3>2. \A y : ~WritesPort(y) => ~Puts(y, d, o)
      BY DEF WritesPort, Puts, WritesTo
    <3>3. CASE x.fails \in {"ignore", "overlook"} /\ todo'[t] = Tail(p)
      <4>1. ~Puts(p[1], d, o)
        BY <1>2, <3>1, <3>2, <3>3 DEF FitStep
      <4> QED BY <1>2, <1>3, <2>3, <3>1, <3>3, <4>1, FillingTail
    <3>4. CASE x.fails = "skip" /\ todo'[t] = Tail(Tail(p))
      <4>1. ~Puts(p[1], d, o)
        BY <1>2, <3>1, <3>2, <3>4 DEF FitStep
      <4>2. Skips(p)
        BY <1>2, <2>3 DEF Keeps
      <4>3. Tail(p) # <<>> /\ ~Puts(Tail(p)[1], d, o)
        BY <1>2, <3>1, <3>2, <3>4, <4>2, RefillsTail
      <4>4. IsProgram(Tail(p))
        BY <1>2, <3>1, ProgramTail
      <4>5. Filling(p, d, o) => Filling(Tail(p), d, o)
        BY <1>2, <3>1, <4>1, FillingTail
      <4>6. Filling(Tail(p), d, o) => Filling(Tail(Tail(p)), d, o)
        BY <4>3, <4>4, FillingTail
      <4> QED BY <1>3, <2>3, <3>1, <3>4, <4>5, <4>6
    <3>5. x.fails # "withdraw"
      BY <1>2, <1>4 DEF OwnStep
    <3> QED BY <2>3, <3>3, <3>4, <3>5 DEF Passed
  <2> QED BY <1>2, <2>1, <2>2, <2>3 DEF Stopped
<1>7. CASE Members(actual', n) # {}
  <2>1. Went(t, x) /\ Done(t, x) /\ x.call = "commit" /\ Meant(t)
    BY <1>3, <1>7, MembersFound
  <2>2. ~Running(t)'
    <3>1. PICK v \in Task : ~Running(v)' /\ DoesVpls(v, "create")' /\ input'[v].id = n
      BY <1>7 DEF VplsInv, Meshing, Net
    <3>2. DoesVpls(v, "create") /\ input[v].id = n
      BY <1>2, <3>1, AskedStay
    <3>3. v = t
      BY <1>3, <3>2 DEF Calm
    <3> QED BY <3>1, <3>3
  <2>3. Len(p) = 1 /\ x = p[1] /\ p # <<>>
    BY <2>1, <2>2 DEF Went
  <2>4. x.on = scope[t]
    BY <2>3, <2>1 DEF Meant, Course
  <2>5. ~Still(p)
    <3>1. Own(input[t], scope[t], p)
      BY <1>2, VplsTask
    <3> QED BY <2>1, <2>3, <3>1, OwnTail
  <2>6. ~Filling(p, d, o)
    <3>1. \A k \in 1..1 : k = 1
      OBVIOUS
    <3> QED BY <2>1, <2>3, <3>1 DEF Filling, Puts, WritesTo
  <2>7. intent[d][o] # None
    BY <1>3, <2>5, <2>6
  <2> QED BY <1>3, <1>5, <2>1, <2>4, <2>7 DEF Stands
<1> QED BY <1>6, <1>7

\* A step of a task keeps the invariant of the interfaces.
LEMMA TreadsKeep ==
  ASSUME VplsInv, VplsInv', PortsInv, InterfacesServe, NEW t \in Task, NEW x, Treads(t, x)
  PROVE  PortsInv'
<1>1. /\ WholeStores /\ Deed(t, x) /\ FitStep(input[t], x)
      /\ input' = input /\ scope' = scope /\ disturbed' = disturbed
      /\ \A u \in Task \ {t} : todo'[u] = todo[u] /\ result'[u] = result[u] /\ broke'[u] = broke[u]
      /\ broke[t] # <<>> => broke'[t] # <<>>
      /\ Running(t)' => Keeps(input[t], todo'[t])
  BY DEF VplsInv, Treads
<1>2. Fitted(intent') /\ Fitted(actual')
  BY <1>1, FittedKept DEF PortsInv
<1>3. ASSUME NEW u \in Task, Running(u)' PROVE Keeps(input'[u], todo'[u])
  <2>1. CASE u = t
    BY <1>1, <1>3, <2>1
  <2>2. CASE u # t
    <3>1. Running(u)
      BY <1>1, <1>3, <2>2 DEF Running
    <3> QED BY <1>1, <2>2, <3>1 DEF PortsInv
  <2> QED BY <2>1, <2>2
<1>4. ASSUME NEW n \in Name, Calm(n)' PROVE Served(n)'
  <2>1. Calm(n)
    <3>1. \A u, do : DoesVpls(u, do)' <=> DoesVpls(u, do)
      BY <1>1, AskedStay
    <3>2. \A u \in Task : broke[u] # <<>> => broke'[u] # <<>>
      BY <1>1
    <3> QED BY <1>1, <1>4, <3>1, <3>2 DEF Calm
  <2>2. Served(n)
    BY <2>1 DEF PortsInv
  <2> SUFFICES ASSUME NEW dp \in PortsOf(n)
               PROVE  Stands(dp[1], dp[2])' \/ \E u \in Task : Refilling(u, n, dp[1], dp[2])'
    BY DEF Served, PortsOf
  <2>3. PICK d, i : d = dp[1] /\ i = dp[2]
    OBVIOUS
  <2>4. <<d, i>> \in PortsOf(n)
    <3>1. \E e : dp = <<e.id, e.interface>>
      BY DEF PortsOf, Ports
    <3> QED BY <2>3, <3>1
  <2>5. CASE Stands(d, i)
    BY <2>1, <2>3, <2>4, <2>5, StandsServed
  <2>6. ASSUME NEW u \in Task, Refilling(u, n, d, i)
        PROVE  Stands(d, i)' \/ Refilling(u, n, d, i)'
    <3>1. CASE u = t
      BY <1>4, <2>1, <2>4, <2>6, <3>1, RefillingOwn
    <3>2. CASE u # t
      BY <2>1, <2>4, <2>6, <3>2, RefillingOther
    <3> QED BY <3>1, <3>2
  <2> QED BY <2>2, <2>3, <2>5, <2>6 DEF Served
<1> QED BY <1>2, <1>3, <1>4 DEF PortsInv
-----------------------------------------------------------------------------
(* The interfaces of all services are there *)

\* The invariant of the interfaces holds at first.
LEMMA InitPortsInv == InterfacesServe /\ Fresh /\ Init => PortsInv
<1> SUFFICES ASSUME InterfacesServe, Fresh, Init PROVE PortsInv
  OBVIOUS
<1>1. ASSUME NEW d \in Node, NEW o \in Object PROVE Fit(d, o, Initial[d][o])
  <2>1. ASSUME NEW i, o = Policy(i) PROVE Initial[d][o] \in {None, PolicyData({"in", "out"})}
    <3>1. i \in Interface
      BY <2>1 DEF Object, Policy
    <3> QED BY <2>1, <3>1 DEF InterfacesServe
  <2>2. ASSUME NEW n, o = Instance(n), Initial[d][o] # None, Initial[d][o].net = "L2VSI"
        PROVE  FALSE
    <3>1. n \in Name
      BY <2>2 DEF Object, Instance
    <3>2. d \in Members(Initial, n)
      BY <2>2, MemberHas
    <3> QED BY <3>1, <3>2 DEF Fresh
  <2> QED BY <2>1, <2>2 DEF Fit
<1>2. Fitted(intent) /\ Fitted(actual)
  BY <1>1 DEF Fitted, Init
<1>3. \A t \in Task : ~Running(t)
  BY DEF Running, Init
<1>4. ASSUME NEW n \in Name, NEW dp \in PortsOf(n) PROVE Stands(dp[1], dp[2])
  <2>1. PICK d, i : dp = <<d, i>>
    BY DEF PortsOf, Ports
  <2>2. Initial[d][Port(i)] # None
    BY <2>1, PortThere
  <2> QED BY <2>1, <2>2 DEF Stands, Init
<1> QED BY <1>2, <1>3, <1>4 DEF PortsInv, Served

\* A task that begins has yet to delete an interface.
LEMMA BeginsPortsInv ==
  ASSUME VplsInv, PortsInv, Premises, InterfacesServe, NEW t \in Task, VplsStart(t)
  PROVE  PortsInv'
<1>1. MayBegin(t) /\ \E in \in VplsInput : \E p, area : Begin(t, in, p, area) /\ Good(in, p)
  BY VplsBeginsGood DEF Premises, PortsInv
<1>2. PICK in \in VplsInput : \E p, area : Begin(t, in, p, area) /\ Good(in, p)
  BY <1>1
<1>3. PICK p, area : Begin(t, in, p, area) /\ Good(in, p)
  BY <1>2
<1>4. Takes(t, in, p, area)
  BY <1>1, <1>3, BeginTakes
<1>5. /\ input'[t] = in /\ todo'[t] = p /\ intent' = intent /\ actual' = actual
      /\ \A u \in Task \ {t} : /\ input'[u] = input[u] /\ todo'[u] = todo[u]
                               /\ result'[u] = result[u] /\ scope'[u] = scope[u]
  BY <1>4 DEF Takes
<1>6. Fitted(intent') /\ Fitted(actual')
  BY <1>5 DEF PortsInv
<1>7. ASSUME NEW u \in Task, Running(u)' PROVE Keeps(input'[u], todo'[u])
  <2>1. CASE u = t
    BY <1>3, <1>5, <2>1 DEF Good, Keeps
  <2>2. CASE u # t
    <3>1. Running(u)
      BY <1>5, <1>7, <2>2 DEF Running
    <3> QED BY <1>5, <2>2, <3>1 DEF PortsInv
  <2> QED BY <2>1, <2>2
<1>8. ASSUME NEW n \in Name, Calm(n)' PROVE Served(n)'
  <2>1. Served(n)
    BY <1>4, <1>8, TakesAsked DEF PortsInv
  <2>2. \A d, i : Stands(d, i)' <=> Stands(d, i)
    BY <1>5 DEF Stands
  <2>3. ASSUME NEW u \in Task, NEW d, NEW i, Refilling(u, n, d, i) PROVE Refilling(u, n, d, i)'
    <3>1. u # t /\ DoesVpls(u, "create")' /\ (Running(u)' <=> Running(u))
      BY <1>4, <2>3, TakesAsked DEF Refilling
    <3> QED BY <1>5, <2>3, <3>1 DEF Refilling
  <2>4. PortsOf(n)' = PortsOf(n)
    BY DEF PortsOf, Ports
  <2> QED BY <2>1, <2>2, <2>3, <2>4 DEF Served
<1> QED BY <1>6, <1>7, <1>8 DEF PortsInv

\* Every step of VPLS tasks keeps it.
LEMMA NextPortsInv ==
  Premises /\ InterfacesServe /\ VplsInv /\ PortsInv /\ [VplsNext]_vars => PortsInv'
<1> SUFFICES ASSUME Premises, InterfacesServe, VplsInv, PortsInv, [VplsNext]_vars
             PROVE  PortsInv'
  OBVIOUS
<1>1. VplsInv'
  BY NextVplsInv
<1>2. ASSUME NEW t \in Task, VplsStart(t) PROVE PortsInv'
  BY <1>2, BeginsPortsInv
<1>3. ASSUME NEW t \in Task, Advance(t) \/ WorkerDies(t) PROVE PortsInv'
  <2>1. \E x : Treads(t, x)
    BY <1>3, SucceedsTreads, StopTreads, FailsTreads DEF Advance
  <2>2. PICK x : Treads(t, x)
    BY <2>1
  <2> QED BY <1>1, <2>2, TreadsKeep
<1>4. CASE UNCHANGED vars
  <2>1. UNCHANGED <<intent, actual, input, todo, result, broke, scope, dirty, disturbed>>
    BY <1>4 DEF vars
  <2>2. \A t : Running(t)' <=> Running(t)
    BY <2>1 DEF Running
  <2>3. \A t, do : DoesVpls(t, do)' <=> DoesVpls(t, do)
    BY <2>1, AskedStay
  <2>4. Fitted(intent') /\ Fitted(actual')
    BY <2>1 DEF PortsInv
  <2>5. \A t \in Task : Running(t)' => Keeps(input'[t], todo'[t])
    BY <2>1, <2>2 DEF PortsInv
  <2>6. ASSUME NEW n \in Name, Calm(n)' PROVE Served(n)'
    <3>1. Calm(n)
      BY <2>1, <2>3, <2>6 DEF Calm
    <3>2. \A d, i : Stands(d, i) => Stands(d, i)'
      BY <2>1 DEF Stands
    <3>3. \A u, d, i : Refilling(u, n, d, i) => Refilling(u, n, d, i)'
      BY <2>1, <2>2, <2>3 DEF Refilling
    <3>4. PortsOf(n)' = PortsOf(n)
      BY DEF PortsOf, Ports
    <3> QED BY <3>1, <3>2, <3>3, <3>4 DEF PortsInv, Served
  <2> QED BY <2>4, <2>5, <2>6 DEF PortsInv
<1> QED BY <1>2, <1>3, <1>4 DEF VplsNext
-----------------------------------------------------------------------------
(* What VPLS tasks leave can be read *)

\* A service that is calm can be read.
LEMMA CalmReadable ==
  ASSUME Premises, InterfacesServe, VplsInv, PortsInv, NEW n \in Name, Calm(n),
         Cardinality(Members(actual, n)) >= 2
  PROVE  VplsReadable(actual, NodeOrder, {n})
<1> DEFINE M == Members(actual, n)
           ni(d) == actual[d][Instance(n)]
<1>1. Net(n) /\ Served(n) /\ Fitted(actual)
  BY DEF VplsInv, Meshing, PortsInv
<1>2. \A d : M # {} /\ M # {d}
  <2>1. Cardinality({}) = 0 /\ \A d : Cardinality({d}) = 1
    BY FS_EmptySet, FS_Singleton
  <2>2. Cardinality(M) >= 2
    OBVIOUS
  <2> HIDE DEF M
  <2>3. M # {}
    BY <2>1, <2>2
  <2>4. ASSUME NEW d, M = {d} PROVE FALSE
    <3>1. Cardinality(M) = 1
      BY <2>1, <2>4
    <3> QED BY <2>2, <3>1
  <2> QED BY <2>3, <2>4
<1> SUFFICES ASSUME NEW k \in DOMAIN NodeOrder,
                    NEW m \in InstancesAt(actual[NodeOrder[k]], "L2VSI", {n})
             PROVE  LET d == NodeOrder[k]
                        c == actual[d][Instance(m)]
                    IN /\ PointsOf(c, "REMOTE") # <<>>
                       /\ \A p \in Range(PointsOf(c, "LOCAL")) :
                            AttributesRead(actual[d], p.interface)
  BY DEF VplsReadable
<1>3. PICK d \in Node : d = NodeOrder[k]
  BY NodeOrderAssumption
<1>4. m = n /\ d \in M
  BY <1>3, MemberHas DEF InstancesAt
<1>5. Meshed(ni(d), M, d)
  BY <1>1, <1>4 DEF Net, MeshOf
<1>6. PointsOf(ni(d), "REMOTE") # <<>>
  <2>1. PICK c \in M : c # d
    BY <1>2, <1>4
  <2>2. Systems(ni(d)) = {Address(b) : b \in M \ {d}}
    BY <1>5 DEF Meshed
  <2>3. Address(c) \in Systems(ni(d))
    BY <2>1, <2>2
  <2> HIDE DEF ni
  <2>4. PICK p : p \in Range(PointsOf(ni(d), "REMOTE"))
    BY <2>3 DEF Systems
  <2>5. Range(<<>>) = {}
    BY DEF Range
  <2> QED BY <2>4, <2>5
<1>7. ASSUME NEW p \in Locals(ni(d)) PROVE AttributesRead(actual[d], p.interface)
  <2> DEFINE i == p.interface
  <2>1. Instance(n) \in Object
    BY DEF Object, Instance
  <2>2. Fit(d, Instance(n), ni(d))
    BY <1>1, <2>1 DEF Fitted
  <2>3. ni(d) # None /\ ni(d).net = "L2VSI"
    BY <1>5 DEF Meshed
  <2>4. <<d, i>> \in Ports(n)
    BY <1>7, <2>2, <2>3 DEF Fit
  <2> HIDE DEF i, ni
  <2>5. <<d, i>> \in PortsOf(n)
    BY <2>4 DEF PortsOf
  <2>6. i \in Interface
    BY <2>5, PortThere
  <2>7. Stands(d, i)
    BY <1>1, <1>2, <2>5 DEF Served, Refilling
  <2>8. Policy(i) \in Object
    BY <2>6 DEF Policy, Object
  <2>9. actual[d][Policy(i)] \in {None, PolicyData({"in", "out"})}
    BY <1>1, <2>8 DEF Fitted, Fit
  <2> QED BY <2>7, <2>9 DEF Stands, AttributesRead, i
<1> QED BY <1>3, <1>4, <1>6, <1>7 DEF Locals

\* The invariants have what the property asks for.
LEMMA InvVplsReadsBack ==
  Premises /\ InterfacesServe /\ VplsInv /\ PortsInv => VplsReadsBack
<1> SUFFICES ASSUME Premises, InterfacesServe, VplsInv, PortsInv, NEW n \in Name, Calm(n),
                    Cardinality(Members(actual, n)) >= 2
             PROVE  /\ VplsReadable(actual, NodeOrder, {n})
                    /\ \A s \in VplsReadAll(actual, NodeOrder, {n}) :
                         s.devices = UNION {{VplsEnd(e[1], e[2], e[3], ip) :
                                               ip \in AddressesOf(n, {e[1]})} :
                                              e \in EndsHeld(actual, n)}
  BY DEF VplsReadsBack
<1> DEFINE M == Members(actual, n)
           L(d) == Locals(actual[d][Instance(n)])
<1>1. VplsReadable(actual, NodeOrder, {n})
  BY CalmReadable
<1>2. /\ MeshOf(actual, n) /\ M \subseteq AskedIds(n) /\ OnlyVpls /\ AddressOf
      /\ IsInjective(NodeOrder)
  BY DEF VplsInv, Meshing, Net, Premises
<1>3. M \subseteq Devices
  BY <1>2, AskedKnown
<1> SUFFICES ASSUME NEW s \in VplsReadAll(actual, NodeOrder, {n})
             PROVE  s.devices = UNION {{VplsEnd(e[1], e[2], e[3], ip) :
                                          ip \in AddressesOf(n, {e[1]})} :
                                         e \in EndsHeld(actual, n)}
  BY <1>1
<1>4. s.id = n
  BY <1>2, ServiceRead
<1>5. s.devices = EndsPlaced(M, LocalsOf(actual, n))
  BY <1>1, <1>2, <1>3, <1>4, MeshReads
<1>6. s.devices = UNION {{VplsEnd(d, p.interface, p.subinterface, Address(d)) : p \in L(d)} : d \in M}
  <2>1. \A d \in M : LocalsOf(actual, n)[d] = L(d)
    BY DEF LocalsOf
  <2> HIDE DEF M, L
  <2> QED BY <1>5, <2>1 DEF EndsPlaced, EndsOf
<1>7. EndsHeld(actual, n) = UNION {{<<d, p.interface, p.subinterface>> : p \in L(d)} : d \in M}
  BY DEF EndsHeld, Locals
<1>8. ASSUME NEW d \in M PROVE AddressesOf(n, {d}) = {Address(d)}
  BY <1>2, AskedAddresses
<1> HIDE DEF M, L
<1>9. ASSUME NEW x
      PROVE  x \in s.devices <=>
               x \in UNION {{VplsEnd(e[1], e[2], e[3], ip) : ip \in AddressesOf(n, {e[1]})} :
                              e \in EndsHeld(actual, n)}
  <2>1. ASSUME x \in s.devices
        PROVE  \E e \in EndsHeld(actual, n) : \E ip \in AddressesOf(n, {e[1]}) :
                 x = VplsEnd(e[1], e[2], e[3], ip)
    <3>1. PICK d \in M : \E p \in L(d) : x = VplsEnd(d, p.interface, p.subinterface, Address(d))
      BY <1>6, <2>1
    <3>2. PICK p \in L(d) : x = VplsEnd(d, p.interface, p.subinterface, Address(d))
      BY <3>1
    <3>3. <<d, p.interface, p.subinterface>> \in EndsHeld(actual, n)
      BY <1>7
    <3>4. Address(d) \in AddressesOf(n, {d})
      BY <1>8
    <3> QED BY <3>2, <3>3, <3>4
  <2>2. ASSUME NEW e \in EndsHeld(actual, n), NEW ip \in AddressesOf(n, {e[1]}),
               x = VplsEnd(e[1], e[2], e[3], ip)
        PROVE  x \in s.devices
    <3>1. PICK d \in M : \E p \in L(d) : e = <<d, p.interface, p.subinterface>>
      BY <1>7
    <3>2. PICK p \in L(d) : e = <<d, p.interface, p.subinterface>>
      BY <3>1
    <3>3. ip = Address(d)
      BY <1>8, <3>2
    <3>4. e[1] = d /\ e[2] = p.interface /\ e[3] = p.subinterface
      BY <3>2
    <3>5. x = VplsEnd(d, p.interface, p.subinterface, Address(d))
      BY <2>2, <3>3, <3>4
    <3>6. x \in {VplsEnd(d, q.interface, q.subinterface, Address(d)) : q \in L(d)}
      BY <3>2, <3>5
    <3> QED BY <1>6, <3>6
  <2> DEFINE of(e) == {VplsEnd(e[1], e[2], e[3], ip) : ip \in AddressesOf(n, {e[1]})}
  <2>3. \A e : x \in of(e) <=>
           \E ip \in AddressesOf(n, {e[1]}) : x = VplsEnd(e[1], e[2], e[3], ip)
    OBVIOUS
  <2> HIDE DEF of
  <2>4. x \in s.devices <=> x \in UNION {of(e) : e \in EndsHeld(actual, n)}
    BY <2>1, <2>2, <2>3
  <2> QED BY <2>4 DEF of
<1> QED BY <1>9

\* VPLS tasks, whichever of their calls fail and whenever their worker dies,
\* leave what can be read back: where a device has the interfaces that are asked
\* for, every service that is calm is read as the ends it has, each with the
\* address of its device.
THEOREM SpecVplsReadsBack ==
  Fresh /\ InterfacesServe /\ AddressesAgree /\ NoneIsApart /\ IsInjective(NodeOrder) /\ VplsSpec
    => []VplsReadsBack
<1> DEFINE Terms ==
             Fresh /\ InterfacesServe /\ AddressesAgree /\ NoneIsApart /\ IsInjective(NodeOrder)
           Both == VplsInv /\ PortsInv
<1>1. Terms => Premises
  BY AddressFacts DEF Premises
<1>2. Terms /\ Init => Both
  BY InitVplsInv, InitPortsInv
<1>3. Terms /\ Both /\ [VplsNext]_vars => Both'
  BY <1>1, NextVplsInv, NextPortsInv
<1>4. Terms /\ Both => VplsReadsBack
  BY <1>1, InvVplsReadsBack
<1>5. Terms => Terms'
  BY DEF Fresh, InterfacesServe, AddressesAgree, NoneIsApart
<1> HIDE DEF Terms, Both
<1>6. Terms /\ VplsSpec => []VplsReadsBack
  BY <1>2, <1>3, <1>4, <1>5, PTL DEF VplsSpec
<1> QED BY <1>6 DEF Terms
=============================================================================
