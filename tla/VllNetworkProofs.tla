--------------------------- MODULE VllNetworkProofs ---------------------------
(* Proofs about VllService: what its tasks bring to the network, for any      *)
(* tasks, threads, nodes and faults.                                          *)
(*                                                                            *)
(* A commit carries the whole intent of its nodes, whoever wrote it.  What a  *)
(* dry run leaves in the intent stays off the network because a task that     *)
(* could commit its nodes has met it: the two then work on one node, or the   *)
(* second begins where the first is dirty, and both count as disturbed.       *)
EXTENDS VllServiceProofs

-----------------------------------------------------------------------------
(* Whose instances a program writes *)

\* A step is about devices of the task, also when it is undone, writes or
\* deletes point to point instances of the task's own name only, and is no
\* commit unless the task is there to commit.
NoCommit(in) == in.dryrun \/ in.do \in {"write", "erase"}

Own(in, ids, s) ==
  /\ s.on \subseteq ids /\ s.undo \subseteq ids
  /\ \A n : s.call = "write" /\ s.object = Instance(n) => n = in.id /\ InstanceOK(s.value)
  /\ NoCommit(in) => s.call # "commit"

OwnAll(in, ids, p) == p \in Seq(Step) /\ \A k \in 1..Len(p) : Own(in, ids, p[k])

\* The programs in a row, and what is left of one.
LEMMA OwnParts ==
  ASSUME NEW in, NEW ids
  PROVE  /\ OwnAll(in, ids, <<>>)
         /\ \A p, q : OwnAll(in, ids, p) /\ OwnAll(in, ids, q) => OwnAll(in, ids, p \o q)
         /\ \A s \in Step : Own(in, ids, s) => OwnAll(in, ids, <<s>>)
         /\ \A p : OwnAll(in, ids, p) /\ p # <<>> =>
              OwnAll(in, ids, Tail(p)) /\ Own(in, ids, Head(p))
<1>1. OwnAll(in, ids, <<>>)
  BY DEF OwnAll
<1>2. ASSUME NEW p, NEW q, OwnAll(in, ids, p), OwnAll(in, ids, q) PROVE OwnAll(in, ids, p \o q)
  <2>1. p \in Seq(Step) /\ q \in Seq(Step)
    BY <1>2 DEF OwnAll
  <2> QED BY <1>2, <2>1, ConcatSteps DEF OwnAll
<1>3. ASSUME NEW s \in Step, Own(in, ids, s) PROVE OwnAll(in, ids, <<s>>)
  <2>1. <<s>> \in Seq(Step) /\ Len(<<s>>) = 1 /\ <<s>>[1] = s
    OBVIOUS
  <2>2. \A k \in 1..1 : k = 1
    OBVIOUS
  <2> QED BY <1>3, <2>1, <2>2 DEF OwnAll
<1>4. ASSUME NEW p, OwnAll(in, ids, p), p # <<>>
      PROVE  OwnAll(in, ids, Tail(p)) /\ Own(in, ids, Head(p))
  <2>1. p \in Seq(Step) /\ Len(p) \in Nat \ {0} /\ Head(p) = p[1] /\ 1 \in 1..Len(p)
    BY <1>4 DEF OwnAll
  <2>2. /\ Tail(p) \in Seq(Step) /\ Len(Tail(p)) = Len(p) - 1
        /\ \A k \in 1..(Len(p) - 1) : Tail(p)[k] = p[k + 1] /\ k + 1 \in 1..Len(p)
    BY <2>1
  <2> QED BY <1>4, <2>1, <2>2 DEF OwnAll
<1> QED BY <1>1, <1>2, <1>3, <1>4

\* Steps about other objects than instances, and about none.
LEMMA OwnStep ==
  ASSUME NEW in, NEW ids, NEW s \in Step, s.on \subseteq ids, s.undo \subseteq ids,
         NoCommit(in) => s.call # "commit",
         \/ s.call # "write"
         \/ \E i : s.object = Port(i) \/ s.object = Policy(i) \/ s.object = Stp(i)
         \/ s.object = Instance(in.id) /\ InstanceOK(s.value)
  PROVE  Own(in, ids, s)
<1>1. \A i, n : Port(i) # Instance(n) /\ Policy(i) # Instance(n) /\ Stp(i) # Instance(n)
  BY DEF Port, Policy, Stp, Instance
<1>2. \A m, n : Instance(m) = Instance(n) => m = n
  BY DEF Instance
<1> QED BY <1>1, <1>2 DEF Own

\* A program of one write.
LEMMA OwnPut ==
  ASSUME NEW in, NEW ids \in SUBSET Id, NEW id \in ids, NEW o \in Object,
         NEW v \in Value \cup {None}, NEW undo \in SUBSET ids,
         \/ \E i : o = Port(i) \/ o = Policy(i) \/ o = Stp(i)
         \/ o = Instance(in.id) /\ InstanceOK(v)
  PROVE  OwnAll(in, ids, <<Put(id, o, v, undo)>>)
<1> DEFINE s == Put(id, o, v, undo)
<1>1. /\ s \in Step /\ s.call = "write" /\ s.object = o /\ s.value = v
      /\ s.on = {id} /\ s.undo = undo
  <2>1. id \in Id /\ undo \in SUBSET Id
    OBVIOUS
  <2> QED BY <2>1, PutFacts DEF Put
<1> HIDE DEF s
<1>2. Own(in, ids, s)
  BY <1>1, OwnStep
<1>3. OwnAll(in, ids, <<s>>)
  BY <1>1, <1>2, OwnParts
<1> QED BY <1>3 DEF s

\* A program of one call about whole configurations.
LEMMA OwnCall ==
  ASSUME NEW in, NEW ids \in SUBSET Id, NEW call \in {"commit", "sync", "dryrun", "rollback"},
         NEW on \in SUBSET ids, NEW undo \in SUBSET ids,
         NoCommit(in) => call # "commit"
  PROVE  Own(in, ids, Call(call, on, undo)) /\ OwnAll(in, ids, <<Call(call, on, undo)>>)
<1> DEFINE s == Call(call, on, undo)
<1>1. s \in Step /\ s.call = call /\ s.on = on /\ s.undo = undo
  <2>1. on \in SUBSET Id /\ undo \in SUBSET Id
    OBVIOUS
  <2> QED BY <2>1, CallFacts DEF Call
<1> HIDE DEF s
<1>2. Own(in, ids, s)
  BY <1>1, OwnStep
<1>3. OwnAll(in, ids, <<s>>)
  BY <1>1, <1>2, OwnParts
<1> QED BY <1>2, <1>3 DEF s
-----------------------------------------------------------------------------
(* The programs *)

\* The parts of a creation.
LEMMA OwnConfigure ==
  ASSUME NEW in, NEW end, EndOK(in, end), EndIds(in) \in SUBSET Id
  PROVE  /\ OwnAll(in, EndIds(in), ReadInterface(end, {}))
         /\ OwnAll(in, EndIds(in), Configure(end, EndIds(in)))
<1> DEFINE ids == EndIds(in)
<1>1. end.id \in Id /\ end.id \in ids /\ ids \in SUBSET Id /\ ids \in SUBSET ids
      /\ Port(end.interface) \in Object /\ Policy(end.interface) \in Object
      /\ Stp(end.interface) \in Object /\ {} \in SUBSET Id /\ {} \in SUBSET ids
  BY Objects DEF EndOK
<1>2. OwnAll(in, ids, ReadInterface(end, {}))
  <2> DEFINE s == Read(end.id, Port(end.interface), {})
  <2>1. s \in Step /\ s.call = "read" /\ s.value = None /\ s.on = {end.id} /\ s.undo = {}
    BY <1>1, ReadFacts DEF Read
  <2> HIDE DEF s
  <2>2. OwnAll(in, ids, <<s>>)
    BY <1>1, <2>1, OwnStep, OwnParts
  <2> QED BY <2>2 DEF s, ReadInterface
<1>3. OwnAll(in, ids, PutInterface(end, ids))
  BY <1>1, OwnPut DEF PutInterface, EndOK
<1>4. OwnAll(in, ids, PutPolicy(end, ids))
  BY <1>1, OwnPut, OwnParts DEF PutPolicy, When, EndOK
<1>5. OwnAll(in, ids, DisableStp(end))
  <2> DEFINE d == Delete(end.id, Stp(end.interface), {})
             s == [d EXCEPT !.fails = "ignore"]
  <2>1. d \in Step /\ d.call = "write" /\ d.object = Stp(end.interface)
        /\ d.on = {end.id} /\ d.undo = {}
    <3>1. d = Put(end.id, Stp(end.interface), None, {})
      BY DEF Delete
    <3>2. /\ Put(end.id, Stp(end.interface), None, {}) \in Step
          /\ Put(end.id, Stp(end.interface), None, {}).call = "write"
          /\ Put(end.id, Stp(end.interface), None, {}).on = {end.id}
          /\ Put(end.id, Stp(end.interface), None, {}).undo = {}
      <4>1. /\ end.id \in Id /\ Stp(end.interface) \in Object
            /\ {} \in SUBSET Id /\ None \in Value \cup {None}
        BY <1>1
      <4> QED BY <4>1, PutFacts
    <3>3. Put(end.id, Stp(end.interface), None, {}).object = Stp(end.interface)
      BY DEF Put
    <3> QED BY <3>1, <3>2, <3>3
  <2>2. s \in Step /\ s.call = "write" /\ s.object = Stp(end.interface)
        /\ s.on = {end.id} /\ s.undo = {}
    <3>1. s.object = d.object
      BY <2>1 DEF Step
    <3> QED BY <2>1, <3>1, FailsFacts DEF OnFailure
  <2> HIDE DEF s
  <2>3. OwnAll(in, ids, <<s>>)
    BY <1>1, <2>2, OwnStep, OwnParts
  <2> QED BY <2>3 DEF DisableStp, s
<1>6. Configure(end, ids) = (PutInterface(end, ids) \o PutPolicy(end, ids)) \o DisableStp(end)
  BY DEF Configure
<1> QED BY <1>2, <1>3, <1>4, <1>5, <1>6, OwnParts

\* Resetting the ends deletes, and commits: it belongs to no dry run.
LEMMA OwnReset ==
  ASSUME NEW in \in VllInput, in.do = "create", Parses(in), ~in.dryrun
  PROVE  OwnAll(in, EndIds(in), ResetEnds(in))
<1> DEFINE ids == EndIds(in)
<1>1. ids \in SUBSET Id /\ ids \in SUBSET ids
      /\ EndOK(in, in.devices[1]) /\ EndOK(in, in.devices[2])
  BY InputEnds
<1>2. ASSUME NEW end, EndOK(in, end) PROVE OwnAll(in, ids, ResetEnd(end, ids))
  <2> DEFINE r   == Read(end.id, Policy(end.interface), {})
             rs  == [r EXCEPT !.fails = "skip"]
             d   == Put(end.id, Policy(end.interface), None, {end.id})
  <2>1. end.id \in Id /\ end.id \in ids /\ {end.id} \in SUBSET Id /\ {} \in SUBSET Id
        /\ {end.id} \in SUBSET ids
        /\ Policy(end.interface) \in Object /\ Port(end.interface) \in Object
        /\ None \in Value \cup {None}
    BY <1>1, <1>2, Objects DEF EndOK
  <2>2. r \in Step /\ r.call = "read" /\ r.on = {end.id} /\ r.undo = {}
    BY <2>1, ReadFacts DEF Read
  <2>3. rs \in Step /\ rs.call = "read" /\ rs.on = {end.id} /\ rs.undo = {}
    BY <2>2, FailsFacts DEF OnFailure
  <2>4. d \in Step
    BY <2>1, PutFacts
  <2>5. OwnAll(in, ids, <<d>>) /\ OwnAll(in, ids, DeleteInterface(end, ids))
    BY <1>1, <2>1, OwnPut DEF DeleteInterface, Delete
  <2>6. ResetPolicy(end, {end.id}) = When(end.policy # {}, <<rs, d>>)
    BY DEF ResetPolicy, Delete
  <2> HIDE DEF rs, d
  <2>7. OwnAll(in, ids, <<rs, d>>)
    <3>1. OwnAll(in, ids, <<rs>>)
      BY <1>1, <2>1, <2>3, OwnStep, OwnParts
    <3>2. <<rs>> \o <<d>> = <<rs, d>>
      BY <2>3, <2>4, TwoSteps
    <3> QED BY <2>5, <3>1, <3>2, OwnParts
  <2>8. OwnAll(in, ids, ResetPolicy(end, {end.id}))
    BY <2>6, <2>7, OwnParts DEF When
  <2> QED BY <2>5, <2>8, OwnParts DEF ResetEnd, When
<1>3. OwnAll(in, ids, <<Commit(ids, ids), SyncFromNet(ids, ids)>>)
  <2>1. OwnAll(in, ids, <<Commit(ids, ids)>>) /\ OwnAll(in, ids, <<SyncFromNet(ids, ids)>>)
    BY <1>1, OwnCall DEF Commit, SyncFromNet, NoCommit
  <2>2. Commit(ids, ids) \in Step /\ SyncFromNet(ids, ids) \in Step
    BY <1>1, CallFacts DEF Commit, SyncFromNet
  <2> QED BY <2>1, <2>2, TwoSteps, OwnParts
<1>4. OwnAll(in, ids, When(\E k \in 1..2 : in.devices[k].interface_reset,
                      <<Commit(ids, ids), SyncFromNet(ids, ids)>>))
  BY <1>3, OwnParts DEF When
<1>5. OwnAll(in, ids, ResetEnd(in.devices[1], ids)) /\ OwnAll(in, ids, ResetEnd(in.devices[2], ids))
  BY <1>1, <1>2
<1>6. ResetEnds(in) = (ResetEnd(in.devices[1], ids) \o ResetEnd(in.devices[2], ids))
         \o When(\E k \in 1..2 : in.devices[k].interface_reset,
                 <<Commit(ids, ids), SyncFromNet(ids, ids)>>)
  BY DEF ResetEnds
<1> HIDE DEF ids
<1> QED BY <1>4, <1>5, <1>6, OwnParts DEF ids

\* The instances that are written are of point to point services.
LEMMA InstancesShaped ==
  \A s, e, f : InstanceOK(LocalInstance(s)) /\ InstanceOK(RemoteInstance(s, e, f)) /\ InstanceOK(None)
<1> TAKE s, e, f
<1>1. ASSUME NEW v, NEW a, NEW b, v.net = "L2P2P", v.points = <<a, b>>, a.type = "LOCAL",
             b.type \in {"LOCAL", "REMOTE"}
      PROVE  InstanceOK(v)
  <2> DEFINE types == {v.points[k].type : k \in DOMAIN v.points}
  <2>1. Len(v.points) = 2 /\ DOMAIN v.points = 1..2 /\ v.points[1] = a /\ v.points[2] = b
    BY <1>1
  <2>2. (\A k \in 1..2 : k = 1 \/ k = 2) /\ 1 \in 1..2 /\ 2 \in 1..2
    OBVIOUS
  <2>3. types = {a.type, b.type}
    BY <2>1, <2>2
  <2>4. VllType(v) = CASE Len(v.points) # 2           -> "no VLL"
                       [] types = {"LOCAL"}            -> "LOCAL"
                       [] types = {"LOCAL", "REMOTE"}  -> "REMOTE"
                       [] OTHER                        -> "UNKNOWN"
    BY DEF VllType
  <2> HIDE DEF types
  <2>5. types = {"LOCAL"} \/ types = {"LOCAL", "REMOTE"}
    BY <1>1, <2>3
  <2>6. "REMOTE" # "LOCAL" /\ {"LOCAL", "REMOTE"} # {"LOCAL"}
    OBVIOUS
  <2>7. VllType(v) \in {"LOCAL", "REMOTE"}
    BY <2>1, <2>4, <2>5, <2>6
  <2> QED BY <1>1, <2>7 DEF InstanceOK, VllShaped
<1>2. InstanceOK(LocalInstance(s))
  BY <1>1 DEF LocalInstance, NetworkInstance, LocalPoint
<1>3. InstanceOK(RemoteInstance(s, e, f))
  BY <1>1 DEF RemoteInstance, NetworkInstance, LocalPoint, RemotePoint
<1> QED BY <1>2, <1>3 DEF InstanceOK

\* Writing the instances.
LEMMA OwnCreate ==
  ASSUME NEW in \in VllInput, in.do \in {"create", "write"}, Parses(in),
         NEW undo \in SUBSET EndIds(in)
  PROVE  OwnAll(in, EndIds(in), CreateVll(in, undo))
<1> DEFINE ids == EndIds(in)
           o  == Instance(in.id)
           e1 == in.devices[1]
           e2 == in.devices[2]
<1>1. e1.id \in ids /\ e2.id \in ids /\ ids \in SUBSET Id /\ undo \in SUBSET Id
      /\ o \in Object /\ {} \in SUBSET ids
  BY InputEnds, Objects
<1>2. CASE IsLocal(in)
  <2>1. LocalInstance(in) \in Value
    BY <1>2, VllInputAssumption
  <2> QED BY <1>1, <1>2, <2>1, OwnPut, InstancesShaped DEF CreateVll, CreateVllLocal
<1>3. CASE ~IsLocal(in) /\ ~Remote(in)
  <2>1. OwnAll(in, ids, <<Raise>>)
    BY <1>1, OwnCall DEF Raise, Rollback
  <2> QED BY <1>3, <2>1 DEF CreateVll, CreateVllRemote
<1>4. CASE ~IsLocal(in) /\ Remote(in)
  <2> DEFINE r1 == RemoteInstance(in, e1, e2)
             r2 == RemoteInstance(in, e2, e1)
             w1 == Put(e1.id, o, r1, undo)
             w2 == Put(e2.id, o, r2, undo)
  <2>1. \A k \in 1..2 : RemoteInstance(in, in.devices[k], in.devices[3 - k]) \in Value
    BY <1>4, VllInputAssumption
  <2>2. r1 \in Value /\ r2 \in Value
    <3>1. 3 - 1 = 2 /\ 3 - 2 = 1 /\ 1 \in 1..2 /\ 2 \in 1..2
      OBVIOUS
    <3> QED BY <2>1, <3>1
  <2>6. InstanceOK(r1) /\ InstanceOK(r2)
    BY InstancesShaped
  <2> HIDE DEF r1, r2
  <2>3. OwnAll(in, ids, <<w1>>) /\ OwnAll(in, ids, <<w2>>)
    BY <1>1, <2>2, <2>6, OwnPut
  <2>4. w1 \in Step /\ w2 \in Step
    <3>1. e1.id \in Id /\ e2.id \in Id
      BY <1>1
    <3> QED BY <1>1, <2>2, <3>1, PutFacts
  <2>5. CreateVll(in, undo) = <<w1, w2>>
    BY <1>4 DEF CreateVll, CreateVllRemote, r1, r2
  <2> HIDE DEF w1, w2
  <2> QED BY <2>3, <2>4, <2>5, TwoSteps, OwnParts
<1> QED BY <1>2, <1>3, <1>4

\* A dry run does not finish with a commit.
LEMMA OwnFinish ==
  ASSUME NEW in, NEW ids \in SUBSET Id, in.dryrun \in BOOLEAN, in.do \in {"create", "delete"}
  PROVE  OwnAll(in, ids, Finish(in.dryrun, ids))
<1>1. ids \in SUBSET ids /\ {} \in SUBSET ids
  OBVIOUS
<1>2. CASE in.dryrun
  BY <1>1, <1>2, OwnCall DEF Finish, DryRun
<1>3. CASE ~in.dryrun
  BY <1>1, <1>3, OwnCall DEF Finish, Commit, NoCommit
<1> QED BY <1>2, <1>3

\* The program of a creation.
LEMMA OwnCreateTask ==
  ASSUME NEW in \in VllInput, in.do = "create", Parses(in)
  PROVE  OwnAll(in, EndIds(in), CreateVllTask(in))
<1> DEFINE ids == EndIds(in)
           r1 == ReadInterface(in.devices[1], {})
           r2 == ReadInterface(in.devices[2], {})
           rs == When(~in.dryrun, ResetEnds(in))
           c1 == Configure(in.devices[1], ids)
           c2 == Configure(in.devices[2], ids)
           cr == CreateVll(in, ids)
           f  == Finish(in.dryrun, ids)
<1>1. ids \in SUBSET Id /\ ids \in SUBSET ids
      /\ EndOK(in, in.devices[1]) /\ EndOK(in, in.devices[2]) /\ in.dryrun \in BOOLEAN
  BY InputEnds, VllInputAssumption
<1>2. OwnAll(in, ids, r1) /\ OwnAll(in, ids, r2) /\ OwnAll(in, ids, c1) /\ OwnAll(in, ids, c2)
  BY <1>1, OwnConfigure
<1>3. OwnAll(in, ids, rs)
  BY OwnReset, OwnParts DEF When
<1>4. OwnAll(in, ids, cr) /\ OwnAll(in, ids, f)
  BY <1>1, OwnCreate, OwnFinish
<1>5. CreateVllTask(in) = (((((r1 \o r2) \o rs) \o c1) \o c2) \o cr) \o f
  BY DEF CreateVllTask
<1> HIDE DEF ids, r1, r2, rs, c1, c2, cr, f
<1> QED BY <1>2, <1>3, <1>4, <1>5, OwnParts DEF ids

\* Deleting the ends of a service of the task's name.
LEMMA OwnDelete ==
  ASSUME NEW in, NEW s, Parses(s), s.id = in.id, NEW undo \in SUBSET EndIds(s)
  PROVE  OwnAll(in, EndIds(s), DeleteVll(s, undo)) /\ EndIds(s) \in SUBSET Id
<1> DEFINE ids == EndIds(s)
<1>1. /\ s.devices[1].id \in ids /\ s.devices[2].id \in ids /\ Instance(s.id) \in Object
      /\ ids \in SUBSET Id
  <2>1. 1 \in 1..2 /\ 2 \in 1..2
    OBVIOUS
  <2> QED BY <2>1, Objects DEF Parses, EndIds
<1>2. \A id \in ids : OwnAll(in, ids, RemoveVll(id, s, undo))
  BY <1>1, OwnPut, InstancesShaped DEF RemoveVll, Delete
<1>3. OwnAll(in, ids, When(~IsLocal(s), RemoveVll(s.devices[2].id, s, undo)))
  BY <1>1, <1>2, OwnParts DEF When
<1> QED BY <1>1, <1>2, <1>3, OwnParts DEF DeleteVll

\* The program of a deletion.
LEMMA OwnDeleteTask ==
  ASSUME NEW in, in.dryrun \in BOOLEAN, in.do = "delete", NEW s, Parses(s), s.id = in.id
  PROVE  OwnAll(in, EndIds(s), DeleteVllTask(s, in.dryrun))
<1>1. EndIds(s) \in SUBSET EndIds(s)
  OBVIOUS
<1>2. /\ OwnAll(in, EndIds(s), DeleteVll(s, EndIds(s)))
      /\ OwnAll(in, EndIds(s), Finish(in.dryrun, EndIds(s)))
  BY <1>1, OwnDelete, OwnFinish
<1> QED BY <1>2, OwnParts DEF DeleteVllTask

\* A task that cannot begin.
LEMMA OwnRaise == \A in : \A ids \in SUBSET Id : OwnAll(in, ids, <<Raise>>)
BY OwnCall DEF Raise, Rollback
-----------------------------------------------------------------------------
(* The invariant of the dry runs *)

Asks(u, n) == input[u] # None /\ input[u].id = n

\* Every program is its task's own, and a task with devices has a name.
NamedInv ==
  \A u \in Task :
    /\ OwnAll(input[u], scope[u], todo[u])
    /\ result[u] = "idle" => input[u] = None
    /\ scope[u] # {} => input[u].id \in Name

\* An instance was there at first, or a task was asked for its name.
KnownInv ==
  \A d \in Node, n \in Name :
    intent[d][Instance(n)] # None \/ actual[d][Instance(n)] # None =>
      Initial[d][Instance(n)] # None \/ \E u \in Task : Asks(u, n)

\* Who has met nobody shares no node with a task that runs, neither while it
\* runs itself nor by what it left there.
ApartInv ==
  \A t \in Task \ disturbed : \A u \in Task \ {t} : Running(u) =>
    scope[u] \cap dirty[t] = {} /\ (Running(t) => scope[u] \cap scope[t] = {})

\* A dry run whose name no other task is asked for, and that has met nobody.
Lone(t) ==
  /\ Creates(t) /\ input[t].dryrun /\ t \notin disturbed
  /\ \A u \in Task \ {t} : ~Asks(u, input[t].id)

\* Its instance is nowhere on the network, and in the intent only where the
\* task itself has written.
DryInv ==
  \A t \in Task : Lone(t) =>
    \A d \in Node : LET o == Instance(input[t].id) IN
      /\ actual[d][o] # None => Initial[d][o] # None
      /\ intent[d][o] # None => Initial[d][o] # None \/ d \in dirty[t]

NetInv == NamedInv /\ KnownInv /\ ApartInv /\ DryInv

\* The property follows: the other VLL tasks are those that have an input.
LEMMA InvDryRun == IInv /\ NetInv => VllDryRunStaysHome
<1> SUFFICES ASSUME IInv, NetInv, NEW t \in Task,
                    Creates(t) /\ input[t].dryrun /\ t \notin disturbed,
                    \A u \in Task \ {t} : IsVll(u) => input[u].id # input[t].id
             PROVE  Holders(actual, input[t].id) \subseteq Holders(Initial, input[t].id)
  BY DEF VllDryRunStaysHome
<1>1. ASSUME NEW u \in Task \ {t} PROVE ~Asks(u, input[t].id)
  <2>1. input[u] # None => input[u] \in VllInput
    BY DEF IInv
  <2>2. input[u] # None => IsVll(u)
    BY <2>1, VllInputAssumption DEF IsVll
  <2> QED BY <2>2 DEF Asks
<1>2. Lone(t)
  BY <1>1 DEF Lone
<1> QED BY <1>2 DEF NetInv, DryInv, Holders
-----------------------------------------------------------------------------
(* A call of a task *)

\* The step a task is at has the shape its invariant knows.
LEMMA ThisShape ==
  ASSUME IInv, NEW t \in Task, Running(t), todo[t] # <<>>, This(t).call # "rollback"
  PROVE  Shape(scope[t], This(t))
<1>1. OnCourse(t)
  BY OnCourseIf DEF IInv
<1>2. todo[t] \in Seq(Step)
  BY DEF IInv, TypeOK
<1>3. 1 \in 1..Len(todo[t]) /\ This(t) = todo[t][1]
  BY <1>2 DEF This
<1> QED BY <1>1, <1>3 DEF OnCourse, ProgramOK

\* What a call leaves alone, and what it leaves to do, is the task's own.
LEMMA CallFrame ==
  ASSUME IInv, NamedInv, NEW t \in Task, Advance(t) \/ WorkerDies(t)
  PROVE  /\ Running(t) /\ UNCHANGED <<input, scope, disturbed>>
         /\ result'[t] \in {"running", "COMPLETED", "FAILED", "LOST"}
         /\ \A u \in Task \ {t} : todo'[u] = todo[u] /\ result'[u] = result[u]
         /\ OwnAll(input[t], scope[t], todo'[t])
<1>1. TasksOK
  BY TypeParts DEF IInv
<1>2. OwnAll(input[t], scope[t], todo[t]) /\ OwnAll(input[t], scope[t], <<>>)
  BY OwnParts DEF NamedInv
<1>3. CASE ReadData(t) \/ WriteData(t) \/ CommitData(t) \/ SyncData(t) \/ DryRunData(t)
  <2>1. Running(t) /\ GoOn(t) /\ todo[t] # <<>>
    BY <1>3 DEF ReadData, WriteData, CommitData, SyncData, DryRunData, Doing
  <2>2. OwnAll(input[t], scope[t], Tail(todo[t]))
    BY <1>2, <2>1, OwnParts
  <2> QED BY <1>1, <2>1, <2>2 DEF GoOn, TasksOK, Running
<1>4. CASE RollBack(t)
  BY <1>1, <1>2, <1>4 DEF RollBack, Doing, TasksOK
<1>5. CASE WorkerDies(t)
  BY <1>1, <1>2, <1>5 DEF WorkerDies, TasksOK
<1>6. CASE CallFails(t)
  <2>1. /\ Running(t) /\ todo[t] # <<>> /\ This(t).call # "rollback"
        /\ UNCHANGED <<intent, actual, input, scope, dirty, disturbed>>
    BY <1>6, FailFrame DEF IInv
  <2>2. /\ Own(input[t], scope[t], This(t)) /\ This(t) \in Step /\ scope[t] \in SUBSET Id
        /\ OwnAll(input[t], scope[t], Tail(todo[t]))
    BY <1>1, <1>2, <2>1, ThisOK, OwnParts DEF This, IInv, TasksOK
  <2>3. OwnAll(input[t], scope[t], <<Rollback(This(t).undo)>>)
    <3>1. This(t).undo \in SUBSET scope[t] /\ {} \in SUBSET scope[t]
      BY <2>2 DEF Own
    <3> QED BY <2>2, <3>1, OwnCall DEF Rollback
  <2>4. This(t).fails = "skip" => Tail(todo[t]) # <<>>
    <3>1. SUFFICES ASSUME This(t).fails = "skip", Tail(todo[t]) = <<>> PROVE FALSE
      OBVIOUS
    <3>2. todo[t] \in Seq(Step) /\ This(t) = todo[t][1]
      BY <1>1, <2>1 DEF TasksOK, This
    <3>3. Len(todo[t]) = 1
      BY <2>1, <3>1, <3>2, LastStep
    <3>4. OnCourse(t)
      BY <2>1, OnCourseIf DEF IInv
    <3> QED BY <2>1, <3>1, <3>2, <3>3, <3>4 DEF OnCourse, EndsOK, LastOK
  <2>5. This(t).fails = "skip" => OwnAll(input[t], scope[t], Tail(Tail(todo[t])))
    <3> DEFINE rest == Tail(todo[t])
    <3>1. OwnAll(input[t], scope[t], rest)
      BY <2>2
    <3>2. This(t).fails = "skip" => rest # <<>>
      BY <2>4
    <3> HIDE DEF rest
    <3>3. This(t).fails = "skip" => OwnAll(input[t], scope[t], Tail(rest))
      BY <3>1, <3>2, OwnParts
    <3> QED BY <3>3 DEF rest
  <2>6. Shape(scope[t], This(t))
    BY <2>1, ThisShape
  <2>7. CASE /\ todo' = [todo EXCEPT ![t] = <<Rollback(This(t).undo)>>] /\ result' = result
    BY <1>1, <2>1, <2>3, <2>7 DEF TasksOK, Running
  <2>8. CASE /\ todo' = [todo EXCEPT ![t] = Tail(todo[t])]
             /\ result' = IF Tail(todo[t]) = <<>>
                          THEN [result EXCEPT ![t] = "COMPLETED"] ELSE result
    BY <1>1, <2>1, <2>2, <2>8 DEF TasksOK, Running
  <2>9. CASE /\ This(t).fails = "skip" /\ result' = result
             /\ todo' = [todo EXCEPT ![t] = Tail(Tail(todo[t]))]
    BY <1>1, <2>1, <2>5, <2>9 DEF TasksOK, Running
  <2> QED BY <1>6, <2>6, <2>7, <2>8, <2>9, FailCases DEF IInv
<1> QED BY <1>3, <1>4, <1>5, <1>6 DEF Advance

\* What a call does to the nodes it is not about: nothing.
LEMMA CallElsewhere ==
  ASSUME IInv, NamedInv, NEW t \in Task, Advance(t) \/ WorkerDies(t)
  PROVE  /\ \A d \in Node \ scope[t] : intent'[d] = intent[d] /\ actual'[d] = actual[d]
         /\ \A u \in Task \ {t} : dirty'[u] \subseteq dirty[u]
         /\ dirty'[t] \subseteq dirty[t] \cup scope[t]
         /\ \A u \in Task : \A d \in dirty[u] \ scope[t] : d \in dirty'[u]
<1>1. StoresOK /\ TasksOK
  BY TypeParts DEF IInv
<1>2. ASSUME todo[t] # <<>> PROVE This(t).on \subseteq scope[t] /\ This(t) \in Step
  <2>1. Own(input[t], scope[t], This(t))
    BY <1>2, OwnParts DEF NamedInv, This
  <2> QED BY <1>2, <2>1, ThisOK DEF IInv, Own
<1>3. CASE ReadData(t) \/ DryRunData(t)
  BY <1>3 DEF ReadData, DryRunData
<1>4. CASE WriteData(t)
  <2>1. /\ todo[t] # <<>> /\ actual' = actual /\ intent' = Written(intent, This(t))
        /\ dirty' = [dirty EXCEPT ![t] = @ \cup This(t).on]
    BY <1>4 DEF WriteData, Doing
  <2>2. \A d \in Node : d \notin This(t).on => intent'[d] = intent[d]
    BY <2>1 DEF Written
  <2> QED BY <1>1, <1>2, <2>1, <2>2 DEF TasksOK
<1>5. CASE CommitData(t)
  <2>1. /\ todo[t] # <<>> /\ intent' = intent /\ actual' = Copied(actual, intent, This(t).on)
        /\ dirty' = Cleaned(This(t).on)
    BY <1>5 DEF CommitData, Doing
  <2>2. \A d \in Node : d \notin This(t).on => actual'[d] = actual[d]
    BY <2>1 DEF Copied
  <2>3. \A u \in Task : dirty'[u] = dirty[u] \ This(t).on
    BY <2>1 DEF Cleaned
  <2> QED BY <1>2, <2>1, <2>2, <2>3
<1>6. CASE SyncData(t)
  <2>1. /\ todo[t] # <<>> /\ intent' = intent /\ actual' = Reread(actual, This(t).on)
        /\ dirty' = [dirty EXCEPT ![t] = @ \cup This(t).on]
    BY <1>6 DEF SyncData, Doing
  <2>2. \A d \in Node : d \notin This(t).on => actual'[d] = actual[d]
    BY <2>1 DEF Reread
  <2> QED BY <1>1, <1>2, <2>1, <2>2 DEF TasksOK
<1>7. CASE RollBack(t)
  <2>1. todo[t] # <<>> /\ actual' = actual
    BY <1>7 DEF RollBack, Doing
  <2>2. CASE UNCHANGED <<intent, dirty>>
    BY <2>1, <2>2
  <2>3. CASE intent' = Copied(intent, actual, This(t).on) /\ dirty' = Cleaned(This(t).on)
    <3>1. \A d \in Node : d \notin This(t).on => intent'[d] = intent[d]
      BY <2>3 DEF Copied
    <3>2. \A u \in Task : dirty'[u] = dirty[u] \ This(t).on
      BY <2>3 DEF Cleaned
    <3> QED BY <1>2, <2>1, <3>1, <3>2
  <2> QED BY <1>7, <2>2, <2>3 DEF RollBack
<1>8. CASE CallFails(t)
  BY <1>8, FailFrame DEF IInv
<1>9. CASE WorkerDies(t)
  BY <1>9 DEF WorkerDies
<1> QED BY <1>3, <1>4, <1>5, <1>6, <1>7, <1>8, <1>9 DEF Advance

\* What a call does to an instance of a node: it leaves it, and what is known
\* to be dirty; writes it, of the task's own name, or deletes it; commits it,
\* in no dry run; or resets it.
InstanceKept(d, o) ==
  /\ intent'[d][o] = intent[d][o] /\ actual'[d][o] = actual[d][o]
  /\ \A u \in Task : d \in dirty[u] => d \in dirty'[u]
WritesTo(s, d, o) == s.call = "write" /\ d \in s.on /\ s.object = o
InstanceWritten(t, d, n) ==
  /\ WriteData(t) /\ WritesTo(This(t), d, Instance(n))
  /\ actual'[d][Instance(n)] = actual[d][Instance(n)]
  /\ n = input[t].id /\ InstanceOK(intent'[d][Instance(n)])
  /\ d \in dirty'[t] /\ \A u \in Task : d \in dirty[u] => d \in dirty'[u]
InstanceCommitted(t, d, o) ==
  /\ CommitData(t)
  /\ d \in scope[t] /\ ~NoCommit(input[t])
  /\ intent'[d][o] = intent[d][o] /\ actual'[d][o] = intent[d][o]
InstanceReset(d, o) ==
  /\ actual'[d][o] = actual[d][o] /\ intent'[d][o] = actual[d][o]

LEMMA InstanceMoves ==
  ASSUME IInv, NamedInv, NEW t \in Task, Advance(t) \/ WorkerDies(t),
         NEW d \in Node, NEW n \in Name
  PROVE  \/ InstanceKept(d, Instance(n)) \/ InstanceWritten(t, d, n)
         \/ InstanceCommitted(t, d, Instance(n)) \/ InstanceReset(d, Instance(n))
<1> DEFINE o == Instance(n)
<1>0. o \in Object /\ o[1] = "instance"
  BY Objects DEF Instance
<1>1. StoresOK /\ TasksOK
  BY TypeParts DEF IInv
<1>2. CASE d \notin scope[t]
  BY <1>2, CallElsewhere DEF InstanceKept
<1>3. ASSUME todo[t] # <<>> PROVE Own(input[t], scope[t], This(t)) /\ This(t) \in Step
  BY <1>3, OwnParts, ThisOK DEF NamedInv, This, IInv
<1>4. CASE ReadData(t) \/ DryRunData(t) \/ WorkerDies(t)
  BY <1>4 DEF ReadData, DryRunData, WorkerDies, InstanceKept
<1>5. CASE CallFails(t)
  BY <1>5, FailFrame DEF IInv, InstanceKept
<1>6. CASE WriteData(t)
  <2>1. /\ todo[t] # <<>> /\ actual' = actual /\ intent' = Written(intent, This(t))
        /\ dirty' = [dirty EXCEPT ![t] = @ \cup This(t).on]
    BY <1>6 DEF WriteData, Doing
  <2>2. /\ \A u \in Task : d \in dirty[u] => d \in dirty'[u]
        /\ d \in This(t).on => d \in dirty'[t]
    BY <1>1, <2>1 DEF TasksOK
  <2>3. intent[d] \in [Object -> Value \cup {None}]
    BY <1>1 DEF StoresOK, Stores
  <2>4. CASE d \in This(t).on /\ This(t).object = o
    <3>1. intent'[d] = [intent[d] EXCEPT ![This(t).object] = This(t).value]
      BY <2>1, <2>4 DEF Written
    <3>2. intent'[d][o] = This(t).value
      BY <1>0, <2>3, <2>4, <3>1
    <3>3. This(t).call = "write"
      BY <1>6 DEF WriteData, Doing
    <3> QED BY <1>3, <1>6, <2>1, <2>2, <2>4, <3>2, <3>3 DEF Own, InstanceWritten, WritesTo
  <2>5. CASE ~(d \in This(t).on /\ This(t).object = o)
    <3>1. intent'[d][o] = intent[d][o]
      BY <1>0, <2>1, <2>3, <2>5 DEF Written
    <3> QED BY <2>1, <2>2, <3>1 DEF InstanceKept
  <2> QED BY <2>4, <2>5
<1>7. CASE CommitData(t)
  <2>1. /\ todo[t] # <<>> /\ intent' = intent /\ actual' = Copied(actual, intent, This(t).on)
        /\ dirty' = Cleaned(This(t).on) /\ This(t).call = "commit"
    BY <1>7 DEF CommitData, Doing
  <2>2. CASE d \in This(t).on
    BY <1>3, <1>7, <2>1, <2>2 DEF Copied, Own, InstanceCommitted
  <2>3. CASE d \notin This(t).on
    BY <2>1, <2>3 DEF Copied, Cleaned, InstanceKept
  <2> QED BY <2>2, <2>3
<1>8. CASE SyncData(t)
  <2>1. /\ intent' = intent /\ actual' = Reread(actual, This(t).on)
        /\ dirty' = [dirty EXCEPT ![t] = @ \cup This(t).on]
    BY <1>8 DEF SyncData
  <2>2. \A u \in Task : d \in dirty[u] => d \in dirty'[u]
    BY <1>1, <2>1 DEF TasksOK
  <2>3. actual'[d][o] = actual[d][o]
    BY <1>0, <1>1, <2>1 DEF Reread, StoresOK, Stores
  <2> QED BY <2>1, <2>2, <2>3 DEF InstanceKept
<1>9. CASE RollBack(t)
  <2>1. actual' = actual
    BY <1>9 DEF RollBack
  <2>2. CASE UNCHANGED <<intent, dirty>>
    BY <2>1, <2>2 DEF InstanceKept
  <2>3. CASE intent' = Copied(intent, actual, This(t).on) /\ dirty' = Cleaned(This(t).on)
    <3>1. CASE d \in This(t).on
      BY <2>1, <2>3, <3>1 DEF Copied, InstanceReset
    <3>2. CASE d \notin This(t).on
      BY <2>1, <2>3, <3>2 DEF Copied, Cleaned, InstanceKept
    <3> QED BY <3>1, <3>2
  <2> QED BY <1>9, <2>2, <2>3 DEF RollBack
<1> QED BY <1>4, <1>5, <1>6, <1>7, <1>8, <1>9 DEF Advance

\* A call keeps the invariant of the dry runs.
LEMMA CallNetInv ==
  ASSUME IInv, NetInv, NEW t \in Task, Advance(t) \/ WorkerDies(t) PROVE NetInv'
<1>1. /\ Running(t) /\ UNCHANGED <<input, scope, disturbed>>
      /\ result'[t] \in {"running", "COMPLETED", "FAILED", "LOST"}
      /\ \A u \in Task \ {t} : todo'[u] = todo[u] /\ result'[u] = result[u]
      /\ OwnAll(input[t], scope[t], todo'[t])
  BY CallFrame DEF NetInv
<1>2. \A u, n : Asks(u, n)' <=> Asks(u, n)
  BY <1>1 DEF Asks
<1>3. \A u \in Task : Running(u)' => Running(u)
  BY <1>1 DEF Running
<1>4. input[t] # None
  <2>1. input[t] \in VllInput
    BY <1>1 DEF IInv, TaskOK, Running
  <2> QED BY <2>1, VllInputAssumption
<1>5. NamedInv'
  <2>1. ASSUME NEW u \in Task PROVE OwnAll(input[u], scope[u], todo'[u])
    BY <1>1, <2>1 DEF NetInv, NamedInv
  <2>2. \A u \in Task : result'[u] = "idle" => input[u] = None
    BY <1>1 DEF NetInv, NamedInv
  <2>3. \A u \in Task : scope[u] # {} => input[u].id \in Name
    BY DEF NetInv, NamedInv
  <2> QED BY <1>1, <2>1, <2>2, <2>3 DEF NamedInv
<1>6. KnownInv'
  <2>1. SUFFICES ASSUME NEW d \in Node, NEW n \in Name,
                        intent'[d][Instance(n)] # None \/ actual'[d][Instance(n)] # None
                 PROVE  Initial[d][Instance(n)] # None \/ \E u \in Task : Asks(u, n)
    BY <1>2 DEF KnownInv
  <2>2. intent[d][Instance(n)] # None \/ actual[d][Instance(n)] # None \/ n = input[t].id
    BY <2>1, InstanceMoves DEF NetInv, InstanceKept, InstanceWritten, InstanceCommitted,
                               InstanceReset
  <2> QED BY <1>4, <2>2 DEF NetInv, KnownInv, Asks
<1>7. ApartInv'
  <2>1. SUFFICES ASSUME NEW x \in Task \ disturbed, NEW u \in Task \ {x}, Running(u)'
                 PROVE  /\ scope[u] \cap dirty'[x] = {}
                        /\ Running(x)' => scope[u] \cap scope[x] = {}
    BY <1>1 DEF ApartInv
  <2>2. /\ scope[u] \cap dirty[x] = {}
        /\ Running(x) => scope[u] \cap scope[x] = {}
    BY <1>3, <2>1 DEF NetInv, ApartInv
  <2>3. dirty'[x] \subseteq dirty[x] \cup (IF x = t THEN scope[x] ELSE {})
    BY CallElsewhere DEF NetInv
  <2> QED BY <1>1, <1>3, <2>2, <2>3
<1>8. DryInv'
  <2>1. SUFFICES ASSUME NEW x \in Task, Lone(x), NEW d \in Node
                 PROVE  LET o == Instance(input[x].id) IN
                        /\ actual'[d][o] # None => Initial[d][o] # None
                        /\ intent'[d][o] # None => Initial[d][o] # None \/ d \in dirty'[x]
    BY <1>1, <1>2 DEF DryInv, Lone, Creates, IsVll
  <2>2. PICK n \in Name : n = input[x].id
    BY <2>1 DEF NetInv, NamedInv, Lone, Creates
  <2>3. /\ actual[d][Instance(n)] # None => Initial[d][Instance(n)] # None
        /\ intent[d][Instance(n)] # None => Initial[d][Instance(n)] # None \/ d \in dirty[x]
    BY <2>1, <2>2 DEF NetInv, DryInv
  <2>4. CASE InstanceKept(d, Instance(n))
    BY <2>2, <2>3, <2>4 DEF InstanceKept
  <2>5. CASE InstanceWritten(t, d, n)
    <3>1. n = input[t].id => t = x
      BY <1>4, <2>1, <2>2 DEF Lone, Asks
    <3> QED BY <2>2, <2>3, <2>5, <3>1 DEF InstanceWritten
  <2>6. CASE InstanceCommitted(t, d, Instance(n))
    <3>1. t # x
      BY <2>1, <2>6 DEF InstanceCommitted, Lone, NoCommit
    <3>2. d \notin dirty[x]
      BY <1>1, <2>1, <2>6, <3>1 DEF InstanceCommitted, NetInv, ApartInv, Lone
    <3> QED BY <2>2, <2>3, <2>6, <3>2 DEF InstanceCommitted
  <2>7. CASE InstanceReset(d, Instance(n))
    BY <2>2, <2>3, <2>7 DEF InstanceReset
  <2> QED BY <2>4, <2>5, <2>6, <2>7, InstanceMoves DEF NetInv
<1> QED BY <1>5, <1>6, <1>7, <1>8 DEF NetInv
-----------------------------------------------------------------------------
(* A task begins *)

\* Whom it meets, and who meets it, is disturbed from then on; and nothing is
\* called by a new name yet.
LEMMA BeginNetInv ==
  ASSUME IInv, NetInv, NEW t \in Task, MayBegin(t), NEW in \in VllInput, NEW ids \in SUBSET Id,
         NEW p, OwnAll(in, ids, p), ids # {} => in.id \in Name,
         Begin(t, in, p, ids)
  PROVE  NetInv'
<1>1. /\ input' = [input EXCEPT ![t] = in] /\ todo' = [todo EXCEPT ![t] = p]
      /\ result' = [result EXCEPT ![t] = "running"] /\ scope' = [scope EXCEPT ![t] = ids]
      /\ UNCHANGED <<intent, actual, broke, faults, dirty>>
  BY DEF Begin
<1>2. /\ TasksOK /\ input \in [Task -> VllInput \cup {None}] /\ disturbed \subseteq Task
      /\ result[t] = "idle" /\ dirty[t] = {} /\ input[t] = None
  BY TypeParts DEF IInv, TaskOK, MayBegin, NetInv, NamedInv
<1>3. /\ input'[t] = in /\ todo'[t] = p /\ result'[t] = "running" /\ scope'[t] = ids
      /\ \A u \in Task \ {t} : /\ input'[u] = input[u] /\ todo'[u] = todo[u]
                               /\ result'[u] = result[u] /\ scope'[u] = scope[u]
  BY <1>1, <1>2 DEF TasksOK
<1>4. in # None
  BY VllInputAssumption
<1>5. \A u \in Task : \A n : Asks(u, n) => Asks(u, n)'
  BY <1>2, <1>3 DEF Asks
<1>6. NamedInv'
  <2>1. ASSUME NEW u \in Task, u # t
        PROVE  /\ OwnAll(input'[u], scope'[u], todo'[u])
               /\ result'[u] = "idle" => input'[u] = None
               /\ scope'[u] # {} => input'[u].id \in Name
    BY <1>3, <2>1 DEF NetInv, NamedInv
  <2>2. /\ OwnAll(input'[t], scope'[t], todo'[t])
        /\ result'[t] = "idle" => input'[t] = None
        /\ scope'[t] # {} => input'[t].id \in Name
    BY <1>3
  <2> QED BY <2>1, <2>2 DEF NamedInv
<1>7. KnownInv'
  BY <1>1, <1>5 DEF NetInv, KnownInv
<1>8. ASSUME NEW u \in Task \ {t}, u \notin disturbed' \/ t \notin disturbed'
      PROVE  (Running(u) => scope[u] \cap ids = {}) /\ dirty[u] \cap ids = {}
  <2> DEFINE met == {x \in Task \ {t} : \/ Running(x) /\ scope[x] \cap ids # {}
                                        \/ dirty[x] \cap ids # {}}
  <2>1. disturbed' = disturbed \cup met \cup (IF met = {} THEN {} ELSE {t})
    BY DEF Begin
  <2>2. u \notin met
    <3> HIDE DEF met
    <3> QED BY <1>8, <2>1
  <2> QED BY <2>2
<1>9. ApartInv'
  <2>1. SUFFICES ASSUME NEW x \in Task \ disturbed', NEW u \in Task \ {x}, Running(u)'
                 PROVE  /\ scope'[u] \cap dirty[x] = {}
                        /\ Running(x)' => scope'[u] \cap scope'[x] = {}
    BY <1>1 DEF ApartInv
  <2>2. x \notin disturbed
    BY <2>1 DEF Begin
  <2>3. CASE x # t /\ u # t
    BY <1>3, <2>1, <2>2, <2>3 DEF NetInv, ApartInv, Running
  <2>4. CASE u = t
    <3>1. (Running(x) => scope[x] \cap ids = {}) /\ dirty[x] \cap ids = {}
      BY <1>8, <2>1, <2>4
    <3> QED BY <1>3, <2>1, <2>4, <3>1 DEF Running
  <2>5. CASE x = t
    <3>1. Running(u) => scope[u] \cap ids = {}
      BY <1>8, <2>1, <2>5
    <3> QED BY <1>2, <1>3, <2>1, <2>5, <3>1 DEF Running
  <2> QED BY <2>3, <2>4, <2>5
<1>10. DryInv'
  <2>1. SUFFICES ASSUME NEW x \in Task, Lone(x)', NEW d \in Node
                 PROVE  LET o == Instance(input'[x].id) IN
                        /\ actual[d][o] # None => Initial[d][o] # None
                        /\ intent[d][o] # None => Initial[d][o] # None \/ d \in dirty[x]
    BY <1>1 DEF DryInv
  <2>2. PICK n \in Name : n = input'[x].id
    BY <1>6, <2>1 DEF NamedInv, Lone, Creates
  <2>3. \A u \in Task \ {x} : ~Asks(u, n)
    BY <1>5, <2>1, <2>2 DEF Lone
  <2>4. CASE x = t
    <3>1. ~Asks(t, n)
      BY <1>2 DEF Asks
    <3>2. \A u \in Task : ~Asks(u, n)
      BY <2>3, <2>4, <3>1
    <3> QED BY <2>2, <3>2 DEF NetInv, KnownInv
  <2>5. CASE x # t
    <3>1. x \notin disturbed
      BY <2>1 DEF Begin, Lone
    <3>2. Lone(x)
      BY <1>3, <2>1, <2>2, <2>3, <2>5, <3>1 DEF Lone, Creates, IsVll
    <3> QED BY <1>3, <2>5, <3>2 DEF NetInv, DryInv
  <2> QED BY <2>4, <2>5
<1> QED BY <1>6, <1>7, <1>9, <1>10 DEF NetInv

\* What a deletion finds has the name it was asked for.
LEMMA FoundName == \A n : \A s \in FoundVll(n) : s.id = n
BY ReadIds DEF FoundVll

\* Every way to start a task keeps the invariant of the dry runs.
LEMMA StartNetInv ==
  ASSUME IInv, NetInv, NEW t \in Task, VllStart(t) PROVE NetInv'
<1>1. MayBegin(t)
  BY DEF VllStart
<1>2. ASSUME NEW in \in VllInput, Begin(t, in, <<Raise>>, {}) PROVE NetInv'
  <2>1. {} \in SUBSET Id
    OBVIOUS
  <2> QED BY <1>1, <1>2, <2>1, OwnRaise, BeginNetInv
<1>3. CASE StartCreateVll(t)
  <2>1. PICK in \in VllInput :
          /\ in.do = "create"
          /\ IF Parses(in) THEN Begin(t, in, CreateVllTask(in), EndIds(in))
                           ELSE Begin(t, in, <<Raise>>, {})
    BY <1>3 DEF StartCreateVll
  <2>2. CASE Parses(in)
    <3>1. /\ OwnAll(in, EndIds(in), CreateVllTask(in)) /\ EndIds(in) \in SUBSET Id
          /\ in.id \in Name
      BY <2>1, <2>2, OwnCreateTask, InputEnds
    <3> QED BY <1>1, <2>1, <2>2, <3>1, BeginNetInv
  <2> QED BY <1>2, <2>1, <2>2
<1>4. CASE StartDeleteVll(t)
  <2>1. PICK in \in VllInput :
          /\ in.do = "delete"
          /\ \/ Begin(t, in, <<Raise>>, {})
             \/ \E s \in FoundVll(in.id) :
                  IF Parses(s) THEN Begin(t, in, DeleteVllTask(s, in.dryrun), EndIds(s))
                               ELSE Begin(t, in, <<Raise>>, {})
    BY <1>4 DEF StartDeleteVll
  <2>2. ASSUME NEW s \in FoundVll(in.id), Parses(s),
               Begin(t, in, DeleteVllTask(s, in.dryrun), EndIds(s))
        PROVE  NetInv'
    <3>1. in.dryrun \in BOOLEAN
      BY VllInputAssumption
    <3>2. s.id = in.id
      BY <2>2, FoundName
    <3>3. OwnAll(in, EndIds(s), DeleteVllTask(s, in.dryrun)) /\ EndIds(s) \in SUBSET Id
      BY <2>1, <2>2, <3>1, <3>2, OwnDeleteTask, DeleteTaskOK
    <3>4. in.id \in Name
      BY <2>2, <3>2 DEF Parses
    <3> QED BY <1>1, <2>1, <2>2, <3>3, <3>4, BeginNetInv
  <2> QED BY <1>2, <2>1, <2>2
<1>5. CASE StartWriteVll(t)
  <2>1. PICK in \in VllInput :
          /\ in.do \in {"write", "erase"}
          /\ IF ~Parses(in) THEN Begin(t, in, <<Raise>>, {})
             ELSE Begin(t, in, IF in.do = "write" THEN CreateVll(in, {}) ELSE DeleteVll(in, {}),
                        EndIds(in))
    BY <1>5 DEF StartWriteVll
  <2>2. CASE Parses(in)
    <3>1. {} \in SUBSET EndIds(in)
      OBVIOUS
    <3>4. in.id \in Name
      BY <2>2 DEF Parses
    <3>2. CASE in.do = "write"
      <4>1. OwnAll(in, EndIds(in), CreateVll(in, {})) /\ EndIds(in) \in SUBSET Id
        BY <2>2, <3>1, <3>2, OwnCreate, InputEnds
      <4> QED BY <1>1, <2>1, <2>2, <3>2, <3>4, <4>1, BeginNetInv
    <3>3. CASE in.do # "write"
      <4>1. OwnAll(in, EndIds(in), DeleteVll(in, {})) /\ EndIds(in) \in SUBSET Id
        BY <2>2, <3>1, OwnDelete
      <4> QED BY <1>1, <2>1, <2>2, <3>3, <3>4, <4>1, BeginNetInv
    <3> QED BY <3>2, <3>3
  <2> QED BY <1>2, <2>1, <2>2
<1> QED BY <1>3, <1>4, <1>5 DEF VllStart

\* At first no task has an input and no node an instance it did not have.
LEMMA InitNetInv == Init => NetInv
<1> SUFFICES ASSUME Init PROVE NetInv
  OBVIOUS
<1>1. NamedInv
  BY OwnParts DEF Init, NamedInv, Creates, IsVll
<1>2. KnownInv /\ ApartInv
  BY DEF Init, KnownInv, ApartInv, Running
<1>3. DryInv
  BY DEF Init, DryInv, Lone, Creates, IsVll
<1> QED BY <1>1, <1>2, <1>3 DEF NetInv

\* The invariant of the dry runs is kept by every step.
LEMMA NextNetInv == IInv /\ NetInv /\ [VllNext]_vars => NetInv'
<1> SUFFICES ASSUME IInv, NetInv, [VllNext]_vars PROVE NetInv'
  OBVIOUS
<1>1. CASE VllNext
  <2>1. PICK t \in Task : VllStart(t) \/ Advance(t) \/ WorkerDies(t)
    BY <1>1 DEF VllNext
  <2> QED BY <2>1, StartNetInv, CallNetInv
<1>2. CASE UNCHANGED vars
  BY <1>2 DEF vars, NetInv, NamedInv, KnownInv, ApartInv, DryInv, Lone, Asks, Creates, IsVll,
              Running
<1> QED BY <1>1, <1>2

\* The invariant of the dry runs, with the one of the tasks.
THEOREM SpecNetInv == VllSpec => [](IInv /\ NetInv)
<1>1. Init => IInv /\ NetInv
  BY InitIInv, InitNetInv
<1>2. IInv /\ NetInv /\ [VllNext]_vars => (IInv /\ NetInv)'
  BY NextIInv, NextNetInv
<1> QED BY <1>1, <1>2, PTL DEF VllSpec

\* However tasks interleave, whichever calls fail and whatever the nodes hold at
\* first: a dry run that met no task on its nodes, and whose name no other task
\* is asked for, is not on the network, though its service stays in the intent
\* that the next commit of a node carries there.
THEOREM SpecDryRunStaysHome == VllSpec => []VllDryRunStaysHome
BY InvDryRun, SpecNetInv, PTL
-----------------------------------------------------------------------------
(* What a program will have written *)

\* No step before it can make the task leave out step k.
Sure(p, k) == k > 1 => p[k - 1].fails # "skip"

\* The program leaves an object as it is.
Spares(p, d, o) == p \in Seq(Step) /\ \A k \in 1..Len(p) : ~WritesTo(p[k], d, o)

\* The last write of an object, in step k that the program is sure to reach,
\* puts v there.
LandsAt(p, d, o, v, k) ==
  /\ WritesTo(p[k], d, o) /\ p[k].value = v /\ p[k].fails = "abort" /\ Sure(p, k)
  /\ \A j \in (k + 1)..Len(p) : ~WritesTo(p[j], d, o)
Lands(p, d, o, v) == p \in Seq(Step) /\ \E k \in 1..Len(p) : LandsAt(p, d, o, v, k)

\* The program is sure to end the task FAILED.
DoomedAt(p, k) == p[k].call = "rollback" /\ Sure(p, k)
Doomed(p) == p \in Seq(Step) /\ \E k \in 1..Len(p) : DoomedAt(p, k)

\* What follows the program is not left out.
Binds(p) == p \in Seq(Step) /\ (p # <<>> => p[Len(p)].fails # "skip")

\* Programs of no step and of one.
LEMMA SingleLands ==
  ASSUME NEW s \in Step, NEW d, NEW o
  PROVE  /\ Spares(<<>>, d, o) /\ Binds(<<>>)
         /\ ~WritesTo(s, d, o) => Spares(<<s>>, d, o)
         /\ WritesTo(s, d, o) /\ s.fails = "abort" => Lands(<<s>>, d, o, s.value)
         /\ s.fails # "skip" => Binds(<<s>>)
         /\ s.call = "rollback" => Doomed(<<s>>)
<1>1. <<s>> \in Seq(Step) /\ Len(<<s>>) = 1 /\ <<s>>[1] = s /\ 1 \in 1..1
  OBVIOUS
<1>2. (\A k \in 1..1 : k = 1) /\ (\A k \in (1 + 1)..1 : FALSE) /\ ~(1 > 1)
  OBVIOUS
<1>3. Spares(<<>>, d, o) /\ Binds(<<>>)
  BY DEF Spares, Binds
<1>4. /\ ~WritesTo(s, d, o) => Spares(<<s>>, d, o)
      /\ s.fails # "skip" => Binds(<<s>>)
      /\ s.call = "rollback" => Doomed(<<s>>)
  BY <1>1, <1>2 DEF Spares, Binds, Doomed, DoomedAt, Sure
<1>5. WritesTo(s, d, o) /\ s.fails = "abort" => Lands(<<s>>, d, o, s.value)
  BY <1>1, <1>2 DEF Lands, LandsAt, Sure
<1> QED BY <1>3, <1>4, <1>5

\* Programs in a row: what the first lands stays when the second spares it, and
\* what the second lands is landed when it follows for sure.
LEMMA ConcatLands ==
  ASSUME NEW p \in Seq(Step), NEW q \in Seq(Step), NEW d, NEW o, NEW v
  PROVE  /\ Spares(p, d, o) /\ Spares(q, d, o) => Spares(p \o q, d, o)
         /\ Lands(p, d, o, v) /\ Spares(q, d, o) => Lands(p \o q, d, o, v)
         /\ Binds(p) /\ Lands(q, d, o, v) => Lands(p \o q, d, o, v)
         /\ Doomed(p) => Doomed(p \o q)
         /\ Binds(p) /\ Doomed(q) => Doomed(p \o q)
         /\ Binds(p) /\ Binds(q) => Binds(p \o q)
<1> DEFINE r == p \o q
<1>1. /\ r \in Seq(Step) /\ Len(r) = Len(p) + Len(q) /\ Len(p) \in Nat /\ Len(q) \in Nat
      /\ \A k \in 1..Len(p) : r[k] = p[k] /\ k \in 1..Len(r)
      /\ \A k \in 1..Len(q) : r[k + Len(p)] = q[k] /\ k + Len(p) \in 1..Len(r)
      /\ \A k \in 1..Len(r) : k > Len(p) => r[k] = q[k - Len(p)] /\ k - Len(p) \in 1..Len(q)
  BY ConcatSteps
<1> HIDE DEF r
<1>2. Spares(p, d, o) /\ Spares(q, d, o) => Spares(r, d, o)
  <2>1. \A k \in 1..Len(r) : k \in 1..Len(p) \/ k > Len(p)
    BY <1>1
  <2> QED BY <1>1, <2>1 DEF Spares
<1>3. \A k \in 1..Len(p) : Sure(p, k) => Sure(r, k)
  <2>1. \A k \in 1..Len(p) : k > 1 => k - 1 \in 1..Len(p)
    BY <1>1
  <2> QED BY <1>1, <2>1 DEF Sure
<1>4. ASSUME Binds(p), NEW k \in 1..Len(q), Sure(q, k) PROVE Sure(r, k + Len(p))
  <2>1. CASE k > 1
    <3>1. k - 1 \in 1..Len(q) /\ (k + Len(p)) - 1 = (k - 1) + Len(p)
      BY <1>1, <2>1
    <3>2. r[(k + Len(p)) - 1] = q[k - 1]
      BY <1>1, <3>1
    <3> QED BY <1>4, <2>1, <3>2 DEF Sure
  <2>2. CASE ~(k > 1) /\ Len(p) # 0
    <3>1. k = 1 /\ (k + Len(p)) - 1 = Len(p) /\ Len(p) \in 1..Len(p) /\ p # <<>>
      BY <1>1, <2>2
    <3>2. r[(k + Len(p)) - 1].fails # "skip"
      BY <1>1, <1>4, <3>1 DEF Binds
    <3> QED BY <3>2 DEF Sure
  <2>3. CASE ~(k > 1) /\ Len(p) = 0
    <3>1. ~(k + Len(p) > 1)
      BY <1>1, <2>3
    <3> QED BY <3>1 DEF Sure
  <2> QED BY <2>1, <2>2, <2>3
<1>5. ASSUME Lands(p, d, o, v), Spares(q, d, o) PROVE Lands(r, d, o, v)
  <2>1. PICK k \in 1..Len(p) :
          /\ WritesTo(p[k], d, o) /\ p[k].value = v /\ p[k].fails = "abort" /\ Sure(p, k)
          /\ \A j \in (k + 1)..Len(p) : ~WritesTo(p[j], d, o)
    BY <1>5 DEF Lands, LandsAt
  <2>2. \A j \in (k + 1)..Len(r) : \/ j \in (k + 1)..Len(p) /\ j \in 1..Len(p)
                                   \/ j \in 1..Len(r) /\ j > Len(p)
    BY <1>1
  <2>3. \A j \in (k + 1)..Len(r) : ~WritesTo(r[j], d, o)
    BY <1>1, <1>5, <2>1, <2>2 DEF Spares
  <2> QED BY <1>1, <1>3, <2>1, <2>3 DEF Lands, LandsAt
<1>6. ASSUME Binds(p), Lands(q, d, o, v) PROVE Lands(r, d, o, v)
  <2>1. PICK k \in 1..Len(q) :
          /\ WritesTo(q[k], d, o) /\ q[k].value = v /\ q[k].fails = "abort" /\ Sure(q, k)
          /\ \A j \in (k + 1)..Len(q) : ~WritesTo(q[j], d, o)
    BY <1>6 DEF Lands, LandsAt
  <2>2. \A j \in (k + Len(p) + 1)..Len(r) :
          j \in 1..Len(r) /\ j > Len(p) /\ j - Len(p) \in (k + 1)..Len(q)
    BY <1>1
  <2>3. \A j \in (k + Len(p) + 1)..Len(r) : ~WritesTo(r[j], d, o)
    BY <1>1, <2>1, <2>2
  <2>4. k + Len(p) \in 1..Len(r) /\ r[k + Len(p)] = q[k] /\ Sure(r, k + Len(p))
    BY <1>1, <1>4, <1>6, <2>1
  <2> DEFINE i == k + Len(p)
  <2>5. i \in 1..Len(r) /\ r[i] = q[k] /\ Sure(r, i) /\ \A j \in (i + 1)..Len(r) : ~WritesTo(r[j], d, o)
    BY <2>3, <2>4
  <2> HIDE DEF i
  <2> QED BY <1>1, <2>1, <2>5 DEF Lands, LandsAt
<1>7. (Doomed(p) => Doomed(r)) /\ (Binds(p) /\ Doomed(q) => Doomed(r))
  <2>1. ASSUME Doomed(p) PROVE Doomed(r)
    BY <1>1, <1>3, <2>1 DEF Doomed, DoomedAt
  <2>2. ASSUME Binds(p), Doomed(q) PROVE Doomed(r)
    <3>1. PICK k \in 1..Len(q) : q[k].call = "rollback" /\ Sure(q, k)
      BY <2>2 DEF Doomed, DoomedAt
    <3>2. k + Len(p) \in 1..Len(r) /\ r[k + Len(p)] = q[k] /\ Sure(r, k + Len(p))
      BY <1>1, <1>4, <2>2, <3>1
    <3> QED BY <1>1, <3>1, <3>2 DEF Doomed, DoomedAt
  <2> QED BY <2>1, <2>2
<1>8. ASSUME Binds(p), Binds(q) PROVE Binds(r)
  <2>1. CASE Len(q) # 0
    <3>1. q # <<>> /\ Len(q) \in 1..Len(q) /\ Len(r) = Len(q) + Len(p)
      BY <1>1, <2>1
    <3> QED BY <1>1, <1>8, <3>1 DEF Binds
  <2>2. CASE Len(q) = 0 /\ Len(p) # 0
    <3>1. p # <<>> /\ Len(p) \in 1..Len(p) /\ Len(r) = Len(p)
      BY <1>1, <2>2
    <3> QED BY <1>1, <1>8, <3>1 DEF Binds
  <2>3. CASE Len(q) = 0 /\ Len(p) = 0
    <3>1. r = <<>>
      BY <1>1, <2>3, EmptySeq
    <3> QED BY <1>1, <3>1 DEF Binds
  <2> QED BY <2>1, <2>2, <2>3, <1>1
<1> QED BY <1>2, <1>5, <1>6, <1>7, <1>8 DEF r

\* A step after the first is a step of the tail.
LEMMA LaterStep ==
  ASSUME NEW p \in Seq(Step), p # <<>>, NEW k \in 1..Len(p), k # 1, NEW d, NEW o, NEW v
  PROVE  /\ Tail(p) \in Seq(Step) /\ k - 1 \in 1..Len(Tail(p))
         /\ LandsAt(p, d, o, v, k) => LandsAt(Tail(p), d, o, v, k - 1)
         /\ DoomedAt(p, k) => DoomedAt(Tail(p), k - 1)
<1> DEFINE q == Tail(p)
<1>1. /\ q \in Seq(Step) /\ Len(p) \in Nat \ {0} /\ Len(q) = Len(p) - 1 /\ Len(q) \in Nat
      /\ \A i \in 1..Len(q) : q[i] = p[i + 1]
  OBVIOUS
<1> HIDE DEF q
<1>2. k - 1 \in 1..Len(q) /\ (k - 1) + 1 = k /\ k \in Nat
  BY <1>1
<1>3. q[k - 1] = p[k]
  BY <1>1, <1>2
<1>4. Sure(p, k) => Sure(q, k - 1)
  <2>1. k - 1 > 1 => (k - 1) - 1 \in 1..Len(q) /\ ((k - 1) - 1) + 1 = k - 1 /\ k > 1
    BY <1>1
  <2> QED BY <1>1, <2>1 DEF Sure
<1>5. ASSUME LandsAt(p, d, o, v, k) PROVE LandsAt(q, d, o, v, k - 1)
  <2>1. ASSUME NEW j \in ((k - 1) + 1)..Len(q) PROVE ~WritesTo(q[j], d, o)
    <3>1. j \in 1..Len(q) /\ j + 1 \in (k + 1)..Len(p)
      BY <1>1
    <3> QED BY <1>1, <1>5, <3>1 DEF LandsAt
  <2> QED BY <1>3, <1>4, <1>5, <2>1 DEF LandsAt
<1> QED BY <1>1, <1>2, <1>3, <1>4, <1>5 DEF q, DoomedAt

\* What is left of a program after its first step.
LEMMA TailLands ==
  ASSUME NEW p \in Seq(Step), p # <<>>, NEW d, NEW o, NEW v
  PROVE  /\ Spares(p, d, o) => Spares(Tail(p), d, o) /\ ~WritesTo(Head(p), d, o)
         /\ Lands(p, d, o, v) =>
              \/ Lands(Tail(p), d, o, v)
              \/ /\ WritesTo(Head(p), d, o) /\ Head(p).value = v /\ Head(p).fails = "abort"
                 /\ Spares(Tail(p), d, o)
         /\ Doomed(p) => Doomed(Tail(p)) \/ Head(p).call = "rollback"
<1>1. /\ Tail(p) \in Seq(Step) /\ Len(p) \in Nat \ {0} /\ Len(Tail(p)) = Len(p) - 1
      /\ Head(p) = p[1] /\ 1 \in 1..Len(p)
      /\ \A k \in 1..(Len(p) - 1) : Tail(p)[k] = p[k + 1] /\ k + 1 \in 1..Len(p)
  OBVIOUS
<1>2. Spares(p, d, o) => Spares(Tail(p), d, o) /\ ~WritesTo(Head(p), d, o)
  BY <1>1 DEF Spares
<1>3. ASSUME Lands(p, d, o, v)
      PROVE  \/ Lands(Tail(p), d, o, v)
             \/ /\ WritesTo(Head(p), d, o) /\ Head(p).value = v /\ Head(p).fails = "abort"
                /\ Spares(Tail(p), d, o)
  <2>1. PICK k \in 1..Len(p) : LandsAt(p, d, o, v, k)
    BY <1>3 DEF Lands
  <2>2. CASE k # 1
    BY <2>1, <2>2, LaterStep DEF Lands
  <2>3. CASE k = 1
    <3>1. \A j \in 1..(Len(p) - 1) : j + 1 \in (1 + 1)..Len(p)
      BY <1>1
    <3> QED BY <1>1, <2>1, <2>3, <3>1 DEF Spares, LandsAt
  <2> QED BY <2>2, <2>3
<1>4. ASSUME Doomed(p), Head(p).call # "rollback" PROVE Doomed(Tail(p))
  <2>1. PICK k \in 1..Len(p) : DoomedAt(p, k)
    BY <1>4 DEF Doomed
  <2>2. k # 1
    BY <1>1, <1>4, <2>1 DEF DoomedAt
  <2> QED BY <2>1, <2>2, LaterStep DEF Doomed
<1> QED BY <1>2, <1>3, <1>4

\* What is left of it after a first step that failed and leaves out the second.
LEMMA SkipLands ==
  ASSUME NEW p \in Seq(Step), p # <<>>, Tail(p) # <<>>, Head(p).fails = "skip",
         NEW d, NEW o, NEW v
  PROVE  /\ Spares(p, d, o) => Spares(Tail(Tail(p)), d, o)
         /\ Lands(p, d, o, v) => Lands(Tail(Tail(p)), d, o, v)
         /\ Doomed(p) /\ Head(p).call # "rollback" => Doomed(Tail(Tail(p)))
<1>1. /\ Tail(p) \in Seq(Step) /\ Head(p) = p[1]
  OBVIOUS
<1>2. \A k \in 1..Len(p) : Sure(p, k) => k # 2
  <2>1. 2 > 1 /\ 2 - 1 = 1
    OBVIOUS
  <2> QED BY <1>1, <2>1 DEF Sure
<1>3. Spares(p, d, o) => Spares(Tail(Tail(p)), d, o)
  BY <1>1, TailLands
<1>4. \A k \in 1..Len(p) : k # 1 /\ k # 2 => k - 1 # 1
  OBVIOUS
<1>5. ASSUME Lands(p, d, o, v) PROVE Lands(Tail(Tail(p)), d, o, v)
  <2>1. PICK k \in 1..Len(p) : LandsAt(p, d, o, v, k)
    BY <1>5 DEF Lands
  <2>2. k # 1 /\ k # 2
    BY <1>1, <1>2, <2>1 DEF LandsAt
  <2>3. k - 1 \in 1..Len(Tail(p)) /\ LandsAt(Tail(p), d, o, v, k - 1)
    BY <2>1, <2>2, LaterStep
  <2> QED BY <1>1, <1>4, <2>2, <2>3, LaterStep DEF Lands
<1>6. ASSUME Doomed(p), Head(p).call # "rollback" PROVE Doomed(Tail(Tail(p)))
  <2>1. PICK k \in 1..Len(p) : DoomedAt(p, k)
    BY <1>6 DEF Doomed
  <2>2. k # 1 /\ k # 2
    BY <1>1, <1>2, <1>6, <2>1 DEF DoomedAt
  <2>3. k - 1 \in 1..Len(Tail(p)) /\ DoomedAt(Tail(p), k - 1)
    BY <2>1, <2>2, LaterStep
  <2> QED BY <1>1, <1>4, <2>2, <2>3, LaterStep DEF Doomed
<1> QED BY <1>3, <1>5, <1>6
-----------------------------------------------------------------------------
(* What the programs of a creation will have written *)

\* Objects are told apart by their kind and their name.
LEMMA ObjectsDiffer ==
  /\ \A i, j : Port(i) = Port(j) => i = j
  /\ \A i, j : Policy(i) = Policy(j) => i = j
  /\ \A i, j : Port(i) # Policy(j) /\ Port(i) # Stp(j) /\ Port(i) # Instance(j)
  /\ \A i, j : Policy(i) # Stp(j) /\ Policy(i) # Instance(j) /\ Stp(i) # Instance(j)
BY DEF Port, Policy, Stp, Instance

\* A program of one write.
LEMMA PutLands ==
  ASSUME NEW id \in Id, NEW o \in Object, NEW v \in Value \cup {None}, NEW undo \in SUBSET Id
  PROVE  /\ <<Put(id, o, v, undo)>> \in Seq(Step) /\ Binds(<<Put(id, o, v, undo)>>)
         /\ Lands(<<Put(id, o, v, undo)>>, id, o, v)
         /\ \A d, x : d # id \/ x # o => Spares(<<Put(id, o, v, undo)>>, d, x)
<1> DEFINE s == Put(id, o, v, undo)
<1>1. /\ s \in Step /\ s.call = "write" /\ s.object = o /\ s.value = v /\ s.on = {id}
      /\ s.fails = "abort"
  BY PutFacts DEF Put
<1> HIDE DEF s
<1>2. WritesTo(s, id, o) /\ \A d, x : d # id \/ x # o => ~WritesTo(s, d, x)
  BY <1>1 DEF WritesTo
<1>3. /\ <<s>> \in Seq(Step) /\ Binds(<<s>>) /\ Lands(<<s>>, id, o, v)
      /\ \A d, x : d # id \/ x # o => Spares(<<s>>, d, x)
  BY <1>1, <1>2, SingleLands
<1> QED BY <1>3 DEF s

\* Writing an interface, its policies and its spanning tree.
LEMMA ConfigureLands ==
  ASSUME NEW in, NEW end, EndOK(in, end), EndIds(in) \in SUBSET Id
  PROVE  LET p == Configure(end, EndIds(in)) IN
         /\ p \in Seq(Step) /\ Binds(p)
         /\ Lands(p, end.id, Port(end.interface), PortData(end.auto, LongTpid(end.tpid)))
         /\ end.policy # {} =>
              Lands(p, end.id, Policy(end.interface), PolicyData(end.policy))
         /\ end.policy = {} => Spares(p, end.id, Policy(end.interface))
         /\ \A d, x :
              \/ d # end.id
              \/ x \notin {Port(end.interface), Policy(end.interface), Stp(end.interface)}
              => Spares(p, d, x)
<1> DEFINE ids == EndIds(in)
           i   == end.interface
           port   == PutInterface(end, ids)
           policy == PutPolicy(end, ids)
           stp    == DisableStp(end)
           pd  == PortData(end.auto, LongTpid(end.tpid))
           pl  == PolicyData(end.policy)
<1>1. end.id \in Id /\ ids \in SUBSET Id /\ {} \in SUBSET Id
      /\ Port(i) \in Object /\ Policy(i) \in Object /\ Stp(i) \in Object
      /\ pd \in Value \cup {None} /\ (end.policy # {} => pl \in Value \cup {None})
      /\ None \in Value \cup {None}
  BY Objects DEF EndOK
<1> HIDE DEF pd, pl
<1>2. /\ port \in Seq(Step) /\ Binds(port) /\ Lands(port, end.id, Port(i), pd)
      /\ \A d, x : d # end.id \/ x # Port(i) => Spares(port, d, x)
  BY <1>1, PutLands DEF PutInterface, pd
<1>3. /\ policy \in Seq(Step) /\ Binds(policy)
      /\ end.policy # {} => Lands(policy, end.id, Policy(i), pl)
      /\ end.policy = {} => Spares(policy, end.id, Policy(i))
      /\ \A d, x : d # end.id \/ x # Policy(i) => Spares(policy, d, x)
  <2>1. CASE end.policy # {}
    BY <1>1, <2>1, PutLands DEF PutPolicy, When, pl
  <2>2. CASE end.policy = {}
    <3>1. policy = <<>> /\ <<>> \in Seq(Step)
      BY <2>2 DEF PutPolicy, When
    <3> HIDE DEF policy
    <3>2. Binds(<<>>) /\ \A d, x : Spares(<<>>, d, x)
      BY DEF Binds, Spares
    <3> QED BY <2>2, <3>1, <3>2
  <2> QED BY <2>1, <2>2
<1>4. /\ stp \in Seq(Step) /\ Binds(stp)
      /\ \A d, x : d # end.id \/ x # Stp(i) => Spares(stp, d, x)
  <2> DEFINE w == Put(end.id, Stp(i), None, {})
             s == [w EXCEPT !.fails = "ignore"]
  <2>1. w \in Step /\ w.object = Stp(i) /\ w.on = {end.id}
    <3>1. w \in Step
      BY <1>1, PutFacts
    <3> QED BY <3>1 DEF Put
  <2>2. s \in Step /\ s.object = Stp(i) /\ s.on = {end.id} /\ s.fails = "ignore"
    <3>1. s.object = w.object
      BY <2>1 DEF Step
    <3> QED BY <2>1, <3>1, FailsFacts DEF OnFailure
  <2>3. stp = <<s>>
    BY DEF DisableStp, Delete
  <2> HIDE DEF s, stp
  <2>4. \A d, x : d # end.id \/ x # Stp(i) => ~WritesTo(s, d, x)
    BY <2>2 DEF WritesTo
  <2>5. <<s>> \in Seq(Step) /\ Binds(<<s>>)
    BY <2>2, SingleLands
  <2> QED BY <2>2, <2>3, <2>4, <2>5, SingleLands
<1>5. Configure(end, ids) = (port \o policy) \o stp
  BY DEF Configure
<1> HIDE DEF port, policy, stp
<1>6. port \o policy \in Seq(Step) /\ (port \o policy) \o stp \in Seq(Step)
  BY <1>2, <1>3, <1>4
<1>7. Binds((port \o policy) \o stp)
  BY <1>2, <1>3, <1>4, <1>6, ConcatLands
<1>8. Lands((port \o policy) \o stp, end.id, Port(i), pd)
  <2>1. Lands(port \o policy, end.id, Port(i), pd)
    BY <1>2, <1>3, ConcatLands, ObjectsDiffer
  <2> QED BY <1>4, <1>6, <2>1, ConcatLands, ObjectsDiffer
<1>9. end.policy # {} => Lands((port \o policy) \o stp, end.id, Policy(i), pl)
  <2>1. end.policy # {} => Lands(port \o policy, end.id, Policy(i), pl)
    BY <1>2, <1>3, ConcatLands
  <2> QED BY <1>4, <1>6, <2>1, ConcatLands, ObjectsDiffer
<1>10. end.policy = {} => Spares((port \o policy) \o stp, end.id, Policy(i))
  <2>1. end.policy = {} => Spares(port \o policy, end.id, Policy(i))
    BY <1>2, <1>3, ConcatLands, ObjectsDiffer
  <2> QED BY <1>4, <1>6, <2>1, ConcatLands, ObjectsDiffer
<1>11. ASSUME NEW d, NEW x, d # end.id \/ x \notin {Port(i), Policy(i), Stp(i)}
       PROVE  Spares((port \o policy) \o stp, d, x)
  <2>1. Spares(port, d, x) /\ Spares(policy, d, x) /\ Spares(stp, d, x)
    BY <1>2, <1>3, <1>4, <1>11
  <2> QED BY <1>2, <1>3, <1>4, <1>6, <2>1, ConcatLands
<1> QED BY <1>5, <1>6, <1>7, <1>8, <1>9, <1>10, <1>11 DEF pd, pl

\* The instance an end is to have.
InstanceOf(s, k) ==
  IF IsLocal(s) THEN LocalInstance(s)
                ELSE RemoteInstance(s, s.devices[k], s.devices[3 - k])

\* Writing the instances; without vccid or addresses the task fails.
LEMMA CreateVllLands ==
  ASSUME NEW in \in VllInput, in.do = "create", Parses(in)
  PROVE  LET p == CreateVll(in, EndIds(in))
             o == Instance(in.id)
         IN /\ p \in Seq(Step) /\ Binds(p)
            /\ \A d, x : x # o => Spares(p, d, x)
            /\ \/ Doomed(p)
               \/ \A k \in 1..2 : /\ Lands(p, in.devices[k].id, o, InstanceOf(in, k))
                                  /\ InstanceOf(in, k) \in Value
<1> DEFINE ids == EndIds(in)
           o   == Instance(in.id)
           e1  == in.devices[1]
           e2  == in.devices[2]
<1>1. /\ e1.id \in Id /\ e2.id \in Id /\ ids \in SUBSET Id /\ o \in Object /\ {} \in SUBSET Id
      /\ \A k \in 1..2 : k = 1 \/ k = 2
  BY InputEnds, Objects
<1>2. CASE IsLocal(in)
  <2>1. LocalInstance(in) \in Value
    BY <1>2, VllInputAssumption
  <2>2. CreateVll(in, ids) = <<Put(e1.id, o, LocalInstance(in), ids)>> /\ e1.id = e2.id
    BY <1>2 DEF CreateVll, CreateVllLocal, IsLocal
  <2>3. \A k \in 1..2 : InstanceOf(in, k) = LocalInstance(in) /\ in.devices[k].id = e1.id
    BY <1>1, <1>2, <2>2 DEF InstanceOf
  <2> QED BY <1>1, <2>1, <2>2, <2>3, PutLands
<1>3. CASE ~IsLocal(in) /\ ~Remote(in)
  <2>1. Raise \in Step /\ Raise.call = "rollback" /\ Raise.fails = "abort"
    BY <1>1, CallFacts DEF Raise, Rollback
  <2>2. CreateVll(in, ids) = <<Raise>> /\ \A d, x : ~WritesTo(Raise, d, x)
    BY <1>3, <2>1 DEF CreateVll, CreateVllRemote, WritesTo
  <2>3. <<Raise>> \in Seq(Step)
    BY <2>1
  <2> QED BY <2>1, <2>2, <2>3, SingleLands
<1>4. CASE ~IsLocal(in) /\ Remote(in)
  <2> DEFINE r1 == RemoteInstance(in, e1, e2)
             r2 == RemoteInstance(in, e2, e1)
             w1 == Put(e1.id, o, r1, ids)
             w2 == Put(e2.id, o, r2, ids)
  <2>0. 3 - 1 = 2 /\ 3 - 2 = 1 /\ 1 \in 1..2 /\ 2 \in 1..2
    OBVIOUS
  <2>1. r1 \in Value /\ r2 \in Value
    <3>1. \A k \in 1..2 : RemoteInstance(in, in.devices[k], in.devices[3 - k]) \in Value
      BY <1>4, VllInputAssumption
    <3> QED BY <2>0, <3>1
  <2>2. InstanceOf(in, 1) = r1 /\ InstanceOf(in, 2) = r2 /\ e1.id # e2.id
    BY <1>4, <2>0 DEF InstanceOf, IsLocal
  <2> HIDE DEF r1, r2
  <2>3. /\ <<w1>> \in Seq(Step) /\ Binds(<<w1>>) /\ Lands(<<w1>>, e1.id, o, r1)
        /\ \A d, x : d # e1.id \/ x # o => Spares(<<w1>>, d, x)
        /\ <<w2>> \in Seq(Step) /\ Binds(<<w2>>) /\ Lands(<<w2>>, e2.id, o, r2)
        /\ \A d, x : d # e2.id \/ x # o => Spares(<<w2>>, d, x)
    BY <1>1, <2>1, PutLands
  <2>4. CreateVll(in, ids) = <<w1>> \o <<w2>>
    <3>1. CreateVll(in, ids) = <<w1, w2>>
      BY <1>4 DEF CreateVll, CreateVllRemote, r1, r2
    <3>2. w1 \in Step /\ w2 \in Step
      BY <1>1, <2>1, PutFacts
    <3> HIDE DEF w1, w2
    <3> QED BY <3>1, <3>2, TwoSteps
  <2> DEFINE p1 == <<w1>>
             p2 == <<w2>>
  <2> HIDE DEF p1, p2
  <2>5. /\ p1 \in Seq(Step) /\ Binds(p1) /\ Lands(p1, e1.id, o, r1)
        /\ \A d, x : d # e1.id \/ x # o => Spares(p1, d, x)
        /\ p2 \in Seq(Step) /\ Binds(p2) /\ Lands(p2, e2.id, o, r2)
        /\ \A d, x : d # e2.id \/ x # o => Spares(p2, d, x)
    BY <2>3 DEF p1, p2
  <2>6. /\ p1 \o p2 \in Seq(Step) /\ Binds(p1 \o p2)
        /\ Lands(p1 \o p2, e1.id, o, r1) /\ Lands(p1 \o p2, e2.id, o, r2)
    BY <2>2, <2>5, ConcatLands
  <2>7. \A d, x : x # o => Spares(p1 \o p2, d, x)
    BY <2>5, ConcatLands
  <2>8. \A k \in 1..2 : /\ Lands(p1 \o p2, in.devices[k].id, o, InstanceOf(in, k))
                        /\ InstanceOf(in, k) \in Value
    BY <1>1, <2>1, <2>2, <2>6
  <2> QED BY <2>4, <2>6, <2>7, <2>8 DEF p1, p2
<1> QED BY <1>2, <1>3, <1>4

\* What resets the ends does not leave out what follows.
LEMMA ResetBinds ==
  ASSUME NEW in \in VllInput, in.do = "create", Parses(in)
  PROVE  ResetEnds(in) \in Seq(Step) /\ Binds(ResetEnds(in))
<1> DEFINE ids == EndIds(in)
<1>1. ids \in SUBSET Id /\ EndOK(in, in.devices[1]) /\ EndOK(in, in.devices[2])
      /\ <<>> \in Seq(Step) /\ Binds(<<>>)
  BY InputEnds DEF Binds
<1>2. ASSUME NEW end, EndOK(in, end)
      PROVE  ResetEnd(end, ids) \in Seq(Step) /\ Binds(ResetEnd(end, ids))
  <2> DEFINE r   == Read(end.id, Policy(end.interface), {})
             rs  == [r EXCEPT !.fails = "skip"]
             d   == Put(end.id, Policy(end.interface), None, {end.id})
             di  == DeleteInterface(end, ids)
             rp  == ResetPolicy(end, {end.id})
  <2>1. end.id \in Id /\ {end.id} \in SUBSET Id /\ {} \in SUBSET Id
        /\ Policy(end.interface) \in Object /\ Port(end.interface) \in Object
        /\ None \in Value \cup {None}
    BY <1>1, <1>2, Objects DEF EndOK
  <2>2. rs \in Step
    BY <2>1, ReadFacts, FailsFacts DEF OnFailure
  <2>3. d \in Step /\ d.fails = "abort"
    BY <2>1, PutFacts
  <2>4. di \in Seq(Step) /\ Binds(di)
    BY <1>1, <2>1, PutLands DEF DeleteInterface, Delete
  <2>5. rp = When(end.policy # {}, <<rs, d>>)
    BY DEF ResetPolicy, Delete
  <2> HIDE DEF rs, d, rp, di
  <2>6. <<rs, d>> \in Seq(Step) /\ Binds(<<rs, d>>)
    BY <2>2, <2>3 DEF Binds
  <2>7. rp \in Seq(Step) /\ Binds(rp)
    BY <1>1, <2>5, <2>6 DEF When
  <2>8. rp \o di \in Seq(Step) /\ Binds(rp \o di)
    BY <2>4, <2>7, ConcatLands
  <2> QED BY <1>1, <2>8 DEF ResetEnd, When, rp, di
<1> DEFINE c == When(\E k \in 1..2 : in.devices[k].interface_reset,
                     <<Commit(ids, ids), SyncFromNet(ids, ids)>>)
           r1 == ResetEnd(in.devices[1], ids)
           r2 == ResetEnd(in.devices[2], ids)
<1>3. c \in Seq(Step) /\ Binds(c)
  <2>1. /\ Commit(ids, ids) \in Step /\ SyncFromNet(ids, ids) \in Step
        /\ SyncFromNet(ids, ids).fails = "abort"
    BY <1>1, CallFacts DEF Commit, SyncFromNet
  <2>2. /\ <<Commit(ids, ids), SyncFromNet(ids, ids)>> \in Seq(Step)
        /\ Binds(<<Commit(ids, ids), SyncFromNet(ids, ids)>>)
    BY <2>1 DEF Binds
  <2> QED BY <1>1, <2>2 DEF When
<1>4. ResetEnds(in) = (r1 \o r2) \o c
  BY DEF ResetEnds
<1>5. r1 \in Seq(Step) /\ r2 \in Seq(Step) /\ Binds(r1) /\ Binds(r2)
  BY <1>1, <1>2
<1> HIDE DEF ids, c, r1, r2
<1>6. r1 \o r2 \in Seq(Step) /\ Binds(r1 \o r2)
  BY <1>5, ConcatLands
<1>7. (r1 \o r2) \o c \in Seq(Step)
  BY <1>3, <1>6
<1> QED BY <1>3, <1>4, <1>6, <1>7, ConcatLands

\* The object holds v when the program is done, if nobody else writes it.
WillHold(p, store, d, o, v) ==
  \/ Lands(p, d, o, v)
  \/ Spares(p, d, o) /\ d \in Node /\ o \in Object /\ store[d][o] = v

\* So do the instance of an end of a service and, when the ends do not ask for
\* two things of one interface, the interface and the policies.
Promise(p, store, s, k) ==
  LET end == s.devices[k] IN
  /\ Consistent(s) =>
       /\ WillHold(p, store, end.id, Port(end.interface), PortData(end.auto, LongTpid(end.tpid)))
       /\ end.policy # {} =>
            WillHold(p, store, end.id, Policy(end.interface), PolicyData(end.policy))
  /\ WillHold(p, store, end.id, Instance(s.id), InstanceOf(s, k))
  /\ InstanceOf(s, k) \in Value

\* The program of a creation keeps this promise or is sure to fail.
LEMMA CreateTaskPromise ==
  ASSUME NEW in \in VllInput, in.do = "create", Parses(in), ~in.dryrun, NEW store
  PROVE  \/ Doomed(CreateVllTask(in))
         \/ \A k \in 1..2 : Promise(CreateVllTask(in), store, in, k)
<1> DEFINE ids == EndIds(in)
           e1 == in.devices[1]
           e2 == in.devices[2]
           a  == ReadInterface(e1, {})
           b  == ReadInterface(e2, {})
           rs == When(~in.dryrun, ResetEnds(in))
           c1 == Configure(e1, ids)
           c2 == Configure(e2, ids)
           cr == CreateVll(in, ids)
           f  == Finish(in.dryrun, ids)
           o  == Instance(in.id)
           p  == (((((a \o b) \o rs) \o c1) \o c2) \o cr) \o f
<1>0. CreateVllTask(in) = p
  BY DEF CreateVllTask
<1>1. ids \in SUBSET Id /\ EndOK(in, e1) /\ EndOK(in, e2)
  BY InputEnds
<1>2. a \in Seq(Step) /\ b \in Seq(Step) /\ Binds(a) /\ Binds(b)
  <2>1. ASSUME NEW end, EndOK(in, end)
        PROVE  ReadInterface(end, {}) \in Seq(Step) /\ Binds(ReadInterface(end, {}))
    <3> DEFINE s == Read(end.id, Port(end.interface), {})
    <3>1. end.id \in Id /\ Port(end.interface) \in Object /\ {} \in SUBSET Id
      BY <1>1, <2>1, Objects DEF EndOK
    <3>2. s \in Step /\ s.fails = "abort"
      BY <3>1, ReadFacts
    <3> HIDE DEF s
    <3>3. <<s>> \in Seq(Step) /\ Binds(<<s>>)
      BY <3>2, SingleLands
    <3> QED BY <3>3 DEF ReadInterface, s
  <2> QED BY <1>1, <2>1
<1>3. rs \in Seq(Step) /\ Binds(rs)
  BY ResetBinds DEF When
<1>4. f \in Seq(Step) /\ \A d, x : Spares(f, d, x)
  <2> DEFINE s == Commit(ids, ids)
  <2>1. s \in Step /\ s.call = "commit"
    BY <1>1, CallFacts DEF Commit
  <2>2. f = <<s>>
    BY DEF Finish
  <2> HIDE DEF s, f
  <2>3. \A d, x : ~WritesTo(s, d, x)
    BY <2>1 DEF WritesTo
  <2>4. <<s>> \in Seq(Step)
    BY <2>1
  <2> QED BY <2>1, <2>2, <2>3, <2>4, SingleLands
<1> DEFINE Pd(e) == PortData(e.auto, LongTpid(e.tpid))
           Configures(c, e) ==
             /\ c \in Seq(Step) /\ Binds(c)
             /\ Lands(c, e.id, Port(e.interface), Pd(e))
             /\ e.policy # {} => Lands(c, e.id, Policy(e.interface), PolicyData(e.policy))
             /\ e.policy = {} => Spares(c, e.id, Policy(e.interface))
             /\ \A d, x : \/ d # e.id
                          \/ x \notin {Port(e.interface), Policy(e.interface), Stp(e.interface)}
                          => Spares(c, d, x)
<1>5. Configures(c1, e1) /\ Configures(c2, e2)
  BY <1>1, ConfigureLands
<1>6. /\ cr \in Seq(Step) /\ Binds(cr) /\ \A d, x : x # o => Spares(cr, d, x)
      /\ \/ Doomed(cr)
         \/ \A k \in 1..2 : /\ Lands(cr, in.devices[k].id, o, InstanceOf(in, k))
                            /\ InstanceOf(in, k) \in Value
  BY CreateVllLands
<1> DEFINE pre == (a \o b) \o rs
           pc1 == pre \o c1
           pc2 == pc1 \o c2
           pcr == pc2 \o cr
<1>7. p = pcr \o f
  OBVIOUS
<1> HIDE DEF a, b, rs, c1, c2, cr, f, p, ids
<1>8. pre \in Seq(Step) /\ Binds(pre)
  <2>1. a \o b \in Seq(Step) /\ Binds(a \o b)
    BY <1>2, ConcatLands
  <2>2. (a \o b) \o rs \in Seq(Step)
    BY <1>3, <2>1
  <2> QED BY <1>3, <2>1, <2>2, ConcatLands
<1> HIDE DEF pre
<1>9. pc1 \in Seq(Step) /\ Binds(pc1)
  BY <1>5, <1>8, ConcatLands
<1>10. Lands(pc1, e1.id, Port(e1.interface), Pd(e1))
  BY <1>5, <1>8, ConcatLands
<1>11. e1.policy # {} => Lands(pc1, e1.id, Policy(e1.interface), PolicyData(e1.policy))
  BY <1>5, <1>8, ConcatLands
<1> HIDE DEF pc1
<1>12. pc2 \in Seq(Step) /\ Binds(pc2)
  BY <1>5, <1>9, ConcatLands
<1>13. Lands(pc2, e2.id, Port(e2.interface), Pd(e2))
  BY <1>5, <1>9, ConcatLands
<1>14. e2.policy # {} => Lands(pc2, e2.id, Policy(e2.interface), PolicyData(e2.policy))
  BY <1>5, <1>9, ConcatLands
<1>15. Consistent(in) =>
         /\ Lands(pc2, e1.id, Port(e1.interface), Pd(e1))
         /\ e1.policy # {} => Lands(pc2, e1.id, Policy(e1.interface), PolicyData(e1.policy))
  <2>1. CASE e1.id = e2.id /\ e1.interface = e2.interface
    <3>1. Consistent(in) => Pd(e1) = Pd(e2) /\ e1.policy = e2.policy
      BY <2>1 DEF Consistent
    <3> QED BY <1>13, <1>14, <2>1, <3>1
  <2>2. CASE e1.id # e2.id \/ e1.interface # e2.interface
    <3>1. /\ Port(e1.interface) # Port(e2.interface) \/ e1.id # e2.id
          /\ Policy(e1.interface) # Policy(e2.interface) \/ e1.id # e2.id
      BY <2>2, ObjectsDiffer
    <3>2. Spares(c2, e1.id, Port(e1.interface)) /\ Spares(c2, e1.id, Policy(e1.interface))
      BY <1>5, <3>1, ObjectsDiffer
    <3> QED BY <1>5, <1>9, <1>10, <1>11, <3>2, ConcatLands
  <2> QED BY <2>1, <2>2
<1> HIDE DEF pc2, Configures, Pd
<1>16. pcr \in Seq(Step)
  BY <1>6, <1>12
<1>17. Consistent(in) => \A e \in {e1, e2} :
          /\ Lands(pcr, e.id, Port(e.interface), Pd(e))
          /\ e.policy # {} => Lands(pcr, e.id, Policy(e.interface), PolicyData(e.policy))
  <2>1. \A e : Spares(cr, e.id, Port(e.interface)) /\ Spares(cr, e.id, Policy(e.interface))
    BY <1>6, ObjectsDiffer
  <2> QED BY <1>6, <1>12, <1>13, <1>14, <1>15, <2>1, ConcatLands
<1>18. \/ Doomed(pcr)
       \/ \A k \in 1..2 : /\ Lands(pcr, in.devices[k].id, o, InstanceOf(in, k))
                          /\ InstanceOf(in, k) \in Value
  BY <1>6, <1>12, ConcatLands
<1> HIDE DEF pcr
<1>19. Doomed(pcr) => Doomed(p)
  BY <1>4, <1>7, <1>16, ConcatLands
<1>20. Consistent(in) => \A e \in {e1, e2} :
          /\ Lands(p, e.id, Port(e.interface), Pd(e))
          /\ e.policy # {} => Lands(p, e.id, Policy(e.interface), PolicyData(e.policy))
  BY <1>4, <1>7, <1>16, <1>17, ConcatLands
<1>21. \/ Doomed(p)
       \/ \A k \in 1..2 : /\ Lands(p, in.devices[k].id, o, InstanceOf(in, k))
                          /\ InstanceOf(in, k) \in Value
  BY <1>4, <1>7, <1>16, <1>18, <1>19, ConcatLands
<1>22. \A k \in 1..2 : in.devices[k] \in {e1, e2}
  <2>1. \A k \in 1..2 : k = 1 \/ k = 2
    OBVIOUS
  <2> QED BY <2>1
<1> QED BY <1>0, <1>20, <1>21, <1>22 DEF Promise, WillHold, Pd
-----------------------------------------------------------------------------
(* The invariant of the creations *)

\* A creation with a commit that has met nobody.
OnTrack(t) ==
  Creates(t) /\ ~input[t].dryrun /\ t \notin disturbed /\ Running(t)

\* It will have written what it was asked for, or is sure to fail.
TrackInv ==
  \A t \in Task :
    /\ Creates(t) => scope[t] = EndIds(input[t]) /\ Parses(input[t])
    /\ OnTrack(t) => \/ Doomed(todo[t])
                     \/ \A k \in 1..2 : Promise(todo[t], intent, input[t], k)

\* A promise is kept when what the program will have written is.
LEMMA PromiseMoves ==
  ASSUME NEW in \in VllInput, in.do = "create", Parses(in), NEW k \in 1..2,
         NEW p, NEW q, NEW old, NEW new, Promise(p, old, in, k),
         \A d \in EndIds(in), o \in Object : \A v :
           WillHold(p, old, d, o, v) => WillHold(q, new, d, o, v)
  PROVE  Promise(q, new, in, k)
<1>1. in.devices[k].id \in EndIds(in) /\ in.devices[k].interface \in Interface
      /\ in.id \in Name
  <2>1. k = 1 \/ k = 2
    OBVIOUS
  <2> QED BY <2>1, InputEnds DEF EndOK
<1>2. /\ Port(in.devices[k].interface) \in Object /\ Policy(in.devices[k].interface) \in Object
      /\ Instance(in.id) \in Object
  BY <1>1, Objects
<1> QED BY <1>1, <1>2 DEF Promise

\* A call of the task itself.
LEMMA OwnCallHolds ==
  ASSUME IInv, NEW t \in Task, Advance(t), Running(t)', NEW d, NEW o, NEW v
  PROVE  /\ Doomed(todo[t]) => Doomed(todo'[t])
         /\ o \in Object /\ WillHold(todo[t], intent, d, o, v) =>
              Doomed(todo'[t]) \/ WillHold(todo'[t], intent', d, o, v)
<1>1. StoresOK /\ TasksOK
  BY TypeParts DEF IInv
<1>2. CASE ReadData(t) \/ CommitData(t) \/ SyncData(t) \/ DryRunData(t)
  <2>1. /\ todo[t] # <<>> /\ This(t).call \notin {"write", "rollback"} /\ GoOn(t)
        /\ intent' = intent
    BY <1>2 DEF ReadData, CommitData, SyncData, DryRunData, Doing
  <2>2. todo[t] \in Seq(Step) /\ todo'[t] = Tail(todo[t])
    BY <1>1, <2>1 DEF GoOn, TasksOK
  <2> QED BY <2>1, <2>2, TailLands DEF WillHold, WritesTo, This
<1>3. CASE WriteData(t)
  <2>1. /\ todo[t] # <<>> /\ This(t).call = "write" /\ GoOn(t)
        /\ intent' = Written(intent, This(t)) /\ This(t).on \subseteq Node
    BY <1>3 DEF WriteData, Doing, Reachable
  <2>2. /\ todo[t] \in Seq(Step) /\ todo'[t] = Tail(todo[t]) /\ This(t) = Head(todo[t])
        /\ intent \in Stores
    BY <1>1, <2>1 DEF GoOn, TasksOK, This, StoresOK
  <2>3. Doomed(todo[t]) => Doomed(todo'[t])
    BY <2>1, <2>2, TailLands
  <2>4. ASSUME WritesTo(This(t), d, o), o \in Object
        PROVE  d \in Node /\ intent'[d][o] = This(t).value
    <3>1. d \in Node /\ d \in This(t).on /\ This(t).object = o
      BY <2>1, <2>4 DEF WritesTo
    <3>2. intent'[d] = [intent[d] EXCEPT ![o] = This(t).value]
      BY <2>1, <3>1 DEF Written
    <3> QED BY <2>2, <2>4, <3>1, <3>2 DEF Stores
  <2>5. ASSUME ~WritesTo(This(t), d, o), d \in Node, o \in Object
        PROVE  intent'[d][o] = intent[d][o]
    <3>1. d \notin This(t).on \/ This(t).object # o
      BY <2>1, <2>5 DEF WritesTo
    <3> QED BY <2>1, <2>2, <2>5, <3>1 DEF Written, Stores
  <2>6. o \in Object /\ Lands(todo[t], d, o, v) => WillHold(todo'[t], intent', d, o, v)
    BY <2>1, <2>2, <2>4, TailLands DEF WillHold
  <2>7. Spares(todo[t], d, o) /\ d \in Node /\ o \in Object /\ intent[d][o] = v
          => WillHold(todo'[t], intent', d, o, v)
    BY <2>1, <2>2, <2>5, TailLands DEF WillHold
  <2> QED BY <2>3, <2>6, <2>7 DEF WillHold
<1>4. CASE RollBack(t)
  BY <1>1, <1>4 DEF RollBack, TasksOK, Running
<1>5. CASE CallFails(t)
  <2>1. /\ Running(t) /\ todo[t] # <<>> /\ This(t).call # "rollback" /\ intent' = intent
    BY <1>5, FailFrame DEF IInv
  <2>2. /\ todo[t] \in Seq(Step) /\ This(t) = Head(todo[t]) /\ This(t) \in Step
        /\ This(t).undo \in SUBSET Id /\ Shape(scope[t], This(t))
    BY <2>1, ThisOK, ThisShape DEF IInv, This
  <2>3. CASE /\ todo' = [todo EXCEPT ![t] = <<Rollback(This(t).undo)>>]
    <3>1. Doomed(<<Rollback(This(t).undo)>>)
      <4>1. LET s == Rollback(This(t).undo) IN s \in Step /\ s.call = "rollback"
        BY <2>2, CallFacts DEF Rollback
      <4> QED BY <4>1, SingleLands
    <3> QED BY <1>1, <2>3, <3>1 DEF TasksOK
  <2>4. CASE This(t).fails = "ignore" /\ todo' = [todo EXCEPT ![t] = Tail(todo[t])]
    <3>1. todo'[t] = Tail(todo[t])
      BY <1>1, <2>4 DEF TasksOK
    <3> QED BY <2>1, <2>2, <2>4, <3>1, TailLands DEF WillHold
  <2>5. CASE This(t).fails = "skip" /\ todo' = [todo EXCEPT ![t] = Tail(Tail(todo[t]))]
    <3>1. todo'[t] = Tail(Tail(todo[t]))
      BY <1>1, <2>5 DEF TasksOK
    <3>2. Tail(todo[t]) # <<>>
      <4>1. SUFFICES ASSUME Tail(todo[t]) = <<>> PROVE FALSE
        OBVIOUS
      <4>2. Len(todo[t]) = 1 /\ This(t) = todo[t][1]
        BY <2>1, <2>2, <4>1, LastStep
      <4>3. OnCourse(t)
        BY <2>1, OnCourseIf DEF IInv
      <4> QED BY <2>1, <2>5, <4>2, <4>3 DEF OnCourse, EndsOK, LastOK
    <3> QED BY <2>1, <2>2, <2>5, <3>1, <3>2, SkipLands DEF WillHold
  <2> QED BY <1>5, <2>2, <2>3, <2>4, <2>5, FailCases DEF IInv
<1> QED BY <1>2, <1>3, <1>4, <1>5 DEF Advance

\* A call keeps the invariant of the creations.
LEMMA CallTrackInv ==
  ASSUME IInv, NetInv, TrackInv, NEW u \in Task, Advance(u) \/ WorkerDies(u) PROVE TrackInv'
<1>1. /\ Running(u) /\ UNCHANGED <<input, scope, disturbed>>
      /\ \A t \in Task \ {u} : todo'[t] = todo[t] /\ result'[t] = result[t]
  BY CallFrame DEF NetInv
<1>2. \A t \in Task : Creates(t)' <=> Creates(t)
  BY <1>1 DEF Creates, IsVll
<1>3. ASSUME NEW t \in Task, OnTrack(t)'
      PROVE  \/ Doomed(todo'[t])
             \/ \A k \in 1..2 : Promise(todo'[t], intent', input[t], k)
  <2>1. OnTrack(t)
    <3>1. Running(t)
      BY <1>1, <1>3 DEF OnTrack, Running
    <3> QED BY <1>1, <1>2, <1>3, <3>1 DEF OnTrack
  <2>2. /\ input[t] \in VllInput /\ input[t].do = "create" /\ Parses(input[t])
        /\ scope[t] = EndIds(input[t])
    BY <2>1 DEF OnTrack, Creates, TrackInv, IInv, TaskOK, Running
  <2>3. CASE t = u
    <3>1. Advance(t) /\ Running(t)'
      <4>1. Running(t)'
        BY <1>3 DEF OnTrack
      <4>2. ~WorkerDies(t)
        <5>1. WorkerDies(t) => result'[t] = "LOST"
          BY DEF WorkerDies, IInv, TypeOK
        <5> QED BY <4>1, <5>1 DEF Running
      <4> QED BY <2>3, <4>1, <4>2
    <3>2. CASE Doomed(todo[t])
      BY <3>1, <3>2, OwnCallHolds
    <3>3. ASSUME ~Doomed(todo'[t]), NEW k \in 1..2, Promise(todo[t], intent, input[t], k)
          PROVE  Promise(todo'[t], intent', input[t], k)
      <4>1. \A d \in EndIds(input[t]), o \in Object : \A v :
              WillHold(todo[t], intent, d, o, v) => WillHold(todo'[t], intent', d, o, v)
        BY <3>1, <3>3, OwnCallHolds
      <4> QED BY <2>2, <3>3, <4>1, PromiseMoves
    <3> QED BY <2>1, <3>2, <3>3 DEF TrackInv
  <2>4. CASE t # u
    <3>1. scope[u] \cap scope[t] = {}
      BY <1>1, <2>1, <2>4 DEF OnTrack, NetInv, ApartInv
    <3>2. \A d \in Node \cap scope[t] : intent'[d] = intent[d]
      BY <3>1, CallElsewhere DEF NetInv
    <3>3. todo'[t] = todo[t]
      BY <1>1, <2>4
    <3>4. \A d \in EndIds(input[t]), o \in Object : \A v :
            WillHold(todo[t], intent, d, o, v) => WillHold(todo'[t], intent', d, o, v)
      BY <2>2, <3>2, <3>3 DEF WillHold
    <3>5. ASSUME NEW k \in 1..2, Promise(todo[t], intent, input[t], k)
          PROVE  Promise(todo'[t], intent', input[t], k)
      BY <2>2, <3>4, <3>5, PromiseMoves
    <3> QED BY <2>1, <3>3, <3>5 DEF TrackInv
  <2> QED BY <2>3, <2>4
<1>4. \A t \in Task : Creates(t)' => scope'[t] = EndIds(input'[t]) /\ Parses(input'[t])
  BY <1>1, <1>2 DEF TrackInv
<1> QED BY <1>1, <1>3, <1>4 DEF TrackInv

\* A task begins: the others are where they were, and its own program keeps the
\* promise if it is a creation.
LEMMA BeginTrackInv ==
  ASSUME IInv, NetInv, TrackInv, NEW t \in Task, NEW in \in VllInput, NEW ids, NEW p,
         Begin(t, in, p, ids),
         in.do = "create" /\ ids # {} => ids = EndIds(in) /\ Parses(in) /\ p = CreateVllTask(in)
  PROVE  TrackInv'
<1>1. /\ input' = [input EXCEPT ![t] = in] /\ todo' = [todo EXCEPT ![t] = p]
      /\ result' = [result EXCEPT ![t] = "running"] /\ scope' = [scope EXCEPT ![t] = ids]
      /\ intent' = intent /\ disturbed \subseteq disturbed'
  BY DEF Begin
<1>2. TasksOK /\ input \in [Task -> VllInput \cup {None}]
  BY TypeParts DEF IInv
<1>3. /\ input'[t] = in /\ todo'[t] = p /\ scope'[t] = ids
      /\ \A u \in Task \ {t} : /\ input'[u] = input[u] /\ todo'[u] = todo[u]
                               /\ result'[u] = result[u] /\ scope'[u] = scope[u]
  BY <1>1, <1>2 DEF TasksOK
<1>4. ASSUME NEW u \in Task \ {t}
      PROVE  /\ Creates(u)' => scope'[u] = EndIds(input'[u]) /\ Parses(input'[u])
             /\ OnTrack(u)' => \/ Doomed(todo'[u])
                               \/ \A k \in 1..2 : Promise(todo'[u], intent', input'[u], k)
  <2>1. Creates(u)' <=> Creates(u)
    BY <1>3 DEF Creates, IsVll
  <2>2. OnTrack(u)' => OnTrack(u)
    BY <1>1, <1>3, <2>1 DEF OnTrack, Running
  <2> QED BY <1>1, <1>3, <2>1, <2>2 DEF TrackInv
<1>5. Creates(t)' => in.do = "create" /\ ids # {}
  BY <1>3 DEF Creates
<1>6. OnTrack(t)' => Doomed(p) \/ \A k \in 1..2 : Promise(p, intent, in, k)
  <2>1. OnTrack(t)' => Creates(t)' /\ ~in.dryrun
    BY <1>3 DEF OnTrack
  <2> QED BY <1>5, <2>1, CreateTaskPromise
<1>7. /\ Creates(t)' => scope'[t] = EndIds(input'[t]) /\ Parses(input'[t])
      /\ OnTrack(t)' => \/ Doomed(todo'[t])
                        \/ \A k \in 1..2 : Promise(todo'[t], intent', input'[t], k)
  BY <1>1, <1>3, <1>5, <1>6
<1> QED BY <1>4, <1>7 DEF TrackInv

\* Every way to start a task keeps the invariant of the creations.
LEMMA StartTrackInv ==
  ASSUME IInv, NetInv, TrackInv, NEW t \in Task, VllStart(t) PROVE TrackInv'
<1>1. ASSUME NEW in \in VllInput, Begin(t, in, <<Raise>>, {}) PROVE TrackInv'
  BY <1>1, BeginTrackInv
<1>2. CASE StartCreateVll(t)
  <2>1. PICK in \in VllInput :
          IF Parses(in) THEN Begin(t, in, CreateVllTask(in), EndIds(in))
                        ELSE Begin(t, in, <<Raise>>, {})
    BY <1>2 DEF StartCreateVll
  <2>2. CASE Parses(in)
    BY <2>1, <2>2, BeginTrackInv
  <2> QED BY <1>1, <2>1, <2>2
<1>3. CASE StartDeleteVll(t)
  <2>1. PICK in \in VllInput :
          /\ in.do = "delete"
          /\ \/ Begin(t, in, <<Raise>>, {})
             \/ \E s \in FoundVll(in.id) :
                  IF Parses(s) THEN Begin(t, in, DeleteVllTask(s, in.dryrun), EndIds(s))
                               ELSE Begin(t, in, <<Raise>>, {})
    BY <1>3 DEF StartDeleteVll
  <2>2. ASSUME NEW s, Begin(t, in, DeleteVllTask(s, in.dryrun), EndIds(s)) PROVE TrackInv'
    BY <2>1, <2>2, BeginTrackInv
  <2> QED BY <1>1, <2>1, <2>2
<1>4. CASE StartWriteVll(t)
  <2>1. PICK in \in VllInput :
          /\ in.do \in {"write", "erase"}
          /\ IF ~Parses(in) THEN Begin(t, in, <<Raise>>, {})
             ELSE Begin(t, in, IF in.do = "write" THEN CreateVll(in, {}) ELSE DeleteVll(in, {}),
                        EndIds(in))
    BY <1>4 DEF StartWriteVll
  <2>2. CASE Parses(in)
    BY <2>1, <2>2, BeginTrackInv
  <2> QED BY <1>1, <2>1, <2>2
<1> QED BY <1>2, <1>3, <1>4 DEF VllStart

\* The invariant of the creations is kept by every step.
LEMMA NextTrackInv == IInv /\ NetInv /\ TrackInv /\ [VllNext]_vars => TrackInv'
<1> SUFFICES ASSUME IInv, NetInv, TrackInv, [VllNext]_vars PROVE TrackInv'
  OBVIOUS
<1>1. CASE VllNext
  <2>1. PICK t \in Task : VllStart(t) \/ Advance(t) \/ WorkerDies(t)
    BY <1>1 DEF VllNext
  <2> QED BY <2>1, StartTrackInv, CallTrackInv
<1>2. CASE UNCHANGED vars
  BY <1>2 DEF vars, TrackInv, OnTrack, Creates, IsVll, Running
<1> QED BY <1>1, <1>2

\* A task that completes undoes nothing: its last call was answered.
LEMMA Completing ==
  ASSUME IInv, NetInv, [VllNext]_vars, NEW t \in Task, Completes(t), Creates(t) \/ Deletes(t),
         ~input[t].dryrun
  PROVE  /\ CommitData(t) /\ This(t).on = scope[t] /\ todo[t] \in Seq(Step) /\ Len(todo[t]) = 1
         /\ This(t) = todo[t][1]
<1>1. Running(t) /\ result'[t] = "COMPLETED" /\ result[t] = "running"
  BY DEF Completes, Running
<1>2. VllNext
  BY <1>1 DEF vars
<1>3. PICK u \in Task : VllStart(u) \/ Advance(u) \/ WorkerDies(u)
  BY <1>2 DEF VllNext
<1>4. ~VllStart(u)
  <2>1. SUFFICES ASSUME VllStart(u) PROVE FALSE
    OBVIOUS
  <2>2. result' = [result EXCEPT ![u] = "running"]
    BY <2>1 DEF VllStart, StartCreateVll, StartDeleteVll, StartWriteVll, Begin
  <2> QED BY <1>1, <2>2 DEF IInv, TypeOK
<1>5. u = t
  BY <1>1, <1>3, <1>4, CallFrame DEF NetInv
<1>6. ~WorkerDies(t) /\ ~RollBack(t)
  BY <1>1 DEF WorkerDies, RollBack, IInv, TypeOK
<1>7. /\ todo[t] # <<>> /\ This(t).call # "rollback"
      /\ GoOn(t) \/ CallFails(t)
  BY <1>3, <1>4, <1>5, <1>6 DEF Advance, ReadData, WriteData, CommitData, SyncData, DryRunData,
                                Doing, CallFails
<1>8. todo[t] \in Seq(Step) /\ This(t) = todo[t][1]
  BY <1>7, ThisOK DEF IInv, This
<1>9. OnCourse(t)
  BY <1>1, <1>7, OnCourseIf DEF IInv
<1>10. Len(todo[t]) = 1 => /\ This(t).fails = "abort" /\ This(t).call = "commit"
                           /\ This(t).on = scope[t]
  BY <1>7, <1>8, <1>9 DEF OnCourse, EndsOK, LastOK, Creates, Deletes
<1>11. GoOn(t) => Len(todo[t]) = 1
  BY <1>1 DEF GoOn, IInv, TypeOK
<1>12. ~CallFails(t)
  <2>1. SUFFICES ASSUME CallFails(t) PROVE FALSE
    OBVIOUS
  <2>2. Shape(scope[t], This(t))
    BY <1>1, <1>7, ThisShape
  <2>3. This(t).fails = "ignore" /\ Tail(todo[t]) = <<>>
    BY <1>1, <2>1, <2>2, FailCases DEF IInv, TypeOK
  <2> QED BY <1>7, <1>8, <1>10, <2>3, LastStep
<1>13. CommitData(t)
  BY <1>3, <1>4, <1>5, <1>6, <1>7, <1>10, <1>11, <1>12
     DEF Advance, ReadData, WriteData, SyncData, DryRunData, Doing
<1> QED BY <1>7, <1>8, <1>10, <1>11, <1>12, <1>13

\* The promise is what the property asks for, carried to the network.
LEMMA PromiseInstalls ==
  ASSUME NEW in \in VllInput, in.do = "create", Parses(in), Consistent(in),
         NEW p, NEW old, NEW new,
         \A k \in 1..2 : Promise(p, old, in, k),
         \A d \in EndIds(in), o \in Object : \A v :
           WillHold(p, old, d, o, v) => new[d][o] = v
  PROVE  Installed(new, in)
<1>1. ASSUME NEW k \in 1..2
      PROVE  /\ in.devices[k].id \in EndIds(in) /\ Port(in.devices[k].interface) \in Object
             /\ Policy(in.devices[k].interface) \in Object /\ Instance(in.id) \in Object
  <2>1. k = 1 \/ k = 2
    OBVIOUS
  <2> QED BY <2>1, InputEnds, Objects DEF EndOK
<1>2. ASSUME NEW k \in 1..2
      PROVE  /\ InstalledEnd(new, in, in.devices[k])
             /\ new[in.devices[k].id][Instance(in.id)] = InstanceOf(in, k)
  <2>1. /\ new[in.devices[k].id][Instance(in.id)] = InstanceOf(in, k)
        /\ InstanceOf(in, k) \in Value
    BY <1>1 DEF Promise
  <2>2. new[in.devices[k].id][Instance(in.id)] # None
    BY <2>1, NoneAssumption
  <2> QED BY <1>1, <2>1, <2>2 DEF Promise, InstalledEnd
<1>3. ASSUME ~IsLocal(in), NEW k \in 1..2
      PROVE  new[in.devices[k].id][Instance(in.id)].points
               = <<LocalPoint(in.devices[k].interface, in.devices[k].vlan),
                   RemotePoint(in.devices[3 - k].remote_ip, in.vccid)>>
  <2>1. new[in.devices[k].id][Instance(in.id)]
          = RemoteInstance(in, in.devices[k], in.devices[3 - k])
    BY <1>2, <1>3 DEF InstanceOf
  <2> QED BY <2>1 DEF RemoteInstance, NetworkInstance
<1> QED BY <1>2, <1>3 DEF Installed

\* A creation that completes on its track has installed its service.
LEMMA TrackInstalls ==
  ASSUME IInv, NetInv, TrackInv, [VllNext]_vars, NEW t \in Task, Completes(t), Creates(t),
         ~input[t].dryrun, t \notin disturbed, Consistent(input[t])
  PROVE  Installed(actual', input[t])
<1>1. /\ CommitData(t) /\ This(t).on = scope[t] /\ todo[t] \in Seq(Step) /\ Len(todo[t]) = 1
      /\ This(t) = todo[t][1]
  BY Completing
<1>2. /\ This(t).call = "commit" /\ actual' = Copied(actual, intent, scope[t])
  BY <1>1 DEF CommitData, Doing
<1>3. /\ input[t] \in VllInput /\ input[t].do = "create" /\ Parses(input[t])
      /\ scope[t] = EndIds(input[t]) /\ OnTrack(t)
  BY DEF OnTrack, Creates, TrackInv, IInv, TaskOK, Running, Completes
<1>4. \A k \in 1..Len(todo[t]) : todo[t][k] = This(t)
  <2>1. \A k \in 1..1 : k = 1
    OBVIOUS
  <2> QED BY <1>1, <2>1
<1>5. ~Doomed(todo[t]) /\ \A d, o, v : ~Lands(todo[t], d, o, v)
  BY <1>2, <1>4 DEF Doomed, DoomedAt, Lands, LandsAt, WritesTo
<1>6. \A k \in 1..2 : Promise(todo[t], intent, input[t], k)
  BY <1>3, <1>5 DEF TrackInv
<1>7. \A d \in EndIds(input[t]), o \in Object : \A v :
        WillHold(todo[t], intent, d, o, v) => actual'[d][o] = v
  BY <1>2, <1>3, <1>5 DEF WillHold, Copied
<1> QED BY <1>3, <1>6, <1>7, PromiseInstalls

\* The invariants of all tasks together.
THEOREM SpecTrackInv == VllSpec => [](IInv /\ NetInv /\ TrackInv)
<1>1. Init => TrackInv
  BY DEF Init, TrackInv, OnTrack, Creates, IsVll
<1>2. IInv /\ NetInv /\ TrackInv /\ [VllNext]_vars => TrackInv'
  BY NextTrackInv
<1> QED BY <1>1, <1>2, SpecNetInv, PTL DEF VllSpec

\* However tasks interleave and whichever calls fail without ending the task: a
\* creation that completes, and has met no other task, has both ends of the
\* service on the network, on interfaces that are configured as asked, though
\* it reset and committed and read them again in between.
THEOREM SpecCommitInstalls == VllSpec => VllCommitInstalls
<1>1. IInv /\ NetInv /\ TrackInv /\ [VllNext]_vars =>
        [\A t \in Task :
           Completes(t) /\ Creates(t) /\ ~input[t].dryrun /\ t \notin disturbed
             => (Consistent(input[t]) => Installed(actual', input[t]))]_vars
  BY TrackInstalls
<1> QED BY <1>1, SpecTrackInv, PTL DEF VllSpec, VllCommitInstalls
-----------------------------------------------------------------------------
(* Commits that are not the last step *)

\* A creation that resets interfaces commits twice.
Interim(p) == \E k \in 1..(Len(p) - 1) : p[k].call = "commit"

\* It writes an object only after the first commit.
WritesAfter(p, o) ==
  \A k \in 1..(Len(p) - 1) : p[k].call = "commit" =>
    \A j \in 1..k : \A d : ~WritesTo(p[j], d, o)

Calm(p) == p \in Seq(Step) /\ \A k \in 1..Len(p) : p[k].call # "commit"

\* What is left of a program has no other commits.
LEMMA InterimTail ==
  ASSUME NEW p \in Seq(Step), p # <<>>, NEW o
  PROVE  /\ Tail(p) \in Seq(Step)
         /\ Interim(Tail(p)) => Interim(p)
         /\ WritesAfter(p, o) => WritesAfter(Tail(p), o)
<1> DEFINE q == Tail(p)
<1>1. /\ q \in Seq(Step) /\ Len(p) \in Nat \ {0} /\ Len(q) = Len(p) - 1 /\ Len(q) \in Nat
      /\ \A i \in 1..Len(q) : q[i] = p[i + 1]
  OBVIOUS
<1> HIDE DEF q
<1>2. \A k \in 1..(Len(q) - 1) : k \in 1..Len(q) /\ k + 1 \in 1..(Len(p) - 1)
  BY <1>1
<1>3. Interim(q) => Interim(p)
  BY <1>1, <1>2 DEF Interim
<1>4. ASSUME WritesAfter(p, o) PROVE WritesAfter(q, o)
  <2>1. SUFFICES ASSUME NEW k \in 1..(Len(q) - 1), q[k].call = "commit", NEW j \in 1..k, NEW d
                 PROVE  ~WritesTo(q[j], d, o)
    BY DEF WritesAfter
  <2>2. j + 1 \in 1..(k + 1) /\ j \in 1..Len(q)
    BY <1>1
  <2>3. p[k + 1].call = "commit" /\ k + 1 \in 1..(Len(p) - 1)
    BY <1>1, <1>2, <2>1
  <2> QED BY <1>1, <1>4, <2>2, <2>3 DEF WritesAfter
<1> QED BY <1>1, <1>3, <1>4 DEF q

\* A program of one step or none has no such commit.
LEMMA InterimShort ==
  /\ ~Interim(<<>>) /\ \A o : WritesAfter(<<>>, o)
  /\ \A s \in Step : ~Interim(<<s>>) /\ \A o : WritesAfter(<<s>>, o)
<1>1. \A p : Len(p) = 0 \/ Len(p) = 1 => ~Interim(p) /\ \A o : WritesAfter(p, o)
  <2>1. \A l : l = 0 \/ l = 1 => \A k \in 1..(l - 1) : FALSE
    OBVIOUS
  <2> QED BY <2>1 DEF Interim, WritesAfter
<1>2. Len(<<>>) = 0 /\ \A s \in Step : Len(<<s>>) = 1
  OBVIOUS
<1> QED BY <1>1, <1>2

\* Programs without a commit.
LEMMA CalmParts ==
  /\ Calm(<<>>)
  /\ \A p, q : Calm(p) /\ Calm(q) => Calm(p \o q)
  /\ \A s \in Step : s.call # "commit" => Calm(<<s>>)
<1>1. Calm(<<>>)
  BY DEF Calm
<1>2. ASSUME NEW p, NEW q, Calm(p), Calm(q) PROVE Calm(p \o q)
  <2> DEFINE r == p \o q
  <2>1. /\ p \in Seq(Step) /\ q \in Seq(Step) /\ r \in Seq(Step)
        /\ Len(r) = Len(p) + Len(q) /\ Len(p) \in Nat /\ Len(q) \in Nat
        /\ \A k \in 1..Len(p) : r[k] = p[k] /\ k \in 1..Len(r)
        /\ \A k \in 1..Len(r) : k > Len(p) => r[k] = q[k - Len(p)] /\ k - Len(p) \in 1..Len(q)
    BY <1>2, ConcatSteps DEF Calm
  <2> HIDE DEF r
  <2>2. \A k \in 1..Len(r) : k \in 1..Len(p) \/ k > Len(p)
    BY <2>1
  <2>3. Calm(r)
    BY <1>2, <2>1, <2>2 DEF Calm
  <2> QED BY <2>3 DEF r
<1>3. ASSUME NEW s \in Step, s.call # "commit" PROVE Calm(<<s>>)
  <2>1. <<s>> \in Seq(Step) /\ Len(<<s>>) = 1 /\ <<s>>[1] = s /\ \A k \in 1..1 : k = 1
    OBVIOUS
  <2> QED BY <1>3, <2>1 DEF Calm
<1> QED BY <1>1, <1>2, <1>3

\* A program that ends with a commit, or another step, after steps that are
\* none; and one that has its other commits in a part that spares the object.
LEMMA InterimConcat ==
  ASSUME NEW a \in Seq(Step), NEW b, Calm(b), NEW s \in Step, NEW o
  PROVE  /\ ~Interim(b \o <<s>>)
         /\ (\A d : Spares(a, d, o)) => WritesAfter((a \o b) \o <<s>>, o)
<1>1. b \in Seq(Step) /\ <<s>> \in Seq(Step) /\ Len(<<s>>) = 1 /\ a \o b \in Seq(Step)
  BY DEF Calm
<1>2. ~Interim(b \o <<s>>)
  <2> DEFINE r == b \o <<s>>
  <2>1. /\ Len(r) = Len(b) + 1 /\ Len(b) \in Nat
        /\ \A k \in 1..Len(b) : r[k] = b[k]
    BY <1>1, ConcatSteps
  <2> HIDE DEF r
  <2>2. (Len(b) + 1) - 1 = Len(b)
    BY <2>1
  <2>3. ~Interim(r)
    BY <2>1, <2>2 DEF Interim, Calm
  <2> QED BY <2>3 DEF r
<1>3. ASSUME \A d : Spares(a, d, o) PROVE WritesAfter((a \o b) \o <<s>>, o)
  <2> DEFINE m == a \o b
             r == m \o <<s>>
  <2>1. /\ m \in Seq(Step) /\ Len(m) = Len(a) + Len(b) /\ Len(a) \in Nat /\ Len(b) \in Nat
        /\ \A k \in 1..Len(a) : m[k] = a[k]
        /\ \A k \in 1..Len(m) : k > Len(a) => m[k] = b[k - Len(a)] /\ k - Len(a) \in 1..Len(b)
    BY <1>1, ConcatSteps
  <2> HIDE DEF m
  <2>2. /\ Len(r) = Len(m) + 1 /\ Len(m) \in Nat
        /\ \A k \in 1..Len(m) : r[k] = m[k]
    BY <1>1, <2>1, ConcatSteps
  <2> HIDE DEF r
  <2>3. SUFFICES ASSUME NEW k \in 1..(Len(r) - 1), r[k].call = "commit", NEW j \in 1..k, NEW d
                 PROVE  ~WritesTo(r[j], d, o)
    BY DEF WritesAfter, r, m
  <2>4. k \in 1..Len(m) /\ j \in 1..Len(m) /\ m[k].call = "commit"
    BY <2>2, <2>3
  <2>5. k \in 1..Len(a)
    <3>1. SUFFICES ASSUME k > Len(a) PROVE FALSE
      BY <2>1, <2>4
    <3> QED BY <2>1, <2>4, <3>1 DEF Calm
  <2>6. j \in 1..Len(a) /\ r[j] = a[j]
    BY <2>1, <2>2, <2>4, <2>5
  <2> QED BY <1>3, <2>6 DEF Spares
<1> QED BY <1>2, <1>3

\* Configuring an interface, and writing or deleting instances, commits nothing.
LEMMA CalmPut ==
  ASSUME NEW id \in Id, NEW o \in Object, NEW v \in Value \cup {None}, NEW undo \in SUBSET Id
  PROVE  Calm(<<Put(id, o, v, undo)>>)
<1> DEFINE s == Put(id, o, v, undo)
<1>1. s \in Step /\ s.call = "write"
  BY PutFacts
<1> HIDE DEF s
<1>2. Calm(<<s>>)
  BY <1>1, CalmParts
<1> QED BY <1>2 DEF s

\* The interface of an end.
LEMMA CalmConfigure ==
  ASSUME NEW in, NEW end, EndOK(in, end), EndIds(in) \in SUBSET Id
  PROVE  Calm(Configure(end, EndIds(in)))
<1> DEFINE ids == EndIds(in)
<1>1. end.id \in Id /\ ids \in SUBSET Id /\ {} \in SUBSET Id /\ None \in Value \cup {None}
      /\ Port(end.interface) \in Object /\ Policy(end.interface) \in Object
      /\ Stp(end.interface) \in Object
  BY Objects DEF EndOK
<1>2. Calm(PutInterface(end, ids)) /\ Calm(PutPolicy(end, ids))
  BY <1>1, CalmPut, CalmParts DEF PutInterface, PutPolicy, When, EndOK
<1>3. Calm(DisableStp(end))
  <2> DEFINE w == Put(end.id, Stp(end.interface), None, {})
             s == [w EXCEPT !.fails = "ignore"]
  <2>1. w \in Step /\ w.call = "write"
    BY <1>1, PutFacts
  <2>2. s \in Step /\ s.call = "write"
    BY <2>1, FailsFacts DEF OnFailure
  <2>3. DisableStp(end) = <<s>>
    BY DEF DisableStp, Delete
  <2> HIDE DEF s
  <2> QED BY <2>2, <2>3, CalmParts
<1>4. Configure(end, ids) = (PutInterface(end, ids) \o PutPolicy(end, ids)) \o DisableStp(end)
  BY DEF Configure
<1> QED BY <1>2, <1>3, <1>4, CalmParts

\* The instances of a service.
LEMMA CalmCreate ==
  ASSUME NEW in \in VllInput, in.do = "create", Parses(in)
  PROVE  Calm(CreateVll(in, EndIds(in)))
<1> DEFINE ids == EndIds(in)
           o   == Instance(in.id)
           e1  == in.devices[1]
           e2  == in.devices[2]
<1>1. e1.id \in Id /\ e2.id \in Id /\ ids \in SUBSET Id /\ o \in Object /\ {} \in SUBSET Id
  BY InputEnds, Objects
<1>2. CASE IsLocal(in)
  <2>1. LocalInstance(in) \in Value
    BY <1>2, VllInputAssumption
  <2> QED BY <1>1, <1>2, <2>1, CalmPut DEF CreateVll, CreateVllLocal
<1>3. CASE ~IsLocal(in) /\ ~Remote(in)
  <2>1. Raise \in Step /\ Raise.call = "rollback"
    BY <1>1, CallFacts DEF Raise, Rollback
  <2>2. Calm(<<Raise>>)
    BY <2>1, CalmParts
  <2> QED BY <1>3, <2>2 DEF CreateVll, CreateVllRemote
<1>4. CASE ~IsLocal(in) /\ Remote(in)
  <2> DEFINE r1 == RemoteInstance(in, e1, e2)
             r2 == RemoteInstance(in, e2, e1)
             w1 == Put(e1.id, o, r1, ids)
             w2 == Put(e2.id, o, r2, ids)
  <2>1. r1 \in Value /\ r2 \in Value
    <3>1. \A k \in 1..2 : RemoteInstance(in, in.devices[k], in.devices[3 - k]) \in Value
      BY <1>4, VllInputAssumption
    <3>2. 3 - 1 = 2 /\ 3 - 2 = 1 /\ 1 \in 1..2 /\ 2 \in 1..2
      OBVIOUS
    <3> QED BY <3>1, <3>2
  <2> HIDE DEF r1, r2
  <2>2. Calm(<<w1>>) /\ Calm(<<w2>>)
    BY <1>1, <2>1, CalmPut
  <2>3. w1 \in Step /\ w2 \in Step
    BY <1>1, <2>1, PutFacts
  <2>4. CreateVll(in, ids) = <<w1, w2>>
    BY <1>4 DEF CreateVll, CreateVllRemote, r1, r2
  <2> HIDE DEF w1, w2
  <2> QED BY <2>2, <2>3, <2>4, TwoSteps, CalmParts
<1> QED BY <1>2, <1>3, <1>4

\* Resetting the ends touches no instance.
LEMMA ResetSpares ==
  ASSUME NEW in \in VllInput, in.do = "create", Parses(in), NEW n
  PROVE  \A x : Spares(ResetEnds(in), x, Instance(n))
<1> DEFINE ids == EndIds(in)
           o == Instance(n)
           Sp(p) == p \in Seq(Step) /\ \A x : Spares(p, x, o)
<1>1. ids \in SUBSET Id /\ EndOK(in, in.devices[1]) /\ EndOK(in, in.devices[2])
  BY InputEnds
<1>2. Sp(<<>>) /\ \A p, q : Sp(p) /\ Sp(q) => Sp(p \o q)
  <2>1. Sp(<<>>)
    BY DEF Spares
  <2>2. ASSUME NEW p, NEW q, Sp(p), Sp(q) PROVE Sp(p \o q)
    <3>1. p \o q \in Seq(Step)
      BY <2>2
    <3>2. \A x : Spares(p \o q, x, o)
      BY <2>2, ConcatLands
    <3> QED BY <3>1, <3>2
  <2> HIDE DEF Sp
  <2> QED BY <2>1, <2>2
<1>3. ASSUME NEW s \in Step, s.call # "write" \/ s.object # o PROVE Sp(<<s>>)
  <2>1. <<s>> \in Seq(Step) /\ \A x : ~WritesTo(s, x, o)
    BY <1>3 DEF WritesTo
  <2> QED BY <2>1, SingleLands
<1>4. ASSUME NEW end, EndOK(in, end) PROVE Sp(ResetEnd(end, ids))
  <2> DEFINE r   == Read(end.id, Policy(end.interface), {})
             rs  == [r EXCEPT !.fails = "skip"]
             d   == Put(end.id, Policy(end.interface), None, {end.id})
             di  == DeleteInterface(end, ids)
             rp  == ResetPolicy(end, {end.id})
  <2>1. end.id \in Id /\ {end.id} \in SUBSET Id /\ {} \in SUBSET Id
        /\ Policy(end.interface) \in Object /\ Port(end.interface) \in Object
        /\ None \in Value \cup {None}
    BY <1>1, <1>4, Objects DEF EndOK
  <2>2. rs \in Step /\ rs.call = "read"
    <3>1. r \in Step /\ r.call = "read"
      BY <2>1, ReadFacts
    <3> QED BY <3>1, FailsFacts DEF OnFailure
  <2>3. d \in Step
    BY <2>1, PutFacts
  <2>4. di \in Seq(Step) /\ \A x : Spares(di, x, o)
    BY <1>1, <2>1, PutLands, ObjectsDiffer DEF DeleteInterface, Delete
  <2>5. <<d>> \in Seq(Step) /\ \A x : Spares(<<d>>, x, o)
    BY <2>1, PutLands, ObjectsDiffer
  <2>6. rp = When(end.policy # {}, <<rs, d>>)
    BY DEF ResetPolicy, Delete
  <2> HIDE DEF rs, d, rp, di
  <2>7. Sp(<<rs>>) /\ Sp(<<d>>) /\ Sp(di)
    BY <1>3, <2>2, <2>4, <2>5
  <2>8. Sp(<<rs, d>>)
    BY <1>2, <2>2, <2>3, <2>7, TwoSteps
  <2> HIDE DEF Sp
  <2>9. Sp(rp) /\ Sp(rp \o di)
    BY <1>2, <2>6, <2>7, <2>8 DEF When
  <2> QED BY <1>2, <2>9 DEF ResetEnd, When, rp, di
<1> DEFINE c == When(\E k \in 1..2 : in.devices[k].interface_reset,
                     <<Commit(ids, ids), SyncFromNet(ids, ids)>>)
           r1 == ResetEnd(in.devices[1], ids)
           r2 == ResetEnd(in.devices[2], ids)
<1>5. Sp(c)
  <2> DEFINE u == Commit(ids, ids)
             v == SyncFromNet(ids, ids)
  <2>1. u \in Step /\ v \in Step /\ u.call # "write" /\ v.call # "write"
    BY <1>1, CallFacts DEF Commit, SyncFromNet
  <2> HIDE DEF u, v, Sp
  <2>2. Sp(<<u>> \o <<v>>)
    BY <1>2, <1>3, <2>1
  <2>3. Sp(<<u, v>>)
    BY <2>1, <2>2, TwoSteps
  <2> QED BY <1>2, <2>3 DEF When, u, v
<1>6. Sp(r1) /\ Sp(r2)
  BY <1>1, <1>4
<1>7. ResetEnds(in) = (r1 \o r2) \o c
  BY DEF ResetEnds
<1> HIDE DEF ids, c, r1, r2
<1>8. Sp((r1 \o r2) \o c)
  <2> HIDE DEF Sp
  <2> QED BY <1>2, <1>5, <1>6
<1> QED BY <1>7, <1>8

\* The program of a creation.
LEMMA CreateTaskWritesAfter ==
  ASSUME NEW in \in VllInput, in.do = "create", Parses(in), ~in.dryrun
  PROVE  WritesAfter(CreateVllTask(in), Instance(in.id))
<1> DEFINE ids == EndIds(in)
           e1 == in.devices[1]
           e2 == in.devices[2]
           a  == ReadInterface(e1, {})
           b  == ReadInterface(e2, {})
           rs == When(~in.dryrun, ResetEnds(in))
           c1 == Configure(e1, ids)
           c2 == Configure(e2, ids)
           cr == CreateVll(in, ids)
           o  == Instance(in.id)
           s  == Commit(ids, ids)
<1>1. ids \in SUBSET Id /\ EndOK(in, e1) /\ EndOK(in, e2)
  BY InputEnds
<1>2. /\ a \in Seq(Step) /\ \A d : Spares(a, d, o)
      /\ b \in Seq(Step) /\ \A d : Spares(b, d, o)
  <2>1. ASSUME NEW end, EndOK(in, end)
        PROVE  /\ ReadInterface(end, {}) \in Seq(Step)
               /\ \A d : Spares(ReadInterface(end, {}), d, o)
    <3> DEFINE r == Read(end.id, Port(end.interface), {})
    <3>1. end.id \in Id /\ Port(end.interface) \in Object /\ {} \in SUBSET Id
      BY <1>1, <2>1, Objects DEF EndOK
    <3>2. r \in Step /\ r.call = "read"
      BY <3>1, ReadFacts
    <3> HIDE DEF r
    <3>3. <<r>> \in Seq(Step) /\ \A d : ~WritesTo(r, d, o)
      BY <3>2 DEF WritesTo
    <3>4. \A d : Spares(<<r>>, d, o)
      BY <3>2, <3>3, SingleLands
    <3> QED BY <3>3, <3>4 DEF ReadInterface, r
  <2> QED BY <1>1, <2>1
<1>3. rs \in Seq(Step) /\ \A d : Spares(rs, d, o)
  BY ResetBinds, ResetSpares DEF When
<1>4. Calm(c1) /\ Calm(c2) /\ Calm(cr)
  BY <1>1, CalmConfigure, CalmCreate
<1>5. s \in Step
  BY <1>1, CallFacts DEF Commit
<1>6. CreateVllTask(in) = (((((a \o b) \o rs) \o c1) \o c2) \o cr) \o <<s>>
  BY DEF CreateVllTask, Finish
<1> HIDE DEF a, b, rs, c1, c2, cr, s, ids
<1>7. c1 \in Seq(Step) /\ c2 \in Seq(Step) /\ cr \in Seq(Step)
  BY <1>4 DEF Calm
<1>8. (((((a \o b) \o rs) \o c1) \o c2) \o cr) = ((a \o b) \o rs) \o ((c1 \o c2) \o cr)
  <2>1. (a \o b) \o rs \in Seq(Step)
    BY <1>2, <1>3
  <2>2. \A p \in Seq(Step) : ((p \o c1) \o c2) \o cr = p \o ((c1 \o c2) \o cr)
    <3>1. \A p, q, r \in Seq(Step) : (p \o q) \o r = p \o (q \o r)
      <4> TAKE p, q, r \in Seq(Step)
      <4> QED BY ConcatAssociative
    <3>2. \A p, q \in Seq(Step) : p \o q \in Seq(Step)
      OBVIOUS
    <3>3. c1 \o c2 \in Seq(Step)
      BY <1>7, <3>2, Zenon
    <3> TAKE p \in Seq(Step)
    <3>4. (p \o c1) \o c2 = p \o (c1 \o c2)
      BY <1>7, <3>1, Zenon
    <3>5. (p \o (c1 \o c2)) \o cr = p \o ((c1 \o c2) \o cr)
      BY <1>7, <3>1, <3>3, Zenon
    <3> QED BY <3>4, <3>5, Zenon
  <2> QED BY <2>1, <2>2
<1>9. Calm((c1 \o c2) \o cr)
  BY <1>4, CalmParts
<1>10. (a \o b) \o rs \in Seq(Step) /\ \A d : Spares((a \o b) \o rs, d, o)
  <2>1. a \o b \in Seq(Step) /\ \A d : Spares(a \o b, d, o)
    BY <1>2, ConcatLands
  <2>2. (a \o b) \o rs \in Seq(Step)
    BY <1>3, <2>1
  <2> QED BY <1>3, <2>1, <2>2, ConcatLands
<1> DEFINE pre == (a \o b) \o rs
           mid == (c1 \o c2) \o cr
<1> HIDE DEF pre, mid
<1>11. WritesAfter((pre \o mid) \o <<s>>, o)
  BY <1>5, <1>9, <1>10, InterimConcat DEF pre, mid
<1> QED BY <1>6, <1>8, <1>11 DEF pre, mid

\* The program of a deletion: one commit, after both ends are deleted.
LEMMA DeleteTaskLands ==
  ASSUME NEW s, Parses(s), NEW dryrun \in BOOLEAN
  PROVE  /\ ~Interim(DeleteVllTask(s, dryrun))
         /\ \A d \in EndIds(s) : Lands(DeleteVllTask(s, dryrun), d, Instance(s.id), None)
<1> DEFINE ids == EndIds(s)
           d1  == s.devices[1].id
           d2  == s.devices[2].id
           o   == Instance(s.id)
           p1  == <<Put(d1, o, None, ids)>>
           p2  == <<Put(d2, o, None, ids)>>
           f   == IF dryrun THEN DryRun(ids) ELSE Commit(ids, ids)
           dv  == DeleteVll(s, ids)
<1>1. /\ d1 \in Id /\ d2 \in Id /\ ids \in SUBSET Id /\ {} \in SUBSET Id /\ o \in Object
      /\ None \in Value \cup {None} /\ \A d \in ids : d = d1 \/ d = d2
  <2>1. 1 \in 1..2 /\ 2 \in 1..2
    OBVIOUS
  <2> QED BY <2>1, Objects DEF Parses, EndIds
<1>2. /\ p1 \in Seq(Step) /\ Binds(p1) /\ Lands(p1, d1, o, None)
      /\ \A d : d # d1 => Spares(p1, d, o)
      /\ p2 \in Seq(Step) /\ Binds(p2) /\ Lands(p2, d2, o, None)
      /\ \A d : d # d2 => Spares(p2, d, o)
  BY <1>1, PutLands
<1>3. Calm(p1) /\ Calm(p2)
  BY <1>1, CalmPut
<1>4. f \in Step /\ f.call # "write"
  BY <1>1, CallFacts DEF Commit, DryRun
<1>5. <<f>> \in Seq(Step) /\ \A d : Spares(<<f>>, d, o)
  <2>1. <<f>> \in Seq(Step) /\ \A d : ~WritesTo(f, d, o)
    BY <1>4 DEF WritesTo
  <2> HIDE DEF f
  <2> QED BY <1>4, <2>1, SingleLands
<1>6. DeleteVllTask(s, dryrun) = dv \o <<f>>
  BY DEF DeleteVllTask, Finish
<1>7. dv \in Seq(Step) /\ Calm(dv) /\ \A d \in ids : Lands(dv, d, o, None)
  <2>1. CASE IsLocal(s)
    <3>1. d1 = d2
      BY <2>1 DEF IsLocal
    <3>2. dv = p1
      <4>1. dv = p1 \o <<>>
        BY <2>1 DEF DeleteVll, RemoveVll, Delete, When
      <4> HIDE DEF p1
      <4> QED BY <1>2, <4>1, ConcatEmptySeq
    <3> QED BY <1>1, <1>2, <1>3, <3>1, <3>2
  <2>2. CASE ~IsLocal(s)
    <3>1. d1 # d2
      BY <2>2 DEF IsLocal
    <3>2. dv = p1 \o p2
      BY <2>2 DEF DeleteVll, RemoveVll, Delete, When
    <3> HIDE DEF p1, p2, dv
    <3>3. dv \in Seq(Step) /\ Calm(dv)
      BY <1>2, <1>3, <3>2, CalmParts
    <3>4. Lands(p1 \o p2, d1, o, None)
      BY <1>2, <3>1, ConcatLands
    <3>5. Lands(p1 \o p2, d2, o, None)
      BY <1>2, ConcatLands
    <3> QED BY <1>1, <3>2, <3>3, <3>4, <3>5
  <2> QED BY <2>1, <2>2
<1> HIDE DEF dv, f
<1>8. ~Interim(dv \o <<f>>)
  <2>1. <<>> \in Seq(Step)
    OBVIOUS
  <2> QED BY <1>4, <1>7, <2>1, InterimConcat
<1>9. \A d \in ids : Lands(dv \o <<f>>, d, o, None)
  BY <1>5, <1>7, ConcatLands
<1> QED BY <1>6, <1>8, <1>9

\* A call leaves to do what was to be done after it, or less.
LEMMA CallLeaves ==
  ASSUME IInv, NEW t \in Task, Advance(t) \/ WorkerDies(t), NEW o
  PROVE  /\ Interim(todo'[t]) => Interim(todo[t])
         /\ WritesAfter(todo[t], o) => WritesAfter(todo'[t], o)
<1>1. TasksOK /\ todo[t] \in Seq(Step)
  BY TypeParts DEF IInv, TasksOK
<1>2. CASE ReadData(t) \/ WriteData(t) \/ CommitData(t) \/ SyncData(t) \/ DryRunData(t)
  <2>1. todo[t] # <<>> /\ todo' = [todo EXCEPT ![t] = Tail(todo[t])]
    BY <1>2 DEF ReadData, WriteData, CommitData, SyncData, DryRunData, Doing, GoOn
  <2>2. todo'[t] = Tail(todo[t])
    BY <1>1, <2>1 DEF TasksOK
  <2> QED BY <1>1, <2>1, <2>2, InterimTail
<1>3. CASE RollBack(t) \/ WorkerDies(t)
  <2>1. todo' = [todo EXCEPT ![t] = <<>>]
    BY <1>3 DEF RollBack, WorkerDies
  <2>2. todo'[t] = <<>>
    BY <1>1, <2>1 DEF TasksOK
  <2> QED BY <2>2, InterimShort
<1>4. CASE CallFails(t)
  <2>1. /\ Running(t) /\ todo[t] # <<>> /\ This(t).call # "rollback"
    BY <1>4, FailFrame DEF IInv
  <2>2. Shape(scope[t], This(t)) /\ This(t).undo \in SUBSET Id
    BY <2>1, ThisShape, ThisOK DEF IInv
  <2>3. CASE todo' = [todo EXCEPT ![t] = <<Rollback(This(t).undo)>>]
    <3>1. Rollback(This(t).undo) \in Step
      BY <2>2, CallFacts DEF Rollback
    <3>2. todo'[t] = <<Rollback(This(t).undo)>>
      BY <1>1, <2>3 DEF TasksOK
    <3> QED BY <3>1, <3>2, InterimShort
  <2>4. CASE todo' = [todo EXCEPT ![t] = Tail(todo[t])]
    <3>1. todo'[t] = Tail(todo[t])
      BY <1>1, <2>4 DEF TasksOK
    <3> QED BY <1>1, <2>1, <3>1, InterimTail
  <2>5. CASE This(t).fails = "skip" /\ todo' = [todo EXCEPT ![t] = Tail(Tail(todo[t]))]
    <3>1. todo'[t] = Tail(Tail(todo[t]))
      BY <1>1, <2>5 DEF TasksOK
    <3>2. Tail(todo[t]) # <<>>
      <4>1. SUFFICES ASSUME Tail(todo[t]) = <<>> PROVE FALSE
        OBVIOUS
      <4>2. Len(todo[t]) = 1 /\ This(t) = todo[t][1]
        BY <1>1, <2>1, <4>1, LastStep DEF This
      <4>3. OnCourse(t)
        BY <2>1, OnCourseIf DEF IInv
      <4> QED BY <2>1, <2>5, <4>2, <4>3 DEF OnCourse, EndsOK, LastOK
    <3> DEFINE q == Tail(todo[t])
    <3>3. /\ q \in Seq(Step) /\ (Interim(q) => Interim(todo[t]))
          /\ WritesAfter(todo[t], o) => WritesAfter(q, o)
      BY <1>1, <2>1, InterimTail
    <3>4. q # <<>> /\ todo'[t] = Tail(q)
      BY <3>1, <3>2
    <3> HIDE DEF q
    <3> QED BY <3>3, <3>4, InterimTail
  <2> QED BY <1>4, <2>2, <2>3, <2>4, <2>5, FailCases DEF IInv
<1> QED BY <1>2, <1>3, <1>4 DEF Advance
-----------------------------------------------------------------------------
(* The invariant of the ends *)

\* What the nodes hold at first, and at any time, is of these services.
ShapedAtFirst == \A d \in Node, n \in Name : InstanceOK(Initial[d][Instance(n)])
ShapedInv ==
  \A d \in Node, n \in Name :
    InstanceOK(intent[d][Instance(n)]) /\ InstanceOK(actual[d][Instance(n)])

\* An instance that is pending on a node was changed there by a task of its name.
CarryInv ==
  \A d \in Node, n \in Name :
    intent[d][Instance(n)] # actual[d][Instance(n)] =>
      \E u \in Task : Asks(u, n) /\ d \in dirty[u]

\* A creation that has a commit to make before the last one has not touched its
\* instances.
OrderInv ==
  \A t \in Task : OnTrack(t) =>
    /\ WritesAfter(todo[t], Instance(input[t].id))
    /\ Interim(todo[t]) => \A d \in Node \cap scope[t] :
         intent[d][Instance(input[t].id)] = actual[d][Instance(input[t].id)]

\* A deletion commits once; and when it met nobody it will have deleted the
\* instance from all its nodes, or is sure to fail.
DeleteInv ==
  \A t \in Task : Deletes(t) /\ Running(t) =>
    /\ ~Interim(todo[t])
    /\ t \notin disturbed =>
         \/ Doomed(todo[t])
         \/ /\ scope[t] # {}
            /\ \A d \in scope[t] : WillHold(todo[t], intent, d, Instance(input[t].id), None)

\* The ends it found are all there are.
BesideInv ==
  \A t \in Task : Deletes(t) /\ Running(t) /\ scope[t] # {} /\ Beside(t) =>
    Holders(actual, input[t].id) \subseteq scope[t]

EndsInv == ShapedInv /\ CarryInv /\ OrderInv /\ DeleteInv /\ BesideInv

\* A task that has an input is one of a point to point service.
LEMMA AsksIsVll == ASSUME IInv, NEW u \in Task, NEW n PROVE Asks(u, n) <=> IsVll(u) /\ input[u].id = n
<1>1. input[u] # None => input[u] \in VllInput
  BY DEF IInv
<1> QED BY <1>1, VllInputAssumption DEF Asks, IsVll

\* An instance appears on the network or disappears from it only by the commit
\* of a task of its own name, if none of these tasks met another one: what is
\* pending on a node is known to be dirty.
LEMMA Carries ==
  ASSUME IInv, NetInv, CarryInv, NEW t \in Task, Advance(t) \/ WorkerDies(t),
         NEW d \in Node, NEW n \in Name,
         actual'[d][Instance(n)] # actual[d][Instance(n)],
         \A u \in Task : IsVll(u) /\ input[u].id = n => u \notin disturbed
  PROVE  /\ CommitData(t) /\ d \in scope[t] /\ ~NoCommit(input[t]) /\ t \notin disturbed
         /\ IsVll(t) /\ input[t] \in VllInput /\ input[t].id = n
         /\ actual'[d][Instance(n)] = intent[d][Instance(n)]
<1>1. InstanceCommitted(t, d, Instance(n))
  BY InstanceMoves DEF NetInv, InstanceKept, InstanceWritten, InstanceReset
<1>2. PICK u \in Task : Asks(u, n) /\ d \in dirty[u]
  BY <1>1 DEF InstanceCommitted, CarryInv
<1>3. IsVll(u) /\ input[u].id = n /\ u \notin disturbed
  BY <1>2, AsksIsVll
<1>4. Running(t)
  BY CallFrame DEF NetInv
<1>5. u = t
  BY <1>1, <1>2, <1>3, <1>4 DEF InstanceCommitted, NetInv, ApartInv
<1>6. input[t] \in VllInput
  BY <1>4 DEF IInv, TaskOK, Running
<1> QED BY <1>1, <1>3, <1>5, <1>6 DEF InstanceCommitted

\* A call by another task leaves the nodes of one that met nobody alone.
LEMMA ApartCall ==
  ASSUME IInv, NetInv, NEW u \in Task, Advance(u) \/ WorkerDies(u),
         NEW t \in Task \ {u}, t \notin disturbed, Running(t)
  PROVE  /\ \A d \in Node \cap scope[t] : intent'[d] = intent[d] /\ actual'[d] = actual[d]
         /\ todo'[t] = todo[t]
<1>1. Running(u) /\ todo'[t] = todo[t]
  BY CallFrame DEF NetInv
<1>2. scope[u] \cap scope[t] = {}
  BY <1>1 DEF NetInv, ApartInv
<1> QED BY <1>1, <1>2, CallElsewhere DEF NetInv

\* A call keeps the invariant of the ends.
LEMMA CallEndsInv ==
  ASSUME IInv, NetInv, TrackInv, EndsInv, NEW u \in Task, Advance(u) \/ WorkerDies(u)
  PROVE  EndsInv'
<1>1. /\ Running(u) /\ UNCHANGED <<input, scope, disturbed>>
      /\ result'[u] \in {"running", "COMPLETED", "FAILED", "LOST"}
      /\ \A t \in Task \ {u} : todo'[t] = todo[t] /\ result'[t] = result[t]
  BY CallFrame DEF NetInv
<1>2. /\ \A t, n : Asks(t, n)' <=> Asks(t, n)
      /\ \A t \in Task : (Deletes(t)' <=> Deletes(t)) /\ (Beside(t)' <=> Beside(t))
      /\ \A t \in Task : Running(t)' => Running(t)
      /\ \A t \in Task : OnTrack(t)' => OnTrack(t)
  BY <1>1 DEF Asks, Deletes, Beside, IsVll, Running, OnTrack, Creates
<1>3. ASSUME NEW d \in Node, NEW n \in Name
      PROVE  \/ InstanceKept(d, Instance(n)) \/ InstanceWritten(u, d, n)
             \/ InstanceCommitted(u, d, Instance(n)) \/ InstanceReset(d, Instance(n))
  BY InstanceMoves DEF NetInv
<1>4. ShapedInv'
  <2>1. SUFFICES ASSUME NEW d \in Node, NEW n \in Name
                 PROVE  InstanceOK(intent'[d][Instance(n)]) /\ InstanceOK(actual'[d][Instance(n)])
    BY DEF ShapedInv
  <2>2. InstanceOK(intent[d][Instance(n)]) /\ InstanceOK(actual[d][Instance(n)])
    BY DEF EndsInv, ShapedInv
  <2> QED BY <1>3, <2>2 DEF InstanceKept, InstanceWritten, InstanceCommitted, InstanceReset
<1>5. CarryInv'
  <2>1. SUFFICES ASSUME NEW d \in Node, NEW n \in Name,
                        intent'[d][Instance(n)] # actual'[d][Instance(n)]
                 PROVE  \E t \in Task : Asks(t, n) /\ d \in dirty'[t]
    BY <1>2 DEF CarryInv
  <2>2. CASE InstanceKept(d, Instance(n))
    BY <2>1, <2>2 DEF InstanceKept, EndsInv, CarryInv
  <2>3. CASE InstanceWritten(u, d, n)
    <3>1. input[u] # None
      <4>1. input[u] \in VllInput
        BY <1>1 DEF IInv, TaskOK, Running
      <4> QED BY <4>1, VllInputAssumption
    <3> QED BY <2>3, <3>1 DEF InstanceWritten, Asks
  <2>4. ~InstanceCommitted(u, d, Instance(n)) /\ ~InstanceReset(d, Instance(n))
    BY <2>1 DEF InstanceCommitted, InstanceReset
  <2> QED BY <1>3, <2>2, <2>3, <2>4
<1>6. OrderInv'
  <2>1. SUFFICES ASSUME NEW t \in Task, OnTrack(t), OnTrack(t)'
                 PROVE  /\ WritesAfter(todo'[t], Instance(input[t].id))
                        /\ Interim(todo'[t]) => \A d \in Node \cap scope[t] :
                             intent'[d][Instance(input[t].id)] = actual'[d][Instance(input[t].id)]
    BY <1>1, <1>2 DEF OrderInv
  <2>2. /\ WritesAfter(todo[t], Instance(input[t].id))
        /\ Interim(todo[t]) => \A d \in Node \cap scope[t] :
             intent[d][Instance(input[t].id)] = actual[d][Instance(input[t].id)]
    BY <2>1 DEF EndsInv, OrderInv
  <2>3. CASE t # u
    BY <2>1, <2>2, <2>3, ApartCall DEF OnTrack
  <2>4. CASE t = u
    <3>1. WritesAfter(todo'[t], Instance(input[t].id)) /\ (Interim(todo'[t]) => Interim(todo[t]))
      BY <2>2, <2>4, CallLeaves
    <3>2. ASSUME Interim(todo[t]), NEW d \in Node \cap scope[t]
          PROVE  intent'[d][Instance(input[t].id)] = actual'[d][Instance(input[t].id)]
      <4>1. PICK n \in Name : n = input[t].id
        BY <2>1 DEF OnTrack, Creates, NetInv, NamedInv
      <4>2. intent[d][Instance(n)] = actual[d][Instance(n)]
        BY <2>2, <3>2, <4>1
      <4>3. ~InstanceWritten(t, d, n)
        <5>1. todo[t] # <<>> => todo[t] \in Seq(Step) /\ This(t) = todo[t][1]
          BY ThisOK DEF IInv, This
        <5>2. PICK k \in 1..(Len(todo[t]) - 1) : todo[t][k].call = "commit"
          BY <3>2 DEF Interim
        <5>3. 1 \in 1..k
          BY <5>2
        <5>4. WriteData(t) => todo[t] # <<>>
          BY DEF WriteData, Doing
        <5> QED BY <2>2, <4>1, <5>1, <5>2, <5>3, <5>4 DEF InstanceWritten, WritesAfter
      <4> QED BY <1>3, <2>4, <4>1, <4>2, <4>3 DEF InstanceKept, InstanceCommitted, InstanceReset
    <3> QED BY <3>1, <3>2
  <2> QED BY <2>3, <2>4
<1>7. DeleteInv'
  <2>1. SUFFICES ASSUME NEW t \in Task, Deletes(t), Running(t), Running(t)'
                 PROVE  /\ ~Interim(todo'[t])
                        /\ t \notin disturbed =>
                             \/ Doomed(todo'[t])
                             \/ /\ scope[t] # {}
                                /\ \A d \in scope[t] :
                                     WillHold(todo'[t], intent', d, Instance(input[t].id), None)
    BY <1>1, <1>2 DEF DeleteInv
  <2>2. /\ ~Interim(todo[t])
        /\ t \notin disturbed =>
             \/ Doomed(todo[t])
             \/ /\ scope[t] # {}
                /\ \A d \in scope[t] : WillHold(todo[t], intent, d, Instance(input[t].id), None)
    BY <2>1 DEF EndsInv, DeleteInv
  <2>3. CASE t # u
    <3>1. todo'[t] = todo[t]
      BY <1>1, <2>3
    <3>2. ASSUME t \notin disturbed, NEW d \in scope[t],
                 WillHold(todo[t], intent, d, Instance(input[t].id), None)
          PROVE  WillHold(todo'[t], intent', d, Instance(input[t].id), None)
      <4>1. d \in Node => intent'[d] = intent[d]
        BY <2>1, <2>3, <3>2, ApartCall
      <4> QED BY <3>1, <3>2, <4>1 DEF WillHold
    <3> QED BY <2>2, <3>1, <3>2
  <2>4. CASE t = u
    <3>1. ~Interim(todo'[t])
      BY <2>2, <2>4, CallLeaves
    <3>2. Advance(t)
      <4>1. WorkerDies(t) => result'[t] = "LOST"
        BY DEF WorkerDies, IInv, TypeOK
      <4> QED BY <2>1, <2>4, <4>1 DEF Running
    <3>3. Doomed(todo[t]) => Doomed(todo'[t])
      BY <2>1, <3>2, OwnCallHolds
    <3>4. ASSUME ~Doomed(todo'[t]), NEW d \in scope[t],
                 WillHold(todo[t], intent, d, Instance(input[t].id), None)
          PROVE  WillHold(todo'[t], intent', d, Instance(input[t].id), None)
      <4>1. Instance(input[t].id) \in Object
        <5>1. input[t].id \in Name
          BY <3>4 DEF NetInv, NamedInv
        <5> QED BY <5>1, Objects
      <4> QED BY <2>1, <3>2, <3>4, <4>1, OwnCallHolds
    <3> QED BY <2>2, <3>1, <3>3, <3>4
  <2> QED BY <2>3, <2>4
<1>8. BesideInv'
  <2>1. SUFFICES ASSUME NEW t \in Task, Deletes(t), Running(t), scope[t] # {}, Beside(t),
                        NEW d \in Holders(actual', input[t].id)
                 PROVE  d \in scope[t]
    BY <1>1, <1>2 DEF BesideInv
  <2>2. Holders(actual, input[t].id) \subseteq scope[t]
    BY <2>1 DEF EndsInv, BesideInv
  <2>3. PICK n \in Name : n = input[t].id
    BY <2>1 DEF NetInv, NamedInv
  <2>4. d \in Node /\ actual'[d][Instance(n)] # None
    BY <2>1, <2>3 DEF Holders
  <2>5. CASE actual'[d][Instance(n)] = actual[d][Instance(n)]
    BY <2>2, <2>3, <2>4, <2>5 DEF Holders
  <2>6. CASE actual'[d][Instance(n)] # actual[d][Instance(n)]
    <3>1. \A x \in Task : IsVll(x) /\ input[x].id = n => x \notin disturbed
      BY <2>1, <2>3 DEF Beside
    <3>2. d \in scope[u] /\ IsVll(u) /\ input[u].id = n /\ u \notin disturbed
      BY <2>4, <2>6, <3>1, Carries DEF EndsInv
    <3>3. scope[u] \cap scope[t] # {}
      BY <2>1, <2>3, <3>2 DEF Beside
    <3>4. u = t
      BY <1>1, <2>1, <3>2, <3>3 DEF NetInv, ApartInv
    <3> QED BY <3>2, <3>4
  <2> QED BY <2>5, <2>6
<1> QED BY <1>4, <1>5, <1>6, <1>7, <1>8 DEF EndsInv

\* What a task begins with: a creation its own program, a deletion the ends it
\* found, all of them.
Starts(in, ids, p) ==
  /\ in.do = "create" /\ ids # {} => Parses(in) /\ ids = EndIds(in) /\ p = CreateVllTask(in)
  /\ in.do = "delete" =>
       /\ ~Interim(p)
       /\ Doomed(p) \/ (ids # {} /\ \A d \in ids : Lands(p, d, Instance(in.id), None))
       /\ ids # {} => ids \ {Unknown} = Holders(actual, in.id) /\ Holders(actual, in.id) # {}

\* So does every task.
LEMMA StartCases ==
  ASSUME ShapedInv, NEW t \in Task, VllStart(t)
  PROVE  MayBegin(t) /\ \E in \in VllInput : \E ids, p : Begin(t, in, p, ids) /\ Starts(in, ids, p)
<1>1. MayBegin(t)
  BY DEF VllStart
<1> DEFINE Goal == \E in \in VllInput : \E ids, p : Begin(t, in, p, ids) /\ Starts(in, ids, p)
<1> SUFFICES Goal
  BY <1>1
<1>2. ASSUME NEW in \in VllInput, Begin(t, in, <<Raise>>, {}) PROVE Goal
  <2>1. Raise \in Step /\ Raise.call = "rollback"
    BY CallFacts DEF Raise, Rollback
  <2>2. ~Interim(<<Raise>>) /\ Doomed(<<Raise>>)
    BY <2>1, InterimShort, SingleLands
  <2>3. Starts(in, {}, <<Raise>>)
    BY <2>2 DEF Starts
  <2> QED BY <1>2, <2>3
<1>3. CASE StartCreateVll(t)
  <2>1. PICK in \in VllInput :
          /\ in.do = "create"
          /\ IF Parses(in) THEN Begin(t, in, CreateVllTask(in), EndIds(in))
                           ELSE Begin(t, in, <<Raise>>, {})
    BY <1>3 DEF StartCreateVll
  <2>2. CASE Parses(in)
    <3>1. Starts(in, EndIds(in), CreateVllTask(in))
      BY <2>1, <2>2 DEF Starts
    <3> QED BY <2>1, <2>2, <3>1
  <2> QED BY <1>2, <2>1, <2>2
<1>4. CASE StartDeleteVll(t)
  <2>1. PICK in \in VllInput :
          /\ in.do = "delete"
          /\ \/ Begin(t, in, <<Raise>>, {})
             \/ /\ Cardinality(FoundVll(in.id)) = 1
                /\ \E s \in FoundVll(in.id) :
                     IF Parses(s) THEN Begin(t, in, DeleteVllTask(s, in.dryrun), EndIds(s))
                                  ELSE Begin(t, in, <<Raise>>, {})
    BY <1>4 DEF StartDeleteVll
  <2>2. ASSUME Cardinality(FoundVll(in.id)) = 1, NEW s \in FoundVll(in.id), Parses(s),
               Begin(t, in, DeleteVllTask(s, in.dryrun), EndIds(s))
        PROVE  Goal
    <3>1. in.dryrun \in BOOLEAN
      BY VllInputAssumption
    <3>2. FoundVll(in.id) = VllReadAll(actual, NodeOrder, {in.id}, "id")
      BY <2>2 DEF FoundVll
    <3>3. s.id = in.id /\ in.id \in Name
      BY <2>2, FoundName DEF Parses
    <3>4. \A d \in Node : InstanceOK(actual[d][Instance(in.id)])
      BY <3>3 DEF ShapedInv
    <3>5. EndIds(s) \ {Unknown} = Holders(actual, in.id) /\ Holders(actual, in.id) # {}
      BY <2>2, <3>2, <3>4, FoundIds DEF Parses
    <3>6. /\ ~Interim(DeleteVllTask(s, in.dryrun))
          /\ \A d \in EndIds(s) : Lands(DeleteVllTask(s, in.dryrun), d, Instance(in.id), None)
      BY <2>2, <3>1, <3>3, DeleteTaskLands
    <3>7. Starts(in, EndIds(s), DeleteVllTask(s, in.dryrun))
      BY <2>1, <3>5, <3>6 DEF Starts, EndIds
    <3> QED BY <2>2, <3>7
  <2> QED BY <1>2, <2>1, <2>2
<1>5. CASE StartWriteVll(t)
  <2>1. PICK in \in VllInput :
          /\ in.do \in {"write", "erase"}
          /\ IF ~Parses(in) THEN Begin(t, in, <<Raise>>, {})
             ELSE Begin(t, in, IF in.do = "write" THEN CreateVll(in, {}) ELSE DeleteVll(in, {}),
                        EndIds(in))
    BY <1>5 DEF StartWriteVll
  <2>2. \A ids, p : Starts(in, ids, p)
    BY <2>1 DEF Starts
  <2> QED BY <2>1, <2>2
<1> HIDE DEF Goal
<1> QED BY <1>3, <1>4, <1>5 DEF VllStart

\* What beginning does to the tasks.
LEMMA BeginFrame ==
  ASSUME IInv, NetInv, NEW t \in Task, MayBegin(t), NEW in \in VllInput, NEW ids, NEW p,
         Begin(t, in, p, ids)
  PROVE  /\ UNCHANGED <<intent, actual, dirty>> /\ disturbed \subseteq disturbed'
         /\ input'[t] = in /\ todo'[t] = p /\ scope'[t] = ids /\ Running(t)'
         /\ \A u \in Task \ {t} : /\ input'[u] = input[u] /\ todo'[u] = todo[u]
                                  /\ result'[u] = result[u] /\ scope'[u] = scope[u]
         /\ input[t] = None /\ dirty[t] = {}
         /\ \A u, n : Asks(u, n) /\ u \in Task => Asks(u, n)'
         /\ t \notin disturbed' => \A u \in Task : dirty[u] \cap ids = {}
<1>1. /\ input' = [input EXCEPT ![t] = in] /\ todo' = [todo EXCEPT ![t] = p]
      /\ result' = [result EXCEPT ![t] = "running"] /\ scope' = [scope EXCEPT ![t] = ids]
      /\ UNCHANGED <<intent, actual, dirty>> /\ disturbed \subseteq disturbed'
  BY DEF Begin
<1>2. /\ TasksOK /\ input \in [Task -> VllInput \cup {None}]
      /\ dirty[t] = {} /\ input[t] = None
  BY TypeParts DEF IInv, TaskOK, MayBegin, NetInv, NamedInv
<1>3. /\ input'[t] = in /\ todo'[t] = p /\ result'[t] = "running" /\ scope'[t] = ids
      /\ \A u \in Task \ {t} : /\ input'[u] = input[u] /\ todo'[u] = todo[u]
                               /\ result'[u] = result[u] /\ scope'[u] = scope[u]
  BY <1>1, <1>2 DEF TasksOK
<1>4. ASSUME t \notin disturbed', NEW u \in Task \ {t} PROVE dirty[u] \cap ids = {}
  <2> DEFINE met == {x \in Task \ {t} : \/ Running(x) /\ scope[x] \cap ids # {}
                                        \/ dirty[x] \cap ids # {}}
  <2>1. disturbed' = disturbed \cup met \cup (IF met = {} THEN {} ELSE {t})
    BY DEF Begin
  <2>2. met = {}
    <3> HIDE DEF met
    <3> QED BY <1>4, <2>1
  <2> QED BY <2>2
<1>5. \A u, n : Asks(u, n) /\ u \in Task => Asks(u, n)'
  BY <1>2, <1>3 DEF Asks
<1>6. t \notin disturbed' => \A u \in Task : dirty[u] \cap ids = {}
  BY <1>2, <1>4
<1> QED BY <1>1, <1>2, <1>3, <1>5, <1>6 DEF Running

\* Beginning keeps the invariant of the ends.
LEMMA StartEndsInv ==
  ASSUME IInv, NetInv, EndsInv, NEW t \in Task, VllStart(t) PROVE EndsInv'
<1>1. MayBegin(t) /\ \E in \in VllInput : \E ids, p : Begin(t, in, p, ids) /\ Starts(in, ids, p)
  BY StartCases DEF EndsInv
<1>2. PICK in \in VllInput : \E ids, p : Begin(t, in, p, ids) /\ Starts(in, ids, p)
  BY <1>1
<1>0. PICK ids, p : Begin(t, in, p, ids) /\ Starts(in, ids, p)
  BY <1>2
<1>3. /\ UNCHANGED <<intent, actual, dirty>> /\ disturbed \subseteq disturbed'
      /\ input'[t] = in /\ todo'[t] = p /\ scope'[t] = ids /\ Running(t)'
      /\ \A u \in Task \ {t} : /\ input'[u] = input[u] /\ todo'[u] = todo[u]
                               /\ result'[u] = result[u] /\ scope'[u] = scope[u]
      /\ input[t] = None /\ dirty[t] = {}
      /\ \A u, n : Asks(u, n) /\ u \in Task => Asks(u, n)'
      /\ t \notin disturbed' => \A u \in Task : dirty[u] \cap ids = {}
  BY <1>0, <1>1, BeginFrame
<1>4. ShapedInv' /\ CarryInv'
  BY <1>3 DEF EndsInv, ShapedInv, CarryInv
<1>5. OrderInv'
  <2>1. ASSUME NEW u \in Task \ {t}, OnTrack(u)'
        PROVE  /\ WritesAfter(todo'[u], Instance(input'[u].id))
               /\ Interim(todo'[u]) => \A d \in Node \cap scope'[u] :
                    intent'[d][Instance(input'[u].id)] = actual'[d][Instance(input'[u].id)]
    <3>1. OnTrack(u)
      BY <1>3, <2>1 DEF OnTrack, Creates, IsVll, Running
    <3> QED BY <1>3, <3>1 DEF EndsInv, OrderInv
  <2>2. ASSUME OnTrack(t)'
        PROVE  /\ WritesAfter(todo'[t], Instance(input'[t].id))
               /\ Interim(todo'[t]) => \A d \in Node \cap scope'[t] :
                    intent'[d][Instance(input'[t].id)] = actual'[d][Instance(input'[t].id)]
    <3>1. in.do = "create" /\ ids # {} /\ ~in.dryrun /\ t \notin disturbed'
      BY <1>3, <2>2 DEF OnTrack, Creates
    <3>2. Parses(in) /\ p = CreateVllTask(in)
      BY <1>0, <3>1 DEF Starts
    <3>3. WritesAfter(p, Instance(in.id)) /\ in.id \in Name
      BY <3>1, <3>2, CreateTaskWritesAfter DEF Parses
    <3>4. ASSUME NEW d \in Node \cap ids
          PROVE  intent[d][Instance(in.id)] = actual[d][Instance(in.id)]
      BY <1>3, <3>1, <3>3 DEF EndsInv, CarryInv
    <3> QED BY <1>3, <3>3, <3>4
  <2> QED BY <2>1, <2>2 DEF OrderInv
<1>6. DeleteInv'
  <2>1. ASSUME NEW u \in Task \ {t}, Deletes(u)', Running(u)'
        PROVE  /\ ~Interim(todo'[u])
               /\ u \notin disturbed' =>
                    \/ Doomed(todo'[u])
                    \/ /\ scope'[u] # {}
                       /\ \A d \in scope'[u] :
                            WillHold(todo'[u], intent', d, Instance(input'[u].id), None)
    <3>1. Deletes(u) /\ Running(u)
      BY <1>3, <2>1 DEF Deletes, IsVll, Running
    <3> QED BY <1>3, <3>1 DEF EndsInv, DeleteInv
  <2>2. ASSUME Deletes(t)'
        PROVE  /\ ~Interim(todo'[t])
               /\ \/ Doomed(todo'[t])
                  \/ /\ scope'[t] # {}
                     /\ \A d \in scope'[t] :
                          WillHold(todo'[t], intent', d, Instance(input'[t].id), None)
    <3>1. in.do = "delete"
      BY <1>3, <2>2 DEF Deletes
    <3> QED BY <1>0, <1>3, <3>1 DEF Starts, WillHold
  <2> QED BY <2>1, <2>2 DEF DeleteInv
<1>7. BesideInv'
  <2>1. SUFFICES ASSUME NEW u \in Task, Deletes(u)', Running(u)', scope'[u] # {}, Beside(u)'
                 PROVE  Holders(actual, input'[u].id) \subseteq scope'[u]
    BY <1>3 DEF BesideInv, Holders
  <2>2. CASE u = t
    BY <1>0, <1>3, <2>1, <2>2 DEF Starts, Deletes
  <2>3. CASE u # t
    <3>1. Deletes(u) /\ Running(u) /\ scope[u] # {}
      BY <1>3, <2>1, <2>3 DEF Deletes, IsVll, Running
    <3>2. Beside(u)
      <4>1. SUFFICES ASSUME NEW x \in Task, IsVll(x), input[x].id = input[u].id
                     PROVE  x \notin disturbed /\ (scope[x] = {} \/ scope[x] \cap scope[u] # {})
        BY DEF Beside
      <4>2. x # t
        BY <1>3, <4>1 DEF IsVll
      <4>3. IsVll(x)' /\ input'[x].id = input'[u].id
        BY <1>3, <2>3, <4>1, <4>2 DEF IsVll
      <4>4. x \notin disturbed' /\ (scope'[x] = {} \/ scope'[x] \cap scope'[u] # {})
        BY <2>1, <4>3 DEF Beside
      <4> QED BY <1>3, <2>3, <4>2, <4>4
    <3> QED BY <1>3, <2>3, <3>1, <3>2 DEF EndsInv, BesideInv
  <2> QED BY <2>2, <2>3
<1> QED BY <1>4, <1>5, <1>6, <1>7 DEF EndsInv

\* The invariant of the ends is kept by every step.
LEMMA NextEndsInv == IInv /\ NetInv /\ TrackInv /\ EndsInv /\ [VllNext]_vars => EndsInv'
<1> SUFFICES ASSUME IInv, NetInv, TrackInv, EndsInv, [VllNext]_vars PROVE EndsInv'
  OBVIOUS
<1>1. CASE VllNext
  <2>1. PICK t \in Task : VllStart(t) \/ Advance(t) \/ WorkerDies(t)
    BY <1>1 DEF VllNext
  <2> QED BY <2>1, StartEndsInv, CallEndsInv
<1>2. CASE UNCHANGED vars
  <2>1. ShapedInv' /\ CarryInv'
    BY <1>2 DEF vars, EndsInv, ShapedInv, CarryInv, Asks
  <2>2. OrderInv'
    BY <1>2 DEF vars, EndsInv, OrderInv, OnTrack, Creates, IsVll, Running
  <2>3. DeleteInv'
    BY <1>2 DEF vars, EndsInv, DeleteInv, Deletes, IsVll, Running
  <2>4. BesideInv'
    BY <1>2 DEF vars, EndsInv, BesideInv, Beside, Deletes, IsVll, Running, Holders
  <2> QED BY <2>1, <2>2, <2>3, <2>4 DEF EndsInv
<1> QED BY <1>1, <1>2

\* At first the nodes hold what they held at first.
LEMMA InitEndsInv == ShapedAtFirst /\ Init => EndsInv
<1> SUFFICES ASSUME ShapedAtFirst, Init PROVE EndsInv
  OBVIOUS
<1>1. ShapedInv /\ CarryInv
  BY DEF Init, ShapedAtFirst, ShapedInv, CarryInv
<1>2. OrderInv /\ DeleteInv /\ BesideInv
  BY DEF Init, OrderInv, DeleteInv, BesideInv, OnTrack, Running
<1> QED BY <1>1, <1>2 DEF EndsInv

\* The invariants of all tasks, with the one of the ends.
THEOREM SpecEndsInv ==
  ShapedAtFirst /\ VllSpec => [](IInv /\ NetInv /\ TrackInv /\ EndsInv)
<1>1. ShapedAtFirst /\ Init => EndsInv
  BY InitEndsInv
<1>2. IInv /\ NetInv /\ TrackInv /\ EndsInv /\ [VllNext]_vars => EndsInv'
  BY NextEndsInv
<1> QED BY <1>1, <1>2, SpecTrackInv, PTL DEF VllSpec

\* The last call of a deletion takes the instance off its nodes.
LEMMA DeleteCommits ==
  ASSUME IInv, DeleteInv, NEW t \in Task, Deletes(t), Running(t), t \notin disturbed,
         CommitData(t), todo[t] \in Seq(Step), Len(todo[t]) = 1, This(t) = todo[t][1],
         This(t).on = scope[t]
  PROVE  /\ scope[t] # {} /\ scope[t] \subseteq Node
         /\ \A d \in scope[t] : actual'[d][Instance(input[t].id)] = None
<1>1. /\ This(t).call = "commit" /\ actual' = Copied(actual, intent, scope[t])
      /\ scope[t] \subseteq Node
  BY DEF CommitData, Doing, Reachable
<1>2. \A k \in 1..Len(todo[t]) : todo[t][k] = This(t)
  <2>1. \A k \in 1..1 : k = 1
    OBVIOUS
  <2> QED BY <2>1
<1>3. ~Doomed(todo[t]) /\ \A d, o, v : ~Lands(todo[t], d, o, v)
  BY <1>1, <1>2 DEF Doomed, DoomedAt, Lands, LandsAt, WritesTo
<1>4. /\ scope[t] # {}
      /\ \A d \in scope[t] : WillHold(todo[t], intent, d, Instance(input[t].id), None)
  BY <1>3 DEF DeleteInv
<1>5. \A d \in scope[t] : intent[d][Instance(input[t].id)] = None
  BY <1>3, <1>4 DEF WillHold
<1> QED BY <1>1, <1>4, <1>5 DEF Copied

\* A deletion that completes, and whose service no task puts elsewhere.
LEMMA DeleteCompletes ==
  ASSUME IInv, NetInv, EndsInv, [VllNext]_vars, NEW t \in Task, Completes(t), Deletes(t),
         ~input[t].dryrun, Beside(t)
  PROVE  Holders(actual', input[t].id) = {}
<1>1. /\ CommitData(t) /\ This(t).on = scope[t] /\ todo[t] \in Seq(Step) /\ Len(todo[t]) = 1
      /\ This(t) = todo[t][1]
  BY Completing
<1>2. Running(t) /\ t \notin disturbed
  BY DEF Completes, Beside, Deletes
<1>3. /\ scope[t] # {} /\ scope[t] \subseteq Node
      /\ \A d \in scope[t] : actual'[d][Instance(input[t].id)] = None
  BY <1>1, <1>2, DeleteCommits DEF EndsInv
<1>4. Holders(actual, input[t].id) \subseteq scope[t]
  BY <1>2, <1>3 DEF EndsInv, BesideInv
<1>5. \A d \in Node \ scope[t] : actual'[d] = actual[d]
  BY <1>1, CallElsewhere DEF NetInv, Advance
<1> QED BY <1>3, <1>4, <1>5 DEF Holders

\* However tasks interleave and whichever calls fail without ending the task: a
\* deletion that completes leaves no end of its service on any node, also on
\* those it was not about, if none of the tasks of this name met another task
\* or works elsewhere; for what it found was all there was, and stays it.  It
\* takes for granted that the instances the nodes have at first are those of
\* point to point services.
THEOREM SpecDeleteIsComplete == ShapedAtFirst /\ VllSpec => VllDeleteIsComplete
<1>1. IInv /\ NetInv /\ EndsInv /\ [VllNext]_vars =>
        [\A t \in Task :
           Completes(t) /\ Deletes(t) /\ ~input[t].dryrun /\ Beside(t)
             => Holders(actual', input[t].id) = {}]_vars
  BY DeleteCompletes
<1> QED BY <1>1, SpecEndsInv, PTL DEF VllSpec, VllDeleteIsComplete
-----------------------------------------------------------------------------
(* The registry of services *)

\* Nothing of these services is there at first.
NothingAtFirst == \A d \in Node, n \in Name : Initial[d][Instance(n)] = None

\* The ends a deletion found of an undisturbed service are its ends.
FoundInv ==
  \A t \in Task : Deletes(t) /\ Running(t) /\ scope[t] # {} /\ Undisturbed(input[t].id) =>
    /\ Holders(actual, input[t].id) # {}
    /\ scope[t] \ {Unknown} = Holders(actual, input[t].id)

\* An undisturbed service has the ends a task was asked to create, or none.
HeldInv ==
  \A n \in Name : Undisturbed(n) =>
    \/ Holders(actual, n) = {}
    \/ \E u \in Task : /\ Creates(u) /\ input[u].id = n
                       /\ Holders(actual, n) = EndIds(input[u])

WholeInv == FoundInv /\ HeldInv

\* A commit with none to follow is the last call.
LEMMA LastCall ==
  ASSUME IInv, NEW t \in Task, CommitData(t), ~Interim(todo[t]), Creates(t) \/ Deletes(t)
  PROVE  /\ This(t).on = scope[t] /\ todo[t] \in Seq(Step) /\ Len(todo[t]) = 1
         /\ This(t) = todo[t][1] /\ result'[t] = "COMPLETED"
<1>1. Running(t) /\ todo[t] # <<>> /\ This(t).call = "commit" /\ GoOn(t)
  BY DEF CommitData, Doing
<1>2. /\ todo[t] \in Seq(Step) /\ This(t) = todo[t][1] /\ Len(todo[t]) \in Nat \ {0}
  BY <1>1, ThisOK DEF IInv, This
<1>3. Len(todo[t]) = 1
  <2>1. SUFFICES ASSUME Len(todo[t]) # 1 PROVE FALSE
    OBVIOUS
  <2>2. \A l \in Nat \ {0} : l # 1 => 1 \in 1..(l - 1)
    OBVIOUS
  <2>3. 1 \in 1..(Len(todo[t]) - 1)
    BY <1>2, <2>1, <2>2
  <2> QED BY <1>1, <1>2, <2>3 DEF Interim
<1>4. OnCourse(t)
  BY <1>1, OnCourseIf DEF IInv
<1>5. This(t).on = scope[t]
  BY <1>1, <1>2, <1>3, <1>4 DEF OnCourse, EndsOK, LastOK, Creates, Deletes
<1>6. result'[t] = "COMPLETED"
  BY <1>1, <1>3 DEF GoOn, IInv, TypeOK
<1> QED BY <1>2, <1>3, <1>5, <1>6

\* The last call of a creation brings the instances to its nodes.
LEMMA CreateCommits ==
  ASSUME IInv, TrackInv, NEW t \in Task, OnTrack(t),
         CommitData(t), todo[t] \in Seq(Step), Len(todo[t]) = 1, This(t) = todo[t][1],
         This(t).on = scope[t]
  PROVE  /\ scope[t] = EndIds(input[t]) /\ scope[t] \subseteq Node
         /\ \A d \in scope[t] : actual'[d][Instance(input[t].id)] # None
<1>1. /\ This(t).call = "commit" /\ actual' = Copied(actual, intent, scope[t])
      /\ scope[t] \subseteq Node
  BY DEF CommitData, Doing, Reachable
<1>2. \A k \in 1..Len(todo[t]) : todo[t][k] = This(t)
  <2>1. \A k \in 1..1 : k = 1
    OBVIOUS
  <2> QED BY <2>1
<1>3. ~Doomed(todo[t]) /\ \A d, o, v : ~Lands(todo[t], d, o, v)
  BY <1>1, <1>2 DEF Doomed, DoomedAt, Lands, LandsAt, WritesTo
<1>4. \A k \in 1..2 : Promise(todo[t], intent, input[t], k)
  BY <1>3 DEF TrackInv
<1>5. scope[t] = EndIds(input[t])
  BY DEF TrackInv, OnTrack
<1>6. \A k \in 1..2 : intent[input[t].devices[k].id][Instance(input[t].id)] # None
  BY <1>3, <1>4, NoneAssumption DEF Promise, WillHold
<1>7. \A d \in scope[t] : \E k \in 1..2 : d = input[t].devices[k].id
  <2>1. 1 \in 1..2 /\ 2 \in 1..2
    OBVIOUS
  <2> QED BY <1>5, <2>1 DEF EndIds
<1>8. \A d \in scope[t] : intent[d][Instance(input[t].id)] # None
  BY <1>6, <1>7
<1> QED BY <1>1, <1>5, <1>8 DEF Copied

\* The ends of an undisturbed service change only when a creation completes and
\* there were none, or a deletion completes, which leaves none.
LEMMA CallHolders ==
  ASSUME IInv, NetInv, TrackInv, EndsInv, WholeInv, NEW u \in Task, Advance(u) \/ WorkerDies(u),
         NEW n \in Name, Undisturbed(n), Holders(actual', n) # Holders(actual, n)
  PROVE  /\ IsVll(u) /\ input[u].id = n /\ result'[u] = "COMPLETED" /\ u \notin disturbed
         /\ scope[u] \subseteq Node
         /\ \/ /\ Creates(u) /\ Holders(actual, n) = {}
               /\ Holders(actual', n) = EndIds(input[u]) /\ scope[u] = EndIds(input[u])
            \/ /\ Deletes(u) /\ Holders(actual, n) = scope[u] \ {Unknown}
               /\ Holders(actual', n) = {}
<1> DEFINE o == Instance(n)
<1>1. \A t \in Task : IsVll(t) /\ input[t].id = n => t \notin disturbed
  BY DEF Undisturbed
<1>2. PICK d \in Node : actual'[d][o] # actual[d][o]
  BY DEF Holders
<1>3. /\ CommitData(u) /\ d \in scope[u] /\ ~NoCommit(input[u]) /\ u \notin disturbed
      /\ IsVll(u) /\ input[u] \in VllInput /\ input[u].id = n
      /\ actual'[d][o] = intent[d][o]
  BY <1>1, <1>2, Carries DEF EndsInv
<1>4. input[u].do \in {"create", "delete"} /\ ~input[u].dryrun /\ Running(u)
  BY <1>3, VllInputAssumption DEF NoCommit, CommitData, Doing
<1>5. \A e \in Node \ scope[u] : actual'[e] = actual[e]
  BY CallElsewhere DEF NetInv
<1>6. CASE input[u].do = "create"
  <2>1. Creates(u) /\ OnTrack(u)
    BY <1>3, <1>4, <1>6 DEF Creates, OnTrack
  <2>2. ~Interim(todo[u])
    <3>1. Interim(todo[u]) => intent[d][o] = actual[d][o]
      BY <1>3, <2>1 DEF EndsInv, OrderInv
    <3> QED BY <1>2, <1>3, <3>1
  <2>3. /\ This(u).on = scope[u] /\ todo[u] \in Seq(Step) /\ Len(todo[u]) = 1
        /\ This(u) = todo[u][1] /\ result'[u] = "COMPLETED"
    BY <1>3, <2>1, <2>2, LastCall
  <2>4. /\ scope[u] = EndIds(input[u]) /\ scope[u] \subseteq Node
        /\ \A e \in scope[u] : actual'[e][o] # None
    BY <1>3, <2>1, <2>3, CreateCommits
  <2>5. Holders(actual', n) = Holders(actual, n) \cup scope[u]
    BY <1>5, <2>4 DEF Holders
  <2>6. Holders(actual, n) = {}
    <3>1. SUFFICES ASSUME NEW w \in Task, Creates(w), input[w].id = n,
                          Holders(actual, n) = EndIds(input[w])
                   PROVE  FALSE
      BY DEF WholeInv, HeldInv
    <3>2. input[w].devices = input[u].devices
      BY <1>3, <2>1, <3>1 DEF Undisturbed
    <3>3. Holders(actual, n) = scope[u]
      BY <2>4, <3>1, <3>2 DEF EndIds
    <3> QED BY <2>5, <3>3
  <2> QED BY <1>3, <2>1, <2>3, <2>4, <2>5, <2>6
<1>7. CASE input[u].do = "delete"
  <2>1. Deletes(u)
    BY <1>3, <1>7 DEF Deletes
  <2>2. ~Interim(todo[u])
    BY <1>4, <2>1 DEF EndsInv, DeleteInv
  <2>3. /\ This(u).on = scope[u] /\ todo[u] \in Seq(Step) /\ Len(todo[u]) = 1
        /\ This(u) = todo[u][1] /\ result'[u] = "COMPLETED"
    BY <1>3, <2>1, <2>2, LastCall
  <2>4. /\ scope[u] # {} /\ scope[u] \subseteq Node
        /\ \A e \in scope[u] : actual'[e][o] = None
    BY <1>3, <1>4, <2>1, <2>3, DeleteCommits DEF EndsInv
  <2>5. Holders(actual, n) = scope[u] \ {Unknown}
    BY <1>3, <1>4, <2>1, <2>4 DEF WholeInv, FoundInv
  <2>6. Holders(actual', n) = {}
    BY <1>5, <2>4, <2>5, NodeAssumption DEF Holders
  <2> QED BY <1>3, <2>1, <2>3, <2>4, <2>5, <2>6
<1> QED BY <1>4, <1>6, <1>7

\* A call keeps the invariant of the undisturbed services.
LEMMA CallWholeInv ==
  ASSUME IInv, NetInv, TrackInv, EndsInv, WholeInv, NEW u \in Task, Advance(u) \/ WorkerDies(u)
  PROVE  WholeInv' /\ \A n : Undisturbed(n)' <=> Undisturbed(n)
<1>1. /\ Running(u) /\ UNCHANGED <<input, scope, disturbed>>
      /\ \A t \in Task \ {u} : todo'[t] = todo[t] /\ result'[t] = result[t]
  BY CallFrame DEF NetInv
<1>2. /\ \A t \in Task : (Deletes(t)' <=> Deletes(t)) /\ (Creates(t)' <=> Creates(t))
      /\ \A t \in Task : Running(t)' => Running(t)
      /\ \A n : Undisturbed(n)' <=> Undisturbed(n)
  BY <1>1 DEF Deletes, Creates, IsVll, Running, Undisturbed
<1>3. HeldInv'
  <2>1. SUFFICES ASSUME NEW n \in Name, Undisturbed(n)
                 PROVE  \/ Holders(actual', n) = {}
                        \/ \E t \in Task : /\ Creates(t) /\ input[t].id = n
                                           /\ Holders(actual', n) = EndIds(input[t])
    BY <1>1, <1>2 DEF HeldInv, Holders
  <2>2. CASE Holders(actual', n) = Holders(actual, n)
    BY <2>1, <2>2 DEF WholeInv, HeldInv
  <2>3. CASE Holders(actual', n) # Holders(actual, n)
    BY <2>1, <2>3, CallHolders
  <2> QED BY <2>2, <2>3
<1>4. FoundInv'
  <2>1. SUFFICES ASSUME NEW t \in Task, Deletes(t), Running(t), Running(t)', scope[t] # {},
                        Undisturbed(input[t].id)
                 PROVE  /\ Holders(actual', input[t].id) # {}
                        /\ scope[t] \ {Unknown} = Holders(actual', input[t].id)
    BY <1>1, <1>2 DEF FoundInv, Holders
  <2>2. PICK n \in Name : n = input[t].id
    BY <2>1 DEF NetInv, NamedInv
  <2>3. Holders(actual, n) # {} /\ scope[t] \ {Unknown} = Holders(actual, n)
    BY <2>1, <2>2 DEF WholeInv, FoundInv
  <2>4. Holders(actual', n) = Holders(actual, n)
    <3>1. SUFFICES ASSUME Holders(actual', n) # Holders(actual, n) PROVE FALSE
      OBVIOUS
    <3>2. /\ result'[u] = "COMPLETED" /\ u \notin disturbed
          /\ Holders(actual, n) = {} \/ Holders(actual, n) = scope[u] \ {Unknown}
      BY <2>1, <2>2, <3>1, CallHolders
    <3>3. u # t
      BY <2>1, <3>2 DEF Running
    <3>4. scope[u] \cap scope[t] = {}
      BY <1>1, <2>1, <3>2, <3>3 DEF NetInv, ApartInv
    <3> QED BY <2>3, <3>2, <3>4
  <2> QED BY <2>2, <2>3, <2>4
<1> QED BY <1>2, <1>3, <1>4 DEF WholeInv

\* So does beginning; a service that was disturbed stays so.
LEMMA StartWholeInv ==
  ASSUME IInv, NetInv, EndsInv, WholeInv, NEW t \in Task, VllStart(t)
  PROVE  WholeInv' /\ actual' = actual /\ \A n : Undisturbed(n)' => Undisturbed(n)
<1>1. MayBegin(t) /\ \E in \in VllInput : \E ids, p : Begin(t, in, p, ids) /\ Starts(in, ids, p)
  BY StartCases DEF EndsInv
<1>2. PICK in \in VllInput : \E ids, p : Begin(t, in, p, ids) /\ Starts(in, ids, p)
  BY <1>1
<1>3. PICK ids, p : Begin(t, in, p, ids) /\ Starts(in, ids, p)
  BY <1>2
<1>4. /\ UNCHANGED <<intent, actual, dirty>> /\ disturbed \subseteq disturbed'
      /\ input'[t] = in /\ scope'[t] = ids
      /\ \A u \in Task \ {t} : /\ input'[u] = input[u] /\ result'[u] = result[u]
                               /\ scope'[u] = scope[u]
      /\ input[t] = None
  BY <1>1, <1>3, BeginFrame
<1>5. /\ \A u \in Task : IsVll(u) => u # t /\ IsVll(u)' /\ input'[u] = input[u]
      /\ \A u \in Task : Creates(u) => u # t /\ Creates(u)' /\ input'[u] = input[u]
  BY <1>4 DEF IsVll, Creates
<1>6. ASSUME NEW n, Undisturbed(n)' PROVE Undisturbed(n)
  <2>1. ASSUME NEW u \in Task, IsVll(u), input[u].id = n PROVE u \notin disturbed
    BY <1>4, <1>5, <1>6, <2>1 DEF Undisturbed
  <2>2. ASSUME NEW u \in Task, NEW w \in Task, Creates(u), Creates(w), input[u].id = n,
               input[w].id = n
        PROVE  input[u].devices = input[w].devices
    BY <1>5, <1>6, <2>2 DEF Undisturbed
  <2> QED BY <2>1, <2>2 DEF Undisturbed
<1>7. HeldInv'
  <2>1. SUFFICES ASSUME NEW n \in Name, Undisturbed(n)
                 PROVE  \/ Holders(actual, n) = {}
                        \/ \E u \in Task : /\ Creates(u)' /\ input'[u].id = n
                                           /\ Holders(actual, n) = EndIds(input'[u])
    BY <1>4, <1>6 DEF HeldInv, Holders
  <2> QED BY <1>5, <2>1 DEF WholeInv, HeldInv
<1>8. FoundInv'
  <2>1. SUFFICES ASSUME NEW u \in Task, Deletes(u)', Running(u)', scope'[u] # {},
                        Undisturbed(input'[u].id)
                 PROVE  /\ Holders(actual, input'[u].id) # {}
                        /\ scope'[u] \ {Unknown} = Holders(actual, input'[u].id)
    BY <1>4, <1>6 DEF FoundInv, Holders
  <2>2. CASE u = t
    BY <1>3, <1>4, <2>1, <2>2 DEF Starts, Deletes
  <2>3. CASE u # t
    <3>1. Deletes(u) /\ Running(u)
      BY <1>4, <2>1, <2>3 DEF Deletes, IsVll, Running
    <3> QED BY <1>4, <2>1, <2>3, <3>1 DEF WholeInv, FoundInv
  <2> QED BY <2>2, <2>3
<1> QED BY <1>4, <1>6, <1>7, <1>8 DEF WholeInv

\* At first no service has an end.
LEMMA InitWholeInv == NothingAtFirst /\ Init => ShapedAtFirst /\ WholeInv
<1> SUFFICES ASSUME NothingAtFirst, Init PROVE ShapedAtFirst /\ WholeInv
  OBVIOUS
<1>1. ShapedAtFirst
  BY DEF NothingAtFirst, ShapedAtFirst, InstanceOK
<1>2. \A n \in Name : Holders(actual, n) = {}
  BY DEF Init, NothingAtFirst, Holders
<1>3. FoundInv /\ HeldInv
  BY <1>2 DEF Init, FoundInv, HeldInv, Running
<1> QED BY <1>1, <1>3 DEF WholeInv

\* A step of the workers that changes nothing keeps the invariant too.
LEMMA NextWholeInv ==
  IInv /\ NetInv /\ TrackInv /\ EndsInv /\ WholeInv /\ [VllNext]_vars => WholeInv'
<1> SUFFICES ASSUME IInv, NetInv, TrackInv, EndsInv, WholeInv, [VllNext]_vars PROVE WholeInv'
  OBVIOUS
<1>1. CASE VllNext
  <2>1. PICK t \in Task : VllStart(t) \/ Advance(t) \/ WorkerDies(t)
    BY <1>1 DEF VllNext
  <2> QED BY <2>1, StartWholeInv, CallWholeInv
<1>2. CASE UNCHANGED vars
  <2>1. FoundInv'
    BY <1>2 DEF vars, WholeInv, FoundInv, Deletes, IsVll, Running, Holders, Undisturbed, Creates
  <2>2. HeldInv'
    BY <1>2 DEF vars, WholeInv, HeldInv, IsVll, Holders, Undisturbed, Creates
  <2> QED BY <2>1, <2>2 DEF WholeInv
<1> QED BY <1>1, <1>2

\* What the registry shows of the services.
Shown == [n \in Name |-> IF Undisturbed(n) THEN Holders(actual, n) ELSE None]

LEMMA InitRegistry == NothingAtFirst /\ Init => Registry!Init
<1> SUFFICES ASSUME NothingAtFirst, Init PROVE Registry!Init
  OBVIOUS
<1>1. \A n \in Name : Holders(actual, n) = {}
  BY DEF Init, NothingAtFirst, Holders
<1>2. \A n : Undisturbed(n)
  BY DEF Init, Undisturbed, IsVll, Creates
<1> QED BY <1>1, <1>2 DEF Registry!Init

\* Beginning a task may spoil services and changes none.
LEMMA StartRegistry ==
  ASSUME IInv, NetInv, EndsInv, WholeInv, NEW t \in Task, VllStart(t)
  PROVE  Registry!GiveUp
<1>1. actual' = actual /\ \A n : Undisturbed(n)' => Undisturbed(n)
  BY StartWholeInv
<1> DEFINE spoilt == {n \in Name : ~Undisturbed(n)'}
<1>2. Shown' = [n \in Name |-> IF n \in spoilt THEN None ELSE Shown[n]]
  <2>1. ASSUME NEW n \in Name
        PROVE  (IF Undisturbed(n)' THEN Holders(actual', n) ELSE None)
                 = IF n \in spoilt THEN None ELSE Shown[n]
    <3>1. CASE Undisturbed(n)'
      BY <1>1, <3>1 DEF Shown
    <3>2. CASE ~Undisturbed(n)'
      BY <3>2
    <3> QED BY <3>1, <3>2
  <2>2. Shown' = [n \in Name |-> IF Undisturbed(n)' THEN Holders(actual', n) ELSE None]
    BY DEF Shown, Holders
  <2> QED BY <2>1, <2>2
<1>3. spoilt \in SUBSET Name
  OBVIOUS
<1> QED BY <1>2, <1>3 DEF Registry!GiveUp, Shown

\* A call changes nothing of what the registry shows, or installs or removes
\* the ends of one service.
LEMMA CallRegistry ==
  ASSUME IInv, NetInv, TrackInv, EndsInv, WholeInv, NEW u \in Task, Advance(u) \/ WorkerDies(u)
  PROVE  \/ Shown' = Shown
         \/ \E n \in Name : Registry!Install(n) \/ Registry!Remove(n)
<1>1. \A n : Undisturbed(n)' <=> Undisturbed(n)
  BY CallWholeInv
<1>2. Shown' = [n \in Name |-> IF Undisturbed(n) THEN Holders(actual', n) ELSE None]
  BY <1>1 DEF Shown, Holders
<1>3. CASE \A n \in Name : Undisturbed(n) => Holders(actual', n) = Holders(actual, n)
  <2>1. Shown' = Shown
    BY <1>2, <1>3 DEF Shown
  <2> QED BY <2>1
<1>4. CASE ~\A n \in Name : Undisturbed(n) => Holders(actual', n) = Holders(actual, n)
  <2>1. PICK n \in Name : Undisturbed(n) /\ Holders(actual', n) # Holders(actual, n)
    BY <1>4
  <2>2. /\ input[u].id = n /\ scope[u] \subseteq Node
        /\ \/ /\ Creates(u) /\ Holders(actual, n) = {}
              /\ Holders(actual', n) = EndIds(input[u]) /\ scope[u] = EndIds(input[u])
           \/ /\ Deletes(u) /\ Holders(actual, n) = scope[u] \ {Unknown}
              /\ Holders(actual', n) = {}
    BY <2>1, CallHolders
  <2>3. \A m \in Name : m # n /\ Undisturbed(m) => Holders(actual', m) = Holders(actual, m)
    <3>1. SUFFICES ASSUME NEW m \in Name, m # n, Undisturbed(m),
                          Holders(actual', m) # Holders(actual, m)
                   PROVE  FALSE
      OBVIOUS
    <3>2. input[u].id = m
      BY <3>1, CallHolders
    <3> QED BY <2>2, <3>1, <3>2
  <2>4. Shown' = [Shown EXCEPT ![n] = Holders(actual', n)] /\ Shown[n] = Holders(actual, n)
    BY <1>2, <2>1, <2>3 DEF Shown
  <2>5. CASE Creates(u) /\ Holders(actual, n) = {}
             /\ Holders(actual', n) = EndIds(input[u]) /\ scope[u] = EndIds(input[u])
    <3>1. /\ input[u].devices[1].id \in Node /\ input[u].devices[2].id \in Node
          /\ Holders(actual', n) = {input[u].devices[1].id, input[u].devices[2].id}
      BY <2>2, <2>5 DEF EndIds
    <3>2. Shown[n] = {}
      BY <2>4, <2>5
    <3>3. \E d, e \in Node : Shown' = [Shown EXCEPT ![n] = {d, e}]
      BY <2>4, <3>1
    <3>4. Registry!Install(n)
      BY <3>2, <3>3 DEF Registry!Install, Shown
    <3> QED BY <3>4
  <2>6. CASE Holders(actual', n) = {}
    <3>1. Shown[n] # None
      BY <2>4, SpoiltAssumption DEF Holders
    <3>2. Registry!Remove(n)
      BY <2>4, <2>6, <3>1 DEF Registry!Remove, Shown
    <3> QED BY <3>2
  <2> QED BY <2>2, <2>5, <2>6
<1> QED BY <1>3, <1>4

\* Every step of the workers is a step of the registry or none.
LEMMA StepRegistry ==
  IInv /\ NetInv /\ TrackInv /\ EndsInv /\ WholeInv /\ [VllNext]_vars
    => [Registry!Next]_Shown
<1> SUFFICES ASSUME IInv, NetInv, TrackInv, EndsInv, WholeInv, [VllNext]_vars
             PROVE  [Registry!Next]_Shown
  OBVIOUS
<1>1. CASE VllNext
  <2>1. PICK t \in Task : VllStart(t) \/ Advance(t) \/ WorkerDies(t)
    BY <1>1 DEF VllNext
  <2>2. CASE VllStart(t)
    BY <2>2, StartRegistry DEF Registry!Next
  <2>3. CASE Advance(t) \/ WorkerDies(t)
    BY <2>3, CallRegistry DEF Registry!Next
  <2> QED BY <2>1, <2>2, <2>3
<1>2. CASE UNCHANGED vars
  BY <1>2 DEF vars, Shown, Undisturbed, IsVll, Creates, Holders
<1> QED BY <1>1, <1>2

\* The invariants of all tasks, with the one of the undisturbed services.
THEOREM SpecWholeInv ==
  NothingAtFirst /\ VllSpec => [](IInv /\ NetInv /\ TrackInv /\ EndsInv /\ WholeInv)
<1>1. NothingAtFirst /\ Init => ShapedAtFirst /\ WholeInv
  BY InitWholeInv
<1>2. IInv /\ NetInv /\ TrackInv /\ EndsInv /\ WholeInv /\ [VllNext]_vars => WholeInv'
  BY NextWholeInv
<1> QED BY <1>1, <1>2, SpecEndsInv, PTL DEF VllSpec

\* When the nodes start without them, the services whose tasks meet no others
\* are installed on both ends at once and removed from both at once, whatever
\* fails in between and however the tasks of different services interleave.
THEOREM SpecImplementsRegistry == NothingAtFirst /\ VllSpec => VllImplementsRegistry
<1>1. IInv /\ NetInv /\ TrackInv /\ EndsInv /\ WholeInv /\ [VllNext]_vars
        => [Registry!Next]_Shown
  BY StepRegistry
<1>2. NothingAtFirst /\ VllSpec => Registry!Init /\ [][Registry!Next]_Shown
  BY <1>1, InitRegistry, SpecWholeInv, PTL DEF VllSpec
<1>3. Registry!Spec <=> Registry!Init /\ [][Registry!Next]_Shown
  BY DEF Registry!Spec, Shown
<1> QED BY <1>2, <1>3 DEF VllImplementsRegistry
=============================================================================
