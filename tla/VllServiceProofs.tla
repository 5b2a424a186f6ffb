-------------------------- MODULE VllServiceProofs --------------------------
(* Proofs about VllService, for any tasks, threads and faults, any nodes, and *)
(* any inputs a node can hold.                                                *)
(*                                                                            *)
(* What a task has changed and neither committed nor reset must, whichever    *)
(* call fails next, be rolled back by that call, or be one of the reasons for *)
(* which a change is left behind.  This is a property of the rest of the      *)
(* program and of the nodes that are dirty now: it holds of every program     *)
(* from the start, and every call keeps it.                                   *)
EXTENDS VllService, VplsModel, SequenceTheorems, FiniteSetTheorems, WellFoundedInduction, TLAPS

-----------------------------------------------------------------------------
(* Programs that roll back what they change *)

Touches(s)  == s.call \in {"write", "sync"}
Restores(s) == IF s.call = "rollback" THEN s.on ELSE s.undo

\* The reasons for which a call that fails leaves a change of d behind.
MayLeave(in, s, d) ==
  \/ s.call = "dryrun"
  \/ in.do \in {"write", "erase"}
  \/ s.call = "rollback" /\ in.do = "create" /\ ~IsLocal(in) /\ ~Remote(in)
  \/ /\ s.call # "rollback" /\ s.undo = s.on /\ d \notin s.on /\ in.do = "create"
     /\ d = in.devices[1].id /\ in.devices[1].interface_reset

\* A step about the devices ids only, whose failure these programs can meet.
Shape(ids, s) ==
  /\ s \in Step /\ s.on \subseteq ids /\ s.fails \in {"abort", "ignore", "skip"}
  /\ s.call = "rollback" => s.fails = "abort"

\* It may fail with any of the devices dirty.
Safe(in, ids, s) ==
  s.fails = "abort" => \A d \in ids : d \in Restores(s) \/ MayLeave(in, s, d)

AllSafe(in, ids, p) ==
  p \in Seq(Step) /\ \A k \in 1..Len(p) : Shape(ids, p[k]) /\ Safe(in, ids, p[k])

Quiet(ids, p) ==
  p \in Seq(Step) /\ \A k \in 1..Len(p) : Shape(ids, p[k]) /\ ~Touches(p[k])

\* Every step of the program may fail: with any of the devices dirty, or when
\* nothing is dirty and no step before it touches anything.
ProgramOK(in, ids, p, D) ==
  p \in Seq(Step) /\ \A k \in 1..Len(p) :
    /\ Shape(ids, p[k])
    /\ \/ Safe(in, ids, p[k])
       \/ D = {} /\ \A j \in 1..(k - 1) : ~Touches(p[j])

\* The step that completes a task.
LastOK(in, ids, s) ==
  /\ s.fails = "abort"
  /\ \/ in.do \in {"write", "erase"}
     \/ s.call = "rollback"
     \/ s.call = "commit" /\ s.on = ids
     \/ s.call = "dryrun" /\ in.dryrun
EndsOK(in, ids, p) == p # <<>> => LastOK(in, ids, p[Len(p)])

\* The empty program is safe.
LEMMA EmptyOK == \A in, ids : AllSafe(in, ids, <<>>) /\ Quiet(ids, <<>>)
BY DEF AllSafe, Quiet

\* A program that is safe with anything dirty is so with nothing dirty too.
LEMMA SafeIsOK ==
  ASSUME NEW in, NEW ids, NEW p, NEW D, AllSafe(in, ids, p) PROVE ProgramOK(in, ids, p, D)
BY DEF AllSafe, ProgramOK

\* A program that touches nothing may fail anywhere while nothing is dirty.
LEMMA QuietIsOK ==
  ASSUME NEW in, NEW ids, NEW p, Quiet(ids, p) PROVE ProgramOK(in, ids, p, {})
<1> USE DEF Quiet, ProgramOK
<1>1. ASSUME NEW k \in 1..Len(p), NEW j \in 1..(k - 1) PROVE ~Touches(p[j])
  OBVIOUS
<1> QED BY <1>1

\* The steps of a program made of two.
LEMMA ConcatSteps ==
  ASSUME NEW p \in Seq(Step), NEW q \in Seq(Step)
  PROVE  /\ p \o q \in Seq(Step) /\ Len(p \o q) = Len(p) + Len(q)
         /\ \A k \in 1..Len(p) : (p \o q)[k] = p[k]
         /\ \A k \in 1..Len(p) + Len(q) : k > Len(p) =>
              (p \o q)[k] = q[k - Len(p)] /\ k - Len(p) \in 1..Len(q)
OBVIOUS

\* Safe programs in a row are safe.
LEMMA ConcatAllSafe ==
  ASSUME NEW in, NEW ids, NEW p, NEW q, AllSafe(in, ids, p), AllSafe(in, ids, q)
  PROVE  AllSafe(in, ids, p \o q)
BY ConcatSteps DEF AllSafe

\* Quiet programs in a row are quiet.
LEMMA ConcatQuiet ==
  ASSUME NEW ids, NEW p, NEW q, Quiet(ids, p), Quiet(ids, q) PROVE Quiet(ids, p \o q)
BY ConcatSteps DEF Quiet

\* A program may be followed by steps that are safe anyway.
LEMMA ConcatSafe ==
  ASSUME NEW in, NEW ids, NEW D, NEW p, NEW q, ProgramOK(in, ids, p, D), AllSafe(in, ids, q)
  PROVE  ProgramOK(in, ids, p \o q, D)
<1>1. p \in Seq(Step) /\ q \in Seq(Step)
  BY DEF ProgramOK, AllSafe
<1>2. ASSUME NEW k \in 1..Len(p \o q)
      PROVE  /\ Shape(ids, (p \o q)[k])
             /\ \/ Safe(in, ids, (p \o q)[k])
                \/ D = {} /\ \A j \in 1..(k - 1) : ~Touches((p \o q)[j])
  <2>1. CASE k \in 1..Len(p)
    <3>1. \A j \in 1..(k - 1) : j \in 1..Len(p)
      BY <1>1, <2>1
    <3> QED BY <1>1, <2>1, <3>1, ConcatSteps DEF ProgramOK
  <2>2. CASE k \notin 1..Len(p)
    BY <1>1, <2>2, ConcatSteps DEF AllSafe
  <2> QED BY <2>1, <2>2
<1> QED BY <1>1, <1>2, ConcatSteps DEF ProgramOK

\* A program may be preceded by steps that touch nothing.
LEMMA ConcatAfterQuiet ==
  ASSUME NEW in, NEW ids, NEW p, NEW q, Quiet(ids, p), ProgramOK(in, ids, q, {})
  PROVE  ProgramOK(in, ids, p \o q, {})
<1>1. p \in Seq(Step) /\ q \in Seq(Step)
  BY DEF ProgramOK, Quiet
<1>2. ASSUME NEW k \in 1..Len(p \o q)
      PROVE  /\ Shape(ids, (p \o q)[k])
             /\ Safe(in, ids, (p \o q)[k]) \/ \A j \in 1..(k - 1) : ~Touches((p \o q)[j])
  <2>1. CASE k \in 1..Len(p)
    <3>1. \A j \in 1..(k - 1) : j \in 1..Len(p)
      BY <1>1, <2>1
    <3> QED BY <1>1, <2>1, <3>1, ConcatSteps DEF Quiet
  <2>2. CASE k \notin 1..Len(p)
    <3>1. k - Len(p) \in 1..Len(q) /\ (p \o q)[k] = q[k - Len(p)]
      BY <1>1, <2>2, ConcatSteps
    <3>2. ASSUME NEW j \in 1..(k - 1), \A i \in 1..(k - Len(p) - 1) : ~Touches(q[i])
          PROVE  ~Touches((p \o q)[j])
      <4>1. CASE j \in 1..Len(p)
        BY <1>1, <4>1, ConcatSteps DEF Quiet
      <4>2. CASE j \notin 1..Len(p)
        <5>1. j - Len(p) \in 1..(k - Len(p) - 1) /\ (p \o q)[j] = q[j - Len(p)]
          BY <1>1, <3>1, <4>2, ConcatSteps
        <5> QED BY <5>1, <3>2
      <4> QED BY <4>1, <4>2
    <3> QED BY <3>1, <3>2 DEF ProgramOK
  <2> QED BY <2>1, <2>2
<1> QED BY <1>1, <1>2, ConcatSteps DEF ProgramOK

\* The last step of two programs in a row is that of the second.
LEMMA ConcatEnds ==
  ASSUME NEW in, NEW ids, NEW p \in Seq(Step), NEW q \in Seq(Step), q # <<>>, EndsOK(in, ids, q)
  PROVE  EndsOK(in, ids, p \o q)
<1>1. Len(q) \in Nat \ {0} /\ Len(p) \in Nat
  OBVIOUS
<1>2. (p \o q)[Len(p \o q)] = q[Len(q)]
  BY <1>1, ConcatSteps
<1> QED BY <1>2 DEF EndsOK

\* A program goes on after its first step, which made what it is about dirty
\* if it touches it; fewer nodes may be dirty, for others commit and reset.
LEMMA TailOK ==
  ASSUME NEW in, NEW ids, NEW p, p # <<>>, NEW D, ProgramOK(in, ids, p, D), EndsOK(in, ids, p),
         NEW E, E \subseteq D \cup (IF Touches(Head(p)) THEN Head(p).on ELSE {})
  PROVE  ProgramOK(in, ids, Tail(p), E) /\ EndsOK(in, ids, Tail(p))
<1>1. p \in Seq(Step) /\ Len(p) \in Nat \ {0} /\ Head(p) = p[1]
  BY DEF ProgramOK
<1>2. Tail(p) \in Seq(Step) /\ Len(Tail(p)) = Len(p) - 1
  BY <1>1
<1>3. \A k \in 1..(Len(p) - 1) : Tail(p)[k] = p[k + 1]
  BY <1>1
<1>4. ASSUME NEW k \in 1..(Len(p) - 1)
      PROVE  /\ Shape(ids, Tail(p)[k])
             /\ \/ Safe(in, ids, Tail(p)[k])
                \/ E = {} /\ \A j \in 1..(k - 1) : ~Touches(Tail(p)[j])
  <2>1. k + 1 \in 1..Len(p)
    BY <1>1
  <2>2. Shape(ids, p[k + 1])
    BY <2>1 DEF ProgramOK
  <2>3. CASE D = {} /\ \A j \in 1..k : ~Touches(p[j])
    <3>1. ~Touches(p[1])
      BY <2>3
    <3>2. \A j \in 1..(k - 1) : j \in 1..(Len(p) - 1) /\ j + 1 \in 1..k
      BY <1>1
    <3> QED BY <1>1, <1>3, <2>2, <2>3, <3>1, <3>2
  <2>4. CASE Safe(in, ids, p[k + 1])
    BY <1>3, <2>2, <2>4
  <2>5. (k + 1) - 1 = k
    OBVIOUS
  <2> QED BY <2>1, <2>3, <2>4, <2>5 DEF ProgramOK
<1>5. EndsOK(in, ids, Tail(p))
  <2>1. CASE Len(p) = 1
    <3>1. Len(Tail(p)) = 0
      BY <1>2, <2>1
    <3>2. Tail(p) = <<>>
      BY <1>2, <3>1, EmptySeq
    <3> QED BY <3>2 DEF EndsOK
  <2>2. CASE Len(p) # 1
    <3>1. \A n \in Nat \ {0, 1} : n - 1 \in 1..(n - 1) /\ (n - 1) + 1 = n
      OBVIOUS
    <3> QED BY <1>1, <1>2, <1>3, <2>2, <3>1 DEF EndsOK
  <2> QED BY <2>1, <2>2
<1> QED BY <1>2, <1>4, <1>5 DEF ProgramOK

\* Others may commit or reset a node: a program goes on with fewer dirty ones.
LEMMA FewerDirty ==
  ASSUME NEW in, NEW ids, NEW p, NEW D, NEW E \in SUBSET D, ProgramOK(in, ids, p, D)
  PROVE  ProgramOK(in, ids, p, E)
BY DEF ProgramOK
-----------------------------------------------------------------------------
(* The steps of the programs *)

\* Objects that the tasks name.
LEMMA Objects ==
  /\ \A i \in Interface : Port(i) \in Object /\ Policy(i) \in Object /\ Stp(i) \in Object
  /\ \A n \in Name : Instance(n) \in Object
BY DEF Object, Port, Policy, Stp, Instance

\* Two steps in a row.
LEMMA TwoSteps == \A u \in Step, v \in Step : <<u>> \o <<v>> = <<u, v>>
<1> SUFFICES ASSUME NEW u \in Step, NEW v \in Step PROVE <<u>> \o <<v>> = <<u, v>>
  OBVIOUS
<1>1. <<u>> \o <<v>> \in Seq(Step) /\ <<u, v>> \in Seq(Step)
  OBVIOUS
<1>2. Len(<<u>> \o <<v>>) = 2 /\ Len(<<u, v>>) = 2
  OBVIOUS
<1>3. (<<u>> \o <<v>>)[1] = u /\ (<<u>> \o <<v>>)[2] = v
  OBVIOUS
<1>4. \A i \in 1..2 : (<<u>> \o <<v>>)[i] = <<u, v>>[i]
  <2>1. \A i \in 1..2 : i = 1 \/ i = 2
    OBVIOUS
  <2> QED BY <1>3, <2>1
<1> DEFINE p == <<u>> \o <<v>>
           q == <<u, v>>
<1>5. p \in Seq(Step) /\ q \in Seq(Step) /\ Len(p) = Len(q) /\ \A i \in 1..Len(p) : p[i] = q[i]
  BY <1>1, <1>2, <1>4
<1> HIDE DEF p, q
<1>6. p = q
  BY <1>5, SeqEqual
<1> QED BY <1>6 DEF p, q

\* What Read says of its step.
LEMMA ReadFacts ==
  ASSUME NEW id \in Id, NEW o \in Object, NEW undo \in SUBSET Id
  PROVE  LET s == Read(id, o, undo) IN
         s \in Step /\ s.call = "read" /\ s.on = {id} /\ s.undo = undo /\ s.fails = "abort"
BY DEF Read, Step, OnFailure

\* What Put says of its step.
LEMMA PutFacts ==
  ASSUME NEW id \in Id, NEW o \in Object, NEW v \in Value \cup {None}, NEW undo \in SUBSET Id
  PROVE  LET s == Put(id, o, v, undo) IN
         s \in Step /\ s.call = "write" /\ s.on = {id} /\ s.undo = undo /\ s.fails = "abort"
BY DEF Put, Step, OnFailure

\* What Call says of its step.
LEMMA CallFacts ==
  ASSUME NEW call \in {"commit", "sync", "dryrun", "rollback"},
         NEW on \in SUBSET Id, NEW undo \in SUBSET Id
  PROVE  LET s == Call(call, on, undo) IN
         s \in Step /\ s.call = call /\ s.on = on /\ s.undo = undo /\ s.fails = "abort"
BY DEF Call, Step, OnFailure

\* A step whose failure does not end the task keeps all but its fails.
LEMMA FailsFacts ==
  ASSUME NEW s \in Step, NEW f \in OnFailure
  PROVE  LET u == [s EXCEPT !.fails = f] IN
         u \in Step /\ u.call = s.call /\ u.on = s.on /\ u.undo = s.undo /\ u.fails = f
BY DEF Step

\* A program of one step.
LEMMA OneStep ==
  ASSUME NEW in, NEW ids, NEW s, Shape(ids, s)
  PROVE  /\ <<s>> \in Seq(Step) /\ <<s>> # <<>>
         /\ Safe(in, ids, s) => AllSafe(in, ids, <<s>>)
         /\ ~Touches(s) => Quiet(ids, <<s>>)
         /\ LastOK(in, ids, s) => EndsOK(in, ids, <<s>>)
<1>1. s \in Step
  BY DEF Shape
<1>2. <<s>> \in Seq(Step) /\ Len(<<s>>) = 1 /\ <<s>>[1] = s /\ <<s>> # <<>>
  BY <1>1
<1>3. \A k \in 1..1 : k = 1
  OBVIOUS
<1> QED BY <1>2, <1>3 DEF AllSafe, Quiet, EndsOK
-----------------------------------------------------------------------------
(* The programs *)

\* Undo rolls back all devices, or the task never rolls back.
Undoes(in, ids, undo) == undo \in SUBSET Id /\ (undo = ids \/ in.do \in {"write", "erase"})

\* A write that rolls back all devices, or belongs to a task that never does.
LEMMA WriteSafe ==
  ASSUME NEW in, NEW ids \in SUBSET Id, NEW id \in ids, NEW o \in Object,
         NEW v \in Value \cup {None}, NEW undo, Undoes(in, ids, undo)
  PROVE  /\ AllSafe(in, ids, <<Put(id, o, v, undo)>>)
         /\ in.do \in {"write", "erase"} => EndsOK(in, ids, <<Put(id, o, v, undo)>>)
<1> DEFINE s == Put(id, o, v, undo)
<1>1. s \in Step /\ s.call = "write" /\ s.on = {id} /\ s.undo = undo /\ s.fails = "abort"
  <2>1. id \in Id /\ undo \in SUBSET Id
    BY DEF Undoes
  <2> QED BY <2>1, PutFacts
<1> HIDE DEF s
<1>2. Shape(ids, s)
  BY <1>1 DEF Shape
<1>3. Safe(in, ids, s)
  BY <1>1 DEF Safe, Undoes, Restores, MayLeave
<1>4. in.do \in {"write", "erase"} => LastOK(in, ids, s)
  BY <1>1 DEF LastOK
<1>5. /\ AllSafe(in, ids, <<s>>)
      /\ in.do \in {"write", "erase"} => EndsOK(in, ids, <<s>>)
  BY <1>2, <1>3, <1>4, OneStep
<1> QED BY <1>5 DEF s

\* What is safe under a condition is safe.
LEMMA WhenSafe ==
  ASSUME NEW in, NEW ids, NEW p, NEW c \in BOOLEAN, c => AllSafe(in, ids, p)
  PROVE  AllSafe(in, ids, When(c, p))
BY EmptyOK DEF When

\* An end as the tasks are given it.
EndOK(in, end) ==
  /\ end.id \in EndIds(in) /\ end.interface \in Interface
  /\ PortData(end.auto, LongTpid(end.tpid)) \in Value
  /\ end.policy # {} => PolicyData(end.policy) \in Value

\* The ends of an input that parses.
LEMMA InputEnds ==
  ASSUME NEW in \in VllInput, in.do # "delete", Parses(in)
  PROVE  /\ EndIds(in) \in SUBSET Id /\ in.id \in Name
         /\ EndOK(in, in.devices[1]) /\ EndOK(in, in.devices[2])
         /\ in.devices[1].id \in EndIds(in) /\ in.devices[2].id \in EndIds(in)
<1>1. 1 \in 1..2 /\ 2 \in 1..2
  OBVIOUS
<1>2. in.devices[1].id \in Id /\ in.devices[2].id \in Id /\ in.id \in Name
  BY <1>1 DEF Parses
<1>3. \A k \in 1..2 : LET end == in.devices[k] IN
        /\ end.interface \in Interface
        /\ PortData(end.auto, LongTpid(end.tpid)) \in Value
        /\ end.policy # {} => PolicyData(end.policy) \in Value
  BY VllInputAssumption
<1> QED BY <1>1, <1>2, <1>3 DEF EndOK, EndIds

\* Writing an interface, its policies and its spanning tree.
LEMMA ConfigureSafe ==
  ASSUME NEW in, NEW end, EndOK(in, end), EndIds(in) \in SUBSET Id
  PROVE  AllSafe(in, EndIds(in), Configure(end, EndIds(in)))
<1> DEFINE ids == EndIds(in)
<1>1. Undoes(in, ids, ids) /\ end.id \in ids /\ end.id \in Id
  BY DEF Undoes, EndOK
<1>2. AllSafe(in, ids, PutInterface(end, ids))
  BY <1>1, WriteSafe, Objects DEF PutInterface, EndOK
<1>3. AllSafe(in, ids, PutPolicy(end, ids))
  <2>1. end.policy # {} =>
          AllSafe(in, ids, <<Put(end.id, Policy(end.interface), PolicyData(end.policy), ids)>>)
    BY <1>1, WriteSafe, Objects DEF EndOK
  <2> QED BY <2>1, WhenSafe DEF PutPolicy
<1>4. AllSafe(in, ids, DisableStp(end))
  <2> DEFINE d == Delete(end.id, Stp(end.interface), {})
             s == [d EXCEPT !.fails = "ignore"]
  <2>1. d \in Step /\ d.call = "write" /\ d.on = {end.id}
    <3>1. Stp(end.interface) \in Object /\ {} \in SUBSET Id /\ None \in Value \cup {None}
      BY Objects DEF EndOK
    <3>2. d = Put(end.id, Stp(end.interface), None, {})
      BY DEF Delete
    <3> QED BY <1>1, <3>1, <3>2, PutFacts
  <2>2. s \in Step /\ s.call = "write" /\ s.on = {end.id} /\ s.fails = "ignore"
    BY <2>1, FailsFacts DEF OnFailure
  <2> HIDE DEF s
  <2>3. Shape(ids, s) /\ Safe(in, ids, s)
    BY <1>1, <2>2 DEF Shape, Safe
  <2>4. AllSafe(in, ids, <<s>>)
    BY <2>3, OneStep
  <2> QED BY <2>4 DEF DisableStp, s
<1> QED BY <1>2, <1>3, <1>4, ConcatAllSafe DEF Configure

\* Writing the instances, for a creation or for a task that only writes.
LEMMA CreateVllSafe ==
  ASSUME NEW in \in VllInput, in.do \in {"create", "write"}, Parses(in),
         NEW undo, Undoes(in, EndIds(in), undo)
  PROVE  /\ AllSafe(in, EndIds(in), CreateVll(in, undo))
         /\ in.do = "write" => EndsOK(in, EndIds(in), CreateVll(in, undo))
<1> DEFINE ids == EndIds(in)
<1>1. /\ ids \in SUBSET Id /\ in.id \in Name
      /\ in.devices[1].id \in ids /\ in.devices[2].id \in ids
  BY InputEnds
<1>2. CASE IsLocal(in)
  <2>1. LocalInstance(in) \in Value
    BY <1>2, VllInputAssumption
  <2> QED BY <1>1, <1>2, <2>1, WriteSafe, Objects DEF CreateVll, CreateVllLocal
<1>3. CASE ~IsLocal(in) /\ ~Remote(in)
  <2>1. Raise \in Step /\ Raise.call = "rollback" /\ Raise.on = {} /\ Raise.fails = "abort"
    BY CallFacts DEF Raise, Rollback
  <2>2. Shape(ids, Raise) /\ Safe(in, ids, Raise) /\ LastOK(in, ids, Raise)
    BY <1>3, <2>1 DEF Shape, Safe, LastOK, MayLeave
  <2>3. AllSafe(in, ids, <<Raise>>) /\ EndsOK(in, ids, <<Raise>>)
    BY <2>2, OneStep
  <2> QED BY <1>3, <2>3 DEF CreateVll, CreateVllRemote
<1>4. CASE ~IsLocal(in) /\ Remote(in)
  <2> DEFINE r1 == RemoteInstance(in, in.devices[1], in.devices[2])
             r2 == RemoteInstance(in, in.devices[2], in.devices[1])
             w1 == Put(in.devices[1].id, Instance(in.id), r1, undo)
             w2 == Put(in.devices[2].id, Instance(in.id), r2, undo)
  <2>1. \A k \in 1..2 : RemoteInstance(in, in.devices[k], in.devices[3 - k]) \in Value
    BY <1>4, VllInputAssumption
  <2>2. r1 \in Value /\ r2 \in Value
    <3>1. 3 - 1 = 2 /\ 3 - 2 = 1 /\ 1 \in 1..2 /\ 2 \in 1..2
      OBVIOUS
    <3> QED BY <2>1, <3>1
  <2> HIDE DEF r1, r2
  <2>3. AllSafe(in, ids, <<w1>>) /\ AllSafe(in, ids, <<w2>>)
        /\ (in.do = "write" => EndsOK(in, ids, <<w2>>))
    BY <1>1, <2>2, WriteSafe, Objects
  <2>4. <<w1>> \in Seq(Step) /\ <<w2>> \in Seq(Step) /\ <<w2>> # <<>>
    BY <2>3 DEF AllSafe
  <2>5. <<w1>> \o <<w2>> = <<w1, w2>>
    <3>1. w1 \in Step /\ w2 \in Step
      BY <1>1, <2>2, PutFacts, Objects DEF Undoes
    <3> QED BY <3>1, TwoSteps
  <2>6. CreateVll(in, undo) = <<w1, w2>>
    BY <1>4 DEF CreateVll, CreateVllRemote, r1, r2
  <2> HIDE DEF w1, w2
  <2> QED BY <2>3, <2>4, <2>5, <2>6, ConcatAllSafe, ConcatEnds
<1> QED BY <1>2, <1>3, <1>4

\* The end of a task: a commit of all its devices, or a dry run.
LEMMA FinishSafe ==
  ASSUME NEW in, NEW ids \in SUBSET Id, in.dryrun \in BOOLEAN
  PROVE  /\ AllSafe(in, ids, Finish(in.dryrun, ids)) /\ EndsOK(in, ids, Finish(in.dryrun, ids))
         /\ Finish(in.dryrun, ids) # <<>> /\ Finish(in.dryrun, ids) \in Seq(Step)
<1>1. CASE in.dryrun
  <2>1. LET s == DryRun(ids) IN s \in Step /\ s.call = "dryrun" /\ s.on = ids /\ s.fails = "abort"
    BY CallFacts DEF DryRun
  <2>2. Shape(ids, DryRun(ids)) /\ Safe(in, ids, DryRun(ids)) /\ LastOK(in, ids, DryRun(ids))
    BY <1>1, <2>1 DEF Shape, Safe, LastOK, MayLeave
  <2> QED BY <1>1, <2>2, OneStep DEF Finish
<1>2. CASE ~in.dryrun
  <2>1. LET s == Commit(ids, ids) IN
        s \in Step /\ s.call = "commit" /\ s.on = ids /\ s.undo = ids /\ s.fails = "abort"
    BY CallFacts DEF Commit
  <2>2. Shape(ids, Commit(ids, ids)) /\ Safe(in, ids, Commit(ids, ids))
        /\ LastOK(in, ids, Commit(ids, ids))
    BY <2>1 DEF Shape, Safe, LastOK, Restores
  <2> QED BY <1>2, <2>2, OneStep DEF Finish
<1> QED BY <1>1, <1>2

\* Reading an interface touches nothing.
LEMMA ReadQuiet ==
  ASSUME NEW in, NEW end, EndOK(in, end), EndIds(in) \in SUBSET Id
  PROVE  Quiet(EndIds(in), ReadInterface(end, {}))
<1> DEFINE s == Read(end.id, Port(end.interface), {})
<1>1. end.id \in EndIds(in) /\ end.id \in Id /\ Port(end.interface) \in Object /\ {} \in SUBSET Id
  BY Objects DEF EndOK
<1>2. s \in Step /\ s.call = "read" /\ s.on = {end.id} /\ s.fails = "abort"
  BY <1>1, ReadFacts
<1> HIDE DEF s
<1>3. Shape(EndIds(in), s) /\ ~Touches(s)
  BY <1>1, <1>2 DEF Shape, Touches
<1>4. Quiet(EndIds(in), <<s>>)
  BY <1>3, OneStep
<1> QED BY <1>4 DEF s, ReadInterface

\* The policy of an end can be reset while nothing is dirty; and with the other
\* end dirty, if that one was reset: this is one of the reasons.
LEMMA ResetPolicyOK ==
  ASSUME NEW in, NEW end, EndOK(in, end), EndIds(in) \in SUBSET Id
  PROVE  /\ ProgramOK(in, EndIds(in), ResetPolicy(end, {end.id}), {})
         /\ end = in.devices[2] /\ in.do = "create" /\ in.devices[1].interface_reset
              => AllSafe(in, EndIds(in), ResetPolicy(end, {end.id}))
<1> DEFINE ids == EndIds(in)
           r   == Read(end.id, Policy(end.interface), {})
           rs  == [r EXCEPT !.fails = "skip"]
           d   == Delete(end.id, Policy(end.interface), {end.id})
<1>0. /\ end.id \in ids /\ end.id \in Id /\ {end.id} \in SUBSET Id /\ {} \in SUBSET Id
      /\ Policy(end.interface) \in Object /\ None \in Value \cup {None}
  BY Objects DEF EndOK
<1>1. r \in Step /\ r.call = "read" /\ r.on = {end.id}
  BY <1>0, ReadFacts
<1>2. rs \in Step /\ rs.call = "read" /\ rs.on = {end.id} /\ rs.fails = "skip"
  BY <1>1, FailsFacts DEF OnFailure
<1>3. d \in Step /\ d.call = "write" /\ d.on = {end.id} /\ d.undo = {end.id} /\ d.fails = "abort"
  <2>1. d = Put(end.id, Policy(end.interface), None, {end.id})
    BY DEF Delete
  <2> QED BY <1>0, <2>1, PutFacts
<1>4. CASE end.policy # {}
  <2>1. ResetPolicy(end, {end.id}) = <<rs>> \o <<d>>
    <3>1. ResetPolicy(end, {end.id}) = <<rs, d>>
      BY <1>4 DEF ResetPolicy, When
    <3> HIDE DEF rs, d
    <3> QED BY <1>2, <1>3, <3>1, TwoSteps
  <2> HIDE DEF rs, d
  <2>2. Shape(ids, rs) /\ Safe(in, ids, rs) /\ ~Touches(rs) /\ Shape(ids, d)
    BY <1>0, <1>2, <1>3 DEF Shape, Safe, Touches
  <2>3. Quiet(ids, <<rs>>) /\ AllSafe(in, ids, <<rs>>)
    BY <2>2, OneStep
  <2>4. ProgramOK(in, ids, <<d>>, {})
    <3>1. <<d>> \in Seq(Step) /\ Len(<<d>>) = 1 /\ <<d>>[1] = d
      BY <1>3
    <3>2. \A k \in 1..1 : k = 1 /\ \A j \in 1..(k - 1) : FALSE
      OBVIOUS
    <3> QED BY <2>2, <3>1, <3>2 DEF ProgramOK
  <2>5. ASSUME end = in.devices[2], in.do = "create", in.devices[1].interface_reset
        PROVE  Safe(in, ids, d)
    <3>1. \A x \in ids : x = end.id \/ x = in.devices[1].id
      BY <2>5 DEF EndIds
    <3> QED BY <1>3, <2>5, <3>1 DEF Safe, Restores, MayLeave
  <2> QED BY <2>1, <2>2, <2>3, <2>4, <2>5, OneStep, ConcatAfterQuiet, ConcatAllSafe
<1>5. CASE end.policy = {}
  <2>1. ResetPolicy(end, {end.id}) = <<>>
    BY <1>5 DEF ResetPolicy, When
  <2> QED BY <2>1, EmptyOK, SafeIsOK
<1> QED BY <1>4, <1>5

\* Resetting one end: its policy may leave a change of the other end behind.
LEMMA ResetEndOK ==
  ASSUME NEW in, NEW end, EndOK(in, end), EndIds(in) \in SUBSET Id
  PROVE  /\ ProgramOK(in, EndIds(in), ResetEnd(end, EndIds(in)), {})
         /\ end = in.devices[2] /\ in.do = "create" /\ in.devices[1].interface_reset
              => AllSafe(in, EndIds(in), ResetEnd(end, EndIds(in)))
<1> DEFINE ids == EndIds(in)
<1>1. AllSafe(in, ids, DeleteInterface(end, ids))
  <2>1. Undoes(in, ids, ids) /\ end.id \in ids /\ Port(end.interface) \in Object
        /\ None \in Value \cup {None}
    BY Objects DEF Undoes, EndOK
  <2>2. DeleteInterface(end, ids) = <<Put(end.id, Port(end.interface), None, ids)>>
    BY DEF DeleteInterface, Delete
  <2> QED BY <2>1, <2>2, WriteSafe
<1>2. ProgramOK(in, ids, ResetPolicy(end, {end.id}) \o DeleteInterface(end, ids), {})
  BY <1>1, ResetPolicyOK, ConcatSafe
<1>3. end = in.devices[2] /\ in.do = "create" /\ in.devices[1].interface_reset
        => AllSafe(in, ids, ResetPolicy(end, {end.id}) \o DeleteInterface(end, ids))
  BY <1>1, ResetPolicyOK, ConcatAllSafe
<1> QED BY <1>2, <1>3, EmptyOK, SafeIsOK DEF ResetEnd, When

\* Resetting the ends, with the commit and the reading that follow.
LEMMA ResetEndsOK ==
  ASSUME NEW in \in VllInput, in.do = "create", Parses(in)
  PROVE  ProgramOK(in, EndIds(in), ResetEnds(in), {})
<1> DEFINE ids == EndIds(in)
           r1 == ResetEnd(in.devices[1], ids)
           r2 == ResetEnd(in.devices[2], ids)
           c  == When(\E k \in 1..2 : in.devices[k].interface_reset,
                      <<Commit(ids, ids), SyncFromNet(ids, ids)>>)
<1>1. ids \in SUBSET Id /\ EndOK(in, in.devices[1]) /\ EndOK(in, in.devices[2])
  BY InputEnds
<1>2. AllSafe(in, ids, c)
  <2>1. \A call \in {"commit", "sync"} : LET s == Call(call, ids, ids) IN
          s \in Step /\ s.call = call /\ s.on = ids /\ s.undo = ids /\ s.fails = "abort"
    BY <1>1, CallFacts
  <2>2. /\ Commit(ids, ids) \in Step /\ SyncFromNet(ids, ids) \in Step
        /\ Shape(ids, Commit(ids, ids)) /\ Safe(in, ids, Commit(ids, ids))
        /\ Shape(ids, SyncFromNet(ids, ids)) /\ Safe(in, ids, SyncFromNet(ids, ids))
    BY <2>1 DEF Commit, SyncFromNet, Shape, Safe, Restores
  <2>3. AllSafe(in, ids, <<Commit(ids, ids)>> \o <<SyncFromNet(ids, ids)>>)
    BY <2>2, OneStep, ConcatAllSafe
  <2>4. AllSafe(in, ids, <<Commit(ids, ids), SyncFromNet(ids, ids)>>)
    BY <2>2, <2>3, TwoSteps
  <2> QED BY <2>4, EmptyOK DEF When
<1>3. ResetEnds(in) = (r1 \o r2) \o c
  BY DEF ResetEnds
<1>4. CASE in.devices[1].interface_reset
  <2>1. ProgramOK(in, ids, r1, {}) /\ AllSafe(in, ids, r2)
    BY <1>1, <1>4, ResetEndOK
  <2> HIDE DEF ids, r1, r2, c
  <2> QED BY <1>2, <1>3, <2>1, ConcatSafe DEF ids
<1>5. CASE ~in.devices[1].interface_reset
  <2>1. Quiet(ids, r1)
    BY <1>5, EmptyOK DEF ResetEnd, When
  <2>2. ProgramOK(in, ids, r2, {})
    BY <1>1, ResetEndOK
  <2> HIDE DEF ids, r1, r2, c
  <2> QED BY <1>2, <1>3, <2>1, <2>2, ConcatSafe, ConcatAfterQuiet DEF ids
<1> QED BY <1>4, <1>5

\* The program of a creation rolls back what it changes.
LEMMA CreateTaskOK ==
  ASSUME NEW in \in VllInput, in.do = "create", Parses(in)
  PROVE  /\ ProgramOK(in, EndIds(in), CreateVllTask(in), {})
         /\ EndsOK(in, EndIds(in), CreateVllTask(in))
<1> DEFINE ids == EndIds(in)
           rd == ReadInterface(in.devices[1], {}) \o ReadInterface(in.devices[2], {})
           rs == When(~in.dryrun, ResetEnds(in))
           c1 == Configure(in.devices[1], ids)
           c2 == Configure(in.devices[2], ids)
           cr == CreateVll(in, ids)
           f  == Finish(in.dryrun, ids)
<1>1. ids \in SUBSET Id /\ EndOK(in, in.devices[1]) /\ EndOK(in, in.devices[2])
      /\ Undoes(in, ids, ids) /\ in.dryrun \in BOOLEAN
  BY InputEnds, VllInputAssumption DEF Undoes
<1>2. Quiet(ids, rd)
  BY <1>1, ReadQuiet, ConcatQuiet
<1>3. ProgramOK(in, ids, rs, {})
  BY ResetEndsOK, EmptyOK, SafeIsOK DEF When
<1>4. AllSafe(in, ids, c1) /\ AllSafe(in, ids, c2)
  BY <1>1, ConfigureSafe
<1>5. AllSafe(in, ids, cr)
  BY <1>1, CreateVllSafe
<1>6. AllSafe(in, ids, f) /\ EndsOK(in, ids, f) /\ f # <<>> /\ f \in Seq(Step)
  BY <1>1, FinishSafe
<1>7. CreateVllTask(in) = ((((rd \o rs) \o c1) \o c2) \o cr) \o f
  BY DEF CreateVllTask
<1> HIDE DEF ids, rd, rs, c1, c2, cr, f
<1>8. ProgramOK(in, ids, (((rd \o rs) \o c1) \o c2) \o cr, {})
  BY <1>2, <1>3, <1>4, <1>5, ConcatAfterQuiet, ConcatSafe
<1>9. ((((rd \o rs) \o c1) \o c2) \o cr) \in Seq(Step)
  BY <1>8 DEF ProgramOK
<1> QED BY <1>6, <1>7, <1>8, <1>9, ConcatSafe, ConcatEnds DEF ids

\* The ends of a service are deleted with all of them to be rolled back, or by
\* a task that never rolls back.
LEMMA DeleteVllSafe ==
  ASSUME NEW in, NEW s, Parses(s), NEW undo, Undoes(in, EndIds(s), undo)
  PROVE  /\ AllSafe(in, EndIds(s), DeleteVll(s, undo))
         /\ in.do \in {"write", "erase"} => EndsOK(in, EndIds(s), DeleteVll(s, undo))
<1> DEFINE ids == EndIds(s)
           d1  == RemoveVll(s.devices[1].id, s, undo)
           d2  == RemoveVll(s.devices[2].id, s, undo)
<1>1. s.devices[1].id \in Id /\ s.devices[2].id \in Id /\ s.id \in Name
  <2>1. 1 \in 1..2 /\ 2 \in 1..2
    OBVIOUS
  <2> QED BY <2>1 DEF Parses
<1>2. ids \in SUBSET Id /\ s.devices[1].id \in ids /\ s.devices[2].id \in ids
      /\ Instance(s.id) \in Object /\ None \in Value \cup {None}
  BY <1>1, Objects DEF EndIds
<1>3. /\ AllSafe(in, ids, d1) /\ AllSafe(in, ids, d2) /\ d1 # <<>> /\ d2 # <<>>
      /\ in.do \in {"write", "erase"} => EndsOK(in, ids, d1) /\ EndsOK(in, ids, d2)
  BY <1>2, WriteSafe DEF RemoveVll, Delete
<1>4. d1 \in Seq(Step) /\ d2 \in Seq(Step)
  BY <1>3 DEF AllSafe
<1>5. CASE IsLocal(s)
  <2>1. DeleteVll(s, undo) = d1
    <3>1. DeleteVll(s, undo) = d1 \o <<>>
      BY <1>5 DEF DeleteVll, When
    <3> HIDE DEF d1
    <3> QED BY <1>4, <3>1, ConcatEmptySeq
  <2> QED BY <1>3, <2>1
<1>6. CASE ~IsLocal(s)
  <2>1. DeleteVll(s, undo) = d1 \o d2
    BY <1>6 DEF DeleteVll, When
  <2> HIDE DEF ids, d1, d2
  <2> QED BY <1>3, <1>4, <2>1, ConcatAllSafe, ConcatEnds DEF ids
<1> QED BY <1>5, <1>6

\* The program of a deletion.
LEMMA DeleteTaskOK ==
  ASSUME NEW in, in.dryrun \in BOOLEAN, NEW s, Parses(s)
  PROVE  /\ ProgramOK(in, EndIds(s), DeleteVllTask(s, in.dryrun), {})
         /\ EndsOK(in, EndIds(s), DeleteVllTask(s, in.dryrun))
         /\ EndIds(s) \in SUBSET Id
<1> DEFINE ids == EndIds(s)
           d == DeleteVll(s, ids)
           f == Finish(in.dryrun, ids)
<1>1. ids \in SUBSET Id
  <2>1. 1 \in 1..2 /\ 2 \in 1..2
    OBVIOUS
  <2> QED BY <2>1 DEF Parses, EndIds
<1>2. AllSafe(in, ids, d)
  BY <1>1, DeleteVllSafe DEF Undoes
<1>3. AllSafe(in, ids, f) /\ EndsOK(in, ids, f) /\ f # <<>> /\ f \in Seq(Step)
  BY <1>1, FinishSafe
<1>4. DeleteVllTask(s, in.dryrun) = d \o f
  BY DEF DeleteVllTask
<1> HIDE DEF ids, d, f
<1>5. d \in Seq(Step)
  BY <1>2 DEF AllSafe
<1> QED BY <1>1, <1>2, <1>3, <1>4, <1>5, ConcatAllSafe, SafeIsOK, ConcatEnds DEF ids

\* A task that cannot begin ends in an exception.
LEMMA RaiseOK ==
  \A in : ProgramOK(in, {}, <<Raise>>, {}) /\ EndsOK(in, {}, <<Raise>>)
<1>1. Raise \in Step /\ Raise.call = "rollback" /\ Raise.on = {} /\ Raise.fails = "abort"
  BY CallFacts DEF Raise, Rollback
<1>2. \A in : Shape({}, Raise) /\ Safe(in, {}, Raise) /\ LastOK(in, {}, Raise)
  BY <1>1 DEF Shape, Safe, LastOK
<1> QED BY <1>2, OneStep, SafeIsOK
-----------------------------------------------------------------------------
(* The invariant *)

\* A change of node d that the rollback of t does not reset.
Excused(t, d) ==
  \/ input[t].do \in {"write", "erase"}
  \/ \E k \in DOMAIN broke[t] : broke[t][k].call \in {"dryrun", "rollback"}
  \/ VllLeaves(t, d)

OnCourse(t) ==
  /\ ProgramOK(input[t], scope[t], todo[t], dirty[t])
  /\ EndsOK(input[t], scope[t], todo[t])
Ending(t) ==
  \E x \in SUBSET Id :
    todo[t] = <<Rollback(x)>> /\ \A d \in dirty[t] : d \in x \/ Excused(t, d)
Kept(t) == \A d \in dirty[t] : LeftByDesign(t) \/ VllLeaves(t, d)

TaskOK(t) ==
  /\ dirty[t] \subseteq scope[t]
  /\ result[t] = "idle" => dirty[t] = {}
  /\ result[t] # "idle" => input[t] \in VllInput
  /\ Running(t) => OnCourse(t) \/ Ending(t)
  /\ Ended(t) => Kept(t)

\* What is pending on a node is somebody's change.
Accountable == \A d \in Node : Pending(d) => \E t \in Task : d \in dirty[t]

IInv ==
  /\ TypeOK /\ input \in [Task -> VllInput \cup {None}]
  /\ Accountable /\ \A t \in Task : TaskOK(t)

\* Every change that is pending belongs to a task that runs, or was left behind
\* for a reason.
LEMMA InvLeavesNothing == IInv => VllLeavesNothing
<1> SUFFICES ASSUME IInv, NEW d \in Node, Pending(d)
             PROVE  \E t \in Task : d \in dirty[t] /\ (LeftByDesign(t) \/ VllLeaves(t, d))
  BY DEF VllLeavesNothing
<1>1. PICK t \in Task : d \in dirty[t]
  BY DEF IInv, Accountable
<1>2. result[t] # "idle"
  BY <1>1 DEF IInv, TaskOK
<1>3. CASE Running(t)
  BY <1>1, <1>3 DEF LeftByDesign
<1>4. CASE Ended(t)
  BY <1>1, <1>4 DEF IInv, TaskOK, Kept
<1>5. Running(t) \/ Ended(t)
  BY <1>2 DEF IInv, TypeOK, Running, Ended
<1> QED BY <1>3, <1>4, <1>5

\* A task keeps its course while others move: they can only clean its nodes.
LEMMA OthersKeep ==
  ASSUME NEW u \in Task, TaskOK(u), todo'[u] = todo[u], result'[u] = result[u],
         broke'[u] = broke[u], input'[u] = input[u], scope'[u] = scope[u],
         dirty'[u] \subseteq dirty[u]
  PROVE  TaskOK(u)'
<1>1. \A d : VllLeaves(u, d)' <=> VllLeaves(u, d)
  BY DEF VllLeaves, Creates, IsVll, BrokeResettingElsewhere
<1>2. \A d : Excused(u, d)' <=> Excused(u, d)
  BY <1>1 DEF Excused
<1>3. LeftByDesign(u)' <=> LeftByDesign(u)
  BY DEF LeftByDesign, Running
<1>4. OnCourse(u) => OnCourse(u)'
  BY FewerDirty DEF OnCourse
<1>5. Ending(u) => Ending(u)'
  BY <1>2 DEF Ending
<1>6. Kept(u) => Kept(u)'
  BY <1>1, <1>3 DEF Kept
<1> QED BY <1>4, <1>5, <1>6 DEF TaskOK, Running, Ended

\* A task that is rolling back at its end does nothing else.
LEMMA OnCourseIf ==
  ASSUME NEW t \in Task, TaskOK(t), Running(t), todo[t] # <<>>, This(t).call # "rollback"
  PROVE  OnCourse(t)
<1>1. \A x \in SUBSET Id : Head(<<Rollback(x)>>).call = "rollback"
  BY DEF Rollback, Call
<1> QED BY <1>1 DEF TaskOK, Ending, This

\* A call succeeds: it makes its nodes dirty if it touches them, and a commit
\* leaves none of its nodes dirty.
LEMMA GoOnKeeps ==
  ASSUME NEW t \in Task, TypeOK, TaskOK(t), Running(t), todo[t] # <<>>,
         This(t).call # "rollback", GoOn(t), dirty' \in [Task -> SUBSET Node],
         dirty'[t] \subseteq dirty[t] \cup (IF Touches(This(t)) THEN This(t).on ELSE {}),
         This(t).call = "commit" => dirty'[t] \cap This(t).on = {}
  PROVE  TaskOK(t)'
<1>1. OnCourse(t)
  BY OnCourseIf
<1>2. /\ todo'[t] = Tail(todo[t]) /\ input' = input /\ broke' = broke /\ scope' = scope
      /\ result'[t] = IF Len(todo[t]) = 1 THEN "COMPLETED" ELSE "running"
  BY DEF GoOn, TypeOK, Running
<1>3. /\ ProgramOK(input[t], scope[t], Tail(todo[t]), dirty'[t])
      /\ EndsOK(input[t], scope[t], Tail(todo[t]))
  BY <1>1, TailOK DEF OnCourse, This
<1>4. todo[t] \in Seq(Step) /\ Len(todo[t]) \in Nat \ {0} /\ This(t) = todo[t][1]
  BY DEF TypeOK, This
<1>5. Shape(scope[t], This(t))
  <2>1. 1 \in 1..Len(todo[t])
    BY <1>4
  <2> QED BY <1>1, <1>4, <2>1 DEF OnCourse, ProgramOK
<1>6. dirty'[t] \subseteq scope[t]
  BY <1>5 DEF Shape, TaskOK
<1>7. input[t] \in VllInput
  BY DEF TaskOK, Running
<1>8. CASE Len(todo[t]) = 1
  <2>1. LastOK(input[t], scope[t], This(t))
    BY <1>1, <1>4, <1>8 DEF OnCourse, EndsOK
  <2>2. result'[t] = "COMPLETED"
    BY <1>2, <1>8
  <2>3. dirty'[t] = {} \/ LeftByDesign(t)'
    BY <1>2, <1>6, <2>1, <2>2 DEF LastOK, LeftByDesign
  <2>4. Kept(t)'
    BY <2>3 DEF Kept
  <2> QED BY <1>2, <1>6, <1>7, <2>2, <2>4 DEF TaskOK, Running, Ended
<1>9. CASE Len(todo[t]) # 1
  <2>1. result'[t] = "running"
    BY <1>2, <1>9
  <2>2. OnCourse(t)'
    BY <1>2, <1>3 DEF OnCourse
  <2> QED BY <1>2, <1>6, <1>7, <2>1, <2>2 DEF TaskOK, Running, Ended
<1> QED BY <1>8, <1>9
-----------------------------------------------------------------------------
(* The datastores *)

Stores == [Node -> [Object -> Value \cup {None}]]

\* What the three ways to change a store do to each node.
LEMMA StoreFacts ==
  ASSUME NEW store \in Stores, NEW from \in Stores, NEW s \in Step, NEW ids
  PROVE  /\ Written(store, s) \in Stores /\ Copied(store, from, ids) \in Stores
         /\ Reread(store, ids) \in Stores
         /\ \A d \in Node : d \notin s.on => Written(store, s)[d] = store[d]
         /\ \A d \in Node : d \notin ids => /\ Copied(store, from, ids)[d] = store[d]
                                            /\ Reread(store, ids)[d] = store[d]
         /\ \A d \in Node : d \in ids => Copied(store, from, ids)[d] = from[d]
<1>1. s.value \in Value \cup {None}
  BY DEF Step
<1>2. Written(store, s) \in Stores
  <2>1. \A d \in Node : [store[d] EXCEPT ![s.object] = s.value] \in [Object -> Value \cup {None}]
    BY <1>1 DEF Stores
  <2> QED BY <2>1 DEF Written, Stores
<1>3. Copied(store, from, ids) \in Stores
  BY DEF Copied, Stores
<1>4. Reread(store, ids) \in Stores
  <2>1. \A d \in Node, o \in Object : store[d][o] \in Value \cup {None}
                                      /\ Initial[d][o] \in Value \cup {None}
    BY InitialAssumption DEF Stores
  <2>2. \A d \in Node :
          [o \in Object |-> IF store[d][o] = None /\ o[1] = "interface"
                            THEN Initial[d][o] ELSE store[d][o]] \in [Object -> Value \cup {None}]
    BY <2>1
  <2> QED BY <2>2 DEF Reread, Stores
<1>5. \A d \in Node : d \notin s.on => Written(store, s)[d] = store[d]
  BY DEF Written
<1>6. \A d \in Node : d \notin ids => /\ Copied(store, from, ids)[d] = store[d]
                                      /\ Reread(store, ids)[d] = store[d]
  BY DEF Copied, Reread
<1>7. \A d \in Node : d \in ids => Copied(store, from, ids)[d] = from[d]
  BY DEF Copied
<1> QED BY <1>2, <1>3, <1>4, <1>5, <1>6, <1>7

\* The parts of TypeOK: the stores, the tasks, and what is counted.
StoresOK == intent \in Stores /\ actual \in Stores
TasksOK ==
  /\ todo \in [Task -> Seq(Step)] /\ broke \in [Task -> Seq(Step)]
  /\ result \in [Task -> {"idle", "running", "COMPLETED", "FAILED", "LOST"}]
  /\ scope \in [Task -> SUBSET Id] /\ dirty \in [Task -> SUBSET Node]

\* TypeOK in parts.
LEMMA TypeParts ==
  TypeOK <=> StoresOK /\ TasksOK /\ faults \in 0..MaxFaults /\ disturbed \subseteq Task
BY DEF TypeOK, StoresOK, TasksOK, Stores
\* The same after a step.
LEMMA TypePartsNext ==
  StoresOK' /\ TasksOK' /\ faults' \in 0..MaxFaults /\ disturbed' \subseteq Task => TypeOK'
BY DEF TypeOK, StoresOK, TasksOK, Stores

\* The step of a task that is at one of its calls.
LEMMA ThisOK ==
  ASSUME TypeOK, NEW t \in Task, todo[t] # <<>>
  PROVE  /\ todo[t] \in Seq(Step) /\ This(t) \in Step /\ Tail(todo[t]) \in Seq(Step)
         /\ This(t).on \in SUBSET Id /\ This(t).undo \in SUBSET Id
<1>1. todo[t] \in Seq(Step)
  BY DEF TypeOK
<1>2. This(t) \in Step /\ Tail(todo[t]) \in Seq(Step)
  BY <1>1 DEF This
<1>3. \A s \in Step : s.on \in SUBSET Id /\ s.undo \in SUBSET Id
  BY DEF Step
<1> QED BY <1>1, <1>2, <1>3

\* Nothing is forgotten of a node by a step that leaves both its stores, and
\* takes nobody's changes off it.
LEMMA AccountKept ==
  ASSUME Accountable, NEW d \in Node, intent'[d] = intent[d], actual'[d] = actual[d],
         \A t \in Task : d \in dirty[t] => d \in dirty'[t]
  PROVE  Pending(d)' => \E t \in Task : d \in dirty'[t]
BY DEF Accountable, Pending

\* A call that succeeds keeps the types of the task.
LEMMA GoOnTyped ==
  ASSUME TypeOK, NEW t \in Task, todo[t] # <<>>, GoOn(t), dirty' \in [Task -> SUBSET Node]
  PROVE  TasksOK' /\ disturbed' \subseteq Task
<1>1. Tail(todo[t]) \in Seq(Step)
  BY ThisOK
<1> QED BY <1>1 DEF GoOn, TypeOK, TasksOK

\* A call that succeeds.
LEMMA GoOnInv ==
  ASSUME IInv, NEW t \in Task, Running(t), todo[t] # <<>>, This(t).call # "rollback", GoOn(t),
         dirty' \in [Task -> SUBSET Node], StoresOK', faults' = faults, Accountable',
         \A u \in Task \ {t} : dirty'[u] \subseteq dirty[u],
         dirty'[t] \subseteq dirty[t] \cup (IF Touches(This(t)) THEN This(t).on ELSE {}),
         This(t).call = "commit" => dirty'[t] \cap This(t).on = {}
  PROVE  IInv'
<1>1. TypeOK'
  BY GoOnTyped, TypeParts, TypePartsNext DEF IInv
<1>2. TaskOK(t)'
  BY GoOnKeeps DEF IInv
<1>3. ASSUME NEW u \in Task \ {t} PROVE TaskOK(u)'
  <2>1. /\ todo'[u] = todo[u] /\ result'[u] = result[u] /\ broke'[u] = broke[u]
        /\ input'[u] = input[u] /\ scope'[u] = scope[u]
    BY DEF GoOn, IInv, TypeOK
  <2> QED BY <2>1, OthersKeep DEF IInv
<1>4. input' = input
  BY DEF GoOn
<1> QED BY <1>1, <1>2, <1>3, <1>4 DEF IInv

\* GoOn leaves the counter of faults to the call.
LEMMA CallInv ==
  ASSUME IInv, NEW t \in Task,
         ReadData(t) \/ WriteData(t) \/ CommitData(t) \/ SyncData(t) \/ DryRunData(t)
  PROVE  IInv'
<1>1. /\ Running(t) /\ todo[t] # <<>> /\ GoOn(t) /\ faults' = faults
      /\ This(t).call # "rollback" /\ This(t).on \subseteq Node
  BY DEF ReadData, WriteData, CommitData, SyncData, DryRunData, Doing, GoOn, Reachable
<1>2. /\ StoresOK /\ dirty \in [Task -> SUBSET Node] /\ Accountable
      /\ This(t) \in Step /\ This(t).on \in SUBSET Id
  BY <1>1, ThisOK, TypeParts DEF IInv, TasksOK
<1>3. CASE ReadData(t) \/ DryRunData(t)
  <2>1. UNCHANGED <<intent, actual, dirty>> /\ This(t).call # "commit"
    BY <1>3 DEF ReadData, DryRunData, Doing
  <2> QED BY <1>1, <1>2, <2>1, GoOnInv DEF StoresOK, Accountable, Pending
<1>4. CASE WriteData(t)
  <2>1. /\ intent' = Written(intent, This(t)) /\ actual' = actual
        /\ dirty' = [dirty EXCEPT ![t] = @ \cup This(t).on] /\ This(t).call = "write"
    BY <1>4 DEF WriteData, Doing
  <2>2. StoresOK'
    BY <1>2, <2>1, StoreFacts DEF StoresOK
  <2>3. /\ dirty' \in [Task -> SUBSET Node] /\ dirty'[t] = dirty[t] \cup This(t).on
        /\ \A u \in Task \ {t} : dirty'[u] = dirty[u]
    BY <1>1, <1>2, <2>1
  <2>4. Accountable'
    <3>1. ASSUME NEW d \in Node, d \notin This(t).on
          PROVE  Pending(d)' => \E u \in Task : d \in dirty'[u]
      <4>1. intent'[d] = intent[d]
        BY <2>1, <3>1 DEF Written
      <4> QED BY <1>2, <2>1, <2>3, <4>1, AccountKept
    <3> QED BY <2>3, <3>1 DEF Accountable
  <2> QED BY <1>1, <2>1, <2>2, <2>3, <2>4, GoOnInv DEF Touches
<1>5. CASE SyncData(t)
  <2>1. /\ actual' = Reread(actual, This(t).on) /\ intent' = intent
        /\ dirty' = [dirty EXCEPT ![t] = @ \cup This(t).on] /\ This(t).call = "sync"
    BY <1>5 DEF SyncData, Doing
  <2>2. StoresOK'
    BY <1>2, <2>1, StoreFacts DEF StoresOK
  <2>3. /\ dirty' \in [Task -> SUBSET Node] /\ dirty'[t] = dirty[t] \cup This(t).on
        /\ \A u \in Task \ {t} : dirty'[u] = dirty[u]
    BY <1>1, <1>2, <2>1
  <2>4. Accountable'
    <3>1. ASSUME NEW d \in Node, d \notin This(t).on
          PROVE  Pending(d)' => \E u \in Task : d \in dirty'[u]
      <4>1. actual'[d] = actual[d]
        BY <1>2, <2>1, <3>1, StoreFacts DEF StoresOK
      <4> QED BY <1>2, <2>1, <2>3, <4>1, AccountKept
    <3> QED BY <2>3, <3>1 DEF Accountable
  <2> QED BY <1>1, <2>1, <2>2, <2>3, <2>4, GoOnInv DEF Touches
<1>6. CASE CommitData(t)
  <2>1. /\ actual' = Copied(actual, intent, This(t).on) /\ intent' = intent
        /\ dirty' = Cleaned(This(t).on)
    BY <1>6 DEF CommitData
  <2>2. StoresOK'
    BY <1>2, <2>1, StoreFacts DEF StoresOK
  <2>3. \A u \in Task : dirty'[u] = dirty[u] \ This(t).on
    BY <2>1 DEF Cleaned
  <2>4. dirty' \in [Task -> SUBSET Node]
    BY <1>2, <2>1 DEF Cleaned
  <2>5. Accountable'
    <3>1. ASSUME NEW d \in Node, d \notin This(t).on
          PROVE  Pending(d)' => \E u \in Task : d \in dirty'[u]
      <4>1. actual'[d] = actual[d]
        BY <1>2, <2>1, <3>1, StoreFacts DEF StoresOK
      <4> QED BY <1>2, <2>1, <2>3, <3>1, <4>1, AccountKept
    <3>2. ASSUME NEW d \in Node, d \in This(t).on PROVE ~Pending(d)'
      BY <1>2, <2>1, <3>2, StoreFacts DEF StoresOK, Pending
    <3> QED BY <3>1, <3>2 DEF Accountable
  <2> QED BY <1>1, <2>2, <2>3, <2>4, <2>5, GoOnInv
<1> QED BY <1>3, <1>4, <1>5, <1>6
-----------------------------------------------------------------------------
(* Calls that fail *)

\* The reasons of a step that may fail are those the property lists.
LEMMA LeaveIsExcused ==
  ASSUME IInv, NEW t \in Task, Running(t), NEW s \in Step, NEW d \in dirty[t],
         MayLeave(input[t], s, d), s.call # "rollback",
         input' = input, scope' = scope, broke' = [broke EXCEPT ![t] = Append(@, s)]
  PROVE  Excused(t, d)'
<1>1. /\ broke[t] \in Seq(Step) /\ Len(broke[t]) \in Nat
      /\ broke'[t] = Append(broke[t], s)
  BY DEF IInv, TypeOK
<1>2. /\ Len(broke[t]) + 1 \in DOMAIN broke'[t]
      /\ broke'[t][Len(broke[t]) + 1] = s
  BY <1>1
<1>3. Creates(t)' <=> input[t].do = "create"
  <2>1. input[t] \in VllInput /\ scope[t] # {}
    BY DEF IInv, TaskOK, Running
  <2>2. input[t] # None /\ input[t].service = "VLL"
    BY <2>1, VllInputAssumption
  <2> QED BY <2>1, <2>2 DEF Creates, IsVll
<1>4. CASE s.call = "dryrun"
  BY <1>2, <1>4 DEF Excused
<1>5. CASE input[t].do \in {"write", "erase"}
  BY <1>5 DEF Excused
<1>6. CASE /\ s.undo = s.on /\ d \notin s.on
           /\ input[t].do = "create" /\ d = input[t].devices[1].id
           /\ input[t].devices[1].interface_reset
  <2>1. BrokeResettingElsewhere(t, d)'
    BY <1>2, <1>6 DEF BrokeResettingElsewhere
  <2> QED BY <1>3, <1>6, <2>1 DEF Excused, VllLeaves
<1> QED BY <1>4, <1>5, <1>6 DEF MayLeave

\* What a call that fails leaves alone.
LEMMA FailFrame ==
  ASSUME TypeOK, NEW t \in Task, CallFails(t)
  PROVE  /\ Running(t) /\ todo[t] # <<>> /\ This(t).call # "rollback"
         /\ UNCHANGED <<intent, actual, input, scope, dirty, disturbed>>
         /\ faults' \in 0..MaxFaults
<1>1. faults \in 0..MaxFaults /\ MaxFaults \in Nat
  BY BoundsAssumption DEF TypeOK
<1> QED BY <1>1 DEF CallFails, Fault

\* The task in which a call fails that is followed by the rollback of all that
\* the call may leave, by the next step, or by the one after it.
LEMMA FailCases ==
  ASSUME TypeOK, NEW t \in Task, CallFails(t), Shape(scope[t], This(t))
  PROVE  \/ /\ This(t).fails = "abort"
            /\ todo' = [todo EXCEPT ![t] = <<Rollback(This(t).undo)>>]
            /\ broke' = [broke EXCEPT ![t] = Append(@, This(t))]
            /\ result' = result
         \/ /\ This(t).fails = "ignore"
            /\ todo' = [todo EXCEPT ![t] = Tail(todo[t])]
            /\ result' = IF Tail(todo[t]) = <<>>
                         THEN [result EXCEPT ![t] = "COMPLETED"] ELSE result
            /\ broke' = broke
         \/ /\ This(t).fails = "skip"
            /\ todo' = [todo EXCEPT ![t] = Tail(Tail(todo[t]))]
            /\ result' = result /\ broke' = broke
<1>1. This(t).fails \in {"abort", "ignore", "skip"}
  BY DEF Shape
<1> QED BY <1>1 DEF CallFails

\* A program whose tail is empty has one step.
LEMMA LastStep ==
  ASSUME NEW p \in Seq(Step), p # <<>> PROVE Tail(p) = <<>> => Len(p) = 1
<1>1. Len(p) \in Nat \ {0} /\ Len(Tail(p)) = Len(p) - 1 /\ Tail(p) \in Seq(Step)
  OBVIOUS
<1> DEFINE q == Tail(p)
<1>2. q \in Seq(Step) /\ Len(q) = Len(p) - 1
  BY <1>1
<1> HIDE DEF q
<1>3. q = <<>> => Len(q) = 0
  BY <1>2
<1>4. \A n \in Nat : \A k : k = n - 1 /\ k = 0 => n = 1
  OBVIOUS
<1>5. q = <<>> => Len(p) = 1
  <2>1. Len(p) \in Nat /\ Len(q) = Len(p) - 1 /\ (q = <<>> => Len(q) = 0)
    BY <1>1, <1>2, <1>3
  <2> QED BY <1>4, <2>1, Zenon
<1> QED BY <1>5 DEF q

\* A call that fails keeps the invariant.
LEMMA CallFailsInv ==
  ASSUME IInv, NEW t \in Task, CallFails(t) PROVE IInv'
<1>1. /\ Running(t) /\ todo[t] # <<>> /\ This(t).call # "rollback"
      /\ UNCHANGED <<intent, actual, input, scope, dirty, disturbed>>
      /\ faults' \in 0..MaxFaults
  BY FailFrame DEF IInv
<1>2. OnCourse(t)
  BY <1>1, OnCourseIf DEF IInv
<1>3. /\ todo[t] \in Seq(Step) /\ Len(todo[t]) \in Nat \ {0} /\ This(t) = todo[t][1]
      /\ This(t) \in Step /\ Tail(todo[t]) \in Seq(Step) /\ This(t).undo \in SUBSET Id
  <2>1. todo[t] \in Seq(Step) /\ This(t) \in Step /\ Tail(todo[t]) \in Seq(Step)
        /\ This(t).undo \in SUBSET Id
    BY <1>1, ThisOK DEF IInv
  <2> QED BY <1>1, <2>1 DEF This
<1>4. /\ Shape(scope[t], This(t))
      /\ Safe(input[t], scope[t], This(t)) \/ dirty[t] = {}
  <2>1. 1 \in 1..Len(todo[t])
    BY <1>3
  <2> QED BY <1>2, <1>3, <2>1 DEF OnCourse, ProgramOK
<1>5. TasksOK /\ StoresOK /\ Accountable /\ disturbed \subseteq Task
      /\ dirty[t] \subseteq scope[t] /\ input[t] \in VllInput /\ result[t] = "running"
  BY <1>1, TypeParts DEF IInv, TaskOK, Running
<1>6. StoresOK' /\ Accountable' /\ disturbed' \subseteq Task
  BY <1>1, <1>5 DEF StoresOK, Accountable, Pending
<1>7. ASSUME TasksOK', TaskOK(t)',
             \A u \in Task \ {t} : /\ todo'[u] = todo[u] /\ broke'[u] = broke[u]
                                   /\ result'[u] = result[u]
      PROVE  IInv'
  <2>1. TypeOK'
    BY <1>1, <1>6, <1>7, TypePartsNext
  <2>2. ASSUME NEW u \in Task \ {t} PROVE TaskOK(u)'
    BY <1>1, <1>7, OthersKeep DEF IInv
  <2> QED BY <1>1, <1>6, <1>7, <2>1, <2>2 DEF IInv
<1>8. CASE /\ This(t).fails = "abort"
           /\ todo' = [todo EXCEPT ![t] = <<Rollback(This(t).undo)>>]
           /\ broke' = [broke EXCEPT ![t] = Append(@, This(t))]
           /\ result' = result
  <2>1. Rollback(This(t).undo) \in Step
    BY <1>3, CallFacts DEF Rollback
  <2>2. TasksOK'
    <3>1. <<Rollback(This(t).undo)>> \in Seq(Step) /\ Append(broke[t], This(t)) \in Seq(Step)
      BY <1>3, <1>5, <2>1 DEF TasksOK
    <3> QED BY <1>1, <1>5, <1>8, <3>1 DEF TasksOK
  <2>3. ASSUME NEW d \in dirty[t] PROVE d \in This(t).undo \/ Excused(t, d)'
    <3>1. d \in Restores(This(t)) \/ MayLeave(input[t], This(t), d)
      BY <1>4, <1>5, <1>8 DEF Safe
    <3> QED BY <1>1, <1>3, <1>8, <3>1, LeaveIsExcused DEF Restores
  <2>4. todo'[t] = <<Rollback(This(t).undo)>> /\ result'[t] = "running"
    BY <1>5, <1>8 DEF TasksOK
  <2>5. Ending(t)'
    <3>1. This(t).undo \in SUBSET Id /\ \A d \in dirty'[t] : d \in This(t).undo \/ Excused(t, d)'
      BY <1>1, <1>3, <2>3
    <3>2. PICK x \in SUBSET Id : x = This(t).undo
      BY <3>1
    <3>3. todo'[t] = <<Rollback(x)>> /\ \A d \in dirty'[t] : d \in x \/ Excused(t, d)'
      BY <2>4, <3>1, <3>2
    <3> QED BY <3>3 DEF Ending
  <2>6. TaskOK(t)'
    BY <1>1, <1>5, <2>4, <2>5 DEF TaskOK, Running, Ended
  <2> QED BY <1>5, <1>7, <1>8, <2>2, <2>6 DEF TasksOK
<1>9. CASE /\ This(t).fails = "ignore"
           /\ todo' = [todo EXCEPT ![t] = Tail(todo[t])]
           /\ result' = IF Tail(todo[t]) = <<>>
                        THEN [result EXCEPT ![t] = "COMPLETED"] ELSE result
           /\ broke' = broke
  <2>1. Tail(todo[t]) # <<>>
    <3>1. SUFFICES ASSUME Tail(todo[t]) = <<>> PROVE FALSE
      OBVIOUS
    <3>2. Len(todo[t]) = 1
      BY <1>1, <1>3, <3>1, LastStep
    <3> QED BY <1>1, <1>2, <1>3, <1>9, <3>2 DEF OnCourse, EndsOK, LastOK
  <2>2. TasksOK'
    BY <1>1, <1>3, <1>5, <1>9, <2>1 DEF TasksOK
  <2>3. todo'[t] = Tail(todo[t]) /\ result'[t] = "running"
    BY <1>5, <1>9, <2>1 DEF TasksOK
  <2>4. OnCourse(t)'
    <3>1. /\ ProgramOK(input[t], scope[t], Tail(todo[t]), dirty[t])
          /\ EndsOK(input[t], scope[t], Tail(todo[t]))
      BY <1>1, <1>2, TailOK DEF OnCourse
    <3> QED BY <1>1, <2>3, <3>1 DEF OnCourse
  <2>5. TaskOK(t)'
    BY <1>1, <1>5, <2>3, <2>4 DEF TaskOK, Running, Ended
  <2> QED BY <1>5, <1>7, <1>9, <2>1, <2>2, <2>5 DEF TasksOK
<1>10. CASE /\ This(t).fails = "skip"
            /\ todo' = [todo EXCEPT ![t] = Tail(Tail(todo[t]))]
            /\ result' = result /\ broke' = broke
  <2>1. Tail(todo[t]) # <<>>
    <3>1. SUFFICES ASSUME Tail(todo[t]) = <<>> PROVE FALSE
      OBVIOUS
    <3>2. Len(todo[t]) = 1
      BY <1>1, <1>3, <3>1, LastStep
    <3> QED BY <1>1, <1>2, <1>3, <1>10, <3>2 DEF OnCourse, EndsOK, LastOK
  <2>2. Tail(Tail(todo[t])) \in Seq(Step)
    BY <1>3, <2>1
  <2>3. TasksOK'
    BY <1>1, <1>5, <1>10, <2>2 DEF TasksOK
  <2>4. todo'[t] = Tail(Tail(todo[t])) /\ result'[t] = "running"
    BY <1>5, <1>10 DEF TasksOK
  <2>5. OnCourse(t)'
    <3> DEFINE rest == Tail(todo[t])
    <3>1. /\ ProgramOK(input[t], scope[t], rest, dirty[t])
          /\ EndsOK(input[t], scope[t], rest)
      BY <1>1, <1>2, TailOK DEF OnCourse
    <3> HIDE DEF rest
    <3>2. rest # <<>>
      BY <2>1 DEF rest
    <3>3. /\ ProgramOK(input[t], scope[t], Tail(rest), dirty[t])
          /\ EndsOK(input[t], scope[t], Tail(rest))
      BY <3>1, <3>2, TailOK
    <3> QED BY <1>1, <2>4, <3>3 DEF OnCourse, rest
  <2>6. TaskOK(t)'
    BY <1>1, <1>5, <2>4, <2>5 DEF TaskOK, Running, Ended
  <2> QED BY <1>5, <1>7, <1>10, <2>3, <2>6 DEF TasksOK
<1> QED BY <1>4, <1>8, <1>9, <1>10, FailCases DEF IInv
-----------------------------------------------------------------------------
(* Tasks that end or begin *)

\* What a rollback at the head of a program does not reset may be left.
LEMMA RollbackLeaves ==
  ASSUME IInv, NEW t \in Task, Doing(t, "rollback"), NEW d \in dirty[t], d \notin This(t).on
  PROVE  Excused(t, d)
<1>1. Running(t) /\ todo[t] # <<>> /\ This(t).call = "rollback"
  BY DEF Doing
<1>2. input[t] \in VllInput /\ d \in scope[t] /\ scope[t] # {}
  BY <1>1 DEF IInv, TaskOK, Running
<1>3. CASE OnCourse(t)
  <2>1. todo[t] \in Seq(Step) /\ 1 \in 1..Len(todo[t]) /\ This(t) = todo[t][1]
    <3>1. todo[t] \in Seq(Step)
      BY <1>1, ThisOK DEF IInv
    <3> QED BY <1>1, <3>1 DEF This
  <2>2. Shape(scope[t], This(t)) /\ Safe(input[t], scope[t], This(t))
    BY <1>3, <2>1 DEF OnCourse, ProgramOK
  <2>3. MayLeave(input[t], This(t), d)
    BY <1>1, <1>2, <2>2 DEF Safe, Shape, Restores
  <2>4. CASE input[t].do \in {"write", "erase"}
    BY <2>4 DEF Excused
  <2>5. CASE input[t].do = "create" /\ ~IsLocal(input[t]) /\ ~Remote(input[t])
    <3>1. input[t] # None /\ input[t].service = "VLL"
      BY <1>2, VllInputAssumption
    <3> QED BY <1>2, <2>5, <3>1 DEF Excused, VllLeaves, Creates, IsVll
  <2> QED BY <1>1, <2>3, <2>4, <2>5 DEF MayLeave
<1>4. CASE Ending(t)
  <2>1. PICK x \in SUBSET Id :
          todo[t] = <<Rollback(x)>> /\ \A e \in dirty[t] : e \in x \/ Excused(t, e)
    BY <1>4 DEF Ending
  <2>2. Rollback(x).on = x
    BY CallFacts DEF Rollback
  <2>3. This(t) = Rollback(x)
    BY <2>1 DEF This
  <2> QED BY <2>1, <2>2, <2>3
<1> QED BY <1>1, <1>3, <1>4 DEF IInv, TaskOK

\* The rollback that ends a task keeps the invariant, answered or not.
LEMMA RollBackInv ==
  ASSUME IInv, NEW t \in Task, RollBack(t) PROVE IInv'
<1>1. /\ Running(t) /\ todo[t] # <<>> /\ This(t).call = "rollback" /\ Doing(t, "rollback")
      /\ todo' = [todo EXCEPT ![t] = <<>>] /\ result' = [result EXCEPT ![t] = "FAILED"]
      /\ UNCHANGED <<actual, input, scope, disturbed>>
  BY DEF RollBack, Doing
<1>2. /\ StoresOK /\ TasksOK /\ disturbed \subseteq Task /\ faults \in 0..MaxFaults
      /\ Accountable /\ This(t) \in Step /\ MaxFaults \in Nat
  BY <1>1, ThisOK, TypeParts, BoundsAssumption DEF IInv
<1>3. todo'[t] = <<>> /\ result'[t] = "FAILED"
  BY <1>1, <1>2 DEF TasksOK
<1>4. <<>> \in Seq(Step)
  OBVIOUS
<1>5. ASSUME StoresOK', faults' \in 0..MaxFaults, broke' \in [Task -> Seq(Step)],
             dirty' \in [Task -> SUBSET Node], Accountable', Kept(t)',
             \A u \in Task : dirty'[u] \subseteq dirty[u],
             \A u \in Task \ {t} : broke'[u] = broke[u]
      PROVE  IInv'
  <2>1. TasksOK'
    BY <1>1, <1>2, <1>4, <1>5 DEF TasksOK
  <2>2. TypeOK'
    BY <1>1, <1>2, <1>5, <2>1, TypePartsNext
  <2>3. TaskOK(t)'
    <3>1. dirty[t] \subseteq scope[t] /\ input[t] \in VllInput
      BY <1>1 DEF IInv, TaskOK, Running
    <3> QED BY <1>1, <1>3, <1>5, <3>1 DEF TaskOK, Running, Ended
  <2>4. ASSUME NEW u \in Task \ {t} PROVE TaskOK(u)'
    <3>1. todo'[u] = todo[u] /\ result'[u] = result[u]
      BY <1>1, <1>2 DEF TasksOK
    <3> QED BY <1>1, <1>5, <3>1, OthersKeep DEF IInv
  <2> QED BY <1>1, <1>5, <2>2, <2>3, <2>4 DEF IInv
<1>6. CASE /\ intent' = Copied(intent, actual, This(t).on)
           /\ dirty' = Cleaned(This(t).on) /\ UNCHANGED <<broke, faults>>
  <2>1. StoresOK'
    BY <1>1, <1>2, <1>6, StoreFacts DEF StoresOK
  <2>2. \A u \in Task : dirty'[u] = dirty[u] \ This(t).on
    BY <1>6 DEF Cleaned
  <2>3. dirty' \in [Task -> SUBSET Node]
    BY <1>2, <1>6 DEF Cleaned, TasksOK
  <2>4. Accountable'
    <3>1. ASSUME NEW d \in Node, d \notin This(t).on
          PROVE  Pending(d)' => \E u \in Task : d \in dirty'[u]
      <4>1. intent'[d] = intent[d]
        BY <1>6, <3>1 DEF Copied
      <4> QED BY <1>1, <1>2, <2>2, <3>1, <4>1, AccountKept
    <3>2. ASSUME NEW d \in Node, d \in This(t).on PROVE ~Pending(d)'
      BY <1>1, <1>6, <3>2 DEF Copied, Pending
    <3> QED BY <3>1, <3>2 DEF Accountable
  <2>5. Kept(t)'
    <3>1. ASSUME NEW d \in dirty'[t] PROVE Excused(t, d)
      BY <1>1, <2>2, RollbackLeaves
    <3>2. \A d : Excused(t, d) => LeftByDesign(t)' \/ VllLeaves(t, d)'
      BY <1>1, <1>6 DEF Excused, LeftByDesign, VllLeaves, Creates, IsVll,
                        BrokeResettingElsewhere
    <3> QED BY <3>1, <3>2 DEF Kept
  <2> QED BY <1>2, <1>5, <1>6, <2>1, <2>2, <2>3, <2>4, <2>5 DEF TasksOK
<1>7. CASE /\ broke' = [broke EXCEPT ![t] = Append(@, This(t))]
           /\ UNCHANGED <<intent, dirty>> /\ (Fault \/ UNCHANGED faults)
  <2>1. StoresOK' /\ Accountable'
    BY <1>1, <1>2, <1>7 DEF StoresOK, Accountable, Pending
  <2>2. broke[t] \in Seq(Step) /\ broke'[t] = Append(broke[t], This(t))
    BY <1>2, <1>7 DEF TasksOK
  <2>3. broke' \in [Task -> Seq(Step)] /\ \A u \in Task \ {t} : broke'[u] = broke[u]
    <3>1. Append(broke[t], This(t)) \in Seq(Step)
      BY <1>2, <2>2
    <3> QED BY <1>2, <1>7, <3>1 DEF TasksOK
  <2>4. Kept(t)'
    <3>1. /\ Len(broke[t]) + 1 \in DOMAIN broke'[t]
          /\ broke'[t][Len(broke[t]) + 1] = This(t)
      BY <1>2, <2>2
    <3> QED BY <1>1, <3>1 DEF Kept, LeftByDesign
  <2>5. faults' \in 0..MaxFaults
    BY <1>2, <1>7 DEF Fault
  <2>6. dirty' \in [Task -> SUBSET Node] /\ \A u \in Task : dirty'[u] \subseteq dirty[u]
    BY <1>2, <1>7 DEF TasksOK
  <2> QED BY <1>5, <2>1, <2>3, <2>4, <2>5, <2>6
<1> QED BY <1>6, <1>7 DEF RollBack

\* The death of a worker keeps the invariant: its changes are left by design.
LEMMA WorkerDiesInv ==
  ASSUME IInv, NEW t \in Task, WorkerDies(t) PROVE IInv'
<1>1. /\ Running(t) /\ todo' = [todo EXCEPT ![t] = <<>>]
      /\ result' = [result EXCEPT ![t] = "LOST"]
      /\ UNCHANGED <<intent, actual, input, broke, scope, dirty, disturbed>> /\ Fault
  BY DEF WorkerDies
<1>2. /\ StoresOK /\ TasksOK /\ disturbed \subseteq Task /\ faults \in 0..MaxFaults
      /\ Accountable /\ MaxFaults \in Nat /\ dirty[t] \subseteq scope[t] /\ input[t] \in VllInput
  BY <1>1, TypeParts, BoundsAssumption DEF IInv, TaskOK, Running
<1>3. StoresOK' /\ Accountable'
  BY <1>1, <1>2 DEF StoresOK, Accountable, Pending
<1>4. <<>> \in Seq(Step)
  OBVIOUS
<1>5. TasksOK' /\ result'[t] = "LOST" /\ faults' \in 0..MaxFaults
  BY <1>1, <1>2, <1>4 DEF TasksOK, Fault
<1>6. TypeOK'
  BY <1>1, <1>2, <1>3, <1>5, TypePartsNext
<1>7. TaskOK(t)'
  BY <1>1, <1>2, <1>5 DEF TaskOK, Running, Ended, Kept, LeftByDesign
<1>8. ASSUME NEW u \in Task \ {t} PROVE TaskOK(u)'
  <2>1. todo'[u] = todo[u] /\ result'[u] = result[u]
    BY <1>1, <1>2 DEF TasksOK
  <2> QED BY <1>1, <2>1, OthersKeep DEF IInv
<1> QED BY <1>1, <1>3, <1>6, <1>7, <1>8 DEF IInv

\* A task begins: nothing of it is dirty, and its program rolls back what it
\* changes.
LEMMA BeginInv ==
  ASSUME IInv, NEW t \in Task, MayBegin(t), NEW in \in VllInput, NEW ids \in SUBSET Id,
         NEW p, ProgramOK(in, ids, p, {}), EndsOK(in, ids, p), Begin(t, in, p, ids)
  PROVE  IInv'
<1>1. /\ input' = [input EXCEPT ![t] = in] /\ todo' = [todo EXCEPT ![t] = p]
      /\ result' = [result EXCEPT ![t] = "running"] /\ scope' = [scope EXCEPT ![t] = ids]
      /\ UNCHANGED <<intent, actual, broke, faults, dirty>>
  BY DEF Begin
<1>2. /\ StoresOK /\ TasksOK /\ disturbed \subseteq Task /\ faults \in 0..MaxFaults
      /\ Accountable /\ dirty[t] = {} /\ input \in [Task -> VllInput \cup {None}]
  BY TypeParts DEF IInv, TaskOK, MayBegin
<1>3. StoresOK' /\ Accountable' /\ faults' \in 0..MaxFaults
  BY <1>1, <1>2 DEF StoresOK, Accountable, Pending
<1>4. disturbed' \subseteq Task
  BY <1>2 DEF Begin
<1>5. p \in Seq(Step)
  BY DEF ProgramOK
<1>6. /\ TasksOK' /\ input' \in [Task -> VllInput \cup {None}] /\ input'[t] = in
      /\ todo'[t] = p /\ result'[t] = "running" /\ scope'[t] = ids /\ dirty'[t] = {}
  BY <1>1, <1>2, <1>5 DEF TasksOK
<1>7. TypeOK'
  BY <1>3, <1>4, <1>6, TypePartsNext
<1>8. OnCourse(t)'
  BY <1>6 DEF OnCourse
<1>9. TaskOK(t)'
  BY <1>6, <1>8 DEF TaskOK, Running, Ended
<1>10. ASSUME NEW u \in Task \ {t} PROVE TaskOK(u)'
  <2>1. /\ todo'[u] = todo[u] /\ result'[u] = result[u] /\ scope'[u] = scope[u]
        /\ input'[u] = input[u]
    BY <1>1, <1>2 DEF TasksOK
  <2> QED BY <1>1, <2>1, OthersKeep DEF IInv
<1> QED BY <1>3, <1>6, <1>7, <1>9, <1>10 DEF IInv

\* Every way to start a task keeps the invariant.
LEMMA VllStartInv ==
  ASSUME IInv, NEW t \in Task, VllStart(t) PROVE IInv'
<1>1. MayBegin(t)
  BY DEF VllStart
<1>2. ASSUME NEW in \in VllInput, Begin(t, in, <<Raise>>, {}) PROVE IInv'
  <2>1. {} \in SUBSET Id
    OBVIOUS
  <2> QED BY <1>1, <1>2, <2>1, RaiseOK, BeginInv
<1>3. CASE StartCreateVll(t)
  <2>1. PICK in \in VllInput :
          /\ in.do = "create"
          /\ IF Parses(in) THEN Begin(t, in, CreateVllTask(in), EndIds(in))
                           ELSE Begin(t, in, <<Raise>>, {})
    BY <1>3 DEF StartCreateVll
  <2>2. CASE Parses(in)
    <3>1. /\ ProgramOK(in, EndIds(in), CreateVllTask(in), {})
          /\ EndsOK(in, EndIds(in), CreateVllTask(in))
      BY <2>1, <2>2, CreateTaskOK
    <3>2. EndIds(in) \in SUBSET Id
      BY <2>1, <2>2, InputEnds
    <3> QED BY <1>1, <2>1, <2>2, <3>1, <3>2, BeginInv
  <2> QED BY <1>2, <2>1, <2>2
<1>4. CASE StartDeleteVll(t)
  <2>1. PICK in \in VllInput :
          \/ Begin(t, in, <<Raise>>, {})
          \/ \E s \in FoundVll(in.id) :
               IF Parses(s) THEN Begin(t, in, DeleteVllTask(s, in.dryrun), EndIds(s))
                            ELSE Begin(t, in, <<Raise>>, {})
    BY <1>4 DEF StartDeleteVll
  <2>2. ASSUME NEW s, Parses(s), Begin(t, in, DeleteVllTask(s, in.dryrun), EndIds(s))
        PROVE  IInv'
    <3>1. in.dryrun \in BOOLEAN
      BY VllInputAssumption
    <3>2. /\ ProgramOK(in, EndIds(s), DeleteVllTask(s, in.dryrun), {})
          /\ EndsOK(in, EndIds(s), DeleteVllTask(s, in.dryrun))
          /\ EndIds(s) \in SUBSET Id
      BY <2>2, <3>1, DeleteTaskOK
    <3> QED BY <1>1, <2>2, <3>2, BeginInv
  <2> QED BY <1>2, <2>1, <2>2
<1>5. CASE StartWriteVll(t)
  <2>1. PICK in \in VllInput :
          /\ in.do \in {"write", "erase"}
          /\ IF ~Parses(in) THEN Begin(t, in, <<Raise>>, {})
             ELSE Begin(t, in, IF in.do = "write" THEN CreateVll(in, {}) ELSE DeleteVll(in, {}),
                        EndIds(in))
    BY <1>5 DEF StartWriteVll
  <2>2. CASE Parses(in)
    <3>1. in.do # "delete" /\ Undoes(in, EndIds(in), {})
      BY <2>1 DEF Undoes
    <3>2. EndIds(in) \in SUBSET Id
      BY <2>2, <3>1, InputEnds
    <3>3. CASE in.do = "write"
      <4>1. /\ AllSafe(in, EndIds(in), CreateVll(in, {}))
            /\ EndsOK(in, EndIds(in), CreateVll(in, {}))
        BY <2>2, <3>1, <3>3, CreateVllSafe
      <4>2. Begin(t, in, CreateVll(in, {}), EndIds(in))
        BY <2>1, <2>2, <3>3
      <4> QED BY <1>1, <3>2, <4>1, <4>2, SafeIsOK, BeginInv
    <3>4. CASE in.do # "write"
      <4>1. /\ AllSafe(in, EndIds(in), DeleteVll(in, {}))
            /\ EndsOK(in, EndIds(in), DeleteVll(in, {}))
        BY <2>1, <2>2, <3>1, DeleteVllSafe
      <4>2. Begin(t, in, DeleteVll(in, {}), EndIds(in))
        BY <2>1, <2>2, <3>4
      <4> QED BY <1>1, <3>2, <4>1, <4>2, SafeIsOK, BeginInv
    <3> QED BY <3>3, <3>4
  <2> QED BY <1>2, <2>1, <2>2
<1> QED BY <1>3, <1>4, <1>5 DEF VllStart
-----------------------------------------------------------------------------
(* The theorems *)

\* At first nothing is pending and no task has begun.
LEMMA InitIInv == Init => IInv
<1> SUFFICES ASSUME Init PROVE IInv
  OBVIOUS
<1>1. <<>> \in Seq(Step) /\ MaxFaults \in Nat
  BY BoundsAssumption
<1>2. StoresOK
  BY InitialAssumption DEF Init, StoresOK, Stores
<1>3. TasksOK /\ faults \in 0..MaxFaults /\ disturbed \subseteq Task
  BY <1>1 DEF Init, TasksOK
<1>4. ASSUME NEW t \in Task PROVE TaskOK(t)
  <2>1. result[t] = "idle" /\ dirty[t] = {}
    BY DEF Init
  <2> QED BY <2>1 DEF TaskOK, Running, Ended
<1>5. Accountable
  BY DEF Init, Accountable, Pending
<1>6. input \in [Task -> VllInput \cup {None}]
  BY DEF Init
<1> QED BY <1>2, <1>3, <1>4, <1>5, <1>6, TypeParts DEF IInv

\* The invariant is kept by every step.
LEMMA NextIInv == IInv /\ [VllNext]_vars => IInv'
<1> SUFFICES ASSUME IInv, [VllNext]_vars PROVE IInv'
  OBVIOUS
<1>1. CASE VllNext
  <2>1. PICK t \in Task : VllStart(t) \/ Advance(t) \/ WorkerDies(t)
    BY <1>1 DEF VllNext
  <2> QED BY <2>1, VllStartInv, WorkerDiesInv, CallInv, CallFailsInv, RollBackInv DEF Advance
<1>2. CASE UNCHANGED vars
  <2>1. UNCHANGED <<intent, actual, input, todo, result, broke, faults, scope, dirty, disturbed>>
    BY <1>2 DEF vars
  <2>2. TypeOK' /\ Accountable'
    BY <2>1 DEF IInv, TypeOK, Accountable, Pending
  <2>3. ASSUME NEW u \in Task PROVE TaskOK(u)'
    BY <2>1, OthersKeep DEF IInv
  <2> QED BY <2>1, <2>2, <2>3 DEF IInv
<1> QED BY <1>1, <1>2

\* The invariant of the tasks, from which the others follow.
THEOREM SpecIInv == VllSpec => []IInv
BY InitIInv, NextIInv, PTL DEF VllSpec

\* The variables keep their types, whatever the tasks are asked to write.
THEOREM SpecTypeOK == VllSpec => []TypeOK
<1>1. IInv => TypeOK
  BY DEF IInv
<1> QED BY <1>1, SpecIInv, PTL

\* Whichever calls fail, whenever the workers die and however the tasks
\* interleave, a change that a later commit of somebody else would carry to the
\* network is left in the intent of a node for one of the listed reasons only:
\* vll_service_worker rolls back every device it has touched, at every exit.
THEOREM SpecLeavesNothing == VllSpec => []VllLeavesNothing
BY InvLeavesNothing, SpecIInv, PTL
-----------------------------------------------------------------------------
(* Induction, and the recursive functions behind FlattenSeq and FoldLeft *)

\* Induction along 1..n: what holds wherever it holds below holds everywhere.
LEMMA Upwards ==
  ASSUME NEW n \in Nat, NEW T,
         \A m \in 1..n : (\A k \in 1..(m - 1) : k \in T) => m \in T
  PROVE  \A m \in 1..n : m \in T
<1> DEFINE Bad == {m \in 1..n : m \notin T}
<1> SUFFICES ASSUME Bad # {} PROVE FALSE
  OBVIOUS
<1>1. Bad \subseteq Nat
  OBVIOUS
<1>2. PICK m \in Bad : \A k \in Bad : <<k, m>> \notin OpToRel(<, Nat)
  BY <1>1, WFMin, NatLessThanWellFounded
<1>3. \A k \in Bad : ~(k < m)
  BY <1>1, <1>2 DEF OpToRel
<1>4. \A k \in 1..(m - 1) : k \in T
  BY <1>3
<1> QED BY <1>4

\* The same, with one step at a time.
LEMMA StepByStep ==
  ASSUME NEW n \in Nat, NEW T, 0 \in T, \A m \in 1..n : m - 1 \in T => m \in T
  PROVE  \A m \in 0..n : m \in T
<1>1. ASSUME NEW m \in 1..n, \A k \in 1..(m - 1) : k \in T PROVE m \in T
  <2>1. m - 1 = 0 \/ m - 1 \in 1..(m - 1)
    OBVIOUS
  <2> QED BY <1>1, <2>1
<1>2. \A m \in 1..n : m \in T
  BY <1>1, Upwards
<1>3. \A m \in 0..n : m = 0 \/ m \in 1..n
  OBVIOUS
<1> QED BY <1>2, <1>3

\* The largest number of an interval, with some of those below it.
LEMMA MaxOf == \A m \in Nat : \A s \in SUBSET (1..m) : m \in s => Max(s) = m
<1> SUFFICES ASSUME NEW m \in Nat, NEW s \in SUBSET (1..m), m \in s PROVE Max(s) = m
  OBVIOUS
<1>1. \A x \in s : x \in Nat /\ m >= x
  OBVIOUS
<1>2. \A x \in s : (\A y \in s : x >= y) => x = m
  BY <1>1
<1> QED BY <1>1, <1>2 DEF Max

\* One step of the folds that reading makes: what two nodes know of a VLL or of
\* a VPLS is merged, or what is in a set is kept.
Folded(how, set, acc, x) ==
  CASE how = "merge" -> Merge(acc, x)
    [] how = "vpls"  -> VplsMerge(acc, x)
    [] OTHER         -> IF x \in set THEN Append(acc, x) ELSE acc

\* FoldLeft is defined by a recursive function on the sets of positions.
Iterates(how, set, base, seq, n, g) ==
  g = [s \in SUBSET (1..n) |->
         IF s = {} THEN base ELSE Folded(how, set, g[s \ {Max(s)}], seq[Max(s)])]

\* There is one.
LEMMA FoldExists ==
  ASSUME NEW how, NEW set, NEW base, NEW seq, NEW n \in Nat
  PROVE  \E g : Iterates(how, set, base, seq, n, g)
<1> DEFINE F(a, x) == Folded(how, set, a, x)
           Def(m, g) == g = [s \in SUBSET (1..m) |->
                               IF s = {} THEN base ELSE F(g[s \ {Max(s)}], seq[Max(s)])]
           T == {m \in 0..n : \E g : Def(m, g)}
<1> HIDE DEF F
<1>1. 0 \in T
  <2> DEFINE g == [s \in SUBSET (1..0) |-> base]
  <2>1. \A s \in SUBSET (1..0) : s = {}
    OBVIOUS
  <2>2. Def(0, g)
    BY <2>1
  <2> QED BY <2>2
<1>2. ASSUME NEW m \in 1..n, m - 1 \in T PROVE m \in T
  <2>1. PICK g : Def(m - 1, g)
    BY <1>2
  <2> DEFINE h == [s \in SUBSET (1..m) |-> IF m \in s THEN F(g[s \ {m}], seq[m]) ELSE g[s]]
             H(s) == IF s = {} THEN base ELSE F(h[s \ {Max(s)}], seq[Max(s)])
  <2>2. ASSUME NEW s \in SUBSET (1..m) PROVE h[s] = H(s)
    <3>1. CASE m \in s
      <4>1. s \ {m} \in SUBSET (1..m) /\ m \notin s \ {m} /\ s # {} /\ Max(s) = m
        BY <3>1, MaxOf
      <4>2. h[s \ {m}] = g[s \ {m}] /\ h[s] = F(g[s \ {m}], seq[m])
        BY <3>1, <4>1
      <4> HIDE DEF h
      <4> QED BY <4>1, <4>2
    <3>2. CASE m \notin s
      <4> DEFINE x == Max(s)
      <4> HIDE DEF x
      <4>1. s \in SUBSET (1..(m - 1))
        <5>1. \A i \in s : i \in 1..m /\ i # m
          BY <3>2
        <5>2. \A i \in 1..m : i # m => i \in 1..(m - 1)
          OBVIOUS
        <5> QED BY <5>1, <5>2
      <4>2. s \ {x} \in SUBSET (1..m) /\ m \notin s \ {x}
        BY <3>2
      <4>3. h[s] = g[s] /\ h[s \ {x}] = g[s \ {x}]
        BY <3>2, <4>2
      <4>4. g[s] = IF s = {} THEN base ELSE F(g[s \ {x}], seq[x])
        BY <2>1, <4>1 DEF x
      <4> HIDE DEF h
      <4> QED BY <4>3, <4>4 DEF x
    <3> QED BY <3>1, <3>2
  <2>3. Def(m, h)
    <3>1. h = [s \in SUBSET (1..m) |-> h[s]]
      OBVIOUS
    <3> HIDE DEF h, H
    <3>2. h = [s \in SUBSET (1..m) |-> H(s)]
      BY <2>2, <3>1
    <3> QED BY <3>2 DEF H
  <2>4. m \in 0..n /\ \E u : Def(m, u)
    <3> HIDE DEF h, Def
    <3> QED BY <2>3
  <2> QED BY <2>4
<1>3. n \in T
  <2> HIDE DEF T
  <2>1. \A m \in 0..n : m \in T
    BY <1>1, <1>2, StepByStep
  <2> QED BY <2>1
<1> QED BY <1>3 DEF F, Iterates

\* What a fold makes of the first elements of a sequence, one after the other.
LEMMA FoldSteps ==
  ASSUME NEW how, NEW set, NEW base, NEW seq, NEW n \in Nat, NEW iter,
         Iterates(how, set, base, seq, n, iter)
  PROVE  /\ iter[1..0] = base
         /\ \A m \in 1..n : iter[1..m] = Folded(how, set, iter[1..(m - 1)], seq[m])
<1>1. iter[1..0] = base
  <2>1. 1..0 = {} /\ 1..0 \in SUBSET (1..n)
    OBVIOUS
  <2> QED BY <2>1 DEF Iterates
<1>2. ASSUME NEW m \in 1..n
      PROVE  iter[1..m] = Folded(how, set, iter[1..(m - 1)], seq[m])
  <2>1. 1..m \in SUBSET (1..n) /\ m \in 1..m /\ m \in Nat
    OBVIOUS
  <2>2. (1..m) \ {m} = 1..(m - 1)
    <3>1. \A i : i \in 1..m /\ i # m <=> i \in 1..(m - 1)
      OBVIOUS
    <3> QED BY <3>1
  <2>3. Max(1..m) = m
    BY <2>1, MaxOf
  <2> QED BY <2>1, <2>2, <2>3 DEF Iterates
<1> QED BY <1>1, <1>2

\* What the halves of a service are merged to.
MergeAll(first, rest) == FoldLeft(Merge, first, rest)

\* They are merged one after the other.
LEMMA MergeFold ==
  ASSUME NEW base, NEW S, NEW seq \in Seq(S)
  PROVE  \E f : /\ MergeAll(base, seq) = f[Len(seq)] /\ f[0] = base
                /\ \A m \in 1..Len(seq) : f[m] = Merge(f[m - 1], seq[m])
<1> DEFINE n == Len(seq)
           Def(g) == g = [s \in SUBSET (1..n) |->
                            IF s = {} THEN base ELSE Merge(g[s \ {Max(s)}], seq[Max(s)])]
           iter == CHOOSE g : Def(g)
<1>1. n \in Nat /\ DOMAIN seq = 1..n
  OBVIOUS
<1>2. \A a, x : Folded("merge", {}, a, x) = Merge(a, x)
  BY DEF Folded
<1>3. \A g : Def(g) <=> Iterates("merge", {}, base, seq, n, g)
  <2> TAKE g
  <2> DEFINE G(s) == IF s = {} THEN base ELSE Folded("merge", {}, g[s \ {Max(s)}], seq[Max(s)])
             H(s) == IF s = {} THEN base ELSE Merge(g[s \ {Max(s)}], seq[Max(s)])
  <2>1. \A s : G(s) = H(s)
    BY <1>2
  <2> HIDE DEF G, H, n
  <2>2. [s \in SUBSET (1..n) |-> G(s)] = [s \in SUBSET (1..n) |-> H(s)]
    BY <2>1
  <2> QED BY <2>2 DEF G, H, Iterates
<1>4. Def(iter)
  <2>1. \E g : Def(g)
    <3> HIDE DEF Def, n
    <3> QED BY <1>1, <1>3, FoldExists
  <2> HIDE DEF Def
  <2> QED BY <2>1
<1>5. MergeAll(base, seq) = iter[1..n]
  BY <1>1 DEF MergeAll, FoldLeft, MapThenFoldSet
<1>6. Iterates("merge", {}, base, seq, n, iter)
  <2> HIDE DEF Def, iter, n
  <2> QED BY <1>3, <1>4
<1> HIDE DEF iter, n, Def
<1>7. /\ iter[1..0] = base
      /\ \A m \in 1..n : iter[1..m] = Merge(iter[1..(m - 1)], seq[m])
  <2>1. /\ iter[1..0] = base
        /\ \A m \in 1..n : iter[1..m] = Folded("merge", {}, iter[1..(m - 1)], seq[m])
    BY <1>1, <1>6, FoldSteps
  <2> QED BY <1>2, <2>1
<1> DEFINE f == [m \in 0..n |-> iter[1..m]]
<1>8. f[n] = iter[1..n] /\ f[0] = base /\ \A m \in 1..n : f[m] = Merge(f[m - 1], seq[m])
  <2>1. \A m \in 1..n : m - 1 \in 0..n /\ m \in 0..n
    BY <1>1
  <2> QED BY <1>1, <1>7, <2>1
<1> HIDE DEF f
<1> QED BY <1>5, <1>8 DEF n

\* What the parts of a VPLS are merged to.
MergeParts(first, rest) == FoldLeft(VplsMerge, first, rest)

\* They are merged one after the other.
LEMMA MergePartsFold ==
  ASSUME NEW base, NEW S, NEW seq \in Seq(S)
  PROVE  \E f : /\ MergeParts(base, seq) = f[Len(seq)] /\ f[0] = base
                /\ \A m \in 1..Len(seq) : f[m] = VplsMerge(f[m - 1], seq[m])
<1> DEFINE n == Len(seq)
           Def(g) == g = [s \in SUBSET (1..n) |->
                            IF s = {} THEN base ELSE VplsMerge(g[s \ {Max(s)}], seq[Max(s)])]
           iter == CHOOSE g : Def(g)
<1>1. n \in Nat /\ DOMAIN seq = 1..n
  OBVIOUS
<1>2. \A a, x : Folded("vpls", {}, a, x) = VplsMerge(a, x)
  BY DEF Folded
<1>3. \A g : Def(g) <=> Iterates("vpls", {}, base, seq, n, g)
  <2> TAKE g
  <2> DEFINE G(s) == IF s = {} THEN base ELSE Folded("vpls", {}, g[s \ {Max(s)}], seq[Max(s)])
             H(s) == IF s = {} THEN base ELSE VplsMerge(g[s \ {Max(s)}], seq[Max(s)])
  <2>1. \A s : G(s) = H(s)
    BY <1>2
  <2> HIDE DEF G, H, n
  <2>2. [s \in SUBSET (1..n) |-> G(s)] = [s \in SUBSET (1..n) |-> H(s)]
    BY <2>1
  <2> QED BY <2>2 DEF G, H, Iterates
<1>4. Def(iter)
  <2>1. \E g : Def(g)
    <3> HIDE DEF Def, n
    <3> QED BY <1>1, <1>3, FoldExists
  <2> HIDE DEF Def
  <2> QED BY <2>1
<1>5. MergeParts(base, seq) = iter[1..n]
  BY <1>1 DEF MergeParts, FoldLeft, MapThenFoldSet
<1>6. Iterates("vpls", {}, base, seq, n, iter)
  <2> HIDE DEF Def, iter, n
  <2> QED BY <1>3, <1>4
<1> HIDE DEF iter, n, Def
<1>7. /\ iter[1..0] = base
      /\ \A m \in 1..n : iter[1..m] = VplsMerge(iter[1..(m - 1)], seq[m])
  <2>1. /\ iter[1..0] = base
        /\ \A m \in 1..n : iter[1..m] = Folded("vpls", {}, iter[1..(m - 1)], seq[m])
    BY <1>1, <1>6, FoldSteps
  <2> QED BY <1>2, <2>1
<1> DEFINE f == [m \in 0..n |-> iter[1..m]]
<1>8. f[n] = iter[1..n] /\ f[0] = base /\ \A m \in 1..n : f[m] = VplsMerge(f[m - 1], seq[m])
  <2>1. \A m \in 1..n : m - 1 \in 0..n /\ m \in 0..n
    BY <1>1
  <2> QED BY <1>1, <1>7, <2>1
<1> HIDE DEF f
<1> QED BY <1>5, <1>8 DEF n

\* The elements that are kept are kept one after the other.
LEMMA AmongFold ==
  ASSUME NEW T, NEW S, NEW seq \in Seq(S)
  PROVE  \E f : /\ Among(seq, T) = f[Len(seq)] /\ f[0] = <<>>
                /\ \A m \in 1..Len(seq) :
                     f[m] = IF seq[m] \in T THEN Append(f[m - 1], seq[m]) ELSE f[m - 1]
<1>0. PICK e : e = <<>>
  OBVIOUS
<1> DEFINE n == Len(seq)
           Keep(a, x) == IF x \in T THEN Append(a, x) ELSE a
           Def(g) == g = [s \in SUBSET (1..n) |->
                            IF s = {} THEN e ELSE Keep(g[s \ {Max(s)}], seq[Max(s)])]
           iter == CHOOSE g : Def(g)
<1>1. n \in Nat /\ DOMAIN seq = 1..n
  OBVIOUS
<1>2. \A a, x : Folded("keep", T, a, x) = Keep(a, x)
  BY DEF Folded
<1>3. \A g : Def(g) <=> Iterates("keep", T, e, seq, n, g)
  <2> TAKE g
  <2> DEFINE G(s) == IF s = {} THEN e ELSE Folded("keep", T, g[s \ {Max(s)}], seq[Max(s)])
             H(s) == IF s = {} THEN e ELSE Keep(g[s \ {Max(s)}], seq[Max(s)])
  <2>1. \A s : G(s) = H(s)
    BY <1>2
  <2> HIDE DEF G, H, n
  <2>2. [s \in SUBSET (1..n) |-> G(s)] = [s \in SUBSET (1..n) |-> H(s)]
    BY <2>1
  <2> QED BY <2>2 DEF G, H, Iterates
<1>4. Def(iter)
  <2>1. \E g : Def(g)
    <3> HIDE DEF Def, n
    <3> QED BY <1>1, <1>3, FoldExists
  <2> HIDE DEF Def
  <2> QED BY <2>1
<1>5. Among(seq, T) = iter[1..n]
  BY <1>0, <1>1 DEF Among, FoldLeft, MapThenFoldSet
<1>6. Iterates("keep", T, e, seq, n, iter)
  <2> HIDE DEF Def, iter, n
  <2> QED BY <1>3, <1>4
<1> HIDE DEF iter, n, Def
<1>7. /\ iter[1..0] = e
      /\ \A m \in 1..n : iter[1..m] = Keep(iter[1..(m - 1)], seq[m])
  <2>1. /\ iter[1..0] = e
        /\ \A m \in 1..n : iter[1..m] = Folded("keep", T, iter[1..(m - 1)], seq[m])
    BY <1>1, <1>6, FoldSteps
  <2> QED BY <1>2, <2>1
<1> DEFINE f == [m \in 0..n |-> iter[1..m]]
<1>8. f[n] = iter[1..n] /\ f[0] = <<>> /\ \A m \in 1..n : f[m] = Keep(f[m - 1], seq[m])
  <2>1. \A m \in 1..n : m - 1 \in 0..n /\ m \in 0..n
    BY <1>1
  <2> QED BY <1>0, <1>1, <1>7, <2>1
<1> HIDE DEF f
<1> QED BY <1>5, <1>8 DEF n

\* They are the elements of the sequence that are in the set.
LEMMA AmongRange ==
  ASSUME NEW T, NEW S, NEW seq \in Seq(S)
  PROVE  /\ Among(seq, T) \in Seq(S)
         /\ \A x : x \in Range(Among(seq, T)) <=> x \in Range(seq) /\ x \in T
<1> DEFINE n == Len(seq)
<1>1. n \in Nat /\ DOMAIN seq = 1..n /\ \A m \in 1..n : seq[m] \in S
  OBVIOUS
<1>2. PICK f : /\ Among(seq, T) = f[n] /\ f[0] = <<>>
               /\ \A m \in 1..n :
                    f[m] = IF seq[m] \in T THEN Append(f[m - 1], seq[m]) ELSE f[m - 1]
  BY AmongFold
<1> HIDE DEF n
<1> DEFINE Good(m) == /\ f[m] \in Seq(S)
                      /\ \A x : (\E k \in 1..Len(f[m]) : f[m][k] = x)
                                  <=> (\E k \in 1..m : seq[k] = x) /\ x \in T
           G == {m \in 0..n : Good(m)}
<1>3. 0 \in G
  <2>1. f[0] \in Seq(S) /\ Len(f[0]) = 0
    BY <1>2
  <2>2. \A x : ~(\E k \in 1..Len(f[0]) : f[0][k] = x) /\ ~(\E k \in 1..0 : seq[k] = x)
    BY <2>1
  <2>3. Good(0)
    BY <2>1, <2>2
  <2>4. 0 \in 0..n
    BY <1>1
  <2> HIDE DEF Good
  <2> QED BY <2>3, <2>4
<1>4. ASSUME NEW m \in 1..n, m - 1 \in G PROVE m \in G
  <2>1. Good(m - 1)
    BY <1>4
  <2> DEFINE a == f[m - 1]
  <2>2. a \in Seq(S) /\ Len(a) \in Nat
    BY <2>1
  <2>3. \A x : (\E k \in 1..Len(a) : a[k] = x)
                 <=> (\E k \in 1..(m - 1) : seq[k] = x) /\ x \in T
    BY <2>1
  <2>4. \A x : (\E k \in 1..m : seq[k] = x) <=> (\E k \in 1..(m - 1) : seq[k] = x) \/ seq[m] = x
    <3>1. \A k \in 1..m : k = m \/ k \in 1..(m - 1)
      BY <1>1
    <3>2. m \in 1..m /\ \A k \in 1..(m - 1) : k \in 1..m
      BY <1>1
    <3> QED BY <3>1, <3>2
  <2>5. f[m] = IF seq[m] \in T THEN Append(a, seq[m]) ELSE a
    BY <1>2
  <2> HIDE DEF a
  <2>6. CASE seq[m] \in T
    <3>1. /\ f[m] \in Seq(S) /\ Len(f[m]) = Len(a) + 1 /\ f[m][Len(a) + 1] = seq[m]
          /\ \A k \in 1..Len(a) : f[m][k] = a[k]
      BY <1>1, <2>2, <2>5, <2>6
    <3>2. \A k \in 1..(Len(a) + 1) : k = Len(a) + 1 \/ k \in 1..Len(a)
      BY <2>2
    <3>3. Len(a) + 1 \in 1..(Len(a) + 1) /\ \A k \in 1..Len(a) : k \in 1..(Len(a) + 1)
      BY <2>2
    <3>4. \A x : (\E k \in 1..Len(f[m]) : f[m][k] = x)
                   <=> (\E k \in 1..Len(a) : a[k] = x) \/ seq[m] = x
      BY <3>1, <3>2, <3>3
    <3>5. Good(m)
      BY <2>3, <2>4, <2>6, <3>1, <3>4
    <3> QED BY <1>1, <3>5
  <2>7. CASE seq[m] \notin T
    <3>1. Good(m)
      BY <2>2, <2>3, <2>4, <2>5, <2>7
    <3> QED BY <1>1, <3>1
  <2> QED BY <2>6, <2>7
<1> HIDE DEF G
<1>5. n \in G
  <2>1. \A m \in 0..n : m \in G
    BY <1>1, <1>3, <1>4, StepByStep
  <2> QED BY <1>1, <2>1
<1>6. Good(n)
  BY <1>5 DEF G
<1> DEFINE r == Among(seq, T)
<1>7. r \in Seq(S) /\ \A x : (\E k \in 1..Len(r) : r[k] = x)
                                <=> (\E k \in 1..n : seq[k] = x) /\ x \in T
  BY <1>2, <1>6
<1> HIDE DEF r
<1>8. DOMAIN r = 1..Len(r)
  BY <1>7
<1>9. \A x : x \in Range(r) <=> \E k \in 1..Len(r) : r[k] = x
  BY <1>8 DEF Range
<1>10. \A x : x \in Range(seq) <=> \E k \in 1..n : seq[k] = x
  BY <1>1 DEF Range
<1> QED BY <1>7, <1>9, <1>10 DEF r

\* FlattenSeq is defined by a recursive function, which is there.
LEMMA FlattenExists ==
  ASSUME NEW ps, NEW n \in Nat
  PROVE  \E g : g = [i \in 1..n |-> IF i = 1 THEN ps[i] ELSE g[i - 1] \o ps[i]]
<1> DEFINE Up(m, g) == g = [i \in 1..m |-> IF i = 1 THEN ps[i] ELSE g[i - 1] \o ps[i]]
           T == {m \in 1..n : \E g : Up(m, g)}
<1>1. ASSUME NEW m \in 1..n, \A k \in 1..(m - 1) : k \in T PROVE m \in T
  <2>1. CASE m = 1
    <3> DEFINE g == [i \in 1..1 |-> ps[i]]
    <3>1. Up(1, g)
      OBVIOUS
    <3> QED BY <2>1, <3>1
  <2>2. CASE m # 1
    <3>1. m - 1 \in 1..(m - 1)
      BY <2>2
    <3>2. m - 1 \in T
      <4> HIDE DEF T
      <4> QED BY <1>1, <3>1
    <3>3. PICK g : Up(m - 1, g)
      BY <3>2
    <3> DEFINE h == [i \in 1..m |-> IF i = m THEN g[m - 1] \o ps[m] ELSE g[i]]
    <3>4. ASSUME NEW i \in 1..m
          PROVE  h[i] = IF i = 1 THEN ps[i] ELSE h[i - 1] \o ps[i]
      <4>1. CASE i = m
        <5>1. m \in 1..m /\ m - 1 \in 1..m /\ m - 1 # m
          BY <2>2
        <5>2. h[m] = g[m - 1] \o ps[m] /\ h[m - 1] = g[m - 1]
          BY <5>1
        <5> QED BY <2>2, <4>1, <5>2
      <4>2. CASE i # m
        <5>1. i \in 1..(m - 1)
          BY <4>2
        <5>2. g[i] = IF i = 1 THEN ps[i] ELSE g[i - 1] \o ps[i]
          BY <3>3, <5>1
        <5>3. i # 1 => i - 1 \in 1..m /\ i - 1 # m
          BY <5>1
        <5> QED BY <4>2, <5>2, <5>3
      <4> QED BY <4>1, <4>2
    <3>5. Up(m, h)
      BY <3>4
    <3> QED BY <3>5
  <2> QED BY <2>1, <2>2
<1>2. \A m \in 1..n : m \in T
  <2> HIDE DEF T
  <2> QED BY <1>1, Upwards
<1>3. CASE n = 0
  <2> DEFINE g == [i \in 1..0 |-> 0]
  <2>1. Up(0, g)
    OBVIOUS
  <2> QED BY <1>3, <2>1
<1>4. CASE n # 0
  <2>1. n \in 1..n
    BY <1>4
  <2>2. n \in T
    <3> HIDE DEF T
    <3> QED BY <1>2, <2>1
  <2> QED BY <2>2
<1> QED BY <1>3, <1>4

\* An interval in two parts.
LEMMA Split == \A a, b \in Nat : \A k \in 1..(a + b) : k \in 1..a \/ (k > a /\ k - a \in 1..b)
OBVIOUS

\* What is in two sequences in a row.
LEMMA RangeConcat ==
  ASSUME NEW Q, NEW u \in Seq(Q), NEW v \in Seq(Q)
  PROVE  u \o v \in Seq(Q) /\ \A x : x \in Range(u \o v) <=> x \in Range(u) \/ x \in Range(v)
<1>1. /\ u \o v \in Seq(Q) /\ Len(u) \in Nat /\ Len(v) \in Nat
      /\ DOMAIN u = 1..Len(u) /\ DOMAIN v = 1..Len(v)
      /\ DOMAIN (u \o v) = 1..(Len(u) + Len(v))
      /\ \A k \in 1..Len(u) : (u \o v)[k] = u[k]
      /\ \A k \in 1..Len(v) : (u \o v)[k + Len(u)] = v[k]
      /\ \A k \in 1..(Len(u) + Len(v)) : k > Len(u) => (u \o v)[k] = v[k - Len(u)]
  OBVIOUS
<1>0. Len(u) \in Nat /\ Len(v) \in Nat
  OBVIOUS
<1> DEFINE w == u \o v
<1> HIDE DEF w
<1>2. \A k \in 1..Len(v) : k + Len(u) \in 1..(Len(u) + Len(v))
  BY <1>1
<1>3. \A k \in 1..(Len(u) + Len(v)) : k \in 1..Len(u) \/ (k > Len(u) /\ k - Len(u) \in 1..Len(v))
  BY <1>0, Split
<1>4. \A k \in 1..Len(u) : k \in 1..(Len(u) + Len(v))
  BY <1>1
<1>5. \A x : x \in Range(w) <=> \E k \in 1..(Len(u) + Len(v)) : x = w[k]
  BY <1>1 DEF Range, w
<1>6. \A x : x \in Range(u) <=> \E k \in 1..Len(u) : x = u[k]
  BY <1>1 DEF Range
<1>7. \A x : x \in Range(v) <=> \E k \in 1..Len(v) : x = v[k]
  BY <1>1 DEF Range
<1>8. ASSUME NEW x, x \in Range(w) PROVE x \in Range(u) \/ x \in Range(v)
  <2>1. PICK k \in 1..(Len(u) + Len(v)) : x = w[k]
    BY <1>5, <1>8
  <2> QED BY <1>1, <1>3, <1>6, <1>7, <2>1 DEF w
<1>9. ASSUME NEW x, x \in Range(u) \/ x \in Range(v) PROVE x \in Range(w)
  <2>1. CASE x \in Range(u)
    BY <1>1, <1>4, <1>5, <1>6, <2>1 DEF w
  <2>2. CASE x \in Range(v)
    <3>1. PICK k \in 1..Len(v) : x = v[k]
      BY <1>7, <2>2
    <3>2. x = w[k + Len(u)] /\ k + Len(u) \in 1..(Len(u) + Len(v))
      BY <1>1, <1>2, <3>1 DEF w
    <3> QED BY <1>5, <3>2
  <2> QED BY <1>9, <2>1, <2>2
<1> QED BY <1>1, <1>8, <1>9 DEF w

\* What is in sequences is in what they are flattened to.
LEMMA FlattenRange ==
  ASSUME NEW Q, NEW ps \in Seq(Seq(Q))
  PROVE  /\ FlattenSeq(ps) \in Seq(Q)
         /\ \A x : x \in Range(FlattenSeq(ps)) <=> \E k \in 1..Len(ps) : x \in Range(ps[k])
<1> DEFINE n == Len(ps)
           Def(g) == g = [i \in 1..n |-> IF i = 1 THEN ps[i] ELSE g[i - 1] \o ps[i]]
           f == CHOOSE g : Def(g)
<1>1. n \in Nat
  OBVIOUS
<1>2. CASE n = 0
  <2>1. FlattenSeq(ps) = <<>> /\ ps = <<>>
    BY <1>2 DEF FlattenSeq
  <2> QED BY <2>1 DEF Range
<1>3. CASE n # 0
  <2>1. FlattenSeq(ps) = f[n]
    BY <1>3 DEF FlattenSeq
  <2>2. Def(f)
    <3>1. \E g : Def(g)
      BY <1>1, FlattenExists
    <3> HIDE DEF Def
    <3> QED BY <3>1
  <2> HIDE DEF f
  <2> DEFINE Good(i) == /\ f[i] \in Seq(Q)
                        /\ \A x : x \in Range(f[i]) <=> \E k \in 1..i : x \in Range(ps[k])
             T == {i \in 1..n : Good(i)}
  <2>3. ASSUME NEW i \in 1..n, \A k \in 1..(i - 1) : k \in T PROVE i \in T
    <3>1. ps[i] \in Seq(Q)
      OBVIOUS
    <3>2. CASE i = 1
      <4>0. f[i] = ps[i] /\ i \in 1..i /\ \A k \in 1..i : k = i
        BY <2>2, <3>2
      <4>1. f[i] = ps[i] /\ \A x : x \in Range(ps[i]) <=> \E k \in 1..i : x \in Range(ps[k])
        BY <4>0
      <4>2. Good(i)
        BY <3>1, <4>1
      <4> QED BY <4>2
    <3>3. CASE i # 1
      <4>1. i - 1 \in 1..(i - 1)
        BY <3>3
      <4>2. i - 1 \in T
        <5> HIDE DEF T
        <5> QED BY <2>3, <4>1
      <4>3. Good(i - 1)
        BY <4>2
      <4>4. f[i] = f[i - 1] \o ps[i]
        BY <2>2, <3>3
      <4>5. ASSUME NEW u \in Seq(Q), NEW v \in Seq(Q)
            PROVE u \o v \in Seq(Q) /\ \A x : x \in Range(u \o v) <=> x \in Range(u) \/ x \in Range(v)
        BY <4>5, RangeConcat
      <4>6. \A x : (\E k \in 1..i : x \in Range(ps[k]))
                     <=> (\E k \in 1..(i - 1) : x \in Range(ps[k])) \/ x \in Range(ps[i])
        <5>1. \A k \in 1..i : k = i \/ k \in 1..(i - 1)
          OBVIOUS
        <5>2. i \in 1..i /\ \A k \in 1..(i - 1) : k \in 1..i
          OBVIOUS
        <5> QED BY <5>1, <5>2
      <4>7. Good(i)
        <5>1. f[i - 1] \in Seq(Q)
          BY <4>3
        <5>2. f[i] \in Seq(Q) /\ \A x : x \in Range(f[i]) <=> x \in Range(f[i - 1]) \/ x \in Range(ps[i])
          BY <3>1, <4>4, <4>5, <5>1
        <5> QED BY <4>3, <4>6, <5>2
      <4> HIDE DEF Good
      <4> QED BY <4>7
    <3> QED BY <3>2, <3>3
  <2>4. n \in T
    <3>1. \A i \in 1..n : i \in T
      <4> HIDE DEF T, n, Good
      <4> QED BY <1>1, <2>3, Upwards
    <3>2. n \in 1..n
      BY <1>1, <1>3
    <3> HIDE DEF T
    <3> QED BY <3>1, <3>2
  <2>5. Good(n)
    BY <2>4
  <2> QED BY <2>1, <2>5
<1> QED BY <1>2, <1>3

\* The names that are listed, when there is one name at most.
LEMMA ListOfOne ==
  ASSUME NEW n, NEW S \in SUBSET {n}
  PROVE  SetToSeq(S) \in Seq({n}) /\ \A x : x \in Range(SetToSeq(S)) <=> x \in S
<1>1. CASE S = {}
  <2> DEFINE P(f) == f \in [1..0 -> {}] /\ IsInjective(f)
             e == [i \in 1..0 |-> n]
  <2>1. Cardinality(S) = 0
    BY <1>1, FS_EmptySet
  <2>2. P(e)
    <3>1. \A i \in 1..0 : FALSE
      OBVIOUS
    <3> QED BY <3>1 DEF IsInjective
  <2> DEFINE l == CHOOSE f : P(f)
  <2>3. P(l)
    <3> HIDE DEF P, e
    <3> QED BY <2>2
  <2>4. SetToSeq(S) = l
    BY <1>1, <2>1 DEF SetToSeq
  <2> HIDE DEF l
  <2>5. l \in [1..0 -> {n}] /\ DOMAIN l = 1..0 /\ \A i \in 1..0 : FALSE
    BY <2>3
  <2>6. \A m \in Nat : \A f \in [1..m -> {n}] : f \in Seq({n})
    OBVIOUS
  <2>7. l \in Seq({n})
    BY <2>5, <2>6
  <2> QED BY <1>1, <2>4, <2>5, <2>7 DEF Range
<1>2. CASE S = {n}
  <2> DEFINE P(f) == f \in [1..1 -> {n}] /\ IsInjective(f)
             e == [i \in 1..1 |-> n]
  <2>1. Cardinality(S) = 1
    BY <1>2, FS_Singleton
  <2>2. P(e)
    <3>1. \A i, j \in 1..1 : i = j
      OBVIOUS
    <3> QED BY <3>1 DEF IsInjective
  <2> DEFINE l == CHOOSE f : P(f)
  <2>3. P(l)
    <3> HIDE DEF P, e
    <3> QED BY <2>2
  <2>4. SetToSeq(S) = l
    BY <1>2, <2>1 DEF SetToSeq
  <2> HIDE DEF l
  <2>5. l \in [1..1 -> {n}] /\ DOMAIN l = 1..1 /\ 1 \in 1..1
    BY <2>3
  <2>6. l \in Seq({n})
    <3>1. \A m \in Nat : \A f \in [1..m -> {n}] : f \in Seq({n})
      OBVIOUS
    <3> QED BY <2>5, <3>1
  <2> QED BY <1>2, <2>4, <2>5, <2>6 DEF Range
<1> QED BY <1>1, <1>2
-----------------------------------------------------------------------------
(* What reading finds *)

\* The nodes that have an instance of a type under a name.
OfType(store, n, type) ==
  {d \in Node : /\ store[d][Instance(n)] # None /\ store[d][Instance(n)].net = "L2P2P"
                /\ VllType(store[d][Instance(n)]) = type}
Listed(d, n) == [node |-> d, name |-> n]
AllListed(n) == {Listed(d, n) : d \in Node}

\* A sequence lists them.
Lists(l, store, n, type) ==
  /\ l \in Seq(AllListed(n))
  /\ \A x : x \in Range(l) <=> \E d \in OfType(store, n, type) : x = Listed(d, n)

\* They are the ones the reading goes through.
LEMMA VllsListed ==
  ASSUME NEW store, NEW n, NEW type
  PROVE  Lists(VllsOf(store, NodeOrder, {n}, type), store, n, type)
<1> DEFINE Q == {Listed(d, n) : d \in Node}
           Found(conf) == {m \in InstancesAt(conf, "L2P2P", {n}) : VllType(conf[Instance(m)]) = type}
           List(conf) == SetToSeq(Found(conf))
           At(k) == [j \in DOMAIN List(store[NodeOrder[k]]) |->
                       [node |-> NodeOrder[k], name |-> List(store[NodeOrder[k]])[j]]]
           ps == [k \in DOMAIN NodeOrder |-> At(k)]
<1>1. VllsOf(store, NodeOrder, {n}, type) = FlattenSeq(ps)
  BY DEF VllsOf
<1>2. /\ DOMAIN NodeOrder = 1..Len(NodeOrder) /\ Len(NodeOrder) \in Nat
      /\ \A k \in 1..Len(NodeOrder) : NodeOrder[k] \in Node
  BY NodeOrderAssumption
<1>3. \A conf : n \in Found(conf) <=>
        /\ conf[Instance(n)] # None /\ conf[Instance(n)].net = "L2P2P"
        /\ VllType(conf[Instance(n)]) = type
  BY DEF InstancesAt
<1>4. \A conf : Found(conf) \in SUBSET {n}
  BY DEF InstancesAt
<1> HIDE DEF Found
<1>5. \A conf : List(conf) \in Seq({n}) /\ \A x : x \in Range(List(conf)) <=> x \in Found(conf)
  BY <1>4, ListOfOne
<1> HIDE DEF List
<1>6. ASSUME NEW k \in 1..Len(NodeOrder)
      PROVE  /\ At(k) \in Seq(Q)
             /\ \A x : x \in Range(At(k)) <=>
                  NodeOrder[k] \in OfType(store, n, type) /\ x = Listed(NodeOrder[k], n)
  <2> DEFINE d == NodeOrder[k]
             l == List(store[d])
  <2>1. l \in Seq({n}) /\ \A x : x \in Range(l) <=> x \in Found(store[d])
    BY <1>5
  <2>2. d \in Node
    BY <1>2
  <2>3. At(k) = [j \in DOMAIN l |-> [node |-> d, name |-> l[j]]]
    OBVIOUS
  <2> HIDE DEF l, d, At
  <2>4. DOMAIN l = 1..Len(l) /\ Len(l) \in Nat /\ \A j \in 1..Len(l) : l[j] = n
    BY <2>1
  <2>5. DOMAIN At(k) = 1..Len(l) /\ \A j \in 1..Len(l) : At(k)[j] = Listed(d, n)
    BY <2>3, <2>4 DEF Listed
  <2>6. Listed(d, n) \in Q
    BY <2>2
  <2> HIDE DEF Q
  <2>7. At(k) \in [1..Len(l) -> Q]
    BY <2>3, <2>4, <2>5, <2>6
  <2>8. At(k) \in Seq(Q)
    BY <2>4, <2>7
  <2>9. n \in Found(store[d]) <=> d \in OfType(store, n, type)
    BY <1>3, <2>2 DEF OfType
  <2>10. n \in Range(l) <=> Len(l) # 0
    <3>1. Len(l) # 0 => 1 \in 1..Len(l)
      BY <2>4
    <3> QED BY <2>4, <3>1 DEF Range
  <2>11. \A x : x \in Range(At(k)) <=> Len(l) # 0 /\ x = Listed(d, n)
    <3>1. Len(l) # 0 => 1 \in 1..Len(l)
      BY <2>4
    <3>2. Len(l) = 0 => \A j \in 1..Len(l) : FALSE
      OBVIOUS
    <3> QED BY <2>5, <3>1, <3>2 DEF Range
  <2> QED BY <2>1, <2>8, <2>9, <2>10, <2>11 DEF d
<1> HIDE DEF At, Q
<1>7. ps \in Seq(Seq(Q)) /\ Len(ps) = Len(NodeOrder) /\ \A k \in 1..Len(NodeOrder) : ps[k] = At(k)
  <2>1. ps \in [1..Len(NodeOrder) -> Seq(Q)]
    BY <1>2, <1>6
  <2>2. \A m \in Nat : \A f \in [1..m -> Seq(Q)] : f \in Seq(Seq(Q)) /\ Len(f) = m
    OBVIOUS
  <2>3. \A k \in 1..Len(NodeOrder) : ps[k] = At(k)
    BY <1>2
  <2> HIDE DEF ps
  <2> QED BY <1>2, <2>1, <2>2, <2>3
<1> HIDE DEF ps
<1>8. FlattenSeq(ps) \in Seq(Q)
      /\ \A x : x \in Range(FlattenSeq(ps)) <=> \E k \in 1..Len(ps) : x \in Range(ps[k])
  BY <1>7, FlattenRange
<1>9. ASSUME NEW d \in OfType(store, n, type)
      PROVE  \E k \in 1..Len(NodeOrder) : NodeOrder[k] = d
  BY <1>2, NodeOrderAssumption DEF OfType, Range
<1>10. ASSUME NEW x
       PROVE  x \in Range(FlattenSeq(ps)) <=> \E d \in OfType(store, n, type) : x = Listed(d, n)
  <2>1. x \in Range(FlattenSeq(ps)) <=> \E k \in 1..Len(NodeOrder) : x \in Range(At(k))
    BY <1>7, <1>8
  <2>2. (\E k \in 1..Len(NodeOrder) : x \in Range(At(k)))
          <=> \E k \in 1..Len(NodeOrder) :
                NodeOrder[k] \in OfType(store, n, type) /\ x = Listed(NodeOrder[k], n)
    BY <1>6
  <2> QED BY <1>9, <2>1, <2>2
<1> QED BY <1>1, <1>8, <1>10 DEF Q, AllListed, Lists

\* Ends, and a service that is being put together from its halves.
IsEnds(ds) == (\E S : ds \in Seq(S)) /\ \A e \in Range(ds) : "id" \in DOMAIN e
IdsOf(ds)  == {e.id : e \in Range(ds)}
IsHalf(s)  == "id" \in DOMAIN s /\ "devices" \in DOMAIN s /\ IsEnds(s.devices)

\* A sequence is one over any set that has its elements.
LEMMA OverMore ==
  ASSUME NEW S, NEW p \in Seq(S), NEW T, \A e \in Range(p) : e \in T
  PROVE  p \in Seq(T)
<1>1. /\ Len(p) \in Nat /\ DOMAIN p = 1..Len(p) /\ p \in [1..Len(p) -> S]
  OBVIOUS
<1>2. \A k \in 1..Len(p) : p[k] \in T
  BY <1>1 DEF Range
<1>3. p \in [1..Len(p) -> T]
  BY <1>1, <1>2
<1>4. \A m \in Nat : \A f \in [1..m -> T] : f \in Seq(T)
  OBVIOUS
<1> QED BY <1>1, <1>3, <1>4

\* The ends of two sequences.
LEMMA EndsConcat ==
  ASSUME NEW p, NEW q, IsEnds(p), IsEnds(q)
  PROVE  IsEnds(p \o q) /\ IdsOf(p \o q) = IdsOf(p) \cup IdsOf(q)
<1> DEFINE T == Range(p) \cup Range(q)
<1>1. p \in Seq(T) /\ q \in Seq(T)
  BY OverMore DEF IsEnds
<1> HIDE DEF T
<1>2. p \o q \in Seq(T) /\ \A x : x \in Range(p \o q) <=> x \in Range(p) \/ x \in Range(q)
  BY <1>1, RangeConcat
<1>3. IsEnds(p \o q)
  BY <1>2 DEF IsEnds
<1> QED BY <1>2, <1>3 DEF IdsOf

\* The ends that are known.
LEMMA KnownKeptIds ==
  ASSUME NEW ds, IsEnds(ds)
  PROVE  LET known == Among(ds, {e \in Range(ds) : e.id # Unknown}) IN
         IsEnds(known) /\ IdsOf(known) = IdsOf(ds) \ {Unknown}
<1> DEFINE T == {e \in Range(ds) : e.id # Unknown}
           known == Among(ds, T)
<1>1. PICK S : ds \in Seq(S)
  BY DEF IsEnds
<1>2. known \in Seq(S) /\ \A x : x \in Range(known) <=> x \in Range(ds) /\ x \in T
  BY <1>1, AmongRange
<1> HIDE DEF known
<1>3. \A x : x \in Range(known) <=> x \in Range(ds) /\ x.id # Unknown
  BY <1>2
<1>4. IsEnds(known)
  BY <1>2, <1>3 DEF IsEnds
<1>5. IdsOf(known) = IdsOf(ds) \ {Unknown}
  BY <1>3 DEF IdsOf
<1> QED BY <1>4, <1>5 DEF known

\* Turning the addresses around leaves the devices.
LEMMA TurnedIds ==
  ASSUME NEW ds, IsEnds(ds)
  PROVE  IsEnds(TurnedAround(ds)) /\ IdsOf(TurnedAround(ds)) = IdsOf(ds)
<1>1. CASE Len(ds) # 2
  BY <1>1 DEF TurnedAround
<1>2. CASE Len(ds) = 2
  <2> DEFINE a == [ds[1] EXCEPT !.remote_ip = ds[2].remote_ip]
             b == [ds[2] EXCEPT !.remote_ip = ds[1].remote_ip]
  <2>1. PICK S : ds \in Seq(S)
    BY DEF IsEnds
  <2>2. DOMAIN ds = 1..2 /\ 1 \in 1..2 /\ 2 \in 1..2 /\ \A k \in 1..2 : k = 1 \/ k = 2
    BY <1>2, <2>1
  <2>3. \A x : x \in Range(ds) <=> x = ds[1] \/ x = ds[2]
    BY <2>2 DEF Range
  <2>4. "id" \in DOMAIN ds[1] /\ "id" \in DOMAIN ds[2]
    BY <2>3 DEF IsEnds
  <2>5. "id" \in DOMAIN a /\ "id" \in DOMAIN b /\ a.id = ds[1].id /\ b.id = ds[2].id
    BY <2>4
  <2>6. TurnedAround(ds) = <<a, b>>
    BY <1>2 DEF TurnedAround
  <2> HIDE DEF a, b
  <2>7. <<a, b>> \in Seq({a, b}) /\ \A x : x \in Range(<<a, b>>) <=> x = a \/ x = b
    <3>1. DOMAIN <<a, b>> = 1..2 /\ <<a, b>>[1] = a /\ <<a, b>>[2] = b
      OBVIOUS
    <3> QED BY <2>2, <3>1 DEF Range
  <2>8. IsEnds(<<a, b>>)
    BY <2>5, <2>7 DEF IsEnds
  <2>9. IdsOf(<<a, b>>) = IdsOf(ds)
    BY <2>3, <2>5, <2>7 DEF IdsOf
  <2> QED BY <2>6, <2>8, <2>9
<1> QED BY <1>1, <1>2

\* Merging two halves: the devices that either knows.
LEMMA MergeIds ==
  ASSUME NEW s, NEW t, IsHalf(s), IsHalf(t)
  PROVE  /\ IsHalf(Merge(s, t)) /\ Merge(s, t).id = s.id
         /\ IdsOf(Merge(s, t).devices)
              = (IdsOf(s.devices) \cup IdsOf(t.devices)) \ {Unknown}
<1> DEFINE Known(ds) == Among(ds, {e \in Range(ds) : e.id # Unknown})
           p == Known(s.devices)
           q == Known(t.devices)
           r == TurnedAround(p \o q)
<1>1. /\ IsEnds(p) /\ IdsOf(p) = IdsOf(s.devices) \ {Unknown}
      /\ IsEnds(q) /\ IdsOf(q) = IdsOf(t.devices) \ {Unknown}
  BY KnownKeptIds DEF IsHalf
<1>2. Merge(s, t) = [s EXCEPT !.devices = r]
  BY DEF Merge
<1> HIDE DEF p, q
<1>3. IsEnds(r) /\ IdsOf(r) = IdsOf(p) \cup IdsOf(q)
  BY <1>1, EndsConcat, TurnedIds
<1> HIDE DEF r
<1>4. /\ DOMAIN Merge(s, t) = DOMAIN s /\ Merge(s, t).devices = r /\ Merge(s, t).id = s.id
  BY <1>2 DEF IsHalf
<1> QED BY <1>1, <1>3, <1>4 DEF IsHalf

\* A group of halves makes one service.
LEMMA GroupIds ==
  ASSUME NEW S, NEW seq \in Seq(S), seq # <<>>, \A k \in 1..Len(seq) : IsHalf(seq[k])
  PROVE  LET r == MergeAll(Head(seq), Tail(seq)) IN
         /\ IsHalf(r) /\ r.id = seq[1].id
         /\ \A d : d # Unknown =>
              (d \in IdsOf(r.devices) <=> \E k \in 1..Len(seq) : d \in IdsOf(seq[k].devices))
<1> DEFINE rest == Tail(seq)
           n == Len(rest)
<1>1. /\ rest \in Seq(S) /\ Len(seq) \in Nat \ {0} /\ n = Len(seq) - 1 /\ n \in Nat
      /\ Head(seq) = seq[1]
      /\ \A m \in 1..n : rest[m] = seq[m + 1]
  OBVIOUS
<1>2. PICK f : /\ MergeAll(Head(seq), rest) = f[n] /\ f[0] = Head(seq)
               /\ \A m \in 1..n : f[m] = Merge(f[m - 1], rest[m])
  <2> DEFINE h == Head(seq)
  <2>1. rest \in Seq(S)
    BY <1>1
  <2> HIDE DEF rest, h
  <2>2. \E f : /\ MergeAll(h, rest) = f[Len(rest)] /\ f[0] = h
               /\ \A m \in 1..Len(rest) : f[m] = Merge(f[m - 1], rest[m])
    BY <2>1, MergeFold
  <2> QED BY <2>2 DEF h
<1> HIDE DEF rest, n
<1> DEFINE Good(m) ==
             /\ IsHalf(f[m]) /\ f[m].id = seq[1].id
             /\ \A d : d # Unknown =>
                  (d \in IdsOf(f[m].devices)
                     <=> \E k \in 1..(m + 1) : d \in IdsOf(seq[k].devices))
           G == {m \in 0..n : Good(m)}
<1>3. 0 \in G
  <2>1. (\A k \in 1..(0 + 1) : k = 1) /\ 1 \in 1..(0 + 1) /\ 1 \in 1..Len(seq)
    BY <1>1
  <2>2. Good(0)
    BY <1>1, <1>2, <2>1
  <2>3. 0 \in 0..n
    BY <1>1
  <2> HIDE DEF Good
  <2> QED BY <2>2, <2>3
<1>4. ASSUME NEW m \in 1..n, m - 1 \in G PROVE m \in G
  <2>1. Good(m - 1)
    BY <1>4
  <2>2. f[m] = Merge(f[m - 1], seq[m + 1]) /\ m + 1 \in 1..Len(seq) /\ (m - 1) + 1 = m
    BY <1>1, <1>2
  <2>3. IsHalf(seq[m + 1])
    BY <2>2
  <2>4. /\ IsHalf(f[m]) /\ f[m].id = seq[1].id
        /\ IdsOf(f[m].devices)
             = (IdsOf(f[m - 1].devices) \cup IdsOf(seq[m + 1].devices)) \ {Unknown}
    <3>1. IsHalf(f[m - 1]) /\ f[m - 1].id = seq[1].id
      BY <2>1
    <3> DEFINE x == f[m - 1]
               y == seq[m + 1]
    <3> HIDE DEF x, y
    <3>2. /\ IsHalf(Merge(x, y)) /\ Merge(x, y).id = x.id
          /\ IdsOf(Merge(x, y).devices) = (IdsOf(x.devices) \cup IdsOf(y.devices)) \ {Unknown}
      BY <2>3, <3>1, MergeIds DEF x, y
    <3> QED BY <2>2, <3>1, <3>2 DEF x, y
  <2>5. \A d : d # Unknown =>
          (d \in IdsOf(f[m - 1].devices) <=> \E k \in 1..m : d \in IdsOf(seq[k].devices))
    BY <2>1, <2>2
  <2>6. \A d : (\E k \in 1..(m + 1) : d \in IdsOf(seq[k].devices))
                 <=> (\E k \in 1..m : d \in IdsOf(seq[k].devices))
                       \/ d \in IdsOf(seq[m + 1].devices)
    <3>1. \A k \in 1..(m + 1) : k = m + 1 \/ k \in 1..m
      BY <1>1
    <3>2. m + 1 \in 1..(m + 1) /\ \A k \in 1..m : k \in 1..(m + 1)
      BY <1>1
    <3> QED BY <3>1, <3>2
  <2>7. Good(m)
    BY <2>4, <2>5, <2>6
  <2>8. m \in 0..n
    BY <1>1
  <2> HIDE DEF Good
  <2> QED BY <2>7, <2>8
<1>5. n \in G
  <2> HIDE DEF G
  <2>1. \A m \in 0..n : m \in G
    BY <1>1, <1>3, <1>4, StepByStep
  <2> QED BY <1>1, <2>1
<1>6. Good(n) /\ n + 1 = Len(seq)
  BY <1>1, <1>5
<1> QED BY <1>2, <1>6 DEF rest

\* Halves of one name.
AllHalves(halves, n) ==
  /\ \E S : halves \in Seq(S)
  /\ \A k \in 1..Len(halves) : IsHalf(halves[k]) /\ halves[k].id = n

\* They make one service, of all their devices.
LEMMA AggregateIds ==
  ASSUME NEW n, NEW halves, AllHalves(halves, n)
  PROVE  /\ IsFiniteSet(Aggregate(halves, "id"))
         /\ halves # <<>> => Aggregate(halves, "id") # {}
         /\ \A s \in Aggregate(halves, "id") :
              /\ IsHalf(s) /\ s.id = n /\ halves # <<>>
              /\ \A d : d # Unknown =>
                   (d \in IdsOf(s.devices)
                      <=> \E k \in 1..Len(halves) : d \in IdsOf(halves[k].devices))
<1> DEFINE Group(k) == Among(halves, {s \in Range(halves) : s["id"] = k})
           Result(k) == FoldLeft(Merge, Head(Group(k)), Tail(Group(k)))
           Keys == {halves[m]["id"] : m \in DOMAIN halves}
<1>0. PICK S : halves \in Seq(S)
  BY DEF AllHalves
<1>1. Len(halves) \in Nat /\ DOMAIN halves = 1..Len(halves)
  BY <1>0
<1>2. Aggregate(halves, "id") = {Result(k) : k \in Keys}
  BY DEF Aggregate
<1>3. CASE halves = <<>>
  <2>1. DOMAIN halves = {}
    BY <1>3
  <2>2. Keys = {}
    BY <2>1
  <2> HIDE DEF Keys, Result
  <2>3. Aggregate(halves, "id") = {}
    BY <1>2, <2>2
  <2> QED BY <1>3, <2>3, FS_EmptySet
<1>4. CASE halves # <<>>
  <2>1. Len(halves) # 0 /\ 1 \in 1..Len(halves)
    BY <1>0, <1>1, <1>4, EmptySeq
  <2>2. Keys = {n}
    BY <1>1, <2>1 DEF AllHalves
  <2> HIDE DEF Keys, Result
  <2>3. Aggregate(halves, "id") = {Result(n)}
    BY <1>2, <2>2
  <2> DEFINE g == Group(n)
             T == {s \in Range(halves) : s["id"] = n}
  <2>4. \A x : x \in Range(halves) <=> \E k \in 1..Len(halves) : x = halves[k]
    BY <1>1 DEF Range
  <2>5. g \in Seq(S) /\ \A x : x \in Range(g) <=> x \in Range(halves) /\ x \in T
    BY <1>0, AmongRange
  <2> HIDE DEF g
  <2>6. \A x : x \in Range(g) <=> \E k \in 1..Len(halves) : x = halves[k]
    BY <2>4, <2>5 DEF AllHalves
  <2>7. Len(g) \in Nat /\ DOMAIN g = 1..Len(g)
    BY <2>5
  <2>8. \A x : x \in Range(g) <=> \E k \in 1..Len(g) : x = g[k]
    BY <2>7 DEF Range
  <2>9. \A k \in 1..Len(g) : \E j \in 1..Len(halves) : g[k] = halves[j]
    BY <2>6, <2>8
  <2>10. \A j \in 1..Len(halves) : \E k \in 1..Len(g) : g[k] = halves[j]
    BY <2>6, <2>8
  <2>11. Len(g) # 0 /\ g # <<>> /\ 1 \in 1..Len(g)
    <3>1. \E k \in 1..Len(g) : TRUE
      BY <2>1, <2>10
    <3>2. Len(g) # 0
      BY <2>7, <3>1
    <3> QED BY <2>7, <3>2
  <2>12. \A k \in 1..Len(g) : IsHalf(g[k]) /\ g[k].id = n
    BY <2>9 DEF AllHalves
  <2> DEFINE r == MergeAll(Head(g), Tail(g))
  <2>13. /\ IsHalf(r) /\ r.id = g[1].id
         /\ \A d : d # Unknown =>
              (d \in IdsOf(r.devices) <=> \E k \in 1..Len(g) : d \in IdsOf(g[k].devices))
    BY <2>5, <2>11, <2>12, GroupIds
  <2>14. Result(n) = r
    BY DEF Result, g, MergeAll
  <2> HIDE DEF r
  <2>15. r.id = n
    BY <2>11, <2>12, <2>13
  <2>16. \A d : (\E k \in 1..Len(g) : d \in IdsOf(g[k].devices))
                  <=> \E k \in 1..Len(halves) : d \in IdsOf(halves[k].devices)
    BY <2>9, <2>10
  <2>17. IsFiniteSet({r})
    BY FS_Singleton
  <2> QED BY <1>4, <2>3, <2>13, <2>14, <2>15, <2>16, <2>17
<1> QED BY <1>3, <1>4

\* What is left out of a service when it is handed over is none of this.
LEMMA DictIds ==
  ASSUME NEW s, IsHalf(s)
  PROVE  LET r == ServiceToDict(s) IN
         /\ IsHalf(r) /\ r.id = s.id /\ Len(r.devices) = Len(s.devices)
         /\ IdsOf(r.devices) = IdsOf(s.devices)
<1> DEFINE ds == s.devices
           es == [k \in DOMAIN ds |-> EndToDict(ds[k])]
           r  == ServiceToDict(s)
<1>1. PICK S : ds \in Seq(S)
  BY DEF IsHalf, IsEnds
<1>2. /\ Len(ds) \in Nat /\ DOMAIN ds = 1..Len(ds)
  BY <1>1
<1>3. \A x : x \in Range(ds) <=> \E k \in 1..Len(ds) : x = ds[k]
  BY <1>2 DEF Range
<1>4. \A e : "id" \in DOMAIN e => "id" \in DOMAIN EndToDict(e) /\ EndToDict(e).id = e.id
  BY DEF EndToDict
<1>5. r = [s EXCEPT !.devices = es]
  BY DEF ServiceToDict
<1>6. DOMAIN r = DOMAIN s /\ r.devices = es /\ r.id = s.id
  BY <1>5 DEF IsHalf
<1> HIDE DEF r
<1>7. DOMAIN es = 1..Len(ds) /\ \A k \in 1..Len(ds) : es[k] = EndToDict(ds[k])
  BY <1>2
<1>8. \A x : x \in Range(es) <=> \E k \in 1..Len(ds) : x = EndToDict(ds[k])
  BY <1>7 DEF Range
<1>9. es \in Seq(Range(es)) /\ Len(es) = Len(ds)
  <2> DEFINE T == Range(es)
  <2>1. \A k \in 1..Len(ds) : EndToDict(ds[k]) \in T
    BY <1>8
  <2> HIDE DEF T
  <2>2. es \in [1..Len(ds) -> T]
    BY <1>2, <2>1
  <2>3. \A m \in Nat : \A f \in [1..m -> T] : f \in Seq(T) /\ Len(f) = m
    OBVIOUS
  <2> HIDE DEF es
  <2>4. es \in Seq(T) /\ Len(es) = Len(ds)
    BY <1>2, <2>2, <2>3
  <2> QED BY <2>4 DEF T
<1> HIDE DEF es
<1>10. \A k \in 1..Len(ds) : "id" \in DOMAIN ds[k]
  BY <1>3 DEF IsHalf, IsEnds
<1>11. IsEnds(es)
  <2>1. \A e \in Range(es) : "id" \in DOMAIN e
    BY <1>4, <1>8, <1>10
  <2> QED BY <1>9, <2>1 DEF IsEnds
<1>12. IdsOf(es) = IdsOf(ds)
  <2>1. \A x : x \in IdsOf(es) <=> \E k \in 1..Len(ds) : x = EndToDict(ds[k]).id
    BY <1>8 DEF IdsOf
  <2>2. \A x : x \in IdsOf(ds) <=> \E k \in 1..Len(ds) : x = ds[k].id
    BY <1>3 DEF IdsOf
  <2>3. \A x : x \in IdsOf(es) <=> x \in IdsOf(ds)
    BY <1>4, <1>10, <2>1, <2>2
  <2> DEFINE A == IdsOf(es)
             B == IdsOf(ds)
  <2> HIDE DEF A, B
  <2>4. \A x : x \in A <=> x \in B
    BY <2>3 DEF A, B
  <2>5. A = B
    <3>1. A \subseteq B /\ B \subseteq A
      BY <2>4
    <3> QED BY <3>1
  <2> QED BY <2>5 DEF A, B
<1> QED BY <1>6, <1>9, <1>11, <1>12 DEF IsHalf, r

\* An instance that these tasks write: of a point to point service, with two
\* ends here or one.
VllShaped(v)  == v.net = "L2P2P" /\ VllType(v) \in {"LOCAL", "REMOTE"}
InstanceOK(v) == v = None \/ VllShaped(v)

\* What is read of a node, with both ends or with one.
LEMMA ParsedIds ==
  ASSUME NEW d, NEW conf, NEW n
  PROVE  /\ IsHalf(ParseLocal(d, conf, n)) /\ ParseLocal(d, conf, n).id = n
         /\ IdsOf(ParseLocal(d, conf, n).devices) = {d}
         /\ Len(ParseLocal(d, conf, n).devices) = 2
         /\ IsHalf(ParseRemote(d, conf, n)) /\ ParseRemote(d, conf, n).id = n
         /\ IdsOf(ParseRemote(d, conf, n).devices) = {d, Unknown}
<1>1. ASSUME NEW a, NEW b, "id" \in DOMAIN a, "id" \in DOMAIN b, NEW ds,
             ds = <<a, b>> \/ ds = [k \in 1..2 |-> IF k = 1 THEN a ELSE b]
      PROVE  IsEnds(ds) /\ IdsOf(ds) = {a.id, b.id} /\ Len(ds) = 2
  <2>1. DOMAIN ds = 1..2 /\ ds[1] = a /\ ds[2] = b /\ ds \in Seq({a, b}) /\ Len(ds) = 2
    <3>1. CASE ds = <<a, b>>
      BY <3>1
    <3>2. CASE ds = [k \in 1..2 |-> IF k = 1 THEN a ELSE b]
      <4>1. ds \in [1..2 -> {a, b}] /\ ds[1] = a /\ ds[2] = b /\ DOMAIN ds = 1..2
        BY <3>2
      <4>2. \A m \in Nat : \A f \in [1..m -> {a, b}] : f \in Seq({a, b}) /\ Len(f) = m
        OBVIOUS
      <4> QED BY <4>1, <4>2
    <3> QED BY <1>1, <3>1, <3>2
  <2>2. \A k \in 1..2 : k = 1 \/ k = 2
    OBVIOUS
  <2>3. \A x : x \in Range(ds) <=> x = a \/ x = b
    BY <2>1, <2>2 DEF Range
  <2> QED BY <1>1, <2>1, <2>3 DEF IsEnds, IdsOf
<1>2. \A node, cf, p, ip : "id" \in DOMAIN EndRead(node, cf, p, ip)
                           /\ EndRead(node, cf, p, ip).id = node
  BY DEF EndRead
<1>3. "id" \in DOMAIN UnknownEnd /\ UnknownEnd.id = Unknown
  BY DEF UnknownEnd
<1>4. /\ IsHalf(ParseLocal(d, conf, n)) /\ ParseLocal(d, conf, n).id = n
      /\ IdsOf(ParseLocal(d, conf, n).devices) = {d}
      /\ Len(ParseLocal(d, conf, n).devices) = 2
  <2> DEFINE pts == conf[Instance(n)].points
             e(k) == EndRead(d, conf, pts[k], None)
             ds == [k \in 1..2 |-> e(k)]
             es == [k \in 1..2 |-> IF k = 1 THEN e(1) ELSE e(2)]
  <2>1. ParseLocal(d, conf, n) = [id |-> n, vccid |-> None, mtu |-> 0, devices |-> ds]
    BY DEF ParseLocal
  <2> HIDE DEF e
  <2>2. \A k \in 1..2 : ds[k] = es[k]
    <3>1. \A k \in 1..2 : k = 1 \/ k = 2
      OBVIOUS
    <3> QED BY <3>1
  <2>3. ds = es
    BY <2>2
  <2> HIDE DEF ds
  <2>4. e(1).id = d /\ e(2).id = d /\ "id" \in DOMAIN e(1) /\ "id" \in DOMAIN e(2)
    BY <1>2 DEF e
  <2>5. IsEnds(ds) /\ IdsOf(ds) = {e(1).id, e(2).id} /\ Len(ds) = 2
    BY <1>1, <2>3, <2>4
  <2> QED BY <2>1, <2>4, <2>5 DEF IsHalf
<1>5. /\ IsHalf(ParseRemote(d, conf, n)) /\ ParseRemote(d, conf, n).id = n
      /\ IdsOf(ParseRemote(d, conf, n).devices) = {d, Unknown}
  <2> DEFINE ni     == conf[Instance(n)]
             remote == PointsOf(ni, "REMOTE")[1]
             e      == EndRead(d, conf, PointsOf(ni, "LOCAL")[1], remote.system)
             ds     == <<e, UnknownEnd>>
             mtu    == IF ni.mtu = None THEN 0 ELSE ni.mtu
  <2>1. ParseRemote(d, conf, n) = [id |-> n, vccid |-> remote.vccid, mtu |-> mtu, devices |-> ds]
    BY DEF ParseRemote
  <2>2. e.id = d /\ "id" \in DOMAIN e
    BY <1>2
  <2> HIDE DEF e, mtu, remote
  <2>3. IsEnds(ds) /\ IdsOf(ds) = {e.id, UnknownEnd.id}
    BY <1>1, <1>3, <2>2
  <2> HIDE DEF ds
  <2> QED BY <1>3, <2>1, <2>2, <2>3 DEF IsHalf
<1> QED BY <1>4, <1>5

\* What is read of a node that is listed.
LocalRead(store, l)  == ParseLocal(l.node, store[l.node], l.name)
RemoteRead(store, l) == ParseRemote(l.node, store[l.node], l.name)
LocalServices(store, ll) == {LocalRead(store, l) : l \in Range(ll)}
RemoteHalves(store, rl)  == [k \in DOMAIN rl |-> RemoteRead(store, rl[k])]

\* It names the node itself, at both ends or at one.
LEMMA ListedLocalIds ==
  ASSUME NEW store, NEW n, NEW d
  PROVE  LET s == LocalRead(store, Listed(d, n)) IN
         IsHalf(s) /\ s.id = n /\ IdsOf(s.devices) = {d}
<1> DEFINE c == store[d]
<1>1. LocalRead(store, Listed(d, n)) = ParseLocal(d, c, n)
  BY DEF Listed, LocalRead
<1> HIDE DEF c
<1>2. /\ IsHalf(ParseLocal(d, c, n)) /\ ParseLocal(d, c, n).id = n
      /\ IdsOf(ParseLocal(d, c, n).devices) = {d}
  BY ParsedIds
<1> QED BY <1>1, <1>2

\* The same, of a node with one end.
LEMMA ListedRemoteIds ==
  ASSUME NEW store, NEW n, NEW d
  PROVE  LET s == RemoteRead(store, Listed(d, n)) IN
         IsHalf(s) /\ s.id = n /\ IdsOf(s.devices) = {d, Unknown}
<1> DEFINE c == store[d]
<1>1. RemoteRead(store, Listed(d, n)) = ParseRemote(d, c, n)
  BY DEF Listed, RemoteRead
<1> HIDE DEF c
<1>2. /\ IsHalf(ParseRemote(d, c, n)) /\ ParseRemote(d, c, n).id = n
      /\ IdsOf(ParseRemote(d, c, n).devices) = {d, Unknown}
  BY ParsedIds
<1> QED BY <1>1, <1>2

\* The halves of remote services under a name: they make one service, with the
\* nodes that have such a half.
LEMMA RemoteIds ==
  ASSUME NEW store, NEW n, NEW rl, Lists(rl, store, n, "REMOTE")
  PROVE  LET remotes == OfType(store, n, "REMOTE")
             B == Aggregate(RemoteHalves(store, rl), "id")
         IN /\ IsFiniteSet(B) /\ (remotes # {} => B # {})
            /\ \A s \in B : /\ IsHalf(s) /\ s.id = n /\ remotes # {}
                            /\ \A d : d # Unknown => (d \in IdsOf(s.devices) <=> d \in remotes)
<1> DEFINE remotes == OfType(store, n, "REMOTE")
           PR(l) == RemoteRead(store, l)
           halves == RemoteHalves(store, rl)
           B == Aggregate(halves, "id")
<1> HIDE DEF B, halves, remotes
<1>3. \A d : /\ IsHalf(PR(Listed(d, n))) /\ PR(Listed(d, n)).id = n
             /\ IdsOf(PR(Listed(d, n)).devices) = {d, Unknown}
  BY ListedRemoteIds
<1> HIDE DEF PR
<1>5. Len(rl) \in Nat /\ DOMAIN rl = 1..Len(rl)
  BY DEF Lists
<1> HIDE DEF PR
<1>6. /\ \A k \in 1..Len(rl) : \E d \in remotes : rl[k] = Listed(d, n)
      /\ \A d \in remotes : \E k \in 1..Len(rl) : rl[k] = Listed(d, n)
  <2>1. \A x : x \in Range(rl) <=> \E k \in 1..Len(rl) : x = rl[k]
    BY <1>5 DEF Range
  <2> QED BY <2>1 DEF remotes, Lists
<1>7. /\ \E S : halves \in Seq(S)
      /\ Len(halves) = Len(rl) /\ \A k \in 1..Len(rl) : halves[k] = PR(rl[k])
  <2> DEFINE S == {PR(rl[k]) : k \in 1..Len(rl)}
  <2>0. halves = [k \in DOMAIN rl |-> PR(rl[k])]
    BY DEF halves, RemoteHalves, PR
  <2>1. halves \in [1..Len(rl) -> S]
    BY <1>5, <2>0
  <2>2. \A k \in 1..Len(rl) : halves[k] = PR(rl[k])
    BY <1>5, <2>0
  <2> HIDE DEF S
  <2>3. \A m \in Nat : \A f \in [1..m -> S] : f \in Seq(S) /\ Len(f) = m
    OBVIOUS
  <2> QED BY <1>5, <2>1, <2>2, <2>3
<1>8. \A k \in 1..Len(halves) : IsHalf(halves[k]) /\ halves[k].id = n
  BY <1>3, <1>6, <1>7
<1>9. \A d : d # Unknown =>
        ((\E k \in 1..Len(halves) : d \in IdsOf(halves[k].devices)) <=> d \in remotes)
  <2> TAKE d
  <2> HAVE d # Unknown
  <2>1. ASSUME NEW k \in 1..Len(halves), d \in IdsOf(halves[k].devices) PROVE d \in remotes
    <3>1. PICK e \in remotes : halves[k] = PR(Listed(e, n))
      BY <1>6, <1>7
    <3> QED BY <1>3, <2>1, <3>1
  <2>2. ASSUME d \in remotes PROVE \E k \in 1..Len(halves) : d \in IdsOf(halves[k].devices)
    <3>1. PICK k \in 1..Len(halves) : halves[k] = PR(Listed(d, n))
      BY <1>6, <1>7, <2>2
    <3> QED BY <1>3, <3>1
  <2> QED BY <2>1, <2>2
<1>10. halves # <<>> <=> remotes # {}
  <2>1. PICK S : halves \in Seq(S)
    BY <1>7
  <2>2. halves # <<>> => Len(halves) # 0 /\ 1 \in 1..Len(halves)
    BY <1>5, <1>7, <2>1, EmptySeq
  <2>3. halves = <<>> => Len(halves) = 0
    OBVIOUS
  <2>4. Len(halves) = 0 => remotes = {}
    BY <1>6, <1>7
  <2>5. halves # <<>> => remotes # {}
    BY <1>6, <1>7, <2>2
  <2> QED BY <2>3, <2>4, <2>5
<1>11. AllHalves(halves, n)
  BY <1>7, <1>8 DEF AllHalves
<1>12. /\ IsFiniteSet(B)
       /\ halves # <<>> => B # {}
       /\ \A s \in B :
             /\ IsHalf(s) /\ s.id = n /\ halves # <<>>
             /\ \A d : d # Unknown =>
                  (d \in IdsOf(s.devices)
                     <=> \E k \in 1..Len(halves) : d \in IdsOf(halves[k].devices))
  <2> DEFINE h == halves
  <2>1. AllHalves(h, n)
    BY <1>11
  <2> HIDE DEF h
  <2>2. IsFiniteSet(Aggregate(h, "id")) /\ (h # <<>> => Aggregate(h, "id") # {})
    BY <2>1, AggregateIds
  <2>3. ASSUME NEW s \in Aggregate(h, "id")
        PROVE  /\ IsHalf(s) /\ s.id = n /\ h # <<>>
               /\ \A d : d # Unknown =>
                    (d \in IdsOf(s.devices) <=> \E k \in 1..Len(h) : d \in IdsOf(h[k].devices))
    BY <2>1, AggregateIds
  <2> QED BY <2>2, <2>3 DEF B, h
<1>13. /\ IsFiniteSet(B) /\ (remotes # {} => B # {})
       /\ \A s \in B : /\ IsHalf(s) /\ s.id = n /\ remotes # {}
                       /\ \A d : d # Unknown => (d \in IdsOf(s.devices) <=> d \in remotes)
  BY <1>9, <1>10, <1>12
<1> QED BY <1>13 DEF B, remotes, halves

\* The services of one node: each has this node at both ends.
LEMMA LocalIds ==
  ASSUME NEW store, NEW n, NEW ll, Lists(ll, store, n, "LOCAL")
  PROVE  LET A == LocalServices(store, ll) IN
         /\ IsFiniteSet(A)
         /\ \A x : x \in A <=> \E d \in OfType(store, n, "LOCAL") : x = LocalRead(store, Listed(d, n))
<1> DEFINE A == LocalServices(store, ll)
<1>1. Len(ll) \in Nat /\ DOMAIN ll = 1..Len(ll)
  BY DEF Lists
<1>2. IsFiniteSet(A)
  <2> DEFINE f == [k \in 1..Len(ll) |-> LocalRead(store, ll[k])]
  <2>1. A = {LocalRead(store, ll[k]) : k \in 1..Len(ll)}
    BY <1>1 DEF Range, LocalServices
  <2>2. f \in Surjection(1..Len(ll), A)
    BY <2>1 DEF Surjection
  <2>3. IsFiniteSet(1..Len(ll))
    BY <1>1, FS_Interval
  <2> HIDE DEF f, A
  <2> QED BY <2>2, <2>3, FS_Surjection
<1> QED BY <1>2 DEF LocalServices, Lists

\* The services that are read under a name: one for every node with both ends,
\* and one for all the nodes with one.
LEMMA ReadIds ==
  ASSUME NEW store, NEW n
  PROVE  LET read == VllReadAll(store, NodeOrder, {n}, "id")
             locals == OfType(store, n, "LOCAL")
             remotes == OfType(store, n, "REMOTE")
         IN /\ IsFiniteSet(read)
            /\ \A d \in locals : \E s \in read : IdsOf(s.devices) = {d}
            /\ remotes # {} => \E s \in read : \A d \in Node : d \in IdsOf(s.devices) <=> d \in remotes
            /\ \A s \in read :
                 /\ IsHalf(s) /\ s.id = n
                 /\ \/ \E d \in locals : IdsOf(s.devices) = {d}
                    \/ /\ remotes # {}
                       /\ \A d : d # Unknown => (d \in IdsOf(s.devices) <=> d \in remotes)
<1> DEFINE locals == OfType(store, n, "LOCAL")
           remotes == OfType(store, n, "REMOTE")
           ll == VllsOf(store, NodeOrder, {n}, "LOCAL")
           rl == VllsOf(store, NodeOrder, {n}, "REMOTE")
           A == LocalServices(store, ll)
           B == Aggregate(RemoteHalves(store, rl), "id")
           read == VllReadAll(store, NodeOrder, {n}, "id")
           PL(d) == LocalRead(store, Listed(d, n))
<1>1. Lists(ll, store, n, "LOCAL") /\ Lists(rl, store, n, "REMOTE")
  BY VllsListed
<1>2. read = {ServiceToDict(s) : s \in A \cup B}
  BY DEF VllReadAll, LocalRead, RemoteRead, LocalServices, RemoteHalves
<1>3. Unknown \notin Node
  BY NodeAssumption
<1> HIDE DEF ll, rl, read
<1>4. IsFiniteSet(A) /\ \A x : x \in A <=> \E d \in locals : x = PL(d)
  BY <1>1, LocalIds
<1>5. \A d : IsHalf(PL(d)) /\ PL(d).id = n /\ IdsOf(PL(d).devices) = {d}
  BY ListedLocalIds
<1> HIDE DEF PL, A
<1>11. /\ IsFiniteSet(B) /\ (remotes # {} => B # {})
       /\ \A s \in B : /\ IsHalf(s) /\ s.id = n /\ remotes # {}
                       /\ \A d : d # Unknown => (d \in IdsOf(s.devices) <=> d \in remotes)
  BY <1>1, RemoteIds
<1> HIDE DEF B
<1>13. IsFiniteSet(read)
  <2> DEFINE C == A \cup B
             f == [s \in C |-> ServiceToDict(s)]
  <2>1. IsFiniteSet(C)
    BY <1>4, <1>11, FS_Union
  <2>2. f \in Surjection(C, read)
    BY <1>2 DEF Surjection
  <2> HIDE DEF f, C
  <2> QED BY <2>1, <2>2, FS_Surjection
<1>14. \A s : IsHalf(s) => LET r == ServiceToDict(s) IN
                           IsHalf(r) /\ r.id = s.id /\ IdsOf(r.devices) = IdsOf(s.devices)
  BY DictIds
<1>15. \A d \in locals : \E s \in read : IdsOf(s.devices) = {d}
  <2> TAKE d \in locals
  <2>1. PL(d) \in A /\ IsHalf(PL(d)) /\ IdsOf(PL(d).devices) = {d}
    BY <1>4, <1>5
  <2>2. ServiceToDict(PL(d)) \in read
    BY <1>2, <2>1
  <2> QED BY <1>14, <2>1, <2>2
<1>16. remotes # {} => \E s \in read : \A d \in Node : d \in IdsOf(s.devices) <=> d \in remotes
  <2> HAVE remotes # {}
  <2>1. PICK s : s \in B
    BY <1>11
  <2>2. ServiceToDict(s) \in read
    BY <1>2, <2>1
  <2> QED BY <1>3, <1>11, <1>14, <2>1, <2>2
<1>17. ASSUME NEW r \in read
       PROVE /\ IsHalf(r) /\ r.id = n
             /\ \/ \E d \in locals : IdsOf(r.devices) = {d}
                \/ /\ remotes # {}
                   /\ \A d : d # Unknown => (d \in IdsOf(r.devices) <=> d \in remotes)
  <2>1. PICK s \in A \cup B : r = ServiceToDict(s)
    BY <1>2
  <2>2. CASE s \in A
    <3>1. PICK d \in locals : s = PL(d)
      BY <1>4, <2>2
    <3>2. IsHalf(s) /\ s.id = n /\ IdsOf(s.devices) = {d}
      BY <1>5, <3>1
    <3>3. IsHalf(r) /\ r.id = n /\ IdsOf(r.devices) = {d}
      BY <1>14, <2>1, <3>2
    <3> QED BY <3>3
  <2>3. CASE s \in B
    BY <1>11, <1>14, <2>1, <2>3
  <2> QED BY <2>1, <2>2, <2>3
<1> HIDE DEF locals, remotes
<1>18. QED
  BY <1>13, <1>15, <1>16, <1>17 DEF locals, remotes, read

\* What a deletion finds, whatever else the nodes hold: a service that alone is
\* read under a name, and has two ends, has them on the nodes with an instance
\* of this name, on all of them, and there is one.
THEOREM FoundIds ==
  ASSUME NEW store, NEW n,
         \A d \in Node : InstanceOK(store[d][Instance(n)]),
         Cardinality(VllReadAll(store, NodeOrder, {n}, "id")) = 1,
         NEW s \in VllReadAll(store, NodeOrder, {n}, "id")
  PROVE  /\ s.id = n
         /\ Len(s.devices) = 2 =>
              EndIds(s) \ {Unknown} = Holders(store, n) /\ Holders(store, n) # {}
<1> DEFINE read == VllReadAll(store, NodeOrder, {n}, "id")
           locals == OfType(store, n, "LOCAL")
           remotes == OfType(store, n, "REMOTE")
<1>1. /\ IsFiniteSet(read)
      /\ \A d \in locals : \E r \in read : IdsOf(r.devices) = {d}
      /\ remotes # {} => \E r \in read : \A d \in Node : d \in IdsOf(r.devices) <=> d \in remotes
      /\ IsHalf(s) /\ s.id = n
      /\ \/ \E d \in locals : IdsOf(s.devices) = {d}
         \/ /\ remotes # {}
            /\ \A d : d # Unknown => (d \in IdsOf(s.devices) <=> d \in remotes)
  BY ReadIds
<1>2. \A r \in read : r = s
  <2>1. \E x : read = {x}
    BY <1>1, FS_Singleton
  <2> QED BY <2>1
<1>3. locals \subseteq Node /\ remotes \subseteq Node /\ locals \cap remotes = {}
      /\ Holders(store, n) = locals \cup remotes /\ Unknown \notin Node
  <2>1. locals \subseteq Node /\ remotes \subseteq Node /\ locals \cap remotes = {}
    BY DEF OfType
  <2>2. \A d : d \in Holders(store, n) <=> d \in locals \/ d \in remotes
    BY DEF OfType, Holders, InstanceOK, VllShaped
  <2> QED BY <2>1, <2>2, NodeAssumption
<1> HIDE DEF read, locals, remotes
<1>4. ASSUME Len(s.devices) = 2
      PROVE  EndIds(s) = IdsOf(s.devices)
  <2>1. PICK S : s.devices \in Seq(S)
    BY <1>1 DEF IsHalf, IsEnds
  <2>2. DOMAIN s.devices = 1..2 /\ 1 \in 1..2 /\ 2 \in 1..2 /\ \A k \in 1..2 : k = 1 \/ k = 2
    BY <1>4, <2>1
  <2>3. \A x : x \in Range(s.devices) <=> x = s.devices[1] \/ x = s.devices[2]
    BY <2>2 DEF Range
  <2> QED BY <2>3 DEF EndIds, IdsOf
<1>5. CASE \E d \in locals : IdsOf(s.devices) = {d}
  <2>1. PICK d \in locals : IdsOf(s.devices) = {d}
    BY <1>5
  <2>2. \A e \in locals : e = d
    <3> TAKE e \in locals
    <3>1. IdsOf(s.devices) = {e}
      BY <1>1, <1>2
    <3> QED BY <2>1, <3>1
  <2>3. remotes = {}
    <3>1. SUFFICES ASSUME remotes # {} PROVE FALSE
      OBVIOUS
    <3>2. \A e \in Node : e \in IdsOf(s.devices) <=> e \in remotes
      BY <1>1, <1>2, <3>1
    <3> QED BY <1>3, <2>1, <3>2
  <2> QED BY <1>1, <1>3, <1>4, <2>1, <2>2, <2>3
<1>6. CASE /\ remotes # {}
           /\ \A d : d # Unknown => (d \in IdsOf(s.devices) <=> d \in remotes)
  <2>1. locals = {}
    <3>1. SUFFICES ASSUME NEW d \in locals PROVE FALSE
      OBVIOUS
    <3>2. IdsOf(s.devices) = {d}
      BY <1>1, <1>2
    <3> QED BY <1>3, <1>6, <3>2
  <2>2. IdsOf(s.devices) \ {Unknown} = remotes
    BY <1>3, <1>6
  <2> QED BY <1>1, <1>3, <1>4, <1>6, <2>1, <2>2
<1> QED BY <1>1, <1>5, <1>6
=============================================================================
