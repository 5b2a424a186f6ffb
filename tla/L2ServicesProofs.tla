--------------------------- MODULE L2ServicesProofs ---------------------------
(* Proofs about L2Services: whatever mixture of VLL, VPLS and BI tasks shares *)
(* the nodes, nothing is left for somebody else's commit but for the reasons  *)
(* that the services have.                                                    *)
(*                                                                            *)
(* The argument is that of VllServiceProofs, with what the other two services *)
(* add: programs for any number of ends, joined by FlattenSeq; calls that     *)
(* withdraw what they could not write; calls whose failure is overlooked; and *)
(* programs that end in an exception with some devices rolled back by none.   *)
(* Contents play no part in it, so a step is only asked to be a record.       *)
(*                                                                            *)
(* The second half is about contents: BI tasks that are alone on their nodes  *)
(* bring all ends of their service to the network or none.  First what a      *)
(* program of BI writes of the parts of its ends before each of its commits,  *)
(* then that this is kept up while the program goes on, call by call.         *)
EXTENDS L2Services, VllServiceProofs

-----------------------------------------------------------------------------
(* Sequences of whatever elements *)

IsProgram(p) == \E S : p \in Seq(S)

\* A function over 1..n is a sequence.
LEMMA ListIsProgram ==
  ASSUME NEW S, NEW n \in Nat, NEW f \in [1..n -> S]
  PROVE  f \in Seq(S) /\ Len(f) = n
BY SeqDef

\* A program that is not over has a first step and a rest.
LEMMA ProgramTail ==
  ASSUME NEW p, IsProgram(p), p # <<>>
  PROVE  /\ Len(p) \in Nat \ {0} /\ Head(p) = p[1]
         /\ IsProgram(Tail(p)) /\ Len(Tail(p)) = Len(p) - 1
         /\ \A k \in 1..(Len(p) - 1) : Tail(p)[k] = p[k + 1]
<1>1. PICK S : p \in Seq(S)
  BY DEF IsProgram
<1>2. Tail(p) \in Seq(S)
  BY <1>1
<1> QED BY <1>1, <1>2 DEF IsProgram

\* Programs in a row.
LEMMA ProgramConcat ==
  ASSUME NEW p, NEW q, IsProgram(p), IsProgram(q)
  PROVE  /\ IsProgram(p \o q) /\ Len(p \o q) = Len(p) + Len(q)
         /\ Len(p) \in Nat /\ Len(q) \in Nat
         /\ \A k \in 1..Len(p) : (p \o q)[k] = p[k]
         /\ \A k \in 1..(Len(p) + Len(q)) : k > Len(p) =>
              (p \o q)[k] = q[k - Len(p)] /\ k - Len(p) \in 1..Len(q)
<1>1. PICK S : p \in Seq(S)
  BY DEF IsProgram
<1>2. PICK T : q \in Seq(T)
  BY DEF IsProgram
<1>3. p \in Seq(S \cup T) /\ q \in Seq(S \cup T)
  <2>1. Len(p) \in Nat /\ Len(q) \in Nat
    BY <1>1, <1>2
  <2>2. p \in [1..Len(p) -> S \cup T] /\ q \in [1..Len(q) -> S \cup T]
    BY <1>1, <1>2
  <2> QED BY <2>1, <2>2, ListIsProgram
<1>4. p \o q \in Seq(S \cup T)
  BY <1>3
<1> QED BY <1>3, <1>4 DEF IsProgram

\* What sequences over Q are flattened to is a sequence over Q.
LEMMA FlattenSteps ==
  ASSUME NEW Q, NEW ps \in Seq(Seq(Q)) PROVE FlattenSeq(ps) \in Seq(Q)
<1> DEFINE n == Len(ps)
           Def(g) == g = [i \in 1..n |-> IF i = 1 THEN ps[i] ELSE g[i - 1] \o ps[i]]
           f == CHOOSE g : Def(g)
<1>1. n \in Nat
  OBVIOUS
<1>2. CASE n = 0
  <2>1. FlattenSeq(ps) = <<>>
    BY <1>2 DEF FlattenSeq
  <2> QED BY <2>1
<1>3. CASE n # 0
  <2>1. FlattenSeq(ps) = f[n]
    BY <1>3 DEF FlattenSeq
  <2>2. Def(f)
    <3>1. \E g : Def(g)
      BY <1>1, FlattenExists
    <3> HIDE DEF Def
    <3> QED BY <3>1
  <2> HIDE DEF f
  <2> DEFINE T == {i \in 1..n : f[i] \in Seq(Q)}
  <2>3. ASSUME NEW i \in 1..n, \A k \in 1..(i - 1) : k \in T PROVE i \in T
    <3>1. ps[i] \in Seq(Q)
      OBVIOUS
    <3>2. CASE i = 1
      <4>1. f[i] = ps[i]
        BY <2>2, <3>2
      <4> QED BY <3>1, <4>1
    <3>3. CASE i # 1
      <4>1. i - 1 \in 1..(i - 1)
        BY <3>3
      <4>2. i - 1 \in T
        <5> HIDE DEF T
        <5> QED BY <2>3, <4>1
      <4>3. f[i] = f[i - 1] \o ps[i]
        BY <2>2, <3>3
      <4>4. \A u, v \in Seq(Q) : u \o v \in Seq(Q)
        OBVIOUS
      <4> QED BY <3>1, <4>2, <4>3, <4>4
    <3> QED BY <3>2, <3>3
  <2>4. n \in T
    <3>1. \A i \in 1..n : i \in T
      <4> HIDE DEF T, n
      <4> QED BY <1>1, <2>3, Upwards
    <3> QED BY <1>1, <1>3, <3>1
  <2> QED BY <2>1, <2>4
<1> QED BY <1>2, <1>3
-----------------------------------------------------------------------------
(* Steps and programs that roll back what they change *)

\* The reasons for which a call that fails leaves a change of d behind.
Reason(in, s, d) ==
  \/ s.call = "dryrun"
  \/ in.do \in {"write", "erase"}
  \/ in.service = "VLL" /\ MayLeave(in, s, d)
  \/ /\ in.service \in {"VPLS", "BI"} /\ in.do = "create"
     /\ s.call # "rollback" /\ s.undo = s.on /\ d \notin s.on
  \/ /\ in.service = "VPLS" /\ in.do = "remove" /\ d \in in.removed
     /\ s.call = "rollback"

IsStep(s) ==
  \E V : s \in [call : V, on : V, object : V, value : V, undo : V, fails : V]

\* A step about the nodes ids.
Apt(ids, s) ==
  /\ IsStep(s) /\ s.fails \in OnFailure
  /\ Touches(s) => s.on \cap Node \subseteq ids
  /\ s.fails \in {"overlook", "withdraw", "withdraw_abort"} => s.call = "write"
  /\ s.call = "rollback" => s.fails = "abort"

\* It may fail with any of the nodes dirty: those that are not rolled back then
\* are left for a reason.
Sound(in, ids, s) ==
  /\ s.fails = "abort" => \A d \in ids : d \in Restores(s) \/ Reason(in, s, d)
  /\ s.fails = "withdraw_abort" =>
       \A d \in ids : d \in s.undo \/ in.do \in {"write", "erase"}

\* A program that may fail at any step with any of its nodes dirty.
SoundAlways(in, ids, p) ==
  IsProgram(p) /\ \A k \in 1..Len(p) : Apt(ids, p[k]) /\ Sound(in, ids, p[k])

\* A program that may fail at any step when the nodes D are dirty now: at its
\* first steps, which touch nothing, it may be that none are.
SoundFrom(in, ids, p, D) ==
  IsProgram(p) /\ \A k \in 1..Len(p) :
    /\ Apt(ids, p[k])
    /\ \/ Sound(in, ids, p[k])
       \/ /\ D = {} /\ \A j \in 1..(k - 1) : ~Touches(p[j])
          /\ p[k].fails # "withdraw_abort"

\* The step that completes a task.
LastSound(in, ids, s) ==
  \/ in.do \in {"write", "erase"} /\ s.fails \notin {"skip", "withdraw"}
  \/ /\ s.fails = "abort"
     /\ \/ s.call = "rollback"
        \/ s.call = "commit" /\ ids \subseteq s.on
        \/ s.call = "dryrun" /\ in.dryrun
EndSound(in, ids, p) == p # <<>> => LastSound(in, ids, p[Len(p)])

\* A program that is sound with anything dirty is so with little dirty.
LEMMA SoundAlwaysFrom ==
  ASSUME NEW in, NEW ids, NEW p, NEW D, SoundAlways(in, ids, p)
  PROVE  SoundFrom(in, ids, p, D)
BY DEF SoundAlways, SoundFrom

\* The programs of VLL tasks are sound.
LEMMA VllIsSound ==
  ASSUME NEW in, in.service = "VLL", NEW ids, NEW p, NEW D
  PROVE  /\ ProgramOK(in, ids, p, D) => SoundFrom(in, ids, p, D)
         /\ EndsOK(in, ids, p) => EndSound(in, ids, p)
<1>1. ASSUME NEW s \in Step PROVE IsStep(s) /\ s.fails \in OnFailure
  <2>1. PICK V : V = {s.call, s.on, s.object, s.value, s.undo, s.fails}
    OBVIOUS
  <2>2. s = [call |-> s.call, on |-> s.on, object |-> s.object, value |-> s.value,
             undo |-> s.undo, fails |-> s.fails]
    BY DEF Step
  <2>3. /\ s.call \in V /\ s.on \in V /\ s.object \in V /\ s.value \in V /\ s.undo \in V
        /\ s.fails \in V
    BY <2>1
  <2>4. \A c, n, o, v, u, f \in V :
          [call |-> c, on |-> n, object |-> o, value |-> v, undo |-> u, fails |-> f]
            \in [call : V, on : V, object : V, value : V, undo : V, fails : V]
    OBVIOUS
  <2>5. s \in [call : V, on : V, object : V, value : V, undo : V, fails : V]
    BY <2>2, <2>3, <2>4, Zenon
  <2> QED BY <2>5 DEF IsStep, Step
<1>2. ASSUME NEW s, Shape(ids, s) PROVE /\ Apt(ids, s) /\ (Safe(in, ids, s) => Sound(in, ids, s))
                                            /\ s.fails # "withdraw_abort"
  <2>1. s \in Step /\ s.on \subseteq ids /\ s.fails \in {"abort", "ignore", "skip"}
        /\ (s.call = "rollback" => s.fails = "abort")
    BY <1>2 DEF Shape
  <2>2. Apt(ids, s)
    BY <1>1, <2>1 DEF Apt
  <2> QED BY <2>1, <2>2 DEF Safe, Sound, Reason
<1>3. ProgramOK(in, ids, p, D) => SoundFrom(in, ids, p, D)
  BY <1>2 DEF ProgramOK, SoundFrom, IsProgram
<1>4. EndsOK(in, ids, p) => EndSound(in, ids, p)
  BY DEF EndsOK, EndSound, LastOK, LastSound
<1> QED BY <1>3, <1>4

\* Sound programs in a row are sound.
LEMMA ConcatSound ==
  ASSUME NEW in, NEW ids, NEW p, NEW q, SoundAlways(in, ids, p), SoundAlways(in, ids, q)
  PROVE  SoundAlways(in, ids, p \o q)
<1>1. IsProgram(p) /\ IsProgram(q)
  BY DEF SoundAlways
<1>2. ASSUME NEW k \in 1..Len(p \o q)
      PROVE  Apt(ids, (p \o q)[k]) /\ Sound(in, ids, (p \o q)[k])
  <2>1. CASE k \in 1..Len(p)
    BY <1>1, <2>1, ProgramConcat DEF SoundAlways
  <2>2. CASE k \notin 1..Len(p)
    <3>1. (p \o q)[k] = q[k - Len(p)] /\ k - Len(p) \in 1..Len(q)
      BY <1>1, <2>2, ProgramConcat
    <3> QED BY <3>1 DEF SoundAlways
  <2> QED BY <2>1, <2>2
<1> QED BY <1>1, <1>2, ProgramConcat DEF SoundAlways

\* The last step of two programs in a row is that of the second.
LEMMA ConcatEndSound ==
  ASSUME NEW in, NEW ids, NEW p, NEW q, IsProgram(p), IsProgram(q), q # <<>>,
         EndSound(in, ids, q)
  PROVE  EndSound(in, ids, p \o q)
<1>1. Len(q) \in Nat \ {0} /\ Len(p) \in Nat /\ Len(p \o q) = Len(p) + Len(q)
  BY ProgramTail, ProgramConcat
<1>2. Len(p) + Len(q) \in 1..(Len(p) + Len(q)) /\ Len(p) + Len(q) > Len(p)
      /\ (Len(p) + Len(q)) - Len(p) = Len(q)
  BY <1>1
<1>3. (p \o q)[Len(p \o q)] = q[Len(q)]
  BY <1>1, <1>2, ProgramConcat
<1> QED BY <1>3 DEF EndSound

\* A list of n elements.
IsList(ps, n) == ps = [i \in 1..n |-> ps[i]]

\* The steps of programs that are flattened are steps of these programs.
LEMMA FlattenedFrom ==
  ASSUME NEW n \in Nat, NEW ps, IsList(ps, n), \A i \in 1..n : IsProgram(ps[i])
  PROVE  /\ IsProgram(FlattenSeq(ps))
         /\ \A k \in 1..Len(FlattenSeq(ps)) :
              \E i \in 1..n : \E j \in 1..Len(ps[i]) : FlattenSeq(ps)[k] = ps[i][j]
<1> DEFINE Q == UNION {{ps[i][k] : k \in 1..Len(ps[i])} : i \in 1..n}
<1>1. ASSUME NEW i \in 1..n PROVE ps[i] \in Seq(Q)
  <2>1. PICK S : ps[i] \in Seq(S)
    BY DEF IsProgram
  <2>2. Len(ps[i]) \in Nat /\ ps[i] \in [1..Len(ps[i]) -> S]
    BY <2>1
  <2>3. \A k \in 1..Len(ps[i]) : ps[i][k] \in Q
    OBVIOUS
  <2>4. ps[i] \in [1..Len(ps[i]) -> Q]
    BY <2>2, <2>3
  <2> QED BY <2>2, <2>4, ListIsProgram
<1>2. \A q \in Q : \E i \in 1..n : \E j \in 1..Len(ps[i]) : q = ps[i][j]
  OBVIOUS
<1> HIDE DEF Q
<1>3. ps \in Seq(Seq(Q))
  <2>1. ps \in [1..n -> Seq(Q)]
    BY <1>1 DEF IsList
  <2> QED BY <2>1, ListIsProgram
<1> DEFINE f == FlattenSeq(ps)
<1>4. f \in Seq(Q)
  BY <1>3, FlattenSteps
<1> HIDE DEF f
<1>5. \A k \in 1..Len(f) : f[k] \in Q
  BY <1>4
<1>6. /\ IsProgram(f)
      /\ \A k \in 1..Len(f) : \E i \in 1..n : \E j \in 1..Len(ps[i]) : f[k] = ps[i][j]
  BY <1>2, <1>4, <1>5 DEF IsProgram
<1> QED BY <1>6 DEF f

\* The steps of sound programs, flattened, are sound.
LEMMA FlattenSound ==
  ASSUME NEW in, NEW ids, NEW n \in Nat, NEW ps, IsList(ps, n),
         \A i \in 1..n : SoundAlways(in, ids, ps[i])
  PROVE  SoundAlways(in, ids, FlattenSeq(ps))
<1>1. \A i \in 1..n : IsProgram(ps[i])
  BY DEF SoundAlways
<1>2. /\ IsProgram(FlattenSeq(ps))
      /\ \A k \in 1..Len(FlattenSeq(ps)) :
           \E i \in 1..n : \E j \in 1..Len(ps[i]) : FlattenSeq(ps)[k] = ps[i][j]
  BY <1>1, FlattenedFrom
<1> DEFINE f == FlattenSeq(ps)
<1>3. /\ IsProgram(f)
      /\ \A k \in 1..Len(f) : \E i \in 1..n : \E j \in 1..Len(ps[i]) : f[k] = ps[i][j]
  BY <1>2
<1> HIDE DEF f
<1>4. \A i \in 1..n : \A j \in 1..Len(ps[i]) :
        Apt(ids, ps[i][j]) /\ Sound(in, ids, ps[i][j])
  BY DEF SoundAlways
<1>5. ASSUME NEW k \in 1..Len(f) PROVE Apt(ids, f[k]) /\ Sound(in, ids, f[k])
  <2>1. PICK i \in 1..n : \E j \in 1..Len(ps[i]) : f[k] = ps[i][j]
    BY <1>3
  <2>2. PICK j \in 1..Len(ps[i]) : f[k] = ps[i][j]
    BY <2>1
  <2>3. Apt(ids, ps[i][j]) /\ Sound(in, ids, ps[i][j])
    BY <1>4
  <2> QED BY <2>2, <2>3
<1>6. SoundAlways(in, ids, f)
  BY <1>3, <1>5 DEF SoundAlways
<1> QED BY <1>6 DEF f

\* A program goes on after its first step, which made what it is about dirty
\* if it touches it; others may have cleaned nodes.
LEMMA TailSound ==
  ASSUME NEW in, NEW ids, NEW p, p # <<>>, NEW D, SoundFrom(in, ids, p, D),
         EndSound(in, ids, p),
         NEW E, E \subseteq D \cup (IF Touches(Head(p)) THEN Head(p).on ELSE {})
  PROVE  SoundFrom(in, ids, Tail(p), E) /\ EndSound(in, ids, Tail(p))
<1>1. /\ IsProgram(p) /\ Len(p) \in Nat \ {0} /\ Head(p) = p[1]
      /\ IsProgram(Tail(p)) /\ Len(Tail(p)) = Len(p) - 1
  BY ProgramTail DEF SoundFrom
<1>2. \A k \in 1..(Len(p) - 1) : Tail(p)[k] = p[k + 1]
  BY <1>1, ProgramTail
<1>3. ASSUME NEW k \in 1..(Len(p) - 1)
      PROVE  /\ Apt(ids, Tail(p)[k])
             /\ \/ Sound(in, ids, Tail(p)[k])
                \/ /\ E = {} /\ \A j \in 1..(k - 1) : ~Touches(Tail(p)[j])
                   /\ Tail(p)[k].fails # "withdraw_abort"
  <2>1. k + 1 \in 1..Len(p) /\ (k + 1) - 1 = k
    BY <1>1
  <2>2. Apt(ids, p[k + 1])
    BY <2>1 DEF SoundFrom
  <2>3. CASE /\ D = {} /\ \A j \in 1..k : ~Touches(p[j])
             /\ p[k + 1].fails # "withdraw_abort"
    <3>1. ~Touches(p[1])
      BY <2>3
    <3>2. \A j \in 1..(k - 1) : j \in 1..(Len(p) - 1) /\ j + 1 \in 1..k
      BY <1>1
    <3> QED BY <1>1, <1>2, <2>2, <2>3, <3>1, <3>2
  <2>4. CASE Sound(in, ids, p[k + 1])
    BY <1>2, <2>2, <2>4
  <2> QED BY <2>1, <2>3, <2>4 DEF SoundFrom
<1>4. EndSound(in, ids, Tail(p))
  <2>1. CASE Tail(p) = <<>>
    BY <2>1 DEF EndSound
  <2>2. CASE Tail(p) # <<>>
    <3>1. Len(Tail(p)) \in Nat \ {0}
      BY <1>1, <2>2, ProgramTail
    <3>2. Len(p) - 1 \in 1..(Len(p) - 1) /\ (Len(p) - 1) + 1 = Len(p)
      BY <1>1, <3>1
    <3>3. Tail(p)[Len(Tail(p))] = p[Len(p)]
      BY <1>1, <1>2, <3>2
    <3>4. p # <<>>
      OBVIOUS
    <3> QED BY <3>3, <3>4 DEF EndSound
  <2> QED BY <2>1, <2>2
<1> QED BY <1>1, <1>3, <1>4 DEF SoundFrom

\* Fewer nodes may be dirty.
LEMMA FewerDirtySound ==
  ASSUME NEW in, NEW ids, NEW p, NEW D, NEW E \in SUBSET D, SoundFrom(in, ids, p, D)
  PROVE  SoundFrom(in, ids, p, E)
BY DEF SoundFrom

\* A program of two steps.
LEMMA TwoStepsSound ==
  ASSUME NEW in, NEW ids, NEW u, NEW v, Apt(ids, u), Sound(in, ids, u), Apt(ids, v),
         Sound(in, ids, v), NEW D
  PROVE  /\ SoundFrom(in, ids, <<u, v>>, D) /\ SoundAlways(in, ids, <<u, v>>)
         /\ LastSound(in, ids, v) => EndSound(in, ids, <<u, v>>)
<1>1. <<u, v>> \in Seq({u, v}) /\ Len(<<u, v>>) = 2 /\ <<u, v>>[1] = u /\ <<u, v>>[2] = v
  OBVIOUS
<1>2. \A k \in 1..2 : k = 1 \/ k = 2
  OBVIOUS
<1> DEFINE p == <<u, v>>
<1> HIDE DEF p
<1>3. p \in Seq({u, v}) /\ Len(p) = 2 /\ p[1] = u /\ p[2] = v
  BY <1>1 DEF p
<1>4. SoundAlways(in, ids, p) /\ (LastSound(in, ids, v) => EndSound(in, ids, p))
  BY <1>2, <1>3 DEF SoundAlways, EndSound, IsProgram
<1> QED BY <1>4, SoundAlwaysFrom DEF p

\* A program of one step.
LEMMA OneStepSound ==
  ASSUME NEW in, NEW ids, NEW u, Apt(ids, u), Sound(in, ids, u)
  PROVE  /\ SoundAlways(in, ids, <<u>>) /\ <<u>> # <<>>
         /\ LastSound(in, ids, u) => EndSound(in, ids, <<u>>)
<1>1. <<u>> \in Seq({u}) /\ Len(<<u>>) = 1 /\ <<u>>[1] = u /\ <<u>> # <<>>
  OBVIOUS
<1>2. \A k \in 1..1 : k = 1
  OBVIOUS
<1> DEFINE p == <<u>>
<1> HIDE DEF p
<1>3. p \in Seq({u}) /\ Len(p) = 1 /\ p[1] = u /\ p # <<>>
  BY <1>1 DEF p
<1>4. SoundAlways(in, ids, p) /\ (LastSound(in, ids, u) => EndSound(in, ids, p))
  BY <1>2, <1>3 DEF SoundAlways, EndSound, IsProgram
<1> QED BY <1>3, <1>4 DEF p

\* The empty program is sound.
LEMMA EmptySound == \A in, ids : SoundAlways(in, ids, <<>>)
<1>1. <<>> \in Seq({}) /\ Len(<<>>) = 0
  OBVIOUS
<1> QED BY <1>1 DEF SoundAlways, IsProgram

\* The deletion of what could not be written.
LEMMA WithdrawFacts ==
  ASSUME NEW s, IsStep(s)
  PROVE  LET w == [s EXCEPT !.value = None, !.undo = {}, !.fails = "ignore"] IN
         w.call = s.call /\ w.on = s.on /\ w.fails = "ignore" /\ IsStep(w)
<1> DEFINE w == [s EXCEPT !.value = None, !.undo = {}, !.fails = "ignore"]
<1>1. PICK V : s \in [call : V, on : V, object : V, value : V, undo : V, fails : V]
  BY DEF IsStep
<1>2. w.call = s.call /\ w.on = s.on /\ w.fails = "ignore"
  BY <1>1
<1>3. PICK W : W = V \cup {None, {}, "ignore"}
  OBVIOUS
<1>4. w \in [call : W, on : W, object : W, value : W, undo : W, fails : W]
  BY <1>1, <1>3
<1> QED BY <1>2, <1>4 DEF IsStep

\* A call that withdraws its object: the deletion may fail, and the last step
\* of the program follows.
LEMMA WithdrawSound ==
  ASSUME NEW in, NEW ids, NEW p, p # <<>>, NEW D, SoundFrom(in, ids, p, D),
         EndSound(in, ids, p), Head(p).fails = "withdraw"
  PROVE  LET w == [Head(p) EXCEPT !.value = None, !.undo = {}, !.fails = "ignore"]
             q == <<w, Tail(p)[Len(Tail(p))]>>
         IN SoundFrom(in, ids, q, D) /\ EndSound(in, ids, q)
<1> DEFINE s == Head(p)
           w == [s EXCEPT !.value = None, !.undo = {}, !.fails = "ignore"]
           v == Tail(p)[Len(Tail(p))]
<1>1. /\ IsProgram(p) /\ Len(p) \in Nat \ {0} /\ Head(p) = p[1]
      /\ IsProgram(Tail(p)) /\ Len(Tail(p)) = Len(p) - 1
  BY ProgramTail DEF SoundFrom
<1>2. Apt(ids, s) /\ s.call = "write"
  <2>1. 1 \in 1..Len(p)
    BY <1>1
  <2> QED BY <1>1, <2>1 DEF SoundFrom, Apt
<1>3. Len(p) # 1
  BY <1>1 DEF EndSound, LastSound
<1>4. v = p[Len(p)]
  <2>1. Len(p) - 1 \in 1..(Len(p) - 1) /\ (Len(p) - 1) + 1 = Len(p)
    BY <1>1, <1>3
  <2> QED BY <1>1, <2>1, ProgramTail
<1>5. Apt(ids, w) /\ Sound(in, ids, w)
  <2>1. w.call = s.call /\ w.on = s.on /\ w.fails = "ignore" /\ IsStep(w)
    BY <1>2, WithdrawFacts DEF Apt
  <2> HIDE DEF w
  <2> QED BY <1>2, <2>1 DEF Apt, Sound, OnFailure, Touches
<1>6. Apt(ids, v) /\ Sound(in, ids, v)
  <2>1. Len(p) \in 1..Len(p) /\ 1 \in 1..(Len(p) - 1)
    BY <1>1, <1>3
  <2>2. Touches(p[1])
    BY <1>1, <1>2 DEF Touches
  <2> QED BY <1>4, <2>1, <2>2 DEF SoundFrom
<1>7. LastSound(in, ids, v)
  BY <1>4 DEF EndSound
<1> HIDE DEF w, v
<1>8. SoundFrom(in, ids, <<w, v>>, D) /\ EndSound(in, ids, <<w, v>>)
  BY <1>5, <1>6, <1>7, TwoStepsSound
<1> QED BY <1>8 DEF w, v

\* What a rollback is.
LEMMA RollbackFacts ==
  ASSUME NEW x
  PROVE  LET r == Rollback(x) IN
         /\ r.call = "rollback" /\ r.on = x /\ r.fails = "abort" /\ r.undo = {}
         /\ IsStep(r) /\ \A ids : Apt(ids, r)
<1>1. Rollback(x) = [call |-> "rollback", on |-> x, object |-> None, value |-> None,
                     undo |-> {}, fails |-> "abort"]
  BY DEF Rollback, Call
<1>2. IsStep(Rollback(x))
  <2>1. PICK V : V = {"rollback", x, None, {}, "abort"}
    OBVIOUS
  <2>2. Rollback(x) \in [call : V, on : V, object : V, value : V, undo : V, fails : V]
    BY <1>1, <2>1
  <2> QED BY <2>2 DEF IsStep
<1> QED BY <1>1, <1>2 DEF Apt, OnFailure, Touches

\* A call that withdraws its object before the task rolls back and fails.
LEMMA WithdrawAbortSound ==
  ASSUME NEW in, NEW ids, NEW p, p # <<>>, NEW D, SoundFrom(in, ids, p, D),
         Head(p).fails = "withdraw_abort"
  PROVE  LET w == [Head(p) EXCEPT !.value = None, !.undo = {}, !.fails = "ignore"]
             q == <<w, Rollback(Head(p).undo)>>
         IN SoundFrom(in, ids, q, D) /\ EndSound(in, ids, q)
<1> DEFINE s == Head(p)
           w == [s EXCEPT !.value = None, !.undo = {}, !.fails = "ignore"]
           r == Rollback(s.undo)
<1>1. IsProgram(p) /\ Len(p) \in Nat \ {0} /\ Head(p) = p[1]
  BY ProgramTail DEF SoundFrom
<1>2. Apt(ids, s) /\ s.call = "write" /\ Sound(in, ids, s)
  <2>1. 1 \in 1..Len(p)
    BY <1>1
  <2> QED BY <1>1, <2>1 DEF SoundFrom, Apt
<1>3. Apt(ids, w) /\ Sound(in, ids, w)
  <2>1. w.call = s.call /\ w.on = s.on /\ w.fails = "ignore" /\ IsStep(w)
    BY <1>2, WithdrawFacts DEF Apt
  <2> HIDE DEF w
  <2> QED BY <1>2, <2>1 DEF Apt, Sound, OnFailure, Touches
<1>4. Apt(ids, r) /\ Sound(in, ids, r) /\ LastSound(in, ids, r)
  <2>1. r.call = "rollback" /\ r.on = s.undo /\ r.fails = "abort" /\ Apt(ids, r)
    BY RollbackFacts
  <2> HIDE DEF r
  <2> QED BY <1>2, <2>1 DEF Sound, LastSound, Restores, Reason
<1> HIDE DEF w, r
<1>5. SoundFrom(in, ids, <<w, r>>, D) /\ EndSound(in, ids, <<w, r>>)
  BY <1>3, <1>4, TwoStepsSound
<1> QED BY <1>5 DEF w, r
-----------------------------------------------------------------------------
(* The steps of the programs *)

\* What a write is.
LEMMA PutIs ==
  ASSUME NEW id, NEW o, NEW v, NEW undo
  PROVE  LET s == Put(id, o, v, undo) IN
         IsStep(s) /\ s.call = "write" /\ s.on = {id} /\ s.undo = undo /\ s.fails = "abort"
<1>1. PICK V : V = {"write", {id}, o, v, undo, "abort"}
  OBVIOUS
<1>2. Put(id, o, v, undo)
        \in [call : V, on : V, object : V, value : V, undo : V, fails : V]
  BY <1>1 DEF Put
<1> QED BY <1>2 DEF IsStep, Put

\* What a read is.
LEMMA ReadIs ==
  ASSUME NEW id, NEW o, NEW undo
  PROVE  LET s == Read(id, o, undo) IN
         IsStep(s) /\ s.call = "read" /\ s.on = {id} /\ s.undo = undo /\ s.fails = "abort"
<1>1. PICK V : V = {"read", {id}, o, None, undo, "abort"}
  OBVIOUS
<1>2. Read(id, o, undo)
        \in [call : V, on : V, object : V, value : V, undo : V, fails : V]
  BY <1>1 DEF Read
<1> QED BY <1>2 DEF IsStep, Read

\* What a call about several devices is.
LEMMA CallIs ==
  ASSUME NEW call, NEW on, NEW undo
  PROVE  LET s == Call(call, on, undo) IN
         IsStep(s) /\ s.call = call /\ s.on = on /\ s.undo = undo /\ s.fails = "abort"
<1>1. PICK V : V = {call, on, None, undo, "abort"}
  OBVIOUS
<1>2. Call(call, on, undo)
        \in [call : V, on : V, object : V, value : V, undo : V, fails : V]
  BY <1>1 DEF Call
<1> QED BY <1>2 DEF IsStep, Call

\* A step whose failure is dealt with otherwise.
LEMMA FailsIs ==
  ASSUME NEW s, IsStep(s), NEW f
  PROVE  LET u == [s EXCEPT !.fails = f] IN
         IsStep(u) /\ u.call = s.call /\ u.on = s.on /\ u.undo = s.undo /\ u.fails = f
<1> DEFINE u == [s EXCEPT !.fails = f]
<1>1. PICK V : s \in [call : V, on : V, object : V, value : V, undo : V, fails : V]
  BY DEF IsStep
<1>2. u.call = s.call /\ u.on = s.on /\ u.undo = s.undo /\ u.fails = f
  BY <1>1
<1>3. PICK W : W = V \cup {f}
  OBVIOUS
<1>4. u \in [call : W, on : W, object : W, value : W, undo : W, fails : W]
  BY <1>1, <1>3
<1> QED BY <1>2, <1>4 DEF IsStep

\* A device that is named: a node of ids, or not mounted.
Within(ids, id) == id \in Node => id \in ids

\* A rollback that leaves none of the nodes ids, or is not meant to.
Covers(in, ids, undo) == ids \subseteq undo \/ in.do \in {"write", "erase"}

\* Tasks of VPLS and BI that create may reset an end with the rollback of its
\* device only.
MayReset(in) == in.service \in {"VPLS", "BI"} /\ in.do = "create"

\* A step that rolls back all nodes is sound, and so is one that rolls back
\* what it is about while an end is reset.
LEMMA StepSound ==
  ASSUME NEW in, NEW ids, NEW s, IsStep(s), s.call # "rollback", s.fails = "abort",
         Touches(s) => s.on \cap Node \subseteq ids,
         Covers(in, ids, s.undo) \/ (MayReset(in) /\ s.undo = s.on)
  PROVE  Apt(ids, s) /\ Sound(in, ids, s) /\ SoundAlways(in, ids, <<s>>)
<1>1. Apt(ids, s) /\ Sound(in, ids, s)
  BY DEF Apt, Sound, Restores, Reason, OnFailure, Covers, MayReset
<1> QED BY <1>1, OneStepSound

\* A write that rolls back all nodes.
LEMMA WriteSound ==
  ASSUME NEW in, NEW ids, NEW id, Within(ids, id), NEW o, NEW v, NEW undo,
         Covers(in, ids, undo) \/ (MayReset(in) /\ undo = {id})
  PROVE  /\ SoundAlways(in, ids, <<Put(id, o, v, undo)>>)
         /\ SoundAlways(in, ids, <<Delete(id, o, undo)>>)
         /\ Sound(in, ids, Delete(id, o, undo)) /\ Apt(ids, Delete(id, o, undo))
         /\ Sound(in, ids, Put(id, o, v, undo)) /\ Apt(ids, Put(id, o, v, undo))
<1>1. ASSUME NEW x
      PROVE  /\ SoundAlways(in, ids, <<Put(id, o, x, undo)>>)
             /\ Apt(ids, Put(id, o, x, undo)) /\ Sound(in, ids, Put(id, o, x, undo))
  <2> DEFINE s == Put(id, o, x, undo)
  <2>1. IsStep(s) /\ s.call = "write" /\ s.on = {id} /\ s.undo = undo /\ s.fails = "abort"
    BY PutIs
  <2> HIDE DEF s
  <2>2. SoundAlways(in, ids, <<s>>) /\ Apt(ids, s) /\ Sound(in, ids, s)
    BY <2>1, StepSound DEF Within
  <2> QED BY <2>2 DEF s
<1> QED BY <1>1 DEF Delete

\* A step that is never the last to run when it fails, as it does not go on.
LEMMA SkipSound ==
  ASSUME NEW in, NEW ids, NEW id, NEW o
  PROVE  LET s == [Read(id, o, {}) EXCEPT !.fails = "skip"] IN
         Apt(ids, s) /\ Sound(in, ids, s) /\ SoundAlways(in, ids, <<s>>)
<1> DEFINE r == Read(id, o, {})
           s == [r EXCEPT !.fails = "skip"]
<1>1. IsStep(s) /\ s.call = "read" /\ s.fails = "skip"
  <2>1. IsStep(r) /\ r.call = "read"
    BY ReadIs
  <2> HIDE DEF r
  <2> QED BY <2>1, FailsIs
<1> HIDE DEF s
<1>2. Apt(ids, s) /\ Sound(in, ids, s)
  BY <1>1 DEF Apt, Sound, OnFailure, Touches
<1>3. Apt(ids, s) /\ Sound(in, ids, s) /\ SoundAlways(in, ids, <<s>>)
  BY <1>2, OneStepSound
<1> QED BY <1>3 DEF s

\* The policy of an end is reset.
LEMMA ResetPolicySound ==
  ASSUME NEW in, MayReset(in), NEW ids, NEW end, Within(ids, end.id)
  PROVE  SoundAlways(in, ids, ResetPolicy(end, {end.id}))
<1> DEFINE r == [Read(end.id, Policy(end.interface), {}) EXCEPT !.fails = "skip"]
           d == Delete(end.id, Policy(end.interface), {end.id})
<1>1. Apt(ids, r) /\ Sound(in, ids, r)
  BY SkipSound
<1>2. Apt(ids, d) /\ Sound(in, ids, d)
  BY WriteSound
<1> HIDE DEF r, d
<1>3. SoundAlways(in, ids, <<r, d>>)
  BY <1>1, <1>2, TwoStepsSound
<1> QED BY <1>3, EmptySound DEF ResetPolicy, When, r, d

\* An interface, its policies and its spanning tree are written.
LEMMA ConfigureSound ==
  ASSUME NEW in, NEW ids, NEW end, Within(ids, end.id)
  PROVE  /\ SoundAlways(in, ids, PutInterface(end, ids))
         /\ SoundAlways(in, ids, PutMinimalInterface(end, ids))
         /\ SoundAlways(in, ids, PutPolicy(end, ids))
         /\ SoundAlways(in, ids, DisableStp(end))
         /\ SoundAlways(in, ids, Configure(end, ids))
<1>1. Covers(in, ids, ids)
  BY DEF Covers
<1>2. /\ SoundAlways(in, ids, PutInterface(end, ids))
      /\ SoundAlways(in, ids, PutMinimalInterface(end, ids))
  BY <1>1, WriteSound DEF PutInterface, PutMinimalInterface
<1>3. SoundAlways(in, ids, PutPolicy(end, ids))
  BY <1>1, WriteSound, EmptySound DEF PutPolicy, When
<1>4. SoundAlways(in, ids, DisableStp(end))
  <2> DEFINE d == Delete(end.id, Stp(end.interface), {})
             s == [d EXCEPT !.fails = "ignore"]
  <2>1. IsStep(d) /\ d.call = "write" /\ d.on = {end.id}
    BY PutIs DEF Delete
  <2>2. IsStep(s) /\ s.call = "write" /\ s.on = {end.id} /\ s.fails = "ignore"
    <3> HIDE DEF d
    <3> QED BY <2>1, FailsIs
  <2> HIDE DEF s
  <2>3. Apt(ids, s) /\ Sound(in, ids, s)
    BY <2>2 DEF Apt, Sound, OnFailure, Touches, Within
  <2>4. SoundAlways(in, ids, <<s>>)
    BY <2>3, OneStepSound
  <2> QED BY <2>4 DEF DisableStp, s
<1>5. SoundAlways(in, ids, Configure(end, ids))
  BY <1>2, <1>3, <1>4, ConcatSound DEF Configure
<1> QED BY <1>2, <1>3, <1>4, <1>5

\* The commit that ends a reset, and the reading that follows it.
LEMMA CommitSyncSound ==
  ASSUME NEW in, NEW ids, NEW on, on \cap Node \subseteq ids, NEW undo,
         Covers(in, ids, undo) \/ (MayReset(in) /\ undo = on)
  PROVE  SoundAlways(in, ids, <<Commit(on, undo), SyncFromNet(on, undo)>>)
<1>1. ASSUME NEW c \in {"commit", "sync"}
      PROVE  Apt(ids, Call(c, on, undo)) /\ Sound(in, ids, Call(c, on, undo))
  <2> DEFINE s == Call(c, on, undo)
  <2>1. IsStep(s) /\ s.call = c /\ s.on = on /\ s.undo = undo /\ s.fails = "abort"
    BY CallIs
  <2> HIDE DEF s
  <2>2. Apt(ids, s) /\ Sound(in, ids, s)
    BY <2>1, StepSound
  <2> QED BY <2>2 DEF s
<1>2. /\ Apt(ids, Commit(on, undo)) /\ Sound(in, ids, Commit(on, undo))
      /\ Apt(ids, SyncFromNet(on, undo)) /\ Sound(in, ids, SyncFromNet(on, undo))
  BY <1>1 DEF Commit, SyncFromNet
<1> QED BY <1>2, TwoStepsSound

\* The end of a task: a commit of all its nodes, or a dry run.
LEMMA FinishSound ==
  ASSUME NEW in, NEW ids
  PROVE  LET f == Finish(in.dryrun, ids) IN
         SoundAlways(in, ids, f) /\ EndSound(in, ids, f) /\ f # <<>>
<1>1. CASE in.dryrun
  <2> DEFINE s == DryRun(ids)
  <2>1. IsStep(s) /\ s.call = "dryrun" /\ s.fails = "abort"
    BY CallIs DEF DryRun
  <2> HIDE DEF s
  <2>2. Apt(ids, s) /\ Sound(in, ids, s) /\ LastSound(in, ids, s)
    BY <1>1, <2>1 DEF Apt, Sound, LastSound, Reason, OnFailure, Touches
  <2>3. SoundAlways(in, ids, <<s>>) /\ EndSound(in, ids, <<s>>) /\ <<s>> # <<>>
    BY <2>2, OneStepSound
  <2> QED BY <1>1, <2>3 DEF Finish, s
<1>2. CASE ~in.dryrun
  <2> DEFINE s == Commit(ids, ids)
  <2>1. IsStep(s) /\ s.call = "commit" /\ s.on = ids /\ s.undo = ids /\ s.fails = "abort"
    BY CallIs DEF Commit
  <2> HIDE DEF s
  <2>2. Apt(ids, s) /\ Sound(in, ids, s) /\ LastSound(in, ids, s)
    BY <2>1 DEF Apt, Sound, LastSound, Restores, OnFailure, Touches
  <2>3. SoundAlways(in, ids, <<s>>) /\ EndSound(in, ids, <<s>>) /\ <<s>> # <<>>
    BY <2>2, OneStepSound
  <2> QED BY <1>2, <2>3 DEF Finish, s
<1> QED BY <1>1, <1>2

\* A sound program with the end of a task.
LEMMA FinishedSound ==
  ASSUME NEW in, NEW ids, NEW p, SoundAlways(in, ids, p)
  PROVE  LET q == p \o Finish(in.dryrun, ids) IN
         SoundFrom(in, ids, q, {}) /\ EndSound(in, ids, q)
<1> DEFINE f == Finish(in.dryrun, ids)
<1>1. SoundAlways(in, ids, f) /\ EndSound(in, ids, f) /\ f # <<>>
  BY FinishSound
<1> HIDE DEF f
<1>2. SoundAlways(in, ids, p \o f)
  BY <1>1, ConcatSound
<1>3. EndSound(in, ids, p \o f)
  BY <1>1, ConcatEndSound DEF SoundAlways
<1> QED BY <1>2, <1>3, SoundAlwaysFrom DEF f

\* A program of a task that only writes, whose steps all roll back nothing.
LEMMA WritesSound ==
  ASSUME NEW in, in.do \in {"write", "erase"}, NEW ids, NEW p, SoundAlways(in, ids, p),
         \A k \in 1..Len(p) : p[k].fails \in {"abort", "withdraw_abort"}
  PROVE  SoundFrom(in, ids, p, {}) /\ EndSound(in, ids, p)
<1>1. CASE p # <<>>
  <2>1. Len(p) \in Nat \ {0}
    BY <1>1, ProgramTail DEF SoundAlways
  <2>2. Len(p) \in 1..Len(p)
    BY <2>1
  <2> QED BY <2>2, SoundAlwaysFrom DEF EndSound, LastSound
<1> QED BY <1>1, SoundAlwaysFrom DEF EndSound
-----------------------------------------------------------------------------
(* The devices of a service *)

\* The orders of a finite set are lists of its elements.
LEMMA OrderFacts ==
  ASSUME NEW S, IsFiniteSet(S)
  PROVE  /\ Cardinality(S) \in Nat
         /\ \A o \in SetToSeqs(S) :
              IsList(o, Cardinality(S)) /\ \A k \in 1..Cardinality(S) : o[k] \in S
         /\ SetToSeq(S) \in Seq(S)
<1> DEFINE n == Cardinality(S)
           F == {f \in [1..n -> S] : IsInjective(f)}
<1>1. n \in Nat /\ ExistsBijection(1..n, S)
  BY FS_CardinalityType
<1>2. F # {}
  <2> HIDE DEF n
  <2> QED BY <1>1 DEF ExistsBijection, Bijection, Injection
<1>3. SetToSeq(S) \in [1..n -> S]
  <2>1. SetToSeq(S) = CHOOSE f \in [1..n -> S] : IsInjective(f)
    BY DEF SetToSeq
  <2> HIDE DEF n
  <2> QED BY <1>2, <2>1
<1>4. \A o \in SetToSeqs(S) : o \in [1..n -> S]
  BY DEF SetToSeqs
<1> HIDE DEF n
<1>5. SetToSeq(S) \in Seq(S)
  BY <1>1, <1>3, ListIsProgram
<1>6. \A o \in SetToSeqs(S) : IsList(o, n) /\ \A k \in 1..n : o[k] \in S
  BY <1>4 DEF IsList
<1> QED BY <1>1, <1>5, <1>6 DEF n

\* A sequence has finitely many elements, and devices.
LEMMA EndsFacts ==
  ASSUME NEW S, NEW ends \in Seq(S)
  PROVE  /\ Len(ends) \in Nat /\ DOMAIN ends = 1..Len(ends)
         /\ IsFiniteSet(VplsIds(ends))
         /\ \A k \in 1..Len(ends) : \A ids : VplsIds(ends) \subseteq ids =>
              Within(ids, ends[k].id)
<1>1. Len(ends) \in Nat /\ DOMAIN ends = 1..Len(ends)
  OBVIOUS
<1> DEFINE I == {ends[k].id : k \in 1..Len(ends)}
           f == [k \in 1..Len(ends) |-> ends[k].id]
<1>2. IsFiniteSet(1..Len(ends))
  BY <1>1, FS_Interval
<1>3. f \in Surjection(1..Len(ends), I)
  BY DEF Surjection
<1>4. IsFiniteSet(I)
  <2> HIDE DEF f, I
  <2> QED BY <1>2, <1>3, FS_Surjection
<1>5. VplsIds(ends) = I \ {Unknown}
  BY <1>1 DEF VplsIds
<1>6. IsFiniteSet(VplsIds(ends))
  <2>1. VplsIds(ends) \in SUBSET I
    BY <1>5
  <2> HIDE DEF I
  <2> QED BY <1>4, <2>1, FS_Subset
<1>7. ASSUME NEW k \in 1..Len(ends), NEW ids, VplsIds(ends) \subseteq ids
      PROVE  Within(ids, ends[k].id)
  BY <1>5, <1>7, NodeAssumption DEF Within
<1> QED BY <1>1, <1>6, <1>7

\* The devices of a service that was found are finitely many.
LEMMA KnownFinite ==
  ASSUME NEW s, IsFiniteSet(s.devices)
  PROVE  IsFiniteSet(KnownIds(s))
<1> DEFINE I == {e.id : e \in s.devices}
           f == [e \in s.devices |-> e.id]
<1>1. f \in Surjection(s.devices, I)
  BY DEF Surjection
<1>2. IsFiniteSet(I)
  <2> HIDE DEF f, I
  <2> QED BY <1>1, FS_Surjection
<1>3. KnownIds(s) \in SUBSET I
  BY DEF KnownIds
<1> HIDE DEF I
<1> QED BY <1>2, <1>3, FS_Subset

-----------------------------------------------------------------------------
(* The programs of VPLS *)

\* An interface is read.
LEMMA ReadSound ==
  ASSUME NEW in, NEW ids, NEW end
  PROVE  SoundAlways(in, ids, ReadInterface(end, ids))
<1> DEFINE s == Read(end.id, Port(end.interface), ids)
<1>1. IsStep(s) /\ s.call = "read" /\ s.undo = ids /\ s.fails = "abort"
  BY ReadIs
<1> HIDE DEF s
<1>2. SoundAlways(in, ids, <<s>>)
  BY <1>1, StepSound DEF Touches, Covers
<1> QED BY <1>2 DEF ReadInterface, s

\* An interface is deleted.
LEMMA DeleteInterfaceSound ==
  ASSUME NEW in, MayReset(in), NEW ids, NEW end, Within(ids, end.id)
  PROVE  /\ SoundAlways(in, ids, DeleteInterface(end, {end.id}))
         /\ SoundAlways(in, ids, DeleteInterface(end, ids))
<1>1. Covers(in, ids, ids)
  BY DEF Covers
<1> QED BY <1>1, WriteSound DEF DeleteInterface

\* An end is reset, on its device alone.
LEMMA ResetVplsSound ==
  ASSUME NEW in, MayReset(in), NEW ids, NEW end, Within(ids, end.id)
  PROVE  SoundAlways(in, ids, ResetVplsEnd(end))
<1>1. SoundAlways(in, ids, ResetPolicy(end, {end.id}))
  BY ResetPolicySound
<1>2. SoundAlways(in, ids, DeleteInterface(end, {end.id}))
  BY DeleteInterfaceSound
<1>3. SoundAlways(in, ids, <<Commit({end.id}, {end.id}), SyncFromNet({end.id}, {end.id})>>)
  <2>1. {end.id} \cap Node \subseteq ids
    BY DEF Within
  <2> QED BY <2>1, CommitSyncSound
<1> QED BY <1>1, <1>2, <1>3, ConcatSound DEF ResetVplsEnd

\* An end is created.
LEMMA CreateVplsEndSound ==
  ASSUME NEW in, MayReset(in), NEW ids, NEW end, Within(ids, end.id)
  PROVE  SoundAlways(in, ids, CreateVplsEnd(end, in.dryrun, ids))
<1>1. SoundAlways(in, ids, ReadInterface(end, ids))
  BY ReadSound
<1>2. SoundAlways(in, ids, When(~in.dryrun /\ end.interface_reset, ResetVplsEnd(end)))
  BY ResetVplsSound, EmptySound DEF When
<1>3. SoundAlways(in, ids, Configure(end, ids))
  BY ConfigureSound
<1> QED BY <1>1, <1>2, <1>3, ConcatSound DEF CreateVplsEnd

\* What is done about an instance that cannot be written.
Settles(in, ids, undo, fails) ==
  \/ fails = "withdraw"
  \/ fails = "withdraw_abort" /\ Covers(in, ids, undo)

AllFail(p, fails) == \A k \in 1..Len(p) : p[k].fails = fails

\* The instances of a service are written.
LEMMA CreateInstancesSound ==
  ASSUME NEW in, NEW ids, NEW s, NEW ends, NEW n \in Nat, NEW order, IsList(order, n),
         \A k \in 1..n : Within(ids, order[k]), NEW undo, NEW fails,
         Settles(in, ids, undo, fails)
  PROVE  LET p == CreateInstances(s, ends, order, undo, fails) IN
         SoundAlways(in, ids, p) /\ AllFail(p, fails)
<1> DEFINE Of(k) == Put(order[k], Instance(s.id), VplsInstance(s, ends, order[k]), undo)
           With(k) == [Of(k) EXCEPT !.fails = fails]
           p == CreateInstances(s, ends, order, undo, fails)
<1>1. p = [k \in 1..n |-> With(k)]
  <2>1. DOMAIN order = 1..n
    BY DEF IsList
  <2> QED BY <2>1 DEF CreateInstances
<1>2. ASSUME NEW k \in 1..n
      PROVE  Apt(ids, With(k)) /\ Sound(in, ids, With(k)) /\ With(k).fails = fails
  <2>1. /\ IsStep(Of(k)) /\ Of(k).call = "write" /\ Of(k).on = {order[k]}
        /\ Of(k).undo = undo
    BY PutIs
  <2>2. /\ IsStep(With(k)) /\ With(k).call = "write" /\ With(k).on = {order[k]}
        /\ With(k).undo = undo /\ With(k).fails = fails
    <3> HIDE DEF Of
    <3> QED BY <2>1, FailsIs
  <2> HIDE DEF With
  <2> QED BY <2>2 DEF Apt, Sound, OnFailure, Within, Covers, Settles
<1> HIDE DEF With, p
<1>3. p \in Seq({With(k) : k \in 1..n}) /\ Len(p) = n /\ \A k \in 1..n : p[k] = With(k)
  BY <1>1, ListIsProgram
<1>4. SoundAlways(in, ids, p) /\ AllFail(p, fails)
  BY <1>2, <1>3 DEF SoundAlways, AllFail, IsProgram
<1> QED BY <1>4 DEF p

\* The instances of a service are deleted.
LEMMA DeleteInstancesSound ==
  ASSUME NEW in, NEW ids, NEW s, NEW n \in Nat, NEW order, IsList(order, n),
         \A k \in 1..n : Within(ids, order[k]), NEW undo, Covers(in, ids, undo)
  PROVE  LET p == DeleteInstances(s, order, undo) IN
         SoundAlways(in, ids, p) /\ \A k \in 1..Len(p) : p[k].fails = "abort"
<1> DEFINE Of(k) == Delete(order[k], Instance(s.id), undo)
           ps == [k \in 1..n |-> <<Of(k)>>]
           p == FlattenSeq(ps)
<1>1. DeleteInstances(s, order, undo) = p
  <2>1. DOMAIN order = 1..n
    BY DEF IsList
  <2> QED BY <2>1 DEF DeleteInstances, RemoveVpls
<1>2. ASSUME NEW k \in 1..n
      PROVE  SoundAlways(in, ids, ps[k]) /\ Len(ps[k]) = 1 /\ ps[k][1].fails = "abort"
  <2>1. ps[k] = <<Of(k)>>
    OBVIOUS
  <2>2. SoundAlways(in, ids, <<Of(k)>>)
    BY WriteSound
  <2>3. Of(k).fails = "abort"
    BY PutIs DEF Delete
  <2> HIDE DEF ps, Of
  <2> QED BY <2>1, <2>2, <2>3
<1>3. IsList(ps, n)
  BY DEF IsList
<1> HIDE DEF ps
<1>4. SoundAlways(in, ids, p)
  BY <1>2, <1>3, FlattenSound
<1>5. \A k \in 1..Len(p) : \E i \in 1..n : \E j \in 1..Len(ps[i]) : p[k] = ps[i][j]
  <2>1. \A i \in 1..n : IsProgram(ps[i])
    BY <1>2 DEF SoundAlways
  <2>2. \A k \in 1..Len(FlattenSeq(ps)) :
          \E i \in 1..n : \E j \in 1..Len(ps[i]) : FlattenSeq(ps)[k] = ps[i][j]
    BY <1>3, <2>1, FlattenedFrom
  <2> QED BY <2>2
<1> HIDE DEF p
<1>6. \A k \in 1..Len(p) : p[k].fails = "abort"
  <2>1. \A i \in 1..n : \A j \in 1..Len(ps[i]) : ps[i][j].fails = "abort"
    <3>1. \A j \in 1..1 : j = 1
      OBVIOUS
    <3> QED BY <1>2, <3>1
  <2>2. ASSUME NEW k \in 1..Len(p) PROVE p[k].fails = "abort"
    <3>1. PICK i \in 1..n : \E j \in 1..Len(ps[i]) : p[k] = ps[i][j]
      BY <1>5
    <3>2. PICK j \in 1..Len(ps[i]) : p[k] = ps[i][j]
      BY <3>1
    <3> QED BY <2>1, <3>2
  <2> QED BY <2>2
<1> QED BY <1>1, <1>4, <1>6

\* A program, of a task about the devices area, that may be started.
Starts(in, p, area) ==
  \E ids \in SUBSET area : SoundFrom(in, ids, p, {}) /\ EndSound(in, ids, p)

\* A task that ends in an exception before it has done anything.
LEMMA RaiseStarts ==
  ASSUME NEW in, NEW area PROVE Starts(in, <<Raise>>, area)
<1> DEFINE r == Rollback({})
<1>1. r.call = "rollback" /\ r.fails = "abort" /\ Apt({}, r)
  BY RollbackFacts
<1> HIDE DEF r
<1>2. SoundAlways(in, {}, <<r>>) /\ EndSound(in, {}, <<r>>)
  BY <1>1, OneStepSound DEF Sound, LastSound
<1>3. SoundFrom(in, {}, <<r>>, {})
  BY <1>2, SoundAlwaysFrom
<1> QED BY <1>2, <1>3 DEF Starts, Raise, r

\* A program that ends as the tasks do, about all its devices.
LEMMA FinishedStarts ==
  ASSUME NEW in, NEW ids, NEW p, SoundAlways(in, ids, p), NEW area, ids \subseteq area
  PROVE  Starts(in, p \o Finish(in.dryrun, ids), area)
<1> DEFINE q == p \o Finish(in.dryrun, ids)
<1>1. SoundFrom(in, ids, q, {}) /\ EndSound(in, ids, q)
  BY FinishedSound
<1> HIDE DEF q
<1>2. Starts(in, q, area)
  BY <1>1 DEF Starts
<1> QED BY <1>2 DEF q

\* What a task of VPLS is started with.
LEMMA VplsInputFacts ==
  ASSUME NEW in \in VplsInput
  PROVE  /\ in.service = "VPLS" /\ in.do \in {"create", "delete", "add", "remove", "write", "erase"}
         /\ in.devices \in Seq(Range(in.devices))
         /\ in.do = "remove" => IsFiniteSet(in.removed)
BY VplsInputAssumption

\* The program that creates a VPLS.
LEMMA CreateVplsStarts ==
  ASSUME NEW in \in VplsInput, in.do = "create", NEW order \in SetToSeqs(VplsIds(in.devices))
  PROVE  Starts(in, CreateVplsTask(in, order), VplsIds(in.devices))
<1> DEFINE ids == VplsIds(in.devices)
           n == Len(in.devices)
           ps == [k \in 1..n |-> CreateVplsEnd(in.devices[k], in.dryrun, ids)]
           c == CreateInstances(in, in.devices, order, ids, "withdraw_abort")
<1>1. MayReset(in) /\ in.devices \in Seq(Range(in.devices))
  BY VplsInputFacts DEF MayReset
<1>2. /\ n \in Nat /\ DOMAIN in.devices = 1..n /\ IsFiniteSet(ids)
      /\ \A k \in 1..n : Within(ids, in.devices[k].id)
  BY <1>1, EndsFacts
<1>3. \A k \in 1..n : SoundAlways(in, ids, CreateVplsEnd(in.devices[k], in.dryrun, ids))
  <2> HIDE DEF ids, n
  <2> QED BY <1>1, <1>2, CreateVplsEndSound
<1>4. CreateVplsTask(in, order) = FlattenSeq(ps) \o c \o Finish(in.dryrun, ids)
  BY <1>2 DEF CreateVplsTask
<1> HIDE DEF n
<1>5. IsList(ps, n) /\ \A k \in 1..n : SoundAlways(in, ids, ps[k])
  <2> HIDE DEF ids
  <2> QED BY <1>3 DEF IsList
<1> HIDE DEF ps, ids
<1>6. SoundAlways(in, ids, FlattenSeq(ps))
  BY <1>2, <1>5, FlattenSound
<1>7. SoundAlways(in, ids, c)
  <2>1. Cardinality(ids) \in Nat /\ IsList(order, Cardinality(ids))
        /\ \A k \in 1..Cardinality(ids) : order[k] \in ids
    BY <1>2, OrderFacts DEF ids
  <2>2. \A k \in 1..Cardinality(ids) : Within(ids, order[k])
    BY <2>1 DEF Within
  <2>3. Covers(in, ids, ids)
    BY DEF Covers
  <2> QED BY <2>1, <2>2, <2>3, CreateInstancesSound DEF Settles
<1> HIDE DEF c
<1>8. SoundAlways(in, ids, FlattenSeq(ps) \o c)
  BY <1>6, <1>7, ConcatSound
<1>9. Starts(in, FlattenSeq(ps) \o c \o Finish(in.dryrun, ids), ids)
  BY <1>8, FinishedStarts
<1> QED BY <1>4, <1>9 DEF ids

\* The devices in any order are devices of the task.
LEMMA OrderWithin ==
  ASSUME NEW S, IsFiniteSet(S), NEW order \in SetToSeqs(S), NEW ids, S \subseteq ids
  PROVE  /\ Cardinality(S) \in Nat /\ IsList(order, Cardinality(S))
         /\ \A k \in 1..Cardinality(S) : Within(ids, order[k])
BY OrderFacts DEF Within

\* The program that deletes a VPLS.
LEMMA DeleteVplsStarts ==
  ASSUME NEW in \in VplsInput, NEW s, IsFiniteSet(s.devices),
         NEW order \in SetToSeqs(KnownIds(s))
  PROVE  Starts(in, DeleteVplsTask(s, order, in.dryrun), KnownIds(s))
<1> DEFINE ids == KnownIds(s)
           p == DeleteInstances(s, order, ids)
<1>1. Cardinality(ids) \in Nat /\ IsList(order, Cardinality(ids))
      /\ \A k \in 1..Cardinality(ids) : Within(ids, order[k])
  BY KnownFinite, OrderWithin
<1>2. Covers(in, ids, ids)
  BY DEF Covers
<1>3. SoundAlways(in, ids, p)
  <2> HIDE DEF ids
  <2> QED BY <1>1, <1>2, DeleteInstancesSound
<1>4. Starts(in, p \o Finish(in.dryrun, ids), ids)
  <2> HIDE DEF p, ids
  <2> QED BY <1>3, FinishedStarts
<1> QED BY <1>4 DEF DeleteVplsTask

\* The program that adds devices to a VPLS.
LEMMA AddDeviceStarts ==
  ASSUME NEW in \in VplsInput, NEW s, NEW S, NEW ends \in Seq(S),
         NEW order \in SetToSeqs(VplsIds(ends))
  PROVE  Starts(in, AddDeviceTask(s, ends, order, in.dryrun), VplsIds(ends))
<1> DEFINE ids == VplsIds(ends)
           p == CreateInstances(s, ends, order, {}, "withdraw")
<1>1. Cardinality(ids) \in Nat /\ IsList(order, Cardinality(ids))
      /\ \A k \in 1..Cardinality(ids) : Within(ids, order[k])
  BY EndsFacts, OrderWithin
<1>2. SoundAlways(in, ids, p)
  <2> HIDE DEF ids
  <2> QED BY <1>1, CreateInstancesSound DEF Settles
<1>3. Starts(in, p \o Finish(in.dryrun, ids), ids)
  <2> HIDE DEF p, ids
  <2> QED BY <1>2, FinishedStarts
<1> QED BY <1>3 DEF AddDeviceTask

\* The program that removes devices from a VPLS, or ends in an exception after
\* it has deleted the instance of the first of them.
LEMMA RemoveDeviceStarts ==
  ASSUME NEW in \in VplsInput, in.do = "remove", NEW s, NEW S, NEW ends \in Seq(S),
         NEW order \in SetToSeqs(VplsIds(ends)), NEW removed \in SetToSeqs(in.removed),
         NEW raises
  PROVE  Starts(in, RemoveDeviceTask(s, ends, order, removed, in.dryrun, raises),
                VplsIds(ends) \cup in.removed)
<1> DEFINE n == Cardinality(in.removed)
           area == VplsIds(ends) \cup in.removed
           Of(k) == Delete(removed[k], Instance(s.id), {})
           With(k) == [Of(k) EXCEPT !.fails = "overlook"]
           ds == [k \in 1..n |-> With(k)]
<1>1. IsFiniteSet(in.removed) /\ in.service = "VPLS"
  BY VplsInputFacts
<1>2. /\ n \in Nat /\ IsList(removed, n) /\ \A k \in 1..n : removed[k] \in in.removed
  BY <1>1, OrderFacts
<1>3. DOMAIN removed = 1..n /\ (removed # <<>> => n # 0) /\ Range(removed) \subseteq in.removed
      /\ \A k \in 1..n : removed[k] \in Range(removed)
  <2> HIDE DEF n
  <2>1. DOMAIN removed = 1..n
    BY <1>2 DEF IsList
  <2>2. n = 0 => removed = <<>>
    BY <1>2 DEF IsList
  <2> QED BY <1>2, <2>1, <2>2 DEF Range
<1>4. ds = [k \in DOMAIN removed |-> [RemoveVpls(removed[k], s, {})[1] EXCEPT !.fails = "overlook"]]
  BY <1>3 DEF RemoveVpls
<1>5. ASSUME NEW k \in 1..n, NEW ids, Range(removed) \subseteq ids
      PROVE  Apt(ids, With(k)) /\ Sound(in, ids, With(k))
  <2>1. IsStep(Of(k)) /\ Of(k).call = "write" /\ Of(k).on = {removed[k]}
    BY PutIs DEF Delete
  <2>2. /\ IsStep(With(k)) /\ With(k).call = "write" /\ With(k).on = {removed[k]}
        /\ With(k).fails = "overlook"
    <3> HIDE DEF Of
    <3> QED BY <2>1, FailsIs
  <2>3. removed[k] \in ids
    BY <1>3, <1>5
  <2> HIDE DEF With
  <2> QED BY <2>2, <2>3 DEF Apt, Sound, OnFailure
<1>6. CASE raises /\ removed # <<>>
  <2> DEFINE ids == Range(removed)
             p == <<With(1), Raise>>
  <2>1. RemoveDeviceTask(s, ends, order, removed, in.dryrun, raises) = p
    <3>1. 1 \in 1..n
      BY <1>2, <1>3, <1>6
    <3>2. ds[1] = With(1)
      BY <3>1
    <3> HIDE DEF ds, With
    <3> QED BY <1>4, <1>6, <3>2 DEF RemoveDeviceTask
  <2>2. Apt(ids, With(1)) /\ Sound(in, ids, With(1))
    <3>1. 1 \in 1..n
      BY <1>2, <1>3, <1>6
    <3> HIDE DEF With
    <3> QED BY <1>5, <3>1
  <2>3. Apt(ids, Raise) /\ Sound(in, ids, Raise) /\ LastSound(in, ids, Raise)
    <3> DEFINE r == Rollback({})
    <3>1. r.call = "rollback" /\ r.fails = "abort" /\ \A i : Apt(i, r)
      BY RollbackFacts
    <3> HIDE DEF r
    <3>2. \A d \in ids : Reason(in, r, d)
      BY <1>1, <1>3, <3>1 DEF Reason
    <3>3. Apt(ids, r) /\ Sound(in, ids, r) /\ LastSound(in, ids, r)
      BY <3>1, <3>2 DEF Sound, LastSound
    <3> QED BY <3>3 DEF Raise, r
  <2> HIDE DEF With
  <2>4. SoundFrom(in, ids, p, {}) /\ EndSound(in, ids, p)
    BY <2>2, <2>3, TwoStepsSound
  <2> HIDE DEF p
  <2>5. Starts(in, p, area)
    BY <1>3, <2>4 DEF Starts
  <2> QED BY <2>1, <2>5
<1>7. CASE ~(raises /\ removed # <<>>)
  <2> DEFINE ids == VplsIds(ends) \cup Range(removed)
             c == CreateInstances(s, ends, order, {}, "withdraw")
  <2>1. RemoveDeviceTask(s, ends, order, removed, in.dryrun, raises)
          = ds \o c \o Finish(in.dryrun, ids)
    <3> HIDE DEF ds
    <3> QED BY <1>4, <1>7 DEF RemoveDeviceTask
  <2>2. SoundAlways(in, ids, c)
    <3>1. /\ Cardinality(VplsIds(ends)) \in Nat /\ IsList(order, Cardinality(VplsIds(ends)))
          /\ \A k \in 1..Cardinality(VplsIds(ends)) : Within(ids, order[k])
      BY EndsFacts, OrderWithin
    <3> HIDE DEF ids
    <3> QED BY <3>1, CreateInstancesSound DEF Settles
  <2>3. SoundAlways(in, ids, ds)
    <3>1. \A k \in 1..n : Apt(ids, With(k)) /\ Sound(in, ids, With(k))
      <4> HIDE DEF With, n
      <4> QED BY <1>5
    <3> HIDE DEF With, n
    <3>2. ds \in Seq({With(k) : k \in 1..n}) /\ Len(ds) = n /\ \A k \in 1..n : ds[k] = With(k)
      BY <1>2, ListIsProgram
    <3> HIDE DEF ds
    <3> QED BY <3>1, <3>2 DEF SoundAlways, IsProgram
  <2> HIDE DEF ds, c
  <2>4. SoundAlways(in, ids, ds \o c)
    BY <2>2, <2>3, ConcatSound
  <2>5. ids \subseteq area
    BY <1>3
  <2> HIDE DEF ids, area
  <2>6. Starts(in, ds \o c \o Finish(in.dryrun, ids), area)
    BY <2>4, <2>5, FinishedStarts
  <2> QED BY <2>1, <2>6 DEF area
<1> QED BY <1>6, <1>7

\* The programs that only touch the intent.
LEMMA WriteVplsStarts ==
  ASSUME NEW in \in VplsInput, in.do \in {"write", "erase"},
         NEW order \in SetToSeqs(VplsIds(in.devices))
  PROVE  /\ Starts(in, DeleteInstances(in, order, {}), VplsIds(in.devices))
         /\ Starts(in, CreateInstances(in, in.devices, order, {}, "withdraw_abort"),
                   VplsIds(in.devices))
<1> DEFINE ids == VplsIds(in.devices)
           d == DeleteInstances(in, order, {})
           c == CreateInstances(in, in.devices, order, {}, "withdraw_abort")
<1>1. in.devices \in Seq(Range(in.devices))
  BY VplsInputFacts
<1>2. Cardinality(ids) \in Nat /\ IsList(order, Cardinality(ids))
      /\ \A k \in 1..Cardinality(ids) : Within(ids, order[k])
  BY <1>1, EndsFacts, OrderWithin
<1>3. Covers(in, ids, {})
  BY DEF Covers
<1>4. SoundAlways(in, ids, d) /\ \A k \in 1..Len(d) : d[k].fails = "abort"
  <2> HIDE DEF ids
  <2> QED BY <1>2, <1>3, DeleteInstancesSound
<1>5. SoundAlways(in, ids, c) /\ \A k \in 1..Len(c) : c[k].fails = "withdraw_abort"
  <2> HIDE DEF ids
  <2>1. Settles(in, ids, {}, "withdraw_abort")
    BY <1>3 DEF Settles
  <2>2. SoundAlways(in, ids, c)
    BY <1>2, <2>1, CreateInstancesSound
  <2>3. \A k \in 1..Len(c) : c[k].fails = "withdraw_abort"
    <3>1. AllFail(c, "withdraw_abort")
      BY <1>2, <2>1, CreateInstancesSound
    <3> HIDE DEF c
    <3> QED BY <3>1 DEF AllFail
  <2> QED BY <2>2, <2>3
<1> HIDE DEF c, d, ids
<1>6. SoundFrom(in, ids, d, {}) /\ EndSound(in, ids, d)
  BY <1>4, WritesSound
<1>7. SoundFrom(in, ids, c, {}) /\ EndSound(in, ids, c)
  BY <1>5, WritesSound
<1>8. Starts(in, d, ids) /\ Starts(in, c, ids)
  BY <1>6, <1>7 DEF Starts
<1> QED BY <1>8 DEF c, d, ids
-----------------------------------------------------------------------------
(* The programs of BI *)

\* The ends of a BI task are devices of its scope.
LEMMA BiEndsFacts ==
  ASSUME NEW in \in BiInput
  PROVE  /\ in.service = "BI" /\ in.do \in {"create", "delete", "erase"}
         /\ Len(in.devices) \in Nat /\ DOMAIN in.devices = 1..Len(in.devices)
         /\ \A k \in 1..Len(in.devices) : Within(BiIds(in), in.devices[k].id)
<1>1. /\ in.service = "BI" /\ in.do \in {"create", "delete", "erase"}
      /\ in.devices \in Seq(Range(in.devices))
  BY BiInputAssumption
<1>2. Len(in.devices) \in Nat /\ DOMAIN in.devices = 1..Len(in.devices)
  BY <1>1
<1> QED BY <1>1, <1>2 DEF BiIds, Within

\* Two writes that roll back all nodes.
LEMMA TwoWritesSound ==
  ASSUME NEW in, NEW ids, NEW id, Within(ids, id), NEW o, NEW v, NEW i, NEW w
  PROVE  SoundAlways(in, ids, <<Put(id, o, v, ids), Put(id, i, w, ids)>>)
<1> DEFINE p == Put(id, o, v, ids)
           q == Put(id, i, w, ids)
<1>1. Covers(in, ids, ids)
  BY DEF Covers
<1>2. Apt(ids, p) /\ Sound(in, ids, p) /\ Apt(ids, q) /\ Sound(in, ids, q)
  BY <1>1, WriteSound
<1> HIDE DEF p, q
<1>3. SoundAlways(in, ids, <<p, q>>)
  BY <1>2, TwoStepsSound
<1> QED BY <1>3 DEF p, q

\* An end is reset: its policy on its device alone, the rest on all.
LEMMA ResetBiSound ==
  ASSUME NEW in, MayReset(in), NEW ids, NEW end, Within(ids, end.id)
  PROVE  SoundAlways(in, ids, ResetBiEnd(end, ids))
<1>1. SoundAlways(in, ids, ResetPolicy(end, {end.id}))
  BY ResetPolicySound
<1>2. SoundAlways(in, ids, DeleteInterface(end, ids))
  BY DeleteInterfaceSound
<1>3. SoundAlways(in, ids, <<Commit({end.id}, ids), SyncFromNet({end.id}, ids)>>)
  <2>1. {end.id} \cap Node \subseteq ids
    BY DEF Within
  <2>2. Covers(in, ids, ids)
    BY DEF Covers
  <2> QED BY <2>1, <2>2, CommitSyncSound
<1> QED BY <1>1, <1>2, <1>3, ConcatSound DEF ResetBiEnd

\* An end is written.
LEMMA ConfigureBiSound ==
  ASSUME NEW in, NEW ids, NEW end, Within(ids, end.id)
  PROVE  SoundAlways(in, ids, ConfigureBiEnd(in, end, ids))
<1> DEFINE p == <<Put(end.id, VlanOf(end.vlan), VlanData(in), ids),
                  Put(end.id, Port(end.interface), BiPort(end), ids)>>
           q == <<Put(end.id, Port(end.ve_interface), VeData(end), ids),
                  Put(end.id, Isis(end.ve_interface), [passive |-> TRUE], ids)>>
<1>1. SoundAlways(in, ids, p) /\ SoundAlways(in, ids, q)
  BY TwoWritesSound
<1>2. SoundAlways(in, ids, PutPolicy(end, ids)) /\ SoundAlways(in, ids, DisableStp(end))
  BY ConfigureSound
<1>3. ConfigureBiEnd(in, end, ids) = p \o PutPolicy(end, ids) \o DisableStp(end) \o q
  BY DEF ConfigureBiEnd
<1> HIDE DEF p, q
<1> QED BY <1>1, <1>2, <1>3, ConcatSound

\* Programs in a row, whose steps all fail in one way.
LEMMA ConcatFail ==
  ASSUME NEW p, NEW q, IsProgram(p), IsProgram(q), NEW f, AllFail(p, f), AllFail(q, f)
  PROVE  AllFail(p \o q, f)
<1>1. ASSUME NEW k \in 1..Len(p \o q) PROVE (p \o q)[k].fails = f
  <2>1. CASE k \in 1..Len(p)
    BY <2>1, ProgramConcat DEF AllFail
  <2>2. CASE k \notin 1..Len(p)
    <3>1. (p \o q)[k] = q[k - Len(p)] /\ k - Len(p) \in 1..Len(q)
      BY <2>2, ProgramConcat
    <3> QED BY <3>1 DEF AllFail
  <2> QED BY <2>1, <2>2
<1> QED BY <1>1 DEF AllFail

\* An end is deleted.
LEMMA DeleteBiEndSound ==
  ASSUME NEW in, NEW ids, NEW end, Within(ids, end.id), NEW undo, Covers(in, ids, undo)
  PROVE  LET p == DeleteBiEnd(end, undo) IN
         SoundAlways(in, ids, p) /\ AllFail(p, "abort")
<1> DEFINE S(p) == SoundAlways(in, ids, p) /\ AllFail(p, "abort")
           a == <<Put(end.id, Port(end.ve_interface), None, undo)>>
           b == <<Put(end.id, Port(end.interface), Bare, undo)>>
           c == <<Put(end.id, VlanOf(end.vlan), None, undo)>>
<1>1. ASSUME NEW o, NEW v PROVE S(<<Put(end.id, o, v, undo)>>)
  <2> DEFINE s == Put(end.id, o, v, undo)
  <2>1. SoundAlways(in, ids, <<s>>)
    BY WriteSound
  <2>2. s.fails = "abort"
    BY PutIs
  <2> HIDE DEF s
  <2>3. Len(<<s>>) = 1 /\ <<s>>[1] = s /\ \A k \in 1..1 : k = 1
    OBVIOUS
  <2>4. AllFail(<<s>>, "abort")
    BY <2>2, <2>3 DEF AllFail
  <2>5. S(<<s>>)
    BY <2>1, <2>4
  <2> QED BY <2>5 DEF s
<1>2. S(a) /\ S(b) /\ S(c)
  <2> HIDE DEF S
  <2> QED BY <1>1
<1>3. DeleteBiEnd(end, undo) = (a \o b) \o c
  BY DEF DeleteBiEnd, PutMinimalInterface, Delete
<1> HIDE DEF a, b, c
<1>4. S(a \o b)
  BY <1>2, ConcatSound, ConcatFail DEF SoundAlways
<1>5. S((a \o b) \o c)
  <2> DEFINE ab == a \o b
  <2>1. S(ab)
    BY <1>4
  <2> HIDE DEF ab
  <2>2. S(ab \o c)
    BY <1>2, <2>1, ConcatSound, ConcatFail DEF SoundAlways
  <2> QED BY <2>2 DEF ab
<1> QED BY <1>3, <1>5

\* Flattened programs, whose steps all fail in one way.
LEMMA FlattenFail ==
  ASSUME NEW n \in Nat, NEW ps, IsList(ps, n), \A i \in 1..n : IsProgram(ps[i]),
         NEW f, \A i \in 1..n : AllFail(ps[i], f)
  PROVE  AllFail(FlattenSeq(ps), f)
<1>1. \A k \in 1..Len(FlattenSeq(ps)) :
        \E i \in 1..n : \E j \in 1..Len(ps[i]) : FlattenSeq(ps)[k] = ps[i][j]
  BY FlattenedFrom
<1> DEFINE p == FlattenSeq(ps)
<1>2. \A k \in 1..Len(p) : \E i \in 1..n : \E j \in 1..Len(ps[i]) : p[k] = ps[i][j]
  BY <1>1
<1> HIDE DEF p
<1>3. ASSUME NEW k \in 1..Len(p) PROVE p[k].fails = f
  <2>1. PICK i \in 1..n : \E j \in 1..Len(ps[i]) : p[k] = ps[i][j]
    BY <1>2
  <2>2. PICK j \in 1..Len(ps[i]) : p[k] = ps[i][j]
    BY <2>1
  <2> QED BY <2>2 DEF AllFail
<1>4. AllFail(p, f)
  BY <1>3 DEF AllFail
<1> QED BY <1>4 DEF p

\* The ends of a task are deleted.
LEMMA DeleteBiEndsSound ==
  ASSUME NEW in \in BiInput, NEW undo, Covers(in, BiIds(in), undo)
  PROVE  LET p == DeleteBiEnds(in, undo) IN
         SoundAlways(in, BiIds(in), p) /\ AllFail(p, "abort")
<1> DEFINE ids == BiIds(in)
           n == Len(in.devices)
           ps == [k \in 1..n |-> DeleteBiEnd(in.devices[k], undo)]
<1>1. n \in Nat /\ DOMAIN in.devices = 1..n /\ \A k \in 1..n : Within(ids, in.devices[k].id)
  BY BiEndsFacts
<1>2. DeleteBiEnds(in, undo) = FlattenSeq(ps)
  BY <1>1 DEF DeleteBiEnds
<1>3. \A k \in 1..n : /\ SoundAlways(in, ids, DeleteBiEnd(in.devices[k], undo))
                      /\ AllFail(DeleteBiEnd(in.devices[k], undo), "abort")
  <2> HIDE DEF ids, n
  <2> QED BY <1>1, DeleteBiEndSound DEF ids
<1> HIDE DEF n
<1>4. IsList(ps, n) /\ \A k \in 1..n : SoundAlways(in, ids, ps[k]) /\ AllFail(ps[k], "abort")
  <2> HIDE DEF ids
  <2> QED BY <1>3 DEF IsList
<1>5. \A k \in 1..n : IsProgram(ps[k])
  <2> HIDE DEF ps
  <2> QED BY <1>4 DEF SoundAlways
<1> HIDE DEF ps
<1>6. SoundAlways(in, ids, FlattenSeq(ps))
  <2> HIDE DEF ids
  <2> QED BY <1>1, <1>4, FlattenSound
<1>7. AllFail(FlattenSeq(ps), "abort")
  BY <1>1, <1>4, <1>5, FlattenFail
<1> QED BY <1>2, <1>6, <1>7

\* The programs of BI tasks.
LEMMA BiStarts ==
  ASSUME NEW in \in BiInput PROVE Starts(in, BiTask(in), BiIds(in))
<1> DEFINE ids == BiIds(in)
           n == Len(in.devices)
<1>1. /\ in.service = "BI" /\ in.do \in {"create", "delete", "erase"}
      /\ n \in Nat /\ DOMAIN in.devices = 1..n
      /\ \A k \in 1..n : Within(ids, in.devices[k].id)
  BY BiEndsFacts
<1>2. Covers(in, ids, ids)
  BY DEF Covers
<1>3. CASE in.do = "create"
  <2> DEFINE Of(k) == When(~in.dryrun /\ in.devices[k].interface_reset,
                           ResetBiEnd(in.devices[k], ids)) \o
                      ConfigureBiEnd(in, in.devices[k], ids)
             ps == [k \in 1..n |-> Of(k)]
  <2>1. BiTask(in) = CreateBiTask(in)
    BY <1>3, Zenon DEF BiTask
  <2>2. CreateBiTask(in) = FlattenSeq(ps) \o Finish(in.dryrun, ids)
    BY <1>1 DEF CreateBiTask
  <2>3. MayReset(in)
    BY <1>1, <1>3 DEF MayReset
  <2>4. ASSUME NEW k \in 1..n PROVE SoundAlways(in, ids, Of(k))
    <3>1. PICK end : end = in.devices[k]
      OBVIOUS
    <3>2. Within(ids, end.id)
      BY <1>1, <3>1
    <3> HIDE DEF ids
    <3>3. SoundAlways(in, ids, ResetBiEnd(end, ids))
      BY <2>3, <3>2, ResetBiSound
    <3>4. SoundAlways(in, ids, When(~in.dryrun /\ end.interface_reset, ResetBiEnd(end, ids)))
      BY <3>3, EmptySound DEF When
    <3>5. SoundAlways(in, ids, ConfigureBiEnd(in, end, ids))
      BY <3>2, ConfigureBiSound
    <3>6. SoundAlways(in, ids, When(~in.dryrun /\ end.interface_reset, ResetBiEnd(end, ids)) \o
                               ConfigureBiEnd(in, end, ids))
      BY <3>4, <3>5, ConcatSound
    <3> QED BY <3>1, <3>6
  <2> HIDE DEF Of, n
  <2>5. IsList(ps, n) /\ \A k \in 1..n : SoundAlways(in, ids, ps[k])
    <3> HIDE DEF ids
    <3> QED BY <2>4 DEF IsList
  <2> HIDE DEF ps, ids
  <2>6. SoundAlways(in, ids, FlattenSeq(ps))
    BY <1>1, <2>5, FlattenSound
  <2>7. Starts(in, FlattenSeq(ps) \o Finish(in.dryrun, ids), ids)
    BY <2>6, FinishedStarts
  <2> QED BY <2>1, <2>2, <2>7 DEF ids
<1>4. CASE in.do = "delete"
  <2> DEFINE p == DeleteBiEnds(in, ids)
  <2>1. BiTask(in) = p \o Finish(in.dryrun, ids)
    <3>1. BiTask(in) = DeleteBiTask(in)
      BY <1>4, Zenon DEF BiTask
    <3> QED BY <3>1 DEF DeleteBiTask
  <2>2. SoundAlways(in, ids, p)
    BY <1>2, DeleteBiEndsSound
  <2> HIDE DEF p, ids
  <2>3. Starts(in, p \o Finish(in.dryrun, ids), ids)
    BY <2>2, FinishedStarts
  <2> QED BY <2>1, <2>3 DEF ids
<1>5. CASE in.do = "erase"
  <2> DEFINE p == DeleteBiEnds(in, {})
  <2>1. BiTask(in) = p
    <3>1. BiTask(in) = EraseBiTask(in)
      BY <1>5, Zenon DEF BiTask
    <3> QED BY <3>1 DEF EraseBiTask
  <2>2. Covers(in, ids, {})
    BY <1>5 DEF Covers
  <2>3. SoundAlways(in, ids, p) /\ AllFail(p, "abort")
    BY <2>2, DeleteBiEndsSound
  <2> HIDE DEF p, ids
  <2>4. SoundFrom(in, ids, p, {}) /\ EndSound(in, ids, p)
    BY <1>5, <2>3, WritesSound DEF AllFail
  <2>5. Starts(in, p, ids)
    BY <2>4 DEF Starts
  <2> QED BY <2>1, <2>5 DEF ids
<1> QED BY <1>1, <1>3, <1>4, <1>5
-----------------------------------------------------------------------------
(* Tasks that begin *)

L2Input == VllInput \cup VplsInput \cup BiInput

\* Task t begins, with an input from inputs and a program that may be started.
BeginsWith(t, inputs) ==
  \E in \in inputs : \E p, area : Starts(in, p, area) /\ Begin(t, in, p, area)

\* A task that ends in an exception at once.
LEMMA RefuseBegins ==
  ASSUME NEW t, NEW inputs, NEW in \in inputs, Begin(t, in, <<Raise>>, {})
  PROVE  BeginsWith(t, inputs)
BY RaiseStarts DEF BeginsWith

\* The programs of VLL.
LEMMA VllBegins ==
  ASSUME NEW t, VllStart(t) PROVE BeginsWith(t, VllInput)
<1>1. ASSUME NEW in \in VllInput, NEW p, NEW area, ProgramOK(in, area, p, {}), EndsOK(in, area, p)
      PROVE  Starts(in, p, area)
  <2>1. in.service = "VLL"
    BY VllInputAssumption
  <2> QED BY <1>1, <2>1, VllIsSound DEF Starts
<1>2. CASE StartCreateVll(t)
  <2>1. PICK in \in VllInput :
          /\ in.do = "create"
          /\ IF Parses(in) THEN Begin(t, in, CreateVllTask(in), EndIds(in))
                           ELSE Begin(t, in, <<Raise>>, {})
    BY <1>2 DEF StartCreateVll
  <2>2. CASE Parses(in)
    <3>1. Starts(in, CreateVllTask(in), EndIds(in))
      BY <1>1, <2>1, <2>2, CreateTaskOK
    <3> QED BY <2>1, <2>2, <3>1 DEF BeginsWith
  <2> QED BY <2>1, <2>2, RefuseBegins
<1>3. CASE StartDeleteVll(t)
  <2>1. PICK in \in VllInput :
          \/ Begin(t, in, <<Raise>>, {})
          \/ \E s \in FoundVll(in.id) :
               IF Parses(s) THEN Begin(t, in, DeleteVllTask(s, in.dryrun), EndIds(s))
                            ELSE Begin(t, in, <<Raise>>, {})
    BY <1>3 DEF StartDeleteVll
  <2>2. ASSUME NEW s, Parses(s), Begin(t, in, DeleteVllTask(s, in.dryrun), EndIds(s))
        PROVE  BeginsWith(t, VllInput)
    <3>1. in.dryrun \in BOOLEAN
      BY VllInputAssumption
    <3>2. Starts(in, DeleteVllTask(s, in.dryrun), EndIds(s))
      BY <1>1, <2>2, <3>1, DeleteTaskOK
    <3> QED BY <2>2, <3>2 DEF BeginsWith
  <2> QED BY <2>1, <2>2, RefuseBegins
<1>4. CASE StartWriteVll(t)
  <2>1. PICK in \in VllInput :
          /\ in.do \in {"write", "erase"}
          /\ IF ~Parses(in) THEN Begin(t, in, <<Raise>>, {})
             ELSE Begin(t, in, IF in.do = "write" THEN CreateVll(in, {}) ELSE DeleteVll(in, {}),
                        EndIds(in))
    BY <1>4 DEF StartWriteVll
  <2>2. CASE Parses(in)
    <3>1. Undoes(in, EndIds(in), {})
      BY <2>1 DEF Undoes
    <3>2. CASE in.do = "write"
      <4>1. /\ AllSafe(in, EndIds(in), CreateVll(in, {}))
            /\ EndsOK(in, EndIds(in), CreateVll(in, {}))
        BY <2>2, <3>1, <3>2, CreateVllSafe
      <4>2. Starts(in, CreateVll(in, {}), EndIds(in))
        BY <1>1, <4>1, SafeIsOK
      <4>3. Begin(t, in, CreateVll(in, {}), EndIds(in))
        BY <2>1, <2>2, <3>2
      <4> QED BY <4>2, <4>3 DEF BeginsWith
    <3>3. CASE in.do # "write"
      <4>1. /\ AllSafe(in, EndIds(in), DeleteVll(in, {}))
            /\ EndsOK(in, EndIds(in), DeleteVll(in, {}))
        BY <2>1, <2>2, <3>1, DeleteVllSafe
      <4>2. Starts(in, DeleteVll(in, {}), EndIds(in))
        BY <1>1, <4>1, SafeIsOK
      <4>3. Begin(t, in, DeleteVll(in, {}), EndIds(in))
        BY <2>1, <2>2, <3>3
      <4> QED BY <4>2, <4>3 DEF BeginsWith
    <3> QED BY <3>2, <3>3
  <2> QED BY <2>1, <2>2, RefuseBegins
<1> QED BY <1>2, <1>3, <1>4 DEF VllStart

\* A service that was found has finitely many ends.
LEMMA FoundFinite ==
  ASSUME NEW n, NEW names, NEW s \in FoundVpls(n, names)
  PROVE  IsFiniteSet(s.devices)
BY DEF FoundVpls

\* The ends that a found service would have with others.
LEMMA MoreEnds ==
  ASSUME NEW S, IsFiniteSet(S), NEW T, NEW ends \in Seq(T)
  PROVE  SetToSeq(S) \o ends \in Seq(S \cup T)
<1>1. SetToSeq(S) \in Seq(S)
  BY OrderFacts
<1> DEFINE q == SetToSeq(S)
<1> HIDE DEF q
<1>2. q \in Seq(S \cup T) /\ ends \in Seq(S \cup T)
  <2>1. q \in Seq(S)
    BY <1>1 DEF q
  <2>2. Len(q) \in Nat /\ q \in [1..Len(q) -> S \cup T]
    BY <2>1
  <2>3. Len(ends) \in Nat /\ ends \in [1..Len(ends) -> S \cup T]
    OBVIOUS
  <2> QED BY <2>2, <2>3, ListIsProgram
<1>3. q \o ends \in Seq(S \cup T)
  BY <1>2
<1> QED BY <1>3 DEF q

\* The programs of VPLS.
LEMMA VplsBegins ==
  ASSUME NEW t, VplsStart(t) PROVE BeginsWith(t, VplsInput)
<1>1. ASSUME NEW in \in VplsInput, Refuse(t, in) PROVE BeginsWith(t, VplsInput)
  BY <1>1, RefuseBegins DEF Refuse
<1>2. CASE StartCreateVpls(t)
  <2>1. PICK in \in VplsInput :
          /\ in.do = "create"
          /\ \/ Refuse(t, in)
             \/ \E order \in SetToSeqs(VplsIds(in.devices)) :
                  Begin(t, in, CreateVplsTask(in, order), VplsIds(in.devices))
    BY <1>2 DEF StartCreateVpls
  <2> QED BY <1>1, <2>1, CreateVplsStarts DEF BeginsWith
<1>3. CASE StartDeleteVpls(t)
  <2>1. PICK in \in VplsInput :
          \/ Refuse(t, in)
          \/ \E s \in FoundVpls(in.id, {in.id}) : \E order \in SetToSeqs(KnownIds(s)) :
               Begin(t, in, DeleteVplsTask(s, order, in.dryrun), KnownIds(s))
    BY <1>3 DEF StartDeleteVpls
  <2>2. ASSUME NEW s \in FoundVpls(in.id, {in.id}), NEW order \in SetToSeqs(KnownIds(s)),
               Begin(t, in, DeleteVplsTask(s, order, in.dryrun), KnownIds(s))
        PROVE  BeginsWith(t, VplsInput)
    BY <2>2, FoundFinite, DeleteVplsStarts DEF BeginsWith
  <2> QED BY <1>1, <2>1, <2>2
<1>4. CASE StartAddDevice(t)
  <2>1. PICK in \in VplsInput :
          \/ Refuse(t, in)
          \/ \E s \in FoundVpls(in.id, Name) :
               \E order \in SetToSeqs(VplsIds(SetToSeq(s.devices) \o in.devices)) :
                 Begin(t, in, AddDeviceTask(s, SetToSeq(s.devices) \o in.devices, order, in.dryrun),
                       VplsIds(SetToSeq(s.devices) \o in.devices))
    BY <1>4 DEF StartAddDevice
  <2>2. ASSUME NEW s \in FoundVpls(in.id, Name), NEW ends,
               ends = SetToSeq(s.devices) \o in.devices,
               NEW order \in SetToSeqs(VplsIds(ends)),
               Begin(t, in, AddDeviceTask(s, ends, order, in.dryrun), VplsIds(ends))
        PROVE  BeginsWith(t, VplsInput)
    <3>1. in.devices \in Seq(Range(in.devices))
      BY VplsInputFacts
    <3>2. ends \in Seq(s.devices \cup Range(in.devices))
      BY <2>2, <3>1, FoundFinite, MoreEnds
    <3> QED BY <2>2, <3>2, AddDeviceStarts DEF BeginsWith
  <2> QED BY <1>1, <2>1, <2>2
<1>5. CASE StartRemoveDevice(t)
  <2> DEFINE Left(s, in) == SetToSeq({e \in s.devices : e.id \notin in.removed})
  <2>1. PICK in \in VplsInput :
          /\ in.do = "remove"
          /\ \/ Refuse(t, in)
             \/ \E s \in FoundVpls(in.id, Name) :
                  \/ Refuse(t, in)
                  \/ \E order \in SetToSeqs(VplsIds(Left(s, in))),
                        removed \in SetToSeqs(in.removed), raises \in BOOLEAN :
                       Begin(t, in,
                         RemoveDeviceTask(s, Left(s, in), order, removed, in.dryrun, raises),
                         VplsIds(Left(s, in)) \cup in.removed)
    BY <1>5 DEF StartRemoveDevice
  <2>2. ASSUME NEW s \in FoundVpls(in.id, Name), NEW ends, ends = Left(s, in),
               NEW order \in SetToSeqs(VplsIds(ends)), NEW removed \in SetToSeqs(in.removed),
               NEW raises \in BOOLEAN,
               Begin(t, in, RemoveDeviceTask(s, ends, order, removed, in.dryrun, raises),
                     VplsIds(ends) \cup in.removed)
        PROVE  BeginsWith(t, VplsInput)
    <3>1. IsFiniteSet({e \in s.devices : e.id \notin in.removed})
      BY FoundFinite, FS_Subset
    <3>2. ends \in Seq({e \in s.devices : e.id \notin in.removed})
      BY <2>2, <3>1, OrderFacts
    <3>3. Starts(in, RemoveDeviceTask(s, ends, order, removed, in.dryrun, raises),
                 VplsIds(ends) \cup in.removed)
      BY <2>1, <3>2, RemoveDeviceStarts
    <3> QED BY <2>2, <3>3 DEF BeginsWith
  <2> HIDE DEF Left
  <2> QED BY <1>1, <2>1, <2>2
<1>6. CASE StartWriteVpls(t)
  <2>1. PICK in \in VplsInput :
          /\ in.do \in {"write", "erase"}
          /\ \E order \in SetToSeqs(VplsIds(in.devices)) :
               Begin(t, in,
                 IF in.do = "erase" THEN DeleteInstances(in, order, {})
                 ELSE CreateInstances(in, in.devices, order, {}, "withdraw_abort"),
                 VplsIds(in.devices))
    BY <1>6 DEF StartWriteVpls
  <2>2. PICK order \in SetToSeqs(VplsIds(in.devices)) :
          Begin(t, in,
            IF in.do = "erase" THEN DeleteInstances(in, order, {})
            ELSE CreateInstances(in, in.devices, order, {}, "withdraw_abort"),
            VplsIds(in.devices))
    BY <2>1
  <2>3. /\ Starts(in, DeleteInstances(in, order, {}), VplsIds(in.devices))
        /\ Starts(in, CreateInstances(in, in.devices, order, {}, "withdraw_abort"),
                  VplsIds(in.devices))
    BY <2>1, WriteVplsStarts
  <2>4. CASE in.do = "erase"
    BY <2>2, <2>3, <2>4 DEF BeginsWith
  <2>5. CASE in.do # "erase"
    BY <2>2, <2>3, <2>5 DEF BeginsWith
  <2> QED BY <2>4, <2>5
<1> QED BY <1>2, <1>3, <1>4, <1>5, <1>6 DEF VplsStart

\* The programs of BI.
LEMMA BiBegins ==
  ASSUME NEW t, BiStart(t) PROVE BeginsWith(t, BiInput)
<1>1. PICK in \in BiInput :
        IF BiParses(in) THEN Begin(t, in, BiTask(in), BiIds(in))
                        ELSE Begin(t, in, <<Raise>>, {})
  BY DEF BiStart, StartBi
<1>2. CASE BiParses(in)
  BY <1>1, <1>2, BiStarts DEF BeginsWith
<1> QED BY <1>1, <1>2, RefuseBegins

\* Whatever the task, it begins with a program that may be started.
LEMMA AnyBegins ==
  ASSUME NEW t, VllStart(t) \/ VplsStart(t) \/ BiStart(t)
  PROVE  MayBegin(t) /\ BeginsWith(t, L2Input)
<1>1. MayBegin(t)
  BY DEF VllStart, VplsStart, BiStart
<1> QED BY <1>1, VllBegins, VplsBegins, BiBegins DEF BeginsWith, L2Input
-----------------------------------------------------------------------------
(* The invariant *)

\* The reasons of the services to leave a change of node d behind.
Leaves(t, d) == VllLeaves(t, d) \/ VplsLeaves(t, d) \/ BiLeaves(t, d)

\* A change of node d that the rollback of t may not reset.
Excuse(t, d) ==
  \/ input[t].do \in {"write", "erase"}
  \/ \E k \in DOMAIN broke[t] : broke[t][k].call \in {"dryrun", "rollback"}
  \/ Leaves(t, d)

\* The task goes through its program: what failed so far was written again or
\* withdrawn, and the rest is sound with what is dirty now.
OnlyWritesBroke(t) == \A k \in DOMAIN broke[t] : broke[t][k].call = "write"
Follows(t, ids) ==
  /\ dirty[t] \subseteq ids /\ ids \subseteq scope[t]
  /\ SoundFrom(input[t], ids, todo[t], dirty[t]) /\ EndSound(input[t], ids, todo[t])
Going(t) == OnlyWritesBroke(t) /\ \E ids : Follows(t, ids)

\* A call failed, and all that is left is a rollback.
RollingBack(t) ==
  \E x : todo[t] = <<Rollback(x)>> /\ \A d \in dirty[t] : d \in x \/ Excuse(t, d)

Justified(t) == \A d \in dirty[t] : LeftByDesign(t) \/ Leaves(t, d)

TaskSound(t) ==
  /\ dirty[t] \subseteq scope[t]
  /\ result[t] = "idle" => dirty[t] = {} /\ broke[t] = <<>>
  /\ result[t] # "idle" => input[t] \in L2Input
  /\ Running(t) => Going(t) \/ RollingBack(t)
  /\ Ended(t) => Justified(t)

\* What the variables are tables of, as far as it matters here.
Tables ==
  /\ DOMAIN input = Task /\ DOMAIN todo = Task /\ DOMAIN broke = Task /\ DOMAIN scope = Task
  /\ result \in [Task -> {"idle", "running", "COMPLETED", "FAILED", "LOST"}]
  /\ dirty \in [Task -> SUBSET Node]
  /\ \A t \in Task : IsProgram(broke[t])

L2Inv == Tables /\ Accountable /\ \A t \in Task : TaskSound(t)

\* The invariant has what the property asks for.
LEMMA InvNothingIsLeft == L2Inv => NothingIsLeft
<1> SUFFICES ASSUME L2Inv, NEW d \in Node, Pending(d)
             PROVE  \E t \in Task : d \in dirty[t] /\ (LeftByDesign(t) \/ Leaves(t, d))
  BY DEF NothingIsLeft, Leaves
<1>1. PICK t \in Task : d \in dirty[t]
  BY DEF L2Inv, Accountable
<1>2. result[t] # "idle" /\ (Ended(t) => Justified(t))
  BY <1>1 DEF L2Inv, TaskSound
<1>3. CASE Running(t)
  BY <1>1, <1>3 DEF LeftByDesign
<1>4. CASE Ended(t)
  BY <1>1, <1>2, <1>4 DEF Justified
<1>5. Running(t) \/ Ended(t)
  BY <1>2 DEF L2Inv, Tables, Running, Ended
<1> QED BY <1>1, <1>3, <1>4, <1>5

\* The inputs of the services.
LEMMA InputFacts ==
  /\ \A in \in L2Input : in # None
  /\ \A in \in VplsInput : in.service = "VPLS"
  /\ \A in \in VllInput : in.service = "VLL"
  /\ \A in \in BiInput : in.service = "BI"
BY VllInputAssumption, VplsInputAssumption, BiInputAssumption DEF L2Input

\* A task stays as it is while others move: they can only clean its nodes.
LEMMA OthersStay ==
  ASSUME NEW u \in Task, TaskSound(u), todo'[u] = todo[u], result'[u] = result[u],
         broke'[u] = broke[u], input'[u] = input[u], scope'[u] = scope[u],
         dirty'[u] \subseteq dirty[u]
  PROVE  TaskSound(u)'
<1>1. \A d : Leaves(u, d)' <=> Leaves(u, d)
  BY DEF Leaves, VllLeaves, Creates, IsVll, VplsLeaves, DoesVpls, IsVpls, BiLeaves, DoesBi,
         IsBi, BrokeResettingElsewhere
<1>2. \A d : Excuse(u, d)' <=> Excuse(u, d)
  BY <1>1 DEF Excuse
<1>3. LeftByDesign(u)' <=> LeftByDesign(u)
  BY DEF LeftByDesign, Running
<1>4. Going(u) => Going(u)'
  <2>1. ASSUME NEW ids, Follows(u, ids) PROVE Follows(u, ids)'
    BY <2>1, FewerDirtySound DEF Follows
  <2> QED BY <2>1 DEF Going, OnlyWritesBroke
<1>5. RollingBack(u) => RollingBack(u)'
  BY <1>2 DEF RollingBack
<1>6. Justified(u) => Justified(u)'
  BY <1>1, <1>3 DEF Justified
<1> QED BY <1>4, <1>5, <1>6 DEF TaskSound, Running, Ended

\* A task that is rolling back at its end does nothing else.
LEMMA GoingIf ==
  ASSUME NEW t \in Task, TaskSound(t), Running(t), todo[t] # <<>>, This(t).call # "rollback"
  PROVE  Going(t)
<1>1. \A x : Head(<<Rollback(x)>>).call = "rollback"
  BY DEF Rollback, Call
<1> QED BY <1>1 DEF TaskSound, RollingBack, This

\* The first step of a program that is sound.
LEMMA FirstSound ==
  ASSUME NEW in, NEW ids, NEW p, NEW D, SoundFrom(in, ids, p, D), p # <<>>
  PROVE  /\ Apt(ids, Head(p))
         /\ D # {} \/ Head(p).fails = "withdraw_abort" => Sound(in, ids, Head(p))
         /\ Len(p) \in Nat \ {0} /\ Head(p) = p[1]
<1>1. Len(p) \in Nat \ {0} /\ Head(p) = p[1]
  BY ProgramTail DEF SoundFrom
<1>2. 1 \in 1..Len(p)
  BY <1>1
<1> QED BY <1>1, <1>2 DEF SoundFrom

\* A call succeeds: it makes its nodes dirty if it touches them, and a commit
\* leaves none of its nodes dirty.
LEMMA SucceedKeeps ==
  ASSUME NEW t \in Task, Tables, TaskSound(t), Running(t), todo[t] # <<>>,
         This(t).call # "rollback", GoOn(t), dirty' \in [Task -> SUBSET Node],
         dirty'[t] \subseteq dirty[t] \cup (IF Touches(This(t)) THEN This(t).on ELSE {}),
         This(t).call = "commit" => dirty'[t] \cap This(t).on = {}
  PROVE  TaskSound(t)'
<1>1. Going(t)
  BY GoingIf
<1>2. /\ todo'[t] = Tail(todo[t]) /\ input' = input /\ broke' = broke /\ scope' = scope
      /\ result'[t] = IF Len(todo[t]) = 1 THEN "COMPLETED" ELSE "running"
  BY DEF GoOn, Tables, Running
<1>3. PICK ids : Follows(t, ids)
  BY <1>1 DEF Going
<1>4. /\ SoundFrom(input[t], ids, Tail(todo[t]), dirty'[t])
      /\ EndSound(input[t], ids, Tail(todo[t]))
  BY <1>3, TailSound DEF Follows, This
<1>5. Apt(ids, This(t)) /\ Len(todo[t]) \in Nat \ {0} /\ This(t) = todo[t][1]
  BY <1>3, FirstSound DEF Follows, This
<1>6. dirty'[t] \subseteq ids /\ ids \subseteq scope[t]
  BY <1>3, <1>5 DEF Follows, Apt
<1>7. input[t] \in L2Input
  BY DEF TaskSound, Running
<1>8. CASE Len(todo[t]) = 1
  <2>1. LastSound(input[t], ids, This(t))
    BY <1>3, <1>5, <1>8 DEF Follows, EndSound
  <2>2. result'[t] = "COMPLETED"
    BY <1>2, <1>8
  <2>3. dirty'[t] = {} \/ LeftByDesign(t)'
    BY <1>2, <1>6, <2>1, <2>2 DEF LastSound, LeftByDesign
  <2>4. Justified(t)'
    BY <2>3 DEF Justified
  <2> QED BY <1>2, <1>6, <1>7, <2>2, <2>4 DEF TaskSound, Running, Ended
<1>9. CASE Len(todo[t]) # 1
  <2>1. result'[t] = "running"
    BY <1>2, <1>9
  <2>2. Follows(t, ids)'
    BY <1>2, <1>4, <1>6 DEF Follows
  <2>3. Going(t)'
    BY <1>1, <1>2, <2>2 DEF Going, OnlyWritesBroke
  <2> QED BY <1>2, <1>6, <1>7, <2>1, <2>3 DEF TaskSound, Running, Ended
<1> QED BY <1>8, <1>9

\* A call that succeeds.
LEMMA SucceedInv ==
  ASSUME L2Inv, NEW t \in Task, Running(t), todo[t] # <<>>, This(t).call # "rollback", GoOn(t),
         dirty' \in [Task -> SUBSET Node], Accountable',
         \A u \in Task \ {t} : dirty'[u] \subseteq dirty[u],
         dirty'[t] \subseteq dirty[t] \cup (IF Touches(This(t)) THEN This(t).on ELSE {}),
         This(t).call = "commit" => dirty'[t] \cap This(t).on = {}
  PROVE  L2Inv'
<1>1. Tables'
  BY DEF L2Inv, Tables, GoOn
<1>2. TaskSound(t)'
  BY SucceedKeeps DEF L2Inv
<1>3. ASSUME NEW u \in Task \ {t} PROVE TaskSound(u)'
  <2>1. /\ todo'[u] = todo[u] /\ result'[u] = result[u] /\ broke'[u] = broke[u]
        /\ input'[u] = input[u] /\ scope'[u] = scope[u]
    BY DEF GoOn, L2Inv, Tables
  <2> QED BY <2>1, OthersStay DEF L2Inv
<1> QED BY <1>1, <1>2, <1>3 DEF L2Inv

\* What is pending is accounted for when the nodes that a step changes are dirty
\* after it, or equal in both stores.
LEMMA AccountAfter ==
  ASSUME Accountable, NEW ids,
         \A d \in Node : d \notin ids =>
           /\ intent'[d] = intent[d] /\ actual'[d] = actual[d]
           /\ \A u \in Task : d \in dirty[u] => d \in dirty'[u],
         \A d \in Node : d \in ids =>
           intent'[d] = actual'[d] \/ \E u \in Task : d \in dirty'[u]
  PROVE  Accountable'
<1>1. ASSUME NEW d \in Node, d \notin ids PROVE Pending(d)' => \E u \in Task : d \in dirty'[u]
  BY <1>1, AccountKept
<1>2. ASSUME NEW d \in Node, d \in ids PROVE Pending(d)' => \E u \in Task : d \in dirty'[u]
  BY <1>2 DEF Pending
<1> QED BY <1>1, <1>2 DEF Accountable

\* The calls that succeed.
LEMMA CallSucceeds ==
  ASSUME L2Inv, NEW t \in Task,
         ReadData(t) \/ WriteData(t) \/ CommitData(t) \/ SyncData(t) \/ DryRunData(t)
  PROVE  L2Inv'
<1> DEFINE on == This(t).on
<1>1. /\ Running(t) /\ todo[t] # <<>> /\ GoOn(t) /\ This(t).call # "rollback"
      /\ on \subseteq Node
  BY DEF ReadData, WriteData, CommitData, SyncData, DryRunData, Doing, Reachable
<1>2. dirty \in [Task -> SUBSET Node] /\ Accountable
  BY DEF L2Inv, Tables
<1> HIDE DEF on
<1>3. CASE ReadData(t) \/ DryRunData(t)
  <2>1. UNCHANGED <<intent, actual, dirty>> /\ This(t).call # "commit"
    BY <1>3 DEF ReadData, DryRunData, Doing
  <2> QED BY <1>1, <1>2, <2>1, SucceedInv DEF Accountable, Pending
<1>4. CASE WriteData(t) \/ SyncData(t)
  <2>1. /\ \/ intent' = Written(intent, This(t)) /\ actual' = actual
           \/ intent' = intent /\ actual' = Reread(actual, on)
        /\ dirty' = [dirty EXCEPT ![t] = @ \cup on] /\ This(t).call \in {"write", "sync"}
    BY <1>4 DEF WriteData, SyncData, Doing, on
  <2>2. /\ dirty' \in [Task -> SUBSET Node] /\ dirty'[t] = dirty[t] \cup on
        /\ \A u \in Task \ {t} : dirty'[u] = dirty[u]
    BY <1>1, <1>2, <2>1
  <2>3. \A d \in Node : d \notin on => intent'[d] = intent[d] /\ actual'[d] = actual[d]
    BY <2>1 DEF Written, Reread, on
  <2>4. Accountable'
    <3>1. \A d \in Node : d \notin on => \A u \in Task : d \in dirty[u] => d \in dirty'[u]
      BY <2>2
    <3>2. \A d \in Node : d \in on => \E u \in Task : d \in dirty'[u]
      BY <2>2
    <3> QED BY <1>2, <2>3, <3>1, <3>2, AccountAfter
  <2> QED BY <1>1, <2>1, <2>2, <2>4, SucceedInv DEF Touches, on
<1>5. CASE CommitData(t)
  <2>1. /\ actual' = Copied(actual, intent, on) /\ intent' = intent /\ dirty' = Cleaned(on)
    BY <1>5 DEF CommitData, on
  <2>2. \A u \in Task : dirty'[u] = dirty[u] \ on
    BY <2>1 DEF Cleaned
  <2>3. dirty' \in [Task -> SUBSET Node]
    BY <1>2, <2>1 DEF Cleaned
  <2>4. Accountable'
    <3>1. \A d \in Node : d \notin on => /\ intent'[d] = intent[d] /\ actual'[d] = actual[d]
                                         /\ \A u \in Task : d \in dirty[u] => d \in dirty'[u]
      BY <2>1, <2>2 DEF Copied
    <3>2. \A d \in Node : d \in on => intent'[d] = actual'[d]
      BY <2>1 DEF Copied
    <3> QED BY <1>2, <3>1, <3>2, AccountAfter
  <2> QED BY <1>1, <2>2, <2>3, <2>4, SucceedInv DEF on
<1> QED BY <1>3, <1>4, <1>5
-----------------------------------------------------------------------------
(* Calls that fail *)

\* A step more in a program, or a call more that failed.
LEMMA AppendFacts ==
  ASSUME NEW p, IsProgram(p), NEW s
  PROVE  /\ IsProgram(Append(p, s))
         /\ Len(p) + 1 \in DOMAIN Append(p, s) /\ Append(p, s)[Len(p) + 1] = s
         /\ \A k \in DOMAIN Append(p, s) :
              \/ k \in DOMAIN p /\ Append(p, s)[k] = p[k]
              \/ Append(p, s)[k] = s
<1>1. PICK S : p \in Seq(S)
  BY DEF IsProgram
<1>2. p \in Seq(S \cup {s})
  <2>1. Len(p) \in Nat /\ p \in [1..Len(p) -> S \cup {s}]
    BY <1>1
  <2> QED BY <2>1, ListIsProgram
<1>3. Append(p, s) \in Seq(S \cup {s}) /\ Len(p) \in Nat /\ DOMAIN p = 1..Len(p)
      /\ Len(Append(p, s)) = Len(p) + 1 /\ DOMAIN Append(p, s) = 1..(Len(p) + 1)
      /\ Append(p, s)[Len(p) + 1] = s
      /\ \A k \in 1..(Len(p) + 1) : k # Len(p) + 1 => Append(p, s)[k] = p[k]
  BY <1>2
<1>4. \A k \in 1..(Len(p) + 1) : k # Len(p) + 1 => k \in 1..Len(p)
  BY <1>3
<1>5. Len(p) + 1 \in 1..(Len(p) + 1)
  BY <1>3
<1> QED BY <1>3, <1>4, <1>5 DEF IsProgram

\* The reasons of a step that may fail are those of the services.
LEMMA ReasonIsExcuse ==
  ASSUME L2Inv, NEW t \in Task, Running(t), NEW s, NEW d \in dirty[t],
         Reason(input[t], s, d), s.call # "rollback",
         input' = input, scope' = scope, broke' = [broke EXCEPT ![t] = Append(@, s)]
  PROVE  Excuse(t, d)'
<1>1. IsProgram(broke[t]) /\ broke'[t] = Append(broke[t], s)
  BY DEF L2Inv, Tables
<1>2. /\ Len(broke[t]) + 1 \in DOMAIN broke'[t] /\ broke'[t][Len(broke[t]) + 1] = s
  BY <1>1, AppendFacts
<1>3. input[t] # None /\ scope[t] # {}
  <2>1. input[t] \in L2Input /\ d \in scope[t]
    BY DEF L2Inv, TaskSound, Running
  <2> QED BY <2>1, InputFacts
<1>4. CASE s.call = "dryrun"
  BY <1>2, <1>4 DEF Excuse
<1>5. CASE input[t].do \in {"write", "erase"}
  BY <1>5 DEF Excuse
<1>6. CASE s.undo = s.on /\ d \notin s.on /\ input[t].do = "create"
  <2>1. BrokeResettingElsewhere(t, d)'
    BY <1>2, <1>6 DEF BrokeResettingElsewhere
  <2>2. CASE input[t].service = "VLL" /\ MayLeave(input[t], s, d)
    <3>1. CASE d = input[t].devices[1].id /\ input[t].devices[1].interface_reset
      BY <1>3, <1>6, <2>1, <2>2, <3>1 DEF Excuse, Leaves, VllLeaves, Creates, IsVll
    <3> QED BY <1>4, <1>5, <2>2, <3>1 DEF MayLeave
  <2>3. CASE input[t].service \in {"VPLS", "BI"}
    BY <1>3, <1>6, <2>1, <2>3 DEF Excuse, Leaves, VplsLeaves, DoesVpls, IsVpls, BiLeaves,
                                  DoesBi, IsBi
  <2>4. CASE input[t].service \notin {"VPLS", "BI"}
    BY <1>4, <1>5, <2>2, <2>4 DEF Reason
  <2> QED BY <2>3, <2>4
<1> QED BY <1>4, <1>5, <1>6 DEF Reason, MayLeave

\* What a call that fails leaves alone.
LEMMA FailsLeaves ==
  ASSUME NEW t \in Task, CallFails(t)
  PROVE  /\ Running(t) /\ todo[t] # <<>> /\ This(t).call # "rollback"
         /\ intent' = intent /\ actual' = actual /\ input' = input /\ scope' = scope
         /\ dirty' = dirty
BY DEF CallFails

\* The task goes on with other steps.
LEMMA GoesOn ==
  ASSUME NEW t \in Task, TaskSound(t), Running(t), NEW ids, Follows(t, ids),
         NEW q, SoundFrom(input[t], ids, q, dirty[t]), EndSound(input[t], ids, q),
         todo'[t] = q, result'[t] = "running", OnlyWritesBroke(t)',
         input' = input, scope' = scope, dirty' = dirty
  PROVE  TaskSound(t)'
<1>1. Follows(t, ids)'
  BY DEF Follows
<1>2. Going(t)'
  BY <1>1 DEF Going
<1> QED BY <1>2 DEF TaskSound, Running, Ended

\* The task in which a call fails.
LEMMA FailKeeps ==
  ASSUME L2Inv, NEW t \in Task, CallFails(t)
  PROVE  TaskSound(t)'
<1> DEFINE s == This(t)
           rest == Tail(todo[t])
           w == [s EXCEPT !.value = None, !.undo = {}, !.fails = "ignore"]
<1>1. /\ Running(t) /\ todo[t] # <<>> /\ s.call # "rollback"
      /\ input' = input /\ scope' = scope /\ dirty' = dirty
  BY FailsLeaves
<1>2. /\ TaskSound(t) /\ Tables /\ result[t] = "running" /\ dirty[t] \subseteq scope[t]
      /\ input[t] \in L2Input /\ IsProgram(broke[t])
  BY <1>1 DEF L2Inv, TaskSound, Tables, Running
<1>3. Going(t)
  BY <1>1, <1>2, GoingIf
<1>4. PICK ids : Follows(t, ids)
  BY <1>3 DEF Going
<1>5. /\ SoundFrom(input[t], ids, todo[t], dirty[t]) /\ EndSound(input[t], ids, todo[t])
      /\ dirty[t] \subseteq ids
  BY <1>4 DEF Follows
<1>6. /\ Apt(ids, s)
      /\ dirty[t] # {} \/ s.fails = "withdraw_abort" => Sound(input[t], ids, s)
      /\ Len(todo[t]) \in Nat \ {0} /\ s = todo[t][1]
  BY <1>1, <1>5, FirstSound DEF This
<1>7. SoundFrom(input[t], ids, rest, dirty[t]) /\ EndSound(input[t], ids, rest)
  BY <1>1, <1>5, TailSound DEF This
<1>8. Len(todo[t]) = 1 => LastSound(input[t], ids, s)
  BY <1>1, <1>5, <1>6 DEF EndSound
<1>9. rest = <<>> => Len(todo[t]) = 1
  <2>1. Len(rest) = Len(todo[t]) - 1
    BY <1>1, <1>5, ProgramTail DEF SoundFrom
  <2>2. Len(<<>>) = 0
    OBVIOUS
  <2> HIDE DEF rest
  <2>3. ASSUME rest = <<>> PROVE Len(todo[t]) - 1 = 0
    BY <2>1, <2>2, <2>3
  <2> QED BY <1>6, <2>3
<1>10. ASSUME broke' = [broke EXCEPT ![t] = Append(@, s)], s.call = "write"
       PROVE  OnlyWritesBroke(t)'
  <2>1. broke'[t] = Append(broke[t], s)
    BY <1>2, <1>10 DEF Tables
  <2>2. \A k \in DOMAIN broke'[t] :
          \/ k \in DOMAIN broke[t] /\ broke'[t][k] = broke[t][k]
          \/ broke'[t][k] = s
    BY <1>2, <2>1, AppendFacts
  <2> QED BY <1>3, <1>10, <2>2 DEF Going, OnlyWritesBroke
<1>11. ASSUME broke' = broke PROVE OnlyWritesBroke(t)'
  BY <1>3, <1>11 DEF Going, OnlyWritesBroke
<1> HIDE DEF s, rest, w
<1>12. CASE /\ s.fails = "abort"
            /\ todo' = [todo EXCEPT ![t] = <<Rollback(s.undo)>>]
            /\ broke' = [broke EXCEPT ![t] = Append(@, s)]
            /\ result' = result
  <2>1. ASSUME NEW d \in dirty[t] PROVE d \in s.undo \/ Excuse(t, d)'
    <3>1. d \in Restores(s) \/ Reason(input[t], s, d)
      BY <1>5, <1>6, <1>12 DEF Sound
    <3> QED BY <1>1, <1>12, <3>1, ReasonIsExcuse DEF Restores
  <2>2. todo'[t] = <<Rollback(s.undo)>> /\ result'[t] = "running"
    BY <1>2, <1>12 DEF Tables
  <2>3. RollingBack(t)'
    <3>1. PICK x : x = s.undo
      OBVIOUS
    <3>2. todo'[t] = <<Rollback(x)>> /\ \A d \in dirty'[t] : d \in x \/ Excuse(t, d)'
      BY <1>1, <2>1, <2>2, <3>1
    <3> QED BY <3>2 DEF RollingBack
  <2> QED BY <1>1, <1>2, <2>2, <2>3 DEF TaskSound, Running, Ended
<1>13. CASE /\ s.fails \in {"ignore", "overlook"}
            /\ todo' = [todo EXCEPT ![t] = rest]
            /\ result' = IF rest = <<>> THEN [result EXCEPT ![t] = "COMPLETED"] ELSE result
            /\ broke' = IF s.fails = "ignore" THEN broke
                        ELSE [broke EXCEPT ![t] = Append(@, s)]
  <2>1. todo'[t] = rest
    BY <1>2, <1>13 DEF Tables
  <2>2. OnlyWritesBroke(t)'
    BY <1>6, <1>10, <1>11, <1>13 DEF Apt
  <2>3. CASE rest = <<>>
    <3>1. result'[t] = "COMPLETED"
      BY <1>2, <1>13, <2>3 DEF Tables
    <3>2. input[t].do \in {"write", "erase"}
      BY <1>8, <1>9, <1>13, <2>3 DEF LastSound
    <3>3. Justified(t)'
      BY <1>1, <3>2 DEF Justified, LeftByDesign
    <3> QED BY <1>1, <1>2, <3>1, <3>3 DEF TaskSound, Running, Ended
  <2>4. CASE rest # <<>>
    <3>1. result'[t] = "running"
      BY <1>2, <1>13, <2>4
    <3> QED BY <1>1, <1>2, <1>4, <1>7, <2>1, <2>2, <3>1, GoesOn
  <2> QED BY <2>3, <2>4
<1>14. CASE /\ s.fails = "skip"
            /\ todo' = [todo EXCEPT ![t] = Tail(rest)]
            /\ result' = result /\ broke' = broke
  <2>1. rest # <<>>
    BY <1>8, <1>9, <1>14 DEF LastSound
  <2>2. SoundFrom(input[t], ids, Tail(rest), dirty[t]) /\ EndSound(input[t], ids, Tail(rest))
    BY <1>7, <2>1, TailSound
  <2>3. todo'[t] = Tail(rest) /\ result'[t] = "running"
    BY <1>2, <1>14 DEF Tables
  <2> QED BY <1>1, <1>2, <1>4, <1>11, <1>14, <2>2, <2>3, GoesOn
<1>15. CASE /\ s.fails = "withdraw"
            /\ todo' = [todo EXCEPT ![t] = <<w, rest[Len(rest)]>>]
            /\ broke' = [broke EXCEPT ![t] = Append(@, s)] /\ result' = result
  <2> DEFINE q == <<w, rest[Len(rest)]>>
  <2>1. SoundFrom(input[t], ids, q, dirty[t]) /\ EndSound(input[t], ids, q)
    BY <1>1, <1>5, <1>15, WithdrawSound DEF w, rest, s, This
  <2> HIDE DEF q
  <2>2. todo'[t] = q /\ result'[t] = "running"
    BY <1>2, <1>15 DEF Tables, q
  <2>3. OnlyWritesBroke(t)'
    BY <1>6, <1>10, <1>15 DEF Apt
  <2> QED BY <1>1, <1>2, <1>4, <2>1, <2>2, <2>3, GoesOn
<1>16. CASE /\ s.fails = "withdraw_abort"
            /\ todo' = [todo EXCEPT ![t] = <<w, Rollback(s.undo)>>]
            /\ broke' = [broke EXCEPT ![t] = Append(@, s)] /\ result' = result
  <2> DEFINE q == <<w, Rollback(s.undo)>>
  <2>1. SoundFrom(input[t], ids, q, dirty[t]) /\ EndSound(input[t], ids, q)
    BY <1>1, <1>5, <1>16, WithdrawAbortSound DEF w, s, This
  <2> HIDE DEF q
  <2>2. todo'[t] = q /\ result'[t] = "running"
    BY <1>2, <1>16 DEF Tables, q
  <2>3. OnlyWritesBroke(t)'
    BY <1>6, <1>10, <1>16 DEF Apt
  <2> QED BY <1>1, <1>2, <1>4, <2>1, <2>2, <2>3, GoesOn
<1> QED BY <1>12, <1>13, <1>14, <1>15, <1>16 DEF CallFails, s, rest, w

\* A call that fails.
LEMMA FailInv ==
  ASSUME L2Inv, NEW t \in Task, CallFails(t) PROVE L2Inv'
<1>1. /\ intent' = intent /\ actual' = actual /\ input' = input /\ scope' = scope
      /\ dirty' = dirty
  BY FailsLeaves
<1>2. TaskSound(t)'
  BY FailKeeps
<1>3. /\ \E q : todo' = [todo EXCEPT ![t] = q]
      /\ result' = result \/ result' = [result EXCEPT ![t] = "COMPLETED"]
      /\ broke' = broke \/ \E s : broke' = [broke EXCEPT ![t] = Append(@, s)]
  BY DEF CallFails
<1>4. Tables'
  <2>1. \A s : IsProgram(Append(broke[t], s))
    BY AppendFacts DEF L2Inv, Tables
  <2>2. DOMAIN broke' = Task /\ \A u \in Task : IsProgram(broke'[u])
    <3>1. DOMAIN broke = Task /\ \A u \in Task : IsProgram(broke[u])
      BY DEF L2Inv, Tables
    <3>2. CASE broke' = broke
      BY <3>1, <3>2
    <3>3. ASSUME NEW s, broke' = [broke EXCEPT ![t] = Append(@, s)]
          PROVE  DOMAIN broke' = Task /\ \A u \in Task : IsProgram(broke'[u])
      <4>1. PICK q : q = Append(broke[t], s)
        OBVIOUS
      <4>2. IsProgram(q) /\ broke' = [broke EXCEPT ![t] = q]
        BY <2>1, <3>3, <4>1
      <4> QED BY <3>1, <4>2
    <3> QED BY <1>3, <3>2, <3>3
  <2>3. result' \in [Task -> {"idle", "running", "COMPLETED", "FAILED", "LOST"}]
    BY <1>3 DEF L2Inv, Tables
  <2> QED BY <1>1, <1>3, <2>2, <2>3 DEF L2Inv, Tables
<1>5. ASSUME NEW u \in Task \ {t} PROVE TaskSound(u)'
  <2>1. todo'[u] = todo[u] /\ result'[u] = result[u] /\ broke'[u] = broke[u]
    BY <1>3 DEF L2Inv, Tables
  <2> QED BY <1>1, <2>1, OthersStay DEF L2Inv
<1>6. Accountable'
  BY <1>1 DEF L2Inv, Accountable, Pending
<1> QED BY <1>2, <1>4, <1>5, <1>6 DEF L2Inv

-----------------------------------------------------------------------------
(* Tasks that end *)

\* What a rollback at the head of a program does not reset may be left.
LEMMA RollbackExcuse ==
  ASSUME L2Inv, NEW t \in Task, Doing(t, "rollback"), NEW d \in dirty[t], d \notin This(t).on
  PROVE  Excuse(t, d)
<1>1. Running(t) /\ todo[t] # <<>> /\ This(t).call = "rollback"
  BY DEF Doing
<1>2. input[t] \in L2Input /\ scope[t] # {}
  BY <1>1 DEF L2Inv, TaskSound, Running
<1>3. input[t] # None
  BY <1>2, InputFacts
<1>4. CASE Going(t)
  <2>1. PICK ids : Follows(t, ids)
    BY <1>4 DEF Going
  <2>2. /\ Apt(ids, This(t)) /\ Sound(input[t], ids, This(t)) /\ d \in ids
    BY <1>1, <2>1, FirstSound DEF Follows, This
  <2>3. Reason(input[t], This(t), d)
    BY <1>1, <2>2 DEF Apt, Sound, Restores
  <2>4. CASE input[t].do \in {"write", "erase"}
    BY <2>4 DEF Excuse
  <2>5. CASE input[t].service = "VLL" /\ MayLeave(input[t], This(t), d)
    <3>1. CASE input[t].do = "create" /\ ~IsLocal(input[t]) /\ ~Remote(input[t])
      BY <1>2, <1>3, <2>5, <3>1 DEF Excuse, Leaves, VllLeaves, Creates, IsVll
    <3> QED BY <1>1, <2>4, <2>5, <3>1 DEF MayLeave
  <2>6. CASE input[t].service = "VPLS" /\ input[t].do = "remove" /\ d \in input[t].removed
    BY <1>2, <1>3, <1>4, <2>6 DEF Excuse, Leaves, VplsLeaves, DoesVpls, IsVpls, Going,
                                  OnlyWritesBroke
  <2> QED BY <1>1, <2>3, <2>4, <2>5, <2>6 DEF Reason
<1>5. CASE RollingBack(t)
  <2>1. PICK x : todo[t] = <<Rollback(x)>> /\ \A e \in dirty[t] : e \in x \/ Excuse(t, e)
    BY <1>5 DEF RollingBack
  <2>2. Rollback(x).on = x
    BY RollbackFacts
  <2>3. This(t) = Rollback(x)
    BY <2>1 DEF This
  <2> QED BY <2>1, <2>2, <2>3
<1> QED BY <1>1, <1>4, <1>5 DEF L2Inv, TaskSound

\* The rollback that ends a task, answered or not.
LEMMA RollInv ==
  ASSUME L2Inv, NEW t \in Task, RollBack(t) PROVE L2Inv'
<1>1. /\ Running(t) /\ todo[t] # <<>> /\ This(t).call = "rollback" /\ Doing(t, "rollback")
      /\ todo' = [todo EXCEPT ![t] = <<>>] /\ result' = [result EXCEPT ![t] = "FAILED"]
      /\ actual' = actual /\ input' = input /\ scope' = scope
  BY DEF RollBack, Doing
<1>2. Tables /\ Accountable /\ dirty \in [Task -> SUBSET Node] /\ IsProgram(broke[t])
      /\ dirty[t] \subseteq scope[t] /\ input[t] \in L2Input /\ DOMAIN broke = Task
  BY <1>1 DEF L2Inv, Tables, TaskSound, Running
<1>3. result'[t] = "FAILED"
  BY <1>1, <1>2 DEF Tables
<1>4. ASSUME DOMAIN broke' = Task, \A u \in Task : IsProgram(broke'[u]),
             dirty' \in [Task -> SUBSET Node], Accountable', Justified(t)',
             \A u \in Task : dirty'[u] \subseteq dirty[u],
             \A u \in Task \ {t} : broke'[u] = broke[u]
      PROVE  L2Inv'
  <2>1. Tables'
    BY <1>1, <1>2, <1>4 DEF Tables
  <2>2. TaskSound(t)'
    BY <1>1, <1>2, <1>3, <1>4 DEF TaskSound, Running, Ended
  <2>3. ASSUME NEW u \in Task \ {t} PROVE TaskSound(u)'
    <3>1. todo'[u] = todo[u] /\ result'[u] = result[u]
      BY <1>1, <1>2 DEF Tables
    <3> QED BY <1>1, <1>4, <3>1, OthersStay DEF L2Inv
  <2> QED BY <1>4, <2>1, <2>2, <2>3 DEF L2Inv
<1>5. CASE /\ intent' = Copied(intent, actual, This(t).on)
           /\ dirty' = Cleaned(This(t).on) /\ broke' = broke
  <2>1. \A u \in Task : dirty'[u] = dirty[u] \ This(t).on
    BY <1>5 DEF Cleaned
  <2>2. dirty' \in [Task -> SUBSET Node]
    BY <1>2, <1>5 DEF Cleaned
  <2>3. Accountable'
    <3> DEFINE on == This(t).on
    <3>1. \A d \in Node : d \notin on => /\ intent'[d] = intent[d] /\ actual'[d] = actual[d]
                                         /\ \A u \in Task : d \in dirty[u] => d \in dirty'[u]
      BY <1>1, <1>5, <2>1 DEF Copied
    <3>2. \A d \in Node : d \in on => intent'[d] = actual'[d]
      BY <1>1, <1>5 DEF Copied
    <3> HIDE DEF on
    <3> QED BY <1>2, <3>1, <3>2, AccountAfter
  <2>4. Justified(t)'
    <3>1. ASSUME NEW d \in dirty'[t] PROVE Excuse(t, d)
      BY <1>1, <2>1, RollbackExcuse
    <3>2. \A d : Leaves(t, d) => Leaves(t, d)'
      BY <1>1, <1>5 DEF Leaves, VllLeaves, Creates, IsVll, VplsLeaves, DoesVpls, IsVpls,
                        BiLeaves, DoesBi, IsBi, BrokeResettingElsewhere
    <3>3. \A d : Excuse(t, d) => LeftByDesign(t)' \/ Leaves(t, d)'
      BY <1>1, <1>5, <3>2 DEF Excuse, LeftByDesign
    <3> QED BY <3>1, <3>3 DEF Justified
  <2> QED BY <1>2, <1>4, <1>5, <2>1, <2>2, <2>3, <2>4 DEF Tables
<1>6. CASE /\ broke' = [broke EXCEPT ![t] = Append(@, This(t))]
           /\ intent' = intent /\ dirty' = dirty
  <2>1. Accountable'
    BY <1>1, <1>2, <1>6 DEF Accountable, Pending
  <2>2. broke'[t] = Append(broke[t], This(t)) /\ IsProgram(broke'[t])
    BY <1>2, <1>6, AppendFacts
  <2>3. /\ DOMAIN broke' = Task /\ \A u \in Task : IsProgram(broke'[u])
        /\ \A u \in Task \ {t} : broke'[u] = broke[u]
    BY <1>2, <1>6, <2>2 DEF Tables
  <2>4. Justified(t)'
    <3>1. /\ Len(broke[t]) + 1 \in DOMAIN broke'[t]
          /\ broke'[t][Len(broke[t]) + 1] = This(t)
      BY <1>2, <2>2, AppendFacts
    <3> QED BY <1>1, <3>1 DEF Justified, LeftByDesign
  <2> QED BY <1>2, <1>4, <1>6, <2>1, <2>3, <2>4
<1> QED BY <1>5, <1>6 DEF RollBack

\* The death of a worker: its changes are left by design.
LEMMA DiesInv ==
  ASSUME L2Inv, NEW t \in Task, WorkerDies(t) PROVE L2Inv'
<1>1. /\ Running(t) /\ todo' = [todo EXCEPT ![t] = <<>>]
      /\ result' = [result EXCEPT ![t] = "LOST"]
      /\ UNCHANGED <<intent, actual, input, broke, scope, dirty>>
  BY DEF WorkerDies
<1>2. Tables /\ Accountable /\ dirty[t] \subseteq scope[t] /\ input[t] \in L2Input
  BY <1>1 DEF L2Inv, TaskSound, Running
<1>3. Tables' /\ Accountable' /\ result'[t] = "LOST"
  BY <1>1, <1>2 DEF Tables, Accountable, Pending
<1>4. TaskSound(t)'
  BY <1>1, <1>2, <1>3 DEF TaskSound, Running, Ended, Justified, LeftByDesign
<1>5. ASSUME NEW u \in Task \ {t} PROVE TaskSound(u)'
  <2>1. todo'[u] = todo[u] /\ result'[u] = result[u]
    BY <1>1, <1>2 DEF Tables
  <2> QED BY <1>1, <2>1, OthersStay DEF L2Inv
<1> QED BY <1>3, <1>4, <1>5 DEF L2Inv

\* A task begins: nothing of it is dirty.
LEMMA StartInv ==
  ASSUME L2Inv, NEW t \in Task, MayBegin(t), BeginsWith(t, L2Input) PROVE L2Inv'
<1>1. PICK in \in L2Input : \E p, area : Starts(in, p, area) /\ Begin(t, in, p, area)
  BY DEF BeginsWith
<1>2. PICK p, area : Starts(in, p, area) /\ Begin(t, in, p, area)
  BY <1>1
<1>3. PICK ids \in SUBSET area : SoundFrom(in, ids, p, {}) /\ EndSound(in, ids, p)
  BY <1>2 DEF Starts
<1>4. /\ input' = [input EXCEPT ![t] = in] /\ todo' = [todo EXCEPT ![t] = p]
      /\ result' = [result EXCEPT ![t] = "running"] /\ scope' = [scope EXCEPT ![t] = area]
      /\ UNCHANGED <<intent, actual, broke, dirty>>
  BY <1>2 DEF Begin
<1>5. Tables /\ Accountable /\ dirty[t] = {} /\ broke[t] = <<>>
  BY DEF L2Inv, TaskSound, MayBegin
<1>6. /\ Tables' /\ Accountable' /\ input'[t] = in /\ todo'[t] = p /\ result'[t] = "running"
      /\ scope'[t] = area /\ dirty'[t] = {} /\ broke'[t] = <<>>
  BY <1>4, <1>5 DEF Tables, Accountable, Pending
<1>7. Going(t)'
  <2>1. Follows(t, ids)'
    BY <1>3, <1>6 DEF Follows
  <2>2. OnlyWritesBroke(t)'
    <3>1. DOMAIN <<>> = {}
      OBVIOUS
    <3> QED BY <1>6, <3>1 DEF OnlyWritesBroke
  <2> QED BY <2>1, <2>2 DEF Going
<1>8. TaskSound(t)'
  BY <1>6, <1>7 DEF TaskSound, Running, Ended
<1>9. ASSUME NEW u \in Task \ {t} PROVE TaskSound(u)'
  <2>1. /\ todo'[u] = todo[u] /\ result'[u] = result[u] /\ scope'[u] = scope[u]
        /\ input'[u] = input[u]
    BY <1>4, <1>5 DEF Tables
  <2> QED BY <1>4, <2>1, OthersStay DEF L2Inv
<1> QED BY <1>6, <1>8, <1>9 DEF L2Inv
-----------------------------------------------------------------------------
(* The theorems *)

\* At first nothing is pending and no task has begun.
LEMMA InitL2Inv == Init => L2Inv
<1> SUFFICES ASSUME Init PROVE L2Inv
  OBVIOUS
<1>1. <<>> \in Seq({})
  OBVIOUS
<1>2. Tables
  BY <1>1 DEF Init, Tables, IsProgram
<1>3. ASSUME NEW t \in Task PROVE TaskSound(t)
  <2>1. result[t] = "idle" /\ dirty[t] = {} /\ broke[t] = <<>>
    BY DEF Init
  <2> QED BY <2>1 DEF TaskSound, Running, Ended
<1>4. Accountable
  BY DEF Init, Accountable, Pending
<1> QED BY <1>2, <1>3, <1>4 DEF L2Inv

\* The invariant is kept by every step.
LEMMA NextL2Inv == L2Inv /\ [Next]_vars => L2Inv'
<1> SUFFICES ASSUME L2Inv, [Next]_vars PROVE L2Inv'
  OBVIOUS
<1>1. CASE Next
  <2>1. PICK t \in Task : \/ VllStart(t) \/ VplsStart(t) \/ BiStart(t)
                          \/ Advance(t) \/ WorkerDies(t)
    BY <1>1 DEF Next
  <2>2. CASE VllStart(t) \/ VplsStart(t) \/ BiStart(t)
    BY <2>2, AnyBegins, StartInv
  <2>3. CASE Advance(t)
    BY <2>3, CallSucceeds, FailInv, RollInv DEF Advance
  <2> QED BY <2>1, <2>2, <2>3, DiesInv
<1>2. CASE UNCHANGED vars
  <2>1. UNCHANGED <<intent, actual, input, todo, result, broke, scope, dirty>>
    BY <1>2 DEF vars
  <2>2. Tables' /\ Accountable'
    BY <2>1 DEF L2Inv, Tables, Accountable, Pending
  <2>3. ASSUME NEW u \in Task PROVE TaskSound(u)'
    BY <2>1, OthersStay DEF L2Inv
  <2> QED BY <2>2, <2>3 DEF L2Inv
<1> QED BY <1>1, <1>2

\* Whichever services share the nodes and however their tasks interleave, fail
\* and die, a change that waits in the intent of a node for the commit of
\* somebody else is there for one of the listed reasons: the workers of VLL,
\* VPLS and BI roll back what they have touched at every other exit.
THEOREM SpecNothingIsLeft == Spec => []NothingIsLeft
BY InitL2Inv, NextL2Inv, InvNothingIsLeft, PTL DEF Spec

\* When VPLS tasks are alone, what is left has one of their reasons.
OnlyVpls ==
  DOMAIN input = Task /\ \A t \in Task : input[t] \in VplsInput \cup {None}

\* The tasks of VPLS have inputs of VPLS.
LEMMA NextOnlyVpls == OnlyVpls /\ [VplsNext]_vars => OnlyVpls'
<1> SUFFICES ASSUME OnlyVpls, [VplsNext]_vars PROVE OnlyVpls'
  OBVIOUS
<1>1. ASSUME NEW t \in Task, VplsStart(t) PROVE OnlyVpls'
  <2>1. PICK in \in VplsInput : \E p, area : Starts(in, p, area) /\ Begin(t, in, p, area)
    BY <1>1, VplsBegins DEF BeginsWith
  <2>2. input' = [input EXCEPT ![t] = in]
    BY <2>1 DEF Begin
  <2> QED BY <2>2 DEF OnlyVpls
<1>2. ASSUME NEW t \in Task, Advance(t) \/ WorkerDies(t) PROVE OnlyVpls'
  <2>1. input' = input
    BY <1>2 DEF Advance, ReadData, WriteData, CommitData, SyncData, DryRunData, GoOn,
                CallFails, RollBack, WorkerDies
  <2> QED BY <2>1 DEF OnlyVpls
<1>3. CASE UNCHANGED vars
  BY <1>3 DEF vars, OnlyVpls
<1> QED BY <1>1, <1>2, <1>3 DEF VplsNext

\* A VPLS task that ends leaves no change in the intent of a node which a later
\* commit would carry to the network, but for the listed reasons, whichever
\* calls fail and however the tasks interleave.
THEOREM SpecVplsLeavesNothing == VplsSpec => []VplsLeavesNothing
<1>1. VplsNext => Next
  BY DEF VplsNext, Next
<1>2. L2Inv /\ [VplsNext]_vars => L2Inv'
  BY <1>1, NextL2Inv
<1>3. Init => OnlyVpls
  BY DEF Init, OnlyVpls
<1>4. L2Inv /\ OnlyVpls => VplsLeavesNothing
  <2> SUFFICES ASSUME L2Inv, OnlyVpls, NEW d \in Node, Pending(d)
               PROVE  \E t \in Task : d \in dirty[t] /\ (LeftByDesign(t) \/ VplsLeaves(t, d))
    BY DEF VplsLeavesNothing
  <2>1. PICK t \in Task : /\ d \in dirty[t]
                          /\ \/ LeftByDesign(t)
                             \/ VllLeaves(t, d) \/ VplsLeaves(t, d) \/ BiLeaves(t, d)
    BY InvNothingIsLeft DEF NothingIsLeft
  <2>2. input[t] # None => input[t].service = "VPLS"
    BY InputFacts DEF OnlyVpls
  <2>3. ~VllLeaves(t, d) /\ ~BiLeaves(t, d)
    BY <2>2 DEF VllLeaves, Creates, IsVll, BiLeaves, DoesBi, IsBi
  <2> QED BY <2>1, <2>3
<1> QED BY <1>2, <1>3, <1>4, InitL2Inv, NextOnlyVpls, PTL DEF VplsSpec
-----------------------------------------------------------------------------
(* The parts of an end of BI *)

WritesTo(s, d, o) == s.call = "write" /\ d \in s.on /\ s.object = o

\* What a task writes of an end, beside its port: the objects and their contents.
Parts(in, end) ==
  IF in.do = "create"
  THEN {<<VlanOf(end.vlan), VlanData(in)>>, <<Port(end.ve_interface), VeData(end)>>,
        <<Isis(end.ve_interface), [passive |-> TRUE]>>}
  ELSE {<<VlanOf(end.vlan), None>>, <<Port(end.ve_interface), None>>}

\* The ends of an input by their number; two that share their VLAN.
Numbers(in) == 1..Len(in.devices)
Shares(in, k, i) ==
  in.devices[k].id = in.devices[i].id /\ in.devices[k].vlan = in.devices[i].vlan

\* A step that writes no part and commits nothing; one about the end i only.
NoPart(in, x) ==
  \A k \in Numbers(in) : \A part \in Parts(in, in.devices[k]) :
    ~WritesTo(x, in.devices[k].id, part[1])
Idle(in, x) == x.call # "commit" /\ NoPart(in, x)
EndStep(in, i, x) ==
  /\ x.call # "commit"
  /\ \A k \in Numbers(in) : \A part \in Parts(in, in.devices[k]) :
       WritesTo(x, in.devices[k].id, part[1]) => Shares(in, k, i)
ResetStep(in, i, x) ==
  (x.call = "commit" => x.on = {in.devices[i].id}) /\ NoPart(in, x)

\* A step of a BI task.  What it writes of a part is what the part should be; it
\* may be left out or overlooked only where that makes no difference.
BiStep(in, x) ==
  /\ x.on \subseteq BiIds(in) /\ x.undo \subseteq BiIds(in)
  /\ x.fails \in {"abort", "ignore", "skip"}
  /\ x.fails # "abort" => Idle(in, x)
  /\ \A k \in Numbers(in) : \A part \in Parts(in, in.devices[k]) :
       WritesTo(x, in.devices[k].id, part[1]) => x.value = part[2]
BiProgram(in, p) ==
  /\ IsProgram(p)
  /\ \A k \in 1..Len(p) :
       /\ BiStep(in, p[k])
       /\ p[k].fails = "skip" => k + 1 \in 1..Len(p) /\ Idle(in, p[k + 1])

Steps(p) == {p[k] : k \in 1..Len(p)}

\* The first c steps of p write the object.
Has(p, c, d, o) == \E j \in 1..c : WritesTo(p[j], d, o)

\* The steps of programs in a row.
LEMMA RowSteps ==
  ASSUME NEW p, NEW q, IsProgram(p), IsProgram(q)
  PROVE  /\ Steps(p \o q) = Steps(p) \cup Steps(q)
         /\ \A c \in 1..Len(p) : \A d, o : Has(p \o q, c, d, o) <=> Has(p, c, d, o)
         /\ \A c \in 1..Len(q) : \A d, o :
              Has(p \o q, Len(p) + c, d, o) <=> Has(p, Len(p), d, o) \/ Has(q, c, d, o)
         /\ \A d, o : Has(p \o q, Len(p \o q), d, o)
                        <=> Has(p, Len(p), d, o) \/ Has(q, Len(q), d, o)
<1> DEFINE r == p \o q
           m == Len(p)
           n == Len(q)
<1>1. /\ Len(r) = m + n /\ m \in Nat /\ n \in Nat
      /\ \A k \in 1..m : r[k] = p[k]
      /\ \A k \in 1..(m + n) : k > m => r[k] = q[k - m] /\ k - m \in 1..n
  BY ProgramConcat
<1>2. \A k \in 1..n : r[m + k] = q[k]
  <2> TAKE k \in 1..n
  <2>1. m + k \in 1..(m + n) /\ m + k > m /\ (m + k) - m = k
    BY <1>1
  <2> QED BY <1>1, <2>1
<1> HIDE DEF r, m, n
<1>3. \A c \in 1..m : \A d, o : Has(r, c, d, o) <=> Has(p, c, d, o)
  BY <1>1 DEF Has
<1>4. ASSUME NEW c \in 0..n, NEW d, NEW o
      PROVE  Has(r, m + c, d, o) <=> Has(p, m, d, o) \/ Has(q, c, d, o)
  <2>1. ASSUME Has(r, m + c, d, o) PROVE Has(p, m, d, o) \/ Has(q, c, d, o)
    <3>1. PICK j \in 1..(m + c) : WritesTo(r[j], d, o)
      BY <2>1 DEF Has
    <3>2. CASE j \in 1..m
      BY <1>1, <3>1, <3>2 DEF Has
    <3>3. CASE j \notin 1..m
      <4>1. j - m \in 1..c /\ r[j] = q[j - m]
        BY <1>1, <3>3
      <4> QED BY <3>1, <4>1 DEF Has
    <3> QED BY <3>2, <3>3
  <2>2. ASSUME Has(p, m, d, o) PROVE Has(r, m + c, d, o)
    <3>1. PICK j \in 1..m : WritesTo(p[j], d, o)
      BY <2>2 DEF Has
    <3>2. j \in 1..(m + c) /\ r[j] = p[j]
      BY <1>1
    <3> QED BY <3>1, <3>2 DEF Has
  <2>3. ASSUME Has(q, c, d, o) PROVE Has(r, m + c, d, o)
    <3>1. PICK j \in 1..c : WritesTo(q[j], d, o)
      BY <2>3 DEF Has
    <3>2. m + j \in 1..(m + c) /\ j \in 1..n
      BY <1>1
    <3>3. r[m + j] = q[j]
      BY <1>2, <3>2
    <3> QED BY <3>1, <3>2, <3>3 DEF Has
  <2> QED BY <2>1, <2>2, <2>3
<1>5. Steps(r) = Steps(p) \cup Steps(q)
  <2>1. Steps(r) \subseteq Steps(p) \cup Steps(q)
    <3> SUFFICES ASSUME NEW k \in 1..(m + n) PROVE r[k] \in Steps(p) \cup Steps(q)
      BY <1>1 DEF Steps
    <3>1. CASE k \in 1..m
      BY <1>1, <3>1 DEF Steps, m
    <3>2. CASE k \notin 1..m
      <4>1. k - m \in 1..n /\ r[k] = q[k - m]
        BY <1>1, <3>2
      <4> QED BY <4>1 DEF Steps, n
    <3> QED BY <3>1, <3>2
  <2>2. Steps(p) \subseteq Steps(r)
    <3> SUFFICES ASSUME NEW k \in 1..m PROVE p[k] \in Steps(r)
      BY DEF Steps, m
    <3>1. k \in 1..Len(r) /\ r[k] = p[k]
      BY <1>1
    <3> QED BY <3>1 DEF Steps
  <2>3. Steps(q) \subseteq Steps(r)
    <3> SUFFICES ASSUME NEW k \in 1..n PROVE q[k] \in Steps(r)
      BY DEF Steps, n
    <3>1. m + k \in 1..Len(r) /\ r[m + k] = q[k]
      BY <1>1, <1>2
    <3> QED BY <3>1 DEF Steps
  <2> QED BY <2>1, <2>2, <2>3
<1>6. \A c \in 1..n : c \in 0..n
  BY <1>1
<1>7. n \in 0..n
  BY <1>1
<1>8. \A c \in 1..n : \A d, o : Has(r, m + c, d, o) <=> Has(p, m, d, o) \/ Has(q, c, d, o)
  BY <1>4, <1>6
<1>9. \A d, o : Has(r, Len(r), d, o) <=> Has(p, m, d, o) \/ Has(q, n, d, o)
  BY <1>1, <1>4, <1>7
<1> QED BY <1>3, <1>5, <1>8, <1>9 DEF r, m, n

\* One step.
LEMMA SingleStep ==
  ASSUME NEW x
  PROVE  /\ Len(<<x>>) = 1 /\ <<x>>[1] = x /\ IsProgram(<<x>>) /\ Steps(<<x>>) = {x}
         /\ \A d, o : Has(<<x>>, 1, d, o) <=> WritesTo(x, d, o)
<1>1. <<x>> \in Seq({x}) /\ Len(<<x>>) = 1 /\ <<x>>[1] = x
  OBVIOUS
<1>2. \A k : k \in 1..1 <=> k = 1
  OBVIOUS
<1> DEFINE p == <<x>>
<1> HIDE DEF p
<1>3. p \in Seq({x}) /\ Len(p) = 1 /\ p[1] = x
  BY <1>1 DEF p
<1>4. Steps(p) = {x}
  BY <1>2, <1>3 DEF Steps
<1>5. \A d, o : Has(p, 1, d, o) <=> WritesTo(x, d, o)
  BY <1>2, <1>3 DEF Has
<1>6. IsProgram(p)
  BY <1>3 DEF IsProgram
<1> QED BY <1>3, <1>4, <1>5, <1>6 DEF p

\* Two steps.
LEMMA StepAndStep == \A x, y : <<x>> \o <<y>> = <<x, y>>
<1> TAKE x, y
<1> DEFINE p == <<x>>
           q == <<y>>
           r == <<x, y>>
<1>1. /\ p \in Seq({x, y}) /\ Len(p) = 1 /\ p[1] = x
      /\ q \in Seq({x, y}) /\ Len(q) = 1 /\ q[1] = y
      /\ r \in Seq({x, y}) /\ Len(r) = 2 /\ r[1] = x /\ r[2] = y
  OBVIOUS
<1> HIDE DEF p, q, r
<1> DEFINE u == p \o q
<1>2. /\ u \in Seq({x, y}) /\ Len(u) = Len(p) + Len(q)
      /\ \A k \in 1..(Len(p) + Len(q)) : u[k] = IF k <= Len(p) THEN p[k] ELSE q[k - Len(p)]
  BY <1>1, ConcatProperties
<1> HIDE DEF u
<1>3. Len(u) = 2 /\ u[1] = x /\ u[2] = y
  BY <1>1, <1>2
<1>4. \A k : k \in 1..2 <=> k = 1 \/ k = 2
  OBVIOUS
<1>5. u = r
  BY <1>1, <1>2, <1>3, <1>4, SeqEqual
<1> QED BY <1>5 DEF u, p, q, r

\* The programs of BI.
LEMMA EmptyBi ==
  ASSUME NEW in
  PROVE  /\ BiProgram(in, <<>>) /\ Steps(<<>>) = {} /\ Len(<<>>) = 0
         /\ \A d, o : ~Has(<<>>, 0, d, o)
<1>1. <<>> \in Seq({}) /\ Len(<<>>) = 0 /\ \A k : k \notin 1..0
  OBVIOUS
<1> QED BY <1>1 DEF BiProgram, IsProgram, Steps, Has

LEMMA OneBi ==
  ASSUME NEW in, NEW x, BiStep(in, x), x.fails # "skip"
  PROVE  BiProgram(in, <<x>>)
<1>1. \A k : k \in 1..1 <=> k = 1
  OBVIOUS
<1> DEFINE p == <<x>>
<1>2. Len(p) = 1 /\ p[1] = x /\ IsProgram(p)
  BY SingleStep
<1> HIDE DEF p
<1>3. BiProgram(in, p)
  BY <1>1, <1>2 DEF BiProgram
<1> QED BY <1>3 DEF p

\* A read whose failure leaves out the next step.
LEMMA SkipBi ==
  ASSUME NEW in, NEW x, NEW y, BiStep(in, x), BiStep(in, y), Idle(in, y), y.fails # "skip"
  PROVE  /\ BiProgram(in, <<x, y>>) /\ Steps(<<x, y>>) = {x, y}
<1>1. /\ <<x, y>> \in Seq({x, y}) /\ Len(<<x, y>>) = 2
      /\ <<x, y>>[1] = x /\ <<x, y>>[2] = y
  OBVIOUS
<1>2. \A k : k \in 1..2 <=> k = 1 \/ k = 2
  OBVIOUS
<1>3. 1 + 1 = 2
  OBVIOUS
<1> DEFINE p == <<x, y>>
<1> HIDE DEF p
<1>4. p \in Seq({x, y}) /\ Len(p) = 2 /\ p[1] = x /\ p[2] = y
  BY <1>1 DEF p
<1>5. Steps(p) = {x, y}
  BY <1>2, <1>4 DEF Steps
<1>6. BiProgram(in, p)
  BY <1>2, <1>3, <1>4 DEF BiProgram, IsProgram
<1> QED BY <1>5, <1>6 DEF p

LEMMA ConcatBi ==
  ASSUME NEW in, NEW p, NEW q, BiProgram(in, p), BiProgram(in, q)
  PROVE  BiProgram(in, p \o q)
<1> DEFINE r == p \o q
           m == Len(p)
           n == Len(q)
<1>1. /\ IsProgram(r) /\ Len(r) = m + n /\ m \in Nat /\ n \in Nat
      /\ \A k \in 1..m : r[k] = p[k]
      /\ \A k \in 1..(m + n) : k > m => r[k] = q[k - m] /\ k - m \in 1..n
  BY ProgramConcat DEF BiProgram
<1> HIDE DEF r
<1>2. ASSUME NEW k \in 1..(m + n)
      PROVE  /\ BiStep(in, r[k])
             /\ r[k].fails = "skip" => k + 1 \in 1..(m + n) /\ Idle(in, r[k + 1])
  <2>1. CASE k \in 1..m
    <3>1. BiStep(in, r[k]) /\ (r[k].fails = "skip" => k + 1 \in 1..m /\ Idle(in, p[k + 1]))
      BY <1>1, <2>1 DEF BiProgram
    <3>2. k + 1 \in 1..m => k + 1 \in 1..(m + n)
      BY <1>1
    <3> QED BY <1>1, <3>1, <3>2
  <2>2. CASE k \notin 1..m
    <3>1. r[k] = q[k - m] /\ k - m \in 1..n
      BY <1>1, <2>2
    <3>2. BiStep(in, r[k]) /\ (r[k].fails = "skip" => (k - m) + 1 \in 1..n /\ Idle(in, q[(k - m) + 1]))
      BY <3>1 DEF BiProgram
    <3>3. (k - m) + 1 \in 1..n => /\ k + 1 \in 1..(m + n) /\ k + 1 > m
                                  /\ (k + 1) - m = (k - m) + 1
      BY <1>1
    <3>4. (k - m) + 1 \in 1..n => r[k + 1] = q[(k - m) + 1]
      <4> SUFFICES ASSUME (k - m) + 1 \in 1..n PROVE r[k + 1] = q[(k - m) + 1]
        OBVIOUS
      <4>1. r[k + 1] = q[(k + 1) - m]
        BY <1>1, <3>3
      <4> QED BY <3>3, <4>1
    <3> QED BY <3>2, <3>3, <3>4
  <2> QED BY <2>1, <2>2
<1>3. BiProgram(in, r)
  BY <1>1, <1>2 DEF BiProgram
<1> QED BY <1>3 DEF r

\* Objects of different kinds or of different keys are different.
LEMMA ObjectsApart ==
  /\ \A i, j : Port(i) = Port(j) => i = j
  /\ \A i, j : Isis(i) = Isis(j) => i = j
  /\ \A v, w : VlanOf(v) = VlanOf(w) => v = w
  /\ \A i, v : VlanOf(v) # Port(i) /\ VlanOf(v) # Isis(i)
                /\ VlanOf(v) # Policy(i) /\ VlanOf(v) # Stp(i)
  /\ \A i, j : /\ Port(i) # Isis(j) /\ Port(i) # Policy(j) /\ Port(i) # Stp(j)
               /\ Isis(i) # Policy(j) /\ Isis(i) # Stp(j)
BY DEF Port, Isis, VlanOf, Policy, Stp

\* The ends of a BI task.
LEMMA BiNumbers ==
  ASSUME NEW in \in BiInput
  PROVE  /\ Len(in.devices) \in Nat /\ DOMAIN in.devices = Numbers(in)
         /\ BiIds(in) = {in.devices[k].id : k \in Numbers(in)}
         /\ VlanData(in) \in Value
         /\ \A k \in Numbers(in) :
              /\ in.devices[k].vlan \in Vlan
              /\ in.devices[k].interface \in Interface /\ in.devices[k].ve_interface \in Interface
<1>1. /\ in.devices \in Seq(Range(in.devices)) /\ VlanData(in) \in Value
      /\ \A end \in Range(in.devices) :
           end.vlan \in Vlan /\ {end.interface, end.ve_interface} \subseteq Interface
  BY BiInputAssumption
<1>2. Len(in.devices) \in Nat /\ DOMAIN in.devices = Numbers(in)
  BY <1>1 DEF Numbers
<1>3. \A k \in Numbers(in) : in.devices[k] \in Range(in.devices)
  BY <1>2 DEF Range
<1> QED BY <1>1, <1>2, <1>3 DEF BiIds

\* What the ends of a service on one node have in common.
LEMMA Agreeing ==
  ASSUME NEW in \in BiInput, EndsAgree(in), NEW k \in Numbers(in), NEW i \in Numbers(in),
         in.devices[k].id = in.devices[i].id
  PROVE  /\ in.devices[k].ve_interface # in.devices[i].interface
         /\ in.devices[k].vlan = in.devices[i].vlan
              <=> in.devices[k].ve_interface = in.devices[i].ve_interface
         /\ in.devices[k].vlan = in.devices[i].vlan => in.devices[k].ip = in.devices[i].ip
BY BiNumbers DEF EndsAgree

\* The parts of the other ends on a node are those of end i, or other objects.
LEMMA PartsOfEnd ==
  ASSUME NEW in \in BiInput, EndsAgree(in), NEW i \in Numbers(in), NEW k \in Numbers(in),
         in.devices[k].id = in.devices[i].id, NEW part \in Parts(in, in.devices[k])
  PROVE  /\ part[1] # Port(in.devices[i].interface)
         /\ \A j : part[1] # Policy(j) /\ part[1] # Stp(j)
         /\ (\E mine \in Parts(in, in.devices[i]) : mine[1] = part[1]) =>
              Shares(in, k, i) /\ part \in Parts(in, in.devices[i])
         /\ part = <<part[1], part[2]>>
<1> DEFINE e == in.devices[k]
           f == in.devices[i]
<1>1. /\ e.ve_interface # f.interface
      /\ e.vlan = f.vlan <=> e.ve_interface = f.ve_interface
      /\ e.vlan = f.vlan => e.ip = f.ip
  BY Agreeing
<1>2. e.vlan = f.vlan => VeData(e) = VeData(f)
  BY <1>1 DEF VeData
<1>3. e.vlan = f.vlan => Parts(in, e) = Parts(in, f)
  BY <1>1, <1>2 DEF Parts
<1>4. e.vlan = f.vlan <=> Shares(in, k, i)
  BY DEF Shares
<1> HIDE DEF e, f
<1>5. CASE in.do = "create"
  <2>1. \/ part = <<VlanOf(e.vlan), VlanData(in)>>
        \/ part = <<Port(e.ve_interface), VeData(e)>>
        \/ part = <<Isis(e.ve_interface), [passive |-> TRUE]>>
    BY <1>5 DEF Parts, e
  <2>2. part[1] \in {VlanOf(e.vlan), Port(e.ve_interface), Isis(e.ve_interface)}
        /\ part = <<part[1], part[2]>>
    BY <2>1
  <2>3. \A mine \in Parts(in, f) :
          mine[1] \in {VlanOf(f.vlan), Port(f.ve_interface), Isis(f.ve_interface)}
    BY <1>5 DEF Parts
  <2>4. (\E mine \in Parts(in, f) : mine[1] = part[1]) => e.vlan = f.vlan
    BY <1>1, <2>2, <2>3, ObjectsApart
  <2>5. part[1] # Port(f.interface) /\ \A j : part[1] # Policy(j) /\ part[1] # Stp(j)
    BY <1>1, <2>2, ObjectsApart
  <2> QED BY <1>3, <1>4, <2>2, <2>4, <2>5 DEF e, f
<1>6. CASE in.do # "create"
  <2>1. \/ part = <<VlanOf(e.vlan), None>>
        \/ part = <<Port(e.ve_interface), None>>
    BY <1>6 DEF Parts, e
  <2>2. part[1] \in {VlanOf(e.vlan), Port(e.ve_interface)} /\ part = <<part[1], part[2]>>
    BY <2>1
  <2>3. \A mine \in Parts(in, f) : mine[1] \in {VlanOf(f.vlan), Port(f.ve_interface)}
    BY <1>6 DEF Parts
  <2>4. (\E mine \in Parts(in, f) : mine[1] = part[1]) => e.vlan = f.vlan
    BY <1>1, <2>2, <2>3, ObjectsApart
  <2>5. part[1] # Port(f.interface) /\ \A j : part[1] # Policy(j) /\ part[1] # Stp(j)
    BY <1>1, <2>2, ObjectsApart
  <2> QED BY <1>3, <1>4, <2>2, <2>4, <2>5 DEF e, f
<1> QED BY <1>5, <1>6

\* The objects of the parts determine them.
LEMMA PartsApart ==
  ASSUME NEW in, NEW end, NEW part \in Parts(in, end), NEW mine \in Parts(in, end),
         part[1] = mine[1]
  PROVE  part[2] = mine[2]
<1> DEFINE v == VlanOf(end.vlan)
           p == Port(end.ve_interface)
           i == Isis(end.ve_interface)
<1>1. v # p /\ v # i /\ p # i
  BY ObjectsApart
<1>2. \/ Parts(in, end) \subseteq {<<v, VlanData(in)>>, <<p, VeData(end)>>,
                                <<i, [passive |-> TRUE]>>}
      \/ Parts(in, end) \subseteq {<<v, None>>, <<p, None>>}
  BY DEF Parts
<1> HIDE DEF v, p, i
<1>3. ASSUME NEW a, NEW b, NEW c, Parts(in, end) \subseteq {<<v, a>>, <<p, b>>, <<i, c>>}
      PROVE  part[2] = mine[2]
  <2>1. /\ part = <<v, a>> \/ part = <<p, b>> \/ part = <<i, c>>
        /\ mine = <<v, a>> \/ mine = <<p, b>> \/ mine = <<i, c>>
    BY <1>3
  <2>2. \A x, y : <<x, y>>[1] = x /\ <<x, y>>[2] = y
    OBVIOUS
  <2> QED BY <1>1, <2>1, <2>2
<1>4. CASE Parts(in, end) \subseteq {<<v, None>>, <<p, None>>}
  <2>1. Parts(in, end) \subseteq {<<v, None>>, <<p, None>>, <<i, None>>}
    BY <1>4
  <2> QED BY <1>3, <2>1
<1> QED BY <1>2, <1>3, <1>4

\* A part of end i is written.
LEMMA PutPart ==
  ASSUME NEW in \in BiInput, EndsAgree(in), NEW i \in Numbers(in),
         NEW o, NEW v, <<o, v>> \in Parts(in, in.devices[i]), NEW undo \in SUBSET BiIds(in)
  PROVE  LET x == Put(in.devices[i].id, o, v, undo) IN
         /\ BiStep(in, x) /\ EndStep(in, i, x) /\ x.fails = "abort"
         /\ WritesTo(x, in.devices[i].id, o)
<1> DEFINE x == Put(in.devices[i].id, o, v, undo)
<1>1. /\ x.call = "write" /\ x.on = {in.devices[i].id} /\ x.object = o /\ x.value = v
      /\ x.undo = undo /\ x.fails = "abort"
  BY DEF Put
<1> HIDE DEF x
<1>2. \A mine \in Parts(in, in.devices[i]) : mine[1] = o => mine[2] = v
  <2>1. <<o, v>>[1] = o /\ <<o, v>>[2] = v
    OBVIOUS
  <2> QED BY <2>1, PartsApart
<1>3. ASSUME NEW k \in Numbers(in), NEW part \in Parts(in, in.devices[k]),
             WritesTo(x, in.devices[k].id, part[1])
      PROVE  x.value = part[2] /\ Shares(in, k, i)
  <2>1. in.devices[k].id = in.devices[i].id /\ part[1] = o
    BY <1>1, <1>3 DEF WritesTo
  <2>2. <<o, v>>[1] = o
    OBVIOUS
  <2>3. \E mine \in Parts(in, in.devices[i]) : mine[1] = part[1]
    BY <2>1, <2>2
  <2>4. Shares(in, k, i) /\ part \in Parts(in, in.devices[i])
    BY <2>1, <2>3, PartsOfEnd
  <2> QED BY <1>1, <1>2, <2>1, <2>4
<1>4. x.on \subseteq BiIds(in)
  BY <1>1, BiNumbers
<1>5. BiStep(in, x) /\ EndStep(in, i, x) /\ WritesTo(x, in.devices[i].id, o)
  BY <1>1, <1>3, <1>4 DEF BiStep, EndStep, WritesTo
<1> QED BY <1>1, <1>5 DEF x

\* A step that writes no part.
LEMMA IdleStep ==
  ASSUME NEW in \in BiInput, NEW i \in Numbers(in), NEW x, Idle(in, x),
         x.on = {in.devices[i].id}, x.undo \in SUBSET BiIds(in),
         x.fails \in {"abort", "ignore", "skip"}
  PROVE  BiStep(in, x) /\ EndStep(in, i, x) /\ ResetStep(in, i, x)
<1>1. x.on \subseteq BiIds(in)
  BY BiNumbers
<1> QED BY <1>1 DEF BiStep, EndStep, ResetStep, Idle, NoPart

\* So do the writes of a port, a policy and of the spanning tree, and the reads.
LEMMA OtherIdle ==
  ASSUME NEW in \in BiInput, EndsAgree(in), NEW i \in Numbers(in), NEW x,
         x.call # "commit", x.on = {in.devices[i].id},
         \/ x.call # "write"
         \/ x.object = Port(in.devices[i].interface)
         \/ x.object \in {Policy(in.devices[i].interface), Stp(in.devices[i].interface)}
  PROVE  Idle(in, x)
<1>1. SUFFICES ASSUME NEW k \in Numbers(in), NEW part \in Parts(in, in.devices[k]),
                      WritesTo(x, in.devices[k].id, part[1])
               PROVE  FALSE
  BY DEF Idle, NoPart
<1>2. in.devices[k].id = in.devices[i].id /\ part[1] = x.object /\ x.call = "write"
  BY <1>1 DEF WritesTo
<1>3. /\ part[1] # Port(in.devices[i].interface)
      /\ \A j : part[1] # Policy(j) /\ part[1] # Stp(j)
  BY <1>2, PartsOfEnd
<1> QED BY <1>2, <1>3

\* A program that resets the end i, or writes it.
Resetting(in, i, p) == BiProgram(in, p) /\ \A x \in Steps(p) : ResetStep(in, i, x)
Writing(in, i, p)   == BiProgram(in, p) /\ \A x \in Steps(p) : EndStep(in, i, x)

LEMMA ConcatOfEnd ==
  ASSUME NEW in, NEW i, NEW p, NEW q
  PROVE  /\ Resetting(in, i, p) /\ Resetting(in, i, q) => Resetting(in, i, p \o q)
         /\ Writing(in, i, p) /\ Writing(in, i, q) => Writing(in, i, p \o q)
<1>1. ASSUME BiProgram(in, p), BiProgram(in, q)
      PROVE  BiProgram(in, p \o q) /\ Steps(p \o q) = Steps(p) \cup Steps(q)
  BY <1>1, ConcatBi, RowSteps DEF BiProgram
<1> QED BY <1>1 DEF Resetting, Writing

LEMMA EmptyOfEnd == \A in, i : Resetting(in, i, <<>>) /\ Writing(in, i, <<>>)
BY EmptyBi DEF Resetting, Writing

\* One step.
LEMMA SingleOfEnd ==
  ASSUME NEW in, NEW i, NEW x, BiStep(in, x), x.fails # "skip"
  PROVE  /\ EndStep(in, i, x) => Writing(in, i, <<x>>)
         /\ ResetStep(in, i, x) => Resetting(in, i, <<x>>)
BY OneBi, SingleStep DEF Writing, Resetting

\* A write of something else of the end i.
LEMMA PutOther ==
  ASSUME NEW in \in BiInput, EndsAgree(in), NEW i \in Numbers(in), NEW o, NEW v,
         NEW undo \in SUBSET BiIds(in),
         o \in {Port(in.devices[i].interface), Policy(in.devices[i].interface)}
  PROVE  LET p == <<Put(in.devices[i].id, o, v, undo)>> IN
         Writing(in, i, p) /\ Resetting(in, i, p)
<1> DEFINE x == Put(in.devices[i].id, o, v, undo)
<1>1. /\ x.call = "write" /\ x.on = {in.devices[i].id} /\ x.object = o
      /\ x.undo = undo /\ x.fails = "abort"
  BY DEF Put
<1> HIDE DEF x
<1>2. Idle(in, x)
  BY <1>1, OtherIdle
<1>3. BiStep(in, x) /\ EndStep(in, i, x) /\ ResetStep(in, i, x)
  BY <1>1, <1>2, IdleStep
<1>4. Writing(in, i, <<x>>) /\ Resetting(in, i, <<x>>)
  BY <1>1, <1>3, SingleOfEnd
<1> QED BY <1>4 DEF x

\* The end i is reset; the commit is about its device.
LEMMA ResetOfEnd ==
  ASSUME NEW in \in BiInput, EndsAgree(in), NEW i \in Numbers(in)
  PROVE  Resetting(in, i, ResetBiEnd(in.devices[i], BiIds(in)))
<1> DEFINE e == in.devices[i]
           all == BiIds(in)
<1>1. e.id \in all
  BY BiNumbers
<1>2. Resetting(in, i, ResetPolicy(e, {e.id}))
  <2> DEFINE x == [Read(e.id, Policy(e.interface), {}) EXCEPT !.fails = "skip"]
             y == Delete(e.id, Policy(e.interface), {e.id})
  <2>1. /\ x.call = "read" /\ x.on = {e.id} /\ x.undo = {} /\ x.fails = "skip"
        /\ y.call = "write" /\ y.on = {e.id} /\ y.undo = {e.id} /\ y.fails = "abort"
        /\ y.object = Policy(e.interface)
    BY DEF Read, Delete, Put
  <2> HIDE DEF x, y
  <2>2. Idle(in, x) /\ Idle(in, y)
    BY <2>1, OtherIdle
  <2>3. BiStep(in, x) /\ BiStep(in, y) /\ ResetStep(in, i, x) /\ ResetStep(in, i, y)
    BY <1>1, <2>1, <2>2, IdleStep
  <2>4. BiProgram(in, <<x, y>>) /\ Steps(<<x, y>>) = {x, y}
    BY <2>1, <2>2, <2>3, SkipBi
  <2>5. Resetting(in, i, <<x, y>>)
    BY <2>3, <2>4 DEF Resetting
  <2>6. ResetPolicy(e, {e.id}) = IF e.policy # {} THEN <<x, y>> ELSE <<>>
    BY DEF ResetPolicy, When, x, y
  <2> QED BY <2>5, <2>6, EmptyOfEnd
<1>3. Resetting(in, i, DeleteInterface(e, all))
  BY PutOther DEF DeleteInterface, Delete
<1>4. ASSUME NEW call \in {"commit", "sync"} PROVE Resetting(in, i, <<Call(call, {e.id}, all)>>)
  <2> DEFINE x == Call(call, {e.id}, all)
  <2>1. /\ x.call = call /\ x.on = {e.id} /\ x.undo = all /\ x.fails = "abort"
    BY DEF Call
  <2> HIDE DEF x
  <2>2. NoPart(in, x)
    BY <2>1 DEF NoPart, WritesTo
  <2>3. BiStep(in, x) /\ ResetStep(in, i, x)
    BY <1>1, <2>1, <2>2 DEF BiStep, ResetStep, NoPart
  <2>4. Resetting(in, i, <<x>>)
    BY <2>1, <2>3, SingleOfEnd
  <2> QED BY <2>4 DEF x
<1>5. Resetting(in, i, <<Commit({e.id}, all)>>) /\ Resetting(in, i, <<SyncFromNet({e.id}, all)>>)
  BY <1>4 DEF Commit, SyncFromNet
<1> DEFINE a == ResetPolicy(e, {e.id})
           b == DeleteInterface(e, all)
           c == Commit({e.id}, all)
           d == SyncFromNet({e.id}, all)
<1>6. ResetBiEnd(e, all) = (a \o b) \o (<<c>> \o <<d>>)
  BY DEF ResetBiEnd
<1> HIDE DEF a, b, c, d
<1>7. Resetting(in, i, (a \o b) \o (<<c>> \o <<d>>))
  <2>1. Resetting(in, i, a) /\ Resetting(in, i, b) /\ Resetting(in, i, <<c>>)
        /\ Resetting(in, i, <<d>>)
    BY <1>2, <1>3, <1>5 DEF a, b, c, d
  <2>2. Resetting(in, i, a \o b) /\ Resetting(in, i, <<c>> \o <<d>>)
    BY <2>1, ConcatOfEnd
  <2> QED BY <2>2, ConcatOfEnd
<1> QED BY <1>6, <1>7

\* A write of a part of the end i.
LEMMA PutPartOfEnd ==
  ASSUME NEW in \in BiInput, EndsAgree(in), NEW i \in Numbers(in),
         NEW o, NEW v, <<o, v>> \in Parts(in, in.devices[i]), NEW undo \in SUBSET BiIds(in)
  PROVE  LET p == <<Put(in.devices[i].id, o, v, undo)>> IN
         Writing(in, i, p) /\ Has(p, Len(p), in.devices[i].id, o)
<1> DEFINE x == Put(in.devices[i].id, o, v, undo)
<1>1. /\ BiStep(in, x) /\ EndStep(in, i, x) /\ x.fails = "abort"
      /\ WritesTo(x, in.devices[i].id, o)
  BY PutPart
<1> HIDE DEF x
<1>2. Writing(in, i, <<x>>)
  BY <1>1, SingleOfEnd
<1>3. Has(<<x>>, Len(<<x>>), in.devices[i].id, o)
  BY <1>1, SingleStep
<1> QED BY <1>2, <1>3 DEF x

\* What a program writes it writes in a row with others.
LEMMA HasInRow ==
  ASSUME NEW in, NEW i, NEW p, NEW q, Writing(in, i, p), Writing(in, i, q), NEW d, NEW o
  PROVE  Has(p \o q, Len(p \o q), d, o) <=> Has(p, Len(p), d, o) \/ Has(q, Len(q), d, o)
BY RowSteps DEF Writing, BiProgram

\* All parts of the end i are written.
Complete(in, i, p) ==
  Writing(in, i, p) /\ \A part \in Parts(in, in.devices[i]) :
                         Has(p, Len(p), in.devices[i].id, part[1])

LEMMA ConfigureOfEnd ==
  ASSUME NEW in \in BiInput, EndsAgree(in), NEW i \in Numbers(in), in.do = "create"
  PROVE  Complete(in, i, ConfigureBiEnd(in, in.devices[i], BiIds(in)))
<1> DEFINE e == in.devices[i]
           all == BiIds(in)
           a == Put(e.id, VlanOf(e.vlan), VlanData(in), all)
           b == Put(e.id, Port(e.interface), BiPort(e), all)
           c == PutPolicy(e, all)
           d == DisableStp(e)
           f == Put(e.id, Port(e.ve_interface), VeData(e), all)
           g == Put(e.id, Isis(e.ve_interface), [passive |-> TRUE], all)
<1>1. /\ <<VlanOf(e.vlan), VlanData(in)>> \in Parts(in, e)
      /\ <<Port(e.ve_interface), VeData(e)>> \in Parts(in, e)
      /\ <<Isis(e.ve_interface), [passive |-> TRUE]>> \in Parts(in, e)
  BY DEF Parts
<1>2. /\ Writing(in, i, <<a>>) /\ Has(<<a>>, Len(<<a>>), e.id, VlanOf(e.vlan))
      /\ Writing(in, i, <<f>>) /\ Has(<<f>>, Len(<<f>>), e.id, Port(e.ve_interface))
      /\ Writing(in, i, <<g>>) /\ Has(<<g>>, Len(<<g>>), e.id, Isis(e.ve_interface))
  <2>1. Writing(in, i, <<a>>) /\ Has(<<a>>, Len(<<a>>), e.id, VlanOf(e.vlan))
    BY <1>1, PutPartOfEnd
  <2>2. Writing(in, i, <<f>>) /\ Has(<<f>>, Len(<<f>>), e.id, Port(e.ve_interface))
    BY <1>1, PutPartOfEnd
  <2>3. Writing(in, i, <<g>>) /\ Has(<<g>>, Len(<<g>>), e.id, Isis(e.ve_interface))
    BY <1>1, PutPartOfEnd
  <2> QED BY <2>1, <2>2, <2>3
<1>3. Writing(in, i, <<b>>)
  BY PutOther
<1>4. Writing(in, i, c)
  <2>1. Writing(in, i, <<Put(e.id, Policy(e.interface), PolicyData(e.policy), all)>>)
    BY PutOther
  <2> QED BY <2>1, EmptyOfEnd DEF PutPolicy, When
<1>5. Writing(in, i, d)
  <2> DEFINE x == [Delete(e.id, Stp(e.interface), {}) EXCEPT !.fails = "ignore"]
  <2>1. /\ x.call = "write" /\ x.on = {e.id} /\ x.undo = {} /\ x.fails = "ignore"
        /\ x.object = Stp(e.interface)
    BY DEF Delete, Put
  <2>2. d = <<x>>
    BY DEF DisableStp
  <2> HIDE DEF x, d
  <2>3. Idle(in, x)
    BY <2>1, OtherIdle
  <2>4. BiStep(in, x) /\ EndStep(in, i, x)
    BY <2>1, <2>3, IdleStep
  <2> QED BY <2>1, <2>2, <2>4, SingleOfEnd
<1>6. ConfigureBiEnd(in, e, all) = ((((<<a>> \o <<b>>) \o c) \o d) \o <<f>>) \o <<g>>
  <2>1. ConfigureBiEnd(in, e, all) = ((<<a, b>> \o c) \o d) \o <<f, g>>
    BY DEF ConfigureBiEnd
  <2>2. \A p : IsProgram(p) => p \o <<f, g>> = (p \o <<f>>) \o <<g>>
    <3> SUFFICES ASSUME NEW p, IsProgram(p) PROVE p \o <<f, g>> = (p \o <<f>>) \o <<g>>
      OBVIOUS
    <3> HIDE DEF f, g
    <3>1. PICK S : p \in Seq(S)
      BY DEF IsProgram
    <3>2. Len(p) \in Nat /\ p \in [1..Len(p) -> S \cup {f, g}]
      BY <3>1
    <3>3. p \in Seq(S \cup {f, g})
      BY <3>2, ListIsProgram
    <3>4. <<f>> \in Seq(S \cup {f, g}) /\ <<g>> \in Seq(S \cup {f, g})
      OBVIOUS
    <3>5. p \o (<<f>> \o <<g>>) = (p \o <<f>>) \o <<g>>
      BY <3>3, <3>4, ConcatAssociative
    <3> QED BY <3>5, StepAndStep
  <2>3. IsProgram((<<a, b>> \o c) \o d)
    <3>1. Writing(in, i, <<a>> \o <<b>>)
      <4> HIDE DEF a, b
      <4> QED BY <1>2, <1>3, ConcatOfEnd
    <3>2. <<a>> \o <<b>> = <<a, b>>
      <4> HIDE DEF a, b
      <4> QED BY StepAndStep
    <3> HIDE DEF a, b, c, d
    <3>3. Writing(in, i, (<<a, b>> \o c) \o d)
      BY <1>4, <1>5, <3>1, <3>2, ConcatOfEnd
    <3> QED BY <3>3 DEF Writing, BiProgram
  <2>4. <<a, b>> = <<a>> \o <<b>>
    OBVIOUS
  <2> HIDE DEF a, b, c, d, f, g
  <2> QED BY <2>1, <2>2, <2>3, <2>4
<1>7. Parts(in, e) = {<<VlanOf(e.vlan), VlanData(in)>>, <<Port(e.ve_interface), VeData(e)>>,
                      <<Isis(e.ve_interface), [passive |-> TRUE]>>}
  BY DEF Parts
<1>8. \A part \in Parts(in, e) :
        part[1] \in {VlanOf(e.vlan), Port(e.ve_interface), Isis(e.ve_interface)}
  BY <1>7
<1> HIDE DEF a, b, c, d, f, g
<1> DEFINE p == ((<<a>> \o <<b>>) \o c) \o d
           q == p \o <<f>>
           r == q \o <<g>>
<1>9. Writing(in, i, p) /\ Has(p, Len(p), e.id, VlanOf(e.vlan))
  <2> DEFINE u == <<a>> \o <<b>>
             w == u \o c
  <2>1. Writing(in, i, u) /\ Has(u, Len(u), e.id, VlanOf(e.vlan))
    BY <1>2, <1>3, ConcatOfEnd, HasInRow
  <2> HIDE DEF u
  <2>2. Writing(in, i, w) /\ Has(w, Len(w), e.id, VlanOf(e.vlan))
    BY <1>4, <2>1, ConcatOfEnd, HasInRow
  <2> HIDE DEF w
  <2>3. Writing(in, i, w \o d) /\ Has(w \o d, Len(w \o d), e.id, VlanOf(e.vlan))
    BY <1>5, <2>2, ConcatOfEnd, HasInRow
  <2> QED BY <2>3 DEF u, w
<1> HIDE DEF p
<1>10. /\ Writing(in, i, q) /\ Has(q, Len(q), e.id, VlanOf(e.vlan))
       /\ Has(q, Len(q), e.id, Port(e.ve_interface))
  BY <1>2, <1>9, ConcatOfEnd, HasInRow
<1> HIDE DEF q
<1>11. /\ Writing(in, i, r) /\ Has(r, Len(r), e.id, VlanOf(e.vlan))
       /\ Has(r, Len(r), e.id, Port(e.ve_interface))
       /\ Has(r, Len(r), e.id, Isis(e.ve_interface))
  BY <1>2, <1>10, ConcatOfEnd, HasInRow
<1> HIDE DEF r
<1>12. Complete(in, i, r)
  BY <1>8, <1>11 DEF Complete
<1> QED BY <1>6, <1>12 DEF p, q, r

\* An end is deleted.
LEMMA DeleteOfEnd ==
  ASSUME NEW in \in BiInput, EndsAgree(in), NEW i \in Numbers(in), in.do # "create",
         NEW undo \in SUBSET BiIds(in)
  PROVE  Complete(in, i, DeleteBiEnd(in.devices[i], undo))
<1> DEFINE e == in.devices[i]
           a == <<Put(e.id, Port(e.ve_interface), None, undo)>>
           b == <<Put(e.id, Port(e.interface), Bare, undo)>>
           c == <<Put(e.id, VlanOf(e.vlan), None, undo)>>
<1>1. Parts(in, e) = {<<VlanOf(e.vlan), None>>, <<Port(e.ve_interface), None>>}
  BY DEF Parts
<1>2. Writing(in, i, a) /\ Has(a, Len(a), e.id, Port(e.ve_interface))
  <2>1. <<Port(e.ve_interface), None>> \in Parts(in, e)
    BY <1>1
  <2> QED BY <2>1, PutPartOfEnd
<1>3. Writing(in, i, c) /\ Has(c, Len(c), e.id, VlanOf(e.vlan))
  <2>1. <<VlanOf(e.vlan), None>> \in Parts(in, e)
    BY <1>1
  <2> QED BY <2>1, PutPartOfEnd
<1>4. Writing(in, i, b)
  BY PutOther
<1>5. DeleteBiEnd(e, undo) = (a \o b) \o c
  BY DEF DeleteBiEnd, PutMinimalInterface, Delete
<1>6. \A part \in Parts(in, e) : part[1] \in {VlanOf(e.vlan), Port(e.ve_interface)}
  BY <1>1
<1> HIDE DEF a, b, c
<1> DEFINE p == a \o b
<1>7. Writing(in, i, p) /\ Has(p, Len(p), e.id, Port(e.ve_interface))
  BY <1>2, <1>4, ConcatOfEnd, HasInRow
<1> HIDE DEF p
<1>8. /\ Writing(in, i, p \o c)
      /\ Has(p \o c, Len(p \o c), e.id, Port(e.ve_interface))
      /\ Has(p \o c, Len(p \o c), e.id, VlanOf(e.vlan))
  BY <1>3, <1>7, ConcatOfEnd, HasInRow
<1>9. Complete(in, i, p \o c)
  BY <1>6, <1>8 DEF Complete
<1> QED BY <1>5, <1>9 DEF p
-----------------------------------------------------------------------------
(* The ends in a row *)

\* A commit that resets an end, after the first ends were written: of the ends
\* it carries it carries all parts or none, and none of those that no reset
\* should meet.
Meets(in, p, c, k) ==
  /\ \/ \A part \in Parts(in, in.devices[k]) : Has(p, c, in.devices[k].id, part[1])
     \/ \A part \in Parts(in, in.devices[k]) : ~Has(p, c, in.devices[k].id, part[1])
  /\ ~ResetAfter(in, k) =>
       \A part \in Parts(in, in.devices[k]) : ~Has(p, c, in.devices[k].id, part[1])
MeetsAll(in, p, c) ==
  in.do = "create" /\ \A k \in Numbers(in) : in.devices[k].id \in p[c].on => Meets(in, p, c, k)

\* A program that has written the first i ends.
Row(in, i, p) ==
  /\ BiProgram(in, p)
  /\ \A k \in 1..i : \A part \in Parts(in, in.devices[k]) :
       Has(p, Len(p), in.devices[k].id, part[1])
  /\ \A k \in Numbers(in) : \A part \in Parts(in, in.devices[k]) :
       Has(p, Len(p), in.devices[k].id, part[1]) => \E j \in 1..i : Shares(in, k, j)
  /\ \A c \in 1..Len(p) : p[c].call = "commit" => MeetsAll(in, p, c)

LEMMA PartsShared ==
  ASSUME NEW in \in BiInput, EndsAgree(in), NEW i \in Numbers(in), NEW k \in Numbers(in),
         Shares(in, k, i)
  PROVE  Parts(in, in.devices[k]) = Parts(in, in.devices[i])
<1>1. /\ in.devices[k].vlan = in.devices[i].vlan
      /\ in.devices[k].ve_interface = in.devices[i].ve_interface
      /\ in.devices[k].ip = in.devices[i].ip
  BY Agreeing DEF Shares
<1>2. VeData(in.devices[k]) = VeData(in.devices[i])
  BY <1>1 DEF VeData
<1> QED BY <1>1, <1>2 DEF Parts

\* Resetting the next end writes nothing of a part, and its commit meets what
\* was written.
LEMMA RowReset ==
  ASSUME NEW in \in BiInput, EndsAgree(in), NEW i \in Numbers(in), NEW p, Row(in, i - 1, p),
         NEW r, Resetting(in, i, r),
         \A x \in Steps(r) :
           x.call = "commit" => in.do = "create" /\ in.devices[i].interface_reset
  PROVE  Row(in, i - 1, p \o r)
<1> DEFINE u == p \o r
           m == Len(p)
           n == Len(r)
<1>1. BiProgram(in, p) /\ BiProgram(in, r) /\ IsProgram(p) /\ IsProgram(r)
  BY DEF Row, Resetting, BiProgram
<1>2. BiProgram(in, u)
  BY <1>1, ConcatBi
<1>3. /\ Len(u) = m + n /\ m \in Nat /\ n \in Nat
      /\ \A k \in 1..m : u[k] = p[k]
      /\ \A k \in 1..(m + n) : k > m => u[k] = r[k - m] /\ k - m \in 1..n
  BY <1>1, ProgramConcat
<1>4. /\ \A c \in 1..m : \A d, o : Has(u, c, d, o) <=> Has(p, c, d, o)
      /\ \A c \in 1..n : \A d, o : Has(u, m + c, d, o) <=> Has(p, m, d, o) \/ Has(r, c, d, o)
      /\ \A d, o : Has(u, Len(u), d, o) <=> Has(p, m, d, o) \/ Has(r, n, d, o)
  BY <1>1, RowSteps
<1>5. \A c \in 1..n : r[c] \in Steps(r)
  BY DEF Steps
<1> HIDE DEF u, m, n
<1>6. \A k \in Numbers(in) : \A part \in Parts(in, in.devices[k]) : \A c \in 0..n :
        ~Has(r, c, in.devices[k].id, part[1])
  BY <1>3, <1>5 DEF Resetting, ResetStep, NoPart, Has
<1>7. n \in 0..n /\ \A c \in 1..n : c \in 0..n
  BY <1>3
<1>8. \A k \in Numbers(in) : \A part \in Parts(in, in.devices[k]) :
        Has(u, Len(u), in.devices[k].id, part[1]) <=> Has(p, m, in.devices[k].id, part[1])
  BY <1>4, <1>6, <1>7
<1>9. i \in Nat /\ \A k \in 1..(i - 1) : k \in Numbers(in) /\ k < i
  BY BiNumbers DEF Numbers
<1>10. /\ \A k \in 1..(i - 1) : \A part \in Parts(in, in.devices[k]) :
            Has(p, m, in.devices[k].id, part[1])
       /\ \A k \in Numbers(in) : \A part \in Parts(in, in.devices[k]) :
            Has(p, m, in.devices[k].id, part[1]) => \E j \in 1..(i - 1) : Shares(in, k, j)
       /\ \A c \in 1..m : p[c].call = "commit" => MeetsAll(in, p, c)
  BY DEF Row, m
<1>11. ASSUME NEW c \in 1..(m + n), u[c].call = "commit" PROVE MeetsAll(in, u, c)
  <2>1. CASE c \in 1..m
    <3>1. u[c] = p[c] /\ MeetsAll(in, p, c)
      BY <1>3, <1>10, <1>11, <2>1
    <3> QED BY <1>4, <2>1, <3>1 DEF MeetsAll, Meets
  <2>2. CASE c \notin 1..m
    <3> DEFINE l == c - m
    <3>1. u[c] = r[l] /\ l \in 1..n /\ c = m + l
      BY <1>3, <2>2
    <3> HIDE DEF l
    <3>2. /\ in.do = "create" /\ in.devices[i].interface_reset
          /\ u[c].on = {in.devices[i].id}
      BY <1>5, <1>11, <3>1 DEF Resetting, ResetStep
    <3>3. ASSUME NEW k \in Numbers(in), in.devices[k].id = in.devices[i].id
          PROVE  Meets(in, u, c, k)
      <4>1. \A part \in Parts(in, in.devices[k]) :
              Has(u, c, in.devices[k].id, part[1]) <=> Has(p, m, in.devices[k].id, part[1])
        BY <1>4, <1>6, <1>7, <3>1
      <4>2. CASE \E j \in 1..(i - 1) : Shares(in, k, j)
        <5>1. PICK j \in 1..(i - 1) : Shares(in, k, j)
          BY <4>2
        <5>2. j \in Numbers(in) /\ j < i
          BY <1>9
        <5>3. Parts(in, in.devices[k]) = Parts(in, in.devices[j])
          BY <5>1, <5>2, PartsShared
        <5>4. in.devices[k].id = in.devices[j].id /\ in.devices[k].vlan = in.devices[j].vlan
          BY <5>1 DEF Shares
        <5>5. \A part \in Parts(in, in.devices[k]) : Has(u, c, in.devices[k].id, part[1])
          BY <1>10, <4>1, <5>3, <5>4
        <5>6. ResetAfter(in, k)
          BY <3>2, <3>3, <5>2, <5>4, BiNumbers DEF ResetAfter
        <5> QED BY <5>5, <5>6 DEF Meets
      <4>3. CASE ~\E j \in 1..(i - 1) : Shares(in, k, j)
        <5>1. \A part \in Parts(in, in.devices[k]) : ~Has(u, c, in.devices[k].id, part[1])
          BY <1>10, <4>1, <4>3
        <5> QED BY <5>1 DEF Meets
      <4> QED BY <4>2, <4>3
    <3> QED BY <3>2, <3>3 DEF MeetsAll
  <2> QED BY <2>1, <2>2
<1>12. Row(in, i - 1, u)
  BY <1>2, <1>3, <1>8, <1>9, <1>10, <1>11 DEF Row, m
<1> QED BY <1>12 DEF u

\* Writing the next end.
LEMMA RowWrite ==
  ASSUME NEW in \in BiInput, EndsAgree(in), NEW i \in Numbers(in), NEW p, Row(in, i - 1, p),
         NEW s, Complete(in, i, s)
  PROVE  Row(in, i, p \o s)
<1> DEFINE u == p \o s
           m == Len(p)
           n == Len(s)
<1>1. BiProgram(in, p) /\ BiProgram(in, s) /\ IsProgram(p) /\ IsProgram(s)
  BY DEF Row, Complete, Writing, BiProgram
<1>2. BiProgram(in, u)
  BY <1>1, ConcatBi
<1>3. /\ Len(u) = m + n /\ m \in Nat /\ n \in Nat
      /\ \A k \in 1..m : u[k] = p[k]
      /\ \A k \in 1..(m + n) : k > m => u[k] = s[k - m] /\ k - m \in 1..n
  BY <1>1, ProgramConcat
<1>4. /\ \A c \in 1..m : \A d, o : Has(u, c, d, o) <=> Has(p, c, d, o)
      /\ \A d, o : Has(u, Len(u), d, o) <=> Has(p, m, d, o) \/ Has(s, n, d, o)
  BY <1>1, RowSteps
<1>5. \A c \in 1..n : EndStep(in, i, s[c])
  BY DEF Steps, Complete, Writing
<1>6. i \in Nat /\ i \in 1..i /\ \A k \in 1..i : k \in 1..(i - 1) \/ k = i
  BY BiNumbers DEF Numbers
<1>7. \A k \in 1..(i - 1) : k \in 1..i
  BY <1>6
<1>8. \A part \in Parts(in, in.devices[i]) : Has(s, n, in.devices[i].id, part[1])
  BY DEF Complete
<1>9. /\ \A k \in 1..(i - 1) : \A part \in Parts(in, in.devices[k]) :
            Has(p, m, in.devices[k].id, part[1])
      /\ \A k \in Numbers(in) : \A part \in Parts(in, in.devices[k]) :
            Has(p, m, in.devices[k].id, part[1]) => \E j \in 1..(i - 1) : Shares(in, k, j)
      /\ \A c \in 1..m : p[c].call = "commit" => MeetsAll(in, p, c)
  BY DEF Row, m
<1> HIDE DEF u, m, n
<1>10. ASSUME NEW k \in Numbers(in), NEW part \in Parts(in, in.devices[k]),
              Has(s, n, in.devices[k].id, part[1])
       PROVE  Shares(in, k, i)
  <2>1. PICK c \in 1..n : WritesTo(s[c], in.devices[k].id, part[1])
    BY <1>10 DEF Has
  <2> QED BY <1>5, <2>1 DEF EndStep
<1>11. \A k \in 1..i : \A part \in Parts(in, in.devices[k]) :
         Has(u, Len(u), in.devices[k].id, part[1])
  BY <1>4, <1>6, <1>8, <1>9
<1>12. \A k \in Numbers(in) : \A part \in Parts(in, in.devices[k]) :
         Has(u, Len(u), in.devices[k].id, part[1]) => \E j \in 1..i : Shares(in, k, j)
  BY <1>4, <1>6, <1>7, <1>9, <1>10
<1>13. ASSUME NEW c \in 1..(m + n), u[c].call = "commit" PROVE MeetsAll(in, u, c)
  <2>1. c \in 1..m
    <3> SUFFICES ASSUME c \notin 1..m PROVE FALSE
      OBVIOUS
    <3>1. u[c] = s[c - m] /\ c - m \in 1..n
      BY <1>3
    <3> QED BY <1>5, <1>13, <3>1 DEF EndStep
  <2>2. u[c] = p[c] /\ MeetsAll(in, p, c)
    BY <1>3, <1>9, <1>13, <2>1
  <2> QED BY <1>4, <2>1, <2>2 DEF MeetsAll, Meets
<1>14. Row(in, i, u)
  BY <1>2, <1>3, <1>11, <1>12, <1>13 DEF Row
<1> QED BY <1>14 DEF u

\* Programs in a row can be put together in any order.
LEMMA ProgramAssociative ==
  ASSUME NEW p, NEW q, NEW r, IsProgram(p), IsProgram(q), IsProgram(r)
  PROVE  (p \o q) \o r = p \o (q \o r) /\ <<>> \o p = p
<1>1. PICK S : p \in Seq(S)
  BY DEF IsProgram
<1>2. PICK T : q \in Seq(T)
  BY DEF IsProgram
<1>3. PICK U : r \in Seq(U)
  BY DEF IsProgram
<1> DEFINE V == S \cup T \cup U
<1>4. p \in Seq(V) /\ q \in Seq(V) /\ r \in Seq(V)
  <2>1. Len(p) \in Nat /\ Len(q) \in Nat /\ Len(r) \in Nat
    BY <1>1, <1>2, <1>3
  <2>2. p \in [1..Len(p) -> V] /\ q \in [1..Len(q) -> V] /\ r \in [1..Len(r) -> V]
    BY <1>1, <1>2, <1>3
  <2> HIDE DEF V
  <2> QED BY <2>1, <2>2, ListIsProgram
<1> HIDE DEF V
<1> QED BY <1>4, ConcatAssociative, ConcatEmptySeq

\* The steps about one end: it may be reset, then it is written.
Ends(in, i, q) ==
  \E r, s :
    /\ q = r \o s /\ Resetting(in, i, r) /\ Complete(in, i, s)
    /\ \A x \in Steps(r) :
         x.call = "commit" => in.do = "create" /\ in.devices[i].interface_reset

LEMMA RowEnd ==
  ASSUME NEW in \in BiInput, EndsAgree(in), NEW i \in Numbers(in), NEW p, Row(in, i - 1, p),
         NEW q, Ends(in, i, q)
  PROVE  Row(in, i, p \o q)
<1>1. PICK r, s :
        /\ q = r \o s /\ Resetting(in, i, r) /\ Complete(in, i, s)
        /\ \A x \in Steps(r) :
             x.call = "commit" => in.do = "create" /\ in.devices[i].interface_reset
  BY DEF Ends
<1>2. Row(in, i - 1, p \o r)
  BY <1>1, RowReset
<1> DEFINE u == p \o r
<1>3. Row(in, i, u \o s)
  <2> HIDE DEF u
  <2>1. Row(in, i - 1, u)
    BY <1>2 DEF u
  <2> QED BY <1>1, <2>1, RowWrite
<1>4. IsProgram(p) /\ IsProgram(r) /\ IsProgram(s)
  BY <1>1 DEF Row, Resetting, Complete, Writing, BiProgram
<1>5. u \o s = p \o q
  BY <1>1, <1>4, ProgramAssociative
<1> QED BY <1>3, <1>5

\* All ends in a row.
LEMMA RowOfEnds ==
  ASSUME NEW in \in BiInput, EndsAgree(in), NEW ps, IsList(ps, Len(in.devices)),
         \A i \in Numbers(in) : Ends(in, i, ps[i])
  PROVE  Row(in, Len(in.devices), FlattenSeq(ps))
<1> DEFINE n == Len(in.devices)
           Def(g) == g = [i \in 1..n |-> IF i = 1 THEN ps[i] ELSE g[i - 1] \o ps[i]]
           f == CHOOSE g : Def(g)
<1>1. n \in Nat /\ Numbers(in) = 1..n
  BY BiNumbers DEF Numbers
<1>2. Row(in, 0, <<>>)
  <2>1. \A k : k \notin 1..0
    OBVIOUS
  <2> QED BY <2>1, EmptyBi DEF Row
<1>3. Len(ps) = n
  <2>1. ps \in [1..n -> {ps[i] : i \in 1..n}]
    BY DEF IsList
  <2> HIDE DEF n
  <2> QED BY <1>1, <2>1, ListIsProgram
<1>4. CASE n = 0
  <2>1. FlattenSeq(ps) = <<>>
    BY <1>3, <1>4 DEF FlattenSeq
  <2> QED BY <1>2, <1>4, <2>1
<1>5. CASE n # 0
  <2>1. FlattenSeq(ps) = f[n]
    BY <1>3, <1>5 DEF FlattenSeq
  <2>2. Def(f)
    <3>1. \E g : Def(g)
      BY <1>1, FlattenExists
    <3> HIDE DEF Def
    <3> QED BY <3>1
  <2> HIDE DEF f
  <2> DEFINE T == {i \in 1..n : Row(in, i, f[i])}
  <2>3. ASSUME NEW i \in 1..n, \A k \in 1..(i - 1) : k \in T PROVE i \in T
    <3>1. CASE i = 1
      <4>1. f[i] = ps[i]
        BY <2>2, <3>1
      <4>2. IsProgram(ps[i])
        <5>1. PICK r, s : ps[i] = r \o s /\ Resetting(in, i, r) /\ Complete(in, i, s)
          BY <1>1 DEF Ends
        <5> QED BY <5>1, ProgramConcat DEF Resetting, Complete, Writing, BiProgram
      <4>3. <<>> \o ps[i] = ps[i]
        BY <4>2, ProgramAssociative
      <4>4. Row(in, i - 1, <<>>)
        BY <1>2, <3>1
      <4>5. Row(in, i, <<>> \o ps[i])
        <5> HIDE DEF n
        <5> QED BY <1>1, <4>4, RowEnd
      <4> QED BY <4>1, <4>3, <4>5
    <3>2. CASE i # 1
      <4>1. i - 1 \in 1..(i - 1)
        BY <3>2
      <4>2. Row(in, i - 1, f[i - 1])
        BY <2>3, <4>1
      <4>3. f[i] = f[i - 1] \o ps[i]
        BY <2>2, <3>2
      <4>4. Row(in, i, f[i - 1] \o ps[i])
        <5> DEFINE p == f[i - 1]
        <5>1. Row(in, i - 1, p)
          BY <4>2
        <5> HIDE DEF p, n
        <5>2. Row(in, i, p \o ps[i])
          BY <1>1, <5>1, RowEnd
        <5> QED BY <5>2 DEF p
      <4> QED BY <4>3, <4>4
    <3> QED BY <3>1, <3>2
  <2>4. n \in T
    <3>1. \A i \in 1..n : i \in T
      <4> HIDE DEF T, n
      <4> QED BY <1>1, <2>3, Upwards
    <3> QED BY <1>1, <1>5, <3>1
  <2> QED BY <2>1, <2>4
<1> QED BY <1>4, <1>5

\* The commits of a program: the last one is about all devices of the task and
\* carries every part; those before it carry an end whole or not at all.
Commits(in, p) ==
  \A c \in 1..Len(p) : p[c].call = "commit" =>
    /\ in.do # "erase"
    /\ c = Len(p) =>
         /\ p[c].on = BiIds(in)
         /\ \A k \in Numbers(in) : \A part \in Parts(in, in.devices[k]) :
              Has(p, c, in.devices[k].id, part[1])
    /\ c < Len(p) => MeetsAll(in, p, c)

LEMMA FinishRow ==
  ASSUME NEW in \in BiInput, EndsAgree(in), NEW p, Row(in, Len(in.devices), p),
         in.do # "erase", NEW dryrun
  PROVE  /\ BiProgram(in, p \o Finish(dryrun, BiIds(in)))
         /\ Commits(in, p \o Finish(dryrun, BiIds(in)))
<1> PICK x : x = IF dryrun THEN DryRun(BiIds(in)) ELSE Commit(BiIds(in), BiIds(in))
  OBVIOUS
<1>1. /\ Finish(dryrun, BiIds(in)) = <<x>>
      /\ x.call \in {"commit", "dryrun"} /\ x.on = BiIds(in) /\ x.undo \subseteq BiIds(in)
      /\ x.fails = "abort"
  BY DEF Finish, DryRun, Commit, Call
<1>2. BiStep(in, x)
  BY <1>1 DEF BiStep, WritesTo
<1>3. BiProgram(in, <<x>>) /\ IsProgram(<<x>>) /\ Len(<<x>>) = 1 /\ <<x>>[1] = x
  BY <1>1, <1>2, OneBi, SingleStep
<1> DEFINE q == <<x>>
           u == p \o q
           m == Len(p)
<1>4. BiProgram(in, p) /\ IsProgram(p)
  BY DEF Row, BiProgram
<1>5. BiProgram(in, u)
  BY <1>3, <1>4, ConcatBi
<1> HIDE DEF q
<1>6. /\ Len(u) = m + 1 /\ m \in Nat
      /\ \A k \in 1..m : u[k] = p[k]
      /\ u[m + 1] = x
  <2>1. /\ Len(u) = m + Len(q) /\ m \in Nat
        /\ \A k \in 1..m : u[k] = p[k]
        /\ \A k \in 1..(m + Len(q)) : k > m => u[k] = q[k - m]
    BY <1>3, <1>4, ProgramConcat DEF q
  <2>2. Len(q) = 1 /\ q[1] = x
    BY <1>3 DEF q
  <2>3. m + 1 \in 1..(m + 1) /\ m + 1 > m /\ (m + 1) - m = 1
    BY <2>1
  <2> QED BY <2>1, <2>2, <2>3
<1>7. /\ \A c \in 1..m : \A d, o : Has(u, c, d, o) <=> Has(p, c, d, o)
      /\ \A d, o : Has(p, m, d, o) => Has(u, Len(u), d, o)
  BY <1>3, <1>4, RowSteps DEF q
<1>8. /\ \A k \in Numbers(in) : \A part \in Parts(in, in.devices[k]) :
           Has(p, m, in.devices[k].id, part[1])
      /\ \A c \in 1..m : p[c].call = "commit" => MeetsAll(in, p, c)
  BY DEF Row, Numbers
<1> HIDE DEF u, m
<1>9. ASSUME NEW c \in 1..(m + 1), u[c].call = "commit"
      PROVE  /\ c = m + 1 =>
                  /\ u[c].on = BiIds(in)
                  /\ \A k \in Numbers(in) : \A part \in Parts(in, in.devices[k]) :
                       Has(u, c, in.devices[k].id, part[1])
             /\ c < m + 1 => MeetsAll(in, u, c)
  <2>1. CASE c = m + 1
    BY <1>1, <1>6, <1>7, <1>8, <2>1
  <2>2. CASE c # m + 1
    <3>1. c \in 1..m
      BY <1>6, <2>2
    <3>2. u[c] = p[c] /\ MeetsAll(in, p, c)
      BY <1>6, <1>8, <1>9, <3>1
    <3> QED BY <1>7, <2>2, <3>1, <3>2 DEF MeetsAll, Meets
  <2> QED BY <2>1, <2>2
<1>10. Commits(in, u)
  BY <1>6, <1>9 DEF Commits
<1> QED BY <1>1, <1>5, <1>10 DEF u, q

\* The programs of BI tasks.
LEMMA BiPrograms ==
  ASSUME NEW in \in BiInput, EndsAgree(in)
  PROVE  BiProgram(in, BiTask(in)) /\ Commits(in, BiTask(in))
<1> DEFINE ids == BiIds(in)
           n == Len(in.devices)
<1>1. /\ in.do \in {"create", "delete", "erase"} /\ n \in Nat /\ DOMAIN in.devices = 1..n
      /\ Numbers(in) = 1..n
  BY BiEndsFacts DEF Numbers
<1>2. CASE in.do = "create"
  <2> DEFINE Of(k) == When(~in.dryrun /\ in.devices[k].interface_reset,
                           ResetBiEnd(in.devices[k], ids)) \o
                      ConfigureBiEnd(in, in.devices[k], ids)
             ps == [k \in 1..n |-> Of(k)]
  <2>1. BiTask(in) = FlattenSeq(ps) \o Finish(in.dryrun, ids)
    <3>1. BiTask(in) = CreateBiTask(in)
      BY <1>2, Zenon DEF BiTask
    <3> QED BY <1>1, <3>1 DEF CreateBiTask
  <2>2. ASSUME NEW i \in Numbers(in) PROVE Ends(in, i, Of(i))
    <3> DEFINE r == When(~in.dryrun /\ in.devices[i].interface_reset,
                         ResetBiEnd(in.devices[i], ids))
               s == ConfigureBiEnd(in, in.devices[i], ids)
    <3>1. Complete(in, i, s)
      BY <1>2, ConfigureOfEnd
    <3>2. Resetting(in, i, ResetBiEnd(in.devices[i], ids))
      BY ResetOfEnd
    <3>3. Resetting(in, i, r)
      BY <3>2, EmptyOfEnd DEF When
    <3>4. \A x \in Steps(r) : in.devices[i].interface_reset
      <4>1. ~in.devices[i].interface_reset => r = <<>>
        BY DEF When
      <4> QED BY <4>1, EmptyBi
    <3>5. Of(i) = r \o s
      OBVIOUS
    <3> HIDE DEF r, s, Of
    <3> QED BY <1>2, <3>1, <3>3, <3>4, <3>5 DEF Ends
  <2> HIDE DEF Of
  <2>3. IsList(ps, n) /\ \A i \in Numbers(in) : Ends(in, i, ps[i])
    BY <1>1, <2>2 DEF IsList
  <2> HIDE DEF ps
  <2>4. Row(in, n, FlattenSeq(ps))
    BY <2>3, RowOfEnds
  <2> DEFINE p == FlattenSeq(ps)
  <2> HIDE DEF p
  <2>5. Row(in, Len(in.devices), p)
    BY <2>4 DEF p
  <2>6. BiProgram(in, p \o Finish(in.dryrun, ids)) /\ Commits(in, p \o Finish(in.dryrun, ids))
    BY <1>2, <2>5, FinishRow
  <2> QED BY <2>1, <2>6 DEF p
<1>3. ASSUME in.do # "create", NEW undo \in SUBSET ids
      PROVE  Row(in, Len(in.devices), DeleteBiEnds(in, undo))
  <2> DEFINE ps == [k \in 1..n |-> DeleteBiEnd(in.devices[k], undo)]
  <2>1. DeleteBiEnds(in, undo) = FlattenSeq(ps)
    BY <1>1 DEF DeleteBiEnds
  <2>2. ASSUME NEW i \in Numbers(in) PROVE Ends(in, i, ps[i])
    <3> DEFINE s == DeleteBiEnd(in.devices[i], undo)
    <3>1. Complete(in, i, s)
      BY <1>3, DeleteOfEnd
    <3>2. ps[i] = s
      BY <1>1
    <3> HIDE DEF s
    <3>3. IsProgram(s)
      BY <3>1 DEF Complete, Writing, BiProgram
    <3>4. s = <<>> \o s
      BY <3>3, ProgramAssociative
    <3>5. Resetting(in, i, <<>>) /\ \A x \in Steps(<<>>) : FALSE
      BY EmptyOfEnd, EmptyBi
    <3>6. Ends(in, i, s)
      BY <3>1, <3>4, <3>5 DEF Ends
    <3> QED BY <3>2, <3>6
  <2>3. IsList(ps, n)
    BY DEF IsList
  <2> HIDE DEF ps
  <2> QED BY <2>1, <2>2, <2>3, RowOfEnds
<1>4. CASE in.do = "delete"
  <2> DEFINE p == DeleteBiEnds(in, ids)
  <2>1. BiTask(in) = p \o Finish(in.dryrun, ids)
    <3>1. BiTask(in) = DeleteBiTask(in)
      BY <1>4, Zenon DEF BiTask
    <3> QED BY <3>1 DEF DeleteBiTask
  <2>2. Row(in, Len(in.devices), p)
    BY <1>3, <1>4
  <2> HIDE DEF p
  <2>3. BiProgram(in, p \o Finish(in.dryrun, ids)) /\ Commits(in, p \o Finish(in.dryrun, ids))
    BY <1>4, <2>2, FinishRow
  <2> QED BY <2>1, <2>3
<1>5. CASE in.do = "erase"
  <2> DEFINE p == DeleteBiEnds(in, {})
  <2>1. BiTask(in) = p
    <3>1. BiTask(in) = EraseBiTask(in)
      BY <1>5, Zenon DEF BiTask
    <3> QED BY <3>1 DEF EraseBiTask
  <2>2. Row(in, Len(in.devices), p)
    BY <1>3, <1>5
  <2> HIDE DEF p
  <2>3. \A c \in 1..Len(p) : p[c].call # "commit"
    BY <1>5, <2>2 DEF Row, MeetsAll
  <2>4. BiProgram(in, p) /\ Commits(in, p)
    BY <2>2, <2>3 DEF Row, Commits
  <2> QED BY <2>1, <2>4
<1> QED BY <1>1, <1>2, <1>4, <1>5
-----------------------------------------------------------------------------
(* What a BI task has yet to do, over the stores it does it to *)

\* When the step c of p is reached, the parts of the end k are what they should
\* be in the intent; or they are in the intent what they are on the network.
Comes(in, p, c, want, k) ==
  \A part \in Parts(in, in.devices[k]) :
    \/ Has(p, c, in.devices[k].id, part[1])
    \/ want[in.devices[k].id][part[1]] = part[2]
Stays(in, p, c, want, have, k) ==
  \A part \in Parts(in, in.devices[k]) :
    /\ ~Has(p, c, in.devices[k].id, part[1])
    /\ want[in.devices[k].id][part[1]] = have[in.devices[k].id][part[1]]

DueAt(in, p, c, want, have, k) ==
  IF c = Len(p) THEN Comes(in, p, c, want, k)
  ELSE /\ Comes(in, p, c, want, k) \/ Stays(in, p, c, want, have, k)
       /\ ~ResetAfter(in, k) => Stays(in, p, c, want, have, k)

\* The commits of the rest p of a program carry what Commits says of the whole.
Due(in, p, want, have) ==
  /\ BiProgram(in, p)
  /\ \A c \in 1..Len(p) : p[c].call = "commit" =>
       /\ in.do # "erase"
       /\ IF c = Len(p) THEN p[c].on = BiIds(in) ELSE in.do = "create"
       /\ \A k \in Numbers(in) : in.devices[k].id \in p[c].on \cap Node =>
            DueAt(in, p, c, want, have, k)

\* The rest of a program, step by step.
LEMMA HasTail ==
  ASSUME NEW p, IsProgram(p), p # <<>>, NEW c \in 1..(Len(p) - 1), NEW d, NEW o
  PROVE  Has(p, c + 1, d, o) <=> WritesTo(p[1], d, o) \/ Has(Tail(p), c, d, o)
<1> DEFINE q == Tail(p)
<1>1. /\ Len(p) \in Nat \ {0} /\ \A k \in 1..(Len(p) - 1) : q[k] = p[k + 1]
  BY ProgramTail
<1> HIDE DEF q
<1>2. ASSUME Has(p, c + 1, d, o) PROVE WritesTo(p[1], d, o) \/ Has(q, c, d, o)
  <2>1. PICK j \in 1..(c + 1) : WritesTo(p[j], d, o)
    BY <1>2 DEF Has
  <2>2. CASE j # 1
    <3>1. j - 1 \in 1..c /\ j - 1 \in 1..(Len(p) - 1) /\ (j - 1) + 1 = j
      BY <1>1, <2>2
    <3>2. q[j - 1] = p[j]
      BY <1>1, <3>1
    <3> QED BY <2>1, <3>1, <3>2 DEF Has
  <2> QED BY <2>1, <2>2
<1>3. ASSUME WritesTo(p[1], d, o) PROVE Has(p, c + 1, d, o)
  <2>1. 1 \in 1..(c + 1)
    BY <1>1
  <2> QED BY <1>3, <2>1 DEF Has
<1>4. ASSUME Has(q, c, d, o) PROVE Has(p, c + 1, d, o)
  <2>1. PICK j \in 1..c : WritesTo(q[j], d, o)
    BY <1>4 DEF Has
  <2>2. j + 1 \in 1..(c + 1) /\ j \in 1..(Len(p) - 1)
    BY <1>1
  <2>3. q[j] = p[j + 1]
    BY <1>1, <2>2
  <2> QED BY <2>1, <2>2, <2>3 DEF Has
<1> QED BY <1>2, <1>3, <1>4 DEF q

LEMMA BiTail ==
  ASSUME NEW in, NEW p, BiProgram(in, p), p # <<>>
  PROVE  BiProgram(in, Tail(p)) /\ BiStep(in, p[1])
<1> DEFINE q == Tail(p)
<1>1. /\ Len(p) \in Nat \ {0} /\ IsProgram(q) /\ Len(q) = Len(p) - 1
      /\ \A k \in 1..(Len(p) - 1) : q[k] = p[k + 1]
  BY ProgramTail DEF BiProgram
<1> HIDE DEF q
<1>2. 1 \in 1..Len(p)
  BY <1>1
<1>3. ASSUME NEW k \in 1..Len(q)
      PROVE  /\ BiStep(in, q[k])
             /\ q[k].fails = "skip" => k + 1 \in 1..Len(q) /\ Idle(in, q[k + 1])
  <2>1. q[k] = p[k + 1] /\ k + 1 \in 1..Len(p)
    BY <1>1
  <2>2. /\ BiStep(in, p[k + 1])
        /\ p[k + 1].fails = "skip" => (k + 1) + 1 \in 1..Len(p) /\ Idle(in, p[(k + 1) + 1])
    BY <2>1 DEF BiProgram
  <2>3. (k + 1) + 1 \in 1..Len(p) => k + 1 \in 1..Len(q) /\ q[k + 1] = p[(k + 1) + 1]
    BY <1>1
  <2> QED BY <2>1, <2>2, <2>3
<1> QED BY <1>1, <1>2, <1>3 DEF BiProgram, q

\* What stores show of the parts, after the first step of p: the intent has what
\* that step writes, and the network what it had or the intent has.
After(in, p, want, have, want2, have2) ==
  \A k \in Numbers(in) : in.devices[k].id \in Node =>
    \A part \in Parts(in, in.devices[k]) :
      LET d == in.devices[k].id
          o == part[1]
      IN /\ want2[d][o] = IF WritesTo(p[1], d, o) THEN part[2] ELSE want[d][o]
         /\ have2[d][o] = have[d][o] \/ have2[d][o] = want2[d][o]

LEMMA DueTail ==
  ASSUME NEW in, NEW p, NEW want, NEW have, Due(in, p, want, have), p # <<>>,
         NEW want2, NEW have2, After(in, p, want, have, want2, have2)
  PROVE  Due(in, Tail(p), want2, have2)
<1> DEFINE q == Tail(p)
<1>1. /\ Len(p) \in Nat \ {0} /\ IsProgram(p) /\ Len(q) = Len(p) - 1
      /\ \A k \in 1..(Len(p) - 1) : q[k] = p[k + 1]
  BY ProgramTail DEF BiProgram, Due
<1>2. BiProgram(in, q)
  BY BiTail DEF Due
<1>3. \A c \in 1..(Len(p) - 1) : \A d, o :
        Has(p, c + 1, d, o) <=> WritesTo(p[1], d, o) \/ Has(q, c, d, o)
  BY <1>1, HasTail
<1> HIDE DEF q
<1>4. ASSUME NEW c \in 1..Len(q), q[c].call = "commit"
      PROVE  /\ in.do # "erase"
             /\ IF c = Len(q) THEN q[c].on = BiIds(in) ELSE in.do = "create"
             /\ \A k \in Numbers(in) : in.devices[k].id \in q[c].on \cap Node =>
                  DueAt(in, q, c, want2, have2, k)
  <2>1. q[c] = p[c + 1] /\ c + 1 \in 1..Len(p) /\ (c = Len(q) <=> c + 1 = Len(p))
        /\ c \in 1..(Len(p) - 1)
    BY <1>1
  <2>2. /\ in.do # "erase"
        /\ IF c + 1 = Len(p) THEN p[c + 1].on = BiIds(in) ELSE in.do = "create"
        /\ \A k \in Numbers(in) : in.devices[k].id \in p[c + 1].on \cap Node =>
             DueAt(in, p, c + 1, want, have, k)
    BY <1>4, <2>1 DEF Due
  <2>3. ASSUME NEW k \in Numbers(in), in.devices[k].id \in q[c].on \cap Node
        PROVE  DueAt(in, q, c, want2, have2, k)
    <3> DEFINE d == in.devices[k].id
    <3>1. ASSUME NEW part \in Parts(in, in.devices[k])
          PROVE  /\ Has(p, c + 1, d, part[1]) <=> WritesTo(p[1], d, part[1]) \/ Has(q, c, d, part[1])
                 /\ want2[d][part[1]] = IF WritesTo(p[1], d, part[1]) THEN part[2]
                                                                      ELSE want[d][part[1]]
                 /\ have2[d][part[1]] = have[d][part[1]] \/ have2[d][part[1]] = want2[d][part[1]]
      BY <1>3, <2>1, <2>3, <3>1 DEF After
    <3>2. DueAt(in, p, c + 1, want, have, k)
      BY <2>1, <2>2, <2>3
    <3>3. Comes(in, p, c + 1, want, k) => Comes(in, q, c, want2, k)
      BY <3>1 DEF Comes
    <3>4. Stays(in, p, c + 1, want, have, k) => Stays(in, q, c, want2, have2, k)
      BY <3>1 DEF Stays
    <3> QED BY <2>1, <3>2, <3>3, <3>4 DEF DueAt
  <2> QED BY <2>1, <2>2, <2>3
<1> QED BY <1>2, <1>4 DEF Due, q

\* What a step elsewhere does is not about the program.
LEMMA DueElsewhere ==
  ASSUME NEW in, NEW p, NEW want, NEW have, Due(in, p, want, have), NEW want2, NEW have2,
         \A d \in BiIds(in) \cap Node : want2[d] = want[d] /\ have2[d] = have[d]
  PROVE  Due(in, p, want2, have2)
<1>1. ASSUME NEW c \in 1..Len(p), NEW k \in Numbers(in), in.devices[k].id \in p[c].on \cap Node,
             DueAt(in, p, c, want, have, k)
      PROVE  DueAt(in, p, c, want2, have2, k)
  <2>1. p[c].on \subseteq BiIds(in)
    BY DEF Due, BiProgram, BiStep
  <2>2. want2[in.devices[k].id] = want[in.devices[k].id] /\ have2[in.devices[k].id] = have[in.devices[k].id]
    BY <1>1, <2>1
  <2> QED BY <1>1, <2>2 DEF DueAt, Comes, Stays
<1> QED BY <1>1 DEF Due

\* At the start of a program, when the intents are what is on the network.
LEMMA DueAtFirst ==
  ASSUME NEW in \in BiInput, EndsAgree(in), NEW want, NEW have,
         \A d \in BiIds(in) \cap Node : want[d] = have[d]
  PROVE  Due(in, BiTask(in), want, have)
<1> DEFINE p == BiTask(in)
<1>1. BiProgram(in, p) /\ Commits(in, p)
  BY BiPrograms
<1> HIDE DEF p
<1>2. ASSUME NEW c \in 1..Len(p), p[c].call = "commit"
      PROVE  /\ in.do # "erase"
             /\ IF c = Len(p) THEN p[c].on = BiIds(in) ELSE in.do = "create"
             /\ \A k \in Numbers(in) : in.devices[k].id \in p[c].on \cap Node =>
                  DueAt(in, p, c, want, have, k)
  <2>1. /\ in.do # "erase"
        /\ c = Len(p) =>
             /\ p[c].on = BiIds(in)
             /\ \A k \in Numbers(in) : \A part \in Parts(in, in.devices[k]) :
                  Has(p, c, in.devices[k].id, part[1])
        /\ c < Len(p) => MeetsAll(in, p, c)
    BY <1>1, <1>2 DEF Commits
  <2>2. c < Len(p) \/ c = Len(p)
    BY <1>1, ProgramTail DEF BiProgram
  <2>3. ASSUME NEW k \in Numbers(in), in.devices[k].id \in p[c].on \cap Node
        PROVE  DueAt(in, p, c, want, have, k)
    <3>1. CASE c = Len(p)
      BY <2>1, <3>1 DEF DueAt, Comes
    <3>2. CASE c # Len(p)
      <4>1. Meets(in, p, c, k)
        BY <2>1, <2>2, <2>3, <3>2 DEF MeetsAll
      <4>2. want[in.devices[k].id] = have[in.devices[k].id]
        BY <2>3, BiNumbers
      <4> QED BY <3>2, <4>1, <4>2 DEF DueAt, Comes, Stays, Meets
    <3> QED BY <3>1, <3>2
  <2>4. c # Len(p) => in.do = "create"
    BY <2>1, <2>2 DEF MeetsAll
  <2> QED BY <2>1, <2>3, <2>4
<1> QED BY <1>1, <1>2 DEF Due, p
-----------------------------------------------------------------------------
(* BI tasks that are alone on their nodes *)

\* When BI tasks are alone, their inputs are those of BI, and the stores have
\* every object of every node.
OnlyBi ==
  /\ \A t \in Task : input[t] \in BiInput \cup {None}
  /\ \A t \in Task : result[t] = "idle" => input[t] = None
WholeStores == \A d \in Node : DOMAIN intent[d] = Object /\ DOMAIN actual[d] = Object

\* What a task has yet to do: its program, or a rollback at its end.
RollsBack(t) == \E x \in SUBSET scope[t] : todo[t] = <<Rollback(x)>>
BiOnCourse(t) ==
  \/ scope[t] = BiIds(input[t]) /\ Due(input[t], todo[t], intent, actual)
  \/ RollsBack(t)

\* Two tasks that run are about different devices.
OwnDevices ==
  \A t, u \in Task : Running(t) /\ Running(u) /\ t # u => scope[t] \cap scope[u] = {}

\* What the network has of the ends of in, when all tasks are about them.
SameEnds(in) ==
  \A t \in Task : input[t] # None => input[t].id = in.id /\ input[t].devices = in.devices
EndsWhole(in, have) ==
  \A k \in Numbers(in) : EndWhole(have, in, in.devices[k]) \/ EndGone(have, in.devices[k])
AllOrNone(in, have) ==
  \A k \in Numbers(in) : EndWhole(have, in, in.devices[k]) /\ ~ResetAfter(in, k) =>
    \A j \in Numbers(in) : EndWhole(have, in, in.devices[j])
NetworkWhole(in) ==
  /\ EndsWhole(in, actual)
  /\ (\A u \in Task : ~DoesBi(u, "delete")) => AllOrNone(in, actual)

BiInv ==
  /\ L2Inv /\ OnlyBi /\ WholeStores
  /\ BiQuiet => /\ OwnDevices
                /\ \A t \in Task : Running(t) => BiOnCourse(t)
                /\ \A in \in BiInput : SameEnds(in) => NetworkWhole(in)

\* The objects of the ends.
LEMMA PartObjects ==
  ASSUME NEW in \in BiInput, NEW k \in Numbers(in)
  PROVE  /\ VlanOf(in.devices[k].vlan) \in Object /\ VlanOf(in.devices[k].vlan)[1] # "interface"
         /\ Port(in.devices[k].ve_interface) \in Object
         /\ Isis(in.devices[k].ve_interface) \in Object
         /\ Isis(in.devices[k].ve_interface)[1] # "interface"
<1>1. in.devices[k].vlan \in Vlan /\ in.devices[k].ve_interface \in Interface
  BY BiNumbers
<1> DEFINE e == in.devices[k]
<1>2. /\ VlanOf(e.vlan) \in Object /\ Port(e.ve_interface) \in Object
      /\ Isis(e.ve_interface) \in Object
  BY <1>1 DEF VlanOf, Port, Isis, Object
<1>3. /\ VlanOf(e.vlan)[1] # "interface" /\ Isis(e.ve_interface)[1] # "interface"
  BY DEF VlanOf, Isis
<1> HIDE DEF e
<1> QED BY <1>2, <1>3 DEF e

LEMMA PartIsObject ==
  ASSUME NEW in \in BiInput, NEW k \in Numbers(in), NEW part \in Parts(in, in.devices[k])
  PROVE  part[1] \in Object
<1> DEFINE e == in.devices[k]
<1>1. part[1] \in {VlanOf(e.vlan), Port(e.ve_interface), Isis(e.ve_interface)}
  BY DEF Parts
<1> HIDE DEF e
<1> QED BY <1>1, PartObjects DEF e

\* The network has of an end what it had.
EndKept(end, have, have2) ==
  end.id \in Node =>
    \A o \in {VlanOf(end.vlan), Port(end.ve_interface), Isis(end.ve_interface)} :
      have2[end.id][o] = have[end.id][o]

LEMMA EndKeptWhole ==
  ASSUME NEW in, NEW end, NEW have, NEW have2, EndKept(end, have, have2)
  PROVE  /\ EndWhole(have2, in, end) <=> EndWhole(have, in, end)
         /\ EndGone(have2, end) <=> EndGone(have, end)
BY DEF EndKept, EndWhole, EndGone

\* What a commit carries of an end is the end, or its deletion.
LEMMA ComesWhole ==
  ASSUME NEW in \in BiInput, NEW k \in Numbers(in), in.devices[k].id \in Node,
         NEW want, \A part \in Parts(in, in.devices[k]) : want[in.devices[k].id][part[1]] = part[2]
  PROVE  IF in.do = "create" THEN EndWhole(want, in, in.devices[k]) ELSE EndGone(want, in.devices[k])
<1> DEFINE e == in.devices[k]
           d == e.id
<1>1. CASE in.do = "create"
  <2>1. /\ <<VlanOf(e.vlan), VlanData(in)>> \in Parts(in, e)
        /\ <<Port(e.ve_interface), VeData(e)>> \in Parts(in, e)
        /\ <<Isis(e.ve_interface), [passive |-> TRUE]>> \in Parts(in, e)
    BY <1>1 DEF Parts
  <2>2. /\ want[d][VlanOf(e.vlan)] = VlanData(in) /\ want[d][Port(e.ve_interface)] = VeData(e)
        /\ want[d][Isis(e.ve_interface)] = [passive |-> TRUE]
    BY <2>1
  <2>3. want[d][Isis(e.ve_interface)] # None
    BY <2>2, BiInputAssumption, NoneAssumption
  <2> QED BY <1>1, <2>2, <2>3 DEF EndWhole
<1>2. CASE in.do # "create"
  <2>1. <<VlanOf(e.vlan), None>> \in Parts(in, e) /\ <<Port(e.ve_interface), None>> \in Parts(in, e)
    BY <1>2 DEF Parts
  <2>2. want[d][VlanOf(e.vlan)] = None /\ want[d][Port(e.ve_interface)] = None
    BY <2>1
  <2> QED BY <1>2, <2>2 DEF EndGone
<1> QED BY <1>1, <1>2

\* All inputs have ends that agree.
BiAgrees == \A in \in BiInput : EndsAgree(in)

\* To read nodes again changes no part of an end.
LEMMA RereadKeeps ==
  ASSUME NEW in \in BiInput, EndsAgree(in), NEW k \in Numbers(in), NEW store,
         in.devices[k].id \in Node => DOMAIN store[in.devices[k].id] = Object, NEW ids
  PROVE  EndKept(in.devices[k], store, Reread(store, ids))
<1> DEFINE e == in.devices[k]
           d == e.id
<1> SUFFICES ASSUME d \in Node,
                    NEW o \in {VlanOf(e.vlan), Port(e.ve_interface), Isis(e.ve_interface)}
             PROVE  Reread(store, ids)[d][o] = store[d][o]
  BY DEF EndKept
<1>1. o \in Object
  BY PartObjects
<1>2. store[d][o] = None /\ o[1] = "interface" => Initial[d][o] = None
  <2>1. Initial[d][Port(e.ve_interface)] = None
    BY BiNumbers DEF EndsAgree
  <2>2. o[1] = "interface" => o = Port(e.ve_interface)
    BY PartObjects
  <2> QED BY <2>1, <2>2
<1> HIDE DEF e, d
<1>3. Reread(store, ids)[d][o] =
        IF d \in ids THEN IF store[d][o] = None /\ o[1] = "interface" THEN Initial[d][o]
                                                                      ELSE store[d][o]
        ELSE store[d][o]
  <2>1. Reread(store, ids)[d] =
          IF d \in ids
          THEN [x \in Object |-> IF store[d][x] = None /\ x[1] = "interface"
                                 THEN Initial[d][x] ELSE store[d][x]]
          ELSE store[d]
    BY DEF Reread
  <2> QED BY <1>1, <2>1
<1> QED BY <1>2, <1>3

\* A part is one of the objects of its end.
LEMMA PartKept ==
  ASSUME NEW in, NEW end, NEW have, NEW have2, EndKept(end, have, have2), end.id \in Node,
         NEW part \in Parts(in, end)
  PROVE  have2[end.id][part[1]] = have[end.id][part[1]]
<1>1. part[1] \in {VlanOf(end.vlan), Port(end.ve_interface), Isis(end.ve_interface)}
  BY DEF Parts
<1> QED BY <1>1 DEF EndKept

\* The task that runs.
LEMMA TheTask ==
  ASSUME BiInv, BiAgrees, NEW t \in Task, Running(t)
  PROVE  /\ input[t] \in BiInput /\ EndsAgree(input[t])
         /\ BiQuiet => BiOnCourse(t)
<1>1. input[t] \in L2Input
  BY DEF BiInv, L2Inv, TaskSound, Running
<1>2. input[t] \in BiInput
  BY <1>1, InputFacts DEF BiInv, OnlyBi
<1> QED BY <1>2 DEF BiAgrees, BiInv

\* A call that succeeds does to the parts what its step says.
LEMMA AfterCall ==
  ASSUME BiInv, BiAgrees, NEW t \in Task, Due(input[t], todo[t], intent, actual),
         ReadData(t) \/ WriteData(t) \/ CommitData(t) \/ SyncData(t) \/ DryRunData(t)
  PROVE  After(input[t], todo[t], intent, actual, intent', actual')
<1> DEFINE in == input[t]
           x == This(t)
<1>1. /\ Running(t) /\ todo[t] # <<>>
  BY DEF ReadData, WriteData, CommitData, SyncData, DryRunData, Doing
<1>2. in \in BiInput /\ EndsAgree(in)
  BY <1>1, TheTask
<1>3. x = todo[t][1] /\ BiStep(in, x)
  BY <1>1, ProgramTail, BiTail DEF Due, BiProgram, This
<1> HIDE DEF in, x
<1> SUFFICES ASSUME NEW k \in Numbers(in), in.devices[k].id \in Node,
                    NEW part \in Parts(in, in.devices[k])
             PROVE  LET d == in.devices[k].id
                        o == part[1]
                    IN /\ intent'[d][o] = IF WritesTo(x, d, o) THEN part[2] ELSE intent[d][o]
                       /\ actual'[d][o] = actual[d][o] \/ actual'[d][o] = intent'[d][o]
  BY <1>3 DEF After, in
<1> DEFINE d == in.devices[k].id
           o == part[1]
<1>4. o \in Object
  BY <1>2, PartIsObject
<1>5. DOMAIN intent[d] = Object /\ DOMAIN actual[d] = Object
  BY DEF BiInv, WholeStores
<1>6. WritesTo(x, d, o) => x.value = part[2]
  BY <1>3 DEF BiStep
<1> HIDE DEF d, o
<1>7. d \in Node
  BY DEF d
<1>8. CASE ReadData(t) \/ DryRunData(t)
  <2>1. UNCHANGED <<intent, actual>> /\ x.call # "write"
    BY <1>8 DEF ReadData, DryRunData, Doing, x
  <2> QED BY <2>1 DEF WritesTo, d, o
<1>9. CASE WriteData(t)
  <2>1. intent' = Written(intent, x) /\ actual' = actual /\ x.call = "write"
    BY <1>9 DEF WriteData, Doing, x
  <2>2. intent'[d] = IF d \in x.on THEN [intent[d] EXCEPT ![x.object] = x.value] ELSE intent[d]
    BY <1>7, <2>1 DEF Written
  <2>3. intent'[d][o] = IF d \in x.on /\ x.object = o THEN x.value ELSE intent[d][o]
    BY <1>4, <1>5, <2>2
  <2> QED BY <1>6, <2>1, <2>3 DEF WritesTo, d, o
<1>10. CASE CommitData(t)
  <2>1. actual' = Copied(actual, intent, x.on) /\ intent' = intent /\ x.call # "write"
    BY <1>10 DEF CommitData, Doing, x
  <2>2. actual'[d] = IF d \in x.on THEN intent[d] ELSE actual[d]
    BY <1>7, <2>1 DEF Copied
  <2> QED BY <2>1, <2>2 DEF WritesTo, d, o
<1>11. CASE SyncData(t)
  <2>1. actual' = Reread(actual, x.on) /\ intent' = intent /\ x.call # "write"
    BY <1>11 DEF SyncData, Doing, x
  <2>2. EndKept(in.devices[k], actual, actual')
    <3>1. DOMAIN actual[in.devices[k].id] = Object
      BY <1>5 DEF d
    <3>2. EndKept(in.devices[k], actual, Reread(actual, x.on))
      BY <1>2, <3>1, RereadKeeps
    <3> QED BY <2>1, <3>2
  <2>3. actual'[d][o] = actual[d][o]
    BY <2>2, PartKept DEF d, o
  <2> QED BY <2>1, <2>3 DEF WritesTo, d, o
<1> QED BY <1>8, <1>9, <1>10, <1>11

\* When the ends keep what the network has of them, it is still whole.
LEMMA KeptWhole ==
  ASSUME NEW in, NetworkWhole(in), input' = input, scope' = scope,
         \A k \in Numbers(in) : EndKept(in.devices[k], actual, actual')
  PROVE  NetworkWhole(in)'
<1>1. \A u \in Task : DoesBi(u, "delete")' <=> DoesBi(u, "delete")
  BY DEF DoesBi, IsBi
<1>2. \A k \in Numbers(in) :
        /\ EndWhole(actual', in, in.devices[k]) <=> EndWhole(actual, in, in.devices[k])
        /\ EndGone(actual', in.devices[k]) <=> EndGone(actual, in.devices[k])
  BY EndKeptWhole
<1>3. EndsWhole(in, actual) => EndsWhole(in, actual')
  BY <1>2 DEF EndsWhole
<1>4. AllOrNone(in, actual) => AllOrNone(in, actual')
  BY <1>2 DEF AllOrNone
<1> QED BY <1>1, <1>3, <1>4 DEF NetworkWhole

\* What a commit makes of an end that its first step is about.
LEMMA EndCommitted ==
  ASSUME NEW in \in BiInput, NEW p, Due(in, p, intent, actual), p # <<>>, p[1].call = "commit",
         actual' = Copied(actual, intent, p[1].on), p[1].on \subseteq Node, NEW k \in Numbers(in)
  PROVE  /\ p[1].on = BiIds(in) \/ in.do = "create"
         /\ Len(p) = 1 => in.devices[k].id \in p[1].on /\ p[1].on = BiIds(in)
         /\ Len(p) = 1 => IF in.do = "create" THEN EndWhole(actual', in, in.devices[k])
                                              ELSE EndGone(actual', in.devices[k])
         /\ Len(p) # 1 => \/ EndKept(in.devices[k], actual, actual')
                          \/ EndWhole(actual', in, in.devices[k]) /\ ResetAfter(in, k)
         /\ in.do # "erase" /\ (Len(p) # 1 => in.do = "create")
<1> DEFINE e == in.devices[k]
           d == e.id
           on == p[1].on
<1>1. Len(p) \in Nat \ {0} /\ 1 \in 1..Len(p)
  BY ProgramTail DEF Due, BiProgram
<1>2. /\ in.do # "erase"
      /\ IF Len(p) = 1 THEN on = BiIds(in) ELSE in.do = "create"
      /\ d \in on \cap Node => DueAt(in, p, 1, intent, actual, k)
  BY <1>1 DEF Due
<1>3. \A o : ~Has(p, 1, d, o)
  <2>1. \A j : j \in 1..1 <=> j = 1
    OBVIOUS
  <2> QED BY <2>1 DEF Has, WritesTo
<1>4. d \in BiIds(in)
  BY BiNumbers
<1>5. d \in Node => actual'[d] = IF d \in on THEN intent[d] ELSE actual[d]
  BY DEF Copied
<1>6. ASSUME d \in on, Comes(in, p, 1, intent, k)
      PROVE  IF in.do = "create" THEN EndWhole(actual', in, e) ELSE EndGone(actual', e)
  <2>1. \A part \in Parts(in, e) : actual'[d][part[1]] = part[2]
    BY <1>3, <1>5, <1>6 DEF Comes
  <2>2. d \in Node
    BY <1>6
  <2>3. ASSUME NEW want, \A part \in Parts(in, in.devices[k]) : want[in.devices[k].id][part[1]] = part[2]
        PROVE  IF in.do = "create" THEN EndWhole(want, in, in.devices[k])
                                   ELSE EndGone(want, in.devices[k])
    BY <2>2, <2>3, ComesWhole
  <2> QED BY <2>1, <2>3
<1>7. ASSUME in.do = "create", d \in on => Stays(in, p, 1, intent, actual, k)
      PROVE  EndKept(e, actual, actual')
  <2> SUFFICES ASSUME d \in Node, d \in on,
                      NEW o \in {VlanOf(e.vlan), Port(e.ve_interface), Isis(e.ve_interface)}
               PROVE  intent[d][o] = actual[d][o]
    BY <1>5 DEF EndKept
  <2>1. \E v : <<o, v>> \in Parts(in, e)
    BY <1>7 DEF Parts
  <2>2. PICK v : <<o, v>> \in Parts(in, e)
    BY <2>1
  <2>3. <<o, v>>[1] = o
    OBVIOUS
  <2>4. \A part \in Parts(in, e) : intent[d][part[1]] = actual[d][part[1]]
    BY <1>7 DEF Stays
  <2> QED BY <2>2, <2>3, <2>4
<1>8. CASE Len(p) = 1
  <2>1. d \in on
    BY <1>2, <1>4, <1>8
  <2>2. DueAt(in, p, 1, intent, actual, k)
    BY <1>2, <2>1
  <2>3. Comes(in, p, 1, intent, k)
    BY <1>8, <2>2 DEF DueAt
  <2> QED BY <1>2, <1>4, <1>6, <1>8, <2>1, <2>3
<1>9. CASE Len(p) # 1
  <2>1. in.do = "create"
    BY <1>2, <1>9
  <2>2. CASE d \in on /\ ~Stays(in, p, 1, intent, actual, k)
    <3>1. DueAt(in, p, 1, intent, actual, k)
      BY <1>2, <2>2
    <3>2. Comes(in, p, 1, intent, k) /\ ResetAfter(in, k)
      BY <1>9, <2>2, <3>1 DEF DueAt
    <3> QED BY <1>2, <1>6, <1>9, <2>1, <2>2, <3>2
  <2>3. CASE ~(d \in on /\ ~Stays(in, p, 1, intent, actual, k))
    BY <1>2, <1>7, <1>9, <2>1, <2>3
  <2> QED BY <2>2, <2>3
<1> QED BY <1>8, <1>9

\* Inputs with the same ends are about the same service.
LEMMA SameService ==
  ASSUME NEW w, NEW in, w.id = in.id, w.devices = in.devices
  PROVE  /\ Numbers(w) = Numbers(in) /\ BiIds(w) = BiIds(in)
         /\ \A have, end : EndWhole(have, w, end) <=> EndWhole(have, in, end)
         /\ \A k : ResetAfter(w, k) <=> ResetAfter(in, k)
<1>1. VlanData(w) = VlanData(in)
  BY DEF VlanData
<1> QED BY <1>1 DEF Numbers, BiIds, EndWhole, ResetAfter

\* A commit leaves the network whole.
LEMMA CommitWhole ==
  ASSUME BiInv, BiAgrees, BiQuiet, NEW t \in Task, CommitData(t),
         NEW in \in BiInput, SameEnds(in)
  PROVE  NetworkWhole(in)'
<1> DEFINE w == input[t]
           p == todo[t]
<1>1. /\ Running(t) /\ p # <<>> /\ This(t).call = "commit" /\ This(t).on \subseteq Node
      /\ actual' = Copied(actual, intent, This(t).on) /\ input' = input /\ scope' = scope
  BY DEF CommitData, Doing, Reachable, GoOn
<1>2. w \in BiInput /\ EndsAgree(w) /\ BiOnCourse(t)
  BY <1>1, TheTask
<1>3. scope[t] = BiIds(w) /\ Due(w, p, intent, actual)
  <2>1. \A x : Head(<<Rollback(x)>>).call = "rollback"
    BY DEF Rollback, Call
  <2> QED BY <1>1, <1>2, <2>1 DEF BiOnCourse, RollsBack, This
<1>4. This(t) = p[1]
  BY <1>1, <1>3, ProgramTail DEF Due, BiProgram, This
<1>5. w # None /\ w.id = in.id /\ w.devices = in.devices /\ w.service = "BI"
  <2>1. w # None /\ w.service = "BI"
    BY <1>2, BiInputAssumption
  <2> QED BY <2>1 DEF SameEnds
<1>6. /\ Numbers(w) = Numbers(in) /\ BiIds(w) = BiIds(in)
      /\ \A have, end : EndWhole(have, w, end) <=> EndWhole(have, in, end)
      /\ \A k : ResetAfter(w, k) <=> ResetAfter(in, k)
  BY <1>5, SameService
<1> HIDE DEF w, p
<1>7. ASSUME NEW k \in Numbers(in)
      PROVE  /\ Len(p) = 1 => in.devices[k].id \in p[1].on /\ p[1].on = BiIds(in)
             /\ Len(p) = 1 => IF w.do = "create" THEN EndWhole(actual', in, in.devices[k])
                                                 ELSE EndGone(actual', in.devices[k])
             /\ Len(p) # 1 => \/ EndKept(in.devices[k], actual, actual')
                              \/ EndWhole(actual', in, in.devices[k]) /\ ~(~ResetAfter(in, k))
             /\ w.do # "erase" /\ (Len(p) # 1 => w.do = "create")
  <2>1. k \in Numbers(w)
    BY <1>6
  <2>2. /\ Len(p) = 1 => w.devices[k].id \in p[1].on /\ p[1].on = BiIds(w)
        /\ Len(p) = 1 => IF w.do = "create" THEN EndWhole(actual', w, w.devices[k])
                                            ELSE EndGone(actual', w.devices[k])
        /\ Len(p) # 1 => \/ EndKept(w.devices[k], actual, actual')
                         \/ EndWhole(actual', w, w.devices[k]) /\ ResetAfter(w, k)
        /\ w.do # "erase" /\ (Len(p) # 1 => w.do = "create")
    BY <1>1, <1>2, <1>3, <1>4, <2>1, EndCommitted
  <2> QED BY <1>5, <1>6, <2>2
<1>8. NetworkWhole(in)
  BY DEF BiInv
<1>9. \A u \in Task : DoesBi(u, "delete")' <=> DoesBi(u, "delete")
  BY <1>1 DEF DoesBi, IsBi
<1>10. CASE Len(p) = 1
  <2>1. EndsWhole(in, actual')
    BY <1>7, <1>10 DEF EndsWhole
  <2>2. CASE w.do = "create"
    <3>1. AllOrNone(in, actual')
      BY <1>7, <1>10, <2>2 DEF AllOrNone
    <3> QED BY <2>1, <3>1 DEF NetworkWhole
  <2>3. CASE w.do # "create"
    <3>1. CASE Numbers(in) = {}
      BY <2>1, <3>1 DEF NetworkWhole, AllOrNone
    <3>2. CASE Numbers(in) # {}
      <4>1. PICK k \in Numbers(in) : TRUE
        BY <3>2
      <4>2. w.do = "delete"
        BY <1>2, <1>7, <2>3, <4>1, BiInputAssumption
      <4>3. scope[t] # {}
        BY <1>3, <1>6, <1>7, <1>10, <4>1
      <4>4. DoesBi(t, "delete")
        BY <1>5, <4>2, <4>3 DEF DoesBi, IsBi, w
      <4>5. DoesBi(t, "delete")'
        BY <1>9, <4>4
      <4> QED BY <2>1, <4>5 DEF NetworkWhole
    <3> QED BY <3>1, <3>2
  <2> QED BY <2>2, <2>3
<1>11. CASE Len(p) # 1
  <2>1. ASSUME NEW k \in Numbers(in)
        PROVE  \/ /\ EndWhole(actual', in, in.devices[k]) <=> EndWhole(actual, in, in.devices[k])
                  /\ EndGone(actual', in.devices[k]) <=> EndGone(actual, in.devices[k])
               \/ EndWhole(actual', in, in.devices[k]) /\ ResetAfter(in, k)
    BY <1>7, <1>11, EndKeptWhole
  <2>2. EndsWhole(in, actual')
    BY <1>8, <2>1 DEF NetworkWhole, EndsWhole
  <2>3. AllOrNone(in, actual) => AllOrNone(in, actual')
    BY <2>1 DEF AllOrNone
  <2> QED BY <1>8, <1>9, <2>2, <2>3 DEF NetworkWhole
<1> QED BY <1>10, <1>11

\* A task makes a step: the invariant holds after it when the step is about its
\* own devices, leaves it on its course, and leaves the network whole.
LEMMA MoveInv ==
  ASSUME BiInv, BiAgrees, L2Inv', WholeStores', NEW t \in Task, Running(t),
         input' = input, scope' = scope, disturbed' = disturbed,
         result'[t] # "idle",
         \A u \in Task \ {t} : todo'[u] = todo[u] /\ result'[u] = result[u],
         BiQuiet /\ Running(t)' => BiOnCourse(t)',
         BiQuiet => \A d \in Node \ scope[t] : intent'[d] = intent[d] /\ actual'[d] = actual[d],
         BiQuiet => \A in \in BiInput : SameEnds(in) => NetworkWhole(in)'
  PROVE  BiInv'
<1>1. OnlyBi'
  BY DEF BiInv, OnlyBi, Running
<1>2. BiQuiet' => BiQuiet
  BY DEF BiQuiet, IsBi
<1>3. \A u \in Task : Running(u)' => Running(u)
  BY DEF Running
<1>4. ASSUME BiQuiet'
      PROVE  /\ OwnDevices'
             /\ \A u \in Task : Running(u)' => BiOnCourse(u)'
             /\ \A in \in BiInput : SameEnds(in)' => NetworkWhole(in)'
  <2>1. BiQuiet
    BY <1>2, <1>4
  <2>2. OwnDevices'
    BY <1>3, <2>1 DEF BiInv, OwnDevices
  <2>3. \A in \in BiInput : SameEnds(in)' => NetworkWhole(in)'
    BY <2>1 DEF SameEnds
  <2>4. ASSUME NEW u \in Task, u # t, Running(u)' PROVE BiOnCourse(u)'
    <3>1. Running(u) /\ BiOnCourse(u) /\ todo'[u] = todo[u] /\ scope[t] \cap scope[u] = {}
      BY <1>3, <2>1, <2>4 DEF BiInv, OwnDevices
    <3>2. CASE RollsBack(u)
      <4>1. RollsBack(u)'
        BY <3>1, <3>2 DEF RollsBack
      <4> QED BY <4>1 DEF BiOnCourse
    <3>3. CASE scope[u] = BiIds(input[u]) /\ Due(input[u], todo[u], intent, actual)
      <4>1. \A d \in BiIds(input[u]) \cap Node : intent'[d] = intent[d] /\ actual'[d] = actual[d]
        BY <2>1, <3>1, <3>3
      <4>2. Due(input[u], todo[u], intent', actual')
        BY <3>3, <4>1, DueElsewhere
      <4> QED BY <3>1, <3>3, <4>2 DEF BiOnCourse
    <3> QED BY <3>1, <3>2, <3>3 DEF BiOnCourse
  <2> QED BY <2>1, <2>2, <2>3, <2>4
<1> QED BY <1>1, <1>4 DEF BiInv

\* A task that is not rolling back.
LEMMA CourseIsDue ==
  ASSUME BiInv, BiAgrees, BiQuiet, NEW t \in Task, Running(t), todo[t] # <<>>,
         This(t).call # "rollback"
  PROVE  /\ scope[t] = BiIds(input[t]) /\ Due(input[t], todo[t], intent, actual)
         /\ This(t) = todo[t][1] /\ This(t).on \subseteq scope[t]
         /\ BiStep(input[t], This(t))
<1>1. \A x : Head(<<Rollback(x)>>).call = "rollback"
  BY DEF Rollback, Call
<1>2. scope[t] = BiIds(input[t]) /\ Due(input[t], todo[t], intent, actual)
  BY <1>1, TheTask DEF BiOnCourse, RollsBack, This
<1>3. This(t) = todo[t][1]
  BY <1>2, ProgramTail DEF Due, BiProgram, This
<1>4. BiStep(input[t], todo[t][1])
  BY <1>2, BiTail DEF Due
<1> QED BY <1>2, <1>3, <1>4 DEF BiStep

\* The stores keep their objects.
LEMMA StoresKept ==
  ASSUME WholeStores, NEW t,
         \/ UNCHANGED <<intent, actual>>
         \/ intent' = Written(intent, This(t)) /\ actual' = actual
         \/ actual' = Copied(actual, intent, This(t).on) /\ intent' = intent
         \/ actual' = Reread(actual, This(t).on) /\ intent' = intent
         \/ intent' = Copied(intent, actual, This(t).on) /\ actual' = actual
  PROVE  /\ WholeStores'
         /\ \A d \in Node : d \notin This(t).on => intent'[d] = intent[d] /\ actual'[d] = actual[d]
BY DEF WholeStores, Written, Copied, Reread

\* The calls that succeed.
LEMMA BiSucceeds ==
  ASSUME BiInv, BiAgrees, NEW t \in Task,
         ReadData(t) \/ WriteData(t) \/ CommitData(t) \/ SyncData(t) \/ DryRunData(t)
  PROVE  BiInv'
<1>1. /\ Running(t) /\ todo[t] # <<>> /\ GoOn(t) /\ This(t).call # "rollback"
  BY DEF ReadData, WriteData, CommitData, SyncData, DryRunData, Doing
<1>2. /\ todo' = [todo EXCEPT ![t] = Tail(todo[t])]
      /\ result' = result \/ result' = [result EXCEPT ![t] = "COMPLETED"]
      /\ input' = input /\ scope' = scope /\ disturbed' = disturbed
  BY <1>1 DEF GoOn
<1>3. Tables
  BY DEF BiInv, L2Inv
<1>4. /\ \A u \in Task \ {t} : todo'[u] = todo[u] /\ result'[u] = result[u]
      /\ todo'[t] = Tail(todo[t]) /\ result'[t] # "idle"
  BY <1>1, <1>2, <1>3 DEF Tables, Running
<1>5. L2Inv'
  BY CallSucceeds DEF BiInv
<1>6. /\ WholeStores'
      /\ \A d \in Node : d \notin This(t).on => intent'[d] = intent[d] /\ actual'[d] = actual[d]
  <2>1. \/ UNCHANGED <<intent, actual>>
        \/ intent' = Written(intent, This(t)) /\ actual' = actual
        \/ actual' = Copied(actual, intent, This(t).on) /\ intent' = intent
        \/ actual' = Reread(actual, This(t).on) /\ intent' = intent
    BY DEF ReadData, WriteData, CommitData, SyncData, DryRunData
  <2> QED BY <2>1, StoresKept DEF BiInv
<1>7. ASSUME BiQuiet
      PROVE  /\ BiOnCourse(t)'
             /\ \A d \in Node \ scope[t] : intent'[d] = intent[d] /\ actual'[d] = actual[d]
  <2>1. /\ scope[t] = BiIds(input[t]) /\ Due(input[t], todo[t], intent, actual)
        /\ This(t).on \subseteq scope[t]
    BY <1>1, <1>7, CourseIsDue
  <2>2. After(input[t], todo[t], intent, actual, intent', actual')
    BY <2>1, AfterCall
  <2>3. Due(input[t], Tail(todo[t]), intent', actual')
    BY <1>1, <2>1, <2>2, DueTail
  <2>4. BiOnCourse(t)'
    BY <1>2, <1>4, <2>1, <2>3 DEF BiOnCourse
  <2> QED BY <1>6, <2>1, <2>4
<1>8. ASSUME BiQuiet, NEW in \in BiInput, SameEnds(in) PROVE NetworkWhole(in)'
  <2>1. CASE CommitData(t)
    BY <1>8, <2>1, CommitWhole
  <2>2. CASE ~CommitData(t)
    <3>1. actual' = actual \/ actual' = Reread(actual, This(t).on)
      BY <2>2 DEF ReadData, WriteData, SyncData, DryRunData
    <3>2. ASSUME NEW k \in Numbers(in) PROVE EndKept(in.devices[k], actual, actual')
      <4>1. CASE actual' = actual
        BY <4>1 DEF EndKept
      <4>2. CASE actual' = Reread(actual, This(t).on)
        <5>1. in.devices[k].id \in Node => DOMAIN actual[in.devices[k].id] = Object
          BY DEF BiInv, WholeStores
        <5>2. EndKept(in.devices[k], actual, Reread(actual, This(t).on))
          BY <5>1, RereadKeeps DEF BiAgrees
        <5> QED BY <4>2, <5>2
      <4> QED BY <3>1, <4>1, <4>2
    <3>3. NetworkWhole(in)
      BY <1>8 DEF BiInv
    <3> QED BY <1>2, <3>2, <3>3, KeptWhole
  <2> QED BY <2>1, <2>2
<1> QED BY <1>1, <1>2, <1>4, <1>5, <1>6, <1>7, <1>8, MoveInv

\* What the network has stays whole while it stays as it is.
LEMMA NetworkStays ==
  ASSUME NEW in, NetworkWhole(in), UNCHANGED <<input, scope, actual>> PROVE NetworkWhole(in)'
<1>1. \A k \in Numbers(in) : EndKept(in.devices[k], actual, actual')
  BY DEF EndKept
<1> QED BY <1>1, KeptWhole

\* A call that fails.
LEMMA BiFails ==
  ASSUME BiInv, BiAgrees, NEW t \in Task, CallFails(t) PROVE BiInv'
<1> DEFINE x == This(t)
           p == todo[t]
<1>1. /\ Running(t) /\ p # <<>> /\ x.call # "rollback"
      /\ UNCHANGED <<intent, actual, input, scope, disturbed>>
  BY DEF CallFails
<1>2. /\ \E q : todo' = [todo EXCEPT ![t] = q]
      /\ result' = result \/ result' = [result EXCEPT ![t] = "COMPLETED"]
  BY DEF CallFails
<1>3. Tables
  BY DEF BiInv, L2Inv
<1>4. /\ \A u \in Task \ {t} : todo'[u] = todo[u] /\ result'[u] = result[u]
      /\ result'[t] # "idle"
  BY <1>1, <1>2, <1>3 DEF Tables, Running
<1>5. L2Inv'
  BY FailInv DEF BiInv
<1>6. WholeStores'
  BY <1>1 DEF BiInv, WholeStores
<1>7. ASSUME BiQuiet PROVE BiOnCourse(t)'
  <2>1. /\ scope[t] = BiIds(input[t]) /\ Due(input[t], p, intent, actual)
        /\ x = p[1] /\ BiStep(input[t], x)
    BY <1>1, <1>7, CourseIsDue
  <2>2. /\ x.fails \in {"abort", "ignore", "skip"} /\ x.undo \subseteq scope[t]
        /\ x.fails # "abort" => Idle(input[t], x)
    BY <2>1 DEF BiStep
  <2>3. \/ x.fails = "abort" /\ todo' = [todo EXCEPT ![t] = <<Rollback(x.undo)>>]
        \/ x.fails = "ignore" /\ todo' = [todo EXCEPT ![t] = Tail(p)]
        \/ x.fails = "skip" /\ todo' = [todo EXCEPT ![t] = Tail(Tail(p))]
    <3>1. \/ x.fails = "abort" /\ todo' = [todo EXCEPT ![t] = <<Rollback(x.undo)>>]
          \/ x.fails \in {"ignore", "overlook"} /\ todo' = [todo EXCEPT ![t] = Tail(p)]
          \/ x.fails = "skip" /\ todo' = [todo EXCEPT ![t] = Tail(Tail(p))]
          \/ x.fails \in {"withdraw", "withdraw_abort"}
      BY DEF CallFails
    <3> QED BY <2>2, <3>1
  <2> HIDE DEF x, p
  <2>4. ASSUME NEW q, Due(input[t], q, intent, actual), q # <<>>, Idle(input[t], q[1])
        PROVE  Due(input[t], Tail(q), intent, actual)
    <3>1. After(input[t], q, intent, actual, intent, actual)
      BY <2>4 DEF After, Idle, NoPart
    <3> QED BY <2>4, <3>1, DueTail
  <2>5. CASE x.fails = "abort" /\ todo' = [todo EXCEPT ![t] = <<Rollback(x.undo)>>]
    <3>1. todo'[t] = <<Rollback(x.undo)>>
      BY <1>3, <2>5 DEF Tables
    <3>2. RollsBack(t)'
      BY <1>1, <2>2, <3>1 DEF RollsBack
    <3> QED BY <3>2 DEF BiOnCourse
  <2>6. ASSUME NEW q, todo' = [todo EXCEPT ![t] = q], Due(input[t], q, intent, actual)
        PROVE  BiOnCourse(t)'
    <3>1. todo'[t] = q
      BY <1>3, <2>6 DEF Tables
    <3> QED BY <1>1, <2>1, <2>6, <3>1 DEF BiOnCourse
  <2>7. CASE x.fails = "ignore" /\ todo' = [todo EXCEPT ![t] = Tail(p)]
    <3>1. Due(input[t], Tail(p), intent, actual)
      BY <1>1, <2>1, <2>2, <2>4, <2>7 DEF p
    <3> QED BY <2>6, <2>7, <3>1
  <2>8. CASE x.fails = "skip" /\ todo' = [todo EXCEPT ![t] = Tail(Tail(p))]
    <3> DEFINE q == Tail(p)
    <3>1. /\ Len(p) \in Nat \ {0} /\ IsProgram(q) /\ Len(q) = Len(p) - 1
          /\ \A k \in 1..(Len(p) - 1) : q[k] = p[k + 1]
      BY <1>1, <2>1, ProgramTail DEF Due, BiProgram, p
    <3>2. Due(input[t], q, intent, actual)
      BY <1>1, <2>1, <2>2, <2>4, <2>8 DEF p
    <3> HIDE DEF q
    <3>3. 1 + 1 \in 1..Len(p) /\ Idle(input[t], p[1 + 1])
      <4>1. 1 \in 1..Len(p)
        BY <3>1
      <4> QED BY <2>1, <2>8, <4>1 DEF Due, BiProgram
    <3>4. 1 \in 1..(Len(p) - 1) /\ q[1] = p[1 + 1]
      BY <3>1, <3>3
    <3>5. q # <<>>
      <4>1. Len(<<>>) = 0
        OBVIOUS
      <4> QED BY <3>1, <3>4, <4>1
    <3>6. Due(input[t], Tail(q), intent, actual)
      BY <2>4, <3>2, <3>3, <3>4, <3>5
    <3> QED BY <2>6, <2>8, <3>6 DEF q
  <2> QED BY <2>3, <2>5, <2>7, <2>8
<1>8. ASSUME BiQuiet, NEW in \in BiInput, SameEnds(in) PROVE NetworkWhole(in)'
  <2>1. NetworkWhole(in)
    BY <1>8 DEF BiInv
  <2> QED BY <1>1, <2>1, NetworkStays
<1> QED BY <1>1, <1>4, <1>5, <1>6, <1>7, <1>8, MoveInv

\* A task ends in a rollback, answered or not.
LEMMA BiRolls ==
  ASSUME BiInv, BiAgrees, NEW t \in Task, RollBack(t) PROVE BiInv'
<1>1. /\ Running(t) /\ todo[t] # <<>>
      /\ result' = [result EXCEPT ![t] = "FAILED"] /\ todo' = [todo EXCEPT ![t] = <<>>]
      /\ UNCHANGED <<actual, input, scope, disturbed>>
      /\ intent' = intent \/ intent' = Copied(intent, actual, This(t).on)
  BY DEF RollBack, Doing
<1>2. /\ \A u \in Task \ {t} : todo'[u] = todo[u] /\ result'[u] = result[u]
      /\ result'[t] = "FAILED"
  BY <1>1 DEF BiInv, L2Inv, Tables
<1>3. ~Running(t)' /\ result'[t] # "idle"
  BY <1>2 DEF Running
<1>4. L2Inv'
  BY RollInv DEF BiInv
<1>5. /\ WholeStores'
      /\ \A d \in Node : d \notin This(t).on => intent'[d] = intent[d] /\ actual'[d] = actual[d]
  BY <1>1, StoresKept DEF BiInv
<1>6. BiQuiet => This(t).on \subseteq scope[t]
  <2> SUFFICES ASSUME BiQuiet PROVE This(t).on \subseteq scope[t]
    OBVIOUS
  <2>1. CASE RollsBack(t)
    <3>1. PICK x \in SUBSET scope[t] : todo[t] = <<Rollback(x)>>
      BY <2>1 DEF RollsBack
    <3>2. This(t) = Rollback(x)
      BY <3>1 DEF This
    <3> QED BY <3>2, RollbackFacts
  <2>2. CASE scope[t] = BiIds(input[t]) /\ Due(input[t], todo[t], intent, actual)
    <3>1. This(t) = todo[t][1]
      BY <1>1, <2>2, ProgramTail DEF Due, BiProgram, This
    <3>2. BiStep(input[t], todo[t][1])
      BY <1>1, <2>2, BiTail DEF Due
    <3> QED BY <2>2, <3>1, <3>2 DEF BiStep
  <2> QED BY <1>1, <2>1, <2>2, TheTask DEF BiOnCourse
<1>7. ASSUME BiQuiet, NEW in \in BiInput, SameEnds(in) PROVE NetworkWhole(in)'
  <2>1. NetworkWhole(in)
    BY <1>7 DEF BiInv
  <2> QED BY <1>1, <2>1, NetworkStays
<1> QED BY <1>1, <1>2, <1>3, <1>4, <1>5, <1>6, <1>7, MoveInv

\* The worker of a task dies.
LEMMA BiDies ==
  ASSUME BiInv, BiAgrees, NEW t \in Task, WorkerDies(t) PROVE BiInv'
<1>1. /\ Running(t)
      /\ result' = [result EXCEPT ![t] = "LOST"] /\ todo' = [todo EXCEPT ![t] = <<>>]
      /\ UNCHANGED <<intent, actual, input, scope, disturbed>>
  BY DEF WorkerDies
<1>2. /\ \A u \in Task \ {t} : todo'[u] = todo[u] /\ result'[u] = result[u]
      /\ result'[t] = "LOST"
  BY <1>1 DEF BiInv, L2Inv, Tables
<1>3. ~Running(t)' /\ result'[t] # "idle"
  BY <1>2 DEF Running
<1>4. L2Inv' /\ WholeStores'
  BY <1>1, DiesInv DEF BiInv, WholeStores
<1>5. ASSUME BiQuiet, NEW in \in BiInput, SameEnds(in) PROVE NetworkWhole(in)'
  <2>1. NetworkWhole(in)
    BY <1>5 DEF BiInv
  <2> QED BY <1>1, <2>1, NetworkStays
<1> QED BY <1>1, <1>2, <1>3, <1>4, <1>5, MoveInv

\* A task begins: nobody else is at its devices, and nothing is pending there.
LEMMA BiBeginsInv ==
  ASSUME BiInv, BiAgrees, NEW t \in Task, BiStart(t) PROVE BiInv'
<1>1. PICK in \in BiInput :
        IF BiParses(in) THEN Begin(t, in, BiTask(in), BiIds(in))
                        ELSE Begin(t, in, <<Raise>>, {})
  BY DEF BiStart, StartBi
<1>2. PICK p, ids :
        /\ Begin(t, in, p, ids)
        /\ (p = BiTask(in) /\ ids = BiIds(in)) \/ (p = <<Raise>> /\ ids = {})
  BY <1>1
<1>3. result[t] = "idle" /\ input[t] = None
  BY DEF BiStart, MayBegin, BiInv, OnlyBi
<1>4. /\ input' = [input EXCEPT ![t] = in] /\ todo' = [todo EXCEPT ![t] = p]
      /\ result' = [result EXCEPT ![t] = "running"] /\ scope' = [scope EXCEPT ![t] = ids]
      /\ UNCHANGED <<intent, actual, dirty>>
      /\ LET met == {u \in Task \ {t} : \/ Running(u) /\ scope[u] \cap ids # {}
                                        \/ dirty[u] \cap ids # {}}
         IN disturbed' = disturbed \cup met \cup (IF met = {} THEN {} ELSE {t})
  BY <1>2 DEF Begin
<1>5. Tables /\ Accountable /\ dirty[t] = {}
  BY <1>3 DEF BiInv, L2Inv, TaskSound
<1>6. /\ input'[t] = in /\ todo'[t] = p /\ result'[t] = "running" /\ scope'[t] = ids
      /\ \A u \in Task \ {t} : /\ input'[u] = input[u] /\ todo'[u] = todo[u]
                               /\ result'[u] = result[u] /\ scope'[u] = scope[u]
  BY <1>4, <1>5 DEF Tables
<1>7. L2Inv'
  <2>1. VllStart(t) \/ VplsStart(t) \/ BiStart(t)
    OBVIOUS
  <2> QED BY <2>1, AnyBegins, StartInv DEF BiInv
<1>8. OnlyBi' /\ WholeStores'
  BY <1>4, <1>6 DEF BiInv, OnlyBi, WholeStores
<1>9. in # None /\ in.service = "BI" /\ EndsAgree(in)
  BY BiInputAssumption DEF BiAgrees
<1>10. ASSUME BiQuiet'
       PROVE  /\ OwnDevices'
              /\ \A u \in Task : Running(u)' => BiOnCourse(u)'
              /\ \A other \in BiInput : SameEnds(other)' => NetworkWhole(other)'
  <2>1. BiQuiet
    <3>1. disturbed \subseteq disturbed'
      BY <1>4
    <3>2. \A u \in Task : IsBi(u) => IsBi(u)' /\ input'[u] = input[u]
      BY <1>3, <1>6 DEF IsBi
    <3> QED BY <1>10, <3>1, <3>2 DEF BiQuiet
  <2>2. t \notin disturbed'
    BY <1>6, <1>9, <1>10 DEF BiQuiet, IsBi
  <2>3. \A u \in Task \ {t} :
          (Running(u) => scope[u] \cap ids = {}) /\ dirty[u] \cap ids = {}
    BY <1>4, <2>2
  <2>4. \A u \in Task \ {t} : Running(u)' <=> Running(u)
    BY <1>6 DEF Running
  <2>5. OwnDevices'
    BY <1>6, <2>1, <2>3, <2>4 DEF BiInv, OwnDevices
  <2>6. BiOnCourse(t)'
    <3>1. CASE p = <<Raise>> /\ ids = {}
      <4>1. RollsBack(t)'
        BY <1>6, <3>1 DEF RollsBack, Raise
      <4> QED BY <4>1 DEF BiOnCourse
    <3>2. CASE p = BiTask(in) /\ ids = BiIds(in)
      <4>1. ASSUME NEW d \in BiIds(in) \cap Node PROVE intent[d] = actual[d]
        <5>1. \A u \in Task : d \notin dirty[u]
          BY <1>5, <2>3, <3>2, <4>1
        <5> QED BY <1>5, <5>1 DEF Accountable, Pending
      <4>2. Due(in, BiTask(in), intent, actual)
        BY <1>9, <4>1, DueAtFirst
      <4> QED BY <1>4, <1>6, <3>2, <4>2 DEF BiOnCourse
    <3> QED BY <1>2, <3>1, <3>2
  <2>7. ASSUME NEW u \in Task, u # t, Running(u)' PROVE BiOnCourse(u)'
    <3>1. BiOnCourse(u)
      BY <2>1, <2>4, <2>7 DEF BiInv
    <3> QED BY <1>4, <1>6, <2>7, <3>1 DEF BiOnCourse, RollsBack
  <2>8. ASSUME NEW other \in BiInput, SameEnds(other)' PROVE NetworkWhole(other)'
    <3>1. SameEnds(other)
      BY <1>3, <1>6, <2>8 DEF SameEnds
    <3>2. NetworkWhole(other)
      BY <2>1, <3>1 DEF BiInv
    <3>3. \A u \in Task : DoesBi(u, "delete") => DoesBi(u, "delete")'
      BY <1>3, <1>6 DEF DoesBi, IsBi
    <3> QED BY <1>4, <3>2, <3>3 DEF NetworkWhole
  <2> QED BY <2>5, <2>6, <2>7, <2>8
<1> QED BY <1>7, <1>8, <1>10 DEF BiInv

\* At first the nodes have no end of a BI service.
LEMMA InitBiInv == BiAgrees /\ Init => BiInv
<1> SUFFICES ASSUME BiAgrees, Init PROVE BiInv
  OBVIOUS
<1>1. L2Inv /\ OnlyBi
  BY InitL2Inv DEF Init, OnlyBi
<1>2. WholeStores
  BY InitialAssumption DEF Init, WholeStores
<1>3. OwnDevices /\ \A t \in Task : ~Running(t)
  BY DEF Init, OwnDevices, Running
<1>4. ASSUME NEW in \in BiInput PROVE NetworkWhole(in)
  <2>1. \A k \in Numbers(in) : EndGone(actual, in.devices[k])
    BY BiNumbers DEF BiAgrees, EndsAgree, Init, EndGone
  <2>2. \A k \in Numbers(in) : ~EndWhole(actual, in, in.devices[k])
    <3>1. VlanData(in) # None
      BY BiNumbers, NoneAssumption
    <3> QED BY <2>1, <3>1 DEF EndWhole, EndGone
  <2> QED BY <2>1, <2>2 DEF NetworkWhole, EndsWhole, AllOrNone
<1> QED BY <1>1, <1>2, <1>3, <1>4 DEF BiInv

\* Every step of BI tasks keeps the invariant.
LEMMA NextBiInv == BiAgrees /\ BiInv /\ [BiNext]_vars => BiInv'
<1> SUFFICES ASSUME BiAgrees, BiInv, [BiNext]_vars PROVE BiInv'
  OBVIOUS
<1>1. ASSUME NEW t \in Task, BiStart(t) \/ Advance(t) \/ WorkerDies(t) PROVE BiInv'
  BY <1>1, BiBeginsInv, BiSucceeds, BiFails, BiRolls, BiDies DEF Advance
<1>2. CASE UNCHANGED vars
  <2>1. UNCHANGED <<intent, actual, input, todo, result, scope, disturbed>>
    BY <1>2 DEF vars
  <2>2. L2Inv'
    BY <1>2, NextL2Inv DEF BiInv
  <2>3. OnlyBi' /\ WholeStores'
    BY <2>1 DEF BiInv, OnlyBi, WholeStores
  <2>4. BiQuiet' <=> BiQuiet
    BY <2>1 DEF BiQuiet, IsBi
  <2>5. OwnDevices' <=> OwnDevices
    BY <2>1 DEF OwnDevices, Running
  <2>6. \A t \in Task : (Running(t)' <=> Running(t)) /\ (BiOnCourse(t)' <=> BiOnCourse(t))
    BY <2>1 DEF Running, BiOnCourse, RollsBack
  <2>7. \A in : (SameEnds(in)' <=> SameEnds(in)) /\ (NetworkWhole(in) => NetworkWhole(in)')
    BY <2>1, NetworkStays DEF SameEnds
  <2> QED BY <2>2, <2>3, <2>4, <2>5, <2>6, <2>7 DEF BiInv
<1> QED BY <1>1, <1>2 DEF BiNext

\* The invariant has what the property asks for.
LEMMA InvBiWhole == BiInv => BiWholeOrNothing
<1> SUFFICES ASSUME BiInv, BiQuiet, NEW t \in Task, DoesBi(t, "create")
             PROVE  LET s == input[t] IN
                    \A k \in DOMAIN s.devices :
                      LET end == s.devices[k] IN
                      /\ EndWhole(actual, s, end) \/ EndGone(actual, end)
                      /\ (EndWhole(actual, s, end) /\ ~ResetAfter(s, k)) =>
                           \A j \in DOMAIN s.devices :
                             \/ EndWhole(actual, s, s.devices[j])
                             \/ \E u \in Task : /\ DoesBi(u, "delete")
                                                /\ s.devices[j].id \in BiIds(input[u])
  BY DEF BiWholeOrNothing
<1>1. input[t] \in BiInput /\ input[t] # None
  BY DEF DoesBi, IsBi, BiInv, OnlyBi
<1>2. \A u \in Task : input[u] # None => IsBi(u)
  BY BiInputAssumption DEF BiInv, OnlyBi, IsBi
<1>3. SameEnds(input[t])
  BY <1>1, <1>2 DEF BiQuiet, SameEnds
<1>4. NetworkWhole(input[t]) /\ DOMAIN input[t].devices = Numbers(input[t])
  BY <1>1, <1>3, BiNumbers DEF BiInv
<1>5. ASSUME NEW u \in Task, DoesBi(u, "delete"), NEW j \in DOMAIN input[t].devices
      PROVE  input[t].devices[j].id \in BiIds(input[u])
  <2>1. input[u].devices = input[t].devices
    BY <1>3, <1>5 DEF SameEnds, DoesBi, IsBi
  <2> QED BY <2>1 DEF BiIds
<1> QED BY <1>4, <1>5 DEF NetworkWhole, EndsWhole, AllOrNone

\* BI tasks that are alone put the VLAN, the VE interface and IS-IS of an end on
\* the network together, and with all other ends of their service, whichever of
\* their calls fail and whenever their worker dies: provided that the ends a
\* task names on one node agree on their VE interface, and the nodes have no
\* part of them at first.
THEOREM SpecBiWholeOrNothing ==
  (\A in \in BiInput : EndsAgree(in)) /\ BiSpec => []BiWholeOrNothing
<1>1. BiAgrees /\ Init => BiInv
  BY InitBiInv
<1>2. BiAgrees /\ BiInv /\ [BiNext]_vars => BiInv'
  BY NextBiInv
<1>3. BiAgrees => BiAgrees'
  BY DEF BiAgrees
<1>4. (\A in \in BiInput : EndsAgree(in)) <=> BiAgrees
  BY DEF BiAgrees
<1> QED BY <1>1, <1>2, <1>3, <1>4, InvBiWhole, PTL DEF BiSpec
=============================================================================
