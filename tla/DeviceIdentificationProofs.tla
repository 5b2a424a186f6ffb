---------------------- MODULE DeviceIdentificationProofs ----------------------
(* Proofs about DeviceIdentification, for any list of types and fields, any   *)
(* number of rounds and retries, and any number of refused calls and deaths.  *)
(*                                                                            *)
(* Two things have to be remembered on the way.  What is mounted is the type  *)
(* that was chosen, a type that was passed over, or the command line while    *)
(* its branch is running.  And a field that is still missing was refused in   *)
(* every round so far, unless another attempt had unmounted the device.       *)
EXTENDS DeviceIdentification, TLAPS

CliStages == {"show", "identify_cli", "unmount_cli", "join", "FAILED"}

\* What is mounted, and when a thread is past its call to unmount.
MountInv ==
  /\ mounted \subseteq passed \cup {chosen} \cup {"cli"}
  /\ "cli" \in mounted => stage \in CliStages
  /\ chosen # None => stage \in {"mount_netconf", "identify_netconf", "COMPLETED", "FAILED"}
  /\ stage \in {"identify_netconf", "COMPLETED"} /\ chosen = None => mounted \subseteq passed
  /\ \A a \in Attempt : thread[a].at # "idle" => stage \in {"identify_netconf", "COMPLETED", "FAILED"}
  /\ \A a \in Attempt : thread[a].at = "reporting" => chosen \notin mounted \/ chosen \in stuck
  /\ \A a \in Attempt : thread[a].at \in {"reading", "unmounting", "reporting"} => chosen # None
  /\ \A a \in Attempt : thread[a].next >= 1
  /\ untried # <<>> => chosen = None
  /\ stage = "mount_netconf" \/ chosen # None => "cli" \notin mounted

\* The device cannot be read only after an attempt has unmounted it, and an
\* attempt unmounts it last.
UnmountedInv ==
  /\ chosen # None => chosen \in mounted \/ unmounted # {}
  /\ \A a \in Attempt : thread[a].at \in {"idle", "reading", "unmounting"} => a \notin unmounted
  /\ report # None => stage = "COMPLETED"

\* How often a field with position k was refused that the thread still lacks.
AskedFor(a, k) == IF k < thread[a].next THEN thread[a].round ELSE thread[a].round - 1
Excused(a, k) ==
  \/ Fields[chosen][k] \in thread[a].found
  \/ unmounted \ {a} # {}
  \/ refused >= AskedFor(a, k)

\* A field was refused as often as the thread has asked for it.
RefusedInv ==
  /\ \A a \in Attempt : thread[a].at = "reading" =>
       \A k \in 1..Len(Fields[chosen]) : Excused(a, k)
  /\ \A a \in Attempt : thread[a].at \in {"unmounting", "reporting"} =>
       thread[a].found = AllFields \/ unmounted \ {a} # {} \/ refused >= Rounds

IInv ==
  TypeOK /\ MountInv /\ UnmountedInv /\ RefusedInv /\ CompletedLeavesNothing /\ MissingForCause

-----------------------------------------------------------------------------
(* Type correctness *)

\* The parts of TypeOK that are about the threads, and the rest.
ThreadsOK == thread \in [Attempt -> Thread]
FoundOK ==
  \A a \in Attempt : thread[a].found \subseteq IF chosen = None THEN {} ELSE AllFields
RunOK ==
  /\ port \in Port /\ stage \in Stages /\ untried \in Seq(Type)
  /\ chosen \in Type \cup {None} /\ mounted \subseteq Type \cup {"cli"}
  /\ attempt \in Attempt /\ refused \in 0..MaxRefused /\ deaths \in 0..MaxDeaths
  /\ passed \subseteq Type /\ stuck \subseteq Type /\ unmounted \subseteq Attempt

\* The type invariant is its three parts.
LEMMA TypeParts == TypeOK <=> ThreadsOK /\ FoundOK /\ RunOK
BY DEF TypeOK, ThreadsOK, FoundOK, RunOK

\* What a thread asks for is one of the fields.
LEMMA FieldAsked ==
  ASSUME RunOK, ThreadsOK, MountInv, NEW a \in Attempt, thread[a].at = "reading",
         thread[a].next <= Len(Fields[chosen])
  PROVE  Fields[chosen][thread[a].next] \in AllFields \cap Field
<1>1. chosen \in Type
  BY DEF RunOK, MountInv
<1>2. Fields[chosen] \in Seq(Field)
  BY <1>1, FieldsAssumption
<1>3. thread[a].next \in 1..Len(Fields[chosen])
  BY <1>2 DEF ThreadsOK, Thread, MountInv
<1> QED BY <1>2, <1>3 DEF AllFields, ToSet

\* The types that are left to try.
LEMMA ListFacts ==
  /\ <<>> \in Seq(Type)
  /\ \A s \in Seq(Type) : s # <<>> => Head(s) \in Type /\ Tail(s) \in Seq(Type)
OBVIOUS

\* Where a thread goes once its loop is over.
Positions == {"unmounting", "reporting", "done", "raised", "lost"}

\* Threads that come about in steps.
LEMMA ThreadFacts ==
  /\ \A k \in Type : [at |-> "reading", found |-> {"version"}, round |-> 1, next |-> 1] \in Thread
  /\ \A t \in Thread : [t EXCEPT !.next = @ + 1] \in Thread
  /\ \A t \in Thread, f \in Field :
       [t EXCEPT !.next = @ + 1, !.found = @ \cup {f}] \in Thread
  /\ \A t \in Thread : t.round # Rounds =>
       [t EXCEPT !.round = @ + 1, !.next = 1] \in Thread
  /\ \A t \in Thread : \A at \in Positions :
       [t EXCEPT !.at = at] \in Thread
<1>1. ASSUME NEW k \in Type
      PROVE  [at |-> "reading", found |-> {"version"}, round |-> 1, next |-> 1] \in Thread
  <2>1. "version" \in Field
    BY FieldsAssumption DEF Field
  <2>2. {"version"} \in SUBSET Field
    BY <2>1
  <2> QED BY <2>2, BoundsAssumption DEF Thread
<1>2. ASSUME NEW t \in Thread PROVE [t EXCEPT !.next = @ + 1] \in Thread
  BY DEF Thread
<1>3. ASSUME NEW t \in Thread, NEW f \in Field
      PROVE  [t EXCEPT !.next = @ + 1, !.found = @ \cup {f}] \in Thread
  <2>1. \A u \in Thread : [u EXCEPT !.found = @ \cup {f}] \in Thread
    BY DEF Thread
  <2>2. [t EXCEPT !.next = @ + 1, !.found = @ \cup {f}]
          = [[t EXCEPT !.next = @ + 1] EXCEPT !.found = @ \cup {f}]
    OBVIOUS
  <2> QED BY <1>2, <2>1, <2>2
<1>4. ASSUME NEW t \in Thread, t.round # Rounds
      PROVE  [t EXCEPT !.round = @ + 1, !.next = 1] \in Thread
  <2>1. [t EXCEPT !.round = @ + 1] \in Thread
    BY <1>4, BoundsAssumption DEF Thread
  <2>2. \A u \in Thread : [u EXCEPT !.next = 1] \in Thread
    BY DEF Thread
  <2>3. [t EXCEPT !.round = @ + 1, !.next = 1] = [[t EXCEPT !.round = @ + 1] EXCEPT !.next = 1]
    OBVIOUS
  <2> QED BY <2>1, <2>2, <2>3
<1>5. ASSUME NEW t \in Thread, NEW at \in Positions
      PROVE  [t EXCEPT !.at = at] \in Thread
  BY DEF Thread, Positions
<1> QED BY <1>1, <1>2, <1>3, <1>4, <1>5

\* What the steps of a thread leave of its record.
Moved(t, at) == [t EXCEPT !.at = at]
Missed(t)    == [t EXCEPT !.next = @ + 1]
Told(t, f)   == [t EXCEPT !.next = @ + 1, !.found = @ \cup {f}]
Again(t)     == [t EXCEPT !.round = @ + 1, !.next = 1]

LEMMA ThreadFields ==
  ASSUME NEW t \in Thread
  PROVE  /\ \A at \in Positions :
              /\ Moved(t, at).at = at /\ Moved(t, at).found = t.found
              /\ Moved(t, at).round = t.round /\ Moved(t, at).next = t.next
         /\ Missed(t).at = t.at /\ Missed(t).found = t.found
         /\ Missed(t).round = t.round /\ Missed(t).next = t.next + 1
         /\ \A f \in Field :
              /\ Told(t, f).at = t.at /\ Told(t, f).found = t.found \cup {f}
              /\ Told(t, f).round = t.round /\ Told(t, f).next = t.next + 1
         /\ Again(t).at = t.at /\ Again(t).found = t.found
         /\ Again(t).round = t.round + 1 /\ Again(t).next = 1
<1>1. ASSUME NEW at \in Positions, NEW u, u = [t EXCEPT !.at = at]
      PROVE  u.at = at /\ u.found = t.found /\ u.round = t.round /\ u.next = t.next
  BY <1>1 DEF Thread, Positions
<1>2. ASSUME NEW u, u = [t EXCEPT !.next = @ + 1]
      PROVE  u.at = t.at /\ u.found = t.found /\ u.round = t.round /\ u.next = t.next + 1
  BY <1>2 DEF Thread
<1>3. ASSUME NEW f \in Field, NEW u, u = [t EXCEPT !.next = @ + 1, !.found = @ \cup {f}]
      PROVE  u.at = t.at /\ u.found = t.found \cup {f} /\ u.round = t.round /\ u.next = t.next + 1
  <2> DEFINE v == [t EXCEPT !.next = @ + 1]
  <2>1. v \in Thread
    BY ThreadFacts
  <2>2. u = [v EXCEPT !.found = @ \cup {f}]
    BY <1>3
  <2>3. v.at = t.at /\ v.found = t.found /\ v.round = t.round /\ v.next = t.next + 1
    BY DEF Thread
  <2> HIDE DEF v
  <2> QED BY <2>1, <2>2, <2>3 DEF Thread
<1>4. ASSUME NEW u, u = [t EXCEPT !.round = @ + 1, !.next = 1]
      PROVE  u.at = t.at /\ u.found = t.found /\ u.round = t.round + 1 /\ u.next = 1
  <2> DEFINE v == [t EXCEPT !.round = @ + 1]
  <2>1. u = [v EXCEPT !.next = 1]
    BY <1>4
  <2>2. v.at = t.at /\ v.found = t.found /\ v.round = t.round + 1 /\ v.next = t.next
    BY DEF Thread
  <2>3. DOMAIN v = {"at", "found", "round", "next"}
    BY DEF Thread
  <2> HIDE DEF v
  <2> QED BY <2>1, <2>2, <2>3
<1> QED BY <1>1, <1>2, <1>3, <1>4 DEF Moved, Missed, Told, Again

\* The other threads go nowhere while one is set.
LEMMA Others ==
  ASSUME ThreadsOK, NEW a \in Attempt, NEW t, thread' = [thread EXCEPT ![a] = t]
  PROVE  thread'[a] = t /\ \A b \in Attempt \ {a} : thread'[b] = thread[b]
BY DEF ThreadsOK

\* A thread that moves on keeps what it knows.
LEMMA SetAt ==
  ASSUME ThreadsOK, NEW a \in Attempt, NEW at \in Positions,
         thread' = [thread EXCEPT ![a].at = at]
  PROVE  /\ thread'[a].at = at
         /\ thread'[a].found = thread[a].found
         /\ thread'[a].round = thread[a].round
         /\ thread'[a].next = thread[a].next
         /\ \A b \in Attempt \ {a} : thread'[b] = thread[b]
<1>1. thread[a] \in Thread
  BY DEF ThreadsOK
<1>2. thread'[a] = Moved(thread[a], at)
  BY DEF ThreadsOK, Moved
<1>3. \A b \in Attempt \ {a} : thread'[b] = thread[b]
  BY DEF ThreadsOK
<1> QED BY <1>1, <1>2, <1>3, ThreadFields

\* A thread that raises stands still, and may end the run.
LEMMA RaiseEffect ==
  ASSUME RunOK, ThreadsOK, NEW a \in Attempt, Raise(a)
  PROVE  /\ thread'[a].at = "raised"
         /\ thread'[a].found = thread[a].found
         /\ thread'[a].next = thread[a].next
         /\ \A b \in Attempt \ {a} : thread'[b] = thread[b]
         /\ UNCHANGED <<port, untried, chosen, passed>>
         /\ attempt' \in Attempt
         /\ \/ UNCHANGED <<stage, attempt>>
            \/ stage = "identify_netconf" /\ stage' \in {"identify_netconf", "FAILED"}
<1>1. thread' = [thread EXCEPT ![a].at = "raised"]
  BY DEF Raise
<1>2. /\ UNCHANGED <<port, untried, chosen, passed>> /\ attempt' \in Attempt
      /\ \/ UNCHANGED <<stage, attempt>>
         \/ stage = "identify_netconf" /\ stage' \in {"identify_netconf", "FAILED"}
  BY BoundsAssumption DEF Raise, Awaited, FailAttempt, Go, workflowVars, RunOK, Attempt
<1> QED BY <1>1, <1>2, SetAt DEF Positions

\* Steps keep the variables of the run in their types.
LEMMA RunStep ==
  ASSUME RunOK, ThreadsOK, MountInv, [Next]_vars PROVE RunOK'
<1> USE TypeAssumption, BoundsAssumption DEF RunOK, ThreadsOK, Go, workflowVars, Attempt, Stages, MountInv
<1>1. CASE Validate
  BY <1>1 DEF Validate
<1>2. CASE TryType
  <2>1. Head(untried) \in Type /\ Tail(untried) \in Seq(Type)
    BY <1>2, ListFacts DEF TryType
  <2> QED BY <1>2, <2>1, ListFacts DEF TryType
<1>3. CASE FinishMount
  BY <1>3 DEF FinishMount
<1>4. CASE Poll
  BY <1>4 DEF Raise, Awaited, FailAttempt, Idle, Poll
<1>5. CASE MountCli
  BY <1>5 DEF CliUnchanged, MountCli
<1>6. CASE ShowVendor
  BY <1>6 DEF CliUnchanged, ShowVendor
<1>7. CASE IdentifyCli
  BY <1>7 DEF CliUnchanged, IdentifyCli
<1>8. CASE UnmountCli
  BY <1>8 DEF CliUnchanged, UnmountCli
<1>9. CASE GiveUp
  BY <1>9 DEF FailAttempt, GiveUp
<1>10. CASE WorkersDie
  BY <1>10 DEF Works, WorkersDie
<1>11. ASSUME NEW a \in Attempt, ThreadStep(a) PROVE RunOK'
  <2>1. CASE ReadField(a)
    <3>0. refused' = refused \/ Refuse
      BY <2>1 DEF ReadField
    <3>1. refused' \in 0..MaxRefused
      BY <3>0 DEF Refuse
    <3> QED BY <2>1, <3>1 DEF ReadField
  <2>2. CASE EndRound(a)
    BY <2>2 DEF NextRound, EndRound
  <2>3. CASE Unmount(a)
    <3>1. chosen \in Type
      BY <2>3 DEF Unmount
    <3>2. stuck' \subseteq Type
      BY <2>3, <3>1 DEF Unmount
    <3>3. refused' \in 0..MaxRefused
      BY <2>3 DEF Unmount, Refuse
    <3>4. mounted' \subseteq Type \cup {"cli"} /\ unmounted' \subseteq Attempt
      BY <2>3 DEF Unmount
    <3> QED BY <2>3, <3>2, <3>3, <3>4 DEF Unmount
  <2>4. CASE Report(a)
    BY <2>4 DEF Awaited, Report
  <2>5. CASE ReadRaises(a)
    <3>1. refused' \in 0..MaxRefused
      BY <2>5 DEF ReadRaises, Refuse
    <3>2. stage' \in Stages /\ attempt' \in Attempt /\ UNCHANGED <<port, untried, chosen, passed>>
      BY <2>5, RaiseEffect DEF ReadRaises
    <3> QED BY <2>5, <3>1, <3>2 DEF ReadRaises
  <2>6. CASE UnmountRaises(a)
    <3>1. refused' \in 0..MaxRefused
      BY <2>6 DEF UnmountRaises, Refuse
    <3>2. stage' \in Stages /\ attempt' \in Attempt /\ UNCHANGED <<port, untried, chosen, passed>>
      BY <2>6, RaiseEffect DEF UnmountRaises
    <3>3. mounted' \subseteq Type \cup {"cli"} /\ unmounted' \subseteq Attempt
      BY <2>6 DEF UnmountRaises
    <3> QED BY <2>6, <3>1, <3>2, <3>3 DEF UnmountRaises
  <2> QED BY <1>11, <2>1, <2>2, <2>3, <2>4, <2>5, <2>6 DEF ThreadStep
<1>12. CASE UNCHANGED vars
  BY <1>12 DEF vars
<1>13. CASE MountRaises
  <2>1. Head(untried) \in Type
    BY <1>13, ListFacts DEF MountRaises
  <2> QED BY <1>13, <2>1 DEF MountRaises, Refuse
<1> QED BY <1>1, <1>2, <1>3, <1>4, <1>5, <1>6, <1>7, <1>8, <1>9, <1>10, <1>11, <1>12, <1>13 DEF Next, WorkflowStep

\* Steps keep the threads in their type.
LEMMA ThreadsStep ==
  ASSUME RunOK, ThreadsOK, MountInv, [Next]_vars PROVE ThreadsOK'
<1> USE DEF RunOK, ThreadsOK
<1>1. CASE Validate
  BY <1>1 DEF Validate
<1>2. CASE TryType
  BY <1>2 DEF TryType
<1>3. CASE FinishMount
  BY <1>3 DEF FinishMount
<1>4. CASE Poll
  <2>1. CASE chosen = None
    <3>1. thread[attempt] \in Thread
      OBVIOUS
    <3> QED BY <1>4, <2>1, <3>1, ThreadFacts DEF Poll, Raise, Positions
  <2>2. CASE chosen # None
    BY <1>4, <2>2, ThreadFacts DEF Poll
  <2> QED BY <2>1, <2>2
<1>5. CASE MountCli
  BY <1>5 DEF CliUnchanged, MountCli
<1>6. CASE ShowVendor
  BY <1>6 DEF CliUnchanged, ShowVendor
<1>7. CASE IdentifyCli
  BY <1>7 DEF CliUnchanged, IdentifyCli
<1>8. CASE UnmountCli
  BY <1>8 DEF CliUnchanged, UnmountCli
<1>9. CASE GiveUp
  BY <1>9 DEF FailAttempt, GiveUp
<1>10. CASE WorkersDie
  <2>1. \A a \in Attempt : [thread[a] EXCEPT !.at = "lost"] \in Thread
    BY ThreadFacts DEF Positions
  <2> QED BY <1>10, <2>1 DEF WorkersDie
<1>11. ASSUME NEW a \in Attempt, ThreadStep(a) PROVE ThreadsOK'
  <2>0. thread[a] \in Thread
    OBVIOUS
  <2>1. CASE ReadField(a)
    <3> DEFINE f == Fields[chosen][thread[a].next]
    <3>1. f \in Field
      BY <2>1, FieldAsked DEF ReadField
    <3>2. \/ thread' = [thread EXCEPT ![a] = [thread[a] EXCEPT !.next = @ + 1]]
          \/ thread' = [thread EXCEPT ![a] = [thread[a] EXCEPT !.next = @ + 1,
                                                               !.found = @ \cup {f}]]
      BY <2>1 DEF ReadField
    <3> QED BY <2>0, <3>1, <3>2, ThreadFacts
  <2>2. CASE EndRound(a)
    <3>1. NextRound(a) \in Thread
      BY <2>0, ThreadFacts DEF NextRound, Positions
    <3> QED BY <2>2, <3>1 DEF EndRound
  <2>3. CASE Unmount(a)
    BY <2>0, <2>3, ThreadFacts DEF Unmount, Positions
  <2>4. CASE Report(a)
    BY <2>0, <2>4, ThreadFacts DEF Report, Positions
  <2>5. CASE ReadRaises(a)
    BY <2>0, <2>5, ThreadFacts DEF ReadRaises, Raise, Positions
  <2>6. CASE UnmountRaises(a)
    BY <2>0, <2>6, ThreadFacts DEF UnmountRaises, Raise, Positions
  <2> QED BY <1>11, <2>1, <2>2, <2>3, <2>4, <2>5, <2>6 DEF ThreadStep
<1>12. CASE UNCHANGED vars
  BY <1>12 DEF vars
<1>13. CASE MountRaises
  BY <1>13 DEF MountRaises
<1> QED BY <1>1, <1>2, <1>3, <1>4, <1>5, <1>6, <1>7, <1>8, <1>9, <1>10, <1>11, <1>12, <1>13 DEF Next, WorkflowStep

-----------------------------------------------------------------------------
(* What each step does to the threads *)

\* A thread takes up the attempt that Conductor waits for.
LEMMA PollEffect ==
  ASSUME RunOK, ThreadsOK, Poll
  PROVE  /\ \A b \in Attempt \ {attempt} : thread'[b] = thread[b]
         /\ chosen' = chosen
         /\ chosen = None => /\ thread'[attempt].at = "raised"
                             /\ thread'[attempt].found = thread[attempt].found
                             /\ thread'[attempt].next = thread[attempt].next
         /\ chosen # None => /\ thread'[attempt].at = "reading"
                             /\ thread'[attempt].found = {"version"}
                             /\ thread'[attempt].round = 1 /\ thread'[attempt].next = 1
                             /\ UNCHANGED <<workflowVars, attempt>>
<1>1. attempt \in Attempt
  BY DEF RunOK
<1>2. CASE chosen = None
  <2> QED BY <1>1, <1>2, RaiseEffect DEF Poll
<1>3. CASE chosen # None
  BY <1>1, <1>3 DEF Poll, ThreadsOK, workflowVars
<1> QED BY <1>2, <1>3

\* A read adds the field, or is refused, or was not needed or not possible.
LEMMA ReadEffect ==
  ASSUME RunOK, ThreadsOK, MountInv, NEW a \in Attempt, ReadField(a),
         NEW f, f = Fields[chosen][thread[a].next]
  PROVE  /\ \A b \in Attempt \ {a} : thread'[b] = thread[b]
         /\ thread'[a].at = "reading" /\ thread'[a].round = thread[a].round
         /\ thread'[a].next = thread[a].next + 1
         /\ \/ thread'[a].found = thread[a].found \cup {f} /\ refused' = refused
            \/ /\ thread'[a].found = thread[a].found
               /\ \/ (f \in thread[a].found \/ chosen \notin mounted) /\ refused' = refused
                  \/ refused' = refused + 1
         /\ f \in AllFields
<1>0. thread[a].at = "reading"
  BY DEF ReadField
<1>1. f \in AllFields /\ f \in Field
  BY FieldAsked DEF ReadField
<1>2. thread[a] \in Thread
  BY DEF ThreadsOK
<1>3. CASE /\ thread' = [thread EXCEPT ![a] = Told(thread[a], f)]
           /\ refused' = refused
  <2>1. thread'[a] = Told(thread[a], f) /\ \A b \in Attempt \ {a} : thread'[b] = thread[b]
    BY <1>3, Others
  <2> QED BY <1>0, <1>1, <1>2, <1>3, <2>1, ThreadFields
<1>4. CASE /\ thread' = [thread EXCEPT ![a] = Missed(thread[a])]
           /\ \/ (f \in thread[a].found \/ chosen \notin mounted) /\ refused' = refused
              \/ refused' = refused + 1
  <2>1. thread'[a] = Missed(thread[a]) /\ \A b \in Attempt \ {a} : thread'[b] = thread[b]
    BY <1>4, Others
  <2> QED BY <1>0, <1>1, <1>2, <1>4, <2>1, ThreadFields
<1> QED BY <1>3, <1>4 DEF ReadField, Refuse, Told, Missed

\* A thread leaves the loop, or begins the next round.
LEMMA EndRoundEffect ==
  ASSUME ThreadsOK, NEW a \in Attempt, EndRound(a)
  PROVE  /\ \A b \in Attempt \ {a} : thread'[b] = thread[b]
         /\ thread'[a].found = thread[a].found
         /\ \/ /\ thread[a].found = AllFields \/ thread[a].round = Rounds
               /\ thread'[a].at = "unmounting" /\ thread'[a].next = thread[a].next
            \/ /\ thread'[a].at = "reading" /\ thread'[a].next = 1
               /\ thread'[a].round = thread[a].round + 1
<1>1. thread[a] \in Thread
  BY DEF ThreadsOK
<1>2. thread' = [thread EXCEPT ![a] = NextRound(a)] /\ thread[a].at = "reading"
  BY DEF EndRound
<1>3. thread'[a] = NextRound(a) /\ \A b \in Attempt \ {a} : thread'[b] = thread[b]
  BY <1>2, Others
<1>4. NextRound(a) = IF thread[a].found = AllFields \/ thread[a].round = Rounds
                     THEN Moved(thread[a], "unmounting") ELSE Again(thread[a])
  BY DEF NextRound, Moved, Again
<1> QED BY <1>1, <1>2, <1>3, <1>4, ThreadFields DEF Positions

\* A death of the process takes the threads that work.
LEMMA DeathEffect ==
  ASSUME ThreadsOK, WorkersDie, NEW a \in Attempt
  PROVE  /\ thread'[a].found = thread[a].found /\ thread'[a].next = thread[a].next
         /\ thread'[a] = thread[a] \/ thread'[a].at = "lost"
         /\ thread'[a].at \notin {"reading", "unmounting", "reporting"}
         /\ thread[a].at = "idle" => thread'[a] = thread[a]
<1>1. thread[a] \in Thread
  BY DEF ThreadsOK
<1>2. thread'[a] = IF Works(a) THEN Moved(thread[a], "lost") ELSE thread[a]
  BY DEF WorkersDie, Moved
<1> QED BY <1>1, <1>2, ThreadFields DEF Works, Positions

-----------------------------------------------------------------------------
\* A thread knows only fields of the type that was chosen.
LEMMA FoundStep ==
  ASSUME RunOK, ThreadsOK, FoundOK, MountInv, [Next]_vars PROVE FoundOK'
<1> USE DEF FoundOK, AllFields
<1>1. CASE Validate
  BY <1>1 DEF Validate, Go
<1>2. CASE TryType
  <2>1. \A a \in Attempt : thread[a].found \subseteq {}
    BY <1>2 DEF TryType, MountInv
  <2> QED BY <1>2, <2>1 DEF TryType
<1>3. CASE FinishMount
  BY <1>3 DEF FinishMount, Go
<1>4. CASE Poll
  <2>1. chosen # None => "version" \in ToSet(Fields[chosen])
    BY FieldsAssumption DEF RunOK
  <2> QED BY <1>4, <2>1, PollEffect
<1>5. CASE MountCli
  BY <1>5 DEF MountCli, CliUnchanged, Go
<1>6. CASE ShowVendor
  BY <1>6 DEF ShowVendor, CliUnchanged, Go
<1>7. CASE IdentifyCli
  BY <1>7 DEF IdentifyCli, CliUnchanged, Go
<1>8. CASE UnmountCli
  BY <1>8 DEF UnmountCli, CliUnchanged, Go
<1>9. CASE GiveUp
  BY <1>9 DEF GiveUp, FailAttempt, Go
<1>10. CASE WorkersDie
  BY <1>10, DeathEffect DEF WorkersDie, workflowVars
<1>11. ASSUME NEW a \in Attempt, ThreadStep(a) PROVE FoundOK'
  <2>1. CASE ReadField(a)
    <3>1. chosen # None /\ chosen' = chosen
      BY <2>1 DEF ReadField, MountInv, workflowVars
    <3> QED BY <2>1, <3>1, ReadEffect
  <2>2. CASE EndRound(a)
    BY <2>2, EndRoundEffect DEF EndRound, workflowVars
  <2>3. CASE Unmount(a)
    BY <2>3, SetAt DEF Positions, Unmount, workflowVars
  <2>4. CASE Report(a)
    BY <2>4, SetAt DEF Positions, Report, Go, workflowVars
  <2>5. CASE ReadRaises(a)
    BY <2>5, RaiseEffect DEF ReadRaises
  <2>6. CASE UnmountRaises(a)
    BY <2>6, RaiseEffect DEF UnmountRaises
  <2> QED BY <1>11, <2>1, <2>2, <2>3, <2>4, <2>5, <2>6 DEF ThreadStep
<1>12. CASE UNCHANGED vars
  BY <1>12 DEF vars, workflowVars
<1>13. CASE MountRaises
  BY <1>13 DEF MountRaises
<1> QED BY <1>1, <1>2, <1>3, <1>4, <1>5, <1>6, <1>7, <1>8, <1>9, <1>10, <1>11, <1>12, <1>13
        DEF Next, WorkflowStep
-----------------------------------------------------------------------------
\* None is not a mount point of a device.
LEMMA NoneFact == RunOK => None \notin mounted \/ None = "cli"
BY TypeAssumption DEF RunOK

\* What is mounted stays accounted for.
LEMMA MountStep ==
  ASSUME RunOK, ThreadsOK, FoundOK, MountInv, [Next]_vars PROVE MountInv'
<1> USE DEF MountInv, CliStages
<1>1. CASE Validate
  BY <1>1 DEF Validate, Go
<1>2. CASE TryType
  <2>1. Head(untried) \in Type /\ Head(untried) # "cli" /\ Head(untried) # None
    BY <1>2, ListFacts, TypeAssumption DEF TryType, RunOK
  <2>2. \A a \in Attempt : thread[a].at = "idle"
    BY <1>2 DEF TryType
  <2>3. CASE UNCHANGED <<mounted, chosen, passed>>
    BY <1>2, <2>2, <2>3 DEF TryType
  <2>4. CASE /\ mounted' = mounted \cup {Head(untried)} /\ chosen' = Head(untried)
             /\ untried' = <<>> /\ UNCHANGED passed
    BY <1>2, <2>1, <2>2, <2>4, NoneFact DEF TryType
  <2>5. CASE /\ mounted' = mounted \cup {Head(untried)} /\ passed' = passed \cup {Head(untried)}
             /\ UNCHANGED chosen
    BY <1>2, <2>1, <2>2, <2>5 DEF TryType
  <2> QED BY <1>2, <2>3, <2>4, <2>5 DEF TryType
<1>3. CASE FinishMount
  BY <1>3, NoneFact DEF FinishMount, Go
<1>4. CASE Poll
  BY <1>4, PollEffect DEF Raise, Awaited, Poll, FailAttempt, Go, workflowVars
<1>5. CASE MountCli
  BY <1>5 DEF MountCli, CliUnchanged, Go
<1>6. CASE ShowVendor
  BY <1>6 DEF ShowVendor, CliUnchanged, Go
<1>7. CASE IdentifyCli
  BY <1>7 DEF IdentifyCli, CliUnchanged, Go
<1>8. CASE UnmountCli
  BY <1>8, NoneFact DEF UnmountCli, CliUnchanged, Go
<1>9. CASE GiveUp
  BY <1>9 DEF GiveUp, FailAttempt, Go
<1>10. CASE WorkersDie
  BY <1>10, DeathEffect DEF WorkersDie, workflowVars
<1>11. ASSUME NEW a \in Attempt, ThreadStep(a) PROVE MountInv'
  <2>1. CASE ReadField(a)
    <3>1. thread'[a].at = "reading" /\ thread'[a].next = thread[a].next + 1
      BY <2>1, ReadEffect
    <3>2. \A b \in Attempt \ {a} : thread'[b] = thread[b]
      BY <2>1, ReadEffect
    <3>3. thread[a].next \in Nat
      BY DEF ThreadsOK, Thread
    <3> QED BY <2>1, <3>1, <3>2, <3>3 DEF ReadField, workflowVars
  <2>2. CASE EndRound(a)
    <3>1. thread'[a].at \in {"reading", "unmounting"} /\ thread'[a].next >= 1
      BY <2>2, EndRoundEffect
    <3> QED BY <2>2, <3>1, EndRoundEffect DEF EndRound, workflowVars
  <2>3. CASE Unmount(a)
    BY <2>3, SetAt DEF Unmount, workflowVars, Positions
  <2>4. CASE Report(a)
    BY <2>4, SetAt DEF Report, workflowVars, Go, Positions
  <2>5. CASE ReadRaises(a)
    BY <2>5, RaiseEffect DEF ReadRaises
  <2>6. CASE UnmountRaises(a)
    BY <2>6, RaiseEffect DEF UnmountRaises
  <2> QED BY <1>11, <2>1, <2>2, <2>3, <2>4, <2>5, <2>6 DEF ThreadStep
<1>12. CASE UNCHANGED vars
  BY <1>12 DEF vars, workflowVars
<1>13. CASE MountRaises
  <2>1. Head(untried) \in Type /\ Head(untried) # "cli"
    BY <1>13, ListFacts, TypeAssumption DEF MountRaises, RunOK
  <2>2. chosen' = None /\ chosen = None /\ thread' = thread
    BY <1>13 DEF MountRaises
  <2> QED BY <1>13, <2>1, <2>2, NoneFact DEF MountRaises
<1> QED BY <1>1, <1>2, <1>3, <1>4, <1>5, <1>6, <1>7, <1>8, <1>9, <1>10, <1>11, <1>12, <1>13
        DEF Next, WorkflowStep

\* A completed run has unmounted what it found.
LEMMA CompletedStep ==
  ASSUME RunOK, ThreadsOK, FoundOK, MountInv, CompletedLeavesNothing, [Next]_vars PROVE CompletedLeavesNothing'
<1>0. passed \ {None} = passed /\ passed' \ {None} = passed'
  BY RunStep, TypeAssumption DEF RunOK
<1> USE <1>0 DEF MountInv, CompletedLeavesNothing
<1>1. CASE Validate
  BY <1>1 DEF Validate, Go
<1>2. CASE TryType
  BY <1>2 DEF TryType
<1>3. CASE FinishMount
  BY <1>3 DEF FinishMount, Go
<1>4. CASE Poll
  BY <1>4 DEF Raise, Awaited, Poll, FailAttempt, Go, workflowVars
<1>5. CASE MountCli
  BY <1>5 DEF MountCli, CliUnchanged, Go
<1>6. CASE ShowVendor
  BY <1>6 DEF ShowVendor, CliUnchanged, Go
<1>7. CASE IdentifyCli
  BY <1>7 DEF IdentifyCli, CliUnchanged, Go
<1>8. CASE UnmountCli
  BY <1>8, NoneFact DEF UnmountCli, CliUnchanged, Go
<1>9. CASE GiveUp
  BY <1>9 DEF GiveUp, FailAttempt, Go
<1>10. CASE WorkersDie
  BY <1>10 DEF WorkersDie, workflowVars
<1>11. ASSUME NEW a \in Attempt, ThreadStep(a) PROVE CompletedLeavesNothing'
  <2>1. CASE ReadField(a)
    BY <2>1 DEF ReadField, workflowVars
  <2>2. CASE EndRound(a)
    BY <2>2 DEF EndRound, workflowVars
  <2>3. CASE Unmount(a)
    BY <2>3 DEF Unmount, workflowVars
  <2>4. CASE Report(a)
    BY <2>4 DEF Report, workflowVars, Go
  <2>5. CASE ReadRaises(a)
    BY <2>5, RaiseEffect DEF ReadRaises
  <2>6. CASE UnmountRaises(a)
    BY <2>6, RaiseEffect DEF UnmountRaises
  <2> QED BY <1>11, <2>1, <2>2, <2>3, <2>4, <2>5, <2>6 DEF ThreadStep
<1>12. CASE UNCHANGED vars
  BY <1>12 DEF vars, workflowVars
<1>13. CASE MountRaises
  BY <1>13 DEF MountRaises
<1> QED BY <1>1, <1>2, <1>3, <1>4, <1>5, <1>6, <1>7, <1>8, <1>9, <1>10, <1>11, <1>12, <1>13
        DEF Next, WorkflowStep

\* Refusals and unmountings are never forgotten.
LEMMA GrowStep ==
  ASSUME RunOK, ThreadsOK, FoundOK, MountInv, [Next]_vars PROVE unmounted \subseteq unmounted' /\ refused' >= refused /\ refused' \in Nat
<1> USE DEF RunOK
<1>1. CASE Validate
  BY <1>1 DEF Validate, Go
<1>2. CASE TryType
  BY <1>2 DEF TryType
<1>3. CASE FinishMount
  BY <1>3 DEF FinishMount, Go
<1>4. CASE Poll
  BY <1>4 DEF Poll, Raise, workflowVars
<1>5. CASE MountCli
  BY <1>5 DEF MountCli, CliUnchanged, Go
<1>6. CASE ShowVendor
  BY <1>6 DEF ShowVendor, CliUnchanged, Go
<1>7. CASE IdentifyCli
  BY <1>7 DEF IdentifyCli, CliUnchanged, Go
<1>8. CASE UnmountCli
  BY <1>8 DEF UnmountCli, CliUnchanged, Go
<1>9. CASE GiveUp
  BY <1>9 DEF GiveUp
<1>10. CASE WorkersDie
  BY <1>10 DEF WorkersDie, workflowVars
<1>11. ASSUME NEW a \in Attempt, ThreadStep(a) PROVE unmounted \subseteq unmounted' /\ refused' >= refused /\ refused' \in Nat
  <2>1. CASE ReadField(a)
    BY <2>1, ReadEffect DEF ReadField
  <2>2. CASE EndRound(a)
    BY <2>2 DEF EndRound
  <2>3. CASE Unmount(a)
    BY <2>3 DEF Unmount, Refuse
  <2>4. CASE Report(a)
    BY <2>4 DEF Report
  <2>5. CASE ReadRaises(a)
    BY <2>5 DEF ReadRaises, Refuse
  <2>6. CASE UnmountRaises(a)
    BY <2>6 DEF UnmountRaises, Refuse
  <2> QED BY <1>11, <2>1, <2>2, <2>3, <2>4, <2>5, <2>6 DEF ThreadStep
<1>12. CASE UNCHANGED vars
  BY <1>12 DEF vars, workflowVars
<1>13. CASE MountRaises
  BY <1>13 DEF MountRaises, Refuse
<1> QED BY <1>1, <1>2, <1>3, <1>4, <1>5, <1>6, <1>7, <1>8, <1>9, <1>10, <1>11, <1>12, <1>13
        DEF Next, WorkflowStep

\* Only a device that an attempt has unmounted cannot be read.
LEMMA UnmountedStep ==
  ASSUME RunOK, ThreadsOK, FoundOK, MountInv, UnmountedInv, [Next]_vars PROVE UnmountedInv'
<1> USE DEF MountInv, UnmountedInv
<1>1. CASE Validate
  BY <1>1 DEF Validate, Go
<1>2. CASE TryType
  BY <1>2 DEF TryType
<1>3. CASE FinishMount
  BY <1>3 DEF FinishMount, Go
<1>4. CASE Poll
  BY <1>4, PollEffect DEF Raise, Awaited, Poll, FailAttempt, Go, workflowVars, RunOK
<1>5. CASE MountCli
  BY <1>5 DEF MountCli, CliUnchanged, Go
<1>6. CASE ShowVendor
  BY <1>6 DEF ShowVendor, CliUnchanged, Go
<1>7. CASE IdentifyCli
  BY <1>7 DEF IdentifyCli, CliUnchanged, Go
<1>8. CASE UnmountCli
  BY <1>8 DEF UnmountCli, CliUnchanged, Go
<1>9. CASE GiveUp
  BY <1>9 DEF GiveUp, FailAttempt, Go
<1>10. CASE WorkersDie
  BY <1>10, DeathEffect DEF WorkersDie, workflowVars
<1>11. ASSUME NEW a \in Attempt, ThreadStep(a) PROVE UnmountedInv'
  <2>1. CASE ReadField(a)
    <3>1. thread'[a].at = "reading" /\ \A b \in Attempt \ {a} : thread'[b] = thread[b]
      BY <2>1, ReadEffect
    <3> QED BY <2>1, <3>1 DEF ReadField, workflowVars
  <2>2. CASE EndRound(a)
    BY <2>2, EndRoundEffect DEF EndRound, workflowVars, Positions
  <2>3. CASE Unmount(a)
    BY <2>3, SetAt DEF Unmount, workflowVars, Positions
  <2>4. CASE Report(a)
    BY <2>4, SetAt DEF Report, workflowVars, Go, Positions
  <2>5. CASE ReadRaises(a)
    BY <2>5, RaiseEffect DEF ReadRaises
  <2>6. CASE UnmountRaises(a)
    BY <2>6, RaiseEffect DEF UnmountRaises
  <2> QED BY <1>11, <2>1, <2>2, <2>3, <2>4, <2>5, <2>6 DEF ThreadStep
<1>12. CASE UNCHANGED vars
  BY <1>12 DEF vars, workflowVars
<1>13. CASE MountRaises
  BY <1>13 DEF MountRaises
<1> QED BY <1>1, <1>2, <1>3, <1>4, <1>5, <1>6, <1>7, <1>8, <1>9, <1>10, <1>11, <1>12, <1>13
        DEF Next, WorkflowStep

\* What excused a missing field excuses it for good, while the thread rests.
LEMMA Rests ==
  ASSUME RefusedInv, RunOK, refused' >= refused, refused' \in Nat, unmounted \subseteq unmounted',
         chosen' = chosen, NEW a \in Attempt,
         thread'[a] = thread[a], thread[a].round \in Nat
  PROVE  /\ thread'[a].at = "reading" => \A k \in 1..Len(Fields[chosen]) : Excused(a, k)'
         /\ thread'[a].at \in {"unmounting", "reporting"} =>
              thread'[a].found = AllFields' \/ unmounted' \ {a} # {} \/ refused' >= Rounds
<1>1. refused \in Nat /\ Rounds \in Nat
  BY BoundsAssumption DEF RunOK
<1>2. ASSUME thread[a].at = "reading", NEW k \in 1..Len(Fields[chosen]) PROVE Excused(a, k)'
  <2>1. Excused(a, k)
    BY <1>2 DEF RefusedInv
  <2>2. AskedFor(a, k)' = AskedFor(a, k) /\ AskedFor(a, k) \in Int
    BY DEF AskedFor
  <2> QED BY <1>1, <2>1, <2>2 DEF Excused
<1>3. thread[a].at \in {"unmounting", "reporting"} =>
        thread'[a].found = AllFields' \/ unmounted' \ {a} # {} \/ refused' >= Rounds
  BY <1>1 DEF RefusedInv, AllFields
<1> QED BY <1>2, <1>3

\* The same for a step that leaves all threads alone.
LEMMA AllRest ==
  ASSUME RefusedInv, RunOK, ThreadsOK, refused' >= refused, refused' \in Nat,
         unmounted \subseteq unmounted', chosen' = chosen,
         \A a \in Attempt : thread'[a] = thread[a] \/ thread'[a].at \in {"idle", "done", "raised", "lost"}
  PROVE  RefusedInv'
<1>1. \A a \in Attempt : thread[a].round \in Nat
  BY BoundsAssumption DEF ThreadsOK, Thread
<1>2. ASSUME NEW a \in Attempt, thread'[a].at = "reading"
      PROVE  \A k \in 1..Len(Fields[chosen]) : Excused(a, k)'
  BY <1>1, <1>2, Rests
<1>3. ASSUME NEW a \in Attempt, thread'[a].at \in {"unmounting", "reporting"}
      PROVE  thread'[a].found = AllFields' \/ unmounted' \ {a} # {} \/ refused' >= Rounds
  BY <1>1, <1>3, Rests
<1> QED BY <1>2, <1>3 DEF RefusedInv

\* A field that is missing was refused in every round so far, or had a cause.
LEMMA RefusedStep ==
  ASSUME RunOK, ThreadsOK, FoundOK, MountInv, UnmountedInv, RefusedInv, [Next]_vars
  PROVE  RefusedInv'
<1>0. /\ refused' >= refused /\ refused' \in Nat /\ unmounted \subseteq unmounted'
      /\ refused \in Nat /\ Rounds \in Nat \ {0}
      /\ \A b \in Attempt : thread[b].round \in Nat /\ thread[b].next \in Nat
  BY GrowStep, BoundsAssumption DEF RunOK, ThreadsOK, Thread
<1>1. CASE Validate
  BY <1>0, <1>1, AllRest DEF Validate, Go
<1>2. CASE TryType
  <2>1. \A a \in Attempt : thread'[a].at = "idle"
    BY <1>2 DEF TryType, MountInv
  <2> QED BY <2>1 DEF RefusedInv
<1>3. CASE FinishMount
  BY <1>0, <1>3, AllRest DEF FinishMount, Go
<1>4. CASE Poll
  <2>1. CASE chosen = None
    BY <1>0, <1>4, <2>1, PollEffect, AllRest
  <2>2. CASE chosen # None
    <3>0. PICK a \in Attempt : a = attempt
      BY DEF RunOK
    <3>1. /\ thread'[a].at = "reading" /\ thread'[a].round = 1
          /\ thread'[a].next = 1 /\ chosen' = chosen
          /\ \A b \in Attempt \ {a} : thread'[b] = thread[b]
      BY <1>4, <2>2, <3>0, PollEffect
    <3>2. \A k \in 1..Len(Fields[chosen]) : AskedFor(a, k)' = 0
      <4>1. Len(Fields[chosen]) \in Nat
        BY <2>2, FieldsAssumption DEF RunOK
      <4> QED BY <3>1, <4>1 DEF AskedFor
    <3>3. \A k \in 1..Len(Fields[chosen]) : Excused(a, k)'
      BY <1>0, <3>2 DEF Excused
    <3>4. ASSUME NEW b \in Attempt, thread'[b].at = "reading"
          PROVE  \A k \in 1..Len(Fields[chosen]) : Excused(b, k)'
      BY <1>0, <3>1, <3>3, <3>4, Rests
    <3>5. ASSUME NEW b \in Attempt, thread'[b].at \in {"unmounting", "reporting"}
          PROVE  thread'[b].found = AllFields' \/ unmounted' \ {b} # {} \/ refused' >= Rounds
      BY <1>0, <3>1, <3>5, Rests
    <3> QED BY <3>1, <3>4, <3>5 DEF RefusedInv
  <2> QED BY <2>1, <2>2
<1>5. CASE MountCli
  BY <1>0, <1>5, AllRest DEF MountCli, CliUnchanged, Go
<1>6. CASE ShowVendor
  BY <1>0, <1>6, AllRest DEF ShowVendor, CliUnchanged, Go
<1>7. CASE IdentifyCli
  BY <1>0, <1>7, AllRest DEF IdentifyCli, CliUnchanged, Go
<1>8. CASE UnmountCli
  BY <1>0, <1>8, AllRest DEF UnmountCli, CliUnchanged, Go
<1>9. CASE GiveUp
  BY <1>0, <1>9, AllRest DEF GiveUp, FailAttempt, Go
<1>10. CASE WorkersDie
  <2>1. chosen' = chosen
    BY <1>10 DEF WorkersDie, workflowVars
  <2>2. \A a \in Attempt : thread'[a] = thread[a] \/ thread'[a].at \in {"idle", "done", "raised", "lost"}
    BY <1>10, DeathEffect
  <2> QED BY <1>0, <2>1, <2>2, AllRest
<1>11. ASSUME NEW a \in Attempt, ThreadStep(a) PROVE RefusedInv'
  <2>0. ASSUME \A b \in Attempt \ {a} : thread'[b] = thread[b], chosen' = chosen,
               thread'[a].at = "reading" =>
                 \A k \in 1..Len(Fields[chosen]) : Excused(a, k)',
               thread'[a].at \in {"unmounting", "reporting"} =>
                 thread'[a].found = AllFields' \/ unmounted' \ {a} # {} \/ refused' >= Rounds
        PROVE  RefusedInv'
    <3>1. ASSUME NEW b \in Attempt, thread'[b].at = "reading"
          PROVE  \A k \in 1..Len(Fields[chosen]) : Excused(b, k)'
      BY <1>0, <2>0, <3>1, Rests
    <3>2. ASSUME NEW b \in Attempt, thread'[b].at \in {"unmounting", "reporting"}
          PROVE  thread'[b].found = AllFields' \/ unmounted' \ {b} # {} \/ refused' >= Rounds
      BY <1>0, <2>0, <3>2, Rests
    <3> QED BY <2>0, <3>1, <3>2 DEF RefusedInv
  <2>1. CASE ReadField(a)
    <3> DEFINE f == Fields[chosen][thread[a].next]
    <3>1. /\ \A b \in Attempt \ {a} : thread'[b] = thread[b]
          /\ thread'[a].at = "reading" /\ thread'[a].round = thread[a].round
          /\ thread'[a].next = thread[a].next + 1
          /\ \/ thread'[a].found = thread[a].found \cup {f} /\ refused' = refused
             \/ /\ thread'[a].found = thread[a].found
                /\ \/ (f \in thread[a].found \/ chosen \notin mounted) /\ refused' = refused
                   \/ refused' = refused + 1
      BY <2>1, ReadEffect
    <3>2. chosen' = chosen /\ unmounted' = unmounted /\ chosen # None /\ thread[a].at = "reading"
      BY <2>1 DEF ReadField, workflowVars, MountInv
    <3>3. a \notin unmounted
      BY <3>2 DEF UnmountedInv
    <3>4. ASSUME NEW k \in 1..Len(Fields[chosen]) PROVE Excused(a, k)'
      <4>1. Excused(a, k)
        BY <3>2 DEF RefusedInv
      <4>2. CASE k = thread[a].next
        <5>1. AskedFor(a, k) = thread[a].round - 1 /\ AskedFor(a, k)' = thread[a].round
          BY <1>0, <3>1, <4>2 DEF AskedFor
        <5>2. chosen \notin mounted => unmounted \ {a} # {}
          BY <3>2, <3>3 DEF UnmountedInv
        <5>3. CASE refused' = refused + 1
          BY <1>0, <3>1, <3>2, <4>1, <5>1, <5>3 DEF Excused
        <5>4. CASE refused' = refused
          BY <3>1, <3>2, <4>2, <5>2, <5>4, <1>0 DEF Excused
        <5> QED BY <3>1, <5>3, <5>4
      <4>3. CASE k # thread[a].next
        <5>1. AskedFor(a, k)' = AskedFor(a, k) /\ AskedFor(a, k) \in Int
          BY <1>0, <3>1, <4>3 DEF AskedFor
        <5>2. thread[a].found \subseteq thread'[a].found
          BY <3>1
        <5> QED BY <1>0, <3>2, <4>1, <5>1, <5>2 DEF Excused
      <4> QED BY <4>2, <4>3
    <3> QED BY <2>0, <3>1, <3>2, <3>4
  <2>2. CASE EndRound(a)
    <3>1. /\ chosen' = chosen /\ unmounted' = unmounted /\ refused' = refused
          /\ thread[a].at = "reading" /\ thread[a].next > Len(Fields[chosen])
      BY <2>2 DEF EndRound, workflowVars
    <3>2. Len(Fields[chosen]) \in Nat /\ chosen \in Type
      BY <3>1, FieldsAssumption DEF RunOK, MountInv
    <3>3. ASSUME NEW k \in 1..Len(Fields[chosen])
          PROVE  \/ Fields[chosen][k] \in thread[a].found \/ unmounted \ {a} # {}
                 \/ refused >= thread[a].round
      <4>1. AskedFor(a, k) = thread[a].round
        BY <1>0, <3>1, <3>2 DEF AskedFor
      <4> QED BY <3>1, <4>1 DEF RefusedInv, Excused
    <3>4. CASE thread'[a].at = "unmounting"
      <4>1. thread[a].found = AllFields \/ thread[a].round = Rounds
        BY <2>2, <3>4, EndRoundEffect
      <4>2. thread'[a].found = thread[a].found
        BY <2>2, EndRoundEffect
      <4>3. CASE thread[a].round = Rounds /\ ~(unmounted \ {a} # {}) /\ ~(refused >= Rounds)
        <5>1. AllFields \subseteq thread[a].found
          BY <3>2, <3>3, <4>3, FieldsAssumption DEF AllFields, ToSet
        <5>2. thread[a].found \subseteq AllFields
          BY DEF FoundOK
        <5> QED BY <2>0, <2>2, <3>1, <3>4, <4>2, <5>1, <5>2, EndRoundEffect DEF AllFields
      <4> QED BY <2>0, <2>2, <3>1, <3>4, <4>1, <4>2, <4>3, EndRoundEffect DEF AllFields
    <3>5. CASE thread'[a].at # "unmounting"
      <4>1. /\ thread'[a].at = "reading" /\ thread'[a].next = 1
            /\ thread'[a].round = thread[a].round + 1 /\ thread'[a].found = thread[a].found
        BY <2>2, <3>5, EndRoundEffect
      <4>2. ASSUME NEW k \in 1..Len(Fields[chosen]) PROVE Excused(a, k)'
        <5>1. AskedFor(a, k)' = thread[a].round
          BY <1>0, <4>1 DEF AskedFor
        <5> QED BY <1>0, <3>1, <3>3, <4>1, <5>1 DEF Excused
      <4> QED BY <2>0, <2>2, <3>1, <4>1, <4>2, EndRoundEffect
    <3> QED BY <3>4, <3>5
  <2>3. CASE Unmount(a)
    <3>1. /\ thread'[a].at = "reporting" /\ thread'[a].found = thread[a].found
          /\ \A b \in Attempt \ {a} : thread'[b] = thread[b]
      BY <2>3, SetAt DEF Unmount, Positions
    <3>2. chosen' = chosen /\ thread[a].at = "unmounting"
      BY <2>3 DEF Unmount, workflowVars
    <3>3. thread[a].found = AllFields \/ unmounted \ {a} # {} \/ refused >= Rounds
      BY <3>2 DEF RefusedInv
    <3> QED BY <1>0, <2>0, <3>1, <3>2, <3>3 DEF AllFields
  <2>4. CASE Report(a)
    <3>1. /\ thread'[a].at = "done"
          /\ \A b \in Attempt \ {a} : thread'[b] = thread[b]
      BY <2>4, SetAt DEF Report, Positions
    <3>2. chosen' = chosen
      BY <2>4 DEF Report, workflowVars, Go
    <3> QED BY <2>0, <3>1, <3>2
  <2>5. CASE ReadRaises(a)
    BY <2>0, <2>5, RaiseEffect DEF ReadRaises
  <2>6. CASE UnmountRaises(a)
    BY <2>0, <2>6, RaiseEffect DEF UnmountRaises
  <2> QED BY <1>11, <2>1, <2>2, <2>3, <2>4, <2>5, <2>6 DEF ThreadStep
<1>12. CASE UNCHANGED vars
  BY <1>0, <1>12, AllRest DEF vars, workflowVars
<1>13. CASE MountRaises
  BY <1>0, <1>13, AllRest DEF MountRaises
<1> QED BY <1>1, <1>2, <1>3, <1>4, <1>5, <1>6, <1>7, <1>8, <1>9, <1>10, <1>11, <1>12, <1>13
        DEF Next, WorkflowStep

\* A report stands as long as the attempt and the type do.
LEMMA Reported ==
  ASSUME MissingForCause, refused' >= refused, refused' \in Nat, refused \in Nat,
         Rounds \in Nat, unmounted \subseteq unmounted',
         report' = report, report # None => attempt' = attempt /\ chosen' = chosen
  PROVE  MissingForCause'
BY DEF MissingForCause, AllFields

\* What a report lacks, it lacks for a cause.
LEMMA CauseStep ==
  ASSUME RunOK, ThreadsOK, MountInv, UnmountedInv, RefusedInv, FoundOK, MissingForCause, [Next]_vars PROVE MissingForCause'
<1> USE DEF UnmountedInv
<1>0. /\ refused' >= refused /\ refused' \in Nat /\ unmounted \subseteq unmounted'
      /\ refused \in Nat /\ Rounds \in Nat
  BY GrowStep, BoundsAssumption DEF RunOK
<1>1. CASE Validate
  BY <1>0, <1>1, Reported DEF Validate, Go, workflowVars
<1>2. CASE TryType
  BY <1>0, <1>2, Reported DEF TryType
<1>3. CASE FinishMount
  BY <1>0, <1>3, Reported DEF FinishMount, Go, workflowVars
<1>4. CASE Poll
  BY <1>0, <1>4, Reported DEF Raise, Awaited, Poll, FailAttempt, Go, workflowVars
<1>5. CASE MountCli
  BY <1>0, <1>5, Reported DEF MountCli, CliUnchanged, Go, workflowVars
<1>6. CASE ShowVendor
  BY <1>0, <1>6, Reported DEF ShowVendor, CliUnchanged, Go, workflowVars
<1>7. CASE IdentifyCli
  BY <1>0, <1>7, Reported DEF IdentifyCli, CliUnchanged, Go, workflowVars
<1>8. CASE UnmountCli
  BY <1>0, <1>8, Reported DEF UnmountCli, CliUnchanged, Go, workflowVars
<1>9. CASE GiveUp
  BY <1>0, <1>9, Reported DEF GiveUp, FailAttempt, Go, workflowVars
<1>10. CASE WorkersDie
  BY <1>0, <1>10, Reported DEF WorkersDie, workflowVars
<1>11. ASSUME NEW a \in Attempt, ThreadStep(a) PROVE MissingForCause'
  <2>1. CASE ReadField(a)
    BY <1>0, <2>1, Reported DEF ReadField, workflowVars
  <2>2. CASE EndRound(a)
    BY <1>0, <2>2, Reported DEF EndRound, workflowVars
  <2>3. CASE Unmount(a)
    BY <1>0, <2>3, Reported DEF Unmount, workflowVars
  <2>4. CASE Report(a)
    <3>1. CASE Awaited(a)
      <4>1. thread[a].found = AllFields \/ unmounted \ {a} # {} \/ refused >= Rounds
        BY <2>4 DEF Report, RefusedInv
      <4>2. /\ report' = thread[a].found /\ attempt' = a /\ chosen' = chosen
            /\ UNCHANGED <<refused, unmounted>>
        BY <2>4, <3>1 DEF Report, Awaited, Go
      <4> QED BY <1>0, <4>1, <4>2 DEF MissingForCause, AllFields
    <3>2. CASE ~Awaited(a)
      BY <1>0, <2>4, <3>2, Reported DEF Report, workflowVars
    <3> QED BY <3>1, <3>2
  <2>5. CASE ReadRaises(a)
    BY <1>0, <2>5, Reported, RaiseEffect DEF ReadRaises
  <2>6. CASE UnmountRaises(a)
    BY <1>0, <2>6, Reported, RaiseEffect DEF UnmountRaises
  <2> QED BY <1>11, <2>1, <2>2, <2>3, <2>4, <2>5, <2>6 DEF ThreadStep
<1>12. CASE UNCHANGED vars
  BY <1>0, <1>12, Reported DEF vars, workflowVars
<1>13. CASE MountRaises
  BY <1>0, <1>13, Reported DEF MountRaises
<1> QED BY <1>1, <1>2, <1>3, <1>4, <1>5, <1>6, <1>7, <1>8, <1>9, <1>10, <1>11, <1>12, <1>13
        DEF Next, WorkflowStep

-----------------------------------------------------------------------------
\* Before the first step nothing is mounted and no thread works.
LEMMA InitOK == Init => IInv
<1> SUFFICES ASSUME Init PROVE IInv
  OBVIOUS
<1>1. RunOK
  BY TypeAssumption, BoundsAssumption DEF Init, RunOK, Stages, Attempt
<1>2. Idle \in Thread
  BY BoundsAssumption DEF Idle, Thread
<1>3. ThreadsOK /\ FoundOK
  BY <1>2 DEF Init, ThreadsOK, FoundOK, Idle
<1>4. MountInv
  BY DEF Init, MountInv, Idle
<1>5. UnmountedInv /\ RefusedInv
  BY DEF Init, UnmountedInv, RefusedInv, Idle
<1>6. CompletedLeavesNothing /\ MissingForCause
  BY DEF Init, CompletedLeavesNothing, MissingForCause
<1> QED BY <1>1, <1>3, <1>4, <1>5, <1>6, TypeParts DEF IInv

\* The same for the state after a step.
LEMMA TypePartsNext == RunOK' /\ ThreadsOK' /\ FoundOK' => TypeOK'
BY DEF TypeOK, ThreadsOK, FoundOK, RunOK

\* The invariant is kept by every step.
LEMMA InvStep == IInv /\ [Next]_vars => IInv'
<1> SUFFICES ASSUME IInv, [Next]_vars PROVE IInv'
  OBVIOUS
<1>1. RunOK /\ ThreadsOK /\ FoundOK /\ MountInv /\ UnmountedInv /\ RefusedInv
      /\ CompletedLeavesNothing /\ MissingForCause
  BY TypeParts DEF IInv
<1>2. RunOK' /\ ThreadsOK' /\ FoundOK'
  BY <1>1, RunStep, ThreadsStep, FoundStep
<1>3. MountInv' /\ UnmountedInv'
  BY <1>1, MountStep, UnmountedStep
<1>4. RefusedInv'
  BY <1>1, RefusedStep
<1>5. CompletedLeavesNothing' /\ MissingForCause'
  BY <1>1, CompletedStep, CauseStep
<1> QED BY <1>2, <1>3, <1>4, <1>5, TypePartsNext DEF IInv

\* The invariant holds in every state of a run.
THEOREM SpecIInv == Spec => []IInv
BY InitOK, InvStep, PTL DEF Spec

\* Every variable stays in its type, for any list of types and fields and any
\* number of rounds and retries.
THEOREM SpecTypeOK == Spec => []TypeOK
<1>1. IInv => TypeOK
  BY DEF IInv
<1> QED BY <1>1, SpecIInv, PTL

\* A run that completed has unmounted the device it found, however many
\* attempts were given up and whenever the worker process died
\* (identification_of_netconf_device unmounts before it reports).
THEOREM SpecCompletedLeavesNothing == Spec => []CompletedLeavesNothing
<1>1. IInv => CompletedLeavesNothing
  BY DEF IInv
<1> QED BY <1>1, SpecIInv, PTL

\* As long as fewer calls are refused than there are rounds, a report is
\* complete, unless an earlier attempt unmounted the device under it (the loop
\* of identification_of_netconf_device).
THEOREM SpecMissingForCause == Spec => []MissingForCause
<1>1. IInv => MissingForCause
  BY DEF IInv
<1> QED BY <1>1, SpecIInv, PTL
=============================================================================
