------------------------- MODULE DeviceIdentification -------------------------
(* One run of the workflow Device_identification: what is mounted on the way  *)
(* to finding out what a device is, and whether it is unmounted again.  Runs  *)
(* do not meet: each mounts under a name of its own.                          *)
(*                                                                            *)
(* The task that identifies a NETCONF device polls it for a while and may be  *)
(* given up by Conductor, which starts another attempt while the thread of    *)
(* the first goes on; it may also be lost when the worker process dies.       *)
(* Mounts and reads are answered by UniConfig, which is not in the repository.*)
EXTENDS Naturals, Sequences, SequencesExt

CONSTANTS
  TypeOrder,   \* types of NETCONF devices in the order they are tried
  Fields,      \* per type: what is asked of a device, in order
  None,
  Rounds,      \* how often a device is asked for what it has not told
  MaxRetries,  \* further attempts at identifying it
  Port,        \* ports the workflow may be started with
  MaxRefused,  \* bound on the calls that are refused or raise without need
  MaxDeaths    \* bound on deaths of the worker process

Type    == ToSet(TypeOrder)
Field   == UNION {ToSet(Fields[k]) : k \in Type}
Attempt == 1..(MaxRetries + 1)

ASSUME TypeAssumption == TypeOrder \in Seq(Type) /\ None \notin Type /\ "cli" \notin Type
ASSUME FieldsAssumption ==
  \A k \in Type : Fields[k] \in Seq(Field) /\ "version" \in ToSet(Fields[k])
ASSUME BoundsAssumption ==
  Rounds \in Nat \ {0} /\ MaxRetries \in Nat /\ MaxRefused \in Nat /\ MaxDeaths \in Nat

VARIABLES
  port,      \* input of the run
  stage,     \* the task that is due, or how the run ended
  untried,   \* types the mounting task has yet to try
  chosen,    \* the type it found, or None
  mounted,   \* mount points of this run in UniConfig
  attempt,   \* the attempt at identifying that Conductor waits for
  thread,    \* per attempt: the thread that works on it
  report,    \* fields that the completed identification reported, or None
  refused,   \* calls refused, or ended in an exception, without need
  deaths,
  \* History variables, read by no guard.
  passed,    \* types that were mounted and did not tell their version at once
  stuck,     \* mount points whose unmounting was refused
  unmounted  \* attempts that have unmounted the device

workflowVars == <<port, stage, untried, chosen, passed>>
vars == <<workflowVars, mounted, attempt, thread, report, refused, deaths,
          stuck, unmounted>>

Stages == {"validate", "mount_netconf", "identify_netconf", "mount_cli", "show",
           "identify_cli", "unmount_cli", "join", "COMPLETED", "FAILED"}

\* A thread: next is the position in Fields of what it asks for next.
Thread == [at : {"idle", "reading", "unmounting", "reporting", "done", "raised", "lost"},
           found : SUBSET Field, round : 0..Rounds, next : Nat]
Idle == [at |-> "idle", found |-> {}, round |-> 0, next |-> 1]

AllFields == ToSet(Fields[chosen])

TypeOK ==
  /\ port \in Port
  /\ stage \in Stages
  /\ untried \in Seq(Type)
  /\ chosen \in Type \cup {None}
  /\ mounted \subseteq Type \cup {"cli"}
  /\ attempt \in Attempt
  /\ thread \in [Attempt -> Thread]
  /\ \A a \in Attempt : thread[a].found \subseteq IF chosen = None THEN {} ELSE AllFields
  /\ refused \in 0..MaxRefused
  /\ deaths \in 0..MaxDeaths
  /\ passed \subseteq Type
  /\ stuck \subseteq Type
  /\ unmounted \subseteq Attempt

Init ==
  /\ port \in Port
  /\ stage = "validate"
  /\ untried = TypeOrder
  /\ chosen = None
  /\ mounted = {}
  /\ attempt = 1
  /\ thread = [a \in Attempt |-> Idle]
  /\ report = None
  /\ refused = 0
  /\ deaths = 0
  /\ passed = {}
  /\ stuck = {}
  /\ unmounted = {}

-----------------------------------------------------------------------------
(* The workflow *)

\* A number begins with the digits 10 or 17.
ValidPort(p) == \E k \in 0..3 : p \div (10 ^ k) \in {10, 17}

Go(next) == stage' = next /\ UNCHANGED <<port, untried, chosen, passed>>

Refuse == refused < MaxRefused /\ refused' = refused + 1

Validate ==
  /\ stage = "validate"
  /\ Go(IF ~ValidPort(port) THEN "FAILED"
        ELSE IF port >= 17000 THEN "mount_netconf" ELSE "mount_cli")
  /\ UNCHANGED <<mounted, attempt, thread, report, refused, deaths, stuck, unmounted>>

\* Mutant of TryType: the next type is tried although this one answered.
TryType_NoBreak ==
  /\ stage = "mount_netconf" /\ untried # <<>>
  /\ LET k == Head(untried) IN
     \/ UNCHANGED <<mounted, chosen, passed>>
     \/ mounted' = mounted \cup {k} /\ chosen' = k /\ UNCHANGED passed
     \/ mounted' = mounted \cup {k} /\ passed' = passed \cup {k} /\ UNCHANGED chosen
  /\ untried' = Tail(untried)
  /\ UNCHANGED <<port, stage, attempt, thread, report, refused, deaths, stuck, unmounted>>

\* A type is tried: the mount is refused, or the version can be read and no
\* other type is tried, or it cannot be read, and nobody unmounts the device.
TryType ==
  /\ stage = "mount_netconf" /\ untried # <<>>
  /\ LET k == Head(untried) IN
     \/ UNCHANGED <<mounted, chosen, passed>> /\ untried' = Tail(untried)
     \/ /\ mounted' = mounted \cup {k} /\ chosen' = k
        /\ untried' = <<>> /\ UNCHANGED passed
     \/ /\ mounted' = mounted \cup {k} /\ passed' = passed \cup {k}
        /\ untried' = Tail(untried) /\ UNCHANGED chosen
  /\ UNCHANGED <<port, stage, attempt, thread, report, refused, deaths, stuck, unmounted>>

\* A mount or the reading of the version ends in an exception, or with the
\* process, with the type mounted or not: Conductor starts the task again, which
\* tries all types, or gives it up.
MountRaises ==
  /\ stage = "mount_netconf" /\ untried # <<>> /\ Refuse
  /\ \/ UNCHANGED <<mounted, passed>>
     \/ LET k == Head(untried) IN mounted' = mounted \cup {k} /\ passed' = passed \cup {k}
  /\ \/ untried' = TypeOrder /\ UNCHANGED stage
     \/ stage' = "FAILED" /\ UNCHANGED untried
  /\ UNCHANGED <<port, chosen, attempt, thread, report, deaths, stuck, unmounted>>

\* The mounting task completes whether or not it found a device.
FinishMount ==
  /\ stage = "mount_netconf" /\ untried = <<>>
  /\ Go("identify_netconf")
  /\ UNCHANGED <<mounted, attempt, thread, report, refused, deaths, stuck, unmounted>>

-----------------------------------------------------------------------------
(* The attempts at identifying a NETCONF device *)

\* An attempt has failed: the next one is due, unless it was the last.
FailAttempt ==
  /\ attempt' = IF attempt <= MaxRetries THEN attempt + 1 ELSE attempt
  /\ Go(IF attempt <= MaxRetries THEN stage ELSE "FAILED")

Awaited(a) == stage = "identify_netconf" /\ a = attempt

\* An exception ends the thread where it stands.  Conductor fails the attempt
\* if it is the one it waits for.
Raise(a) ==
  /\ thread' = [thread EXCEPT ![a].at = "raised"]
  /\ IF Awaited(a) THEN FailAttempt ELSE UNCHANGED <<workflowVars, attempt>>

\* A thread takes the attempt up.  Without a device type it raises KeyError.
Poll ==
  /\ stage = "identify_netconf" /\ thread[attempt].at = "idle"
  /\ IF chosen = None
     THEN Raise(attempt)
     ELSE /\ thread' = [thread EXCEPT ![attempt] =
               [at |-> "reading", found |-> {"version"}, round |-> 1, next |-> 1]]
          /\ UNCHANGED <<workflowVars, attempt>>
  /\ UNCHANGED <<mounted, report, refused, deaths, stuck, unmounted>>

\* A field that is missing is asked for.  The device answers only while it is
\* mounted.
ReadField(a) ==
  /\ thread[a].at = "reading" /\ thread[a].next <= Len(Fields[chosen])
  /\ LET f == Fields[chosen][thread[a].next] IN
     \/ /\ f \notin thread[a].found /\ chosen \in mounted
        /\ thread' = [thread EXCEPT ![a].next = @ + 1, ![a].found = @ \cup {f}]
        /\ UNCHANGED refused
     \/ /\ IF f \notin thread[a].found /\ chosen \in mounted THEN Refuse
                                                         ELSE UNCHANGED refused
        /\ thread' = [thread EXCEPT ![a].next = @ + 1]
  /\ UNCHANGED <<workflowVars, mounted, attempt, report, deaths, stuck, unmounted>>

\* A read ends in an exception, or the answer to it has an empty body, which has
\* no first value: the thread ends, and the device stays mounted.
ReadRaises(a) ==
  /\ thread[a].at = "reading" /\ thread[a].next <= Len(Fields[chosen])
  /\ Fields[chosen][thread[a].next] \notin thread[a].found
  /\ Refuse /\ Raise(a)
  /\ UNCHANGED <<mounted, report, deaths, stuck, unmounted>>

\* Mutants of NextRound: there is only one round; there is a round too many; an
\* attempt that missed a field reports without unmounting the device.
NextRound_Once(a) == [thread[a] EXCEPT !.at = "unmounting"]
NextRound_OneMore(a) ==
  IF thread[a].found = AllFields \/ thread[a].round > Rounds
  THEN [thread[a] EXCEPT !.at = "unmounting"]
  ELSE [thread[a] EXCEPT !.round = @ + 1, !.next = 1]
NextRound_Returns(a) ==
  IF thread[a].found = AllFields THEN [thread[a] EXCEPT !.at = "unmounting"]
  ELSE IF thread[a].round = Rounds THEN [thread[a] EXCEPT !.at = "reporting"]
  ELSE [thread[a] EXCEPT !.round = @ + 1, !.next = 1]

\* The thread after a round: it leaves the loop when nothing is missing or
\* the rounds are used up.
NextRound(a) ==
  IF thread[a].found = AllFields \/ thread[a].round = Rounds
  THEN [thread[a] EXCEPT !.at = "unmounting"]
  ELSE [thread[a] EXCEPT !.round = @ + 1, !.next = 1]

EndRound(a) ==
  /\ thread[a].at = "reading" /\ thread[a].next > Len(Fields[chosen])
  /\ thread' = [thread EXCEPT ![a] = NextRound(a)]
  /\ UNCHANGED <<workflowVars, mounted, attempt, report, refused, deaths, stuck, unmounted>>

\* Nobody looks at whether the device could be unmounted.
Unmount(a) ==
  /\ thread[a].at = "unmounting"
  /\ thread' = [thread EXCEPT ![a].at = "reporting"]
  /\ \/ /\ mounted' = mounted \ {chosen}
        /\ unmounted' = unmounted \cup {a}
        /\ UNCHANGED <<refused, stuck>>
     \/ /\ Refuse /\ stuck' = stuck \cup {chosen}
        /\ UNCHANGED <<mounted, unmounted>>
  /\ UNCHANGED <<workflowVars, attempt, report, deaths>>

\* The unmounting ends in an exception, with the device unmounted or not.
UnmountRaises(a) ==
  /\ thread[a].at = "unmounting" /\ Refuse /\ Raise(a)
  /\ \/ UNCHANGED <<mounted, unmounted>>
     \/ mounted' = mounted \ {chosen} /\ unmounted' = unmounted \cup {a}
  /\ UNCHANGED <<report, deaths, stuck>>

\* Conductor takes the report of the attempt it waits for, and no other.
Report(a) ==
  /\ thread[a].at = "reporting"
  /\ thread' = [thread EXCEPT ![a].at = "done"]
  /\ IF Awaited(a) THEN report' = thread[a].found /\ Go("COMPLETED")
                   ELSE UNCHANGED <<workflowVars, report>>
  /\ UNCHANGED <<mounted, attempt, refused, deaths, stuck, unmounted>>

\* The attempt does not answer in time.
GiveUp ==
  /\ stage = "identify_netconf"
  /\ thread[attempt].at \in {"reading", "unmounting", "reporting", "lost"}
  /\ FailAttempt
  /\ UNCHANGED <<mounted, thread, report, refused, deaths, stuck, unmounted>>

Works(a) == thread[a].at \in {"reading", "unmounting", "reporting"}

\* The worker process dies with all its threads, and is started again.
WorkersDie ==
  /\ deaths < MaxDeaths /\ \E a \in Attempt : Works(a)
  /\ deaths' = deaths + 1
  /\ thread' = [a \in Attempt |->
                  IF Works(a) THEN [thread[a] EXCEPT !.at = "lost"] ELSE thread[a]]
  /\ UNCHANGED <<workflowVars, mounted, attempt, report, refused, stuck, unmounted>>

-----------------------------------------------------------------------------
(* The branch for devices with a command line: every task of it may fail, and *)
(* with it the run *)

CliUnchanged == UNCHANGED <<attempt, thread, report, refused, deaths, stuck, unmounted>>

MountCli ==
  /\ stage = "mount_cli"
  /\ \/ Go("show") /\ mounted' = mounted \cup {"cli"}
     \/ Go("FAILED") /\ UNCHANGED mounted
  /\ CliUnchanged

\* The answer to "show" tells the vendor.  For an unknown one the decision has
\* no case; what the exclusive join of tasks that never ran does, go on or
\* wait, is not known here.
ShowVendor ==
  /\ stage = "show"
  /\ \E next \in {"identify_cli", "unmount_cli", "join", "FAILED"} : Go(next)
  /\ UNCHANGED mounted /\ CliUnchanged

\* Reads the answer of the device; a Cisco device without a version in the
\* expected form ends the task in an exception.
IdentifyCli ==
  /\ stage = "identify_cli"
  /\ Go("unmount_cli") \/ Go("FAILED")
  /\ UNCHANGED mounted /\ CliUnchanged

UnmountCli ==
  /\ stage = "unmount_cli"
  /\ \/ Go("COMPLETED") /\ mounted' = mounted \ {"cli"}
     \/ Go("FAILED") /\ UNCHANGED mounted
  /\ CliUnchanged

-----------------------------------------------------------------------------
ThreadStep(a) ==
  \/ ReadField(a) \/ ReadRaises(a) \/ EndRound(a)
  \/ Unmount(a) \/ UnmountRaises(a) \/ Report(a)

WorkflowStep ==
  \/ Validate \/ TryType \/ MountRaises \/ FinishMount \/ Poll
  \/ MountCli \/ ShowVendor \/ IdentifyCli \/ UnmountCli

Next == WorkflowStep \/ GiveUp \/ WorkersDie \/ \E a \in Attempt : ThreadStep(a)

Spec == Init /\ [][Next]_vars

\* Conductor goes on with the run and notices an attempt that does not answer;
\* a thread that works goes on, also after its attempt was given up.
Fairness ==
  /\ WF_vars(WorkflowStep)
  /\ WF_vars(GiveUp)
  /\ \A a \in Attempt : WF_vars(ThreadStep(a))

FairSpec == Spec /\ Fairness

-----------------------------------------------------------------------------
(* Properties *)

\* A run that completed has left nothing mounted, but for types that it passed
\* over and a device whose unmounting was refused: also when attempts were
\* given up or raised, or the worker process died, on the way.
CompletedLeavesNothing ==
  stage = "COMPLETED" => mounted \subseteq (passed \ {chosen}) \cup stuck

\* As long as fewer calls are refused than there are rounds, a report lacks a
\* field of the device only because an earlier attempt, given up by Conductor or
\* without an answer to its unmounting, unmounted the device under the one that
\* reports.
MissingForCause ==
  (report # None /\ refused < Rounds) =>
    report = AllFields \/ unmounted \ {attempt} # {}

\* A NETCONF device that was found is unmounted in the end, also when the run
\* fails: it takes one attempt, given up or not, that gets to its end.  It stays
\* mounted only when its unmounting was refused or every attempt ended in an
\* exception or with its process.
FoundIsUnmounted ==
  chosen # None ~>
    \/ chosen \notin mounted \/ chosen \in stuck
    \/ \A a \in Attempt : thread[a].at \in {"raised", "lost"}
=============================================================================
