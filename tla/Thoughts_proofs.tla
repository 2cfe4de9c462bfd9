--------------------------- MODULE Thoughts_proofs ---------------------------
(***************************************************************************)
(* Machine-checked proofs about Thoughts, for any number of thoughts,      *)
(* processes, steps, restarts and interventions.                           *)
(*                                                                         *)
(* What is spoken for stays owed to a process on its way.  The argument    *)
(* follows that process: started, its claim in flight, dead but not yet    *)
(* reported; each of the ways out of these takes the thought off the list. *)
(* It needs to know that a process has one request in flight at most, or   *)
(* a later one could overwrite the claim that is owed.                     *)
(* A thought is done in two places, and each tells of it in the same step. *)
(***************************************************************************)
EXTENDS Thoughts, TLAPS

\* The types these proofs rest on; the order of the records plays no part in them.
ActorsOK == /\ pid \in [Ids -> Pids \union {NoPid}]
            /\ starting \subseteq Ids /\ sched \in Sched
            /\ procs \in [Pids -> Proc] /\ wire \in [Pids -> Requests]

\* A process that can act has nothing in flight.
OneRequest == \A p \in Pids :
    procs[p].pc \in {"started", "working", "leaving", "failing"} => wire[p] = "none"

\* A thought being started is a thought.
StartIsNamed == sched.at = "start" => sched.thought \in Ids

Inv == ActorsOK /\ OneRequest /\ StartIsNamed /\ StartingIsSpokenFor

LEMMA InvInit == Init => Inv
  BY DEF Init, Inv, ActorsOK, OneRequest, StartIsNamed, StartingIsSpokenFor, NoProc, Proc, ProcPc,
         Requests, Sched

\* Steps that touch the records only.
LEMMA InvRecords ==
    ASSUME Inv, UNCHANGED <<core, world>>, pid' \in [Ids -> Pids \union {NoPid}]
    PROVE  Inv'
  BY DEF Inv, ActorsOK, OneRequest, StartIsNamed, StartingIsSpokenFor, core, world

LEMMA InvScheduler == ASSUME Inv, SchedulerStep PROVE Inv'
<1> USE DEF Inv, ActorsOK, OneRequest, StartIsNamed, StartingIsSpokenFor, Sched, tally, world, core, disk
<1>1. CASE NextDuty
  <2> DEFINE ready == FirstReady({i \in Running : pid[i] = NoPid /\ steps[i] < MaxSteps}
                                 \intersect rested)
             spoken == starting \ Orphaned
  <2>1. ready \subseteq Ids
    BY DEF FirstReady, Running
  <2>2. /\ sched.at = "ask" /\ UNCHANGED world
        /\ pid' = [i \in Ids |-> IF i \in Orphaned THEN NoPid ELSE pid[i]]
        /\ \/ \E i \in ready : /\ starting' = spoken \union {i}
                               /\ sched' = [at |-> "start", thought |-> i]
           \/ /\ starting' = spoken
              /\ \E elsewhere \in {"ask", "turn", "pass"} : Go(elsewhere)
    BY <1>1 DEF NextDuty
  <2>3. pid' \in [Ids -> Pids \union {NoPid}]
    BY <2>2
  <2>4. ASSUME NEW i \in starting
        PROVE  \E p \in Pids : /\ procs[p].thought = i
                               /\ procs[p].pc \in {"started", "lost"} \/ wire[p] = "claim"
    BY <2>2
  <2> HIDE DEF ready
  <2>5. CASE \E i \in ready : starting' = spoken \union {i}
                              /\ sched' = [at |-> "start", thought |-> i]
    BY <2>1, <2>2, <2>3, <2>4, <2>5
  <2>6. CASE starting' = spoken /\ \E elsewhere \in {"ask", "turn", "pass"} : Go(elsewhere)
    BY <2>2, <2>3, <2>4, <2>6 DEF Go
  <2> QED  BY <2>2, <2>5, <2>6
<1>2. CASE SchedulerReturns
  BY <1>2 DEF SchedulerReturns, Go
<1>3. CASE NotSpawned
  BY <1>3 DEF NotSpawned, Failed, Go
<1>4. ASSUME NEW p \in Pids, Spawned(p) PROVE Inv'
  <2>1. /\ sched.at = "start" /\ sched.thought \in Ids /\ wire[p] = "none" /\ procs[p].pc = "none"
        /\ procs' = [procs EXCEPT ![p] = [pc |-> "started", thought |-> sched.thought]]
        /\ sched' = [at |-> "ask", thought |-> NoId] /\ UNCHANGED <<wire, starting, pid>>
    BY <1>4 DEF Spawned, Unused, Go
  <2>2. procs' \in [Pids -> Proc]
    BY <2>1 DEF Proc, ProcPc
  <2>3. StartingIsSpokenFor'
    <3> SUFFICES ASSUME NEW i \in starting
                 PROVE  \E q \in Pids : /\ procs'[q].thought = i
                                        /\ procs'[q].pc \in {"started", "lost"} \/ wire[q] = "claim"
      BY <2>1
    <3>1. CASE sched.thought = i
      BY <2>1, <3>1
    <3>2. CASE sched.thought # i
      BY <2>1, <3>2
    <3> QED  BY <3>1, <3>2
  <2> QED  BY <2>1, <2>2, <2>3
<1> QED  BY <1>1, <1>2, <1>3, <1>4 DEF SchedulerStep

\* A process that moves on keeps its thought.
LEMMA Moves ==
    ASSUME Inv, NEW p \in Pids, NEW next \in ProcPc, procs' = [procs EXCEPT ![p].pc = next]
    PROVE  /\ procs' \in [Pids -> Proc]
           /\ \A q \in Pids : /\ procs'[q].thought = procs[q].thought
                              /\ procs'[q].pc = IF q = p THEN next ELSE procs[q].pc
  BY DEF Inv, ActorsOK, Proc

LEMMA InvProcess == ASSUME Inv, NEW p \in Pids, ProcessStep(p) \/ WatchReports(p) PROVE Inv'
<1> USE DEF core, disk
<1>1. ASSUME NEW r \in Requests, Send(p, r),
             procs[p].pc = "working" \/ (procs[p].pc = "started" /\ r = "claim")
      PROVE  Inv'
  <2>1. /\ procs' = [procs EXCEPT ![p].pc = "waiting"] /\ wire' = [wire EXCEPT ![p] = r]
        /\ UNCHANGED <<pid, starting, sched>> /\ wire[p] = "none"
    BY <1>1 DEF Send, Inv, OneRequest
  <2>2. /\ procs' \in [Pids -> Proc]
        /\ \A q \in Pids : /\ procs'[q].thought = procs[q].thought
                           /\ procs'[q].pc = IF q = p THEN "waiting" ELSE procs[q].pc
    BY <2>1, Moves DEF ProcPc
  <2>3. wire' \in [Pids -> Requests] /\ \A q \in Pids : wire'[q] = IF q = p THEN r ELSE wire[q]
    BY <2>1 DEF Inv, ActorsOK
  <2> QED
    BY <1>1, <2>1, <2>2, <2>3
    DEF Inv, ActorsOK, OneRequest, StartIsNamed, StartingIsSpokenFor
<1>2. CASE Claim(p)
  BY <1>1, <1>2 DEF Claim, Requests
<1>3. ASSUME NEW r \in {"append", "finish", "end"}, Work(p, r) PROVE Inv'
  BY <1>1, <1>3 DEF Work, Requests
<1>4. CASE Leaves(p) \/ Dies(p)
  <2>1. PICK next \in {"none", "lost"} :
            /\ procs' = [procs EXCEPT ![p].pc = next]
            /\ next = "none" => procs[p].pc \in {"leaving", "orphan"}
            /\ UNCHANGED <<pid, starting, sched, wire>>
    BY <1>4 DEF Leaves, Dies
  <2>a. next \in ProcPc
    BY DEF ProcPc
  <2>2. /\ procs' \in [Pids -> Proc]
        /\ \A q \in Pids : /\ procs'[q].thought = procs[q].thought
                           /\ procs'[q].pc = IF q = p THEN next ELSE procs[q].pc
    BY <2>1, <2>a, Moves
  <2> QED
    BY <2>1, <2>2 DEF Inv, ActorsOK, OneRequest, StartIsNamed, StartingIsSpokenFor
<1>5. CASE WatchReports(p)
  <2> DEFINE i == procs[p].thought
  <2>1. /\ procs' = [procs EXCEPT ![p].pc = "none"] /\ UNCHANGED <<sched, wire>>
        /\ starting' = starting \ {i} /\ pid' = [pid EXCEPT ![i] = NoPid]
    BY <1>5 DEF WatchReports, Failed
  <2>2. /\ procs' \in [Pids -> Proc]
        /\ \A q \in Pids : /\ procs'[q].thought = procs[q].thought
                           /\ procs'[q].pc = IF q = p THEN "none" ELSE procs[q].pc
    BY <2>1, Moves DEF ProcPc
  <2>3. starting' \subseteq Ids /\ pid' \in [Ids -> Pids \union {NoPid}]
    BY <2>1 DEF Inv, ActorsOK
  <2>4. StartingIsSpokenFor'
    <3> SUFFICES ASSUME NEW j \in starting, j # i
                 PROVE  \/ sched.at = "start" /\ sched.thought = j
                        \/ \E q \in Pids : /\ procs'[q].thought = j
                                           /\ procs'[q].pc \in {"started", "lost"} \/ wire[q] = "claim"
      BY <2>1 DEF StartingIsSpokenFor
    <3> HIDE DEF i
    <3>1. CASE ~(sched.at = "start" /\ sched.thought = j)
      <4>1. PICK q \in Pids : /\ procs[q].thought = j
                              /\ procs[q].pc \in {"started", "lost"} \/ wire[q] = "claim"
        BY <3>1 DEF Inv, StartingIsSpokenFor
      <4>2. q # p
        BY <4>1 DEF i
      <4> QED  BY <2>2, <4>1, <4>2
    <3> QED  BY <3>1
  <2> QED
    BY <2>1, <2>2, <2>3, <2>4 DEF Inv, ActorsOK, OneRequest, StartIsNamed
<1> QED  BY <1>2, <1>3, <1>4, <1>5 DEF ProcessStep

\* An answered request is no longer owed; what it does to the list is up to the handler.
LEMMA Answered ==
    ASSUME Inv, NEW p \in Pids, NEW next \in {"working", "failing", "leaving"}, Answer(p, next),
           sched' = sched, pid' \in [Ids -> Pids \union {NoPid}],
           \/ starting' = starting /\ wire[p] # "claim"
           \/ starting' = starting \ {procs[p].thought}
    PROVE  Inv'
<1>1. /\ wire' \in [Pids -> Requests]
      /\ \A q \in Pids : wire'[q] = IF q = p THEN "none" ELSE wire[q]
  BY DEF Answer, Inv, ActorsOK, Requests
<1>2. next \in ProcPc
  BY DEF ProcPc
<1>3. /\ procs' \in [Pids -> Proc]
      /\ \A q \in Pids :
            /\ procs'[q].thought = procs[q].thought
            /\ procs'[q].pc = IF q = p /\ procs[p].pc = "waiting" THEN next ELSE procs[q].pc
  <2>1. CASE procs[p].pc = "waiting"
    <3>1. procs' = [procs EXCEPT ![p].pc = next]
      BY <2>1 DEF Answer
    <3>2. /\ procs' \in [Pids -> Proc]
          /\ \A q \in Pids : /\ procs'[q].thought = procs[q].thought
                             /\ procs'[q].pc = IF q = p THEN next ELSE procs[q].pc
      <4> HIDE DEF Answer
      <4> QED  BY <1>2, <3>1, Moves
    <3> QED  BY <2>1, <3>2
  <2>2. CASE procs[p].pc # "waiting"
    BY <2>2 DEF Answer, Inv, ActorsOK
  <2> QED  BY <2>1, <2>2
<1>4. StartingIsSpokenFor'
  <2> SUFFICES ASSUME NEW i \in starting', ~(sched.at = "start" /\ sched.thought = i)
               PROVE  \E q \in Pids : /\ procs'[q].thought = i
                                      /\ procs'[q].pc \in {"started", "lost"} \/ wire'[q] = "claim"
    BY DEF StartingIsSpokenFor
  <2>1. PICK q \in Pids : /\ procs[q].thought = i
                          /\ procs[q].pc \in {"started", "lost"} \/ wire[q] = "claim"
    BY DEF Inv, StartingIsSpokenFor
  <2>2. q # p \/ (starting' = starting /\ wire[p] # "claim")
    BY <2>1
  <2> QED  BY <1>1, <1>3, <2>1, <2>2
<1> QED
  BY <1>1, <1>3, <1>4 DEF Inv, ActorsOK, OneRequest, StartIsNamed

LEMMA InvAnswer == ASSUME Inv, NEW p \in Pids, HubAnswers(p) PROVE Inv'
<1>1. CASE HubClaim(p)
  <2>1. PICK next \in {"working", "failing"} : Answer(p, next)
    BY <1>1 DEF HubClaim
  <2>2. pid' \in [Ids -> Pids \union {NoPid}]
    BY <1>1 DEF HubClaim, Inv, ActorsOK
  <2>3. sched' = sched /\ starting' = starting \ {procs[p].thought}
    BY <1>1 DEF HubClaim
  <2> QED  BY <2>1, <2>2, <2>3, Answered
<1>2. CASE HubAppend(p)
  BY <1>2, Answered DEF HubAppend, core, Inv, ActorsOK
<1>3. CASE HubFinish(p)
  <2>1. pid' \in [Ids -> Pids \union {NoPid}]
    BY <1>3 DEF HubFinish, Act, Inv, ActorsOK
  <2> QED  BY <1>3, <2>1, Answered DEF HubFinish, core
<1>4. CASE HubEnd(p)
  <2>1. pid' \in [Ids -> Pids \union {NoPid}]
    BY <1>4 DEF HubEnd, EndStep, Inv, ActorsOK
  <2> QED  BY <1>4, <2>1, Answered DEF HubEnd
<1> QED  BY <1>1, <1>2, <1>3, <1>4 DEF HubAnswers

\* When the core forgets, nothing is spoken for and nothing is in flight.
LEMMA InvForget == ASSUME Inv, Forget, pid' \in [Ids -> Pids \union {NoPid}] PROVE Inv'
  BY DEF Inv, ActorsOK, OneRequest, StartIsNamed, StartingIsSpokenFor, Forget, Go, Proc, ProcPc, Requests, Sched

LEMMA InvStep == Inv /\ [Next]_vars => Inv'
<1> SUFFICES ASSUME Inv, [Next]_vars PROVE Inv'
  OBVIOUS
<1>1. CASE SchedulerStep
  BY <1>1, InvScheduler
<1>2. ASSUME NEW p \in Pids, ProcessStep(p) \/ WatchReports(p) PROVE Inv'
  BY <1>2, InvProcess
<1>3. ASSUME NEW p \in Pids, HubAnswers(p) PROVE Inv'
  BY <1>3, InvAnswer
<1>4. ASSUME NEW p \in Pids, DiesTelling(p) PROVE Inv'
  BY <1>4, InvForget DEF DiesTelling, EndStep, Inv, ActorsOK
<1>5. ASSUME NEW i \in Ids, Think(i) \/ GapPasses(i) PROVE Inv'
  BY <1>5, InvRecords DEF Think, NewThought, GapPasses, Inv, ActorsOK
<1>6. ASSUME NEW i \in Ids, NEW a \in {"pause", "resume", "kill", "finish"}, SomebodyActs(i, a)
      PROVE  Inv'
  BY <1>6, InvRecords DEF SomebodyActs, Act, Inv, ActorsOK
<1>7. CASE Restart
  BY <1>7, InvForget DEF Restart, disk, Inv, ActorsOK
<1>8. CASE UNCHANGED vars
  BY <1>8, InvRecords DEF vars, disk, Inv, ActorsOK
<1> QED  BY <1>1, <1>2, <1>3, <1>4, <1>5, <1>6, <1>7, <1>8 DEF Next

\* A thought that is spoken for always has a process on its way to claim it or to be reported
\* as failed: `starting` never holds a thought back for good.
THEOREM SpokenForHolds == Spec => []StartingIsSpokenFor
<1>1. Inv => StartingIsSpokenFor
  BY DEF Inv
<1> QED  BY <1>1, InvInit, InvStep, PTL DEF Spec

-----------------------------------------------------------------------------
\* Only a claim moves a record to another process.
LEMMA NoTakeoverStep ==
    ASSUME Inv, Next, NEW i \in Ids, pid[i] # NoPid, pid'[i] \notin {NoPid, pid[i]}
    PROVE  ~Alive(pid[i])
<1> USE DEF Inv, ActorsOK, disk
<1>1. ASSUME NEW p \in Pids, HubClaim(p) PROVE ~Alive(pid[i])
  BY <1>1 DEF HubClaim, MayClaim
<1>2. ~SchedulerStep
  BY DEF SchedulerStep, NextDuty, SchedulerReturns, NotSpawned, Spawned, Failed
<1>3. ASSUME NEW p \in Pids, ProcessStep(p) \/ WatchReports(p) PROVE FALSE
  BY <1>3 DEF ProcessStep, WatchReports, Failed, Claim, Work, Send, Leaves, Dies
<1>4. ASSUME NEW p \in Pids, HubAppend(p) \/ HubFinish(p) \/ HubEnd(p) \/ DiesTelling(p) PROVE FALSE
  BY <1>4 DEF HubAppend, HubFinish, Act, HubEnd, EndStep, DiesTelling
<1>5. ASSUME NEW j \in Ids, Think(j) \/ GapPasses(j) PROVE FALSE
  BY <1>5 DEF Think, NewThought, GapPasses
<1>6. ASSUME NEW j \in Ids, NEW a \in {"pause", "resume", "kill", "finish"}, SomebodyActs(j, a)
      PROVE  FALSE
  BY <1>6 DEF SomebodyActs, Act
<1>7. ~Restart
  BY DEF Restart
<1> QED  BY <1>1, <1>2, <1>3, <1>4, <1>5, <1>6, <1>7 DEF Next, HubAnswers

\* No process is robbed of its thought while it is alive, whatever is claimed and however
\* late.
THEOREM NobodyIsRobbed == Spec => NoTakeover
<1>1. Inv /\ [Next]_vars =>
        [\A i \in Ids : pid[i] # NoPid /\ pid'[i] \notin {NoPid, pid[i]} => ~Alive(pid[i])]_vars
  BY NoTakeoverStep
<1> QED  BY <1>1, InvInit, InvStep, PTL DEF Spec, NoTakeover
-----------------------------------------------------------------------------
(* The report of a finished thought.  A record becomes done in two places: *)
(* where somebody finishes it, and where the step that was its last is     *)
(* closed.  Both put the report in the inbox in the same step.             *)

\* The types this rests on, and that nobody is told less than before.
ReportsOK == /\ status \in [Ids -> Status] /\ steps \in [Ids -> Nat]
             /\ told \in [Ids -> 0..TellCap] /\ restarts \in Nat

ToldInv == ReportsOK /\ DoneIsTold

LEMMA ToldInit == Init => ToldInv
  BY DEF Init, ToldInv, ReportsOK, DoneIsTold, Status, Final, TellCap

\* Telling a set of thoughts reaches each of them and takes nothing from the others.
LEMMA Telling ==
    ASSUME NEW S, ReportsOK, Tell(S)
    PROVE  /\ told' \in [Ids -> 0..TellCap]
           /\ \A i \in Ids : told'[i] >= told[i] /\ (i \in S => told'[i] > 0)
  BY DEF Tell, ReportsOK, TellCap

\* Steps that finish nothing.
LEMMA NothingFinished ==
    ASSUME ToldInv, UNCHANGED <<told, restarts>>, steps' \in [Ids -> Nat], status' \in [Ids -> Status],
           \A i \in Ids : status'[i] = "done" => status[i] = "done"
    PROVE  ToldInv'
  BY DEF ToldInv, ReportsOK, DoneIsTold

LEMMA ToldAct ==
    ASSUME ToldInv, NEW i, NEW a \in {"pause", "resume", "kill", "finish"}, Act(i, a), restarts' = restarts
    PROVE  ToldInv'
<1> DEFINE S == IF a = "finish" THEN {i} ELSE {}
<1>1. status' \in [Ids -> Status] /\ steps' = steps
  BY DEF Act, ToldInv, ReportsOK, Status, Final
<1>2. \A j \in Ids : status'[j] = "done" => status[j] = "done" \/ j \in S
  BY DEF Act, ToldInv, ReportsOK
<1>3. Tell(S)
  BY DEF Act
<1>4. /\ told' \in [Ids -> 0..TellCap]
      /\ \A j \in Ids : told'[j] >= told[j] /\ (j \in S => told'[j] > 0)
  BY <1>3, Telling DEF ToldInv
<1> HIDE DEF S
<1> QED  BY <1>1, <1>2, <1>4 DEF ToldInv, ReportsOK, DoneIsTold, TellCap

\* What closing a step does to the records.
LEMMA StepEnds ==
    ASSUME ReportsOK, NEW i, EndStep(i)
    PROVE  /\ status' \in [Ids -> Status] /\ steps' \in [Ids -> Nat]
           /\ \A j \in Ids \ {i} : status'[j] = status[j]
<1>1. steps' \in [Ids -> Nat]
  <2>1. CASE i \in Ids
    <3>1. steps[i] + 1 \in Nat
      BY <2>1 DEF ReportsOK
    <3> QED  BY <2>1, <3>1 DEF EndStep, ReportsOK
  <2>2. CASE i \notin Ids
    BY <2>2 DEF EndStep, ReportsOK
  <2> QED  BY <2>1, <2>2
<1>2. "done" \in Status
  BY DEF Status, Final
<1>3. /\ status' \in [Ids -> Status]
      /\ \A j \in Ids \ {i} : status'[j] = status[j]
  BY <1>2 DEF EndStep, ReportsOK
<1> QED  BY <1>1, <1>3

LEMMA ToldAnswer == ASSUME ToldInv, NEW p \in Pids, HubAnswers(p) PROVE ToldInv'
<1>1. CASE HubClaim(p) \/ HubAppend(p)
  BY <1>1, NothingFinished DEF HubClaim, HubAppend, tally, ToldInv, ReportsOK
<1>2. CASE HubFinish(p)
  BY <1>2, ToldAct DEF HubFinish, tally
<1>3. CASE HubEnd(p)
  <2> DEFINE i == procs[p].thought
             S == IF status'[i] \in Final THEN {i} ELSE {}
  <2>1. EndStep(i) /\ Tell(S) /\ restarts' = restarts
    BY <1>3 DEF HubEnd, tally
  <2>2. /\ status' \in [Ids -> Status] /\ steps' \in [Ids -> Nat]
        /\ \A j \in Ids \ {i} : status'[j] = status[j]
    BY <2>1, StepEnds DEF ToldInv
  <2>3. /\ told' \in [Ids -> 0..TellCap]
        /\ \A j \in Ids : told'[j] >= told[j] /\ (j \in S => told'[j] > 0)
    BY <2>1, Telling DEF ToldInv
  <2>4. \A j \in Ids : status'[j] = "done" => status[j] = "done" \/ j \in S
    BY <2>2 DEF Final
  <2> HIDE DEF S, i
  <2> QED  BY <2>1, <2>2, <2>3, <2>4 DEF ToldInv, ReportsOK, DoneIsTold, TellCap
<1> QED  BY <1>1, <1>2, <1>3 DEF HubAnswers

LEMMA ToldScheduler == ASSUME ToldInv, SchedulerStep PROVE ToldInv'
<1> USE DEF tally, disk
<1>1. CASE NextDuty
  <2>1. /\ status' = [i \in Ids |-> IF i \in Orphaned THEN "paused" ELSE status[i]]
        /\ UNCHANGED <<steps, told, restarts>>
    BY <1>1 DEF NextDuty
  <2> QED  BY <2>1, NothingFinished DEF ToldInv, ReportsOK, Status
<1>2. CASE SchedulerReturns
  BY <1>2, NothingFinished DEF SchedulerReturns, ToldInv, ReportsOK
<1>3. CASE NotSpawned
  BY <1>3, NothingFinished DEF NotSpawned, Failed, ToldInv, ReportsOK, Status
<1>4. ASSUME NEW p \in Pids, Spawned(p) PROVE ToldInv'
  BY <1>4, NothingFinished DEF Spawned, ToldInv, ReportsOK
<1> QED  BY <1>1, <1>2, <1>3, <1>4 DEF SchedulerStep

LEMMA ToldStep == ToldInv /\ [Next]_vars => ToldInv'
<1> SUFFICES ASSUME ToldInv, [Next]_vars PROVE ToldInv'
  OBVIOUS
<1> USE DEF tally, disk
<1>1. CASE SchedulerStep
  BY <1>1, ToldScheduler
<1>2. ASSUME NEW p \in Pids, ProcessStep(p) PROVE ToldInv'
  BY <1>2, NothingFinished
  DEF ProcessStep, Claim, Work, Send, Leaves, Dies, ToldInv, ReportsOK
<1>3. ASSUME NEW p \in Pids, WatchReports(p) PROVE ToldInv'
  BY <1>3, NothingFinished DEF WatchReports, Failed, ToldInv, ReportsOK, Status
<1>4. ASSUME NEW p \in Pids, HubAnswers(p) PROVE ToldInv'
  BY <1>4, ToldAnswer
\* The exception: the core dies before it has told anybody, and has been restarted since.
<1>5. ASSUME NEW p \in Pids, DiesTelling(p) PROVE ToldInv'
  BY <1>5, StepEnds DEF DiesTelling, Forget, ToldInv, ReportsOK, DoneIsTold
<1>6. ASSUME NEW i \in Ids, Think(i) \/ GapPasses(i) PROVE ToldInv'
  BY <1>6, NothingFinished DEF Think, NewThought, GapPasses, ToldInv, ReportsOK, Status
<1>7. ASSUME NEW i \in Ids, NEW a \in {"pause", "resume", "kill", "finish"}, SomebodyActs(i, a)
      PROVE  ToldInv'
  BY <1>7, ToldAct DEF SomebodyActs
<1>8. CASE Restart
  BY <1>8 DEF Restart, Forget, ToldInv, ReportsOK, DoneIsTold
<1>9. CASE UNCHANGED vars
  BY <1>9, NothingFinished DEF vars, ToldInv, ReportsOK
<1> QED  BY <1>1, <1>2, <1>3, <1>4, <1>5, <1>6, <1>7, <1>8, <1>9 DEF Next

\* A thought that is done has reached the main thread with what it found, unless the core has
\* died: whoever finished it, and however many reports the end of a step makes of it.
THEOREM NoFindingIsLost == Spec => []DoneIsTold
<1>1. ToldInv => DoneIsTold
  BY DEF ToldInv
<1> QED  BY <1>1, ToldInit, ToldStep, PTL DEF Spec
=============================================================================
