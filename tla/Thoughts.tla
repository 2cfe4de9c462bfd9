------------------------------ MODULE Thoughts ------------------------------
(***************************************************************************)
(* The inner thoughts: the records of core/src/store/thoughts.rs, the      *)
(* hub's handlers for them (core/src/hub.rs), the scheduler that starts a  *)
(* process for one step at a time and the task that watches each process   *)
(* without being waited for (core/src/server.rs), the processes            *)
(* (harness/src/run.rs) and whoever pauses, resumes, kills or finishes     *)
(* them from outside.                                                      *)
(*                                                                         *)
(* The scheduler only asks when the brainstem is free (Turns, Agreement),  *)
(* so here its question about a thought is always answered "begin"; while  *)
(* it waits on a turn or a learning pass it asks nothing.                  *)
(*                                                                         *)
(* A definition whose name ends in Slip is the one after it with a mistake *)
(* a change to the code could make; no action uses it.                     *)
(***************************************************************************)
EXTENDS Integers, FiniteSets, Sequences

CONSTANTS
    Ids,          \* the thoughts that may come to exist
    Pids,         \* process ids; none is reused while something still names it
    NoId, NoPid,
    MaxSteps,     \* a thought's max_steps
    MaxThoughts,  \* cfg.max_thoughts
    MaxAttempts,  \* thoughts.rs MAX_ATTEMPTS
    MaxActs,      \* bound: how often somebody pauses, resumes, kills or finishes one
    MaxRestarts   \* bound: how often the core dies and is started again

TellCap == 2      \* bound: more reports than this are not told apart

ASSUME ThoughtsAssumption ==
    /\ NoId \notin Ids /\ NoPid \notin Pids
    /\ MaxSteps \in Nat \ {0} /\ MaxThoughts \in Nat /\ MaxAttempts \in Nat \ {0}
    /\ MaxActs \in Nat /\ MaxRestarts \in Nat

VARIABLES
    \* on disk
    status, steps, pid,
    attempts,     \* consecutive failures, not told apart past MaxAttempts
    order,        \* the records, most recently saved first
    rested,       \* those saved at least STEP_GAP ago
    told,         \* SignalThoughtDone signals put in the inbox
    \* in the core's memory
    starting,     \* spoken for: handed out and not yet claimed
    sched,        \* the scheduler
    \* processes, their request in flight to the hub, and the task watching them
    procs, wire,
    \* what the bounds count
    acts, restarts

disk  == <<status, steps, pid, attempts, order, rested>>
core  == <<starting, sched>>
world == <<procs, wire>>
tally == <<acts, restarts>>
vars  == <<disk, told, core, world, tally>>

-----------------------------------------------------------------------------
Final    == {"done", "killed"}
Status   == {"none", "running", "paused"} \union Final
ProcPc   == {"none", "started", "waiting", "working", "leaving", "failing", "lost", "orphan"}
Proc     == [pc : ProcPc, thought : Ids \union {NoId}]
Requests == {"none", "claim", "append", "finish", "end"}
Sched    == [at : {"ask", "start", "turn", "pass"}, thought : Ids \union {NoId}]

NoProc == [pc |-> "none", thought |-> NoId]

\* The types of the program's state.
TypeOK ==
    /\ status \in [Ids -> Status] /\ steps \in [Ids -> Nat]
    /\ pid \in [Ids -> Pids \union {NoPid}] /\ attempts \in [Ids -> 0..MaxAttempts]
    /\ order \in Seq(Ids) /\ rested \subseteq Ids /\ told \in [Ids -> 0..TellCap]
    /\ starting \subseteq Ids /\ sched \in Sched
    /\ procs \in [Pids -> Proc] /\ wire \in [Pids -> Requests]
    /\ acts \in Nat /\ restarts \in Nat

-----------------------------------------------------------------------------
(* The store.                                                              *)

Live == {"started", "waiting", "working", "leaving", "failing", "orphan"}

\* hub.rs pid_alive: a child that has not been waited for is still there.
Alive(p) == p # NoPid /\ procs[p].pc \in Live

Older(i, seq) == SelectSeq(seq, LAMBDA x : x # i)

\* Every save stamps the record, which puts it first in every listing.
Touch(i) == /\ order' = <<i>> \o Older(i, order)
            /\ rested' = rested \ {i}

Running == {i \in Ids : status[i] = "running"}

\* STEP_GAP has passed since the record was saved; an older one has rested longer.
GapPasses(i) ==
    /\ \E n \in DOMAIN order : /\ order[n] = i
                               /\ \A m \in DOMAIN order : m > n => order[m] \in rested
    /\ i \notin rested
    /\ rested' = rested \union {i}
    /\ UNCHANGED <<status, steps, pid, attempts, order, told, core, world, tally>>

\* The first listed thought that may be given a process, if there is one.
FirstReady(eligible) ==
    {i \in eligible : \E n \in DOMAIN order :
        /\ order[n] = i
        /\ \A m \in DOMAIN order : m < n => order[m] \notin eligible}

Tell(S) == told' = [i \in Ids |-> IF i \in S /\ told[i] < TellCap THEN told[i] + 1 ELSE told[i]]

-----------------------------------------------------------------------------
(* The mind and the mentor: hub.rs think and thought_action.               *)

\* The record a new thought starts with.
NewThought(i) ==
    /\ status' = [status EXCEPT ![i] = "running"]
    /\ steps' = [steps EXCEPT ![i] = 0]
    /\ attempts' = [attempts EXCEPT ![i] = 0]
    /\ pid' = [pid EXCEPT ![i] = NoPid]
    /\ Touch(i)

Think(i) ==
    /\ status[i] = "none"
    /\ Cardinality(Running) < MaxThoughts
    /\ NewThought(i)
    /\ UNCHANGED <<told, core, world, tally>>

\* What an action on a thought does, whoever asks for it.  A final thought is neither paused
\* nor resumed; killing one does not stop the process that is running it.
Act(i, action) ==
    /\ status[i] # "none"
    /\ action \in {"pause", "resume"} => status[i] \notin Final
    /\ status' = [status EXCEPT ![i] = CASE action = "pause"  -> "paused"
                                         [] action = "resume" -> "running"
                                         [] action = "kill"   -> "killed"
                                         [] action = "finish" -> "done"]
    /\ pid' = IF action = "resume" THEN pid ELSE [pid EXCEPT ![i] = NoPid]
    /\ Tell(IF action = "finish" THEN {i} ELSE {})
    /\ Touch(i)
    /\ UNCHANGED <<steps, attempts>>

SomebodyActs(i, action) ==
    /\ acts < MaxActs
    /\ acts' = acts + 1
    /\ Act(i, action)
    /\ UNCHANGED <<core, world, restarts>>

-----------------------------------------------------------------------------
(* The scheduler: the first part of hub.rs next_duty, and server.rs.       *)

\* A thought that claims a process which is no longer there is parked (thoughts.rs reap).
Orphaned == {i \in Running : pid[i] # NoPid /\ ~Alive(pid[i])}

Go(where) == sched' = [at |-> where, thought |-> NoId]

\* The one record store.ready returns is offered only if it is not spoken for; otherwise
\* the scheduler is given other work, or none.
NextDuty ==
    LET unclaimed == {i \in Running : pid[i] = NoPid /\ steps[i] < MaxSteps} \intersect rested
        spoken    == starting \ Orphaned
    IN
    /\ sched.at = "ask"
    /\ status' = [i \in Ids |-> IF i \in Orphaned THEN "paused" ELSE status[i]]
    /\ pid' = [i \in Ids |-> IF i \in Orphaned THEN NoPid ELSE pid[i]]
    /\ order' = SelectSeq(order, LAMBDA i : i \in Orphaned)
                \o SelectSeq(order, LAMBDA i : i \notin Orphaned)
    /\ rested' = rested \ Orphaned
    /\ \/ \E i \in FirstReady(unclaimed) \ spoken :
              /\ starting' = spoken \union {i}
              /\ sched' = [at |-> "start", thought |-> i]
       \/ /\ FirstReady(unclaimed) \subseteq spoken
          /\ starting' = spoken
          /\ \E elsewhere \in {"ask", "turn", "pass"} : Go(elsewhere)
    /\ UNCHANGED <<steps, attempts, told, world, tally>>

\* The turn or the learning pass it waited on is over.
SchedulerReturns ==
    /\ sched.at \in {"turn", "pass"}
    /\ Go("ask")
    /\ UNCHANGED <<disk, told, starting, world, tally>>

Unused(p) == procs[p].pc = "none" /\ wire[p] = "none" /\ \A i \in Ids : pid[i] # p

Spawned(p) ==
    /\ sched.at = "start" /\ Unused(p)
    /\ procs' = [procs EXCEPT ![p] = [pc |-> "started", thought |-> sched.thought]]
    /\ Go("ask")
    /\ UNCHANGED <<disk, told, starting, wire, tally>>

FailedSlip(i) ==      \* still spoken for
    /\ pid' = [pid EXCEPT ![i] = NoPid]
    /\ attempts' = [attempts EXCEPT ![i] = IF @ < MaxAttempts THEN @ + 1 ELSE @]
    /\ status' = [status EXCEPT ![i] = IF attempts[i] + 1 >= MaxAttempts THEN "paused" ELSE @]
    /\ Touch(i) /\ UNCHANGED <<steps, starting>>

FailedForeverSlip(i) ==      \* never parked
    /\ starting' = starting \ {i}
    /\ pid' = [pid EXCEPT ![i] = NoPid]
    /\ Touch(i) /\ UNCHANGED <<status, steps, attempts>>

\* hub.rs thought_failed: whatever its status was, enough failures park it.
Failed(i) ==
    /\ starting' = starting \ {i}
    /\ pid' = [pid EXCEPT ![i] = NoPid]
    /\ attempts' = [attempts EXCEPT ![i] = IF @ < MaxAttempts THEN @ + 1 ELSE @]
    /\ status' = [status EXCEPT ![i] = IF attempts[i] + 1 >= MaxAttempts THEN "paused" ELSE @]
    /\ Touch(i)
    /\ UNCHANGED steps

NotSpawned ==
    /\ sched.at = "start"
    /\ Failed(sched.thought)
    /\ Go("ask")
    /\ UNCHANGED <<told, world, tally>>

-----------------------------------------------------------------------------
(* A process: claim the thought, write to its trace, perhaps finish it,    *)
(* end the step.  It asks one thing at a time and fails on a refusal.      *)

Send(p, request) ==
    /\ wire' = [wire EXCEPT ![p] = request]
    /\ procs' = [procs EXCEPT ![p].pc = "waiting"]
    /\ UNCHANGED <<disk, told, core, tally>>

Claim(p) == procs[p].pc = "started" /\ Send(p, "claim")

Work(p, request) == /\ procs[p].pc = "working"
                    /\ request \in {"append", "finish", "end"}
                    /\ Send(p, request)

\* It ends well, and its watcher has nothing to say.
Leaves(p) ==
    /\ procs[p].pc \in {"leaving", "orphan"}
    /\ procs' = [procs EXCEPT ![p].pc = "none"]
    /\ UNCHANGED <<disk, told, core, wire, tally>>

\* It crashes, gives up, or is killed at its time limit; a request may still be on its way.
Dies(p) ==
    /\ procs[p].pc \in Live \ {"orphan"}
    /\ procs' = [procs EXCEPT ![p].pc = "lost"]
    /\ UNCHANGED <<disk, told, core, wire, tally>>

\* The watcher has read the last words of a process that ended badly, and tells the hub.
WatchReports(p) ==
    /\ procs[p].pc = "lost"
    /\ Failed(procs[p].thought)
    /\ procs' = [procs EXCEPT ![p].pc = "none"]
    /\ UNCHANGED <<told, sched, wire, tally>>

-----------------------------------------------------------------------------
(* The hub's answers.                                                      *)

\* The answer reaches the process if it is still waiting for it.
Answer(p, next) ==
    /\ wire' = [wire EXCEPT ![p] = "none"]
    /\ procs' = IF procs[p].pc = "waiting" THEN [procs EXCEPT ![p].pc = next] ELSE procs

MayClaimSlip(i, p) == status[i] = "running" /\ steps[i] < MaxSteps      \* a live one is robbed

\* It is running, has steps left, and no other process that is alive is running it.
MayClaim(i, p) == /\ status[i] = "running"
                  /\ steps[i] < MaxSteps
                  /\ pid[i] \in {NoPid, p} \/ ~Alive(pid[i])

HubClaim(p) ==
    LET i == procs[p].thought IN
    /\ wire[p] = "claim"
    /\ starting' = starting \ {i}
    /\ IF MayClaim(i, p)
       THEN /\ pid' = [pid EXCEPT ![i] = p] /\ Touch(i) /\ Answer(p, "working")
       ELSE UNCHANGED <<pid, order, rested>> /\ Answer(p, "failing")
    /\ UNCHANGED <<status, steps, attempts, told, sched, tally>>

\* Nothing is checked: any process may write to the trace of a thought.
HubAppend(p) ==
    /\ wire[p] = "append"
    /\ Touch(procs[p].thought)
    /\ Answer(p, "working")
    /\ UNCHANGED <<status, steps, pid, attempts, told, core, tally>>

HubFinish(p) ==
    /\ wire[p] = "finish"
    /\ Act(procs[p].thought, "finish")
    /\ Answer(p, "working")
    /\ UNCHANGED <<core, tally>>

\* hub.rs thought_end: the record that results, before anybody is told.
EndStep(i) ==
    /\ steps' = [steps EXCEPT ![i] = @ + 1]
    /\ attempts' = [attempts EXCEPT ![i] = 0]
    /\ pid' = [pid EXCEPT ![i] = NoPid]
    /\ status' = [status EXCEPT ![i] =
                     IF @ = "running" /\ steps[i] + 1 >= MaxSteps THEN "done" ELSE @]
    /\ Touch(i)

HubEndSlip(p) ==      \* only a thought that was finished before is reported
    LET i == procs[p].thought IN
    /\ wire[p] = "end"
    /\ starting' = starting \ {i}
    /\ EndStep(i)
    /\ Tell(IF status[i] \in Final THEN {i} ELSE {})
    /\ Answer(p, "leaving")
    /\ UNCHANGED <<sched, tally>>

\* The step is closed; if that leaves the thought finished, the main thread is told.
HubEnd(p) ==
    LET i == procs[p].thought IN
    /\ wire[p] = "end"
    /\ starting' = starting \ {i}
    /\ EndStep(i)
    /\ Tell(IF status'[i] \in Final THEN {i} ELSE {})
    /\ Answer(p, "leaving")
    /\ UNCHANGED <<sched, tally>>

-----------------------------------------------------------------------------
(* The core dies and is started again: its memory is lost, requests in     *)
(* flight too, and nobody watches the processes that were running.         *)

Forget ==
    /\ restarts < MaxRestarts
    /\ restarts' = restarts + 1
    /\ starting' = {}
    /\ Go("ask")
    /\ procs' = [p \in Pids |-> IF procs[p].pc \in Live THEN [procs[p] EXCEPT !.pc = "orphan"]
                                ELSE [procs[p] EXCEPT !.pc = "none"]]
    /\ wire' = [p \in Pids |-> "none"]
    /\ UNCHANGED acts

Restart == Forget /\ UNCHANGED <<disk, told>>

\* It died between saving the last step of a thought and putting the report in the inbox.
DiesTelling(p) ==
    /\ wire[p] = "end"
    /\ EndStep(procs[p].thought)
    /\ Forget
    /\ UNCHANGED told

-----------------------------------------------------------------------------
Init ==
    /\ status = [i \in Ids |-> "none"] /\ steps = [i \in Ids |-> 0]
    /\ pid = [i \in Ids |-> NoPid] /\ attempts = [i \in Ids |-> 0]
    /\ order = <<>> /\ rested = {} /\ told = [i \in Ids |-> 0]
    /\ starting = {} /\ sched = [at |-> "ask", thought |-> NoId]
    /\ procs = [p \in Pids |-> NoProc] /\ wire = [p \in Pids |-> "none"]
    /\ acts = 0 /\ restarts = 0

HubAnswers(p) == HubClaim(p) \/ HubAppend(p) \/ HubFinish(p) \/ HubEnd(p)

ProcessStep(p) == \/ Claim(p) \/ Leaves(p) \/ Dies(p)
                  \/ \E request \in {"append", "finish", "end"} : Work(p, request)

SchedulerStep == \/ NextDuty \/ SchedulerReturns \/ NotSpawned
                 \/ \E p \in Pids : Spawned(p)

Next == \/ SchedulerStep
        \/ \E p \in Pids : ProcessStep(p) \/ HubAnswers(p) \/ WatchReports(p) \/ DiesTelling(p)
        \/ \E i \in Ids : Think(i) \/ GapPasses(i)
        \/ \E i \in Ids, action \in {"pause", "resume", "kill", "finish"} : SomebodyActs(i, action)
        \/ Restart

Spec == Init /\ [][Next]_vars

\* The scheduler goes round, time passes, the hub answers, and every process ends (its
\* watcher kills it at thought_timeout) and is reported.
Fairness == /\ WF_vars(SchedulerStep)
            /\ \A i \in Ids : WF_vars(GapPasses(i))
            /\ \A p \in Pids : /\ WF_vars(HubAnswers(p))
                               /\ WF_vars(Leaves(p) \/ Dies(p))
                               /\ WF_vars(WatchReports(p))

FairSpec == Spec /\ Fairness

-----------------------------------------------------------------------------
(* Properties.                                                             *)

\* Whatever is spoken for has a process on its way that will claim it or be reported as
\* failed, so `starting` never holds a thought back for good (hub.rs next_duty).
StartingIsSpokenFor ==
    \A i \in starting :
        \/ sched.at = "start" /\ sched.thought = i
        \/ \E p \in Pids : /\ procs[p].thought = i
                           /\ procs[p].pc \in {"started", "lost"} \/ wire[p] = "claim"

\* A finished thought has reached the main thread with what it found, however it came to be
\* finished, as long as the core has not died.
DoneIsTold == restarts = 0 => \A i \in Ids : status[i] = "done" => told[i] > 0

\* A thought is never taken over from a process that is alive: its record goes from one
\* process to another only past the death of the first.
NoTakeover ==
    [][\A i \in Ids : pid[i] # NoPid /\ pid'[i] \notin {NoPid, pid[i]} => ~Alive(pid[i])]_vars

\* A running thought is finished, parked or set aside in the end: neither processes that keep
\* dying, nor a lost claim, nor somebody who pauses and resumes it leaves it running for ever.
\* The exception is the code's own: resumed after its last step was spent, it stays running
\* and is never given a process again (thoughts.rs ready).
EveryThoughtSettles ==
    \A i \in Ids : status[i] = "running" ~> status[i] # "running" \/ steps[i] >= MaxSteps

\* thoughts.rs:4 says each thought reaches back with the summary it finishes on, and the
\* core is meant to die at any moment.
NoneUntold == \A i \in Ids : status[i] = "done" => told[i] > 0

\* docs/mind.html:31 says finishing is "one signal to the main thread".
ToldOnce == \A i \in Ids : told[i] <= 1

\* thoughts.rs:36 says a finished thought is never restarted.
FinalIsFinal == [][\A i \in Ids : status[i] \in Final => status'[i] \in Final]_vars

\* hub.rs:655 says it is still one process per thought.
OneProcess == \A i \in Ids :
    Cardinality({p \in Pids : procs[p].thought = i /\ procs[p].pc = "working"}) <= 1

\* docs/mind.html:36 says at most max_thoughts run at once.
AtMostMax == Cardinality(Running) <= MaxThoughts
=============================================================================
