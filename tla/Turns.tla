------------------------------- MODULE Turns -------------------------------
(***************************************************************************)
(* The conscious thread of the creature: the hub's handlers for turns      *)
(* (core/src/hub.rs), the scheduler that starts and watches one process at *)
(* a time (core/src/server.rs), the connection of each turn process        *)
(* (core/src/conn.rs), the inbox directory the signals wait in             *)
(* (core/src/store/inbox.rs), the mentor who speaks, interrupts and quits, *)
(* the brain that comes and goes, and the crash and restart of the core.   *)
(*                                                                         *)
(* The hub is one task whose handlers never await, so each is one action.  *)
(* Everything else is asynchronous: a request waits in `wire` between the  *)
(* process that sends it and the hub, and its reply between the hub and    *)
(* the connection's task, so a dead process may still be heard from.       *)
(*                                                                         *)
(* A definition whose name ends in Slip is the one after it with a mistake *)
(* a change to the code could make; no action uses it.                     *)
(***************************************************************************)
EXTENDS Brainstem, FiniteSets

CONSTANTS
    Human,        \* messages and commands a person gives
    Notes,        \* notes to itself and reports of finished thoughts
    Alarms,       \* alarms it set
    Nudges,       \* nudges of its own curiosity
    NoTurn,       \* the hub's `active: None`
    MaxAttempts,  \* hub.rs MAX_ATTEMPTS
    NapMax,       \* cfg.nap_max_samples
    MaxRounds,    \* cfg.max_tool_rounds: messages one process may write
    MaxTurns,     \* bound: turn ids the clock may issue
    MaxRestarts   \* bound: how often the core may go away

Signals  == Human \union Notes \union Alarms \union Nudges
TurnIds  == 1..MaxTurns
NoId     == 0

\* SignalKind::priority, lower first.
Rank(s) == CASE s \in Human  -> 0
             [] s \in Notes  -> 1
             [] s \in Alarms -> 2
             [] OTHER        -> 3

\* hub.rs Active; `by` is the process that claimed it, named by the turn it was spawned for.
Active == [id : TurnIds, epoch : Nat, sig : Signals, claimed : BOOLEAN, by : TurnIds \union {NoId}]

\* A request in flight, and what became of it.
Request == [op : {"claim", "append", "end"}, turn : TurnIds \union {NoId}, epoch : Nat,
            phase : {"idle", "asked", "granted", "refused"}]
NoRequest == [op |-> "claim", turn |-> NoId, epoch |-> 0, phase |-> "idle"]

ASSUME TurnsAssumption ==
    /\ Human \intersect (Notes \union Alarms \union Nudges) = {}
    /\ Notes \intersect (Alarms \union Nudges) = {}
    /\ Alarms \intersect Nudges = {}
    /\ NoTurn \notin Active
    /\ MaxAttempts \in Nat \ {0}
    /\ NapMax \in Nat \ {0}
    /\ MaxRounds \in Nat
    /\ MaxTurns \in Nat
    /\ MaxRestarts \in Nat

VARIABLES
    \* on disk
    new, cur,            \* the two directories of the inbox
    stamp, tick,         \* arrival time in a signal's file name, 0 before it arrives
    tries,               \* Signal.attempts
    alarms,              \* alarms in the schedule that have not fired
    recorded,            \* journal: how often each signal was written down as it came in
    lines,               \* journal: lines stamped with each turn
    setdown,             \* journal: people's messages given up on, with an apology
    signalOf, outcome,   \* database: the signal and the outcome of each turn
    last,                \* the last turn id issued
    since,               \* database: turns since it last learned
    \* in the core's memory
    up, restarts,
    active, epoch, stem,
    failStreak, cooling, \* consecutive failures; the backoff after the last one is not over
    sched,               \* the scheduler: where it is, and the turn it has in hand
    \* turn processes and their connections, by the turn each was spawned for
    procs, wire, conn

inbox   == <<new, cur, stamp, tick, tries>>
journal == <<recorded, lines, setdown>>
db      == <<signalOf, outcome, last, since>>
hub     == <<active, epoch, stem, failStreak, cooling>>
life    == <<up, restarts>>
world   == <<procs, wire, conn>>
vars    == <<inbox, alarms, journal, db, hub, life, sched, world>>

-----------------------------------------------------------------------------
(* Types.                                                                  *)

SchedAt  == {"health", "ask", "spawn", "watch", "settle", "nap", "night", "asleep"}
Sched    == [at : SchedAt, turn : TurnIds \union {NoId}]
ProcPc   == {"none", "started", "waiting", "holding", "leaving", "gone"}
Proc     == [pc : ProcPc, turn : TurnIds \union {NoId}, epoch : Nat, rounds : Nat]
Conn     == [state : {"none", "open", "closing", "closed"},
             claimed : TurnIds \union {NoId}, finished : BOOLEAN]
Outcomes == {"none", "open", "ok", "interrupted", "abandoned"}
Ended    == {"ok", "interrupted", "abandoned"}

NoProc == [pc |-> "none", turn |-> NoId, epoch |-> 0, rounds |-> 0]
NoConn == [state |-> "none", claimed |-> NoId, finished |-> FALSE]
Closed == [NoConn EXCEPT !.state = "closed"]

\* The types of the program's state.
TypeOK ==
    /\ new \subseteq Signals /\ cur \subseteq Signals
    /\ stamp \in [Signals -> Nat] /\ tick \in Nat /\ tries \in [Signals -> Nat]
    /\ alarms \subseteq Alarms
    /\ recorded \in [Signals -> Nat] /\ lines \in [TurnIds -> Nat] /\ setdown \subseteq Signals
    /\ signalOf \in [TurnIds -> SUBSET Signals] /\ outcome \in [TurnIds -> Outcomes]
    /\ last \in 0..MaxTurns /\ since \in Nat
    /\ up \in BOOLEAN /\ restarts \in Nat
    /\ active \in Active \union {NoTurn} /\ epoch \in Nat
    /\ stem \in Stem
    /\ failStreak \in Nat /\ cooling \in BOOLEAN
    /\ sched \in Sched
    /\ procs \in [TurnIds -> Proc] /\ wire \in [TurnIds -> Request] /\ conn \in [TurnIds -> Conn]

-----------------------------------------------------------------------------
(* The inbox directory.                                                    *)

\* Signals written to new/ under their arrival time.
Push(S) == /\ new' = new \union S
           /\ stamp' = [s \in Signals |-> IF s \in S THEN tick + 1 ELSE stamp[s]]
           /\ tick' = tick + 1

\* s is the first name in sorted order among S, given the times in the names.
IsFirst(s, S, time) ==
    /\ s \in S
    /\ \A x \in S : Rank(s) < Rank(x) \/ (Rank(s) = Rank(x) /\ time[s] <= time[x])

RequeueBackSlip(s) ==      \* stamped anew
    /\ new' = new \union {s} /\ cur' = cur \ {s}
    /\ stamp' = [stamp EXCEPT ![s] = tick + 1] /\ tick' = tick + 1
    /\ tries' = [tries EXCEPT ![s] = @ + 1]

RequeueHeldSlip(s) ==      \* the held copy is not removed
    new' = new \union {s} /\ tries' = [tries EXCEPT ![s] = @ + 1] /\ UNCHANGED <<cur, stamp, tick>>

\* Push a copy that counts the failure, then remove the held one: it keeps its place.  The two are
\* one step here, as no other task comes between them; Post dies between them too.
Requeue(s) == /\ new' = new \union {s}
              /\ cur' = cur \ {s}
              /\ tries' = [tries EXCEPT ![s] = @ + 1]
              /\ UNCHANGED <<stamp, tick>>

AckSlip(s) == UNCHANGED inbox      \* never acknowledged

Ack(s) == /\ cur' = cur \ {s}
          /\ UNCHANGED <<new, stamp, tick, tries>>

RecoverForgetsSlip == UNCHANGED new /\ cur' = {}

\* On opening: what a previous life left half-handled goes back to the queue.
RecoverHeld == new' = new \union cur /\ cur' = {}

-----------------------------------------------------------------------------
(* The mentor, the creature's other senses, and time.                      *)

Say(s) ==
    /\ up
    /\ s \in Human \union Notes
    /\ stamp[s] = 0
    /\ Push({s})
    /\ stem' = IF s \in Human THEN Feel(stem, "spoke") ELSE stem
    /\ UNCHANGED <<cur, tries, alarms, journal, db, active, epoch, failStreak, cooling,
                   life, sched, world>>

SetAlarm(a) ==
    /\ up
    /\ a \in Alarms \ alarms
    /\ stamp[a] = 0
    /\ alarms' = alarms \union {a}
    /\ UNCHANGED <<inbox, journal, db, hub, life, sched, world>>

\* A turn or a thought says it sent a command out, or that one came back.
ToolEvent(e) ==
    /\ up
    /\ e \in {"tool_called", "tool_returned"}
    /\ stem' = Feel(stem, e)
    /\ UNCHANGED <<inbox, alarms, journal, db, active, epoch, failStreak, cooling,
                   life, sched, world>>

BackoffElapses ==
    /\ up /\ cooling
    /\ cooling' = FALSE
    /\ UNCHANGED <<inbox, alarms, journal, db, active, epoch, stem, failStreak,
                   life, sched, world>>

-----------------------------------------------------------------------------
(* How a turn ends: hub.rs finish, interrupt and abandon.                  *)

GuardSlip(turn, e) == active # NoTurn      \* any open turn will do

\* A write belongs to the turn that is actually running.
Guard(turn, e) == active # NoTurn /\ active.id = turn /\ active.epoch = e

CloseSlip(how) ==      \* the brainstem is not told
    /\ active' = NoTurn
    /\ outcome' = [outcome EXCEPT ![active.id] = how]
    /\ UNCHANGED <<stem, signalOf, last>>

\* The core lets go of the turn and the database learns how it ended.
Close(how) ==
    /\ active' = NoTurn
    /\ stem' = Feel(stem, "turn_ended")
    /\ outcome' = [outcome EXCEPT ![active.id] = how]
    /\ UNCHANGED <<signalOf, last>>

WriteLine(turn) == lines' = [lines EXCEPT ![turn] = @ + 1]

Interrupt ==
    /\ up /\ active # NoTurn
    /\ Close("interrupted")
    /\ epoch' = epoch + 1
    /\ Ack(active.sig)
    /\ WriteLine(active.id)          \* [stopped by your mentor]
    /\ UNCHANGED <<alarms, recorded, setdown, since, failStreak, cooling, life, sched, world>>

GiveUpSlip(s) == tries[s] + 1 > MaxAttempts      \* one try too many

\* Whether this failure is the last one the message is worth.
GiveUp(s) == tries[s] + 1 >= MaxAttempts

AbandonAnySlip(turn) ==      \* whatever turn is open
    IF active = NoTurn THEN UNCHANGED <<inbox, journal, db, hub>>
    ELSE /\ Close("abandoned") /\ Ack(active.sig)
         /\ epoch' = epoch + 1 /\ failStreak' = failStreak + 1 /\ cooling' = TRUE
         /\ UNCHANGED <<journal, since>>

AbandonEndedSlip(turn) ==      \* even a turn that has ended
    IF active # NoTurn THEN AbandonAnySlip(turn)
    ELSE outcome' = [outcome EXCEPT ![turn] = "abandoned"]
         /\ UNCHANGED <<inbox, journal, signalOf, last, since, hub>>

Abandon(turn) ==
    IF active = NoTurn \/ active.id # turn
    THEN UNCHANGED <<inbox, journal, db, hub>>
    ELSE /\ Close("abandoned")
         /\ epoch' = epoch + 1
         /\ failStreak' = failStreak + 1
         /\ cooling' = TRUE
         /\ IF active.sig \in Human /\ ~GiveUp(active.sig)
            THEN Requeue(active.sig) /\ UNCHANGED journal
            ELSE /\ Ack(active.sig)
                 /\ IF active.sig \in Human     \* I could not answer that
                    THEN WriteLine(turn) /\ setdown' = setdown \union {active.sig}
                    ELSE UNCHANGED <<lines, setdown>>
                 /\ UNCHANGED recorded
         /\ UNCHANGED since

-----------------------------------------------------------------------------
(* The scheduler's questions: hub.rs next_duty.                            *)

CanAsk == up /\ sched.at = "ask"

MayWork == /\ Reflex(stem, "asked_work") \notin {"rest", "halt"}
           /\ ~(failStreak > 0 /\ cooling)

Go(where) == sched' = [at |-> where, turn |-> NoId]

\* Not now, or not yet, or (a bound) the clock issues no more turns.
DutyIdle ==
    /\ CanAsk
    /\ ~MayWork \/ last = MaxTurns
    /\ Go("health")
    /\ UNCHANGED <<inbox, alarms, journal, db, hub, life, world>>

RecordIncomingSlip(s, turn) ==      \* on every attempt
    recorded' = [recorded EXCEPT ![s] = @ + 1] /\ WriteLine(turn)

\* What came in is written down on the first attempt only.
RecordIncoming(s, turn) ==
    IF tries[s] = 0
    THEN recorded' = [recorded EXCEPT ![s] = @ + 1] /\ WriteLine(turn)
    ELSE UNCHANGED <<recorded, lines>>

\* hub.rs begin.
Begin(s) ==
    /\ epoch' = epoch + 1
    /\ last' = last + 1
    /\ signalOf' = [signalOf EXCEPT ![last + 1] = {s}]
    /\ outcome' = [outcome EXCEPT ![last + 1] = "open"]
    /\ RecordIncoming(s, last + 1)
    /\ active' = [id |-> last + 1, epoch |-> epoch + 1, sig |-> s, claimed |-> FALSE, by |-> NoId]
    /\ stem' = Feel(IF s \in Human THEN Feel(stem, "spoke") ELSE stem, "turn_began")
    /\ sched' = [at |-> "spawn", turn |-> last + 1]

\* Alarms that are due join the queue, the first signal is taken, and its turn is opened.
DutyTurn ==
    /\ CanAsk /\ MayWork /\ last < MaxTurns
    /\ \E due \in SUBSET alarms :
          LET time == [x \in Signals |-> IF x \in due THEN tick + 1 ELSE stamp[x]] IN
          \E s \in new \union due :
              /\ IsFirst(s, new \union due, time)
              /\ new' = (new \union due) \ {s}
              /\ cur' = cur \union {s}
              /\ stamp' = time
              /\ tick' = IF due = {} THEN tick ELSE tick + 1
              /\ alarms' = alarms \ due
              /\ Begin(s)
    /\ UNCHANGED <<tries, setdown, since, failStreak, cooling, life, world>>

\* With nothing waiting it may learn: a night comes round on the clock, a nap after enough turns.
DutyLearn(pass) ==
    /\ CanAsk /\ MayWork /\ last < MaxTurns
    /\ new = {}
    /\ pass = "night" \/ since >= NapMax
    /\ since' = 0
    /\ Go(pass)
    /\ UNCHANGED <<inbox, alarms, journal, signalOf, outcome, last, hub, life, world>>

\* Or be curious, when it has heard nothing for long enough.
DutyNudge ==
    /\ CanAsk /\ MayWork /\ last < MaxTurns
    /\ new = {} /\ since < NapMax
    /\ \E i \in Nudges : stamp[i] = 0 /\ Push({i})
    /\ stem' = Feel(stem, "nudged")
    /\ Go("health")
    /\ UNCHANGED <<cur, tries, alarms, journal, db, active, epoch, failStreak, cooling,
                   life, world>>

DutyNothing ==
    /\ CanAsk /\ MayWork /\ last < MaxTurns
    /\ new = {} /\ since < NapMax
    /\ Go("health")
    /\ UNCHANGED <<inbox, alarms, journal, db, hub, life, world>>

NextDuty == \/ DutyIdle \/ DutyTurn \/ DutyNudge \/ DutyNothing
            \/ \E pass \in {"nap", "night"} : DutyLearn(pass)

-----------------------------------------------------------------------------
(* The scheduler's own steps: server.rs run_scheduler and watch.           *)

Health(answers) ==
    /\ up /\ sched.at = "health"
    /\ stem' = Feel(stem, IF answers THEN "brain_up" ELSE "brain_down")
    /\ Go(IF answers THEN "ask" ELSE "health")
    /\ UNCHANGED <<inbox, alarms, journal, db, active, epoch, failStreak, cooling, life, world>>

TurnSpawnedSlip ==      \* not waited for
    /\ up /\ sched.at = "spawn"
    /\ procs' = [procs EXCEPT ![sched.turn].pc = "started"]
    /\ Go("health")
    /\ UNCHANGED <<inbox, alarms, journal, db, hub, life, wire, conn>>

TurnSpawned ==
    /\ up /\ sched.at = "spawn"
    /\ procs' = [procs EXCEPT ![sched.turn].pc = "started"]
    /\ sched' = [sched EXCEPT !.at = "watch"]
    /\ UNCHANGED <<inbox, alarms, journal, db, hub, life, wire, conn>>

TurnNotSpawned ==
    /\ up /\ sched.at = "spawn"
    /\ sched' = [sched EXCEPT !.at = "settle"]
    /\ UNCHANGED <<inbox, alarms, journal, db, hub, life, world>>

\* The process is gone, by itself or because it ran past its limit.
TurnWatched ==
    /\ up /\ sched.at = "watch"
    /\ procs[sched.turn].pc = "gone"
    /\ sched' = [sched EXCEPT !.at = "settle"]
    /\ UNCHANGED <<inbox, alarms, journal, db, hub, life, world>>

SettleTurnSlip ==      \* the closing connection is trusted to do it
    /\ up /\ sched.at = "settle"
    /\ Go("health")
    /\ UNCHANGED <<inbox, alarms, journal, db, hub, life, world>>

\* A no-op when the turn already closed itself out properly.
SettleTurn ==
    /\ up /\ sched.at = "settle"
    /\ Abandon(sched.turn)
    /\ Go("health")
    /\ UNCHANGED <<alarms, life, world>>

LearnBegins ==
    /\ up /\ sched.at \in {"nap", "night"}
    /\ stem' = Feel(stem, IF sched.at = "night" THEN "night_began" ELSE "nap_began")
    /\ Go("asleep")
    /\ UNCHANGED <<inbox, alarms, journal, db, active, epoch, failStreak, cooling, life, world>>

LearnNotSpawned ==
    /\ up /\ sched.at \in {"nap", "night"}
    /\ Go("health")
    /\ UNCHANGED <<inbox, alarms, journal, db, hub, life, world>>

\* The pass ended, or was stopped at its limit.
LearnEnds ==
    /\ up /\ sched.at = "asleep"
    /\ stem' = Feel(stem, "sleep_ended")
    /\ Go("health")
    /\ UNCHANGED <<inbox, alarms, journal, db, active, epoch, failStreak, cooling, life, world>>

-----------------------------------------------------------------------------
(* A turn process (harness/src/run.rs): claim, write, end.  It asks one    *)
(* thing at a time over one connection and leaves on the first refusal.    *)

Ask(p, request) ==
    /\ wire' = [wire EXCEPT ![p] = request]
    /\ procs' = [procs EXCEPT ![p].pc = "waiting"]

Claim(p) ==
    /\ up /\ procs[p].pc = "started"
    /\ Ask(p, [op |-> "claim", turn |-> NoId, epoch |-> 0, phase |-> "asked"])
    /\ conn' = [conn EXCEPT ![p].state = "open"]
    /\ UNCHANGED <<inbox, alarms, journal, db, hub, life, sched>>

Write(p) ==
    /\ up /\ procs[p].pc = "holding"
    /\ procs[p].rounds < MaxRounds
    /\ wire' = [wire EXCEPT ![p] = [op |-> "append", turn |-> procs[p].turn,
                                    epoch |-> procs[p].epoch, phase |-> "asked"]]
    /\ procs' = [procs EXCEPT ![p].pc = "waiting", ![p].rounds = @ + 1]
    /\ UNCHANGED <<inbox, alarms, journal, db, hub, life, sched, conn>>

End(p) ==
    /\ up /\ procs[p].pc = "holding"
    /\ Ask(p, [op |-> "end", turn |-> procs[p].turn, epoch |-> procs[p].epoch, phase |-> "asked"])
    /\ UNCHANGED <<inbox, alarms, journal, db, hub, life, sched, conn>>

\* It exits, crashes, is stopped by an interrupt, or is killed at its time limit.
Gone(p) ==
    /\ up /\ procs[p].pc \notin {"none", "gone"}
    /\ procs' = [procs EXCEPT ![p] = [NoProc EXCEPT !.pc = "gone"]]
    /\ UNCHANGED <<inbox, alarms, journal, db, hub, life, sched, wire, conn>>

-----------------------------------------------------------------------------
(* The hub's answers to it, and the connection's task.                     *)

Asked(p, op) == up /\ wire[p].phase = "asked" /\ wire[p].op = op

Answer(p, granted) ==
    wire' = [wire EXCEPT ![p].phase = IF granted THEN "granted" ELSE "refused"]

\* Handing the turn over: once per turn, whoever asks first.
HubClaim(p) ==
    /\ Asked(p, "claim")
    /\ IF active # NoTurn /\ ~active.claimed
       THEN /\ active' = [active EXCEPT !.claimed = TRUE, !.by = p]
            /\ wire' = [wire EXCEPT ![p] = [op |-> "claim", turn |-> active.id,
                                            epoch |-> active.epoch, phase |-> "granted"]]
       ELSE UNCHANGED active /\ Answer(p, FALSE)
    /\ UNCHANGED <<inbox, alarms, journal, db, epoch, stem, failStreak, cooling,
                   life, sched, procs, conn>>

HubAppend(p) ==
    /\ Asked(p, "append")
    /\ IF Guard(wire[p].turn, wire[p].epoch)
       THEN WriteLine(wire[p].turn) /\ Answer(p, TRUE)
       ELSE UNCHANGED lines /\ Answer(p, FALSE)
    /\ UNCHANGED <<inbox, alarms, recorded, setdown, db, hub, life, sched, procs, conn>>

\* The turn is closed in the database and then its file is removed, in one handler; Post dies
\* between the two.
HubFinish(p) ==
    /\ Asked(p, "end")
    /\ IF Guard(wire[p].turn, wire[p].epoch)
       THEN /\ Close("ok")
            /\ Ack(active.sig)
            /\ failStreak' = 0
            /\ since' = since + 1
            /\ Answer(p, TRUE)
       ELSE /\ UNCHANGED <<inbox, db, active, stem, failStreak>>
            /\ Answer(p, FALSE)
    /\ UNCHANGED <<alarms, journal, epoch, cooling, life, sched, procs, conn>>

\* The connection notes what was granted, then tells the process if it is still there.
Reply(p) ==
    LET r  == wire[p]
        ok == r.phase = "granted"
    IN
    /\ up /\ r.phase \in {"granted", "refused"}
    /\ wire' = [wire EXCEPT ![p] = NoRequest]
    /\ conn' = IF conn[p].state # "open" THEN conn
               ELSE [conn EXCEPT ![p].claimed  = IF ok /\ r.op = "claim" THEN r.turn ELSE @,
                                 ![p].finished = @ \/ (ok /\ r.op = "end")]
    /\ procs' = IF procs[p].pc # "waiting" THEN procs
                ELSE [procs EXCEPT
                        ![p].pc    = IF ok /\ r.op # "end" THEN "holding" ELSE "leaving",
                        ![p].turn  = IF ok /\ r.op = "claim" THEN r.turn ELSE @,
                        ![p].epoch = IF ok /\ r.op = "claim" THEN r.epoch ELSE @]
    /\ UNCHANGED <<inbox, alarms, journal, db, hub, life, sched>>

\* End of file: a turn this connection claimed and never finished must be let go of.
ConnCloses(p) ==
    /\ up /\ conn[p].state = "open" /\ procs[p].pc = "gone"
    /\ conn' = [conn EXCEPT ![p] =
                   IF @.claimed # NoId /\ ~@.finished THEN [@ EXCEPT !.state = "closing"]
                   ELSE Closed]
    /\ UNCHANGED <<inbox, alarms, journal, db, hub, life, sched, procs, wire>>

HubLetsGo(p) ==
    /\ up /\ conn[p].state = "closing"
    /\ Abandon(conn[p].claimed)
    /\ conn' = [conn EXCEPT ![p] = Closed]
    /\ UNCHANGED <<alarms, life, sched, procs, wire>>

-----------------------------------------------------------------------------
(* The core goes away and comes back.                                      *)

\* hub.rs Shutdown: the hub's loop ends, and with it every later request.
Quit ==
    /\ up /\ restarts < MaxRestarts
    /\ up' = FALSE
    /\ stem' = Feel(stem, "stop")
    /\ UNCHANGED <<inbox, alarms, journal, db, active, epoch, failStreak, cooling, restarts,
                   sched, world>>

Crash ==
    /\ up /\ restarts < MaxRestarts
    /\ up' = FALSE
    /\ UNCHANGED <<inbox, alarms, journal, db, hub, restarts, sched, world>>

\* Hub::new: what was half-handled goes back to the queue, memory starts over, and the
\* processes of the last life have lost their connections.
Restart ==
    /\ ~up
    /\ up' = TRUE /\ restarts' = restarts + 1
    /\ RecoverHeld
    /\ active' = NoTurn /\ epoch' = 0 /\ stem' = NewStem
    /\ failStreak' = 0 /\ cooling' = FALSE
    /\ Go("health")
    /\ procs' = [p \in TurnIds |-> IF procs[p].pc = "none" THEN NoProc
                                   ELSE [NoProc EXCEPT !.pc = "gone"]]
    /\ wire' = [p \in TurnIds |-> NoRequest]
    /\ conn' = [p \in TurnIds |-> NoConn]
    /\ UNCHANGED <<stamp, tick, tries, alarms, journal, db>>

-----------------------------------------------------------------------------
Init ==
    /\ new = {} /\ cur = {} /\ stamp = [s \in Signals |-> 0] /\ tick = 0
    /\ tries = [s \in Signals |-> 0]
    /\ alarms = {}
    /\ recorded = [s \in Signals |-> 0] /\ lines = [t \in TurnIds |-> 0] /\ setdown = {}
    /\ signalOf = [t \in TurnIds |-> {}] /\ outcome = [t \in TurnIds |-> "none"]
    /\ last = 0 /\ since = 0
    /\ up = TRUE /\ restarts = 0
    /\ active = NoTurn /\ epoch = 0 /\ stem = NewStem
    /\ failStreak = 0 /\ cooling = FALSE
    /\ sched = [at |-> "health", turn |-> NoId]
    /\ procs = [p \in TurnIds |-> NoProc]
    /\ wire = [p \in TurnIds |-> NoRequest]
    /\ conn = [p \in TurnIds |-> NoConn]

SchedulerStep == \/ NextDuty \/ TurnSpawned \/ TurnNotSpawned \/ TurnWatched \/ SettleTurn
                 \/ LearnBegins \/ LearnNotSpawned \/ LearnEnds
                 \/ \E answers \in BOOLEAN : Health(answers)

ProcessStep(p) == Claim(p) \/ Write(p) \/ End(p) \/ Gone(p)

HubStep(p) == HubClaim(p) \/ HubAppend(p) \/ HubFinish(p) \/ Reply(p) \/ ConnCloses(p) \/ HubLetsGo(p)

Outside == \/ \E s \in Signals : Say(s) \/ SetAlarm(s)
           \/ \E e \in {"tool_called", "tool_returned"} : ToolEvent(e)
           \/ Interrupt \/ BackoffElapses

Lifecycle == Quit \/ Crash \/ Restart

Next == \/ SchedulerStep
        \/ \E p \in TurnIds : ProcessStep(p) \/ HubStep(p)
        \/ Outside
        \/ Lifecycle

Spec == Init /\ [][Next]_vars

\* The scheduler keeps looping, every process ends (its watch kills it at the limit), a
\* backoff runs out, the brain answers again and again, and a core that went away is started
\* again.  Nothing is assumed of the process, the mentor, or the hub's answers to it.
Fairness == /\ WF_vars(SchedulerStep)
            /\ SF_vars(Health(TRUE))
            /\ WF_vars(BackoffElapses)
            /\ WF_vars(Restart)
            /\ \A p \in TurnIds : WF_vars(Gone(p))

FairSpec == Spec /\ Fairness

-----------------------------------------------------------------------------
(* Properties.                                                             *)

TurnsOf(s) == {t \in TurnIds : signalOf[t] = {s}}

FailedTurns(s) == {t \in TurnsOf(s) : outcome[t] = "abandoned"}

\* The person was answered, stopped the turn, or was told it could not be answered.
Answered(s) == \/ s \in setdown
               \/ \E t \in TurnsOf(s) : outcome[t] \in {"ok", "interrupted"}

\* "At most one exists, which is what makes the conscious thread single" (hub.rs:66): a turn
\* is open only while the scheduler has that very turn in hand, so that whenever the
\* scheduler asks what to do, learns, or rests, nothing is running.
OneThread ==
    up /\ active # NoTurn =>
        sched.at \in {"spawn", "watch", "settle"} /\ sched.turn = active.id

\* The brainstem, the hub and the scheduler agree: it is thinking or working exactly while a
\* turn is open, and asleep exactly while the scheduler waits on a learning pass.
StemFollowsTheBody ==
    up => /\ stem.state \in InATurn <=> active # NoTurn
          /\ stem.state \in Asleep  <=> sched.at = "asleep"

\* What sits in the inbox's cur/ directory is exactly the signal of the open turn, so a
\* restart gives back what was in hand and nothing else.
HeldIsActive == up => cur = IF active = NoTurn THEN {} ELSE {active.sig}

\* Whenever the scheduler is past its question about the brain, the brainstem is past
\* waking; what it goes back to after a pass is never a turn.
StemIsReady ==
    up => /\ stem.state # "stopping"
          /\ stem.state = "waking" => sched.at = "health"
          /\ stem.state \in Asleep => stem.before \in Free

\* A signal is in one directory at most, and only once it has arrived.
InboxIsSound == /\ new \intersect cur = {}
                /\ \A s \in new \union cur : stamp[s] > 0
                /\ \A a \in alarms : stamp[a] = 0

\* The hub, the scheduler, the brainstem and the inbox agree: the inductive invariant that
\* makes the conscious thread single (Turns_proofs).
Agreement == OneThread /\ StemFollowsTheBody /\ HeldIsActive /\ StemIsReady /\ InboxIsSound

\* "Losing a person's message is not [survivable]" (inbox.rs:13): it waits, it is held, or
\* it was dealt with, through every failure, interrupt, crash and restart.
NothingLost == \A s \in Human : stamp[s] > 0 => s \in new \union cur \/ Answered(s)

\* While the core stays up, what was dealt with never comes back to be dealt with again, whoever
\* ends the turn.  A core that dies between db.turn_ended and the ack that removes the file
\* (hub.rs:828-834) does bring it back, and Post takes those steps one at a time.
NothingTwice ==
    up /\ restarts = 0 => \A s \in Signals : Answered(s) => s \notin new \union cur

\* A single order (inbox.rs:4): no message of a person is dealt with while one that came in or
\* was begun before it still waits, although a retried message goes back into the queue.
InOrder == \A s, x \in Human :
    LET came  == stamp[s] > 0 /\ stamp[s] < stamp[x]
        begun == \E t \in TurnsOf(s) : \A u \in TurnsOf(x) : t < u
    IN (came \/ begun) /\ Answered(x) => Answered(s)

\* While the core stays up, a person's message is tried MaxAttempts times and no more, and only
\* then set down; anything else is tried once (hub.rs abandon).  A core that dies within requeue
\* may leave the copy that was not counted (inbox.rs:197-201): see PatienceSurvives of Post.
PatienceBounded ==
    up /\ restarts = 0 =>
        /\ \A s \in Human : Cardinality(FailedTurns(s)) <= MaxAttempts
        /\ \A s \in Signals \ Human : Cardinality(FailedTurns(s)) <= 1
        /\ \A s \in setdown : Cardinality(FailedTurns(s)) = MaxAttempts

\* What came in is in the journal once a turn has been opened for it, and a retry does not
\* write it again: only a restart can (hub.rs begin).
WrittenDown == \A s \in Signals :
    TurnsOf(s) # {} => recorded[s] >= 1 /\ recorded[s] <= 1 + restarts

\* A turn is never opened over one that is still open.
NoTurnOverwritten ==
    [][active # NoTurn /\ active' # NoTurn => active'.id = active.id]_vars

\* The core refuses anything stale: once a turn has ended, nothing more is written down
\* under its name, whoever still writes.
NoLateLines == [][\A t \in TurnIds : outcome[t] \in Ended => lines'[t] = lines[t]]_vars

\* Finish, interrupt, a closing connection and the scheduler race to end a turn; the first
\* decides, and no later one changes how it ended.
OutcomeIsFinal == [][\A t \in TurnIds : outcome[t] \in Ended => outcome'[t] = outcome[t]]_vars

\* A turn that nobody else has claimed is abandoned only when its own process is gone or was
\* never started: no late word about an earlier turn takes it away from a live process.
AbandonedOnlyWhenGone ==
    [][\A t \in TurnIds : outcome[t] = "open" /\ outcome'[t] = "abandoned" =>
           procs[t].pc \in {"none", "gone"} \/ active.by \notin {NoId, t}]_vars

\* A person is always dealt with in the end.
EveryoneIsAnswered == \A s \in Human : stamp[s] > 0 ~> Answered(s)

\* The abstract inbox, with each signal where the directories and the turns put it.
PlaceOf(s) == IF stamp[s] = 0 THEN "unsent"
              ELSE IF s \in new THEN "waiting"
              ELSE IF s \in cur THEN "held" ELSE "settled"

Mail == INSTANCE Mailbox WITH place <- [s \in Signals |-> PlaceOf(s)]

\* The core keeps the promise of the inbox: every step of it is a step of Mailbox.
KeepsThePromise == Mail!MailSpec

\* hub.rs:732 says what came in is written to the journal "here, once".
RecordedOnce == \A s \in Signals : recorded[s] <= 1

\* hub.rs:761 says a stray process cannot steal a turn already in progress.
HeldByItsOwn == up /\ active # NoTurn /\ active.claimed => active.by = active.id
=============================================================================
