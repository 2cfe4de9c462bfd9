---------------------------- MODULE Turns_proofs ----------------------------
(***************************************************************************)
(* Machine-checked proofs about Turns, for every set of signals, every     *)
(* bound and every schedule.                                               *)
(*                                                                         *)
(* The argument: nothing a turn process or its connection can say changes  *)
(* who holds the thread, because every such word passes Guard or names the *)
(* turn it is about.  So the hub, the brainstem and the scheduler can be   *)
(* kept in agreement by looking at the scheduler's steps alone; Agreement  *)
(* is that invariant.                                                      *)
(***************************************************************************)
EXTENDS Turns, TLAPS, FiniteSetTheorems

-----------------------------------------------------------------------------
(* The brainstem.                                                          *)

\* The brainstem never leaves its own states, whatever it is told.
LEMMA FeelType ==
    ASSUME NEW b \in Stem, NEW s \in Stimuli
    PROVE  Feel(b, s) \in Stem
<1> DEFINE c == [b EXCEPT !.unanswered = Count(b, s)]
<1>1. Count(b, s) \in 0..Saturation
  BY SaturationAssumption DEF Count, Stem
<1>2. c \in Stem
  BY <1>1 DEF Stem
<1>3. /\ WhenWaking(c, s) \in Stem
      /\ WhenAsleep(c, s) \in Stem
      /\ WhenInATurn(c, s) \in Stem
      /\ b.state \in Free => WhenFree(c, s) \in Stem
  <2> HIDE DEF c
  <2>1. WhenWaking(c, s) \in Stem
    BY <1>2 DEF WhenWaking, Stem, Doing, Free, Settled
  <2>2. WhenAsleep(c, s) \in Stem
    <3>1. c.before \in Doing \union {"none"} /\ c.state \in Doing
      BY <1>2 DEF Stem
    <3>2. AfterSleep(c) \in Doing
      BY <3>1 DEF AfterSleep, Doing, Free
    <3>3. CASE s = "sleep_ended"
      <4>1. WhenAsleep(c, s) = [c EXCEPT !.state = AfterSleep(c), !.before = "none", !.pass = "none"]
        BY <3>3 DEF WhenAsleep
      <4> QED  BY <1>2, <3>2, <4>1 DEF Stem
    <3>4. CASE s = "brain_down"
      BY <1>2, <3>4 DEF WhenAsleep, Stem, Doing
    <3>5. CASE s \notin {"sleep_ended", "brain_down"}
      BY <1>2, <3>5 DEF WhenAsleep
    <3> QED  BY <3>3, <3>4, <3>5
  <2>3. WhenInATurn(c, s) \in Stem
    BY <1>2 DEF WhenInATurn, Settled, Stem, Doing, Free, InATurn, Asleep
  <2>4. WhenFree(c, s) \in Stem
    <3>1. CASE s \in {"turn_began", "brain_down", "spoke", "nudged"}
      BY <1>2, <3>1 DEF WhenFree, Stem, Doing, Free, InATurn, Asleep
    <3>2. CASE s = "arrived_person"
      <4>1. WhenFree(c, s) = [c EXCEPT !.state = "listening", !.unanswered = 0]
        BY <3>2 DEF WhenFree
      <4>2. 0 \in 0..Saturation /\ "listening" \in Doing
        BY SaturationAssumption DEF Doing, Free
      <4> QED  BY <1>2, <4>1, <4>2 DEF Stem
    <3>3. CASE s \in {"nap_began", "night_began"}
      <4>1. CASE s = "nap_began"
        <5>1. WhenFree(c, s) = [c EXCEPT !.before = c.state, !.pass = "nap", !.state = "napping"]
          BY <4>1 DEF WhenFree
        <5> QED  BY <1>2, <5>1 DEF Stem, Doing, Asleep
      <4>2. CASE s = "night_began"
        <5>1. WhenFree(c, s) = [c EXCEPT !.before = c.state, !.pass = "night", !.state = "sleeping"]
          BY <4>2 DEF WhenFree
        <5> QED  BY <1>2, <5>1 DEF Stem, Doing, Asleep
      <4> QED  BY <3>3, <4>1, <4>2
    <3>4. CASE s \notin {"turn_began", "brain_down", "spoke", "nudged", "arrived_person",
                         "nap_began", "night_began"}
      BY <1>2, <3>4 DEF WhenFree
    <3> QED  BY <3>1, <3>2, <3>3, <3>4
  <2> QED  BY <2>1, <2>2, <2>3, <2>4
<1>4. [b EXCEPT !.state = "stopping"] \in Stem
  BY DEF Stem, Doing
<1> QED
  BY <1>2, <1>3, <1>4 DEF Feel

\* What each stimulus does to the state, where the body of Turns sends it.
LEMMA FeelEffect ==
    ASSUME NEW b \in Stem, NEW s \in Stimuli
    PROVE  LET f == Feel(b, s) IN
           /\ s \in {"tool_called", "tool_returned", "spoke", "nudged"} =>
                 /\ f.before = b.before
                 /\ f.state = b.state
                    \/ (f.state \in Free /\ b.state \in Free)
                    \/ (f.state \in InATurn /\ b.state \in InATurn)
           /\ s = "turn_ended" /\ b.state \in InATurn => f.state \in Free
           /\ s = "turn_began" /\ b.state \in Free => f.state = "thinking"
           /\ s = "brain_up" /\ b.state \in Free \union {"waking"} => f.state \in Free
           /\ s = "brain_down" /\ b.state \in Free \union {"waking"} => f.state = "waking"
           /\ s \in {"nap_began", "night_began"} /\ b.state \in Free =>
                 f.state \in Asleep /\ f.before \in Free
           /\ s = "sleep_ended" /\ b.state \in Asleep /\ b.before \in Free => f.state \in Free
  BY DEF Feel, Stem, Stimuli, Doing, Free, InATurn, Asleep, Count, Settled, AfterSleep,
         WhenWaking, WhenAsleep, WhenInATurn, WhenFree

-----------------------------------------------------------------------------
(* Every step is one of these; the proofs about steps go through them.      *)

LEMMA TypeInit == Init => TypeOK
<1> SUFFICES ASSUME Init PROVE TypeOK
  OBVIOUS
<1>1. stem \in Stem
  BY SaturationAssumption DEF Init, Stem, NewStem, Doing
<1>2. procs \in [TurnIds -> Proc]
  BY DEF Init, Proc, ProcPc, NoProc
<1>3. wire \in [TurnIds -> Request]
  BY DEF Init, Request, NoRequest
<1>4. conn \in [TurnIds -> Conn]
  BY DEF Init, Conn, NoConn
<1>5. sched \in Sched
  BY DEF Init, Sched, SchedAt
<1>6. outcome \in [TurnIds -> Outcomes] /\ signalOf \in [TurnIds -> SUBSET Signals]
  BY DEF Init, Outcomes
<1>7. last \in 0..MaxTurns
  BY TurnsAssumption DEF Init
<1> QED
  BY <1>1, <1>2, <1>3, <1>4, <1>5, <1>6, <1>7 DEF Init, TypeOK

\* Ending a turn keeps the types, however it ends.
LEMMA AbandonType ==
    ASSUME TypeOK, NEW turn \in TurnIds \union {NoId}, Abandon(turn)
    PROVE  /\ new' \subseteq Signals /\ cur' \subseteq Signals
           /\ stamp' \in [Signals -> Nat] /\ tick' \in Nat /\ tries' \in [Signals -> Nat]
           /\ recorded' \in [Signals -> Nat] /\ lines' \in [TurnIds -> Nat]
           /\ setdown' \subseteq Signals
           /\ signalOf' \in [TurnIds -> SUBSET Signals] /\ outcome' \in [TurnIds -> Outcomes]
           /\ last' \in 0..MaxTurns /\ since' \in Nat
           /\ active' \in Active \union {NoTurn} /\ epoch' \in Nat /\ stem' \in Stem
           /\ failStreak' \in Nat /\ cooling' \in BOOLEAN
<1>1. CASE active = NoTurn \/ active.id # turn
  BY <1>1 DEF Abandon, TypeOK, inbox, journal, db, hub
<1>2. CASE ~(active = NoTurn \/ active.id # turn)
  <2>1. active \in Active
    BY <1>2 DEF TypeOK
  <2>2. stem' \in Stem
    BY <1>2, FeelType DEF Abandon, Close, TypeOK, Stimuli
  <2>3. /\ new' \subseteq Signals /\ cur' \subseteq Signals
        /\ stamp' \in [Signals -> Nat] /\ tick' \in Nat /\ tries' \in [Signals -> Nat]
    BY <1>2, <2>1 DEF Abandon, TypeOK, Active, Requeue, Ack
  <2>4. /\ recorded' \in [Signals -> Nat] /\ lines' \in [TurnIds -> Nat]
        /\ setdown' \subseteq Signals
    BY <1>2, <2>1 DEF Abandon, TypeOK, Active, WriteLine, journal
  <2>5. /\ signalOf' \in [TurnIds -> SUBSET Signals] /\ outcome' \in [TurnIds -> Outcomes]
        /\ last' \in 0..MaxTurns /\ since' \in Nat
    BY <1>2, <2>1 DEF Abandon, TypeOK, Active, Close, Outcomes
  <2>6. /\ active' \in Active \union {NoTurn} /\ epoch' \in Nat
        /\ failStreak' \in Nat /\ cooling' \in BOOLEAN
    BY <1>2, <2>1 DEF Abandon, TypeOK, Close
  <2> QED  BY <2>2, <2>3, <2>4, <2>5, <2>6
<1> QED  BY <1>1, <1>2

\* No step leaves the types.
LEMMA TypeStep == TypeOK /\ [Next]_vars => TypeOK'
<1> SUFFICES ASSUME TypeOK, [Next]_vars PROVE TypeOK'
  OBVIOUS
<1> USE DEF inbox, journal, db, hub, life, world
<1>1. CASE SchedulerStep
  <2>1. CASE DutyIdle \/ DutyNothing
    BY <2>1 DEF DutyIdle, DutyNothing, Go, TypeOK, Sched, SchedAt
  <2>2. CASE DutyTurn
    <3>1. last + 1 \in TurnIds /\ last + 1 \in 0..MaxTurns
      BY <2>2, TurnsAssumption DEF DutyTurn, TypeOK, TurnIds
    <3>a. PICK due \in SUBSET alarms : \E s \in new \union due :
              /\ new' = (new \union due) \ {s}
              /\ cur' = cur \union {s}
              /\ stamp' = [x \in Signals |-> IF x \in due THEN tick + 1 ELSE stamp[x]]
              /\ tick' = IF due = {} THEN tick ELSE tick + 1
              /\ alarms' = alarms \ due
              /\ Begin(s)
      BY <2>2 DEF DutyTurn
    <3>2. PICK s \in new \union due :
              /\ new' = (new \union due) \ {s}
              /\ cur' = cur \union {s}
              /\ stamp' = [x \in Signals |-> IF x \in due THEN tick + 1 ELSE stamp[x]]
              /\ tick' = IF due = {} THEN tick ELSE tick + 1
              /\ alarms' = alarms \ due
              /\ Begin(s)
      BY <3>a
    <3>3. s \in Signals /\ due \subseteq Signals
      BY <3>2 DEF TypeOK, Signals
    <3>4. new' \subseteq Signals /\ cur' \subseteq Signals /\ alarms' \subseteq Alarms
      BY <3>2, <3>3 DEF TypeOK
    <3>5. stamp' \in [Signals -> Nat] /\ tick' \in Nat
      BY <3>2, <3>3 DEF TypeOK
    <3>6. stem' \in Stem
      <4>1. (IF s \in Human THEN Feel(stem, "spoke") ELSE stem) \in Stem
        BY FeelType DEF TypeOK, Stimuli
      <4> QED  BY <3>2, <4>1, FeelType DEF Begin, Stimuli
    <3>7. active' \in Active
      BY <3>1, <3>2, <3>3 DEF Begin, TypeOK, Active, NoId
    <3>8. sched' \in Sched
      BY <3>1, <3>2 DEF Begin, Sched, SchedAt
    <3>9. recorded' \in [Signals -> Nat] /\ lines' \in [TurnIds -> Nat]
      BY <3>1, <3>2, <3>3 DEF Begin, RecordIncoming, WriteLine, TypeOK
    <3>10. signalOf' \in [TurnIds -> SUBSET Signals] /\ outcome' \in [TurnIds -> Outcomes]
      BY <3>1, <3>2, <3>3 DEF Begin, TypeOK, Outcomes
    <3>11. last' \in 0..MaxTurns /\ epoch' \in Nat
      BY <3>1, <3>2 DEF Begin, TypeOK
    <3> QED
      BY <2>2, <3>4, <3>5, <3>6, <3>7, <3>8, <3>9, <3>10, <3>11 DEF DutyTurn, TypeOK
  <2>3. CASE DutyNudge
    <3>1. stem' \in Stem
      BY <2>3, FeelType DEF DutyNudge, TypeOK, Stimuli
    <3> QED
      BY <2>3, <3>1 DEF DutyNudge, Push, Go, TypeOK, Sched, SchedAt, Signals
  <2>4. ASSUME NEW pass \in {"nap", "night"}, DutyLearn(pass) PROVE TypeOK'
    BY <2>4 DEF DutyLearn, Go, TypeOK, Sched, SchedAt
  <2>5. CASE TurnSpawned
    <3>1. procs' \in [TurnIds -> Proc]
      <4>1. procs' = [procs EXCEPT ![sched.turn].pc = "started"] /\ procs \in [TurnIds -> Proc]
        BY <2>5 DEF TurnSpawned, TypeOK
      <4>2. \A p \in Proc : [p EXCEPT !.pc = "started"] \in Proc
        BY DEF Proc, ProcPc
      <4> QED  BY <4>1, <4>2
    <3>2. sched' \in Sched
      BY <2>5 DEF TurnSpawned, TypeOK, Sched, SchedAt
    <3> QED  BY <2>5, <3>1, <3>2 DEF TurnSpawned, TypeOK
  <2>6. CASE TurnNotSpawned \/ TurnWatched
    BY <2>6 DEF TurnNotSpawned, TurnWatched, TypeOK, Sched, SchedAt
  <2>7. CASE SettleTurn
    <3>1. sched.turn \in TurnIds \union {NoId} /\ Abandon(sched.turn)
      BY <2>7 DEF SettleTurn, TypeOK, Sched
    <3>2. sched' \in Sched
      BY <2>7 DEF SettleTurn, Go, Sched, SchedAt
    <3> QED
      BY <2>7, <3>1, <3>2, AbandonType DEF SettleTurn, TypeOK
  <2>8. CASE LearnBegins \/ LearnEnds \/ \E answers \in BOOLEAN : Health(answers)
    <3>1. stem' \in Stem
      BY <2>8, FeelType DEF LearnBegins, LearnEnds, Health, TypeOK, Stimuli
    <3> QED
      BY <2>8, <3>1 DEF LearnBegins, LearnEnds, Health, Go, TypeOK, Sched, SchedAt
  <2>9. CASE LearnNotSpawned
    BY <2>9 DEF LearnNotSpawned, Go, TypeOK, Sched, SchedAt
  <2> QED
    BY <1>1, <2>1, <2>2, <2>3, <2>4, <2>5, <2>6, <2>7, <2>8, <2>9 DEF SchedulerStep, NextDuty
<1>2. ASSUME NEW p \in TurnIds, ProcessStep(p) PROVE TypeOK'
  <2>1. CASE Claim(p)
    <3>1. procs' \in [TurnIds -> Proc]
      BY <2>1 DEF Claim, Ask, TypeOK, Proc, ProcPc
    <3>2. conn' \in [TurnIds -> Conn]
      BY <2>1 DEF Claim, TypeOK, Conn
    <3>3. wire' \in [TurnIds -> Request]
      BY <2>1 DEF Claim, Ask, TypeOK, Request
    <3> QED  BY <2>1, <3>1, <3>2, <3>3 DEF Claim, TypeOK
  <2>2. CASE Write(p)
    BY <2>2 DEF Write, TypeOK, Proc, ProcPc, Request
  <2>3. CASE End(p)
    BY <2>3 DEF End, Ask, TypeOK, Proc, ProcPc, Request
  <2>4. CASE Gone(p)
    BY <2>4 DEF Gone, TypeOK, Proc, ProcPc, NoProc
  <2> QED  BY <1>2, <2>1, <2>2, <2>3, <2>4 DEF ProcessStep
<1>3. ASSUME NEW p \in TurnIds, HubStep(p) PROVE TypeOK'
  <2>1. CASE HubClaim(p)
    <3>1. active' \in Active \union {NoTurn}
      BY <2>1 DEF HubClaim, TypeOK, Active
    <3>2. wire' \in [TurnIds -> Request]
      <4>1. CASE active # NoTurn /\ ~active.claimed
        <5>1. wire' = [wire EXCEPT ![p] = [op |-> "claim", turn |-> active.id, epoch |-> active.epoch, phase |-> "granted"]]
          BY <2>1, <4>1 DEF HubClaim
        <5>2. active.id \in TurnIds /\ active.epoch \in Nat
          BY <4>1 DEF TypeOK, Active
        <5>3. [op |-> "claim", turn |-> active.id, epoch |-> active.epoch, phase |-> "granted"] \in Request
          BY <5>2 DEF Request
        <5>4. wire \in [TurnIds -> Request]  BY DEF TypeOK
        <5> DEFINE granted == [op |-> "claim", turn |-> active.id, epoch |-> active.epoch, phase |-> "granted"]
        <5> HIDE DEF granted
        <5>5. wire' = [wire EXCEPT ![p] = granted] /\ granted \in Request  BY <5>1, <5>3 DEF granted
        <5> QED  BY <5>4, <5>5
      <4>2. CASE ~(active # NoTurn /\ ~active.claimed)
        <5>1. Answer(p, FALSE)
          BY <2>1, <4>2 DEF HubClaim
        <5>2. wire \in [TurnIds -> Request]  BY DEF TypeOK
        <5> QED  BY <5>1, <5>2 DEF Answer, Request
      <4> QED  BY <4>1, <4>2
    <3> QED  BY <2>1, <3>1, <3>2 DEF HubClaim, TypeOK
  <2>2. CASE HubAppend(p)
    <3>0. lines \in [TurnIds -> Nat]  BY DEF TypeOK
    <3>9. UNCHANGED lines \/ WriteLine(wire[p].turn)  BY <2>2 DEF HubAppend
    <3>1. lines' \in [TurnIds -> Nat]
      BY <3>0, <3>9 DEF WriteLine
    <3>2. wire' \in [TurnIds -> Request]
      BY <2>2 DEF HubAppend, Answer, TypeOK, Request
    <3> QED  BY <2>2, <3>1, <3>2 DEF HubAppend, TypeOK
  <2>3. CASE HubFinish(p)
    <3>1. CASE Guard(wire[p].turn, wire[p].epoch)
      <4>1. active \in Active
        BY <3>1 DEF Guard, TypeOK
      <4>2. stem' \in Stem
        BY <2>3, <3>1, FeelType DEF HubFinish, Close, TypeOK, Stimuli
      <4>3. outcome' \in [TurnIds -> Outcomes]
        BY <2>3, <3>1, <4>1 DEF HubFinish, Close, TypeOK, Outcomes
      <4>4. wire' \in [TurnIds -> Request]
        BY <2>3, <3>1 DEF HubFinish, Answer, TypeOK, Request
      <4>5. cur' \subseteq Signals
        BY <2>3, <3>1 DEF HubFinish, Ack, TypeOK
      <4> QED
        BY <2>3, <3>1, <4>2, <4>3, <4>4, <4>5 DEF HubFinish, Close, Ack, TypeOK
    <3>2. CASE ~Guard(wire[p].turn, wire[p].epoch)
      BY <2>3, <3>2 DEF HubFinish, Answer, TypeOK, Request
    <3> QED  BY <3>1, <3>2
  <2>4. CASE Reply(p)
    <3> DEFINE r  == wire[p]
               ok == r.phase = "granted"
               t  == IF ok /\ r.op = "claim" THEN r.turn ELSE procs[p].turn
               e  == IF ok /\ r.op = "claim" THEN r.epoch ELSE procs[p].epoch
               at == IF ok /\ r.op # "end" THEN "holding" ELSE "leaving"
               c  == IF ok /\ r.op = "claim" THEN r.turn ELSE conn[p].claimed
               f  == conn[p].finished \/ (ok /\ r.op = "end")
    <3>0. /\ r \in Request /\ procs[p] \in Proc /\ conn[p] \in Conn
          /\ t \in TurnIds \union {NoId} /\ e \in Nat /\ at \in ProcPc
          /\ c \in TurnIds \union {NoId} /\ f \in BOOLEAN
      BY DEF TypeOK, Request, Proc, ProcPc, Conn
    <3>1. procs' \in [TurnIds -> Proc]
      <4>1. procs' = procs
            \/ procs' = [procs EXCEPT ![p] = [@ EXCEPT !.pc = at, !.turn = t, !.epoch = e]]
        BY <2>4 DEF Reply, TypeOK, Proc
      <4> HIDE DEF r, ok, t, e, at, c, f
      <4>2. [procs[p] EXCEPT !.pc = at, !.turn = t, !.epoch = e] \in Proc
        BY <3>0 DEF Proc
      <4> QED  BY <4>1, <4>2 DEF TypeOK
    <3>2. conn' \in [TurnIds -> Conn]
      <4>1. conn' = conn
            \/ conn' = [conn EXCEPT ![p] = [@ EXCEPT !.claimed = c, !.finished = f]]
        BY <2>4 DEF Reply, TypeOK, Conn
      <4> HIDE DEF r, ok, t, e, at, c, f
      <4>2. [conn[p] EXCEPT !.claimed = c, !.finished = f] \in Conn
        BY <3>0 DEF Conn
      <4> QED  BY <4>1, <4>2 DEF TypeOK
    <3>3. wire' \in [TurnIds -> Request]
      BY <2>4 DEF Reply, TypeOK, Request, NoRequest
    <3> QED  BY <2>4, <3>1, <3>2, <3>3 DEF Reply, TypeOK
  <2>5. CASE ConnCloses(p)
    <3>1. conn' \in [TurnIds -> Conn]
      <4>1. Closed \in Conn /\ \A r \in Conn : [r EXCEPT !.state = "closing"] \in Conn
        BY DEF Conn, Closed, NoConn
      <4>2. conn \in [TurnIds -> Conn] /\ conn[p] \in Conn
        BY DEF TypeOK
      <4>3. conn' = [conn EXCEPT ![p] = Closed]
            \/ conn' = [conn EXCEPT ![p] = [conn[p] EXCEPT !.state = "closing"]]
        BY <2>5, <4>2 DEF ConnCloses
      <4> QED  BY <4>1, <4>2, <4>3
    <3> QED  BY <2>5, <3>1 DEF ConnCloses, TypeOK
  <2>6. CASE HubLetsGo(p)
    <3>1. conn[p].claimed \in TurnIds \union {NoId} /\ Abandon(conn[p].claimed)
      BY <2>6 DEF HubLetsGo, TypeOK, Conn
    <3>2. conn' \in [TurnIds -> Conn]
      BY <2>6 DEF HubLetsGo, TypeOK, Conn, NoConn, Closed
    <3> QED  BY <2>6, <3>1, <3>2, AbandonType DEF HubLetsGo, TypeOK
  <2> QED  BY <1>3, <2>1, <2>2, <2>3, <2>4, <2>5, <2>6 DEF HubStep
<1>4. CASE Outside
  <2>1. ASSUME NEW s \in Signals, Say(s) PROVE TypeOK'
    <3>1. stem' \in Stem
      BY <2>1, FeelType DEF Say, TypeOK, Stimuli
    <3> QED  BY <2>1, <3>1 DEF Say, Push, TypeOK
  <2>2. ASSUME NEW s \in Signals, SetAlarm(s) PROVE TypeOK'
    BY <2>2 DEF SetAlarm, TypeOK
  <2>3. ASSUME NEW e \in {"tool_called", "tool_returned"}, ToolEvent(e) PROVE TypeOK'
    <3>1. stem' \in Stem
      BY <2>3, FeelType DEF ToolEvent, TypeOK, Stimuli
    <3> QED  BY <2>3, <3>1 DEF ToolEvent, TypeOK
  <2>4. CASE Interrupt
    <3>1. active \in Active
      BY <2>4 DEF Interrupt, TypeOK
    <3>2. stem' \in Stem
      BY <2>4, FeelType DEF Interrupt, Close, TypeOK, Stimuli
    <3>3. outcome' \in [TurnIds -> Outcomes] /\ lines' \in [TurnIds -> Nat]
      BY <2>4, <3>1 DEF Interrupt, Close, WriteLine, TypeOK, Outcomes, Active
    <3> QED  BY <2>4, <3>2, <3>3 DEF Interrupt, Close, Ack, TypeOK
  <2>5. CASE BackoffElapses
    BY <2>5 DEF BackoffElapses, TypeOK
  <2> QED  BY <1>4, <2>1, <2>2, <2>3, <2>4, <2>5 DEF Outside
<1>5. CASE Lifecycle
  <2>1. CASE Quit \/ Crash
    <3>1. stem' \in Stem
      BY <2>1, FeelType DEF Quit, Crash, TypeOK, Stimuli
    <3> QED  BY <2>1, <3>1 DEF Quit, Crash, TypeOK
  <2>2. CASE Restart
    <3>1. stem' \in Stem
      BY <2>2, SaturationAssumption DEF Restart, Stem, NewStem, Doing
    <3>2. procs' \in [TurnIds -> Proc]
      BY <2>2 DEF Restart, Proc, ProcPc, NoProc
    <3>3. wire' \in [TurnIds -> Request] /\ conn' \in [TurnIds -> Conn]
      BY <2>2 DEF Restart, Request, NoRequest, Conn, NoConn
    <3>4. sched' \in Sched
      BY <2>2 DEF Restart, Go, Sched, SchedAt
    <3>5. new' \subseteq Signals /\ cur' \subseteq Signals
      BY <2>2 DEF Restart, RecoverHeld, TypeOK
    <3>a. up' \in BOOLEAN /\ cooling' \in BOOLEAN
      BY <2>2, Zenon DEF Restart
    <3>b. active' \in Active \union {NoTurn}
      BY <2>2 DEF Restart
    <3>c. restarts' \in Nat /\ epoch' \in Nat /\ failStreak' \in Nat
      BY <2>2 DEF Restart, TypeOK
    <3>7. UNCHANGED <<stamp, tick, tries, alarms, journal, db>>
      BY <2>2 DEF Restart
    <3> QED  BY <3>1, <3>2, <3>3, <3>4, <3>5, <3>a, <3>b, <3>c, <3>7 DEF TypeOK
  <2> QED  BY <1>5, <2>1, <2>2 DEF Lifecycle
<1>6. CASE UNCHANGED vars
  BY <1>6 DEF vars, TypeOK
<1> QED  BY <1>1, <1>2, <1>3, <1>4, <1>5, <1>6 DEF Next

\* The types hold in every state of the program.
THEOREM TypeCorrect == Spec => []TypeOK
<1>1. Init => TypeOK
  BY TypeInit
<1>2. TypeOK /\ [Next]_vars => TypeOK'
  BY TypeStep
<1> QED  BY <1>1, <1>2, PTL DEF Spec

-----------------------------------------------------------------------------
(* The hub, the scheduler, the brainstem and the inbox agree.              *)

Inv == TypeOK /\ Agreement

LEMMA AgreementInit == Init => Agreement
  BY DEF Init, Agreement, OneThread, StemFollowsTheBody, HeldIsActive, StemIsReady,
         InboxIsSound, NewStem, InATurn, Asleep

\* A step that leaves these alone leaves the agreement alone.
LEMMA AgreementFrame ==
    ASSUME Agreement, UNCHANGED <<up, sched, stem, inbox, alarms>>,
           (active' = NoTurn) = (active = NoTurn),
           active # NoTurn => active'.id = active.id /\ active'.sig = active.sig
    PROVE  Agreement'
  BY DEF Agreement, OneThread, StemFollowsTheBody, HeldIsActive, StemIsReady, InboxIsSound, inbox

\* The ways a turn ends: the thread is free, the brainstem too, and nothing is held.
LEMMA ClosedAgreement ==
    ASSUME Inv, up, up' = up, alarms' = alarms, active # NoTurn,
           active' = NoTurn, stem' = Feel(stem, "turn_ended"),
           sched' = sched \/ sched'.at = "health",
           Ack(active.sig) \/ Requeue(active.sig)
    PROVE  Agreement'
<1>1. active \in Active /\ active.sig \in Signals /\ stem \in Stem /\ stem.state \in InATurn
  BY DEF Inv, TypeOK, Agreement, StemFollowsTheBody, Active
<1>2. stem'.state \in Free
  BY <1>1, FeelEffect DEF Stimuli
<1>3. cur = {active.sig} /\ cur' = {}
  BY DEF Inv, Agreement, HeldIsActive, Ack, Requeue
<1>4. InboxIsSound'
  BY <1>3 DEF Inv, Agreement, InboxIsSound, Ack, Requeue
<1>5. sched'.at # "asleep"
  BY DEF Inv, Agreement, OneThread
<1> QED
  BY <1>2, <1>3, <1>4, <1>5 DEF Agreement, OneThread, StemFollowsTheBody, HeldIsActive,
     StemIsReady, Free, InATurn, Asleep

LEMMA AbandonAgreement ==
    ASSUME Inv, up, up' = up, alarms' = alarms, NEW turn, Abandon(turn), sched' = sched
    PROVE  Agreement'
<1>1. CASE active = NoTurn \/ active.id # turn
  <2>1. UNCHANGED <<up, sched, stem, inbox, alarms, active>>
    BY <1>1 DEF Abandon, hub
  <2> QED  BY <2>1, AgreementFrame DEF Inv
<1>2. CASE ~(active = NoTurn \/ active.id # turn)
  BY <1>2, ClosedAgreement DEF Abandon, Close
<1> QED  BY <1>1, <1>2

LEMMA AgreementStep == Inv /\ [Next]_vars => Agreement'
<1> SUFFICES ASSUME Inv, [Next]_vars PROVE Agreement'
  OBVIOUS
<1>0. TypeOK /\ Agreement /\ stem \in Stem
  BY DEF Inv, TypeOK
<1> USE DEF inbox, journal, db, hub, life, world
<1>1. CASE SchedulerStep
  <2>1. CASE DutyIdle \/ DutyNothing
    BY <2>1, <1>0 DEF DutyIdle, DutyNothing, CanAsk, Go, Agreement, OneThread,
       StemFollowsTheBody, HeldIsActive, StemIsReady, InboxIsSound
  <2>2. CASE DutyTurn
    <3>1. /\ up /\ up' = up /\ sched.at = "ask" /\ active = NoTurn /\ cur = {}
          /\ stem.state \in Free
      BY <2>2, <1>0 DEF DutyTurn, CanAsk, Agreement, OneThread, StemFollowsTheBody,
         HeldIsActive, StemIsReady, Stem, Doing
    <3>2. PICK due \in SUBSET alarms : \E s \in new \union due :
              /\ new' = (new \union due) \ {s}
              /\ cur' = cur \union {s}
              /\ stamp' = [x \in Signals |-> IF x \in due THEN tick + 1 ELSE stamp[x]]
              /\ alarms' = alarms \ due
              /\ Begin(s)
      BY <2>2 DEF DutyTurn
    <3>3. PICK s \in new \union due :
              /\ new' = (new \union due) \ {s}
              /\ cur' = cur \union {s}
              /\ stamp' = [x \in Signals |-> IF x \in due THEN tick + 1 ELSE stamp[x]]
              /\ alarms' = alarms \ due
              /\ Begin(s)
      BY <3>2
    <3>4. stem'.state = "thinking"
      <4> DEFINE b == IF s \in Human THEN Feel(stem, "spoke") ELSE stem
      <4>1. b \in Stem
        BY <1>0, FeelType DEF Stimuli
      <4>2. b.state \in Free
        BY <1>0, <3>1, FeelEffect DEF Stimuli, Free, InATurn
      <4>3. stem' = Feel(b, "turn_began")
        BY <3>3 DEF Begin
      <4> HIDE DEF b
      <4> QED  BY <4>1, <4>2, <4>3, FeelEffect DEF Stimuli
    <3>5. last + 1 \in TurnIds
      BY <2>2, <1>0, TurnsAssumption DEF DutyTurn, TypeOK, TurnIds
    <3>6. /\ active' \in Active /\ active'.id = last + 1 /\ active'.sig = s
          /\ sched'.at = "spawn" /\ sched'.turn = last + 1
      <4>1. epoch + 1 \in Nat /\ s \in Signals
        BY <1>0, <3>3 DEF TypeOK, Signals
      <4> QED  BY <3>3, <3>5, <4>1 DEF Begin, Active
    <3>7. active' # NoTurn
      BY <3>6, TurnsAssumption
    <3>8. cur' = {active'.sig}
      BY <3>1, <3>3, <3>6
    <3>9. InboxIsSound'
      BY <1>0, <3>1, <3>3 DEF Agreement, InboxIsSound, TypeOK, Signals
    <3> QED
      BY <3>4, <3>6, <3>7, <3>8, <3>9 DEF Agreement, OneThread, StemFollowsTheBody,
         HeldIsActive, StemIsReady, InATurn, Asleep
  <2>3. CASE DutyNudge
    <3>1. up /\ sched.at = "ask" /\ active = NoTurn /\ stem.state \in Free
      BY <2>3, <1>0 DEF DutyNudge, CanAsk, Agreement, OneThread, StemFollowsTheBody,
         HeldIsActive, StemIsReady, Stem, Doing
    <3>2. stem'.state \in Free
      BY <2>3, <1>0, <3>1, FeelEffect DEF DutyNudge, Stimuli, Free, InATurn
    <3>3. InboxIsSound'
      BY <2>3, <1>0, TurnsAssumption DEF DutyNudge, Push, Agreement, InboxIsSound, TypeOK, Signals
    <3> QED
      BY <2>3, <1>0, <3>1, <3>2, <3>3 DEF DutyNudge, Push, Go, Agreement, OneThread,
         StemFollowsTheBody, HeldIsActive, StemIsReady, InATurn, Asleep, Free
  <2>4. ASSUME NEW pass \in {"nap", "night"}, DutyLearn(pass) PROVE Agreement'
    BY <2>4, <1>0 DEF DutyLearn, CanAsk, Go, Agreement, OneThread,
       StemFollowsTheBody, HeldIsActive, StemIsReady, InboxIsSound
  <2>5. CASE TurnSpawned \/ TurnNotSpawned \/ TurnWatched
    BY <2>5, <1>0 DEF TurnSpawned, TurnNotSpawned, TurnWatched, TypeOK, Sched, Agreement,
       OneThread, StemFollowsTheBody, HeldIsActive, StemIsReady, InboxIsSound
  <2>6. CASE SettleTurn
    <3>1. CASE active = NoTurn
      <4>1. UNCHANGED <<inbox, stem, active, alarms, up>> /\ sched'.at = "health"
        BY <2>6, <3>1 DEF SettleTurn, Abandon, Go
      <4> QED
        BY <2>6, <3>1, <1>0, <4>1 DEF SettleTurn, Agreement, OneThread,
           StemFollowsTheBody, HeldIsActive, StemIsReady, InboxIsSound
    <3>2. CASE active # NoTurn
      <4>1. active.id = sched.turn
        BY <2>6, <3>2, <1>0 DEF SettleTurn, Agreement, OneThread
      <4> QED
        BY <2>6, <3>2, <4>1, ClosedAgreement DEF SettleTurn, Abandon, Close, Go
    <3> QED  BY <3>1, <3>2
  <2>7. CASE LearnBegins
    <3>1. stem.state \in Free /\ active = NoTurn
      BY <2>7, <1>0 DEF LearnBegins, Agreement, OneThread, StemFollowsTheBody, StemIsReady,
         Stem, Doing
    <3>2. stem'.state \in Asleep /\ stem'.before \in Free
      BY <2>7, <1>0, <3>1, FeelEffect DEF LearnBegins, Stimuli
    <3> QED
      BY <2>7, <1>0, <3>1, <3>2 DEF LearnBegins, Go, Agreement, OneThread,
         StemFollowsTheBody, HeldIsActive, StemIsReady, InboxIsSound, InATurn, Asleep
  <2>8. CASE LearnNotSpawned
    BY <2>8, <1>0 DEF LearnNotSpawned, Go, Agreement, OneThread,
       StemFollowsTheBody, HeldIsActive, StemIsReady, InboxIsSound
  <2>9. CASE LearnEnds
    <3>1. stem.state \in Asleep /\ stem.before \in Free /\ active = NoTurn
      BY <2>9, <1>0 DEF LearnEnds, Agreement, OneThread, StemFollowsTheBody, StemIsReady
    <3>2. stem'.state \in Free
      BY <2>9, <1>0, <3>1, FeelEffect DEF LearnEnds, Stimuli
    <3> QED
      BY <2>9, <1>0, <3>1, <3>2 DEF LearnEnds, Go, Agreement, OneThread,
         StemFollowsTheBody, HeldIsActive, StemIsReady, InboxIsSound, InATurn, Asleep, Free
  <2>10. ASSUME NEW answers \in BOOLEAN, Health(answers) PROVE Agreement'
    <3>1. stem.state \in Free \union {"waking"} /\ active = NoTurn
      BY <2>10, <1>0 DEF Health, Agreement, OneThread, StemFollowsTheBody, StemIsReady,
         Stem, Doing
    <3>2. stem'.state \in Free \/ (stem'.state = "waking" /\ ~answers)
      BY <2>10, <1>0, <3>1, FeelEffect DEF Health, Stimuli
    <3> QED
      BY <2>10, <1>0, <3>1, <3>2 DEF Health, Go, Agreement, OneThread,
         StemFollowsTheBody, HeldIsActive, StemIsReady, InboxIsSound, InATurn, Asleep, Free
  <2> QED
    BY <1>1, <2>1, <2>2, <2>3, <2>4, <2>5, <2>6, <2>7, <2>8, <2>9, <2>10
    DEF SchedulerStep, NextDuty
<1>2. ASSUME NEW p \in TurnIds, ProcessStep(p) PROVE Agreement'
  <2>1. UNCHANGED <<up, sched, stem, inbox, alarms, active>>
    BY <1>2 DEF ProcessStep, Claim, Write, End, Gone
  <2> QED  BY <1>0, <2>1, AgreementFrame
<1>3. ASSUME NEW p \in TurnIds, HubStep(p) PROVE Agreement'
  <2>1. CASE HubClaim(p)
    <3>1. UNCHANGED <<up, sched, stem, inbox, alarms>>
      BY <2>1 DEF HubClaim
    <3>2. CASE active # NoTurn /\ ~active.claimed
      <4>1. active' \in Active /\ active'.id = active.id /\ active'.sig = active.sig
        BY <2>1, <3>2, <1>0 DEF HubClaim, TypeOK, Active
      <4> QED  BY <3>1, <3>2, <4>1, <1>0, TurnsAssumption, AgreementFrame
    <3>3. CASE ~(active # NoTurn /\ ~active.claimed)
      BY <2>1, <3>1, <3>3, <1>0, AgreementFrame DEF HubClaim
    <3> QED  BY <3>2, <3>3
  <2>2. CASE HubAppend(p) \/ Reply(p) \/ ConnCloses(p)
    <3>1. UNCHANGED <<up, sched, stem, inbox, alarms, active>>
      BY <2>2 DEF HubAppend, Reply, ConnCloses
    <3> QED  BY <1>0, <3>1, AgreementFrame
  <2>3. CASE HubFinish(p)
    <3>1. CASE Guard(wire[p].turn, wire[p].epoch)
      <4>1. active # NoTurn
        BY <3>1 DEF Guard
      <4> QED  BY <2>3, <3>1, <4>1, ClosedAgreement DEF HubFinish, Asked, Close
    <3>2. CASE ~Guard(wire[p].turn, wire[p].epoch)
      <4>1. UNCHANGED <<up, sched, stem, inbox, alarms, active>>
        BY <2>3, <3>2 DEF HubFinish
      <4> QED  BY <1>0, <4>1, AgreementFrame
    <3> QED  BY <3>1, <3>2
  <2>4. CASE HubLetsGo(p)
    BY <2>4, AbandonAgreement DEF HubLetsGo
  <2> QED  BY <1>3, <2>1, <2>2, <2>3, <2>4 DEF HubStep
<1>4. CASE Outside
  <2>1. ASSUME NEW s \in Signals, Say(s) PROVE Agreement'
    <3>1. /\ stem'.before = stem.before
          /\ \/ stem'.state = stem.state
             \/ stem'.state \in Free /\ stem.state \in Free
             \/ stem'.state \in InATurn /\ stem.state \in InATurn
      BY <2>1, <1>0, FeelEffect DEF Say, Stimuli
    <3>2. InboxIsSound'
      BY <2>1, <1>0, TurnsAssumption DEF Say, Push, Agreement, InboxIsSound, TypeOK, Signals
    <3> QED
      BY <2>1, <1>0, <3>1, <3>2 DEF Say, Push, Agreement, OneThread, StemFollowsTheBody,
         HeldIsActive, StemIsReady, InATurn, Asleep, Free
  <2>2. ASSUME NEW s \in Signals, SetAlarm(s) PROVE Agreement'
    BY <2>2, <1>0 DEF SetAlarm, Agreement, OneThread, StemFollowsTheBody,
       HeldIsActive, StemIsReady, InboxIsSound
  <2>3. ASSUME NEW e \in {"tool_called", "tool_returned"}, ToolEvent(e) PROVE Agreement'
    <3>1. /\ stem'.before = stem.before
          /\ \/ stem'.state = stem.state
             \/ stem'.state \in Free /\ stem.state \in Free
             \/ stem'.state \in InATurn /\ stem.state \in InATurn
      BY <2>3, <1>0, FeelEffect DEF ToolEvent, Stimuli
    <3> QED
      BY <2>3, <1>0, <3>1 DEF ToolEvent, Agreement, OneThread, StemFollowsTheBody,
         HeldIsActive, StemIsReady, InboxIsSound, InATurn, Asleep, Free
  <2>4. CASE Interrupt
    BY <2>4, ClosedAgreement DEF Interrupt, Close
  <2>5. CASE BackoffElapses
    <3>1. UNCHANGED <<up, sched, stem, inbox, alarms, active>>
      BY <2>5 DEF BackoffElapses
    <3> QED  BY <1>0, <3>1, AgreementFrame
  <2> QED  BY <1>4, <2>1, <2>2, <2>3, <2>4, <2>5 DEF Outside
<1>5. CASE Lifecycle
  <2>1. CASE Quit \/ Crash
    <3>1. ~up' /\ UNCHANGED <<inbox, alarms>>
      BY <2>1 DEF Quit, Crash
    <3> QED
      BY <1>0, <3>1 DEF Agreement, OneThread, StemFollowsTheBody, HeldIsActive, StemIsReady,
         InboxIsSound
  <2>2. CASE Restart
    BY <2>2, <1>0 DEF Restart, RecoverHeld, Go, NewStem, Agreement, OneThread,
       StemFollowsTheBody, HeldIsActive, StemIsReady, InboxIsSound, InATurn, Asleep
  <2> QED  BY <1>5, <2>1, <2>2 DEF Lifecycle
<1>6. CASE UNCHANGED vars
  BY <1>6, <1>0, AgreementFrame DEF vars
<1> QED  BY <1>1, <1>2, <1>3, <1>4, <1>5, <1>6 DEF Next

\* The conscious thread is single: the hub, the scheduler, the brainstem and the inbox agree
\* about the turn that is open in every state of the program.
THEOREM AgreementHolds == Spec => []Agreement
<1>1. Init => Inv
  BY TypeInit, AgreementInit DEF Inv
<1>2. Inv /\ [Next]_vars => Inv'
  BY TypeStep, AgreementStep DEF Inv
<1>3. Inv => Agreement
  BY DEF Inv
<1> QED  BY <1>1, <1>2, <1>3, PTL DEF Spec

\* At most one turn exists, and it is the one the scheduler has in hand.
COROLLARY OneThreadHolds == Spec => []OneThread
  BY AgreementHolds, PTL DEF Agreement

\* The brainstem is thinking or working exactly while a turn is open.
COROLLARY StemHolds == Spec => []StemFollowsTheBody
  BY AgreementHolds, PTL DEF Agreement

\* What a restart gives back is the signal of the open turn and nothing else.
COROLLARY HeldHolds == Spec => []HeldIsActive
  BY AgreementHolds, PTL DEF Agreement

-----------------------------------------------------------------------------
(* The records of a turn.                                                  *)

\* The open turn is open in the database too, and ids that were not issued have no record.
Filed == /\ active # NoTurn => outcome[active.id] = "open" /\ active.id <= last
         /\ \A t \in TurnIds : t > last => outcome[t] = "none"

Books == Inv /\ Filed

LEMMA FiledInit == Init => Filed
  BY DEF Init, Filed

\* Who may write under a turn's name, and who may say how it ended: the open turn's own
\* handlers, and the opening of the next one.
LEMMA OnlyTheOpenTurn ==
    ASSUME Books, Next, NEW t \in TurnIds
    PROVE  /\ lines'[t] # lines[t] \/ outcome'[t] # outcome[t] =>
                  (active # NoTurn /\ t = active.id) \/ t = last + 1
           /\ Filed'
<1> USE DEF inbox, journal, db, hub, life, world, Books, Inv
<1>0. TypeOK /\ last \in Nat /\ active \in Active \union {NoTurn}
  BY TurnsAssumption DEF TypeOK
<1> DEFINE Quiet == UNCHANGED <<lines, outcome, last>>
           Same == Quiet /\ (active' = NoTurn \/ active' = active
                             \/ (active # NoTurn /\ active'.id = active.id))
           Closes == /\ active # NoTurn /\ active' = NoTurn /\ last' = last
                     /\ \E how \in Ended : outcome' = [outcome EXCEPT ![active.id] = how]
                     /\ lines' = lines \/ lines' = [lines EXCEPT ![active.id] = @ + 1]
           Opens == /\ active' # NoTurn /\ active'.id = last + 1 /\ last' = last + 1
                    /\ last + 1 \in TurnIds
                    /\ outcome' = [outcome EXCEPT ![last + 1] = "open"]
                    /\ lines' = lines \/ lines' = [lines EXCEPT ![last + 1] = @ + 1]
           Writes == /\ active # NoTurn /\ UNCHANGED <<outcome, last, active>>
                     /\ lines' = [lines EXCEPT ![active.id] = @ + 1]
<1>1. ASSUME NEW turn, Abandon(turn) PROVE Same \/ Closes
  <2>1. CASE active = NoTurn \/ active.id # turn
    BY <1>1, <2>1 DEF Abandon
  <2>2. CASE ~(active = NoTurn \/ active.id # turn)
    BY <1>1, <2>2 DEF Abandon, Close, WriteLine, Ended
  <2> QED  BY <2>1, <2>2
<1>2. ASSUME DutyTurn PROVE Opens
  <2>1. last + 1 \in TurnIds
    BY <1>2, <1>0, TurnsAssumption DEF DutyTurn, TypeOK, TurnIds
  <2>2. PICK s : s \in Signals /\ Begin(s)
    BY <1>2, <1>0 DEF DutyTurn, TypeOK, Signals
  <2>3. active' \in Active /\ active'.id = last + 1
    BY <1>0, <2>1, <2>2 DEF Begin, Active, TypeOK
  <2>4. lines' = lines \/ lines' = [lines EXCEPT ![last + 1] = @ + 1]
    BY <2>2 DEF Begin, RecordIncoming, WriteLine
  <2>5. Opens
    BY <2>1, <2>2, <2>3, <2>4, TurnsAssumption DEF Begin
  <2> QED  BY <2>5
<1>3. ASSUME SchedulerStep, ~DutyTurn PROVE Same \/ Closes
  <2>1. CASE SettleTurn
    BY <1>1, <2>1 DEF SettleTurn
  <2>2. CASE ~SettleTurn
    BY <1>3, <2>2 DEF SchedulerStep, NextDuty, DutyIdle, DutyNothing, DutyNudge, DutyLearn,
       TurnSpawned, TurnNotSpawned, TurnWatched, LearnBegins, LearnNotSpawned, LearnEnds, Health
  <2> QED  BY <2>1, <2>2
<1>4. ASSUME NEW p \in TurnIds, ProcessStep(p) PROVE Same
  BY <1>4 DEF ProcessStep, Claim, Write, End, Gone
<1>5. ASSUME NEW p \in TurnIds, HubStep(p) PROVE Same \/ Closes \/ Writes
  <2>1. CASE HubClaim(p)
    BY <1>0, <2>1 DEF HubClaim, Active
  <2>2. CASE HubAppend(p)
    BY <2>2 DEF HubAppend, Guard, WriteLine
  <2>3. CASE HubFinish(p)
    BY <2>3 DEF HubFinish, Guard, Close, Ended
  <2>4. CASE Reply(p) \/ ConnCloses(p)
    BY <2>4 DEF Reply, ConnCloses
  <2>5. CASE HubLetsGo(p)
    BY <1>1, <2>5 DEF HubLetsGo
  <2> QED  BY <1>5, <2>1, <2>2, <2>3, <2>4, <2>5 DEF HubStep
<1>6. ASSUME Outside PROVE Same \/ Closes
  <2>1. CASE Interrupt
    BY <2>1 DEF Interrupt, Close, WriteLine, Ended
  <2>2. CASE ~Interrupt
    BY <1>6, <2>2 DEF Outside, Say, SetAlarm, ToolEvent, BackoffElapses
  <2> QED  BY <2>1, <2>2
<1>7. ASSUME Lifecycle PROVE Same
  BY <1>7 DEF Lifecycle, Quit, Crash, Restart
<1>8. Same \/ Closes \/ Opens \/ Writes
  BY <1>2, <1>3, <1>4, <1>5, <1>6, <1>7 DEF Next
<1> HIDE DEF inbox, journal, db, hub, life, world
<1>9. CASE Same
  BY <1>0, <1>9 DEF Filed
<1>10. CASE Closes
  BY <1>0, <1>10 DEF Filed, TypeOK, Active, TurnIds
<1>11. CASE Opens
  <2>1. lines \in [TurnIds -> Nat] /\ outcome \in [TurnIds -> Outcomes]
    BY <1>0 DEF TypeOK
  <2>2. \A x \in TurnIds : x # last + 1 => lines'[x] = lines[x] /\ outcome'[x] = outcome[x]
    BY <1>11, <2>1
  <2>3. outcome'[last + 1] = "open"
    BY <1>11, <2>1
  <2>4. \A x \in TurnIds : x > last + 1 => outcome'[x] = "none"
    BY <1>0, <2>2 DEF Filed, TurnIds
  <2>5. Filed'
    BY <1>0, <1>11, <2>3, <2>4 DEF Filed
  <2> QED  BY <2>2, <2>5
<1>12. CASE Writes
  BY <1>0, <1>12 DEF Filed, TypeOK, Active
<1> QED  BY <1>8, <1>9, <1>10, <1>11, <1>12

LEMMA BooksStep == Books /\ [Next]_vars => Books'
<1> SUFFICES ASSUME Books, [Next]_vars PROVE Books'
  OBVIOUS
<1>1. Inv'
  BY TypeStep, AgreementStep DEF Books, Inv
<1>2. CASE Next
  <2>1. CASE TurnIds = {}     \* a clock that issues no turns leaves nothing to file
    <3>1. Active = {}
      BY <2>1 DEF Active
    <3>2. active' = NoTurn
      BY <1>1, <3>1 DEF Inv, TypeOK
    <3> QED  BY <1>1, <2>1, <3>2 DEF Books, Filed
  <2>2. CASE TurnIds # {}
    <3>1. PICK t : t \in TurnIds
      BY <2>2
    <3>2. Filed'
      BY <1>2, <3>1, OnlyTheOpenTurn
    <3> QED  BY <1>1, <3>2 DEF Books
  <2> QED  BY <2>1, <2>2
<1>3. CASE UNCHANGED vars
  BY <1>1, <1>3 DEF Books, Filed, vars, hub, db
<1> QED  BY <1>2, <1>3

\* Once a turn has ended nothing more is written under its name, whoever still writes.
THEOREM LinesStop == Spec => NoLateLines
<1>1. Init => Books
  BY TypeInit, AgreementInit, FiledInit DEF Books, Inv
<1>2. Books /\ [Next]_vars =>
          [\A t \in TurnIds : outcome[t] \in Ended => lines'[t] = lines[t]]_vars
  <2> SUFFICES ASSUME Books, Next, NEW t \in TurnIds, outcome[t] \in Ended
               PROVE  lines'[t] = lines[t]
    OBVIOUS
  <2>1. (active # NoTurn => t # active.id) /\ t # last + 1
    BY DEF Books, Inv, TypeOK, Filed, Ended, TurnIds
  <2> QED  BY <2>1, OnlyTheOpenTurn
<1> QED  BY <1>1, <1>2, BooksStep, PTL DEF Spec, NoLateLines

\* The first to end a turn decides how it ended.
THEOREM OutcomesStand == Spec => OutcomeIsFinal
<1>1. Init => Books
  BY TypeInit, AgreementInit, FiledInit DEF Books, Inv
<1>2. Books /\ [Next]_vars =>
          [\A t \in TurnIds : outcome[t] \in Ended => outcome'[t] = outcome[t]]_vars
  <2> SUFFICES ASSUME Books, Next, NEW t \in TurnIds, outcome[t] \in Ended
               PROVE  outcome'[t] = outcome[t]
    OBVIOUS
  <2>1. (active # NoTurn => t # active.id) /\ t # last + 1
    BY DEF Books, Inv, TypeOK, Filed, Ended, TurnIds
  <2> QED  BY <2>1, OnlyTheOpenTurn
<1> QED  BY <1>1, <1>2, BooksStep, PTL DEF Spec, OutcomeIsFinal

\* A turn is never opened over one that is still open: the scheduler asks for the next one
\* only when it has none in hand, and then, by the agreement, neither has the hub.
THEOREM NeverOverwritten == Spec => NoTurnOverwritten
<1>1. Init => Books
  BY TypeInit, AgreementInit, FiledInit DEF Books, Inv
<1>2. Books /\ [Next]_vars => [active # NoTurn /\ active' # NoTurn => active'.id = active.id]_vars
  <2> SUFFICES ASSUME Books, Next, active # NoTurn, active' # NoTurn
               PROVE  active'.id = active.id
    OBVIOUS
  <2>0. active \in Active
    BY DEF Books, Inv, TypeOK
  <2> USE DEF hub
  <2>1. ~DutyTurn
    BY DEF DutyTurn, CanAsk, Books, Inv, Agreement, OneThread
  <2>2. ASSUME NEW turn, Abandon(turn) PROVE active' = active
    BY <2>2 DEF Abandon, Close
  <2>3. SchedulerStep => active' = active
    BY <2>1, <2>2 DEF SchedulerStep, NextDuty, DutyIdle, DutyNothing, DutyNudge, DutyLearn, TurnSpawned,
       TurnNotSpawned, TurnWatched, SettleTurn, LearnBegins, LearnNotSpawned, LearnEnds, Health
  <2>4. ASSUME NEW p \in TurnIds, ProcessStep(p) \/ HubStep(p) PROVE active'.id = active.id
    <3>1. CASE HubClaim(p)
      BY <2>0, <3>1 DEF HubClaim, Active
    <3>2. CASE HubLetsGo(p)
      BY <2>2, <3>2 DEF HubLetsGo
    <3>3. CASE ~HubClaim(p) /\ ~HubLetsGo(p)
      BY <2>4, <3>3 DEF ProcessStep, Claim, Write, End, Gone, HubStep, HubAppend, HubFinish, Close,
         Reply, ConnCloses
    <3> QED  BY <3>1, <3>2, <3>3
  <2>5. Outside => active' = active
    BY DEF Outside, Say, SetAlarm, ToolEvent, BackoffElapses, Interrupt, Close
  <2>6. Lifecycle => active' = active
    BY DEF Lifecycle, Quit, Crash, Restart
  <2> QED  BY <2>3, <2>4, <2>5, <2>6 DEF Next
<1> QED  BY <1>1, <1>2, BooksStep, PTL DEF Spec, NoTurnOverwritten

-----------------------------------------------------------------------------
(* Who may abandon the open turn.                                          *)

\* The hub granted turn t to the process p, whether the connection has noted it yet or not.
GrantedTo(p, t) ==
    conn[p].claimed = t \/ (wire[p].op = "claim" /\ wire[p].phase = "granted" /\ wire[p].turn = t)

\* A turn is granted to one process, a connection that must let go has lost its process, and
\* what the scheduler settles has no process or none any more.
NotYetIssued == \A p \in TurnIds :
    /\ procs[p].pc # "none" => p <= last
    /\ \A t \in TurnIds : GrantedTo(p, t) => t <= last
GrantedOnce == active # NoTurn =>
    /\ ~active.claimed => active.by = NoId
    /\ \A p \in TurnIds : GrantedTo(p, active.id) => active.by = p
LetsGoWhenGone == \A p \in TurnIds : conn[p].state = "closing" => procs[p].pc = "gone"
SettledWhenGone ==
    /\ sched.at \in {"spawn", "watch", "settle"} => sched.turn \in TurnIds /\ sched.turn <= last
    /\ sched.at = "spawn" => procs[sched.turn].pc = "none"
    /\ sched.at = "settle" => procs[sched.turn].pc \in {"none", "gone"}
Claimants == NotYetIssued /\ GrantedOnce /\ LetsGoWhenGone /\ SettledWhenGone

\* What a step leaves of the turn that is open.
Keeps == active' = NoTurn \/ active' = active
Same == UNCHANGED <<procs, wire, conn, last, sched>> /\ Keeps

LEMMA ClaimantsInit == Init => Claimants
  BY DEF Init, Claimants, NotYetIssued, GrantedOnce, LetsGoWhenGone, SettledWhenGone, GrantedTo,
         NoProc, NoConn, NoRequest, TurnIds, NoId

\* A step that takes nothing from a process, grants nothing and closes nothing keeps it so.
LEMMA ClaimantsFrame ==
    ASSUME Claimants, TypeOK, UNCHANGED last, Keeps,
           \A p \in TurnIds : /\ (procs'[p].pc = "none") = (procs[p].pc = "none")
                              /\ procs[p].pc = "gone" => procs'[p].pc = "gone"
                              /\ conn'[p].state = "closing" => procs'[p].pc = "gone"
                              /\ \A t \in TurnIds : GrantedTo(p, t)' => GrantedTo(p, t),
           sched' = sched \/ sched'.at \notin {"spawn", "watch", "settle"}
    PROVE  Claimants'
<1>1. NotYetIssued'  BY DEF Claimants, NotYetIssued
<1>2. GrantedOnce'
  <2>1. active # NoTurn => active.id \in TurnIds  BY DEF TypeOK, Active
  <2> QED  BY <2>1 DEF Claimants, GrantedOnce, Keeps
<1>3. LetsGoWhenGone'  BY DEF LetsGoWhenGone
<1>4. SettledWhenGone'  BY DEF Claimants, SettledWhenGone
<1> QED  BY <1>1, <1>2, <1>3, <1>4 DEF Claimants

\* So does one that only ends a turn.
LEMMA ClaimantsSame ==
    ASSUME Claimants, TypeOK, Same
    PROVE  Claimants'
  BY ClaimantsFrame DEF Same, Claimants, LetsGoWhenGone, GrantedTo

LEMMA ClaimantsStep == Books /\ Claimants /\ [Next]_vars => Claimants'
<1> SUFFICES ASSUME Books, Claimants, [Next]_vars PROVE Claimants'
  OBVIOUS
<1>0. /\ TypeOK /\ Agreement /\ Filed
      /\ last \in Nat /\ MaxTurns \in Nat /\ NoId \notin TurnIds
      /\ procs \in [TurnIds -> Proc] /\ wire \in [TurnIds -> Request] /\ conn \in [TurnIds -> Conn]
      /\ sched \in Sched /\ active \in Active \union {NoTurn}
  BY TurnsAssumption DEF Books, Inv, TypeOK, TurnIds, NoId
<1>a. ASSUME NEW turn, Abandon(turn) PROVE Keeps /\ UNCHANGED last
  <2>1. CASE active = NoTurn \/ active.id # turn
    BY <1>a, <2>1 DEF Abandon, hub, db, Keeps
  <2>2. CASE ~(active = NoTurn \/ active.id # turn)
    BY <1>a, <2>2 DEF Abandon, Close, Keeps
  <2> QED  BY <2>1, <2>2
<1>b. ASSUME UNCHANGED <<procs, wire, conn, last, active>>,
             sched'.at \notin {"spawn", "watch", "settle"}
      PROVE  Claimants'
  BY <1>0, <1>b, ClaimantsFrame DEF Keeps, Claimants, LetsGoWhenGone, GrantedTo
<1> USE DEF db, hub, world
<1>1. CASE SchedulerStep
  <2>1. CASE DutyIdle \/ DutyNothing \/ DutyNudge
    BY <1>b, <2>1 DEF DutyIdle, DutyNothing, DutyNudge, Go
  <2>2. ASSUME NEW pass \in {"nap", "night"}, DutyLearn(pass) PROVE Claimants'
    BY <1>b, <2>2 DEF DutyLearn, Go
  <2>3. CASE DutyTurn
    <3>1. PICK s : Begin(s) /\ UNCHANGED world
      BY <2>3 DEF DutyTurn
    <3>2. last + 1 \in TurnIds
      BY <2>3, <1>0, TurnsAssumption DEF DutyTurn, TypeOK, TurnIds
    <3>3. /\ UNCHANGED <<procs, wire, conn>> /\ last' = last + 1
          /\ active'.id = last + 1 /\ active'.by = NoId
          /\ sched' = [at |-> "spawn", turn |-> last + 1]
      BY <3>1 DEF Begin
    <3>4. \A p, t \in TurnIds : GrantedTo(p, t)' = GrantedTo(p, t)
      BY <3>3 DEF GrantedTo
    <3>5. NotYetIssued'
      BY <1>0, <3>3, <3>4 DEF Claimants, NotYetIssued, TurnIds
    <3>6. GrantedOnce'
      BY <1>0, <3>2, <3>3, <3>4 DEF Claimants, NotYetIssued, GrantedOnce
    <3>7. LetsGoWhenGone'
      BY <3>3 DEF Claimants, LetsGoWhenGone
    <3>8. SettledWhenGone'
      BY <1>0, <3>2, <3>3 DEF Claimants, NotYetIssued, SettledWhenGone, Proc
    <3> QED  BY <3>5, <3>6, <3>7, <3>8 DEF Claimants
  <2>4. CASE TurnSpawned
    <3>1. sched.turn \in TurnIds /\ sched.turn <= last
      BY <2>4 DEF TurnSpawned, Claimants, SettledWhenGone
    <3>2. /\ UNCHANGED <<wire, conn, last, active>>
          /\ procs' = [procs EXCEPT ![sched.turn].pc = "started"]
          /\ procs[sched.turn].pc = "none" /\ sched'.at = "watch" /\ sched'.turn = sched.turn
      BY <1>0, <2>4 DEF TurnSpawned, Claimants, SettledWhenGone, Sched
    <3>3. \A p \in TurnIds : p # sched.turn => procs'[p] = procs[p]
      BY <1>0, <3>2
    <3>4. NotYetIssued'
      BY <3>1, <3>2, <3>3 DEF Claimants, NotYetIssued, GrantedTo
    <3>5. GrantedOnce'
      BY <3>2 DEF Claimants, GrantedOnce, GrantedTo
    <3>6. LetsGoWhenGone'
      BY <3>2, <3>3 DEF Claimants, LetsGoWhenGone
    <3>7. SettledWhenGone'
      BY <3>1, <3>2 DEF SettledWhenGone
    <3> QED  BY <3>4, <3>5, <3>6, <3>7 DEF Claimants
  <2>5. CASE TurnNotSpawned \/ TurnWatched
    <3>1. /\ UNCHANGED <<procs, wire, conn, last, active>>
          /\ sched.at \in {"spawn", "watch"} /\ sched'.turn = sched.turn /\ sched'.at = "settle"
          /\ procs[sched.turn].pc \in {"none", "gone"}
      BY <1>0, <2>5 DEF TurnNotSpawned, TurnWatched, Sched, Claimants, SettledWhenGone
    <3>2. NotYetIssued' /\ GrantedOnce' /\ LetsGoWhenGone'
      BY <3>1 DEF Claimants, NotYetIssued, GrantedOnce, LetsGoWhenGone, GrantedTo
    <3>3. SettledWhenGone'
      BY <3>1 DEF Claimants, SettledWhenGone
    <3> QED  BY <3>2, <3>3 DEF Claimants
  <2>6. CASE SettleTurn
    <3>1. Keeps /\ UNCHANGED <<procs, wire, conn, last>> /\ sched'.at = "health"
      BY <1>a, <2>6 DEF SettleTurn, Go
    <3> QED  BY <1>0, <3>1, ClaimantsFrame DEF Claimants, LetsGoWhenGone, GrantedTo
  <2>7. CASE LearnBegins \/ LearnNotSpawned \/ LearnEnds
    BY <1>b, <2>7 DEF LearnBegins, LearnNotSpawned, LearnEnds, Go
  <2>8. ASSUME NEW answers \in BOOLEAN, Health(answers) PROVE Claimants'
    BY <1>b, <2>8 DEF Health, Go
  <2> QED
    BY <1>1, <2>1, <2>2, <2>3, <2>4, <2>5, <2>6, <2>7, <2>8 DEF SchedulerStep, NextDuty
<1>2. ASSUME NEW p \in TurnIds, ProcessStep(p) PROVE Claimants'
  <2>1. /\ UNCHANGED <<last, active, sched>>
        /\ conn' = conn \/ conn' = [conn EXCEPT ![p].state = "open"]
        /\ procs[p].pc # "none" /\ (procs[p].pc = "gone" => FALSE)
        /\ \A q \in TurnIds \ {p} : procs'[q] = procs[q] /\ wire'[q] = wire[q]
        /\ procs'[p].pc # "none"
        /\ wire'[p] = wire[p] \/ wire'[p].phase = "asked"
    BY <1>0, <1>2 DEF ProcessStep, Claim, Write, End, Gone, Ask, NoProc, Proc
  <2>2. \A q \in TurnIds : conn'[q].claimed = conn[q].claimed
                           /\ (conn'[q].state = "closing" => conn[q].state = "closing")
    BY <1>0, <2>1 DEF Conn
  <2>3. \A q, t \in TurnIds : GrantedTo(q, t)' => GrantedTo(q, t)
    BY <2>1, <2>2 DEF GrantedTo
  <2>4. \A q \in TurnIds : conn'[q].state = "closing" => procs'[q].pc = "gone"
    BY <2>1, <2>2 DEF Claimants, LetsGoWhenGone
  <2> QED  BY <1>0, <2>1, <2>3, <2>4, ClaimantsFrame DEF Keeps
<1>3. ASSUME NEW p \in TurnIds, HubStep(p) PROVE Claimants'
  <2>1. CASE HubClaim(p) /\ active # NoTurn /\ ~active.claimed
    <3>1. /\ active' = [active EXCEPT !.claimed = TRUE, !.by = p]
          /\ wire' = [wire EXCEPT ![p] = [op |-> "claim", turn |-> active.id,
                                          epoch |-> active.epoch, phase |-> "granted"]]
          /\ UNCHANGED <<procs, conn, last, sched>>
      BY <2>1 DEF HubClaim
    <3>2. active \in Active /\ active.id \in TurnIds /\ active.id <= last
      BY <1>0, <2>1 DEF Filed, Active
    <3>3. active'.claimed = TRUE /\ active'.by = p /\ active'.id = active.id
      BY <3>1, <3>2 DEF Active
    <3>4. \A q, t \in TurnIds : GrantedTo(q, t)' => GrantedTo(q, t) \/ (q = p /\ t = active.id)
      BY <1>0, <3>1 DEF GrantedTo
    <3>5. \A q \in TurnIds : ~GrantedTo(q, active.id)
      BY <1>0, <2>1 DEF Claimants, GrantedOnce
    <3>6. NotYetIssued'
      BY <3>1, <3>2, <3>4 DEF Claimants, NotYetIssued
    <3>7. GrantedOnce'
      BY <3>2, <3>3, <3>4, <3>5 DEF GrantedOnce
    <3>8. LetsGoWhenGone' /\ SettledWhenGone'
      BY <3>1 DEF Claimants, LetsGoWhenGone, SettledWhenGone
    <3> QED  BY <3>6, <3>7, <3>8 DEF Claimants
  <2>2. CASE (HubClaim(p) /\ ~(active # NoTurn /\ ~active.claimed)) \/ HubAppend(p) \/ HubFinish(p)
    <3>1. Keeps /\ UNCHANGED <<procs, conn, last, sched>>
      BY <2>2 DEF HubClaim, HubAppend, HubFinish, Close, Keeps
    <3>2. \A q \in TurnIds : wire'[q] = wire[q] \/ wire'[q].phase # "granted" \/ wire'[q].op # "claim"
      BY <1>0, <2>2 DEF HubClaim, HubAppend, HubFinish, Asked, Answer, Request
    <3>3. \A q, t \in TurnIds : GrantedTo(q, t)' => GrantedTo(q, t)
      BY <3>1, <3>2 DEF GrantedTo
    <3> QED  BY <1>0, <3>1, <3>3, ClaimantsFrame DEF Claimants, LetsGoWhenGone
  <2>3. CASE Reply(p)
    <3>1. UNCHANGED <<last, active, sched>>
      BY <2>3 DEF Reply
    <3>2. \A q \in TurnIds : /\ (procs'[q].pc = "none") = (procs[q].pc = "none")
                             /\ procs[q].pc = "gone" => procs'[q].pc = "gone"
      BY <1>0, <2>3 DEF Reply, Proc
    <3>3. wire' = [wire EXCEPT ![p] = NoRequest]
      BY <2>3 DEF Reply
    <3>4. \A q \in TurnIds : conn'[q].state = conn[q].state
                             /\ \/ conn'[q].claimed = conn[q].claimed
                                \/ q = p /\ wire[p].phase = "granted" /\ wire[p].op = "claim"
                                   /\ conn'[p].claimed = wire[p].turn
      BY <1>0, <2>3 DEF Reply, Conn
    <3>5. \A q, t \in TurnIds : GrantedTo(q, t)' => GrantedTo(q, t)
      BY <1>0, <3>3, <3>4 DEF GrantedTo, NoRequest
    <3> QED  BY <1>0, <3>1, <3>2, <3>4, <3>5, ClaimantsFrame DEF Claimants, LetsGoWhenGone, Keeps
  <2>4. CASE ConnCloses(p)
    <3>1. UNCHANGED <<procs, wire, last, active, sched>> /\ procs[p].pc = "gone"
      BY <2>4 DEF ConnCloses
    <3>2. \A q \in TurnIds : /\ q # p => conn'[q] = conn[q]
                             /\ conn'[q].claimed \in {conn[q].claimed, NoId}
      BY <1>0, <2>4 DEF ConnCloses, Conn, Closed, NoConn
    <3>3. \A q, t \in TurnIds : GrantedTo(q, t)' => GrantedTo(q, t)
      BY <1>0, <3>1, <3>2 DEF GrantedTo
    <3> QED  BY <1>0, <3>1, <3>2, <3>3, ClaimantsFrame DEF Claimants, LetsGoWhenGone, Keeps
  <2>5. CASE HubLetsGo(p)
    <3>1. Keeps /\ UNCHANGED <<procs, wire, last, sched>> /\ conn' = [conn EXCEPT ![p] = Closed]
      BY <1>a, <2>5 DEF HubLetsGo
    <3>2. \A q, t \in TurnIds : GrantedTo(q, t)' => GrantedTo(q, t)
      BY <1>0, <3>1 DEF GrantedTo, Closed, NoConn
    <3>3. \A q \in TurnIds : conn'[q].state = "closing" => conn[q].state = "closing"
      BY <1>0, <3>1 DEF Closed, NoConn
    <3> QED  BY <1>0, <3>1, <3>2, <3>3, ClaimantsFrame DEF Claimants, LetsGoWhenGone
  <2> QED  BY <1>3, <2>1, <2>2, <2>3, <2>4, <2>5 DEF HubStep
<1>4. CASE Outside
  <2>1. Same
    BY <1>4 DEF Outside, Say, SetAlarm, ToolEvent, BackoffElapses, Interrupt, Close, Same, Keeps
  <2> QED  BY <1>0, <2>1, ClaimantsSame
<1>5. CASE Lifecycle
  <2>1. CASE Quit \/ Crash
    <3>1. Same
      BY <2>1 DEF Quit, Crash, Same, Keeps
    <3> QED  BY <1>0, <3>1, ClaimantsSame
  <2>2. CASE Restart
    <3>1. /\ active' = NoTurn /\ sched'.at = "health" /\ UNCHANGED last
          /\ procs' = [q \in TurnIds |-> IF procs[q].pc = "none" THEN NoProc
                                         ELSE [NoProc EXCEPT !.pc = "gone"]]
          /\ wire' = [q \in TurnIds |-> NoRequest] /\ conn' = [q \in TurnIds |-> NoConn]
      BY <2>2 DEF Restart, Go
    <3>2. \A q \in TurnIds : /\ (procs'[q].pc = "none") = (procs[q].pc = "none")
                             /\ procs[q].pc = "gone" => procs'[q].pc = "gone"
      BY <3>1 DEF NoProc
    <3>3. \A q, t \in TurnIds : ~GrantedTo(q, t)' /\ conn'[q].state # "closing"
      BY <1>0, <3>1 DEF GrantedTo, NoRequest, NoConn
    <3> QED  BY <1>0, <3>1, <3>2, <3>3, ClaimantsFrame DEF Keeps
  <2> QED  BY <1>5, <2>1, <2>2 DEF Lifecycle
<1>6. CASE UNCHANGED vars
  <2>1. Same
    BY <1>6 DEF vars, Same, Keeps
  <2> QED  BY <1>0, <2>1, ClaimantsSame
<1> QED  BY <1>1, <1>2, <1>3, <1>4, <1>5, <1>6 DEF Next

\* A turn that no other process has claimed is abandoned only when its own process is gone or
\* was never started: what the closing connection or the scheduler of an earlier turn still says
\* takes it from nobody (hub.rs, abandon).
THEOREM NoneIsCutOff == Spec => AbandonedOnlyWhenGone
<1>1. Init => Books /\ Claimants
  BY TypeInit, AgreementInit, FiledInit, ClaimantsInit DEF Books, Inv
<1>2. Books /\ Claimants /\ [Next]_vars =>
        [\A t \in TurnIds : outcome[t] = "open" /\ outcome'[t] = "abandoned" =>
             procs[t].pc \in {"none", "gone"} \/ active.by \notin {NoId, t}]_vars
  <2> SUFFICES ASSUME Books, Claimants, Next, NEW t \in TurnIds,
                      outcome[t] = "open", outcome'[t] = "abandoned"
               PROVE  procs[t].pc \in {"none", "gone"} \/ active.by \notin {NoId, t}
    OBVIOUS
  <2>0. TypeOK /\ outcome \in [TurnIds -> Outcomes] /\ NoId \notin TurnIds
    BY DEF Books, Inv, TypeOK, TurnIds, NoId
  <2> USE DEF db, hub, world
  <2>1. ASSUME NEW turn, Abandon(turn) PROVE active # NoTurn /\ active.id = turn /\ t = turn
    <3>1. CASE active = NoTurn \/ active.id # turn
      BY <2>1, <3>1 DEF Abandon
    <3>2. CASE ~(active = NoTurn \/ active.id # turn)
      BY <2>0, <2>1, <3>2 DEF Abandon, Close
    <3> QED  BY <3>1, <3>2
  <2>2. CASE SettleTurn
    BY <2>1, <2>2 DEF SettleTurn, Claimants, SettledWhenGone
  <2>3. ASSUME NEW p \in TurnIds, HubLetsGo(p)
        PROVE  procs[t].pc \in {"none", "gone"} \/ active.by \notin {NoId, t}
    <3>1. active # NoTurn /\ t = active.id /\ conn[p].claimed = t /\ procs[p].pc = "gone"
      BY <2>1, <2>3 DEF HubLetsGo, Claimants, LetsGoWhenGone
    <3>2. active.by = p
      BY <3>1 DEF Claimants, GrantedOnce, GrantedTo
    <3> QED  BY <2>0, <3>1, <3>2
  <2>4. CASE SchedulerStep /\ ~SettleTurn
    <3>1. outcome' = outcome \/ outcome' = [outcome EXCEPT ![last + 1] = "open"]
      BY <2>4 DEF SchedulerStep, NextDuty, DutyIdle, DutyTurn, Begin, DutyNothing, DutyNudge, DutyLearn,
         TurnSpawned, TurnNotSpawned, TurnWatched, LearnBegins, LearnNotSpawned, LearnEnds, Health
    <3> QED  BY <2>0, <3>1
  <2>5. ASSUME NEW p \in TurnIds, (ProcessStep(p) \/ HubStep(p)) /\ ~HubLetsGo(p) PROVE FALSE
    <3>1. outcome' = outcome \/ outcome' = [outcome EXCEPT ![active.id] = "ok"]
      BY <2>5 DEF ProcessStep, Claim, Write, End, Gone, HubStep, HubClaim, HubAppend, HubFinish, Close,
         Reply, ConnCloses
    <3> QED  BY <2>0, <3>1
  <2>6. ASSUME Outside \/ Lifecycle PROVE FALSE
    <3>1. outcome' = outcome \/ outcome' = [outcome EXCEPT ![active.id] = "interrupted"]
      BY <2>6 DEF Outside, Say, SetAlarm, ToolEvent, BackoffElapses, Interrupt, Close,
         Lifecycle, Quit, Crash, Restart
    <3> QED  BY <2>0, <3>1
  <2> QED  BY <2>2, <2>3, <2>4, <2>5, <2>6 DEF Next
<1> QED  BY <1>1, <1>2, BooksStep, ClaimantsStep, PTL DEF Spec, AbandonedOnlyWhenGone

-----------------------------------------------------------------------------
(* The promise.  What becomes of a message, proved for every set of        *)
(* signals, every bound and every schedule: the core keeps the promise of  *)
(* the inbox (Mailbox), and answers a person once, in order, and for good. *)
(*                                                                         *)
(* The argument: whatever the processes, the connections and the mentor    *)
(* do, the inbox, the database and what is written of a message change in  *)
(* six ways only (Moves).  Three of them, the taking, the settling and the *)
(* giving back of a message, are about the one that is held, and by        *)
(* Agreement that is the message of the open turn.                         *)

records == <<recorded, setdown, signalOf, outcome, last, restarts>>

-----------------------------------------------------------------------------
(* The six ways.                                                           *)

\* Nothing of it moves; the open turn may change hands or be forgotten by a core that dies.
Still == /\ UNCHANGED <<inbox, records>> /\ alarms \subseteq alarms'
         /\ \A a \in alarms' : stamp[a] = 0
         /\ active' = active \/ (active # NoTurn /\ active'.id = active.id /\ active'.sig = active.sig)

Arrives(s) == /\ s \in Signals /\ stamp[s] = 0 /\ Push({s})
              /\ UNCHANGED <<cur, tries, alarms, active, records>>

Opens(s, due) ==
    /\ up /\ active = NoTurn /\ due \subseteq alarms /\ last + 1 \in TurnIds
    /\ IsFirst(s, new \union due, [x \in Signals |-> IF x \in due THEN tick + 1 ELSE stamp[x]])
    /\ new' = (new \union due) \ {s} /\ cur' = cur \union {s} /\ alarms' = alarms \ due
    /\ stamp' = [x \in Signals |-> IF x \in due THEN tick + 1 ELSE stamp[x]]
    /\ tick' = IF due = {} THEN tick ELSE tick + 1
    /\ recorded' = IF tries[s] = 0 THEN [recorded EXCEPT ![s] = @ + 1] ELSE recorded
    /\ signalOf' = [signalOf EXCEPT ![last + 1] = {s}]
    /\ outcome' = [outcome EXCEPT ![last + 1] = "open"]
    /\ last' = last + 1 /\ active'.id = last + 1 /\ active'.sig = s
    /\ UNCHANGED <<tries, setdown, restarts>>

\* The open turn ends with its message dealt with: answered, stopped, or set down.
Settles(how) ==
    /\ up /\ active # NoTurn /\ active' = NoTurn
    /\ outcome' = [outcome EXCEPT ![active.id] = how]
    /\ Ack(active.sig)
    /\ \/ how \in {"ok", "interrupted"} /\ setdown' = setdown
       \/ how = "abandoned" /\ IF active.sig \in Human
                               THEN GiveUp(active.sig) /\ setdown' = setdown \union {active.sig}
                               ELSE setdown' = setdown
    /\ UNCHANGED <<alarms, recorded, signalOf, last, restarts>>

GivesBack ==
    /\ up /\ active # NoTurn /\ active' = NoTurn
    /\ outcome' = [outcome EXCEPT ![active.id] = "abandoned"]
    /\ active.sig \in Human /\ ~GiveUp(active.sig) /\ Requeue(active.sig)
    /\ UNCHANGED <<alarms, recorded, setdown, signalOf, last, restarts>>

Recovers == /\ RecoverHeld /\ restarts' = restarts + 1 /\ active' = NoTurn
            /\ UNCHANGED <<stamp, tick, tries, alarms, recorded, setdown, signalOf, outcome, last>>

Moves == \/ Still
         \/ \E s \in Signals : Arrives(s)
         \/ \E due \in SUBSET alarms : \E s \in new \union due : Opens(s, due)
         \/ \E how \in Ended : Settles(how)
         \/ GivesBack
         \/ Recovers

\* Every step of the core is one of the six.
LEMMA EveryStepMoves == Inv /\ [Next]_vars => Moves
<1> SUFFICES ASSUME Inv, [Next]_vars PROVE Moves
  OBVIOUS
<1> USE DEF inbox, journal, db, hub, life, world, records, Inv, Ended
<1>0. TypeOK /\ active \in Active \union {NoTurn} /\ \A a \in alarms : stamp[a] = 0
  BY DEF TypeOK, Agreement, InboxIsSound
<1>1. ASSUME NEW turn, Abandon(turn), up, UNCHANGED <<alarms, restarts>> PROVE Moves
  <2>1. CASE active = NoTurn \/ active.id # turn
    <3>1. UNCHANGED <<inbox, journal, db, hub>>
      BY <1>1, <2>1 DEF Abandon
    <3>2. UNCHANGED <<inbox, records, alarms, active>>
      BY <1>1, <3>1
    <3>3. Still
      BY <1>0, <3>2 DEF Still
    <3> QED  BY <3>3 DEF Moves
  <2>2. CASE ~(active = NoTurn \/ active.id # turn) /\ active.sig \in Human /\ ~GiveUp(active.sig)
    <3>1. GivesBack
      BY <1>1, <2>2 DEF Abandon, Close, GivesBack
    <3> QED  BY <3>1 DEF Moves
  <2>3. CASE ~(active = NoTurn \/ active.id # turn) /\ ~(active.sig \in Human /\ ~GiveUp(active.sig))
    <3>1. Settles("abandoned")
      BY <1>1, <2>3 DEF Abandon, Close, Settles
    <3> QED  BY <3>1 DEF Moves
  <2> QED  BY <2>1, <2>2, <2>3
<1>2. ASSUME DutyTurn PROVE Moves
  <2>1. PICK due \in SUBSET alarms : \E s \in new \union due :
          /\ IsFirst(s, new \union due, [x \in Signals |-> IF x \in due THEN tick + 1 ELSE stamp[x]])
          /\ new' = (new \union due) \ {s}
          /\ cur' = cur \union {s}
          /\ stamp' = [x \in Signals |-> IF x \in due THEN tick + 1 ELSE stamp[x]]
          /\ tick' = IF due = {} THEN tick ELSE tick + 1
          /\ alarms' = alarms \ due
          /\ Begin(s)
    BY <1>2 DEF DutyTurn
  <2>2. PICK s \in new \union due :
          /\ IsFirst(s, new \union due, [x \in Signals |-> IF x \in due THEN tick + 1 ELSE stamp[x]])
          /\ new' = (new \union due) \ {s}
          /\ cur' = cur \union {s}
          /\ stamp' = [x \in Signals |-> IF x \in due THEN tick + 1 ELSE stamp[x]]
          /\ tick' = IF due = {} THEN tick ELSE tick + 1
          /\ alarms' = alarms \ due
          /\ Begin(s)
    BY <2>1
  <2>3. up /\ active = NoTurn /\ last + 1 \in TurnIds
    BY <1>0, <1>2, TurnsAssumption DEF DutyTurn, CanAsk, Agreement, OneThread, TypeOK, TurnIds
  <2>4. Opens(s, due)
    <3>1. UNCHANGED <<tries, setdown, restarts>>
      BY <1>2 DEF DutyTurn
    <3>2. /\ recorded' = IF tries[s] = 0 THEN [recorded EXCEPT ![s] = @ + 1] ELSE recorded
          /\ signalOf' = [signalOf EXCEPT ![last + 1] = {s}]
          /\ outcome' = [outcome EXCEPT ![last + 1] = "open"]
          /\ last' = last + 1 /\ active'.id = last + 1 /\ active'.sig = s
      BY <2>2 DEF Begin, RecordIncoming
    <3> QED  BY <2>2, <2>3, <3>1, <3>2 DEF Opens
  <2> QED  BY <2>4 DEF Moves
<1>3. ASSUME DutyNudge PROVE Moves
  BY <1>3 DEF DutyNudge, Moves, Arrives, Signals
<1>4. ASSUME SchedulerStep, ~DutyTurn, ~DutyNudge PROVE Moves
  <2>1. CASE SettleTurn
    BY <1>1, <2>1 DEF SettleTurn
  <2>2. CASE ~SettleTurn
    <3>1. UNCHANGED <<inbox, records, alarms, active>>
      BY <1>4, <2>2 DEF SchedulerStep, NextDuty, DutyIdle, DutyNothing, DutyLearn, TurnSpawned,
         TurnNotSpawned, TurnWatched, LearnBegins, LearnNotSpawned, LearnEnds, Health
    <3> QED  BY <1>0, <3>1 DEF Moves, Still
  <2> QED  BY <2>1, <2>2
<1>5. ASSUME NEW p \in TurnIds, ProcessStep(p) PROVE Moves
  <2>1. UNCHANGED <<inbox, records, alarms, active>>
    BY <1>5 DEF ProcessStep, Claim, Write, End, Gone
  <2> QED  BY <1>0, <2>1 DEF Moves, Still
<1>6. ASSUME NEW p \in TurnIds, HubStep(p) PROVE Moves
  <2>1. CASE HubClaim(p)
    <3>1. active' = active \/ (active # NoTurn /\ active'.id = active.id /\ active'.sig = active.sig)
      BY <1>0, <2>1 DEF HubClaim, Active
    <3> QED  BY <1>0, <2>1, <3>1 DEF HubClaim, Moves, Still
  <2>2. CASE HubAppend(p) \/ Reply(p) \/ ConnCloses(p)
    BY <1>0, <2>2 DEF HubAppend, Reply, ConnCloses, Moves, Still
  <2>3. CASE HubFinish(p)
    <3>1. CASE Guard(wire[p].turn, wire[p].epoch)
      <4>1. Settles("ok")
        BY <2>3, <3>1 DEF HubFinish, Asked, Guard, Close, Settles
      <4> QED  BY <4>1 DEF Moves
    <3>2. CASE ~Guard(wire[p].turn, wire[p].epoch)
      BY <1>0, <2>3, <3>2 DEF HubFinish, Moves, Still
    <3> QED  BY <3>1, <3>2
  <2>4. CASE HubLetsGo(p)
    BY <1>1, <2>4 DEF HubLetsGo
  <2> QED  BY <1>6, <2>1, <2>2, <2>3, <2>4 DEF HubStep
<1>7. ASSUME Outside PROVE Moves
  <2>1. ASSUME NEW s \in Signals, Say(s) PROVE Arrives(s)
    BY <2>1 DEF Say, Arrives
  <2>2. ASSUME NEW s \in Signals, SetAlarm(s) PROVE Still
    BY <1>0, <2>2 DEF SetAlarm, Still
  <2>3. CASE BackoffElapses \/ \E e \in {"tool_called", "tool_returned"} : ToolEvent(e)
    BY <1>0, <2>3 DEF BackoffElapses, ToolEvent, Moves, Still
  <2>4. CASE Interrupt
    <3>1. Settles("interrupted")
      BY <2>4 DEF Interrupt, Close, Settles
    <3> QED  BY <3>1 DEF Moves
  <2> QED  BY <1>7, <2>1, <2>2, <2>3, <2>4 DEF Outside, Moves
<1>8. ASSUME Lifecycle PROVE Moves
  <2>1. CASE Quit \/ Crash
    BY <1>0, <2>1 DEF Quit, Crash, Moves, Still
  <2>2. CASE Restart
    BY <2>2 DEF Restart, Moves, Recovers
  <2> QED  BY <1>8, <2>1, <2>2 DEF Lifecycle
<1>9. CASE UNCHANGED vars
  BY <1>0, <1>9 DEF vars, Moves, Still
<1> QED  BY <1>2, <1>3, <1>4, <1>5, <1>6, <1>7, <1>8, <1>9 DEF Next

-----------------------------------------------------------------------------
(* The core implements the abstract inbox.                                 *)

Place == [s \in Signals |-> PlaceOf(s)]

LEMMA MailInits == Init => Mail!MailInit
  BY DEF Init, Mail!MailInit, PlaceOf

\* Each of the six ways is a step of Mailbox, or leaves it alone.
LEMMA MailStep == Inv /\ Moves => Mail!MailNext \/ UNCHANGED Mail!mvars
<1> SUFFICES ASSUME Inv, Moves PROVE Mail!MailNext \/ UNCHANGED Mail!mvars
  OBVIOUS
<1> USE DEF inbox, Place
<1>0. /\ TypeOK /\ InboxIsSound /\ (up => cur = IF active = NoTurn THEN {} ELSE {active.sig})
      /\ new \subseteq Signals /\ cur \subseteq Signals /\ new \intersect cur = {}
      /\ stamp \in [Signals -> Nat] /\ tick \in Nat /\ tries \in [Signals -> Nat]
      /\ \A s \in new \union cur : stamp[s] > 0
      /\ Alarms \subseteq Signals /\ alarms \subseteq Alarms /\ \A a \in alarms : stamp[a] = 0
  BY DEF Inv, TypeOK, Agreement, HeldIsActive, InboxIsSound, Signals
<1>1. CASE Still
  BY <1>1 DEF Still, Mail!mvars, PlaceOf
<1>2. ASSUME NEW s \in Signals, Arrives(s) PROVE Mail!MailNext
  <2>1. {s} \subseteq Mail!At("unsent")
    BY <1>2 DEF Arrives, Mail!At, PlaceOf
  <2>2. Place' = [x \in Signals |-> IF x \in {s} THEN "waiting" ELSE Place[x]]
    BY <1>0, <1>2 DEF Arrives, Push, PlaceOf
  <2>3. Mail!Arrive({s})
    BY <1>2, <2>1, <2>2 DEF Arrives, Mail!Arrive, Mail!Move
  <2> QED  BY <2>3 DEF Mail!MailNext
<1>3. ASSUME NEW due \in SUBSET alarms, NEW s \in new \union due, Opens(s, due) PROVE Mail!MailNext
  <2>1. cur = {} /\ s \in Signals /\ due \subseteq Signals
    BY <1>0, <1>3 DEF Opens
  <2>2. Mail!At("held") = {}
    BY <2>1 DEF Mail!At, PlaceOf
  <2>3. due \subseteq Mail!At("unsent")
    BY <1>0, <2>1 DEF Mail!At, PlaceOf
  <2>4. s \in Mail!At("waiting") \union due
    BY <1>0, <2>1 DEF Mail!At, PlaceOf
  <2>5. Place' = [x \in Signals |-> IF x = s THEN "held" ELSE IF x \in due THEN "waiting" ELSE Place[x]]
    BY <1>0, <1>3, <2>1 DEF Opens, PlaceOf
  <2>6. Mail!Take(s, due)
    BY <1>3, <2>2, <2>3, <2>4, <2>5 DEF Opens, Mail!Take
  <2> QED  BY <2>1, <2>6 DEF Mail!MailNext
<1>4. ASSUME NEW how, Settles(how) PROVE Mail!MailNext
  <2>1. cur = {active.sig} /\ active.sig \in Signals /\ active.sig \notin new /\ stamp[active.sig] > 0
    BY <1>0, <1>4 DEF Settles
  <2>2. active.sig \in Mail!At("held")
    BY <2>1 DEF Mail!At, PlaceOf
  <2>3. Place' = [x \in Signals |-> IF x \in {active.sig} THEN "settled" ELSE Place[x]]
    BY <1>0, <1>4, <2>1 DEF Settles, Ack, PlaceOf
  <2>4. Mail!Settle(active.sig)
    BY <1>4, <2>2, <2>3 DEF Settles, Ack, Mail!Settle, Mail!Move
  <2> QED  BY <2>1, <2>4 DEF Mail!MailNext
<1>5. CASE GivesBack
  <2>1. cur = {active.sig} /\ active.sig \in Signals /\ active.sig \notin new /\ stamp[active.sig] > 0
    BY <1>0, <1>5 DEF GivesBack
  <2>2. active.sig \in Human \intersect Mail!At("held")
    BY <1>5, <2>1 DEF GivesBack, Mail!At, PlaceOf
  <2>3. Place' = [x \in Signals |-> IF x \in {active.sig} THEN "waiting" ELSE Place[x]]
    BY <1>0, <1>5, <2>1 DEF GivesBack, Requeue, PlaceOf
  <2>4. tries[active.sig] + 1 < MaxAttempts
    BY <1>0, <1>5, <2>1, TurnsAssumption DEF GivesBack, GiveUp
  <2>5. Mail!GiveBack(active.sig)
    BY <1>5, <2>2, <2>3, <2>4 DEF GivesBack, Requeue, Mail!GiveBack, Mail!Move
  <2> QED  BY <2>1, <2>5 DEF Mail!MailNext
<1>6. CASE Recovers
  <2>1. Place' = [x \in Signals |-> IF x \in Mail!At("held") THEN "waiting" ELSE Place[x]]
    BY <1>0, <1>6 DEF Recovers, RecoverHeld, Mail!At, PlaceOf
  <2>2. Mail!Recover
    BY <1>6, <2>1 DEF Recovers, Mail!Recover, Mail!Move
  <2> QED  BY <2>2 DEF Mail!MailNext
<1> QED  BY <1>1, <1>2, <1>3, <1>4, <1>5, <1>6 DEF Moves

\* The whole core, with its processes, connections, crashes and restarts, does nothing with a
\* message that the abstract inbox does not allow.
THEOREM PromiseKept == Spec => KeepsThePromise
<1>1. Init => Inv /\ Mail!MailInit
  BY TypeInit, AgreementInit, MailInits DEF Inv
<1>2. Inv /\ [Next]_vars => Inv'
  BY TypeStep, AgreementStep DEF Inv
<1>3. Inv /\ [Next]_vars => [Mail!MailNext]_(Mail!mvars)
  BY EveryStepMoves, MailStep
<1> QED  BY <1>1, <1>2, <1>3, PTL DEF Spec, KeepsThePromise, Mail!MailSpec

-----------------------------------------------------------------------------
(* A person is answered, once and in order.  The inbox keeps the order of   *)
(* arrival, since names are never reused; what is left is that the record  *)
(* of a turn names the message it was opened for.                          *)

\* Arrival times are given out once, to one message each.
Stamped == /\ \A s \in Signals : stamp[s] <= tick
           /\ \A s, x \in Human : stamp[s] > 0 /\ stamp[s] = stamp[x] => s = x

\* The record of each turn names the message it was opened for, which had arrived.
Named == /\ \A t \in TurnIds : t > last => signalOf[t] = {}
         /\ \A t \in TurnIds : \A s \in signalOf[t] : stamp[s] > 0
         /\ active # NoTurn => signalOf[active.id] = {active.sig}
         /\ setdown \subseteq Human
         /\ \A s \in setdown : TurnsOf(s) # {}

\* A message has its turn only after every one that came before it had one and was answered.
Queued == \A s, x \in Human : stamp[s] > 0 /\ stamp[s] < stamp[x] =>
              \A u \in TurnsOf(x) : Answered(s) /\ \E t \in TurnsOf(s) : t < u

\* What was dealt with is in no directory, where a crash falls between two handlers: the strength
\* NothingTwice and the promise are proved from.
DealtWithOnce == \A s \in Signals : Answered(s) => s \notin new \union cur

Ledger == Books /\ Stamped /\ Named /\ NothingLost /\ DealtWithOnce /\ Queued

LEMMA LedgerInit == Init => Ledger
<1> SUFFICES ASSUME Init PROVE Ledger
  OBVIOUS
<1>1. Books
  BY TypeInit, AgreementInit, FiledInit DEF Books, Inv
<1>2. \A s \in Signals : TurnsOf(s) = {} /\ ~Answered(s) /\ stamp[s] = 0
  BY DEF Init, TurnsOf, Answered
<1>3. Human \subseteq Signals
  BY DEF Signals
<1>4. Stamped /\ Named
  BY <1>2, <1>3 DEF Init, Stamped, Named
<1> QED  BY <1>1, <1>2, <1>3, <1>4 DEF Ledger, NothingLost, DealtWithOnce, Queued

\* Nothing that was answered is unanswered again, and only the open turn's message is answered.
LEMMA AnswersStand ==
    ASSUME Books, Named, Moves, NEW s \in Signals
    PROVE  /\ Answered(s) => Answered(s)'
           /\ Answered(s)' => Answered(s) \/ (s = active.sig /\ \E how \in Ended : Settles(how))
           /\ \A t \in TurnIds : t \in TurnsOf(s) => t \in TurnsOf(s)' /\ t <= last
           /\ \A t \in TurnIds : t \in TurnsOf(s)' =>
                 t \in TurnsOf(s) \/ (t = last + 1 /\ \E due \in SUBSET alarms : Opens(s, due))
<1>0. /\ outcome \in [TurnIds -> Outcomes] /\ signalOf \in [TurnIds -> SUBSET Signals] /\ last \in Nat
      /\ \A t \in TurnIds : t > last => outcome[t] = "none" /\ signalOf[t] = {}
      /\ active # NoTurn => /\ active.id \in TurnIds /\ outcome[active.id] = "open"
                            /\ signalOf[active.id] = {active.sig}
  BY TurnsAssumption DEF Books, Inv, TypeOK, Filed, Named, Active
<1>t. \A t \in TurnIds : t \in Nat
  BY DEF TurnIds
<1>1. CASE UNCHANGED <<setdown, signalOf, outcome>>
  BY <1>0, <1>1, <1>t DEF Answered, TurnsOf
<1>2. ASSUME NEW due \in SUBSET alarms, NEW x \in new \union due, Opens(x, due)
      PROVE  /\ Answered(s) = Answered(s)'
             /\ \A t \in TurnIds : t \in TurnsOf(s) => t \in TurnsOf(s)' /\ t <= last
             /\ \A t \in TurnIds : t \in TurnsOf(s)' => t \in TurnsOf(s) \/ (t = last + 1 /\ Opens(s, due))
  <2>1. \A t \in TurnIds : t # last + 1 => signalOf'[t] = signalOf[t] /\ outcome'[t] = outcome[t]
    BY <1>0, <1>2 DEF Opens
  <2>2. /\ last + 1 \in TurnIds /\ signalOf'[last + 1] = {x} /\ outcome'[last + 1] = "open"
        /\ signalOf[last + 1] = {} /\ outcome[last + 1] = "none"
    BY <1>0, <1>2 DEF Opens
  <2>3. \A t \in TurnIds : (t \in TurnsOf(s) => t \in TurnsOf(s)' /\ t <= last)
    BY <1>0, <1>t, <2>1, <2>2 DEF TurnsOf
  <2>4. \A t \in TurnIds : t \in TurnsOf(s)' => t \in TurnsOf(s) \/ (t = last + 1 /\ x = s)
    BY <2>1, <2>2 DEF TurnsOf
  <2>5. setdown' = setdown
    BY <1>2 DEF Opens
  <2>6. Answered(s) = Answered(s)'
    BY <2>1, <2>2, <2>5 DEF Answered, TurnsOf
  <2> QED  BY <1>2, <2>3, <2>4, <2>6
<1>3. ASSUME NEW how \in Ended, Settles(how)
      PROVE  /\ Answered(s) => Answered(s)'
             /\ Answered(s)' => Answered(s) \/ s = active.sig
             /\ TurnsOf(s)' = TurnsOf(s) /\ \A t \in TurnIds : t \in TurnsOf(s) => t <= last
  <2>1. /\ active # NoTurn /\ outcome' = [outcome EXCEPT ![active.id] = how] /\ signalOf' = signalOf
        /\ setdown' = setdown \/ setdown' = setdown \union {active.sig}
    BY <1>3 DEF Settles
  <2>2. TurnsOf(s)' = TurnsOf(s) /\ \A t \in TurnIds : t \in TurnsOf(s) => t <= last
    BY <1>0, <1>t, <2>1 DEF TurnsOf
  <2>3. \A t \in TurnIds : t # active.id => outcome'[t] = outcome[t]
    BY <1>0, <2>1
  <2>4. active.id \in TurnsOf(s) => s = active.sig
    BY <1>0, <2>1 DEF TurnsOf
  <2> QED  BY <1>0, <2>1, <2>2, <2>3, <2>4 DEF Answered
<1>4. ASSUME GivesBack
      PROVE  /\ Answered(s)' = Answered(s)
             /\ TurnsOf(s)' = TurnsOf(s) /\ \A t \in TurnIds : t \in TurnsOf(s) => t <= last
  <2>1. /\ active # NoTurn /\ outcome' = [outcome EXCEPT ![active.id] = "abandoned"] /\ signalOf' = signalOf
        /\ setdown' = setdown
    BY <1>4 DEF GivesBack
  <2>2. TurnsOf(s)' = TurnsOf(s) /\ \A t \in TurnIds : t \in TurnsOf(s) => t <= last
    BY <1>0, <1>t, <2>1 DEF TurnsOf
  <2>3. \A t \in TurnIds : outcome'[t] = IF t = active.id THEN "abandoned" ELSE outcome[t]
    BY <1>0, <2>1
  <2> QED  BY <1>0, <2>1, <2>2, <2>3 DEF Answered
<1>5. Still \/ Recovers \/ (\E x \in Signals : Arrives(x)) => UNCHANGED <<setdown, signalOf, outcome>>
  BY DEF Still, Recovers, Arrives, records
<1> QED  BY <1>1, <1>2, <1>3, <1>4, <1>5 DEF Moves

LEMMA StampedStep == Inv /\ Stamped /\ Moves => Stamped'
<1> SUFFICES ASSUME Inv, Stamped, Moves PROVE Stamped'
  OBVIOUS
<1>0. /\ stamp \in [Signals -> Nat] /\ tick \in Nat /\ Human \subseteq Signals
      /\ alarms \subseteq Alarms /\ Human \intersect Alarms = {}
  BY TurnsAssumption DEF Inv, TypeOK, Signals
<1>1. CASE UNCHANGED <<stamp, tick>>
  BY <1>1 DEF Stamped
<1>2. ASSUME NEW s \in Signals, Arrives(s) PROVE Stamped'
  <2>1. \A x \in Signals : stamp'[x] = IF x = s THEN tick + 1 ELSE stamp[x]
    BY <1>0, <1>2 DEF Arrives, Push
  <2>2. tick' = tick + 1
    BY <1>2 DEF Arrives, Push
  <2>3. \A x \in Signals : stamp[x] \in Nat /\ stamp[x] <= tick
    BY <1>0 DEF Stamped
  <2>4. \A x \in Signals : stamp'[x] <= tick'
    BY <1>0, <2>1, <2>2, <2>3
  <2>5. ASSUME NEW x \in Human, NEW y \in Human, stamp'[x] > 0, stamp'[x] = stamp'[y] PROVE x = y
    BY <1>0, <2>1, <2>3, <2>5 DEF Stamped
  <2> QED  BY <2>4, <2>5 DEF Stamped
<1>3. ASSUME NEW due \in SUBSET alarms, NEW s \in new \union due, Opens(s, due) PROVE Stamped'
  <2>1. \A x \in Signals : stamp'[x] = IF x \in due THEN tick + 1 ELSE stamp[x]
    BY <1>0, <1>3 DEF Opens
  <2>2. tick' = IF due = {} THEN tick ELSE tick + 1
    BY <1>3 DEF Opens
  <2>3. \A x \in Signals : stamp[x] \in Nat /\ stamp[x] <= tick
    BY <1>0 DEF Stamped
  <2>4. \A x \in Signals : stamp'[x] <= tick'
    BY <1>0, <2>1, <2>2, <2>3
  <2>5. \A x \in Human : stamp'[x] = stamp[x]
    BY <1>0, <2>1
  <2> QED  BY <2>4, <2>5 DEF Stamped
<1>4. Still \/ Recovers \/ GivesBack \/ (\E how \in Ended : Settles(how)) => UNCHANGED <<stamp, tick>>
  BY DEF Still, Recovers, GivesBack, Requeue, Settles, Ack, inbox
<1> QED  BY <1>1, <1>2, <1>3, <1>4 DEF Moves

\* A message is stamped once, as it arrives.
LEMMA StampsStand ==
    ASSUME Inv, Moves, NEW s \in Signals
    PROVE  /\ stamp[s] > 0 => stamp'[s] = stamp[s]
           /\ stamp'[s] > 0 => stamp[s] > 0 \/ (stamp'[s] = tick + 1 /\ (s \in Human => s \in new'))
           /\ stamp'[s] \in Nat /\ stamp[s] \in Nat
<1>0. /\ stamp \in [Signals -> Nat] /\ tick \in Nat /\ alarms \subseteq Alarms /\ \A a \in alarms : stamp[a] = 0
      /\ Human \intersect Alarms = {}
  BY TurnsAssumption DEF Inv, TypeOK, Agreement, InboxIsSound
<1>1. CASE \E x \in Signals : Arrives(x)
  BY <1>0, <1>1 DEF Arrives, Push
<1>2. CASE \E due \in SUBSET alarms : \E x \in new \union due : Opens(x, due)
  BY <1>0, <1>2 DEF Opens
<1>3. Still \/ Recovers \/ GivesBack \/ (\E how \in Ended : Settles(how)) => stamp' = stamp
  BY DEF Still, Recovers, GivesBack, Requeue, Settles, Ack, inbox
<1> QED  BY <1>0, <1>1, <1>2, <1>3 DEF Moves

LEMMA NamedStep == Books /\ Named /\ Moves => Named'
<1> SUFFICES ASSUME Books, Named, Moves PROVE Named'
  OBVIOUS
<1>0. /\ Inv /\ last \in Nat /\ signalOf \in [TurnIds -> SUBSET Signals] /\ Human \subseteq Signals
      /\ stamp \in [Signals -> Nat]
      /\ \A s \in new \union cur : stamp[s] > 0
      /\ active # NoTurn => active.id \in TurnIds
  BY TurnsAssumption DEF Books, Inv, TypeOK, Signals, Agreement, InboxIsSound, Active
<1>1. \A s \in Signals : stamp[s] > 0 => stamp'[s] > 0
  BY <1>0, StampsStand
<1>2. ASSUME UNCHANGED <<signalOf, setdown, last>>,
             active' = NoTurn \/ active' = active \/ (active # NoTurn /\ active'.id = active.id /\ active'.sig = active.sig)
      PROVE  Named'
  <2>1. \A t \in TurnIds : \A s \in signalOf[t] : s \in Signals /\ stamp'[s] > 0
    BY <1>0, <1>1 DEF Named
  <2>2. \A s \in Signals : TurnsOf(s)' = TurnsOf(s)
    BY <1>2 DEF TurnsOf
  <2>3. active' # NoTurn => active # NoTurn /\ active'.id = active.id /\ active'.sig = active.sig
    BY <1>2
  <2> QED  BY <1>0, <1>2, <2>1, <2>2, <2>3 DEF Named
<1>3. ASSUME NEW due \in SUBSET alarms, NEW s \in new \union due, Opens(s, due) PROVE Named'
  <2>1. \A t \in TurnIds : signalOf'[t] = IF t = last + 1 THEN {s} ELSE signalOf[t]
    BY <1>0, <1>3 DEF Opens
  <2>2. s \in Signals /\ stamp'[s] > 0
    BY <1>0, <1>1, <1>3 DEF Opens, Inv, TypeOK, Signals
  <2>3. \A t \in TurnIds : t \in Nat
    BY DEF TurnIds
  <2>4. last' = last + 1 /\ active'.id = last + 1 /\ active'.sig = s /\ setdown' = setdown /\ last + 1 \in TurnIds
    BY <1>3 DEF Opens
  <2>5. \A t \in TurnIds : t > last' => signalOf'[t] = {}
    BY <1>0, <2>1, <2>3, <2>4 DEF Named
  <2>6. \A t \in TurnIds : \A x \in signalOf'[t] : stamp'[x] > 0
    BY <1>0, <1>1, <2>1, <2>2 DEF Named
  <2>7. \A x \in setdown : TurnsOf(x)' # {}
    <3>1. ASSUME NEW x \in setdown PROVE TurnsOf(x)' # {}
      <4>1. x \in Signals /\ TurnsOf(x) # {}
        BY <1>0 DEF Named
      <4> QED  BY <4>1, AnswersStand DEF TurnsOf
    <3> QED  BY <3>1
  <2> QED  BY <2>1, <2>4, <2>5, <2>6, <2>7 DEF Named
<1>4. ASSUME NEW how \in Ended, Settles(how) PROVE Named'
  <2>1. /\ UNCHANGED <<signalOf, last, stamp>> /\ active' = NoTurn /\ active # NoTurn
        /\ setdown' = setdown \/ (active.sig \in Human /\ setdown' = setdown \union {active.sig})
    BY <1>4 DEF Settles, Ack
  <2>2. \A s \in Signals : TurnsOf(s)' = TurnsOf(s)
    BY <2>1 DEF TurnsOf
  <2>3. active.id \in TurnsOf(active.sig)
    BY <1>0, <2>1 DEF Named, TurnsOf
  <2> QED  BY <1>0, <2>1, <2>2, <2>3 DEF Named
<1>5. Still \/ Recovers \/ GivesBack \/ (\E x \in Signals : Arrives(x)) =>
        /\ UNCHANGED <<signalOf, setdown, last>>
        /\ active' = NoTurn \/ active' = active \/ (active # NoTurn /\ active'.id = active.id /\ active'.sig = active.sig)
  BY DEF Still, Recovers, GivesBack, Arrives, records
<1> QED  BY <1>2, <1>3, <1>4, <1>5 DEF Moves

\* What leaves the inbox for good has been answered, and what was answered has left it for good.
LEMMA InboxStep ==
    ASSUME Ledger, Moves
    PROVE  NothingLost' /\ DealtWithOnce'
<1>0. /\ Inv /\ Books /\ Named /\ Human \subseteq Signals /\ alarms \subseteq Signals
      /\ new \subseteq Signals /\ cur \subseteq Signals /\ new \intersect cur = {}
      /\ \A s \in new \union cur : stamp[s] > 0
      /\ \A a \in alarms : stamp[a] = 0
      /\ (up => cur = IF active = NoTurn THEN {} ELSE {active.sig})
  BY DEF Ledger, Books, Inv, TypeOK, Agreement, HeldIsActive, InboxIsSound, Signals
<1>1. \A s \in Signals : Answered(s) => s \notin new \union cur
  BY DEF Ledger, DealtWithOnce
<1>2. \A s \in Signals : Answered(s) => stamp[s] > 0
  BY <1>0 DEF Named, Answered, TurnsOf
<1>3. \A s \in Human : stamp[s] > 0 => s \in new \union cur \/ Answered(s)
  BY DEF Ledger, NothingLost
<1>4. ASSUME NEW s \in Signals
      PROVE  /\ Answered(s) => Answered(s)'
             /\ Answered(s)' => Answered(s) \/ (s = active.sig /\ \E how \in Ended : Settles(how))
             /\ stamp'[s] > 0 => stamp[s] > 0 \/ (s \in Human => s \in new')
  BY <1>0, AnswersStand, StampsStand
<1>5. CASE UNCHANGED <<new, cur>> /\ ~\E how \in Ended : Settles(how)
  <2>1. DealtWithOnce'
    BY <1>1, <1>4, <1>5 DEF DealtWithOnce
  <2>2. NothingLost'
    BY <1>0, <1>3, <1>4, <1>5 DEF NothingLost
  <2> QED  BY <2>1, <2>2
<1>6. ASSUME NEW x \in Signals, Arrives(x) PROVE NothingLost' /\ DealtWithOnce'
  <2>1. new' = new \union {x} /\ cur' = cur /\ ~Answered(x) /\ UNCHANGED <<setdown, signalOf, outcome>>
    BY <1>2, <1>6 DEF Arrives, Push, records
  <2>2. \A s \in Signals : Answered(s)' <=> Answered(s)
    BY <2>1 DEF Answered, TurnsOf
  <2> QED  BY <1>0, <1>1, <1>3, <1>4, <2>1, <2>2 DEF NothingLost, DealtWithOnce
<1>7. ASSUME NEW due \in SUBSET alarms, NEW x \in new \union due, Opens(x, due) PROVE NothingLost' /\ DealtWithOnce'
  <2>1. /\ x \in new' \union cur' /\ new' \union cur' = new \union cur \union due
        /\ UNCHANGED setdown /\ active = NoTurn
    BY <1>0, <1>7 DEF Opens
  <2>2. \A s \in Signals : Answered(s)' <=> Answered(s)
    <3>1. ~\E how \in Ended : Settles(how)
      BY <2>1 DEF Settles
    <3> QED  BY <1>4, <3>1
  <2>3. \A s \in due : ~Answered(s)
    BY <1>0, <1>2, <2>1
  <2> QED  BY <1>0, <1>1, <1>3, <1>4, <2>1, <2>2, <2>3 DEF NothingLost, DealtWithOnce
<1>8. ASSUME NEW how \in Ended, Settles(how) PROVE NothingLost' /\ DealtWithOnce'
  <2>1. /\ active # NoTurn /\ cur = {active.sig} /\ cur' = {} /\ new' = new /\ stamp' = stamp
        /\ active.sig \in Signals /\ active.id \in TurnIds
    BY <1>0, <1>8 DEF Settles, Ack, Inv, TypeOK, Active
  <2>2. ASSUME NEW s \in Human, s = active.sig PROVE Answered(s)'
    <3>1. /\ outcome \in [TurnIds -> Outcomes] /\ signalOf[active.id] = {active.sig} /\ signalOf' = signalOf
          /\ outcome' = [outcome EXCEPT ![active.id] = how]
      BY <1>0, <1>8, <2>1 DEF Settles, Named, Inv, TypeOK
    <3>2. how = "abandoned" /\ active.sig \in Human => active.sig \in setdown'
      BY <1>8 DEF Settles
    <3>3. outcome'[active.id] = how
      BY <2>1, <3>1
    <3>4. active.id \in TurnsOf(s)'
      BY <2>1, <2>2, <3>1 DEF TurnsOf
    <3> QED  BY <2>2, <3>2, <3>3, <3>4 DEF Answered, Ended
  <2>3. active.sig \notin new
    BY <1>0, <2>1
  <2>4. DealtWithOnce'
    BY <1>1, <1>4, <2>1, <2>3 DEF DealtWithOnce
  <2>5. NothingLost'
    BY <1>0, <1>3, <1>4, <2>1, <2>2 DEF NothingLost
  <2> QED  BY <2>4, <2>5
<1>9. CASE GivesBack \/ Recovers
  <2>1. new' \union cur' = new \union cur /\ stamp' = stamp
    BY <1>0, <1>9 DEF GivesBack, Requeue, Recovers, RecoverHeld
  <2>2. \A s \in Signals : Answered(s)' <=> Answered(s)
    <3>1. CASE Recovers
      BY <3>1 DEF Recovers, Answered, TurnsOf
    <3>2. CASE GivesBack
      <4>1. /\ active # NoTurn /\ outcome \in [TurnIds -> Outcomes] /\ outcome[active.id] = "open"
            /\ outcome' = [outcome EXCEPT ![active.id] = "abandoned"] /\ UNCHANGED <<setdown, signalOf>>
        BY <1>0, <3>2 DEF GivesBack, Books, Filed, Inv, TypeOK
      <4>2. \A t \in TurnIds : outcome'[t] \in {"ok", "interrupted"} <=> outcome[t] \in {"ok", "interrupted"}
        BY <4>1
      <4> QED  BY <4>1, <4>2 DEF Answered, TurnsOf
    <3> QED  BY <1>9, <3>1, <3>2
  <2> QED  BY <1>0, <1>1, <1>3, <2>1, <2>2 DEF NothingLost, DealtWithOnce
<1>10. CASE Still
  <2>1. CASE \E how \in Ended : Settles(how)
    BY <1>8, <2>1
  <2> QED  BY <1>5, <1>10, <2>1 DEF Still, inbox
<1> QED  BY <1>6, <1>7, <1>8, <1>9, <1>10 DEF Moves

\* Who had no turn before those that came earlier were answered, still has none.
LEMMA QueuedStep == Ledger /\ Moves => Queued'
<1> SUFFICES ASSUME Ledger, Moves, NEW s \in Human, NEW x \in Human,
                    stamp'[s] > 0, stamp'[s] < stamp'[x], NEW u \in TurnsOf(x)'
             PROVE  Answered(s)' /\ \E t \in TurnsOf(s)' : t < u
  BY DEF Queued
<1>0. /\ Inv /\ Books /\ Stamped /\ Named /\ s \in Signals /\ x \in Signals /\ u \in TurnIds
      /\ stamp \in [Signals -> Nat] /\ tick \in Nat /\ last \in Nat /\ \A t \in TurnIds : t \in Nat
      /\ alarms \subseteq Alarms /\ Human \intersect Alarms = {}
      /\ (up => cur = IF active = NoTurn THEN {} ELSE {active.sig})
  <2>1. Inv /\ Books /\ Stamped /\ Named  BY DEF Ledger, Books
  <2>2. TypeOK /\ HeldIsActive  BY <2>1 DEF Inv, Agreement
  <2>3. stamp \in [Signals -> Nat] /\ tick \in Nat /\ last \in 0..MaxTurns /\ alarms \subseteq Alarms
    BY <2>2 DEF TypeOK
  <2>4. s \in Signals /\ x \in Signals /\ u \in TurnIds  BY DEF Signals, TurnsOf
  <2>5. last \in Nat /\ \A t \in TurnIds : t \in Nat  BY <2>3, TurnsAssumption DEF TurnIds
  <2>6. Human \intersect Alarms = {}  BY TurnsAssumption
  <2> QED  BY <2>1, <2>2, <2>3, <2>4, <2>5, <2>6 DEF HeldIsActive
<1>1. SUFFICES Answered(s) /\ \E t \in TurnsOf(s) : t < u
  <2>1. Answered(s)'
    BY <1>0, <1>1, AnswersStand
  <2>2. PICK t \in TurnsOf(s) : t < u
    BY <1>1
  <2>3. t \in TurnsOf(s)'
    BY <1>0, <2>2, AnswersStand DEF TurnsOf
  <2> QED  BY <2>1, <2>2, <2>3
<1>2. CASE u \in TurnsOf(x)
  <2>1. stamp[x] > 0
    BY <1>0, <1>2 DEF Named, TurnsOf
  <2>2. stamp'[x] = stamp[x] /\ stamp[x] <= tick /\ stamp[x] \in Nat
    BY <1>0, <2>1, StampsStand DEF Stamped
  <2>3. stamp[s] > 0 /\ stamp'[s] = stamp[s]
    BY <1>0, <2>2, StampsStand
  <2> QED  BY <1>2, <2>1, <2>2, <2>3 DEF Ledger, Queued
<1>3. ASSUME u = last + 1, NEW due \in SUBSET alarms, Opens(x, due)
      PROVE  Answered(s) /\ \E t \in TurnsOf(s) : t < u
  <2>1. stamp'[s] = stamp[s] /\ stamp'[x] = stamp[x] /\ s \notin due /\ x \notin due
    BY <1>0, <1>3 DEF Opens
  <2>2. s \notin new
    <3>1. SUFFICES ASSUME s \in new PROVE FALSE
      OBVIOUS
    <3>2. Rank(s) = 0 /\ Rank(x) = 0
      BY TurnsAssumption DEF Rank
    <3>3. stamp'[x] <= stamp'[s]
      BY <1>0, <1>3, <3>1, <3>2 DEF Opens, IsFirst
    <3> QED  BY <1>0, <2>1, <3>3
  <2>3. Answered(s)
    BY <1>0, <1>3, <2>1, <2>2 DEF Opens, Ledger, NothingLost
  <2>4. PICK t \in TurnIds : t \in TurnsOf(s)
    BY <1>0, <2>3 DEF Answered, Named, TurnsOf
  <2>5. t <= last
    BY <1>0, <2>4, AnswersStand
  <2>6. t < u
    BY <1>0, <1>3, <2>5
  <2> QED  BY <2>3, <2>4, <2>6
<1> QED  BY <1>0, <1>2, <1>3, AnswersStand

LEMMA LedgerStep == Ledger /\ [Next]_vars => Ledger'
<1> SUFFICES ASSUME Ledger, [Next]_vars PROVE Ledger'
  OBVIOUS
<1>1. Inv /\ Books /\ Stamped /\ Named
  BY DEF Ledger, Books
<1>2. Moves
  BY <1>1, EveryStepMoves
<1>3. Books'
  BY <1>1, BooksStep
<1> QED
  BY <1>1, <1>2, <1>3, StampedStep, NamedStep, InboxStep, QueuedStep DEF Ledger

LEMMA InOrderFollows == Ledger => InOrder
<1> SUFFICES ASSUME Ledger, NEW s \in Human, NEW x \in Human, Answered(x), ~Answered(s),
                    \/ stamp[s] > 0 /\ stamp[s] < stamp[x]
                    \/ \E t \in TurnsOf(s) : \A u \in TurnsOf(x) : t < u
             PROVE  FALSE
  BY DEF InOrder
<1>0. /\ Stamped /\ Named /\ Queued /\ s \in Signals /\ x \in Signals /\ stamp \in [Signals -> Nat]
      /\ \A t \in TurnIds : t \in Nat
  BY DEF Ledger, Books, Inv, TypeOK, Signals, TurnIds
<1>1. PICK u \in TurnIds : u \in TurnsOf(x)
  BY <1>0 DEF Answered, Named, TurnsOf
<1>2. ~(stamp[s] > 0 /\ stamp[s] < stamp[x])
  BY <1>0, <1>1 DEF Queued
<1>3. PICK t \in TurnsOf(s) : \A w \in TurnsOf(x) : t < w
  BY <1>2
<1>4. t \in TurnIds /\ stamp[s] > 0 /\ stamp[x] > 0
  BY <1>0, <1>1 DEF Named, TurnsOf
<1>5. stamp[x] < stamp[s]
  BY <1>0, <1>2, <1>4 DEF Stamped
<1>6. PICK w \in TurnsOf(x) : w < t
  BY <1>4, <1>5, <1>0 DEF Queued
<1>7. w \in TurnIds /\ t < w
  BY <1>3, <1>6 DEF TurnsOf
<1> QED  BY <1>0, <1>4, <1>6, <1>7

LEMMA LedgerHolds == Spec => []Ledger
  BY LedgerInit, LedgerStep, PTL DEF Spec

\* Losing a person's message is not survivable: it waits, is held, or was dealt with, in every state.
THEOREM NothingIsEverLost == Spec => []NothingLost
  BY LedgerHolds, PTL DEF Ledger

\* While the core stays up, what was dealt with never comes back, for whomever it was.
THEOREM NothingComesTwice == Spec => []NothingTwice
<1>1. Ledger => NothingTwice
  BY DEF Ledger, DealtWithOnce, NothingTwice
<1> QED  BY <1>1, LedgerHolds, PTL

\* People are answered in the order they spoke, and in the order their turns began.
THEOREM OrderIsKept == Spec => []InOrder
<1>1. Ledger => InOrder
  BY InOrderFollows
<1> QED  BY <1>1, LedgerHolds, PTL

-----------------------------------------------------------------------------
(* What is written of a message, and how often it is tried.                 *)

\* A message may be written down once more only where it is tried for the first time: when it has
\* yet to be taken in this life of the core.
Fresh(s) == tries[s] = 0 /\ (s \in new \/ stamp[s] = 0)

Written ==
    \A s \in Signals : /\ recorded[s] <= restarts + (IF Fresh(s) THEN 0 ELSE 1)
                       /\ TurnsOf(s) # {} \/ tries[s] > 0 => recorded[s] >= 1

LEMMA WrittenStep == Ledger /\ Written /\ Moves => Written'
<1> SUFFICES ASSUME Ledger, Written, Moves, NEW s \in Signals
             PROVE  /\ recorded'[s] <= restarts' + (IF Fresh(s)' THEN 0 ELSE 1)
                    /\ TurnsOf(s)' # {} \/ tries'[s] > 0 => recorded'[s] >= 1
  BY DEF Written
<1>0. /\ Inv /\ Books /\ Named /\ recorded \in [Signals -> Nat] /\ restarts \in Nat /\ tries \in [Signals -> Nat]
      /\ stamp \in [Signals -> Nat] /\ tick \in Nat /\ new \intersect cur = {}
      /\ \A x \in new \union cur : stamp[x] > 0
      /\ \A a \in alarms : stamp[a] = 0
      /\ (up => cur = IF active = NoTurn THEN {} ELSE {active.sig})
      /\ active # NoTurn => active.id \in TurnIds /\ active.sig \in Signals
      /\ signalOf \in [TurnIds -> SUBSET Signals] /\ last \in Nat /\ alarms \subseteq Signals
  BY TurnsAssumption DEF Ledger, Books, Inv, TypeOK, Agreement, HeldIsActive, InboxIsSound, Active, Signals
<1>1. /\ recorded[s] <= restarts + (IF Fresh(s) THEN 0 ELSE 1)
      /\ TurnsOf(s) # {} \/ tries[s] > 0 => recorded[s] >= 1
  BY DEF Written
<1>2. CASE Still
  <2>1. (Fresh(s)' <=> Fresh(s)) /\ TurnsOf(s)' = TurnsOf(s)
    BY <1>2 DEF Still, records, inbox, Fresh, TurnsOf
  <2> QED  BY <1>1, <1>2, <2>1 DEF Still, records, inbox
<1>3. ASSUME NEW x \in Signals, Arrives(x)
      PROVE  /\ recorded'[s] <= restarts' + (IF Fresh(s)' THEN 0 ELSE 1)
             /\ TurnsOf(s)' # {} \/ tries'[s] > 0 => recorded'[s] >= 1
  <2>1. (Fresh(s)' <=> Fresh(s)) /\ TurnsOf(s)' = TurnsOf(s)
    BY <1>0, <1>3 DEF Arrives, Push, records, Fresh, TurnsOf
  <2> QED  BY <1>1, <1>3, <2>1 DEF Arrives, records
<1>4. ASSUME NEW due \in SUBSET alarms, NEW x \in new \union due, Opens(x, due)
      PROVE  /\ recorded'[s] <= restarts' + (IF Fresh(s)' THEN 0 ELSE 1)
             /\ TurnsOf(s)' # {} \/ tries'[s] > 0 => recorded'[s] >= 1
  <2>0. UNCHANGED <<tries, restarts>>
    BY <1>4 DEF Opens
  <2>1. CASE s # x
    <3>1. recorded'[s] = recorded[s]
      BY <1>0, <1>4, <2>1 DEF Opens
    <3>2. Fresh(s)' <=> Fresh(s)
      BY <1>0, <1>4, <2>0, <2>1 DEF Opens, Fresh
    <3>3. \A t \in TurnIds : signalOf'[t] = {s} => signalOf[t] = {s}
      BY <1>0, <1>4, <2>1 DEF Opens
    <3>4. TurnsOf(s)' # {} => TurnsOf(s) # {}
      BY <3>3 DEF TurnsOf
    <3> QED  BY <1>1, <2>0, <3>1, <3>2, <3>4
  <2>2. CASE s = x
    <3>1. s \notin new' /\ stamp'[s] > 0
      BY <1>0, <1>4, <2>2 DEF Opens
    <3>2. ~Fresh(s)'
      BY <3>1 DEF Fresh
    <3>3. tries[s] = 0 => Fresh(s) /\ recorded'[s] = recorded[s] + 1
      BY <1>0, <1>4, <2>2 DEF Opens, Fresh
    <3>4. tries[s] # 0 => recorded'[s] = recorded[s]
      BY <1>4, <2>2 DEF Opens
    <3> QED  BY <1>0, <1>1, <2>0, <3>2, <3>3, <3>4
  <2> QED  BY <2>1, <2>2
<1>5. CASE \E how \in Ended : Settles(how)
  <2>1. UNCHANGED <<new, stamp, tries, recorded, restarts, signalOf>>
    BY <1>5 DEF Settles, Ack
  <2>2. (Fresh(s)' <=> Fresh(s)) /\ TurnsOf(s)' = TurnsOf(s)
    BY <2>1 DEF Fresh, TurnsOf
  <2> QED  BY <1>1, <2>1, <2>2
<1>6. CASE GivesBack
  <2>1. UNCHANGED <<recorded, restarts, signalOf, stamp>> /\ cur = {active.sig} /\ active.sig \notin new
    BY <1>0, <1>6 DEF GivesBack, Requeue
  <2>2. TurnsOf(s)' = TurnsOf(s)
    BY <2>1 DEF TurnsOf
  <2>3. CASE s # active.sig
    <3>1. tries'[s] = tries[s] /\ (s \in new' <=> s \in new)
      BY <1>0, <1>6, <2>3 DEF GivesBack, Requeue
    <3>2. Fresh(s)' <=> Fresh(s)
      BY <2>1, <3>1 DEF Fresh
    <3> QED  BY <1>1, <2>1, <2>2, <3>1, <3>2
  <2>4. CASE s = active.sig
    <3>1. tries'[s] = tries[s] + 1
      BY <1>0, <1>6, <2>4 DEF GivesBack, Requeue
    <3>2. ~Fresh(s)'
      BY <1>0, <3>1 DEF Fresh
    <3>3. active.id \in TurnsOf(s)
      BY <1>0, <1>6, <2>4 DEF GivesBack, Named, TurnsOf
    <3> QED  BY <1>0, <1>1, <2>1, <3>2, <3>3
  <2> QED  BY <2>3, <2>4
<1>7. CASE Recovers
  <2>1. restarts' = restarts + 1 /\ UNCHANGED <<tries, recorded, signalOf>>
    BY <1>7 DEF Recovers
  <2>2. TurnsOf(s)' = TurnsOf(s)
    BY <2>1 DEF TurnsOf
  <2> QED  BY <1>0, <1>1, <2>1, <2>2
<1> QED  BY <1>2, <1>3, <1>4, <1>5, <1>6, <1>7 DEF Moves

\* What came in is in the journal once a turn was opened for it, and once more only for each time
\* the core went away.
THEOREM WrittenOnceALife == Spec => []WrittenDown
<1>1. Init => Written
  BY DEF Init, Written, TurnsOf, Fresh
<1>2. Ledger /\ Written /\ [Next]_vars => Written'
  BY WrittenStep, EveryStepMoves DEF Ledger, Books
<1>3. Ledger /\ Written => WrittenDown
  <2> SUFFICES ASSUME Ledger, Written, NEW s \in Signals, TurnsOf(s) # {}
               PROVE  recorded[s] >= 1 /\ recorded[s] <= 1 + restarts
    BY DEF WrittenDown
  <2>1. recorded[s] \in Nat /\ restarts \in Nat
    BY DEF Ledger, Books, Inv, TypeOK
  <2> QED  BY <2>1 DEF Written
<1> QED  BY <1>1, <1>2, <1>3, LedgerInit, LedgerStep, PTL DEF Spec

\* Each failure of a message is counted where the next attempt will see it.
Counted ==
    /\ \A s \in Human : /\ Cardinality(FailedTurns(s)) = tries[s] + (IF s \in setdown THEN 1 ELSE 0)
                        /\ tries[s] < MaxAttempts
                        /\ s \in setdown => tries[s] + 1 = MaxAttempts
    /\ \A s \in Signals \ Human : FailedTurns(s) # {} =>
           Cardinality(FailedTurns(s)) = 1 /\ s \notin new \union cur /\ stamp[s] > 0

LEMMA FailedIsFinite == ASSUME NEW s PROVE IsFiniteSet(FailedTurns(s))
<1>1. IsFiniteSet(TurnIds)
  BY TurnsAssumption, FS_Interval DEF TurnIds
<1>2. FailedTurns(s) \subseteq TurnIds
  BY DEF FailedTurns, TurnsOf
<1> QED  BY <1>1, <1>2, FS_Subset

\* Only the turn that is given up on, or given back, joins the failures, and only those of its message.
LEMMA FailuresMove ==
    ASSUME Ledger, Moves, NEW s \in Signals
    PROVE  IF s = active.sig /\ (GivesBack \/ Settles("abandoned"))
           THEN FailedTurns(s)' = FailedTurns(s) \union {active.id} /\ active.id \notin FailedTurns(s)
           ELSE FailedTurns(s)' = FailedTurns(s)
<1>0. /\ outcome \in [TurnIds -> Outcomes] /\ signalOf \in [TurnIds -> SUBSET Signals] /\ last \in Nat
      /\ \A t \in TurnIds : t > last => outcome[t] = "none" /\ signalOf[t] = {}
      /\ active # NoTurn => /\ active.id \in TurnIds /\ outcome[active.id] = "open"
                            /\ signalOf[active.id] = {active.sig}
  BY TurnsAssumption DEF Ledger, Books, Inv, TypeOK, Filed, Named, Active
<1>1. ASSUME UNCHANGED <<signalOf, outcome>> PROVE FailedTurns(s)' = FailedTurns(s)
  BY <1>1 DEF FailedTurns, TurnsOf
<1>2. ASSUME NEW due \in SUBSET alarms, NEW x \in new \union due, Opens(x, due)
      PROVE  FailedTurns(s)' = FailedTurns(s) /\ active = NoTurn
  <2>1. \A t \in TurnIds : t # last + 1 => signalOf'[t] = signalOf[t] /\ outcome'[t] = outcome[t]
    BY <1>0, <1>2 DEF Opens
  <2>2. /\ last + 1 \in TurnIds /\ outcome'[last + 1] = "open" /\ outcome[last + 1] = "none" /\ active = NoTurn
    BY <1>0, <1>2 DEF Opens
  <2> QED  BY <2>1, <2>2 DEF FailedTurns, TurnsOf
<1>3. ASSUME NEW how \in Ended, outcome' = [outcome EXCEPT ![active.id] = how], signalOf' = signalOf,
             active # NoTurn
      PROVE  IF s = active.sig /\ how = "abandoned"
             THEN FailedTurns(s)' = FailedTurns(s) \union {active.id} /\ active.id \notin FailedTurns(s)
             ELSE FailedTurns(s)' = FailedTurns(s)
  <2>1. \A t \in TurnIds : outcome'[t] = IF t = active.id THEN how ELSE outcome[t]
    BY <1>0, <1>3
  <2>2. active.id \in TurnIds /\ outcome[active.id] = "open" /\ signalOf[active.id] = {active.sig}
    BY <1>0, <1>3
  <2> QED  BY <1>3, <2>1, <2>2 DEF FailedTurns, TurnsOf
<1>4. ASSUME NEW how \in Ended, Settles(how), GivesBack \/ Settles("abandoned") PROVE how = "abandoned"
  <2>1. active.id \in TurnIds /\ outcome'[active.id] = how
    BY <1>0, <1>4 DEF Settles
  <2>2. outcome'[active.id] = "abandoned"
    BY <1>0, <1>4, <2>1 DEF Settles, GivesBack
  <2> QED  BY <2>1, <2>2
<1>5. CASE \E how \in Ended : Settles(how)
  <2>1. PICK how \in Ended : Settles(how)
    BY <1>5
  <2>2. how = "abandoned" <=> GivesBack \/ Settles("abandoned")
    BY <1>4, <2>1
  <2>3. outcome' = [outcome EXCEPT ![active.id] = how] /\ signalOf' = signalOf /\ active # NoTurn
    BY <2>1 DEF Settles
  <2> QED  BY <1>3, <2>2, <2>3
<1>6. CASE GivesBack
  <2>1. outcome' = [outcome EXCEPT ![active.id] = "abandoned"] /\ signalOf' = signalOf /\ active # NoTurn
    BY <1>6 DEF GivesBack
  <2> QED  BY <1>3, <1>6, <2>1 DEF Ended
<1>7. CASE ~GivesBack /\ ~\E how \in Ended : Settles(how)
  <2>1. Still \/ Recovers \/ (\E x \in Signals : Arrives(x)) => UNCHANGED <<signalOf, outcome>>
    BY DEF Still, Recovers, Arrives, records
  <2>2. FailedTurns(s)' = FailedTurns(s)
    BY <1>1, <1>2, <1>7, <2>1 DEF Moves
  <2>3. ~Settles("abandoned")
    BY <1>7 DEF Ended
  <2> QED  BY <1>7, <2>2, <2>3
<1> QED  BY <1>5, <1>6, <1>7

LEMMA CountedStep == Ledger /\ Counted /\ Moves => Counted'
<1> SUFFICES ASSUME Ledger, Counted, Moves PROVE Counted'
  OBVIOUS
<1>0. /\ tries \in [Signals -> Nat] /\ stamp \in [Signals -> Nat] /\ MaxAttempts \in Nat /\ Human \subseteq Signals
      /\ (up => cur = IF active = NoTurn THEN {} ELSE {active.sig}) /\ new \intersect cur = {}
      /\ \A x \in new \union cur : stamp[x] > 0
      /\ \A a \in alarms : stamp[a] = 0
      /\ active # NoTurn => active.sig \in Signals /\ signalOf[active.id] = {active.sig}
      /\ Inv /\ DealtWithOnce
  BY TurnsAssumption DEF Ledger, Books, Inv, TypeOK, Agreement, HeldIsActive, InboxIsSound, Named, Active, Signals
<1>1. ASSUME NEW s \in Human
      PROVE  /\ Cardinality(FailedTurns(s)') = tries'[s] + (IF s \in setdown' THEN 1 ELSE 0)
             /\ tries'[s] < MaxAttempts
             /\ s \in setdown' => tries'[s] + 1 = MaxAttempts
  <2>0. /\ Cardinality(FailedTurns(s)) = tries[s] + (IF s \in setdown THEN 1 ELSE 0)
        /\ tries[s] < MaxAttempts /\ tries[s] \in Nat /\ s \in Signals
        /\ s \in setdown => tries[s] + 1 = MaxAttempts
    BY <1>0, <1>1 DEF Counted
  <2>1. CASE s = active.sig /\ (GivesBack \/ Settles("abandoned"))
    <3>1. Cardinality(FailedTurns(s)') = Cardinality(FailedTurns(s)) + 1
      BY <2>0, <2>1, FailuresMove, FailedIsFinite, FS_AddElement
    <3>2. s \in cur
      BY <1>0, <2>1 DEF GivesBack, Settles
    <3>3. s \notin setdown
      BY <1>0, <2>0, <3>2 DEF DealtWithOnce, Answered
    <3>4. CASE GivesBack
      <4>1. tries'[s] = tries[s] + 1 /\ setdown' = setdown /\ ~(tries[s] + 1 >= MaxAttempts)
        BY <1>0, <2>0, <2>1, <3>4 DEF GivesBack, Requeue, GiveUp
      <4> QED  BY <1>0, <2>0, <3>1, <3>3, <4>1
    <3>5. CASE Settles("abandoned")
      <4>1. tries' = tries /\ s \in setdown' /\ tries[s] + 1 >= MaxAttempts
        BY <1>1, <2>1, <3>5 DEF Settles, Ack, GiveUp
      <4> QED  BY <1>0, <2>0, <3>1, <3>3, <4>1
    <3> QED  BY <2>1, <3>4, <3>5
  <2>2. CASE ~(s = active.sig /\ (GivesBack \/ Settles("abandoned")))
    <3>1. FailedTurns(s)' = FailedTurns(s)
      BY <2>0, <2>2, FailuresMove
    <3>2. tries'[s] = tries[s]
      BY <1>0, <2>0, <2>2 DEF Moves, Still, Arrives, Push, Opens, Settles, Ack, GivesBack, Requeue, Recovers, inbox
    <3>3. s \in setdown' <=> s \in setdown
      BY <2>2 DEF Moves, Still, Arrives, Opens, Settles, GivesBack, Recovers, records
    <3> QED  BY <2>0, <3>1, <3>2, <3>3
  <2> QED  BY <2>1, <2>2
<1>2. ASSUME NEW s \in Signals \ Human, FailedTurns(s)' # {}
      PROVE  Cardinality(FailedTurns(s)') = 1 /\ s \notin new' \union cur' /\ stamp'[s] > 0
  <2>0. FailedTurns(s) # {} => Cardinality(FailedTurns(s)) = 1 /\ s \notin new \union cur /\ stamp[s] > 0
    BY <1>2 DEF Counted
  <2>1. CASE s = active.sig /\ Settles("abandoned")
    <3>1. s \in cur /\ cur = {s} /\ cur' = {} /\ new' = new /\ stamp' = stamp
      BY <1>0, <2>1 DEF Settles, Ack
    <3>2. FailedTurns(s) = {}
      BY <2>0, <3>1
    <3>3. FailedTurns(s)' = {active.id}
      BY <1>2, <2>1, <3>2, FailuresMove
    <3>4. Cardinality({active.id}) = 1
      BY FS_Singleton
    <3> QED  BY <1>0, <3>1, <3>3, <3>4
  <2>2. CASE ~(s = active.sig /\ Settles("abandoned"))
    <3>1. ~(s = active.sig /\ GivesBack)
      BY <1>2 DEF GivesBack
    <3>2. FailedTurns(s)' = FailedTurns(s)
      BY <1>2, <2>2, <3>1, FailuresMove
    <3>3. s \notin new \union cur /\ stamp[s] > 0 /\ Cardinality(FailedTurns(s)) = 1
      BY <1>2, <2>0, <3>2
    <3>4. stamp'[s] > 0
      BY <1>0, <1>2, <3>3, StampsStand
    <3>5. s \notin new' \union cur'
      <4>1. CASE Still \/ Recovers \/ \E how \in Ended : Settles(how)
        BY <3>3, <4>1 DEF Still, inbox, Recovers, RecoverHeld, Settles, Ack
      <4>2. CASE GivesBack
        BY <1>2, <3>3, <4>2 DEF GivesBack, Requeue
      <4>3. ASSUME NEW x \in Signals, Arrives(x) PROVE s \notin new' \union cur'
        BY <3>3, <4>3 DEF Arrives, Push
      <4>4. ASSUME NEW due \in SUBSET alarms, NEW x \in new \union due, Opens(x, due)
            PROVE  s \notin new' \union cur'
        <5>1. s \notin due
          BY <1>0, <3>3
        <5> QED  BY <3>3, <4>4, <5>1 DEF Opens
      <4> QED  BY <4>1, <4>2, <4>3, <4>4 DEF Moves
    <3> QED  BY <3>2, <3>3, <3>4, <3>5
  <2> QED  BY <2>1, <2>2
<1> QED  BY <1>1, <1>2 DEF Counted

\* While the core stays up, a person's message is tried MaxAttempts times and no more, and only
\* then set down; anything else is tried once, whatever the mentor and the processes do.
THEOREM PatienceEnds == Spec => []PatienceBounded
<1>1. Init => Counted
  <2> SUFFICES ASSUME Init PROVE Counted
    OBVIOUS
  <2>1. \A s \in Signals : FailedTurns(s) = {}
    BY DEF Init, FailedTurns, TurnsOf
  <2>2. Human \subseteq Signals
    BY DEF Signals
  <2>3. \A s \in Signals : Cardinality(FailedTurns(s)) = 0 /\ tries[s] = 0
    BY <2>1, FS_EmptySet DEF Init
  <2>4. setdown = {} /\ 0 < MaxAttempts
    BY TurnsAssumption DEF Init
  <2> QED  BY <2>1, <2>2, <2>3, <2>4 DEF Counted
<1>2. Ledger /\ Counted /\ [Next]_vars => Counted'
  BY CountedStep, EveryStepMoves DEF Ledger, Books
<1>3. Ledger /\ Counted => PatienceBounded
  <2> SUFFICES ASSUME Ledger, Counted PROVE PatienceBounded
    OBVIOUS
  <2>1. \A s \in Signals : tries[s] \in Nat
    BY DEF Ledger, Books, Inv, TypeOK
  <2>2. Human \subseteq Signals /\ setdown \subseteq Human /\ MaxAttempts \in Nat
    BY TurnsAssumption DEF Signals, Ledger, Named
  <2>3. \A s \in Signals : FailedTurns(s) = {} => Cardinality(FailedTurns(s)) = 0
    BY FS_EmptySet
  <2>4. \A s \in Human : Cardinality(FailedTurns(s)) <= MaxAttempts
    BY <2>1, <2>2 DEF Counted
  <2>5. \A s \in Signals \ Human : Cardinality(FailedTurns(s)) <= 1
    BY <2>3 DEF Counted
  <2>6. \A s \in setdown : Cardinality(FailedTurns(s)) = MaxAttempts
    BY <2>1, <2>2 DEF Counted
  <2> QED  BY <2>4, <2>5, <2>6 DEF PatienceBounded
<1> QED  BY <1>1, <1>2, <1>3, LedgerInit, LedgerStep, PTL DEF Spec

=============================================================================
