-------------------------------- MODULE Post --------------------------------
(***************************************************************************)
(* How the hub keeps the inbox and the schedule on disk, one file          *)
(* operation at a time: core/src/store/inbox.rs and schedule.rs under the  *)
(* handlers of core/src/hub.rs that use them.  The core may die between    *)
(* any two operations of a handler; files outlive it, the rest does not.   *)
(*                                                                         *)
(* Turns.tla takes each handler as one step; here there are no processes,  *)
(* only what a handler does to the files and in which order.               *)
(*                                                                         *)
(* A definition whose name ends in Slip is the one after it with a mistake *)
(* a change to the code could make; no action uses it.                     *)
(***************************************************************************)
EXTENDS Schedule, FiniteSets

CONSTANTS
    People,        \* messages and commands a person gives
    Strays,        \* files in new/ that no core wrote and none can read
    NoFile,        \* nothing in hand
    Words,         \* what somebody may say of when an alarm goes off
    Prefixes,      \* the sets of alarm ids that some text is a prefix of
    MaxAttempts,   \* hub.rs MAX_ATTEMPTS
    MaxClock,      \* bound: the last moment
    MaxFires,      \* bound: how often an alarm may go off
    MaxRestarts,   \* bound: how often the core may die
    MaxCopies      \* bound: files of one signal that have been in the inbox at once, less one

Rings   == AlarmIds \X (1..MaxFires)        \* the times an alarm goes off
Signals == People \union Rings

\* A file of the inbox; `copy` stands for the part of its name that makes it unique.
File == [sig : Signals \union Strays, tries : Nat, copy : 0..MaxCopies]

ASSUME PostAssumption ==
    /\ People \intersect Strays = {} /\ (People \union Strays) \intersect Rings = {}
    /\ NoFile \notin File
    /\ Words \subseteq Word
    /\ \A S \in Prefixes : S \subseteq AlarmIds
    /\ MaxAttempts \in Nat \ {0} /\ MaxClock \in Nat /\ MaxFires \in Nat
    /\ MaxRestarts \in Nat /\ MaxCopies \in Nat

VARIABLES
    new, cur, bad,     \* the inbox: waiting, in hand, put aside
    alarms,            \* the schedule's file
    stamp, tick,       \* arrival time in the names of a signal's files, 0 before it arrives
    closed,            \* database: signals whose turn was closed for good
    tried,             \* database: turns of each signal that were abandoned
    clock, restarts,
    up, at,            \* the core, and the operation the handler it is in comes to next
    hand,              \* the signal it has in hand, as the file it was taken from
    ringing,           \* alarms taken off the schedule and not yet put in the inbox
    owed               \* history, no part of the program: what fell due, less what was cancelled
                       \* and what the core had taken off the schedule when it died

files == <<new, cur, bad, alarms, stamp, tick>>
db    == <<closed, tried>>
time  == <<clock, restarts, owed>>
core  == <<up, at, hand, ringing>>
vars  == <<files, db, time, core>>

Steps == {"free", "ring", "read", "copy", "ack"}

\* The types of the program's state.
TypeOK ==
    /\ new \subseteq File /\ cur \subseteq File /\ bad \subseteq File
    /\ alarms \subseteq Alarm
    /\ stamp \in [Signals \union Strays -> Nat] /\ tick \in Nat
    /\ closed \subseteq Signals /\ tried \in [Signals -> Nat]
    /\ clock \in Nat /\ restarts \in Nat
    /\ up \in BOOLEAN /\ at \in Steps /\ hand \in File \union {NoFile}
    /\ ringing \subseteq Rings /\ owed \subseteq Rings

-----------------------------------------------------------------------------
Rank(sig) == IF sig \in Rings THEN 2 ELSE 0

\* No file of the signal has this number in its name.
Unused(n, sig) == \A f \in new \union cur \union bad : f.sig = sig => f.copy # n

\* Inbox::push of a signal that has been tried so often, under the time it first arrived.
\* The temporary file it is first written to is never listed, so this is one operation.
Put(sig, tries) ==
    /\ \E n \in 0..MaxCopies :
          /\ Unused(n, sig) /\ \A k \in 0..(n - 1) : ~Unused(k, sig)
          /\ new' = new \union {[sig |-> sig, tries |-> tries, copy |-> n]}
    /\ IF stamp[sig] = 0 THEN stamp' = [stamp EXCEPT ![sig] = tick + 1] /\ tick' = tick + 1
       ELSE UNCHANGED <<stamp, tick>>

IsFirst(f, S) == /\ f \in S
                 /\ \A g \in S : \/ Rank(f.sig) < Rank(g.sig)
                                 \/ Rank(f.sig) = Rank(g.sig) /\ stamp[f.sig] <= stamp[g.sig]

Goes(to) == at' = to

\* The next time each alarm goes off, of those that are due; and of those the bound allows.
Falls(all, now) == {<<a.id, a.fires + 1>> : a \in Due(all, now)}
FallsNow(all, now) == Falls(all, now) \intersect Rings

-----------------------------------------------------------------------------
(* The world: time passes, somebody speaks, sets or cancels alarms, or     *)
(* leaves a file in the inbox that is not a signal.                        *)

Tick == /\ clock < MaxClock
        /\ clock' = clock + 1 /\ owed' = owed \union FallsNow(alarms, clock + 1)
        /\ UNCHANGED <<files, db, restarts, core>>

Say(m) ==
    /\ up /\ at = "free"
    /\ m \in People /\ stamp[m] = 0
    /\ Put(m, 0)
    /\ UNCHANGED <<cur, bad, alarms, db, time, core>>

Drop(s) ==
    /\ s \in Strays /\ stamp[s] = 0
    /\ Put(s, 0)
    /\ UNCHANGED <<cur, bad, alarms, db, time, core>>

Add(id, moment, repeat) ==
    /\ \A a \in alarms : a.id # id
    /\ \A n \in 1..MaxFires : stamp[<<id, n>>] = 0 /\ <<id, n>> \notin ringing
    /\ repeat.kind = "once" => moment # {}
    /\ alarms' = alarms \union {[id |-> id, when |-> First(clock, moment, repeat),
                                 repeat |-> repeat, fires |-> 0]}
    /\ owed' = owed \union FallsNow(alarms', clock)
    /\ UNCHANGED <<new, cur, bad, stamp, tick, db, clock, restarts, core>>

\* By a prefix, and only if something goes.
Cancel(ids) ==
    /\ \E a \in alarms : a.id \in ids
    /\ alarms' = {a \in alarms : a.id \notin ids}
    /\ owed' = owed \ {<<a.id, a.fires + 1>> : a \in alarms \ alarms'}
    /\ UNCHANGED <<new, cur, bad, stamp, tick, db, clock, restarts, core>>

\* What a person or a mind may do with the schedule, by what their words are read as; to list it
\* changes nothing.
AlarmAction ==
    /\ up /\ at = "free"
    /\ \/ \E moment \in {ParseWhen(w, clock) : w \in Words},
            repeat \in {ParseRepeat(w) : w \in Words} :
             \E id \in AlarmIds : Add(id, moment, repeat)
       \/ \E ids \in Prefixes : Cancel(ids)

-----------------------------------------------------------------------------
(* hub.rs next_duty: what is due is taken off the schedule in one update,  *)
(* put in the inbox one by one, and then the first signal is taken.        *)

TakeDue ==
    /\ up /\ at = "free" /\ hand = NoFile
    /\ \A a \in Due(alarms, clock) : a.fires < MaxFires
    /\ alarms' = Kept(alarms, clock)
    /\ ringing' = Falls(alarms, clock)
    /\ Goes("ring")
    /\ UNCHANGED <<new, cur, bad, stamp, tick, db, time, up, hand>>

Ring == /\ up /\ at = "ring"
        /\ \E r \in ringing : Put(r, 0) /\ ringing' = ringing \ {r}
        /\ UNCHANGED <<cur, bad, alarms, db, time, up, at, hand>>

PopSlip ==      \* what waits is taken before what rings, which is then forgotten
    /\ up /\ at = "ring"
    /\ \E f \in new : /\ IsFirst(f, new)
                      /\ new' = new \ {f} /\ cur' = cur \union {f} /\ hand' = f
    /\ Goes("read") /\ ringing' = {}
    /\ UNCHANGED <<bad, alarms, stamp, tick, db, time, up>>

Pop == /\ up /\ at = "ring" /\ ringing = {}
       /\ \E f \in new : /\ IsFirst(f, new)
                         /\ new' = new \ {f} /\ cur' = cur \union {f}
                         /\ hand' = f
       /\ Goes("read")
       /\ UNCHANGED <<bad, alarms, stamp, tick, db, time, up, ringing>>

NothingWaits == /\ up /\ at = "ring" /\ ringing = {} /\ new = {}
                /\ Goes("free")
                /\ UNCHANGED <<files, db, time, up, hand, ringing>>

\* A signal is read, and a turn begins.
ReadSignal == /\ up /\ at = "read" /\ hand.sig \in Signals
              /\ Goes("free")
              /\ UNCHANGED <<files, db, time, up, hand, ringing>>

\* What cannot be parsed is put aside, what cannot be read stays where it is; either way the
\* next file is tried.
SkipStray == /\ up /\ at = "read" /\ hand.sig \in Strays
             /\ \/ cur' = cur \ {hand} /\ bad' = bad \union {hand}
                \/ UNCHANGED <<cur, bad>>
             /\ hand' = NoFile
             /\ Goes("ring")
             /\ UNCHANGED <<new, alarms, stamp, tick, db, time, up, ringing>>

-----------------------------------------------------------------------------
(* How a turn ends: hub.rs finish and interrupt, and abandon.  Each tells  *)
(* the database first and lets go of the file last.                        *)

InHand == up /\ at = "free" /\ hand # NoFile

Close == /\ InHand
         /\ closed' = closed \union {hand.sig}
         /\ Goes("ack")
         /\ UNCHANGED <<files, tried, time, up, hand, ringing>>

\* Only a person's message, and only so often.
Retry == hand.sig \in People /\ hand.tries + 1 < MaxAttempts

Abandon == /\ InHand
           /\ tried' = [tried EXCEPT ![hand.sig] = @ + 1]
           /\ IF Retry THEN UNCHANGED closed /\ Goes("copy")
              ELSE closed' = closed \union {hand.sig} /\ Goes("ack")
           /\ UNCHANGED <<files, time, up, hand, ringing>>

CopySlip ==      \* the count is not written back
    /\ up /\ at = "copy"
    /\ Put(hand.sig, hand.tries)
    /\ Goes("ack")
    /\ UNCHANGED <<cur, bad, alarms, db, time, up, hand, ringing>>

CopyMovesSlip ==      \* the held file is removed before the copy is written
    /\ up /\ at = "copy"
    /\ IF hand \in cur THEN /\ cur' = cur \ {hand} /\ UNCHANGED <<new, stamp, tick, at>>
       ELSE Put(hand.sig, hand.tries + 1) /\ Goes("ack") /\ UNCHANGED cur
    /\ UNCHANGED <<bad, alarms, db, time, up, hand, ringing>>

\* Inbox::requeue, its first half: the copy that counts the failure.
Copy == /\ up /\ at = "copy"
        /\ Put(hand.sig, hand.tries + 1)
        /\ Goes("ack")
        /\ UNCHANGED <<cur, bad, alarms, db, time, up, hand, ringing>>

AckSlip ==      \* the file is left behind
    /\ up /\ at = "ack"
    /\ hand' = NoFile
    /\ Goes("free")
    /\ UNCHANGED <<files, db, time, up, ringing>>

\* Inbox::ack, which is also the second half of requeue.
Ack == /\ up /\ at = "ack"
       /\ cur' = cur \ {hand}
       /\ hand' = NoFile
       /\ Goes("free")
       /\ UNCHANGED <<new, bad, alarms, stamp, tick, db, time, up, ringing>>

-----------------------------------------------------------------------------
(* The core dies wherever it is, and opens the inbox again.                *)

Crash == /\ up /\ restarts < MaxRestarts
         /\ up' = FALSE /\ at' = "free" /\ hand' = NoFile /\ ringing' = {}
         /\ owed' = owed \ ringing
         /\ UNCHANGED <<files, db, clock, restarts>>

\* Inbox::recover, one file at a time; dying here only means to begin again.
GiveBack == /\ ~up
            /\ \E f \in cur : cur' = cur \ {f} /\ new' = new \union {f}
            /\ UNCHANGED <<bad, alarms, stamp, tick, db, time, core>>

Open == /\ ~up /\ cur = {}
        /\ up' = TRUE /\ restarts' = restarts + 1
        /\ UNCHANGED <<files, db, clock, owed, at, hand, ringing>>

-----------------------------------------------------------------------------
Init ==
    /\ new = {} /\ cur = {} /\ bad = {} /\ alarms = {}
    /\ stamp = [s \in Signals \union Strays |-> 0] /\ tick = 0
    /\ closed = {} /\ tried = [s \in Signals |-> 0]
    /\ clock = 0 /\ restarts = 0
    /\ up = TRUE /\ at = "free" /\ hand = NoFile /\ ringing = {}
    /\ owed = {}

World == \/ Tick
         \/ \E m \in People : Say(m)
         \/ \E s \in Strays : Drop(s)
         \/ AlarmAction

Hub == TakeDue \/ Ring \/ Pop \/ NothingWaits \/ ReadSignal \/ SkipStray
       \/ Close \/ Abandon \/ Copy \/ Ack

Lifecycle == Crash \/ GiveBack \/ Open

Next == World \/ Hub \/ Lifecycle

Spec == Init /\ [][Next]_vars

-----------------------------------------------------------------------------
(* Properties.                                                             *)

FilesOf(sig) == {f \in new \union cur : f.sig = sig}

\* "Losing a person's message is not [survivable]" (inbox.rs:14): between any two file
\* operations, until its turn was closed, a message that arrived is in some file.
NeverLost == \A m \in People : stamp[m] > 0 /\ m \notin closed => FilesOf(m) # {}

\* Delivery is at least once (inbox.rs:13), and no more than the crashes explain: each leaves
\* at most one file too many behind.
CopiesBounded == up /\ at = "free" => \A s \in Signals : Cardinality(FilesOf(s)) <= 1 + restarts

\* A message that kills every process is given up on in the end even if the core dies between
\* writing the copy that counts the failure and removing the one that does not.
PatienceSurvives == \A m \in People : tried[m] <= MaxAttempts * (1 + restarts)

\* Whenever the core is in no handler, what it holds in cur/ is what it has in hand, so nothing
\* has to wait for a restart to be seen again; only files that cannot be read are left there.
NothingStranded == up /\ at = "free" => {f \in cur : f.sig \in Signals} = {hand} \ {NoFile}

(***************************************************************************)
(* No alarm that fell due is lost, and none goes off twice for one time,   *)
(* one-off or repeating, however many are due together: unless it is       *)
(* cancelled, each time it fell due is in one of three places, due on the  *)
(* schedule, in the hands of next_duty, or with its signal in the inbox;   *)
(* and next_duty takes no signal before the last of them is in the inbox.  *)
(* A core that dies in between loses those it has in hand, and no others.  *)
(***************************************************************************)
AlarmsArrive ==
    /\ \A r \in owed :
          LET waits == r \in Falls(alarms, clock)   came == stamp[r] > 0
          IN  \/ waits /\ r \notin ringing /\ ~came
              \/ ~waits /\ (r \in ringing <=> ~came)
    /\ at # "ring" => ringing = {}

\* A repeating alarm that slept through its time goes off once, not a hundred and forty times
\* (schedule.rs:119): its next time is in the future and keeps its phase.
BacklogIsSkipped ==
    [][\A a \in alarms, b \in alarms' :
          a.id = b.id /\ b.fires > a.fires =>
              /\ b.when > clock
              /\ a.repeat.kind = "every" => (b.when - a.when) % a.repeat.of = 0
              /\ a.repeat.kind = "daily" => b.when % Day = a.repeat.of]_vars
=============================================================================
